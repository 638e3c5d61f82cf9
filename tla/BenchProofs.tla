------------------------------ MODULE BenchProofs ------------------------------
(***************************************************************************)
(* The programs of the IR bench, proved for every number of sessions,      *)
(* slots, commands, chunks and letters: Simple Learner and Learning Studio *)
(* with the device behind its serial line, the authorised replay, the two  *)
(* assemblers of an export, and MCIrBench, in which they share the port.   *)
(***************************************************************************)
EXTENDS MCIrBench, SequenceTheorems, TLAPS


(***************************************************************************)
(* The device behind its line (LearnDevice).                               *)
(***************************************************************************)
Sessions0 == Sessions \cup {NoSession}
CommandLines ==
    [cmd : {"begin", "cancel", "export", "clear", "status"}, session : Sessions0]
PlainEvents ==
    [event : {"error", "waiting", "export.error", "cleared", "status", "timeout"},
     session : Sessions0]
ExitEvents == [event : {"cancelled"}, session : Sessions0, exitConfirmed : BOOLEAN]

\* A frame is announced and exported under the session it was received in.
FrameEvents ==
    {e \in [event : {"export.begin", "export.done", "captured"},
            session : Sessions, frame : Sessions] : e.frame = e.session}
HostEvents == PlainEvents \cup FrameEvents \cup ExitEvents

DeviceInv ==
    /\ dev \in [lab : BOOLEAN, ext : BOOLEAN, told : BOOLEAN,
                session : Sessions0, frame : Sessions0]
    /\ dev.frame \in {NoFrame, dev.session}
    /\ toDev \in Seq(CommandLines)
    /\ toHost \in Seq(HostEvents)

\* The device does something its line does not show.
Quiet ==
    /\ toDev' = toDev /\ toHost' = toHost
    /\ dev'.session = dev.session /\ dev'.told = dev.told

\* It reports a key press, once a session, or the end of its patience.
Notifies(e) ==
    /\ e.event \in {"captured", "timeout"}
    /\ toDev' = toDev /\ toHost' = Append(toHost, e)
    /\ dev'.session = dev.session
    /\ e.event = "captured" => ~dev.told /\ dev'.told /\ e.session = dev.session
    /\ e.event = "timeout" => dev'.told = dev.told

\* It answers the oldest line.
Answers(events) ==
    /\ toDev # <<>> /\ toDev' = Tail(toDev) /\ toHost' = toHost \o events
    /\ Len(events) \in {1, 2}
    /\ \A k \in 1..Len(events) :
         /\ events[k].event # "captured"
         /\ events[k].event = "waiting" =>
              Head(toDev).cmd = "begin" /\ events[k].session = Head(toDev).session
         /\ events[k].event = "cancelled" =>
              /\ Head(toDev).cmd = "cancel" /\ events[k].session = Head(toDev).session
              /\ Len(events) = 1
    /\ \/ dev'.session = dev.session /\ dev'.told = dev.told
       \/ Head(toDev).cmd = "begin" /\ dev'.session = Head(toDev).session
       \/ Head(toDev).cmd = "clear" /\ dev' = IdleDevice

\* Sequences, place by place.
LEMMA TailOf ==
    ASSUME NEW S, NEW s \in Seq(S), s # <<>>
    PROVE  /\ Tail(s) \in Seq(S) /\ Len(Tail(s)) = Len(s) - 1 /\ Len(s) \in Nat /\ Len(s) >= 1
           /\ Head(s) = s[1] /\ Head(s) \in S
           /\ \A i \in 1..Len(Tail(s)) : i + 1 \in 1..Len(s) /\ Tail(s)[i] = s[i + 1]
  OBVIOUS

\* What one more at the end is.
LEMMA AppendOf ==
    ASSUME NEW S, NEW s \in Seq(S), NEW e \in S
    PROVE  /\ Append(s, e) \in Seq(S) /\ Len(Append(s, e)) = Len(s) + 1 /\ Len(s) \in Nat
           /\ Append(s, e)[Len(s) + 1] = e
           /\ \A i \in 1..Len(s) : Append(s, e)[i] = s[i]
           /\ \A i \in 1..Len(Append(s, e)) : i \in 1..Len(s) \/ i = Len(s) + 1
  OBVIOUS

\* What two sequences in a row are, with what holds of every member.
LEMMA ConcatOf ==
    ASSUME NEW S, NEW s \in Seq(S), NEW t \in Seq(S)
    PROVE  /\ s \o t \in Seq(S) /\ Len(s \o t) = Len(s) + Len(t)
           /\ Len(s) \in Nat /\ Len(t) \in Nat
           /\ \A i \in 1..Len(s) : (s \o t)[i] = s[i]
           /\ \A i \in 1..Len(s \o t) :
                 \/ i \in 1..Len(s) /\ (s \o t)[i] = s[i]
                 \/ i > Len(s) /\ i - Len(s) \in 1..Len(t) /\ (s \o t)[i] = t[i - Len(s)]
  OBVIOUS

\* t is a connected part of s.
Part(t, s) ==
    \E a \in 0..Len(s) :
        /\ Len(t) + a <= Len(s)
        /\ \A i \in 1..Len(t) : i + a \in 1..Len(s) /\ t[i] = s[i + a]

\* Ends and beginnings of a sequence are parts of it.
LEMMA PartOf ==
    ASSUME NEW S, NEW s \in Seq(S)
    PROVE  /\ Part(s, s) /\ Part(<<>>, s)
           /\ s # <<>> => Part(Tail(s), s)
           /\ \A k \in 0..Len(s) :
                /\ SubSeq(s, k + 1, Len(s)) \in Seq(S) /\ Part(SubSeq(s, k + 1, Len(s)), s)
                /\ SubSeq(s, 1, k) \in Seq(S) /\ Part(SubSeq(s, 1, k), s)
  <1>1. Len(s) \in Nat /\ 0 \in 0..Len(s) /\ Len(<<>>) = 0
    OBVIOUS
  <1>2. Part(s, s) /\ Part(<<>>, s)
    BY <1>1 DEF Part
  <1>3. ASSUME s # <<>> PROVE Part(Tail(s), s)
    <2>1. 1 \in 0..Len(s) /\ Len(Tail(s)) + 1 <= Len(s)
      BY <1>1, <1>3, TailOf
    <2>. QED
      BY <1>3, <2>1, TailOf DEF Part
  <1>4. ASSUME NEW k \in 0..Len(s)
        PROVE  /\ SubSeq(s, k + 1, Len(s)) \in Seq(S) /\ Part(SubSeq(s, k + 1, Len(s)), s)
               /\ SubSeq(s, 1, k) \in Seq(S) /\ Part(SubSeq(s, 1, k), s)
    <2>. DEFINE t == SubSeq(s, k + 1, Len(s))
                u == SubSeq(s, 1, k)
    <2>1. /\ t \in Seq(S) /\ Len(t) = Len(s) - k
          /\ \A i \in 1..Len(t) : i + k \in 1..Len(s) /\ t[i] = s[i + k]
      BY <1>1
    <2>2. /\ u \in Seq(S) /\ Len(u) = k
          /\ \A i \in 1..Len(u) : i + 0 \in 1..Len(s) /\ u[i] = s[i + 0]
      BY <1>1
    <2>. HIDE DEF t, u
    <2>3. Part(t, s)
      BY <1>1, <2>1 DEF Part
    <2>4. Part(u, s)
      BY <1>1, <2>2 DEF Part
    <2>. QED
      BY <2>1, <2>2, <2>3, <2>4 DEF t, u
  <1>. QED
    BY <1>2, <1>3, <1>4

\* The session no session has is among those a variable may hold.
LEMMA ZeroSession == NoSession \in Sessions0 /\ NoFrame \in Sessions0 /\ Sessions \subseteq Sessions0
  BY DEF Sessions0, NoSession, NoFrame

\* Lines and events have their shapes.
LEMMA EventForms ==
    /\ \A cmd \in {"begin", "cancel", "export", "clear", "status"}, s \in Sessions0 :
         Line(cmd, s) \in CommandLines /\ Line(cmd, s).cmd = cmd /\ Line(cmd, s).session = s
    /\ \A n \in {"error", "waiting", "export.error", "cleared", "status", "timeout"}, s \in Sessions0 :
         Event(n, s) \in HostEvents /\ Event(n, s).event = n /\ Event(n, s).session = s
    /\ \A n \in {"export.begin", "export.done", "captured"}, s \in Sessions :
         FrameEvent(n, s, s) \in HostEvents /\ FrameEvent(n, s, s).event = n
         /\ FrameEvent(n, s, s).session = s
    /\ \A ok \in BOOLEAN, s \in Sessions0 :
         ExitEvent(s, ok) \in HostEvents /\ ExitEvent(s, ok).event = "cancelled"
         /\ ExitEvent(s, ok).session = s
  BY DEF Line, Event, FrameEvent, ExitEvent, CommandLines, HostEvents, PlainEvents, FrameEvents,
     ExitEvents

\* The device starts idle, with nothing on its line.
LEMMA DeviceStart == DeviceInit => DeviceInv
  <1>1. \A S : <<>> \in Seq(S)
    OBVIOUS
  <1>. QED
    BY <1>1, ZeroSession DEF DeviceInit, DeviceInv, IdleDevice

\* One reply to the oldest line.
LEMMA AnswerOne ==
    ASSUME DeviceInv, toDev # <<>>, NEW e \in HostEvents,
           e.event # "captured",
           e.event = "waiting" => Head(toDev).cmd = "begin" /\ e.session = Head(toDev).session,
           e.event = "cancelled" => Head(toDev).cmd = "cancel" /\ e.session = Head(toDev).session,
           NEW d \in [lab : BOOLEAN, ext : BOOLEAN, told : BOOLEAN,
                      session : Sessions0, frame : Sessions0],
           d.frame \in {NoFrame, d.session},
           \/ d.session = dev.session /\ d.told = dev.told
           \/ Head(toDev).cmd = "begin" /\ d.session = Head(toDev).session
           \/ Head(toDev).cmd = "clear" /\ d = IdleDevice,
           Answer(d, <<e>>)
    PROVE  DeviceInv' /\ \E events \in Seq(HostEvents) : Answers(events)
  <1>1. <<e>> \in Seq(HostEvents) /\ Len(<<e>>) = 1 /\ \A k \in 1..Len(<<e>>) : <<e>>[k] = e
    OBVIOUS
  <1>2. Answers(<<e>>)
    BY <1>1 DEF Answers, Answer
  <1>3. toDev' \in Seq(CommandLines) /\ toHost' \in Seq(HostEvents)
    BY <1>1, TailOf, ConcatOf DEF DeviceInv, Answer
  <1>. QED
    BY <1>1, <1>2, <1>3 DEF DeviceInv, Answer

\* What a step of the device is, seen from its line.
LEMMA DeviceStep ==
    ASSUME DeviceInv, DeviceNext
    PROVE  /\ DeviceInv'
           /\ \/ Quiet
              \/ \E e \in HostEvents : Notifies(e)
              \/ \E events \in Seq(HostEvents) : Answers(events)
  <1>1. ASSUME toDev # <<>> PROVE Head(toDev) \in CommandLines
    BY <1>1, TailOf DEF DeviceInv
  <1>2. CASE DeviceReceive
    <2>. DEFINE s == Head(toDev).session
    <2>1. toDev # <<>> /\ s \in Sessions0
      BY <1>1, <1>2 DEF DeviceReceive, CommandLines
    <2>2. CASE Head(toDev).cmd = "begin" /\ DeviceBegin(s)
      <3>1. \/ Answer(dev, <<Event("error", s)>>)
            \/ Answer(Entered(s), <<Event("waiting", s)>>)
            \/ Answer([Entered(s) EXCEPT !.lab = FALSE, !.ext = FALSE], <<Event("error", s)>>)
        BY <2>2 DEF DeviceBegin
      <3>. DEFINE a == Entered(s)
                  b == [Entered(s) EXCEPT !.lab = FALSE, !.ext = FALSE]
      <3>2. /\ a \in [lab : BOOLEAN, ext : BOOLEAN, told : BOOLEAN,
                      session : Sessions0, frame : Sessions0]
            /\ a.frame = NoFrame /\ a.session = s
            /\ b \in [lab : BOOLEAN, ext : BOOLEAN, told : BOOLEAN,
                      session : Sessions0, frame : Sessions0]
            /\ b.frame = NoFrame /\ b.session = s
        BY <2>1, ZeroSession DEF Entered, DeviceInv
      <3>. HIDE DEF a, b, s
      <3>3. /\ Event("error", s) \in HostEvents /\ Event("error", s).event = "error"
            /\ Event("waiting", s) \in HostEvents /\ Event("waiting", s).event = "waiting"
            /\ Event("waiting", s).session = s
        BY <2>1, EventForms
      <3>4. CASE Answer(dev, <<Event("error", s)>>)
        BY <3>3, <3>4, <2>1, AnswerOne DEF DeviceInv
      <3>5. CASE Answer(a, <<Event("waiting", s)>>)
        BY <3>2, <3>3, <3>5, <2>1, <2>2, AnswerOne DEF s
      <3>6. CASE Answer(b, <<Event("error", s)>>)
        BY <3>2, <3>3, <3>6, <2>1, <2>2, AnswerOne DEF s
      <3>. QED
        BY <3>1, <3>4, <3>5, <3>6 DEF a, b
    <2>3. CASE Head(toDev).cmd = "cancel" /\ DeviceCancel(s)
      <3>. DEFINE d == [dev EXCEPT !.lab = FALSE, !.ext = FALSE]
      <3>1. PICK ok \in BOOLEAN : Answer(d, <<ExitEvent(s, ok)>>)
        BY <2>3 DEF DeviceCancel
      <3>2. /\ d \in [lab : BOOLEAN, ext : BOOLEAN, told : BOOLEAN,
                      session : Sessions0, frame : Sessions0]
            /\ d.frame = dev.frame /\ d.session = dev.session /\ d.told = dev.told
        BY DEF DeviceInv
      <3>3. /\ ExitEvent(s, ok) \in HostEvents /\ ExitEvent(s, ok).event = "cancelled"
            /\ ExitEvent(s, ok).session = s
        BY <2>1, EventForms
      <3>. HIDE DEF d, s
      <3>4. d.frame \in {NoFrame, d.session}
        BY <3>2 DEF DeviceInv
      <3>. QED
        BY <3>1, <3>2, <3>3, <3>4, <2>1, <2>3, AnswerOne DEF s
    <2>4. CASE Head(toDev).cmd = "export" /\ DeviceExport(s)
      <3>1. CASE s = dev.session /\ dev.frame # NoFrame
        <4>. DEFINE e1 == FrameEvent("export.begin", s, dev.frame)
                    e2 == FrameEvent("export.done", s, dev.frame)
                    events == <<e1, e2>>
        <4>1. dev.frame = s /\ s \in Sessions
          BY <3>1 DEF DeviceInv, Sessions0, NoFrame, NoSession
        <4>2. /\ e1 \in HostEvents /\ e1.event = "export.begin"
              /\ e2 \in HostEvents /\ e2.event = "export.done"
          BY <4>1, EventForms
        <4>3. Answer(dev, events)
          BY <2>4, <3>1 DEF DeviceExport
        <4>. HIDE DEF e1, e2, s
        <4>4. /\ events \in Seq(HostEvents) /\ Len(events) = 2
              /\ \A k \in 1..Len(events) : events[k] \in {e1, e2}
          BY <4>2
        <4>. HIDE DEF events
        <4>5. Answers(events)
          BY <4>2, <4>3, <4>4, <2>1 DEF Answers, Answer
        <4>6. toDev' \in Seq(CommandLines) /\ toHost' \in Seq(HostEvents)
          BY <4>3, <4>4, <2>1, TailOf, ConcatOf DEF DeviceInv, Answer
        <4>. QED
          BY <4>3, <4>4, <4>5, <4>6 DEF DeviceInv, Answer
      <3>2. CASE ~(s = dev.session /\ dev.frame # NoFrame)
        <4>1. Answer(dev, <<Event("export.error", s)>>)
          BY <2>4, <3>2 DEF DeviceExport
        <4>2. Event("export.error", s) \in HostEvents /\ Event("export.error", s).event = "export.error"
          BY <2>1, EventForms
        <4>. QED
          BY <4>1, <4>2, <2>1, AnswerOne DEF DeviceInv
      <3>. QED
        BY <3>1, <3>2
    <2>5. CASE Head(toDev).cmd = "clear" /\ DeviceClear
      <3>1. /\ Event("cleared", NoSession) \in HostEvents
            /\ Event("cleared", NoSession).event = "cleared"
        BY ZeroSession, EventForms
      <3>2. /\ IdleDevice \in [lab : BOOLEAN, ext : BOOLEAN, told : BOOLEAN,
                               session : Sessions0, frame : Sessions0]
            /\ IdleDevice.frame = NoFrame
        BY ZeroSession DEF IdleDevice
      <3>. QED
        BY <3>1, <3>2, <2>1, <2>5, AnswerOne DEF DeviceClear
    <2>6. CASE Head(toDev).cmd = "status" /\ DeviceStatus
      <3>1. /\ Event("status", dev.session) \in HostEvents
            /\ Event("status", dev.session).event = "status"
        BY EventForms DEF DeviceInv
      <3>. QED
        BY <3>1, <2>1, <2>6, AnswerOne DEF DeviceStatus, DeviceInv
    <2>. QED
      BY <1>2, <2>2, <2>3, <2>4, <2>5, <2>6 DEF DeviceReceive
  <1>3. CASE RemotePress
    BY <1>3, ZeroSession DEF RemotePress, DeviceInv, Quiet
  <1>4. CASE LearnTimeout
    BY <1>4 DEF LearnTimeout, DeviceInv, Quiet
  <1>5. CASE PollCaptured
    <2>. DEFINE e == FrameEvent("captured", dev.session, dev.frame)
    <2>1. dev.frame = dev.session /\ dev.session \in Sessions
      BY <1>5 DEF PollCaptured, DeviceInv, Sessions0, NoFrame, NoSession
    <2>2. e \in HostEvents /\ e.event = "captured" /\ e.session = dev.session
      BY <2>1, EventForms
    <2>3. toHost' = Append(toHost, e) /\ dev' = [dev EXCEPT !.told = TRUE] /\ toDev' = toDev
      BY <1>5 DEF PollCaptured
    <2>. HIDE DEF e
    <2>4. Notifies(e)
      BY <1>5, <2>2, <2>3 DEF Notifies, DeviceInv, PollCaptured, MayTell
    <2>5. DeviceInv'
      BY <2>2, <2>3, AppendOf DEF DeviceInv
    <2>. QED
      BY <2>2, <2>4, <2>5
  <1>6. CASE PollTimeout
    <2>. DEFINE e == Event("timeout", dev.session)
    <2>1. e \in HostEvents /\ e.event = "timeout"
      BY EventForms DEF DeviceInv
    <2>2. toHost' = Append(toHost, e) /\ dev' = [dev EXCEPT !.lab = FALSE] /\ toDev' = toDev
      BY <1>6 DEF PollTimeout
    <2>. HIDE DEF e
    <2>3. Notifies(e)
      BY <2>1, <2>2 DEF Notifies, DeviceInv
    <2>4. DeviceInv'
      BY <2>1, <2>2, AppendOf DEF DeviceInv
    <2>. QED
      BY <2>1, <2>3, <2>4
  <1>. QED
    BY <1>2, <1>3, <1>4, <1>5, <1>6 DEF DeviceNext

\* Numbers of sessions.
LEMMA SessionNumbers ==
    /\ \A s \in Sessions : s \in Nat /\ s # NoSession
    /\ \A s \in Sessions0 : s \in Nat
    /\ \A s \in Sessions0 : s \in Sessions \/ s = NoSession
    /\ NoSession = 0 /\ NoFrame = 0
  BY SessionAssumption DEF Sessions, Sessions0, NoSession, NoFrame

\* What the invariant says of the device and its line, as types.
LEMMA DeviceTypes == DeviceInv => DeviceTypeOK
  <1> SUFFICES ASSUME DeviceInv PROVE DeviceTypeOK
    OBVIOUS
  <1>1. dev.lab \in BOOLEAN
    BY Zenon DEF DeviceInv
  <1>2. dev.ext \in BOOLEAN
    BY Zenon DEF DeviceInv
  <1>3. dev.told \in BOOLEAN
    BY Zenon DEF DeviceInv
  <1>4. dev.session \in Sessions0 /\ dev.frame \in Sessions0
    BY DEF DeviceInv
  <1>5. \A k \in DOMAIN toDev : toDev[k].session \in Sessions0
    <2>1. \A k \in DOMAIN toDev : toDev[k] \in CommandLines
      BY DEF DeviceInv
    <2>. QED
      BY <2>1 DEF CommandLines
  <1>6. \A k \in DOMAIN toHost : toHost[k].session \in Sessions0
    BY ZeroSession DEF DeviceInv, HostEvents, PlainEvents, FrameEvents, ExitEvents
  <1>. QED
    BY <1>1, <1>2, <1>3, <1>4, <1>5, <1>6 DEF DeviceTypeOK, Sessions0, NoFrame, NoSession

------------------------------------------------------------------------------
(***************************************************************************)
(* SimpleLearner: no learning session fills two slots.                     *)
(*                                                                         *)
(* The device tells of a capture once in a session, and a session is begun *)
(* once.  So one flow at most comes past the event "captured" of a session *)
(* and only such a flow saves.                                             *)
(***************************************************************************)
HasBegin(s) == \E k \in 1..Len(toDev) : toDev[k].cmd = "begin" /\ toDev[k].session = s
HasCaptured(s) == \E k \in 1..Len(toHost) : toHost[k].event = "captured" /\ toHost[k].session = s

BeginOnce ==
    \A i, j \in 1..Len(toDev) :
        toDev[i].cmd = "begin" /\ toDev[j].cmd = "begin"
          /\ toDev[i].session = toDev[j].session => i = j
CapturedOnce ==
    \A i, j \in 1..Len(toHost) :
        toHost[i].event = "captured" /\ toHost[j].event = "captured"
          /\ toHost[i].session = toHost[j].session => i = j

\* The one "captured" of a session is still to come.
Captures ==
    /\ BeginOnce /\ CapturedOnce
    /\ dev.session <= started
    /\ \A s \in Sessions0 :
         /\ HasBegin(s) => s \in Sessions /\ s <= started /\ s # dev.session /\ ~HasCaptured(s)
         /\ HasCaptured(s) => s \in Sessions /\ s <= started /\ (s = dev.session => dev.told)

\* It came and will not come again.
Consumed(s) ==
    /\ s <= started /\ ~HasBegin(s) /\ ~HasCaptured(s)
    /\ dev.session = s => dev.told

PostCapture == {"EXPORTING", "EXITING", "EXIT_UNCONFIRMED", "COMPLETED"}
Contexts == [state : Busy \cup {"COMPLETED", "CANCELLED", "ERROR"}, session : Sessions,
             slot : Slots, frame : Sessions0, resent : BOOLEAN]

\* A flow past its capture is the only one of its session that ever was.
FlowInv ==
    /\ flow = NoFlow \/ flow \in Contexts
    /\ flow # NoFlow => flow.session <= started /\ flow.frame \in {NoFrame, flow.session}
    /\ flow.state \in PostCapture =>
         /\ \A s \in Sessions : flow.session = s => Consumed(s)
         /\ \A i \in Slots : disk[i].session = flow.session => i = flow.slot

Disks ==
    /\ disk \in [Slots -> [session : Sessions0, frame : Sessions0]]
    /\ \A i \in Slots : disk[i].frame = disk[i].session
    /\ \A i \in Slots, s \in Sessions : disk[i].session = s => Consumed(s)
    /\ \A i, j \in Slots :
         disk[i].session = disk[j].session /\ disk[i] # NoCapture => i = j

LearnerInv ==
    /\ DeviceInv
    /\ slot \in Slots /\ started \in 0..MaxSession
    /\ link \in {"closed", "open", "gone"} /\ loops \subseteq {"drain", "clock"}
    /\ Captures /\ FlowInv /\ Disks

\* What the line loses does not come back.
LEMMA LessOnTheLine ==
    ASSUME LearnerInv, started' = started,
           \A s \in Sessions0 : HasBegin(s)' => HasBegin(s),
           \A s \in Sessions0 : HasCaptured(s)' => HasCaptured(s),
           BeginOnce', CapturedOnce',
           \/ dev'.session = dev.session /\ dev'.told = dev.told
           \/ dev' = IdleDevice
    PROVE  Captures' /\ \A s \in Sessions : Consumed(s) => Consumed(s)'
  <1>1. dev'.session <= started
    BY SessionNumbers DEF LearnerInv, Captures, IdleDevice
  <1>2. \A s \in Sessions : dev'.session = s => dev'.session = dev.session /\ dev'.told = dev.told
    BY SessionNumbers DEF IdleDevice
  <1>3. ASSUME NEW s \in Sessions0
        PROVE  /\ HasBegin(s)' => s \in Sessions /\ s <= started /\ s # dev'.session /\ ~HasCaptured(s)'
               /\ HasCaptured(s)' => s \in Sessions /\ s <= started /\ (s = dev'.session => dev'.told)
    BY <1>2 DEF LearnerInv, Captures
  <1>4. Captures'
    BY <1>1, <1>3 DEF Captures
  <1>5. \A s \in Sessions : Consumed(s) => Consumed(s)'
    BY <1>2, ZeroSession DEF Consumed
  <1>. QED
    BY <1>4, <1>5

\* Reading events, or losing lines, brings back no capture.
LEMMA PartKeeps ==
    ASSUME DeviceInv, CapturedOnce, Part(toHost', toHost)
    PROVE  CapturedOnce' /\ \A s \in Sessions0 : HasCaptured(s)' => HasCaptured(s)
  <1>1. PICK a \in 0..Len(toHost) :
          /\ Len(toHost') + a <= Len(toHost)
          /\ \A i \in 1..Len(toHost') : i + a \in 1..Len(toHost) /\ toHost'[i] = toHost[i + a]
    BY DEF Part
  <1>2. a \in Int
    BY <1>1 DEF DeviceInv
  <1>3. \A i, j \in 1..Len(toHost') : i + a = j + a => i = j
    BY <1>2
  <1>4. CapturedOnce'
    BY <1>1, <1>3 DEF CapturedOnce
  <1>. QED
    BY <1>1, <1>4 DEF HasCaptured

\* Writing lines that begin no session keeps the order of captures.
LEMMA WriteKeeps ==
    ASSUME DeviceInv, BeginOnce, NEW lines \in Seq(CommandLines),
           \A k \in 1..Len(lines) : lines[k].cmd # "begin", toDev' = Written(lines)
    PROVE  /\ toDev' \in Seq(CommandLines) /\ BeginOnce'
           /\ \A s \in Sessions0 : HasBegin(s)' => HasBegin(s)
  <1>1. CASE toDev' = toDev
    BY <1>1 DEF DeviceInv, BeginOnce, HasBegin
  <1>2. CASE toDev' = toDev \o lines
    <2>1. /\ toDev' \in Seq(CommandLines)
          /\ \A i \in 1..Len(toDev') : toDev'[i].cmd = "begin" =>
               i \in 1..Len(toDev) /\ toDev'[i] = toDev[i]
      BY <1>2, ConcatOf DEF DeviceInv
    <2>2. BeginOnce'
      BY <2>1 DEF BeginOnce
    <2>. QED
      BY <2>1, <2>2 DEF HasBegin
  <1>. QED
    BY <1>1, <1>2 DEF Written

\* The lines the program writes.
LEMMA ProgramLines ==
    ASSUME NEW s \in Sessions
    PROVE  /\ Cancel(s) \in Seq(CommandLines) /\ <<Line("export", s)>> \in Seq(CommandLines)
           /\ <<>> \in Seq(CommandLines)
           /\ \A k \in 1..Len(Cancel(s)) : Cancel(s)[k].cmd # "begin"
           /\ \A k \in 1..Len(<<Line("export", s)>>) : <<Line("export", s)>>[k].cmd # "begin"
           /\ \A k \in 1..Len(<<>>) : <<>>[k].cmd # "begin"
  <1>1. /\ Line("cancel", s) \in CommandLines /\ Line("cancel", s).cmd = "cancel"
        /\ Line("export", s) \in CommandLines /\ Line("export", s).cmd = "export"
    BY EventForms, ZeroSession
  <1>2. \A e \in CommandLines : <<e>> \in Seq(CommandLines) /\ \A k \in 1..Len(<<e>>) : <<e>>[k] = e
    OBVIOUS
  <1>. QED
    BY <1>1, <1>2 DEF Cancel

\* A flow and the disk that stay, or lose their capture.
LEMMA FlowKept ==
    ASSUME LearnerInv, Captures', \A s \in Sessions : Consumed(s) => Consumed(s)',
           started' = started, UNCHANGED disk,
           \/ flow' = flow
           \/ flow' = NoFlow
           \/ /\ flow' \in Contexts /\ flow # NoFlow /\ flow'.session = flow.session
              /\ flow'.frame \in {NoFrame, flow.frame}
              /\ flow'.state \in PostCapture =>
                   flow.state \in PostCapture /\ flow'.slot = flow.slot
    PROVE  FlowInv' /\ Disks'
  <1>1. Disks'
    BY DEF LearnerInv, Disks
  <1>2. flow' = NoFlow \/ flow' \in Contexts
    BY DEF LearnerInv, FlowInv
  <1>3. flow' # NoFlow => flow'.session <= started' /\ flow'.frame \in {NoFrame, flow'.session}
    BY DEF LearnerInv, FlowInv
  <1>4. flow'.state \in PostCapture =>
          /\ flow # NoFlow /\ flow.state \in PostCapture /\ flow'.session = flow.session
          /\ flow'.slot = flow.slot
    BY DEF NoFlow, PostCapture
  <1>. QED
    BY <1>1, <1>2, <1>3, <1>4 DEF LearnerInv, FlowInv

\* The usual step of the window: it reads a part, writes lines other than a
\* begin, and the disk stays.
LEMMA WindowStep ==
    ASSUME LearnerInv, NEW lines \in Seq(CommandLines),
           \A k \in 1..Len(lines) : lines[k].cmd # "begin",
           toDev' \in {Written(lines), toDev, <<>>},
           toHost' \in Seq(HostEvents), Part(toHost', toHost),
           dev' \in {dev, IdleDevice}, UNCHANGED <<started, slot, disk>>,
           link' \in {"closed", "open", "gone"}, loops' \subseteq {"drain", "clock"},
           \/ flow' = flow
           \/ flow' = NoFlow
           \/ /\ flow' \in Contexts /\ flow # NoFlow /\ flow'.session = flow.session
              /\ flow'.frame \in {NoFrame, flow.frame}
              /\ flow'.state \in PostCapture =>
                   flow.state \in PostCapture /\ flow'.slot = flow.slot
    PROVE  LearnerInv'
  <1>1. DeviceInv /\ BeginOnce /\ CapturedOnce
    BY DEF LearnerInv, Captures
  <1>2. /\ toDev' \in Seq(CommandLines) /\ BeginOnce'
        /\ \A s \in Sessions0 : HasBegin(s)' => HasBegin(s)
    <2>1. CASE toDev' = Written(lines)
      BY <2>1, <1>1, WriteKeeps
    <2>2. CASE toDev' = toDev
      BY <2>2, <1>1 DEF DeviceInv, BeginOnce, HasBegin
    <2>3. CASE toDev' = <<>>
      BY <2>3 DEF BeginOnce, HasBegin
    <2>. QED
      BY <2>1, <2>2, <2>3
  <1>3. CapturedOnce' /\ \A s \in Sessions0 : HasCaptured(s)' => HasCaptured(s)
    BY <1>1, PartKeeps
  <1>4. \/ dev'.session = dev.session /\ dev'.told = dev.told
        \/ dev' = IdleDevice
    OBVIOUS
  <1>5. Captures' /\ \A s \in Sessions : Consumed(s) => Consumed(s)'
    BY <1>2, <1>3, <1>4, LessOnTheLine
  <1>6. FlowInv' /\ Disks'
    BY <1>5, FlowKept
  <1>7. dev' \in [lab : BOOLEAN, ext : BOOLEAN, told : BOOLEAN,
                   session : Sessions0, frame : Sessions0] /\ dev'.frame \in {NoFrame, dev'.session}
    <2>1. /\ IdleDevice \in [lab : BOOLEAN, ext : BOOLEAN, told : BOOLEAN,
                             session : Sessions0, frame : Sessions0]
          /\ IdleDevice.frame = NoFrame
      BY ZeroSession DEF IdleDevice
    <2>. QED
      BY <1>1, <2>1 DEF DeviceInv
  <1>8. DeviceInv'
    BY <1>2, <1>7 DEF DeviceInv
  <1>. QED
    BY <1>5, <1>6, <1>8 DEF LearnerInv

\* Nothing is captured in the beginning.
LEMMA LearnerStart == LearnerInit => LearnerInv
  <1> SUFFICES ASSUME LearnerInit PROVE LearnerInv
    OBVIOUS
  <1>1. DeviceInv /\ toDev = <<>> /\ toHost = <<>> /\ dev.session = 0
    BY DeviceStart DEF LearnerInit, DeviceInit, IdleDevice, NoSession
  <1>2. Captures
    BY <1>1, SessionAssumption DEF Captures, BeginOnce, CapturedOnce, HasBegin, HasCaptured,
       LearnerInit, NoSession
  <1>3. FlowInv
    BY DEF FlowInv, LearnerInit, NoFlow, PostCapture
  <1>4. Disks
    BY SessionNumbers, ZeroSession DEF Disks, LearnerInit, NoCapture
  <1>. QED
    BY <1>1, <1>2, <1>3, <1>4, SlotsAssumption, SessionAssumption DEF LearnerInv, LearnerInit, NoSession

\* A flow may come past its capture, and save, when the capture is spent and
\* no other slot holds it.
LEMMA FlowNext ==
    ASSUME LearnerInv, Captures', \A s \in Sessions : Consumed(s) => Consumed(s)',
           started' = started,
           flow' \in Contexts, flow'.session <= started, flow'.frame \in {NoFrame, flow'.session},
           flow'.state \in PostCapture =>
             /\ \A s \in Sessions : flow'.session = s => Consumed(s)'
             /\ \A i \in Slots : disk[i].session = flow'.session => i = flow'.slot,
           \/ disk' = disk
           \/ /\ flow'.state \in PostCapture
              /\ disk' = [disk EXCEPT ![flow'.slot] =
                            [session |-> flow'.session, frame |-> flow'.session]]
    PROVE  FlowInv' /\ Disks'
  <1>1. flow'.session \in Sessions /\ flow'.slot \in Slots
    BY DEF Contexts
  <1>2. CASE disk' = disk
    <2>1. Disks'
      BY <1>2 DEF LearnerInv, Disks
    <2>. QED
      BY <1>1, <1>2, <2>1 DEF FlowInv
  <1>3. CASE /\ flow'.state \in PostCapture
             /\ disk' = [disk EXCEPT ![flow'.slot] =
                           [session |-> flow'.session, frame |-> flow'.session]]
    <2>1. /\ disk' \in [Slots -> [session : Sessions0, frame : Sessions0]]
          /\ disk'[flow'.slot].session = flow'.session /\ disk'[flow'.slot].frame = flow'.session
          /\ \A i \in Slots \ {flow'.slot} : disk'[i] = disk[i]
      BY <1>1, <1>3, ZeroSession DEF LearnerInv, Disks
    <2>2. \A i \in Slots : disk'[i].frame = disk'[i].session
      BY <2>1 DEF LearnerInv, Disks
    <2>3. \A i \in Slots, s \in Sessions : disk'[i].session = s => Consumed(s)'
      BY <1>3, <2>1 DEF LearnerInv, Disks
    <2>4. \A i \in Slots \ {flow'.slot} : disk'[i].session # flow'.session
      BY <1>3, <2>1
    <2>5. \A i, j \in Slots : disk'[i].session = disk'[j].session /\ disk'[i] # NoCapture => i = j
      BY <2>1, <2>4 DEF LearnerInv, Disks
    <2>6. Disks'
      BY <2>1, <2>2, <2>3, <2>5 DEF Disks
    <2>7. FlowInv'
      BY <1>1, <1>3, <2>4 DEF FlowInv
    <2>. QED
      BY <2>6, <2>7
  <1>. QED
    BY <1>2, <1>3

\* The window takes the oldest event.
LEMMA EventTaken ==
    ASSUME LearnerInv, toHost # <<>>, toHost' = Tail(toHost),
           NEW lines \in Seq(CommandLines), \A k \in 1..Len(lines) : lines[k].cmd # "begin",
           toDev' \in {Written(lines), toDev}, UNCHANGED <<dev, started>>
    PROVE  /\ DeviceInv' /\ Captures' /\ \A s \in Sessions : Consumed(s) => Consumed(s)'
           /\ Head(toHost) \in HostEvents
           /\ \A s \in Sessions : Head(toHost).event = "captured" /\ Head(toHost).session = s =>
                s <= started /\ Consumed(s)' /\ \A i \in Slots : disk[i].session # s
  <1>1. DeviceInv /\ BeginOnce /\ CapturedOnce
    BY DEF LearnerInv, Captures
  <1>2. /\ toHost' \in Seq(HostEvents) /\ Len(toHost') = Len(toHost) - 1 /\ Len(toHost) \in Nat
        /\ Len(toHost) >= 1 /\ Head(toHost) = toHost[1] /\ Head(toHost) \in HostEvents
        /\ \A i \in 1..Len(toHost') : i + 1 \in 1..Len(toHost) /\ toHost'[i] = toHost[i + 1]
    BY <1>1, TailOf DEF DeviceInv
  <1>3. Part(toHost', toHost)
    BY <1>1, PartOf DEF DeviceInv
  <1>4. /\ toDev' \in Seq(CommandLines) /\ BeginOnce'
        /\ \A s \in Sessions0 : HasBegin(s)' => HasBegin(s)
    <2>1. CASE toDev' = Written(lines)
      BY <2>1, <1>1, WriteKeeps
    <2>2. CASE toDev' = toDev
      BY <2>2, <1>1 DEF DeviceInv, BeginOnce, HasBegin
    <2>. QED
      BY <2>1, <2>2
  <1>5. CapturedOnce' /\ \A s \in Sessions0 : HasCaptured(s)' => HasCaptured(s)
    BY <1>1, <1>3, PartKeeps
  <1>6. Captures' /\ \A s \in Sessions : Consumed(s) => Consumed(s)'
    BY <1>4, <1>5, LessOnTheLine
  <1>7. DeviceInv'
    BY <1>1, <1>2, <1>4 DEF DeviceInv
  <1>8. ASSUME NEW s \in Sessions, Head(toHost).event = "captured", Head(toHost).session = s
        PROVE  s <= started /\ Consumed(s)' /\ \A i \in Slots : disk[i].session # s
    <2>1. 1 \in 1..Len(toHost) /\ toHost[1].event = "captured" /\ toHost[1].session = s
      BY <1>2, <1>8
    <2>2. HasCaptured(s) /\ s \in Sessions0
      BY <2>1, ZeroSession DEF HasCaptured
    <2>3. s <= started /\ ~HasBegin(s) /\ (s = dev.session => dev.told)
      BY <2>2 DEF LearnerInv, Captures
    <2>4. ~HasCaptured(s)'
      <3>1. SUFFICES ASSUME NEW k \in 1..Len(toHost'), toHost'[k].event = "captured",
                            toHost'[k].session = s
                     PROVE  FALSE
        BY DEF HasCaptured
      <3>2. k + 1 \in 1..Len(toHost) /\ toHost[k + 1].event = "captured" /\ toHost[k + 1].session = s
        BY <1>2, <3>1
      <3>3. k + 1 = 1
        BY <1>1, <2>1, <3>2 DEF CapturedOnce
      <3>. QED
        BY <3>3
    <2>5. Consumed(s)'
      BY <1>4, <2>2, <2>3, <2>4 DEF Consumed
    <2>6. \A i \in Slots : disk[i].session # s
      BY <2>2 DEF LearnerInv, Disks, Consumed
    <2>. QED
      BY <2>3, <2>5, <2>6
  <1>. QED
    BY <1>2, <1>6, <1>7, <1>8

\* What handle_event makes of a flow.
LEMMA FlowStepOf ==
    ASSUME NEW ctx \in Contexts, ctx.frame \in {NoFrame, ctx.session}, NEW event \in HostEvents
    PROVE  LET r == FlowStep(ctx, event) IN
           /\ r.ctx \in Contexts /\ r.ctx.session = ctx.session /\ r.ctx.slot = ctx.slot
           /\ r.ctx.frame \in {NoFrame, ctx.session}
           /\ r.ctx.state \in PostCapture =>
                \/ ctx.state \in PostCapture
                \/ event.event = "captured" /\ event.session = ctx.session
           /\ r.lines \in {<<>>, <<Line("export", ctx.session)>>, Cancel(ctx.session)}
  <1>. DEFINE r == FlowStep(ctx, event)
              Good(c) == /\ c \in Contexts /\ c.session = ctx.session /\ c.slot = ctx.slot
                         /\ c.frame \in {NoFrame, ctx.session}
                         /\ c.state \in PostCapture =>
                              \/ ctx.state \in PostCapture
                              \/ event.event = "captured" /\ event.session = ctx.session
  <1>1. \A state \in {"COMPLETED", "EXIT_UNCONFIRMED", "CANCELLED", "WAITING_REMOTE", "ERROR"} :
          (state \in PostCapture => ctx.state \in PostCapture)
            => Good([ctx EXCEPT !.state = state])
    BY DEF Contexts, Busy
  <1>2. Good(ctx)
    OBVIOUS
  <1>. DEFINE Result(q) == /\ Good(q.ctx)
                          /\ q.lines \in {<<>>, <<Line("export", ctx.session)>>, Cancel(ctx.session)}
  <1>. HIDE DEF Good
  <1>a. \A c : Good(c) => Result([ctx |-> c, lines |-> <<>>])
    OBVIOUS
  <1>b. \A c : Good(c) => Result([ctx |-> c, lines |-> <<Line("export", ctx.session)>>])
    OBVIOUS
  <1>c. \A c : Good(c) => Result([ctx |-> c, lines |-> Cancel(ctx.session)])
    OBVIOUS
  <1>. HIDE DEF Result, r
  <1>d. SUFFICES Result(r)
    BY DEF Result, Good, r
  <1>3. CASE ctx.state = "EXITING" /\ event.event = "cancelled" /\ event.session = ctx.session
    <2>1. ctx.state \in PostCapture
      BY <1>3 DEF PostCapture
    <2>2. CASE event.exitConfirmed
      <3>1. r = [ctx |-> [ctx EXCEPT !.state = "COMPLETED"], lines |-> <<>>]
        BY <1>3, <2>2 DEF FlowStep, r
      <3>2. Good([ctx EXCEPT !.state = "COMPLETED"])
        BY <1>1, <2>1
      <3>. QED
        BY <1>a, <3>1, <3>2
    <2>3. CASE ~event.exitConfirmed
      <3>1. r = [ctx |-> [ctx EXCEPT !.state = "EXIT_UNCONFIRMED"], lines |-> <<>>]
        BY <1>3, <2>3 DEF FlowStep, r
      <3>2. Good([ctx EXCEPT !.state = "EXIT_UNCONFIRMED"])
        BY <1>1, <2>1
      <3>. QED
        BY <1>a, <3>1, <3>2
    <2>. QED
      BY <2>2, <2>3
  <1>4. CASE ctx.state # "EXITING" /\ event.event = "cancelled"
    <2>1. r = [ctx |-> [ctx EXCEPT !.state = "CANCELLED"], lines |-> <<>>]
      BY <1>4 DEF FlowStep, r
    <2>2. Good([ctx EXCEPT !.state = "CANCELLED"])
      BY <1>1 DEF PostCapture
    <2>. QED
      BY <1>a, <2>1, <2>2
  <1>5. CASE ctx.state = "WAITING_ENTER_ACK" /\ event.event # "cancelled"
    <2>1. \/ r = [ctx |-> [ctx EXCEPT !.state = "WAITING_REMOTE"], lines |-> <<>>]
          \/ r = [ctx |-> [ctx EXCEPT !.state = "ERROR"], lines |-> <<>>]
          \/ r = [ctx |-> ctx, lines |-> <<>>]
      BY <1>5 DEF FlowStep, r
    <2>2. Good([ctx EXCEPT !.state = "WAITING_REMOTE"]) /\ Good([ctx EXCEPT !.state = "ERROR"])
      BY <1>1 DEF PostCapture
    <2>. QED
      BY <1>2, <1>a, <2>1, <2>2
  <1>6. CASE ctx.state = "WAITING_REMOTE" /\ event.event # "cancelled"
    <2>1. CASE event.event = "captured" /\ event.session = ctx.session
      <3>1. r = [ctx |-> [ctx EXCEPT !.state = "EXPORTING"], lines |-> <<Line("export", ctx.session)>>]
        BY <1>6, <2>1 DEF FlowStep, r
      <3>2. Good([ctx EXCEPT !.state = "EXPORTING"])
        BY <2>1 DEF Contexts, Busy, Good
      <3>. QED
        BY <1>b, <3>1, <3>2
    <2>2. CASE ~(event.event = "captured" /\ event.session = ctx.session)
      <3>1. r = [ctx |-> ctx, lines |-> <<>>]
        BY <1>6, <2>2 DEF FlowStep, r
      <3>. QED
        BY <1>2, <1>a, <3>1
    <2>. QED
      BY <2>1, <2>2
  <1>7. CASE ctx.state = "EXPORTING" /\ event.event # "cancelled"
    <2>1. ctx.state \in PostCapture
      BY <1>7 DEF PostCapture
    <2>2. CASE event.event = "export.done" /\ Assembled(event, ctx)
      <3>1. r = [ctx |-> [ctx EXCEPT !.state = "EXITING", !.frame = event.frame, !.resent = FALSE],
                 lines |-> Cancel(ctx.session)]
        BY <1>7, <2>2 DEF FlowStep, r
      <3>2. event.frame = ctx.session /\ event.frame \in Sessions0
        BY <2>2, ZeroSession DEF Assembled, HostEvents, PlainEvents, FrameEvents, ExitEvents
      <3>3. Good([ctx EXCEPT !.state = "EXITING", !.frame = event.frame, !.resent = FALSE])
        BY <2>1, <3>2 DEF Contexts, Busy, Good
      <3>. QED
        BY <1>c, <3>1, <3>3
    <2>3. CASE ~(event.event = "export.done" /\ Assembled(event, ctx))
      <3>1. \/ r = [ctx |-> [ctx EXCEPT !.state = "ERROR"], lines |-> <<>>]
            \/ r = [ctx |-> ctx, lines |-> <<>>]
        BY <1>7, <2>3 DEF FlowStep, r
      <3>2. Good([ctx EXCEPT !.state = "ERROR"])
        BY <1>1, <2>1
      <3>. QED
        BY <1>2, <1>a, <3>1, <3>2
    <2>. QED
      BY <2>2, <2>3
  <1>8. CASE /\ ~(ctx.state = "EXITING" /\ event.event = "cancelled" /\ event.session = ctx.session)
             /\ ~(ctx.state # "EXITING" /\ event.event = "cancelled")
             /\ ctx.state \notin {"WAITING_ENTER_ACK", "WAITING_REMOTE", "EXPORTING"}
    <2>1. r = [ctx |-> ctx, lines |-> <<>>]
      BY <1>8 DEF FlowStep, r
    <2>. QED
      BY <1>2, <1>a, <2>1
  <1>. QED
    BY <1>3, <1>4, <1>5, <1>6, <1>7, <1>8

\* What the device does keeps the order of captures.
LEMMA DeviceCaptures ==
    ASSUME LearnerInv, DeviceNext, started' = started
    PROVE  DeviceInv' /\ Captures' /\ \A s \in Sessions : Consumed(s) => Consumed(s)'
  <1>1. /\ DeviceInv' /\ DeviceInv
        /\ \/ Quiet
           \/ \E e \in HostEvents : Notifies(e)
           \/ \E events \in Seq(HostEvents) : Answers(events)
    BY DeviceStep DEF LearnerInv
  <1>2. BeginOnce /\ CapturedOnce /\ dev.session <= started
    BY DEF LearnerInv, Captures
  <1>3. CASE Quiet
    <2>1. BeginOnce' /\ CapturedOnce'
      BY <1>2, <1>3 DEF BeginOnce, CapturedOnce, Quiet
    <2>2. \A s \in Sessions0 : (HasBegin(s)' => HasBegin(s)) /\ (HasCaptured(s)' => HasCaptured(s))
      BY <1>3 DEF HasBegin, HasCaptured, Quiet
    <2>. QED
      BY <1>1, <1>3, <2>1, <2>2, LessOnTheLine DEF Quiet
  <1>4. ASSUME NEW e \in HostEvents, Notifies(e)
        PROVE  Captures' /\ \A s \in Sessions : Consumed(s) => Consumed(s)'
    <2>1. /\ Len(toHost') = Len(toHost) + 1 /\ Len(toHost) \in Nat
          /\ toHost'[Len(toHost) + 1] = e
          /\ \A i \in 1..Len(toHost) : toHost'[i] = toHost[i]
          /\ \A i \in 1..Len(toHost') : i \in 1..Len(toHost) \/ i = Len(toHost) + 1
      BY <1>1, <1>4, AppendOf DEF DeviceInv, Notifies
    <2>2. /\ BeginOnce' /\ \A s \in Sessions0 : HasBegin(s)' => HasBegin(s)
      BY <1>2, <1>4 DEF BeginOnce, HasBegin, Notifies
    <2>3. CASE e.event = "timeout"
      <3>1. \A i \in 1..Len(toHost') : toHost'[i].event = "captured" =>
              i \in 1..Len(toHost) /\ toHost'[i] = toHost[i]
        BY <2>1, <2>3
      <3>2. CapturedOnce'
        BY <1>2, <3>1 DEF CapturedOnce
      <3>3. \A s \in Sessions0 : HasCaptured(s)' => HasCaptured(s)
        BY <3>1 DEF HasCaptured
      <3>. QED
        BY <1>4, <2>2, <2>3, <3>2, <3>3, LessOnTheLine DEF Notifies
    <2>4. CASE e.event = "captured"
      <3>1. /\ ~dev.told /\ dev'.told /\ dev'.session = dev.session /\ e.session = dev.session
            /\ dev.session \in Sessions /\ dev.session \in Sessions0
        BY <1>4, <2>4, ZeroSession DEF Notifies, HostEvents, PlainEvents, FrameEvents, ExitEvents
      <3>2. ~HasCaptured(dev.session) /\ ~HasBegin(dev.session)
        BY <3>1 DEF LearnerInv, Captures
      <3>3. \A i \in 1..Len(toHost) :
              ~(toHost[i].event = "captured" /\ toHost[i].session = dev.session)
        BY <3>2 DEF HasCaptured
      <3>4. CapturedOnce'
        <4>1. SUFFICES ASSUME NEW i \in 1..Len(toHost'), NEW j \in 1..Len(toHost'),
                              toHost'[i].event = "captured", toHost'[j].event = "captured",
                              toHost'[i].session = toHost'[j].session
                       PROVE  i = j
          BY DEF CapturedOnce
        <4>2. CASE i \in 1..Len(toHost) /\ j \in 1..Len(toHost)
          BY <1>2, <2>1, <4>1, <4>2 DEF CapturedOnce
        <4>3. CASE i = Len(toHost) + 1 /\ j \in 1..Len(toHost)
          BY <2>1, <3>1, <3>3, <4>1, <4>3
        <4>4. CASE j = Len(toHost) + 1 /\ i \in 1..Len(toHost)
          BY <2>1, <3>1, <3>3, <4>1, <4>4
        <4>. QED
          BY <2>1, <4>2, <4>3, <4>4
      <3>5. \A s \in Sessions0 : HasCaptured(s)' => HasCaptured(s) \/ s = dev.session
        BY <2>1, <3>1 DEF HasCaptured
      <3>6. ASSUME NEW s \in Sessions0
            PROVE  /\ HasBegin(s)' => s \in Sessions /\ s <= started /\ s # dev'.session /\ ~HasCaptured(s)'
                   /\ HasCaptured(s)' => s \in Sessions /\ s <= started /\ (s = dev'.session => dev'.told)
        BY <1>2, <2>2, <3>1, <3>2, <3>5 DEF LearnerInv, Captures
      <3>7. Captures'
        BY <1>2, <2>2, <3>1, <3>4, <3>6 DEF Captures
      <3>8. \A s \in Sessions : Consumed(s) => Consumed(s)'
        BY <2>2, <3>1, <3>5, ZeroSession DEF Consumed
      <3>. QED
        BY <3>7, <3>8
    <2>. QED
      BY <1>4, <2>3, <2>4 DEF Notifies
  <1>5. ASSUME NEW events \in Seq(HostEvents), Answers(events)
        PROVE  Captures' /\ \A s \in Sessions : Consumed(s) => Consumed(s)'
    <2>1. /\ Len(toDev') = Len(toDev) - 1 /\ Len(toDev) \in Nat /\ Len(toDev) >= 1
          /\ Head(toDev) = toDev[1] /\ Head(toDev) \in CommandLines
          /\ \A i \in 1..Len(toDev') : i + 1 \in 1..Len(toDev) /\ toDev'[i] = toDev[i + 1]
      BY <1>1, <1>5, TailOf DEF DeviceInv, Answers
    <2>2. \A i, j \in 1..Len(toDev') : i + 1 = j + 1 => i = j
      OBVIOUS
    <2>3. BeginOnce' /\ \A s \in Sessions0 : HasBegin(s)' => HasBegin(s)
      <3>1. ASSUME NEW i \in 1..Len(toDev'), NEW j \in 1..Len(toDev'),
                   toDev'[i].cmd = "begin", toDev'[j].cmd = "begin",
                   toDev'[i].session = toDev'[j].session
            PROVE  i = j
        <4>1. i + 1 = j + 1
          BY <1>2, <2>1, <3>1 DEF BeginOnce
        <4>. QED
          BY <2>2, <4>1
      <3>2. BeginOnce'
        BY <3>1 DEF BeginOnce
      <3>. QED
        BY <2>1, <3>2 DEF HasBegin
    <2>4. \A i \in 1..Len(toHost') : toHost'[i].event = "captured" =>
            i \in 1..Len(toHost) /\ toHost'[i] = toHost[i]
      BY <1>1, <1>5, ConcatOf DEF DeviceInv, Answers
    <2>5. CapturedOnce'
      BY <1>2, <2>4 DEF CapturedOnce
    <2>6. \A s \in Sessions0 : HasCaptured(s)' => HasCaptured(s)
      BY <2>4 DEF HasCaptured
    <2>7. CASE (dev'.session = dev.session /\ dev'.told = dev.told) \/ dev' = IdleDevice
      BY <2>3, <2>5, <2>6, <2>7, LessOnTheLine
    <2>8. CASE Head(toDev).cmd = "begin" /\ dev'.session = Head(toDev).session
      <3>1. /\ 1 \in 1..Len(toDev) /\ toDev[1].cmd = "begin" /\ toDev[1].session = dev'.session
            /\ dev'.session \in Sessions0
        BY <2>1, <2>8 DEF CommandLines
      <3>2. HasBegin(dev'.session)
        BY <3>1 DEF HasBegin
      <3>3. \A s \in Sessions0 : s = dev'.session =>
              HasBegin(s) /\ s <= started /\ ~HasCaptured(s) /\ ~HasBegin(s)'
        <4>1. SUFFICES ASSUME NEW s \in Sessions0, s = dev'.session
                       PROVE  HasBegin(s) /\ s <= started /\ ~HasCaptured(s) /\ ~HasBegin(s)'
          OBVIOUS
        <4>2. HasBegin(s)
          BY <3>1, <4>1 DEF HasBegin
        <4>3. ASSUME NEW k \in 1..Len(toDev'), toDev'[k].cmd = "begin", toDev'[k].session = s
              PROVE  FALSE
          <5>1. k + 1 \in 1..Len(toDev) /\ toDev[k + 1].cmd = "begin" /\ toDev[k + 1].session = s
            BY <2>1, <4>3
          <5>2. k + 1 = 1
            BY <1>2, <3>1, <4>1, <5>1 DEF BeginOnce
          <5>. QED
            BY <5>2
        <4>4. ~HasBegin(s)'
          BY <4>3 DEF HasBegin
        <4>. QED
          BY <4>2, <4>4 DEF LearnerInv, Captures
      <3>4. ASSUME NEW s \in Sessions0
            PROVE  /\ HasBegin(s)' => s \in Sessions /\ s <= started /\ s # dev'.session /\ ~HasCaptured(s)'
                   /\ HasCaptured(s)' => s \in Sessions /\ s <= started /\ (s = dev'.session => dev'.told)
        BY <2>3, <2>6, <3>3 DEF LearnerInv, Captures
      <3>5. Captures'
        BY <2>3, <2>5, <3>1, <3>3, <3>4 DEF Captures
      <3>6. \A s \in Sessions : Consumed(s) => Consumed(s)'
        BY <2>3, <2>6, <3>3, ZeroSession DEF Consumed
      <3>. QED
        BY <3>5, <3>6
    <2>. QED
      BY <1>5, <2>7, <2>8 DEF Answers
  <1>. QED
    BY <1>1, <1>3, <1>4, <1>5

\* _start_capture makes a session that was never heard of.
LEMMA SlotStarted ==
    ASSUME LearnerInv, NEW i \in Slots, StartSlot(i)
    PROVE  LearnerInv'
  <1>1. DeviceInv /\ BeginOnce /\ CapturedOnce /\ dev.session <= started /\ started \in Nat
    BY SessionNumbers, SessionAssumption DEF LearnerInv, Captures
  <1>. DEFINE n == started + 1
              l == Line("begin", n)
  <1>2. /\ n \in Sessions /\ n \in Sessions0 /\ started' = n
        /\ l \in CommandLines /\ l.cmd = "begin" /\ l.session = n
    BY EventForms, ZeroSession DEF StartSlot
  <1>3. toDev' = Append(toDev, l) /\ dev' = dev /\ disk' = disk /\ slot' = i
        /\ link' = link /\ loops' = loops
    BY DEF StartSlot
  <1>4. PICK k \in 0..Len(toHost) : toHost' = SubSeq(toHost, k + 1, Len(toHost))
    BY DEF StartSlot
  <1>5. toHost' \in Seq(HostEvents) /\ Part(toHost', toHost)
    BY <1>1, <1>4, PartOf DEF DeviceInv
  <1>6. n > started /\ \A s \in Sessions0 : s <= started => s # n /\ s <= n
    BY <1>1, SessionNumbers
  <1>. HIDE DEF n, l
  <1>7. /\ toDev' \in Seq(CommandLines) /\ Len(toDev') = Len(toDev) + 1 /\ Len(toDev) \in Nat
        /\ toDev'[Len(toDev) + 1] = l
        /\ \A j \in 1..Len(toDev) : toDev'[j] = toDev[j]
        /\ \A j \in 1..Len(toDev') : j \in 1..Len(toDev) \/ j = Len(toDev) + 1
    BY <1>1, <1>2, <1>3, AppendOf DEF DeviceInv
  <1>8. DeviceInv'
    BY <1>1, <1>3, <1>5, <1>7 DEF DeviceInv
  <1>9. CapturedOnce' /\ \A s \in Sessions0 : HasCaptured(s)' => HasCaptured(s)
    BY <1>1, <1>5, PartKeeps
  <1>10. ~HasBegin(n) /\ ~HasCaptured(n)
    BY <1>2, <1>6 DEF LearnerInv, Captures
  <1>11. \A s \in Sessions0 : HasBegin(s)' => HasBegin(s) \/ s = n
    BY <1>2, <1>7 DEF HasBegin
  <1>12. BeginOnce'
    <2>1. \A j \in 1..Len(toDev) : ~(toDev[j].cmd = "begin" /\ toDev[j].session = n)
      BY <1>10 DEF HasBegin
    <2>2. SUFFICES ASSUME NEW a \in 1..Len(toDev'), NEW b \in 1..Len(toDev'),
                          toDev'[a].cmd = "begin", toDev'[b].cmd = "begin",
                          toDev'[a].session = toDev'[b].session
                   PROVE  a = b
      BY DEF BeginOnce
    <2>3. CASE a \in 1..Len(toDev) /\ b \in 1..Len(toDev)
      BY <1>1, <1>7, <2>2, <2>3 DEF BeginOnce
    <2>4. CASE a = Len(toDev) + 1 /\ b \in 1..Len(toDev)
      BY <1>2, <1>7, <2>1, <2>2, <2>4
    <2>5. CASE b = Len(toDev) + 1 /\ a \in 1..Len(toDev)
      BY <1>2, <1>7, <2>1, <2>2, <2>5
    <2>. QED
      BY <1>7, <2>3, <2>4, <2>5
  <1>13. ASSUME NEW s \in Sessions0
         PROVE  /\ HasBegin(s)' => s \in Sessions /\ s <= started' /\ s # dev'.session /\ ~HasCaptured(s)'
                /\ HasCaptured(s)' => s \in Sessions /\ s <= started' /\ (s = dev'.session => dev'.told)
    <2>1. CASE s = n
      <3>1. s <= n /\ s # dev.session
        BY <1>1, <1>6, <2>1, SessionNumbers DEF DeviceInv
      <3>. QED
        BY <1>2, <1>3, <1>9, <1>10, <2>1, <3>1
    <2>2. CASE s # n
      BY <1>2, <1>3, <1>6, <1>9, <1>11, <2>2 DEF LearnerInv, Captures
    <2>. QED
      BY <2>1, <2>2
  <1>14. dev'.session <= started'
    BY <1>1, <1>2, <1>3, <1>6 DEF DeviceInv
  <1>15. Captures'
    BY <1>9, <1>12, <1>13, <1>14 DEF Captures
  <1>16. \A s \in Sessions : Consumed(s) => Consumed(s)'
    BY <1>2, <1>3, <1>6, <1>9, <1>11, ZeroSession DEF Consumed
  <1>17. /\ flow' \in Contexts /\ flow'.session = n /\ flow'.frame = NoFrame
         /\ flow'.state = "WAITING_ENTER_ACK"
    BY <1>2, ZeroSession DEF StartSlot, Context, Contexts, Busy, n
  <1>18. FlowInv'
    <2>1. flow'.session <= started'
      BY <1>2, <1>17, SessionNumbers
    <2>. QED
      BY <1>17, <2>1 DEF FlowInv, PostCapture
  <1>19. Disks'
    BY <1>3, <1>16 DEF LearnerInv, Disks
  <1>20. started' \in 0..MaxSession
    BY <1>2, SessionAssumption DEF Sessions
  <1>. QED
    BY <1>3, <1>8, <1>15, <1>18, <1>19, <1>20 DEF LearnerInv

\* What the program writes on a failure begins no session.
LEMMA ErrorLines ==
    ASSUME NEW s \in Sessions,
           NEW a \in {<<>>, <<Line("export", s)>>, Cancel(s)},
           NEW b \in {<<>>, Cancel(s)}
    PROVE  a \o b \in Seq(CommandLines) /\ \A k \in 1..Len(a \o b) : (a \o b)[k].cmd # "begin"
  <1>1. /\ a \in Seq(CommandLines) /\ \A k \in 1..Len(a) : a[k].cmd # "begin"
        /\ b \in Seq(CommandLines) /\ \A k \in 1..Len(b) : b[k].cmd # "begin"
    BY ProgramLines
  <1>. QED
    BY <1>1, ConcatOf

\* What a flow is made of.
LEMMA FlowForms ==
    ASSUME LearnerInv
    PROVE  /\ flow # NoFlow => flow \in Contexts /\ flow.session \in Sessions /\ flow.slot \in Slots
           /\ flow.state \in Busy \cup {"ERROR", "CANCELLED", "COMPLETED"} => flow # NoFlow
  BY DEF LearnerInv, FlowInv, Contexts, NoFlow, Busy

\* A flow that goes on with an event.
LEMMA EventHandled ==
    ASSUME LearnerInv, toHost # <<>>, toHost' = Tail(toHost), flow # NoFlow,
           ~Adopts(Head(toHost)), HandleFlow(Head(toHost)), UNCHANGED <<dev, link, slot, started>>
    PROVE  LearnerInv'
  <1>. DEFINE event == Head(toHost)
              r == FlowStep(flow, event)
              a == r.lines
              b == IF r.ctx.state = "ERROR" THEN Cancel(flow.session) ELSE <<>>
              lines == a \o b
  <1>1. /\ flow \in Contexts /\ flow.session \in Sessions /\ flow.slot \in Slots
        /\ flow.session <= started /\ flow.frame \in {NoFrame, flow.session}
    BY FlowForms DEF LearnerInv, FlowInv
  <1>2. event \in HostEvents
    BY TailOf DEF LearnerInv, DeviceInv
  <1>3. /\ r.ctx \in Contexts /\ r.ctx.session = flow.session /\ r.ctx.slot = flow.slot
        /\ r.ctx.frame \in {NoFrame, flow.session}
        /\ r.ctx.state \in PostCapture =>
             \/ flow.state \in PostCapture
             \/ event.event = "captured" /\ event.session = flow.session
        /\ r.lines \in {<<>>, <<Line("export", flow.session)>>, Cancel(flow.session)}
    BY <1>1, <1>2, FlowStepOf
  <1>4. lines \in Seq(CommandLines) /\ \A k \in 1..Len(lines) : lines[k].cmd # "begin"
    <2>1. b \in {<<>>, Cancel(flow.session)}
      OBVIOUS
    <2>2. a \in {<<>>, <<Line("export", flow.session)>>, Cancel(flow.session)}
      BY <1>3
    <2>. HIDE DEF a, b
    <2>. QED
      BY <1>1, <2>1, <2>2, ErrorLines
  <1>5. /\ flow' = NoFlow \/ flow' = r.ctx
        /\ toDev' = Written(lines) /\ loops' \in {loops, loops \ {"drain"}}
        /\ \/ disk' = disk
           \/ /\ r.ctx.state = "COMPLETED" /\ r.ctx.frame # NoFrame
              /\ disk' = [disk EXCEPT ![r.ctx.slot] = [session |-> r.ctx.session, frame |-> r.ctx.frame]]
    BY DEF HandleFlow, Save
  <1>6. flow' = NoFlow => r.ctx.state # "COMPLETED" \/ r.ctx = NoFlow
    <2>1. SUFFICES ASSUME flow' = NoFlow, r.ctx # NoFlow PROVE r.ctx.state # "COMPLETED"
      OBVIOUS
    <2>2. event.event = "cancelled" /\ flow.state # "EXITING"
      BY <2>1 DEF HandleFlow
    <2>3. r = [ctx |-> [flow EXCEPT !.state = "CANCELLED"], lines |-> <<>>]
      BY <2>2 DEF FlowStep
    <2>4. r.ctx = [flow EXCEPT !.state = "CANCELLED"]
      BY <2>3
    <2>. QED
      BY <1>1, <2>4 DEF Contexts
  <1>7. r.ctx # NoFlow
    BY <1>3 DEF Contexts, NoFlow, Busy
  <1>. DEFINE c == r.ctx
  <1>. HIDE DEF event, r, lines, a, b
  <1>8. /\ DeviceInv' /\ Captures' /\ \A s \in Sessions : Consumed(s) => Consumed(s)'
        /\ \A s \in Sessions : event.event = "captured" /\ event.session = s =>
             s <= started /\ Consumed(s)' /\ \A i \in Slots : disk[i].session # s
    BY <1>4, <1>5, EventTaken DEF event
  <1>9. FlowInv' /\ Disks'
    <2>1. CASE flow' = NoFlow
      <3>1. disk' = disk
        BY <1>5, <1>6, <1>7, <2>1
      <3>. QED
        BY <1>8, <2>1, <3>1, FlowKept
    <2>2. CASE flow' = c
      <3>1. flow' \in Contexts /\ flow'.session = flow.session /\ flow'.slot = flow.slot
            /\ flow'.frame \in {NoFrame, flow'.session} /\ flow'.session <= started
        BY <1>1, <1>3, <2>2
      <3>2. ASSUME flow'.state \in PostCapture
            PROVE  /\ \A s \in Sessions : flow'.session = s => Consumed(s)'
                   /\ \A i \in Slots : disk[i].session = flow'.session => i = flow'.slot
        <4>1. CASE flow.state \in PostCapture
          BY <1>8, <3>1, <4>1 DEF LearnerInv, FlowInv
        <4>2. CASE event.event = "captured" /\ event.session = flow.session
          BY <1>1, <1>8, <3>1, <4>2
        <4>. QED
          BY <1>3, <2>2, <3>2, <4>1, <4>2
      <3>3. \/ disk' = disk
            \/ /\ flow'.state \in PostCapture
               /\ disk' = [disk EXCEPT ![flow'.slot] =
                             [session |-> flow'.session, frame |-> flow'.session]]
        BY <1>3, <1>5, <2>2 DEF PostCapture
      <3>. QED
        BY <1>8, <3>1, <3>2, <3>3, FlowNext
    <2>. QED
      BY <1>5, <2>1, <2>2
  <1>. QED
    BY <1>5, <1>8, <1>9 DEF LearnerInv

\* Reading one event keeps the invariant.
LEMMA HandleEventKeeps ==
    ASSUME LearnerInv, HandleEvent
    PROVE  LearnerInv'
  <1>. DEFINE event == Head(toHost)
  <1>1. toHost # <<>> /\ toHost' = Tail(toHost) /\ UNCHANGED <<dev, link, slot, started>>
    BY DEF HandleEvent
  <1>2. event \in HostEvents
    BY <1>1, TailOf DEF LearnerInv, DeviceInv
  <1>3. CASE Adopts(event)
    <2>. DEFINE lines == <<Line("export", event.session)>>
    <2>1. event.event = "captured" /\ event.session \in Sessions
      BY <1>2, <1>3 DEF Adopts, HostEvents, PlainEvents, FrameEvents, ExitEvents
    <2>2. lines \in Seq(CommandLines) /\ \A k \in 1..Len(lines) : lines[k].cmd # "begin"
      BY <2>1, ProgramLines
    <2>3. /\ flow' = Context(event.session, slot, "EXPORTING") /\ toDev' = Written(lines)
          /\ disk' = disk /\ loops' \in {loops, loops \ {"drain"}}
      BY <1>3 DEF HandleEvent
    <2>. HIDE DEF lines
    <2>4. /\ DeviceInv' /\ Captures' /\ \A s \in Sessions : Consumed(s) => Consumed(s)'
          /\ \A s \in Sessions : event.event = "captured" /\ event.session = s =>
               s <= started /\ Consumed(s)' /\ \A i \in Slots : disk[i].session # s
      BY <1>1, <2>2, <2>3, EventTaken
    <2>. HIDE DEF event
    <2>5. /\ flow' \in Contexts /\ flow'.session = event.session /\ flow'.frame = NoFrame
      BY <2>1, <2>3, ZeroSession DEF Context, Contexts, Busy, LearnerInv
    <2>6. FlowInv' /\ Disks'
      BY <1>1, <2>1, <2>3, <2>4, <2>5, FlowNext
    <2>. QED
      BY <1>1, <2>3, <2>4, <2>6 DEF LearnerInv
  <1>4. CASE ~Adopts(event) /\ flow = NoFlow
    <2>1. toDev' = toDev /\ flow' = flow /\ loops' = loops /\ disk' = disk
      BY <1>4 DEF HandleEvent
    <2>2. toHost' \in Seq(HostEvents) /\ Part(toHost', toHost)
      BY <1>1, TailOf, PartOf DEF LearnerInv, DeviceInv
    <2>3. <<>> \in Seq(CommandLines) /\ \A k \in 1..Len(<<>>) : <<>>[k].cmd # "begin"
      OBVIOUS
    <2>. QED
      BY <1>1, <2>1, <2>2, <2>3, WindowStep DEF LearnerInv
  <1>5. CASE ~Adopts(event) /\ flow # NoFlow
    BY <1>1, <1>5, EventHandled DEF HandleEvent
  <1>. QED
    BY <1>3, <1>4, <1>5

\* A state that is set and the frame cleared or kept.
LEMMA StateSet ==
    ASSUME LearnerInv, flow # NoFlow,
           NEW state \in {"CANCELLED", "COMPLETED", "ERROR", "WAITING_REMOTE", "EXIT_UNCONFIRMED"},
           NEW f, f = [flow EXCEPT !.state = state] \/ f = [flow EXCEPT !.state = state, !.frame = NoFrame]
    PROVE  f \in Contexts /\ f.session = flow.session /\ f.slot = flow.slot /\ f.state = state
           /\ f.frame \in {NoFrame, flow.frame}
  BY FlowForms, ZeroSession DEF Contexts, Busy

\* So does losing the port, or closing it.
LEMMA DisconnectedKeeps ==
    ASSUME LearnerInv, Disconnected, toHost' \in Seq(HostEvents), Part(toHost', toHost),
           loops' \in {loops, loops \ {"drain"}}, UNCHANGED <<dev, slot, started, disk>>
    PROVE  LearnerInv'
  <1>0. <<>> \in Seq(CommandLines) /\ \A k \in 1..Len(<<>>) : <<>>[k].cmd # "begin"
    OBVIOUS
  <1>1. CASE toDev' = toDev /\ flow' = flow
    <2>1. link' \in {"closed", "open", "gone"}
      BY DEF Disconnected, WorkerStops, LearnerInv
    <2>. QED
      BY <1>0, <1>1, <2>1, WindowStep DEF LearnerInv
  <1>2. CASE /\ flow # NoFlow /\ toDev' = Written(Cancel(flow.session))
             /\ flow' = [flow EXCEPT !.state = "CANCELLED", !.frame = NoFrame]
    <2>1. link' \in {"closed", "open", "gone"}
      BY DEF Disconnected, WorkerStops, LearnerInv
    <2>2. /\ flow' \in Contexts /\ flow'.session = flow.session /\ flow'.frame \in {NoFrame, flow.frame}
          /\ flow'.state \notin PostCapture
      BY <1>2, StateSet DEF PostCapture
    <2>3. /\ Cancel(flow.session) \in Seq(CommandLines)
          /\ \A k \in 1..Len(Cancel(flow.session)) : Cancel(flow.session)[k].cmd # "begin"
      BY <1>2, FlowForms, ProgramLines
    <2>. QED
      BY <1>2, <2>1, <2>2, <2>3, WindowStep DEF LearnerInv
  <1>. QED
    BY <1>1, <1>2 DEF Disconnected, Cancels

\* So does a deadline that passes.
LEMMA DeadlineKeeps ==
    ASSUME LearnerInv, Deadline
    PROVE  LearnerInv'
  <1>. DEFINE state == TimedOut(flow)
  <1>1. flow # NoFlow /\ flow.state \in Working
    BY FlowForms DEF Deadline, HasDeadline, Working
  <1>2. /\ flow' = [flow EXCEPT !.state = state]
        /\ UNCHANGED <<dev, toHost, link, slot, started>>
    BY DEF Deadline
  <1>3. /\ state \in {"CANCELLED", "COMPLETED", "ERROR", "WAITING_REMOTE", "EXIT_UNCONFIRMED"}
        /\ state \in PostCapture => flow.state = "EXITING"
    BY DEF TimedOut, PostCapture
  <1>. HIDE DEF state
  <1>4. /\ flow' \in Contexts /\ flow'.session = flow.session /\ flow'.slot = flow.slot
        /\ flow'.frame = flow.frame /\ flow'.state = state
    <2>1. flow \in Contexts
      BY <1>1, FlowForms
    <2>. QED
      BY <1>1, <1>2, <1>3, <2>1, StateSet DEF Contexts
  <1>5. toHost' \in Seq(HostEvents) /\ Part(toHost', toHost)
    BY <1>2, PartOf DEF LearnerInv, DeviceInv
  <1>6. flow'.state \in PostCapture => flow.state \in PostCapture
    BY <1>3, <1>4 DEF PostCapture
  <1>7. CASE state = "COMPLETED"
    <2>1. Save(flow) /\ toDev' = toDev /\ loops' = loops
      BY <1>7 DEF Deadline, state
    <2>2. /\ DeviceInv' /\ Captures' /\ \A s \in Sessions : Consumed(s) => Consumed(s)'
      BY <1>2, <2>1 DEF LearnerInv, DeviceInv, Captures, BeginOnce, CapturedOnce, HasBegin,
         HasCaptured, Consumed
    <2>3. flow'.session <= started /\ flow.frame \in {NoFrame, flow.session}
      BY <1>1, <1>4 DEF LearnerInv, FlowInv
    <2>4. \/ disk' = disk
          \/ /\ flow'.state \in PostCapture
             /\ disk' = [disk EXCEPT ![flow'.slot] =
                           [session |-> flow'.session, frame |-> flow'.session]]
      BY <1>4, <1>7, <2>1, <2>3 DEF Save, PostCapture
    <2>5. flow'.state \in PostCapture =>
             /\ \A s \in Sessions : flow'.session = s => Consumed(s)'
             /\ \A i \in Slots : disk[i].session = flow'.session => i = flow'.slot
      BY <1>4, <1>6, <2>2 DEF LearnerInv, FlowInv
    <2>6. flow'.frame \in {NoFrame, flow'.session}
      BY <1>4, <2>3
    <2>7. FlowInv' /\ Disks'
      BY <1>2, <1>4, <2>2, <2>3, <2>4, <2>5, <2>6, FlowNext
    <2>. QED
      BY <1>2, <2>1, <2>2, <2>7 DEF LearnerInv
  <1>8. CASE state # "COMPLETED"
    <2>1. toDev' = Written(Cancel(flow.session)) /\ loops' \in {loops, loops \ {"clock"}} /\ disk' = disk
      BY <1>8 DEF Deadline, state
    <2>2. /\ Cancel(flow.session) \in Seq(CommandLines)
          /\ \A k \in 1..Len(Cancel(flow.session)) : Cancel(flow.session)[k].cmd # "begin"
      BY <1>1, FlowForms, ProgramLines
    <2>3. loops' \subseteq {"drain", "clock"} /\ link' \in {"closed", "open", "gone"}
      BY <1>2, <2>1 DEF LearnerInv
    <2>. QED
      BY <1>1, <1>2, <1>4, <1>5, <1>6, <2>1, <2>2, <2>3, WindowStep
  <1>. QED
    BY <1>7, <1>8

\* Every step keeps the invariant.
LEMMA LearnerStep == LearnerInv /\ [LearnerNext]_allLearnerVars => LearnerInv'
  <1>0. <<>> \in Seq(CommandLines) /\ \A k \in 1..Len(<<>>) : <<>>[k].cmd # "begin"
    OBVIOUS
  <1> SUFFICES ASSUME LearnerInv, [LearnerNext]_allLearnerVars
               PROVE  LearnerInv'
    OBVIOUS
  <1>a. DeviceInv /\ toHost \in Seq(HostEvents) /\ Part(toHost, toHost)
    BY PartOf DEF LearnerInv, DeviceInv
  <1>1. CASE ConnectLearner
    <2>1. toHost' \in {toHost, <<>>} /\ link' \in {"closed", "open", "gone"}
      BY <1>1 DEF ConnectLearner, WorkerStarts, LearnerInv
    <2>2. toHost' \in Seq(HostEvents) /\ Part(toHost', toHost)
      <3>1. <<>> \in Seq(HostEvents) /\ Part(<<>>, toHost)
        BY <1>a, PartOf
      <3>. QED
        BY <1>a, <2>1, <3>1
    <2>. QED
      BY <1>0, <1>1, <2>1, <2>2, WindowStep DEF ConnectLearner, LearnerInv
  <1>2. CASE DisconnectLearner
    BY <1>a, <1>2, DisconnectedKeeps DEF DisconnectLearner
  <1>3. CASE CancelSlot
    <2>1. flow # NoFlow
      BY <1>3, FlowForms DEF CancelSlot
    <2>2. /\ flow' \in Contexts /\ flow'.session = flow.session /\ flow'.frame \in {NoFrame, flow.frame}
          /\ flow'.state \notin PostCapture
      BY <1>3, <2>1, StateSet DEF PostCapture, CancelSlot
    <2>3. /\ Cancel(flow.session) \in Seq(CommandLines)
          /\ \A k \in 1..Len(Cancel(flow.session)) : Cancel(flow.session)[k].cmd # "begin"
      BY <2>1, FlowForms, ProgramLines
    <2>. QED
      BY <1>3, <1>a, <2>1, <2>2, <2>3, WindowStep DEF CancelSlot, LearnerInv
  <1>4. CASE ResetFlow
    BY <1>0, <1>4, <1>a, WindowStep DEF ResetFlow, LearnerInv, deviceVars
  <1>5. ASSUME NEW i \in Slots, StartSlot(i) PROVE LearnerInv'
    BY <1>5, SlotStarted
  <1>6. CASE HandleEvent
    BY <1>6, HandleEventKeeps
  <1>7. CASE Unplug
    <2>1. PICK k \in 0..Len(toHost) : toHost' = SubSeq(toHost, 1, k)
      BY <1>7 DEF Unplug
    <2>2. toHost' \in Seq(HostEvents) /\ Part(toHost', toHost)
      BY <1>a, <2>1, PartOf
    <2>. QED
      BY <1>0, <1>7, <2>2, WindowStep DEF Unplug, LearnerInv
  <1>8. CASE SerialError
    <2>1. toHost' \in Seq(HostEvents) /\ Part(toHost', toHost)
      BY <1>8, <1>a, PartOf DEF SerialError
    <2>. QED
      BY <1>8, <2>1, DisconnectedKeeps DEF SerialError
  <1>9. CASE Deadline
    BY <1>9, DeadlineKeeps
  <1>10. CASE ResendCancel
    <2>1. flow # NoFlow /\ flow.state = "EXITING"
      BY <1>10, FlowForms DEF ResendCancel, Busy
    <2>2. /\ flow' \in Contexts /\ flow'.session = flow.session /\ flow'.frame = flow.frame
          /\ flow'.state = flow.state /\ flow'.slot = flow.slot
      BY <1>10, <2>1, FlowForms DEF ResendCancel, Contexts
    <2>3. /\ Cancel(flow.session) \in Seq(CommandLines)
          /\ \A k \in 1..Len(Cancel(flow.session)) : Cancel(flow.session)[k].cmd # "begin"
      BY <2>1, FlowForms, ProgramLines
    <2>4. loops' \in {loops, loops \ {"clock"}}
      BY <1>10 DEF ResendCancel
    <2>5. loops' \subseteq {"drain", "clock"} /\ link' \in {"closed", "open", "gone"}
      BY <1>10, <2>4 DEF LearnerInv, ResendCancel
    <2>. QED
      BY <1>10, <1>a, <2>1, <2>2, <2>3, <2>5, WindowStep DEF ResendCancel
  <1>11. CASE DeviceNext /\ UNCHANGED learnerVars
    <2>1. DeviceInv' /\ Captures' /\ \A s \in Sessions : Consumed(s) => Consumed(s)'
      BY <1>11, DeviceCaptures DEF learnerVars
    <2>2. FlowInv' /\ Disks'
      BY <1>11, <2>1, FlowKept DEF learnerVars
    <2>. QED
      BY <1>11, <2>1, <2>2 DEF LearnerInv, learnerVars
  <1>12. CASE UNCHANGED allLearnerVars
    <2>1. UNCHANGED <<dev, toDev, toHost, link, loops, flow, slot, started, disk>>
      BY <1>12 DEF allLearnerVars, learnerVars, deviceVars
    <2>. QED
      BY <1>0, <1>a, <2>1, WindowStep DEF LearnerInv
  <1>. QED
    BY <1>1, <1>2, <1>3, <1>4, <1>5, <1>6, <1>7, <1>8, <1>9, <1>10, <1>11, <1>12 DEF LearnerNext

\* LearnerInv is an inductive invariant of Simple Learner with the device.
THEOREM LearnerInductive == LearnerSpec => []LearnerInv
  <1>. QED
    BY LearnerStart, LearnerStep, PTL DEF LearnerSpec

\* What the invariant promises.
LEMMA LearnerPromises == LearnerInv => SlotsDistinct
  BY DEF LearnerInv, Disks, SlotsDistinct

\* However lines, events, timeouts, retries and unplugging interleave, each slot
\* keeps the frame of its own session and no session fills two slots.
THEOREM SlotsAreDistinct == LearnerSpec => []SlotsDistinct
  <1>. QED
    BY LearnerPromises, LearnerInductive, PTL

\* What the invariant says, as types.
LEMMA LearnerTypes == LearnerInv => LearnerTypeOK
  <1> SUFFICES ASSUME LearnerInv PROVE LearnerTypeOK
    OBVIOUS
  <1>1. flow.state \in Busy \cup {"none", "COMPLETED", "CANCELLED", "ERROR"}
    BY DEF LearnerInv, FlowInv, Contexts, NoFlow
  <1>2. flow # NoFlow => flow.session \in Sessions /\ flow.slot \in Slots
                         /\ flow.frame \in Sessions \cup {NoFrame}
    BY FlowForms DEF LearnerInv, FlowInv
  <1>3. \A i \in Slots : disk[i].session \in Sessions \cup {NoSession}
    BY DEF LearnerInv, Disks, Sessions0
  <1>. QED
    BY <1>1, <1>2, <1>3, DeviceTypes DEF LearnerInv, LearnerTypeOK

------------------------------------------------------------------------------
(***************************************************************************)
(* LearningStudio: what is validated and what is owed to the device.       *)
(***************************************************************************)
Windows == [worker : BOOLEAN, active : BOOLEAN, started : Sessions0,
            saved : SUBSET [session : Sessions, frame : Sessions], closed : BOOLEAN]
Workers == [pc : Waits \cup {"none", "idle", "checked", "gone"}, client : BOOLEAN,
            ready : {"unknown", "yes", "no"}, session : Sessions0, generation : 0..MaxPosts,
            cancelSent : BOOLEAN, frame : Sessions0,
            then : {"", "cancel", "disconnect", "interrupted"},
            exitOk : BOOLEAN, stop : BOOLEAN, owed : BOOLEAN]
Commands == [type : {"CONNECT", "BEGIN", "CANCEL", "DISCONNECT"}, session : Sessions0,
             generation : 1..MaxPosts]
Numbers == [seq : 0..MaxPosts, cancel : 0..MaxPosts, disconnect : 0..MaxPosts]
Reports == [type : {"CANCELLED", "CAPTURE_FAILED", "WORKER_TERMINATED"}]
             \cup [type : {"CAPTURE_VALIDATED"}, session : Sessions, frame : Sessions]

StudioTyped ==
    /\ win \in Windows /\ wk \in Workers /\ queue \in Seq(Commands) /\ posted \in Numbers
    /\ cancelEvent \in BOOLEAN /\ evq \in Seq(Reports) /\ confirmed \subseteq Sessions0

BeginLine(s) == \E k \in 1..Len(toDev) : toDev[k].cmd = "begin" /\ toDev[k].session = s
WaitingEvent(s) == \E k \in 1..Len(toHost) : toHost[k].event = "waiting" /\ toHost[k].session = s

\* The device never heard of the session, and nothing was heard of it.
Fresh(s) == ~BeginLine(s) /\ ~WaitingEvent(s)

\* A session that is to begin is fresh until it does.
BeginsFresh ==
    /\ \A i, j \in 1..Len(queue) :
         queue[i].type = "BEGIN" /\ queue[j].type = "BEGIN"
            /\ queue[i].session = queue[j].session => i = j
    /\ \A k \in 1..Len(queue), s \in Sessions0 : queue[k].type = "BEGIN" /\ queue[k].session = s =>
         s \in Sessions /\ s <= win.started /\ Fresh(s) /\ (wk.pc = "checked" => s # wk.session)
    /\ \A s \in Sessions0 : wk.pc = "checked" /\ wk.session = s =>
         s \in Sessions /\ s <= win.started /\ Fresh(s)
    /\ \A s \in Sessions : s > win.started => Fresh(s)

Capturing == {"entering", "remote", "exporting", "exiting", "clearing"}

\* Behind the waiting event of the session that was just begun there is no
\* reply to an earlier cancel.
EnteringInv == wk.pc = "entering" =>
    /\ \A k \in 1..Len(toDev) :
         toDev[k].cmd = "begin" /\ toDev[k].session = wk.session => k = Len(toDev)
    /\ \A k \in 1..Len(toHost) :
         toHost[k].event = "waiting" /\ toHost[k].session = wk.session =>
           /\ toDev = <<>>
           /\ \A j \in 1..Len(toHost) : k < j => toHost[j].event # "cancelled"

\* So every cancel and every reply to one that is on its way is the session's.
OwnCancels == wk.pc \in {"remote", "exporting", "exiting"} =>
    /\ \A k \in 1..Len(toDev) : toDev[k].cmd = "cancel" => toDev[k].session = wk.session
    /\ \A k \in 1..Len(toHost) : toHost[k].event = "cancelled" => toHost[k].session = wk.session

ExitsNoted ==
    \A k \in 1..Len(toHost) :
        toHost[k].event = "cancelled" /\ toHost[k].exitConfirmed => toHost[k].session \in confirmed

FrameIn ==
    /\ wk.pc \in Capturing => wk.session \in Sessions
    /\ wk.pc \in {"exiting", "clearing"} => wk.frame = wk.session
    /\ wk.pc = "clearing" /\ wk.exitOk => wk.session \in confirmed

Reported ==
    /\ \A k \in 1..Len(evq) : evq[k].type = "CAPTURE_VALIDATED" =>
         evq[k].frame = evq[k].session /\ evq[k].session \in confirmed
    /\ \A r \in win.saved : r.frame = r.session /\ r.session \in confirmed

InQueue(types) == \E k \in 1..Len(queue) : queue[k].type \in types

\* A begin without a cancel is either under way or has its cancel queued; a
\* cancel that overtook the begin, or the flag that ends a capture, is queued.
OwedInv ==
    /\ wk.owed => wk.client /\ ~wk.cancelSent /\ ~wk.stop
                  /\ wk.pc \in {"idle", "status", "checked", "entering", "remote", "exporting"}
    /\ wk.pc \in {"checked", "entering", "remote", "exporting"} => wk.client
    /\ wk.pc \in {"entering", "remote", "exporting"} => ~wk.cancelSent
    /\ wk.owed /\ wk.pc \in {"idle", "status"} => InQueue({"CANCEL", "DISCONNECT"})
    /\ wk.pc \in {"checked"} \cup Capturing /\ posted.cancel >= wk.generation
         => InQueue({"CANCEL", "DISCONNECT"})
    /\ wk.pc \in Capturing /\ cancelEvent => InQueue({"CANCEL", "DISCONNECT"})
    /\ wk.stop => wk.pc \in {"idle", "gone"}

StudioInv ==
    /\ DeviceInv /\ StudioTyped /\ BeginsFresh /\ EnteringInv /\ OwnCancels
    /\ ExitsNoted /\ FrameIn /\ Reported /\ OwedInv

\* A worker that does not exist yet, and one just made.
LEMMA NoWorkerTyped ==
    /\ NoWorker \in Workers /\ [NoWorker EXCEPT !.pc = "idle"] \in Workers
    /\ NoWorker.pc = "none" /\ ~NoWorker.owed /\ ~NoWorker.stop
    /\ [NoWorker EXCEPT !.pc = "idle"].pc = "idle"
    /\ ~[NoWorker EXCEPT !.pc = "idle"].owed /\ ~[NoWorker EXCEPT !.pc = "idle"].stop
  <1>1. /\ 0 \in 0..MaxPosts /\ NoSession \in Sessions0 /\ NoFrame \in Sessions0
        /\ "none" \in Waits \cup {"none", "idle", "checked", "gone"}
        /\ "idle" \in Waits \cup {"none", "idle", "checked", "gone"}
    BY PostsAssumption, ZeroSession
  <1>2. NoWorker \in Workers
    BY <1>1 DEF NoWorker, Workers
  <1>3. [NoWorker EXCEPT !.pc = "idle"] \in Workers
    BY <1>1, <1>2 DEF Workers
  <1>4. NoWorker.pc = "none" /\ ~NoWorker.owed /\ ~NoWorker.stop
    BY DEF NoWorker
  <1>5. /\ [NoWorker EXCEPT !.pc = "idle"].pc = "idle"
        /\ ~[NoWorker EXCEPT !.pc = "idle"].owed /\ ~[NoWorker EXCEPT !.pc = "idle"].stop
    BY DEF NoWorker
  <1>. QED
    BY <1>2, <1>3, <1>4, <1>5

\* There is no worker and no session in the beginning.
LEMMA StudioStart == StudioInit => StudioInv
  <1> SUFFICES ASSUME StudioInit PROVE StudioInv
    OBVIOUS
  <1>1. DeviceInv /\ toDev = <<>> /\ toHost = <<>> /\ queue = <<>> /\ evq = <<>>
    BY DeviceStart DEF StudioInit, DeviceInit
  <1>2. win \in Windows /\ win.saved = {}
    BY ZeroSession DEF StudioInit, WindowInit, Windows
  <1>3. posted \in Numbers
    BY PostsAssumption DEF StudioInit, NothingPosted, Numbers
  <1>4. wk = NoWorker /\ cancelEvent = FALSE /\ confirmed = {}
    BY DEF StudioInit
  <1>5. StudioTyped
    <2>1. cancelEvent \in BOOLEAN
      BY <1>4
    <2>2. wk \in Workers /\ queue \in Seq(Commands) /\ evq \in Seq(Reports) /\ confirmed \subseteq Sessions0
      BY <1>1, <1>4, NoWorkerTyped
    <2>. QED
      BY <1>2, <1>3, <2>1, <2>2 DEF StudioTyped
  <1>6. BeginsFresh /\ EnteringInv /\ OwnCancels /\ ExitsNoted /\ FrameIn
    BY <1>1, <1>4, NoWorkerTyped DEF BeginsFresh, EnteringInv, OwnCancels, ExitsNoted, FrameIn,
       Fresh, BeginLine, WaitingEvent, Capturing
  <1>7. Reported
    BY <1>1, <1>2 DEF Reported
  <1>8. OwedInv
    BY <1>4, NoWorkerTyped DEF OwedInv, Capturing
  <1>. QED
    BY <1>1, <1>5, <1>6, <1>7, <1>8 DEF StudioInv

\* A fresh session stays fresh when the line brings nothing of it.
LEMMA StaysFresh ==
    ASSUME BeginsFresh, UNCHANGED <<win, queue, wk>>,
           \A s \in Sessions0 : Fresh(s) => Fresh(s)'
    PROVE  BeginsFresh'
  BY ZeroSession DEF BeginsFresh

\* A step of the device, with the note of what the module acknowledged.
LEMMA StudioDevice ==
    ASSUME StudioInv, DeviceNext, NoteExit, UNCHANGED studioVars
    PROVE  StudioInv'
  <1>1. /\ DeviceInv /\ DeviceInv'
        /\ \/ Quiet
           \/ \E e \in HostEvents : Notifies(e)
           \/ \E events \in Seq(HostEvents) : Answers(events)
    BY DeviceStep DEF StudioInv
  <1>2. UNCHANGED <<win, queue, posted, cancelEvent, wk, evq>>
    BY DEF studioVars
  <1>3. confirmed \subseteq confirmed'
    BY DEF NoteExit
  <1>4. OwedInv'
    BY <1>2 DEF StudioInv, OwedInv, InQueue
  <1>5. Reported' /\ FrameIn'
    BY <1>2, <1>3 DEF StudioInv, Reported, FrameIn
  <1>6. CASE Quiet
    <2>1. toDev' = toDev /\ toHost' = toHost /\ confirmed' = confirmed
      BY <1>6 DEF Quiet, NoteExit
    <2>2. StudioTyped' /\ EnteringInv' /\ OwnCancels' /\ ExitsNoted'
      BY <1>2, <2>1 DEF StudioInv, StudioTyped, EnteringInv, OwnCancels, ExitsNoted
    <2>3. BeginsFresh'
      BY <1>2, <2>1, StaysFresh DEF StudioInv, Fresh, BeginLine, WaitingEvent
    <2>. QED
      BY <1>1, <1>4, <1>5, <2>2, <2>3 DEF StudioInv
  <1>7. ASSUME NEW e \in HostEvents, Notifies(e)
        PROVE  StudioInv'
    <2>1. /\ Len(toHost') = Len(toHost) + 1 /\ Len(toHost) \in Nat
          /\ toHost'[Len(toHost) + 1] = e /\ toDev' = toDev
          /\ \A i \in 1..Len(toHost) : toHost'[i] = toHost[i]
          /\ \A i \in 1..Len(toHost') : i \in 1..Len(toHost) \/ i = Len(toHost) + 1
      BY <1>1, <1>7, AppendOf DEF DeviceInv, Notifies
    <2>2. e.event \notin {"waiting", "cancelled"}
      BY <1>7 DEF Notifies
    <2>3. \A i \in 1..Len(toHost') : toHost'[i].event \in {"waiting", "cancelled"} =>
            i \in 1..Len(toHost) /\ toHost'[i] = toHost[i]
      BY <2>1, <2>2
    <2>4. confirmed' = confirmed
      BY <2>1, <2>2 DEF NoteExit, Last
    <2>5. StudioTyped'
      BY <1>2, <2>4 DEF StudioInv, StudioTyped
    <2>6. BeginsFresh'
      <3>1. \A s \in Sessions0 : Fresh(s) => Fresh(s)'
        BY <2>1, <2>3 DEF Fresh, BeginLine, WaitingEvent
      <3>. QED
        BY <1>2, <3>1, StaysFresh DEF StudioInv
    <2>7. EnteringInv'
      BY <1>2, <2>1, <2>3 DEF StudioInv, EnteringInv
    <2>8. OwnCancels' /\ ExitsNoted'
      BY <1>2, <2>1, <2>3, <2>4 DEF StudioInv, OwnCancels, ExitsNoted
    <2>. QED
      BY <1>1, <1>4, <1>5, <2>5, <2>6, <2>7, <2>8 DEF StudioInv
  <1>8. ASSUME NEW events \in Seq(HostEvents), Answers(events)
        PROVE  StudioInv'
    <2>1. /\ toDev' = Tail(toDev) /\ Len(toDev') = Len(toDev) - 1 /\ Len(toDev) \in Nat
          /\ Len(toDev) >= 1 /\ toDev # <<>>
          /\ Head(toDev) = toDev[1] /\ Head(toDev) \in CommandLines
          /\ \A i \in 1..Len(toDev') : i + 1 \in 1..Len(toDev) /\ toDev'[i] = toDev[i + 1]
      BY <1>1, <1>8, TailOf DEF DeviceInv, Answers
    <2>2. /\ Len(toHost') = Len(toHost) + Len(events) /\ Len(toHost) \in Nat
          /\ Len(events) \in {1, 2}
          /\ \A i \in 1..Len(toHost) : toHost'[i] = toHost[i]
          /\ \A i \in 1..Len(toHost') :
                \/ i \in 1..Len(toHost) /\ toHost'[i] = toHost[i]
                \/ i > Len(toHost) /\ i - Len(toHost) \in 1..Len(events)
                   /\ toHost'[i] = events[i - Len(toHost)]
      BY <1>1, <1>8, ConcatOf DEF DeviceInv, Answers
    <2>3. \A k \in 1..Len(events) :
            /\ events[k].event = "waiting" =>
                 Head(toDev).cmd = "begin" /\ events[k].session = Head(toDev).session
            /\ events[k].event = "cancelled" =>
                 /\ Head(toDev).cmd = "cancel" /\ events[k].session = Head(toDev).session
                 /\ Len(events) = 1
      BY <1>8 DEF Answers
    <2>4. toHost' \in Seq(HostEvents) /\ Len(toHost') >= 1 /\ toHost'[Len(toHost')] \in HostEvents
      <3>1. toHost' \in Seq(HostEvents) /\ Len(toHost') >= 1 /\ Len(toHost') \in Nat
        <4>1. toHost' \in Seq(HostEvents)
          BY <1>1 DEF DeviceInv
        <4>2. Len(toHost') >= 1 /\ Len(toHost') \in Nat
          BY <2>2
        <4>. QED
          BY <4>1, <4>2
      <3>. QED
        BY <3>1
    <2>5. confirmed' \subseteq Sessions0
      <3>1. toHost'[Len(toHost')].session \in Sessions0
        BY <2>4, ZeroSession DEF HostEvents, PlainEvents, FrameEvents, ExitEvents
      <3>. QED
        BY <3>1 DEF NoteExit, Last, StudioInv, StudioTyped
    <2>6. StudioTyped'
      BY <1>2, <2>5 DEF StudioInv, StudioTyped
    <2>7. ExitsNoted'
      <3>1. SUFFICES ASSUME NEW k \in 1..Len(toHost'), toHost'[k].event = "cancelled",
                            toHost'[k].exitConfirmed
                     PROVE  toHost'[k].session \in confirmed'
        BY DEF ExitsNoted
      <3>2. CASE k \in 1..Len(toHost) /\ toHost'[k] = toHost[k]
        BY <1>3, <3>1, <3>2 DEF StudioInv, ExitsNoted
      <3>3. CASE k > Len(toHost) /\ k - Len(toHost) \in 1..Len(events)
                 /\ toHost'[k] = events[k - Len(toHost)]
        <4>1. Len(events) = 1
          BY <2>3, <3>1, <3>3
        <4>2. k = Len(toHost') /\ toHost' # toHost
          BY <2>2, <3>3, <4>1
        <4>. QED
          BY <3>1, <4>2 DEF NoteExit, Last
      <3>. QED
        BY <2>2, <3>2, <3>3
    <2>8. BeginsFresh'
      <3>1. ASSUME NEW s \in Sessions0, Fresh(s) PROVE Fresh(s)'
        <4>1. ~BeginLine(s)'
          BY <2>1, <3>1 DEF Fresh, BeginLine
        <4>2. ~(Head(toDev).cmd = "begin" /\ Head(toDev).session = s)
          BY <2>1, <3>1 DEF Fresh, BeginLine
        <4>3. ~WaitingEvent(s)'
          BY <2>2, <2>3, <3>1, <4>2 DEF Fresh, WaitingEvent
        <4>. QED
          BY <4>1, <4>3 DEF Fresh
      <3>. QED
        BY <1>2, <3>1, StaysFresh DEF StudioInv
    <2>9. EnteringInv'
      <3>1. SUFFICES ASSUME wk.pc = "entering" PROVE EnteringInv'
        BY <1>2 DEF EnteringInv
      <3>2. /\ \A k \in 1..Len(toDev) :
                 toDev[k].cmd = "begin" /\ toDev[k].session = wk.session => k = Len(toDev)
            /\ \A k \in 1..Len(toHost) :
                 ~(toHost[k].event = "waiting" /\ toHost[k].session = wk.session)
        BY <2>1, <3>1 DEF StudioInv, EnteringInv
      <3>3. \A k \in 1..Len(toDev') :
              toDev'[k].cmd = "begin" /\ toDev'[k].session = wk.session => k = Len(toDev')
        <4>1. SUFFICES ASSUME NEW k \in 1..Len(toDev'), toDev'[k].cmd = "begin",
                              toDev'[k].session = wk.session
                       PROVE  k = Len(toDev')
          OBVIOUS
        <4>2. k + 1 = Len(toDev)
          BY <2>1, <3>2, <4>1
        <4>3. k \in Nat /\ Len(toDev') = Len(toDev) - 1 /\ Len(toDev) \in Nat
          BY <2>1
        <4>. QED
          BY <4>2, <4>3
      <3>4. ASSUME NEW k \in 1..Len(toHost'), toHost'[k].event = "waiting",
                   toHost'[k].session = wk.session
            PROVE  toDev' = <<>> /\ \A j \in 1..Len(toHost') : k < j => toHost'[j].event # "cancelled"
        <4>1. k > Len(toHost) /\ k - Len(toHost) \in 1..Len(events)
              /\ toHost'[k] = events[k - Len(toHost)]
          BY <2>2, <3>2, <3>4
        <4>2. Head(toDev).cmd = "begin" /\ Head(toDev).session = wk.session
          BY <2>3, <3>4, <4>1
        <4>3. 1 \in 1..Len(toDev)
          BY <2>1
        <4>4. Len(toDev) = 1
          BY <2>1, <3>2, <4>2, <4>3
        <4>5. toDev' = <<>>
          BY <1>1, <2>1, <4>4 DEF DeviceInv
        <4>6. ASSUME NEW j \in 1..Len(toHost'), k < j, toHost'[j].event = "cancelled"
              PROVE  FALSE
          <5>1. j > Len(toHost) /\ j - Len(toHost) \in 1..Len(events)
                /\ toHost'[j] = events[j - Len(toHost)]
            BY <2>2, <4>1, <4>6
          <5>. QED
            BY <2>3, <4>2, <4>6, <5>1
        <4>. QED
          BY <4>5, <4>6
      <3>. QED
        BY <1>2, <3>3, <3>4 DEF EnteringInv
    <2>10. OwnCancels'
      <3>1. SUFFICES ASSUME wk.pc \in {"remote", "exporting", "exiting"} PROVE OwnCancels'
        BY <1>2 DEF OwnCancels
      <3>2. /\ \A k \in 1..Len(toDev) : toDev[k].cmd = "cancel" => toDev[k].session = wk.session
            /\ \A k \in 1..Len(toHost) : toHost[k].event = "cancelled" => toHost[k].session = wk.session
        BY <3>1 DEF StudioInv, OwnCancels
      <3>3. 1 \in 1..Len(toDev)
        BY <2>1
      <3>4. \A k \in 1..Len(toDev') : toDev'[k].cmd = "cancel" => toDev'[k].session = wk.session
        BY <2>1, <3>2
      <3>5. \A k \in 1..Len(toHost') : toHost'[k].event = "cancelled" => toHost'[k].session = wk.session
        BY <2>1, <2>2, <2>3, <3>2, <3>3
      <3>. QED
        BY <1>2, <3>4, <3>5 DEF OwnCancels
    <2>. QED
      BY <1>1, <1>4, <1>5, <2>6, <2>7, <2>8, <2>9, <2>10 DEF StudioInv
  <1>. QED
    BY <1>1, <1>6, <1>7, <1>8

\* A worker that is not, or no longer, in a capture needs nothing of the line.
LEMMA LineKept ==
    ASSUME StudioInv, UNCHANGED <<deviceVars, confirmed>>,
           wk' = wk \/ wk'.pc \in {"none", "idle"}
    PROVE  DeviceInv' /\ EnteringInv' /\ OwnCancels' /\ ExitsNoted' /\ FrameIn'
           /\ \A s \in Sessions0 : Fresh(s)' <=> Fresh(s)
  <1>1. UNCHANGED <<dev, toDev, toHost, confirmed>>
    BY DEF deviceVars
  <1>2. DeviceInv' /\ ExitsNoted' /\ \A s \in Sessions0 : Fresh(s)' <=> Fresh(s)
    BY <1>1 DEF StudioInv, DeviceInv, ExitsNoted, Fresh, BeginLine, WaitingEvent
  <1>3. CASE wk' = wk
    BY <1>1, <1>2, <1>3 DEF StudioInv, EnteringInv, OwnCancels, FrameIn
  <1>4. CASE wk'.pc \in {"none", "idle"}
    BY <1>2, <1>4 DEF EnteringInv, OwnCancels, FrameIn, Capturing
  <1>. QED
    BY <1>3, <1>4

\* What post leaves behind.
LEMMA Posting ==
    ASSUME StudioTyped, NEW type \in {"BEGIN", "CANCEL", "DISCONNECT"}, NEW s \in Sessions0,
           Post(type, s)
    PROVE  /\ queue' \in Seq(Commands) /\ posted' \in Numbers /\ cancelEvent' \in BOOLEAN
           /\ Len(queue') = Len(queue) + 1 /\ Len(queue) \in Nat
           /\ queue'[Len(queue) + 1].type = type /\ queue'[Len(queue) + 1].session = s
           /\ \A k \in 1..Len(queue) : queue'[k] = queue[k]
           /\ \A k \in 1..Len(queue') : k \in 1..Len(queue) \/ k = Len(queue) + 1
           /\ InQueue({"CANCEL", "DISCONNECT"}) \/ type # "BEGIN" => InQueue({"CANCEL", "DISCONNECT"})'
           /\ type = "BEGIN" => posted'.cancel = posted.cancel /\ (cancelEvent' = cancelEvent)
  <1>. DEFINE n == posted.seq + 1
              c == [type |-> type, session |-> s, generation |-> n]
  <1>1. /\ n <= MaxPosts /\ queue' = Append(queue, c)
        /\ posted' = CASE type = "CANCEL" -> [posted EXCEPT !.seq = n, !.cancel = n]
                       [] type = "DISCONNECT" -> [posted EXCEPT !.seq = n, !.disconnect = n]
                       [] OTHER -> [posted EXCEPT !.seq = n]
        /\ cancelEvent' = (cancelEvent \/ type \in {"CANCEL", "DISCONNECT"})
    BY DEF Post
  <1>2. n \in 1..MaxPosts /\ n \in 0..MaxPosts
    BY <1>1, PostsAssumption DEF StudioTyped, Numbers
  <1>3. c \in Commands /\ c.type = type /\ c.session = s
    BY <1>2 DEF Commands
  <1>. HIDE DEF n, c
  <1>4. /\ queue' \in Seq(Commands) /\ Len(queue') = Len(queue) + 1 /\ Len(queue) \in Nat
        /\ queue'[Len(queue) + 1] = c
        /\ \A k \in 1..Len(queue) : queue'[k] = queue[k]
        /\ \A k \in 1..Len(queue') : k \in 1..Len(queue) \/ k = Len(queue) + 1
    BY <1>1, <1>3, AppendOf DEF StudioTyped
  <1>5. posted' \in Numbers /\ (type = "BEGIN" => posted'.cancel = posted.cancel)
    <2>1. posted \in Numbers
      BY DEF StudioTyped
    <2>2. CASE type = "CANCEL"
      BY <1>1, <1>2, <2>1, <2>2 DEF Numbers
    <2>3. CASE type = "DISCONNECT"
      BY <1>1, <1>2, <2>1, <2>3 DEF Numbers
    <2>4. CASE type = "BEGIN"
      BY <1>1, <1>2, <2>1, <2>4 DEF Numbers
    <2>. QED
      BY <2>2, <2>3, <2>4
  <1>6. cancelEvent' \in BOOLEAN
    BY <1>1, Zenon
  <1>7. InQueue({"CANCEL", "DISCONNECT"}) \/ type # "BEGIN" => InQueue({"CANCEL", "DISCONNECT"})'
    <2>1. CASE InQueue({"CANCEL", "DISCONNECT"})
      BY <1>4, <2>1 DEF InQueue
    <2>2. CASE type # "BEGIN"
      <3>1. Len(queue) + 1 \in 1..Len(queue') /\ queue'[Len(queue) + 1].type \in {"CANCEL", "DISCONNECT"}
        BY <1>3, <1>4, <2>2
      <3>. QED
        BY <3>1 DEF InQueue
    <2>. QED
      BY <2>1, <2>2
  <1>8. type = "BEGIN" => (cancelEvent' = cancelEvent)
    BY <1>1 DEF StudioTyped
  <1>. QED
    BY <1>3, <1>4, <1>5, <1>6, <1>7, <1>8

\* The window queues a command under a new number.
LEMMA PostKeeps ==
    ASSUME StudioInv, NEW type \in {"BEGIN", "CANCEL", "DISCONNECT"}, NEW s \in Sessions0,
           Post(type, s), UNCHANGED <<wk, evq, deviceVars, confirmed>>,
           win' \in Windows, win'.saved = win.saved,
           \/ type # "BEGIN" /\ win'.started = win.started
           \/ type = "BEGIN" /\ s = win.started + 1 /\ s \in Sessions /\ win'.started = s
    PROVE  StudioInv'
  <1>0. StudioTyped
    BY DEF StudioInv
  <1>1. /\ queue' \in Seq(Commands) /\ posted' \in Numbers /\ cancelEvent' \in BOOLEAN
        /\ Len(queue') = Len(queue) + 1 /\ Len(queue) \in Nat
        /\ queue'[Len(queue) + 1].type = type /\ queue'[Len(queue) + 1].session = s
        /\ \A k \in 1..Len(queue) : queue'[k] = queue[k]
        /\ \A k \in 1..Len(queue') : k \in 1..Len(queue) \/ k = Len(queue) + 1
        /\ InQueue({"CANCEL", "DISCONNECT"}) \/ type # "BEGIN" => InQueue({"CANCEL", "DISCONNECT"})'
        /\ type = "BEGIN" => posted'.cancel = posted.cancel /\ (cancelEvent' = cancelEvent)
    BY <1>0, Posting
  <1>2. DeviceInv' /\ EnteringInv' /\ OwnCancels' /\ ExitsNoted' /\ FrameIn'
        /\ \A x \in Sessions0 : Fresh(x)' <=> Fresh(x)
    BY LineKept
  <1>3. StudioTyped'
    BY <1>0, <1>1 DEF StudioTyped
  <1>4. Reported'
    BY DEF StudioInv, Reported
  <1>5. OwedInv'
    <2>1. CASE type # "BEGIN"
      BY <1>1, <2>1 DEF StudioInv, OwedInv
    <2>2. CASE type = "BEGIN"
      BY <1>1, <2>2 DEF StudioInv, OwedInv
    <2>. QED
      BY <2>1, <2>2
  <1>6. BeginsFresh'
    <2>0. win.started \in Nat /\ win'.started \in Nat /\ win'.started >= win.started
      BY SessionNumbers DEF StudioInv, StudioTyped, Windows
    <2>1. CASE type # "BEGIN"
      <3>1. \A k \in 1..Len(queue') : queue'[k].type = "BEGIN" => k \in 1..Len(queue) /\ queue'[k] = queue[k]
        BY <1>1, <2>1
      <3>2. win'.started = win.started
        BY <2>0, <2>1, SessionNumbers
      <3>3. /\ \A i, j \in 1..Len(queue) :
                 queue[i].type = "BEGIN" /\ queue[j].type = "BEGIN"
                    /\ queue[i].session = queue[j].session => i = j
            /\ \A k \in 1..Len(queue), x \in Sessions0 : queue[k].type = "BEGIN" /\ queue[k].session = x =>
                 x \in Sessions /\ x <= win.started /\ Fresh(x) /\ (wk.pc = "checked" => x # wk.session)
            /\ \A x \in Sessions0 : wk.pc = "checked" /\ wk.session = x =>
                 x \in Sessions /\ x <= win.started /\ Fresh(x)
            /\ \A x \in Sessions : x > win.started => Fresh(x)
        BY DEF StudioInv, BeginsFresh
      <3>. QED
        BY <1>2, <3>1, <3>2, <3>3, ZeroSession DEF BeginsFresh
    <2>2. CASE s = win.started + 1 /\ s \in Sessions /\ win'.started = s
      <3>1. /\ \A i, j \in 1..Len(queue) :
                 queue[i].type = "BEGIN" /\ queue[j].type = "BEGIN"
                    /\ queue[i].session = queue[j].session => i = j
            /\ \A k \in 1..Len(queue), x \in Sessions0 : queue[k].type = "BEGIN" /\ queue[k].session = x =>
                 x \in Sessions /\ x <= win.started /\ Fresh(x) /\ (wk.pc = "checked" => x # wk.session)
            /\ \A x \in Sessions0 : wk.pc = "checked" /\ wk.session = x =>
                 x \in Sessions /\ x <= win.started /\ Fresh(x)
            /\ \A x \in Sessions : x > win.started => Fresh(x)
        BY DEF StudioInv, BeginsFresh
      <3>2. Fresh(s) /\ \A x \in Sessions0 : x <= win.started => x <= s /\ x # s
        BY <2>0, <2>2, <3>1, SessionNumbers
      <3>3. \A k \in 1..Len(queue) : queue[k].session \in Sessions0
        <4>1. \A k \in 1..Len(queue) : queue[k] \in Commands
          BY <1>0 DEF StudioTyped
        <4>. QED
          BY <4>1 DEF Commands
      <3>4. \A k \in 1..Len(queue) : queue[k].type = "BEGIN" => queue[k].session # s
        BY <3>1, <3>2, <3>3
      <3>5. wk.session \in Sessions0
        BY <1>0 DEF StudioTyped, Workers
      <3>6. wk.pc = "checked" => s # wk.session
        BY <3>1, <3>2, <3>5
      <3>7. ASSUME NEW i \in 1..Len(queue'), NEW j \in 1..Len(queue'),
                   queue'[i].type = "BEGIN", queue'[j].type = "BEGIN",
                   queue'[i].session = queue'[j].session
            PROVE  i = j
        <4>1. CASE i \in 1..Len(queue) /\ j \in 1..Len(queue)
          BY <1>1, <3>1, <3>7, <4>1
        <4>2. CASE i = Len(queue) + 1 /\ j \in 1..Len(queue)
          BY <1>1, <3>4, <3>7, <4>2
        <4>3. CASE j = Len(queue) + 1 /\ i \in 1..Len(queue)
          BY <1>1, <3>4, <3>7, <4>3
        <4>. QED
          BY <1>1, <4>1, <4>2, <4>3
      <3>8. ASSUME NEW k \in 1..Len(queue'), NEW x \in Sessions0, queue'[k].type = "BEGIN",
                   queue'[k].session = x
            PROVE  x \in Sessions /\ x <= s /\ Fresh(x) /\ (wk.pc = "checked" => x # wk.session)
        <4>1. CASE k \in 1..Len(queue)
          BY <1>1, <3>1, <3>2, <3>8, <4>1
        <4>2. CASE k = Len(queue) + 1
          <5>1. x = s /\ s <= s
            BY <1>1, <2>2, <3>8, <4>2, SessionNumbers
          <5>. QED
            BY <2>2, <3>2, <3>6, <5>1
        <4>. QED
          BY <1>1, <4>1, <4>2
      <3>9. \A x \in Sessions0 : wk.pc = "checked" /\ wk.session = x => x \in Sessions /\ x <= s /\ Fresh(x)
        BY <3>1, <3>2
      <3>10. \A x \in Sessions : x > s => Fresh(x)
        BY <2>0, <2>2, <3>1, SessionNumbers
      <3>. QED
        BY <1>2, <2>2, <3>7, <3>8, <3>9, <3>10, ZeroSession DEF BeginsFresh
    <2>. QED
      BY <2>1, <2>2
  <1>. QED
    BY <1>2, <1>3, <1>4, <1>5, <1>6 DEF StudioInv

\* The window connects: a new worker, or a new command to the present one.
LEMMA ConnectKeeps ==
    ASSUME StudioInv, Connect, UNCHANGED confirmed
    PROVE  StudioInv'
  <1>. DEFINE c == [type |-> "CONNECT", session |-> NoSession, generation |-> posted.seq + 1]
  <1>0. posted \in Numbers /\ win \in Windows
    BY DEF StudioInv, StudioTyped
  <1>1. posted.seq + 1 \in 1..MaxPosts /\ posted.seq + 1 \in 0..MaxPosts
    BY <1>0, PostsAssumption DEF Connect, Numbers
  <1>2. c \in Commands /\ c.type = "CONNECT" /\ queue' = <<c>>
    BY <1>1, ZeroSession DEF Commands, Connect
  <1>. HIDE DEF c
  <1>3. queue' \in Seq(Commands) /\ \A k \in 1..Len(queue') : queue'[k].type = "CONNECT"
    BY <1>2
  <1>4. posted' \in Numbers /\ posted'.cancel = 0
    BY <1>1, PostsAssumption DEF Connect, NothingPosted, Numbers
  <1>5. wk' \in Workers /\ wk'.pc = "idle" /\ ~wk'.owed /\ ~wk'.stop
    BY NoWorkerTyped DEF Connect
  <1>6. DeviceInv' /\ EnteringInv' /\ OwnCancels' /\ ExitsNoted' /\ FrameIn'
        /\ \A x \in Sessions0 : Fresh(x)' <=> Fresh(x)
    BY <1>5, LineKept DEF Connect
  <1>7. win' \in Windows /\ win'.started = win.started /\ win'.saved = win.saved
    <2>1. win' = [win EXCEPT !.worker = TRUE] /\ TRUE \in BOOLEAN
      BY DEF Connect
    <2>. QED
      BY <1>0, <2>1 DEF Windows
  <1>8. cancelEvent' \in BOOLEAN /\ evq' = evq
    BY DEF Connect
  <1>9. StudioTyped'
    BY <1>3, <1>4, <1>5, <1>7, <1>8 DEF StudioInv, StudioTyped
  <1>10. BeginsFresh'
    BY <1>3, <1>5, <1>6, <1>7, ZeroSession DEF StudioInv, BeginsFresh
  <1>11. Reported'
    BY <1>7, <1>8 DEF StudioInv, Reported
  <1>12. OwedInv'
    BY <1>5 DEF OwedInv, Capturing
  <1>. QED
    BY <1>6, <1>9, <1>10, <1>11, <1>12 DEF StudioInv

\* The window closes only over a worker that is gone.
LEMMA SafeCloseKeeps ==
    ASSUME StudioInv, SafeClose, UNCHANGED confirmed
    PROVE  StudioInv'
  <1>0. win \in Windows
    BY DEF StudioInv, StudioTyped
  <1>1. queue' = <<>> /\ evq' = <<>> /\ wk' = NoWorker
    BY DEF SafeClose
  <1>2. posted' \in Numbers
    BY PostsAssumption DEF SafeClose, NothingPosted, Numbers
  <1>3. wk' \in Workers /\ wk'.pc = "none" /\ ~wk'.owed /\ ~wk'.stop
    BY <1>1, NoWorkerTyped
  <1>4. DeviceInv' /\ EnteringInv' /\ OwnCancels' /\ ExitsNoted' /\ FrameIn'
        /\ \A x \in Sessions0 : Fresh(x)' <=> Fresh(x)
    BY <1>3, LineKept DEF SafeClose
  <1>5. win' \in Windows /\ win'.started = win.started /\ win'.saved = win.saved
    <2>1. win' = [win EXCEPT !.closed = TRUE, !.worker = FALSE] /\ TRUE \in BOOLEAN /\ FALSE \in BOOLEAN
      BY DEF SafeClose
    <2>. QED
      BY <1>0, <2>1 DEF Windows
  <1>6. cancelEvent' \in BOOLEAN
    BY DEF SafeClose
  <1>7. StudioTyped'
    BY <1>1, <1>2, <1>3, <1>5, <1>6 DEF StudioInv, StudioTyped
  <1>8. BeginsFresh'
    BY <1>1, <1>3, <1>4, <1>5, ZeroSession DEF StudioInv, BeginsFresh
  <1>9. Reported'
    BY <1>1, <1>5 DEF StudioInv, Reported
  <1>10. OwedInv'
    BY <1>3 DEF OwedInv, Capturing
  <1>. QED
    BY <1>4, <1>7, <1>8, <1>9, <1>10 DEF StudioInv

\* The window takes one report, and saves what was validated.
LEMMA DrainKeeps ==
    ASSUME StudioInv, DrainEvent, UNCHANGED confirmed
    PROVE  StudioInv'
  <1>0. win \in Windows /\ evq \in Seq(Reports) /\ evq # <<>>
    BY DEF StudioInv, StudioTyped, DrainEvent
  <1>1. /\ evq' = Tail(evq) /\ evq' \in Seq(Reports) /\ Len(evq') = Len(evq) - 1
        /\ Len(evq) \in Nat /\ Len(evq) >= 1
        /\ Head(evq) = evq[1] /\ Head(evq) \in Reports
        /\ \A i \in 1..Len(evq') : i + 1 \in 1..Len(evq) /\ evq'[i] = evq[i + 1]
    BY <1>0, TailOf DEF DrainEvent
  <1>2. UNCHANGED <<queue, posted, cancelEvent, wk, deviceVars>>
    BY DEF DrainEvent
  <1>3. DeviceInv' /\ EnteringInv' /\ OwnCancels' /\ ExitsNoted' /\ FrameIn'
        /\ \A x \in Sessions0 : Fresh(x)' <=> Fresh(x)
    BY <1>2, LineKept
  <1>4. PICK selected \in BOOLEAN : win' = Handled(Head(evq), selected)
    BY DEF DrainEvent
  <1>5. /\ win' \in Windows /\ win'.started = win.started
        /\ \A r \in win'.saved : r.frame = r.session /\ r.session \in confirmed
    <2>0. /\ win.saved \subseteq [session : Sessions, frame : Sessions]
          /\ \A r \in win.saved : r.frame = r.session /\ r.session \in confirmed
          /\ TRUE \in BOOLEAN /\ FALSE \in BOOLEAN
      BY <1>0 DEF Windows, StudioInv, Reported
    <2>1. CASE Head(evq).type = "CAPTURE_VALIDATED"
      <3>. DEFINE r == [session |-> Head(evq).session, frame |-> Head(evq).frame]
                  saved == IF ~selected THEN win.saved ELSE win.saved \cup {r}
      <3>1. 1 \in 1..Len(evq)
        BY <1>1
      <3>2. /\ r \in [session : Sessions, frame : Sessions] /\ r.frame = r.session
            /\ r.session \in confirmed
        BY <1>1, <2>1, <3>1 DEF Reports, StudioInv, Reported
      <3>3. win' = [win EXCEPT !.active = FALSE, !.saved = saved]
        BY <1>4, <2>1 DEF Handled
      <3>. HIDE DEF r
      <3>4. /\ saved \in SUBSET [session : Sessions, frame : Sessions]
            /\ \A x \in saved : x.frame = x.session /\ x.session \in confirmed
        BY <2>0, <3>2
      <3>. HIDE DEF saved
      <3>. QED
        BY <1>0, <2>0, <3>3, <3>4 DEF Windows
    <2>2. CASE Head(evq).type \in {"CAPTURE_FAILED", "CANCELLED"}
      <3>1. win' = [win EXCEPT !.active = FALSE]
        BY <1>4, <2>2 DEF Handled
      <3>. QED
        BY <1>0, <2>0, <3>1 DEF Windows
    <2>3. CASE Head(evq).type = "WORKER_TERMINATED"
      <3>1. win' = [win EXCEPT !.worker = FALSE]
        BY <1>4, <2>3 DEF Handled
      <3>. QED
        BY <1>0, <2>0, <3>1 DEF Windows
    <2>4. CASE Head(evq).type \notin {"CAPTURE_VALIDATED", "CAPTURE_FAILED", "CANCELLED", "WORKER_TERMINATED"}
      BY <1>1, <2>4 DEF Reports
    <2>. QED
      BY <2>1, <2>2, <2>3, <2>4
  <1>6. StudioTyped'
    BY <1>1, <1>2, <1>5 DEF StudioInv, StudioTyped
  <1>7. BeginsFresh'
    BY <1>2, <1>3, <1>5, ZeroSession DEF StudioInv, BeginsFresh
  <1>8. Reported'
    BY <1>1, <1>5 DEF StudioInv, Reported
  <1>9. OwedInv'
    BY <1>2 DEF StudioInv, OwedInv, InQueue
  <1>. QED
    BY <1>3, <1>6, <1>7, <1>8, <1>9 DEF StudioInv

\* What the user does in the window keeps the invariant.
LEMMA WindowKeeps ==
    ASSUME StudioInv, WindowNext, UNCHANGED confirmed
    PROVE  StudioInv'
  <1>0. win \in Windows /\ TRUE \in BOOLEAN /\ FALSE \in BOOLEAN
    BY DEF StudioInv, StudioTyped
  <1>1. CASE StartCapture
    <2>. DEFINE s == win.started + 1
    <2>1. s \in Sessions /\ s \in Sessions0
      BY <1>1, ZeroSession DEF StartCapture
    <2>2. win' = [win EXCEPT !.started = s, !.active = TRUE] /\ Post("BEGIN", s)
          /\ UNCHANGED <<wk, evq, deviceVars, confirmed>>
      BY <1>1 DEF StartCapture
    <2>. HIDE DEF s
    <2>3. win' \in Windows /\ win'.started = s /\ win'.saved = win.saved
      BY <1>0, <2>1, <2>2 DEF Windows
    <2>. QED
      BY <2>1, <2>2, <2>3, PostKeeps DEF s
  <1>2. CASE CancelLearning
    <2>1. win' = [win EXCEPT !.active = FALSE] /\ Post("CANCEL", NoSession)
          /\ UNCHANGED <<wk, evq, deviceVars, confirmed>>
      BY <1>2 DEF CancelLearning
    <2>2. win' \in Windows /\ win'.started = win.started /\ win'.saved = win.saved
      BY <1>0, <2>1 DEF Windows
    <2>. QED
      BY <2>1, <2>2, ZeroSession, PostKeeps
  <1>3. CASE DisconnectDevice
    <2>1. win' = win /\ Post("DISCONNECT", NoSession) /\ UNCHANGED <<wk, evq, deviceVars, confirmed>>
      BY <1>3 DEF DisconnectDevice
    <2>. QED
      BY <1>0, <2>1, ZeroSession, PostKeeps
  <1>. QED
    BY <1>1, <1>2, <1>3, ConnectKeeps, SafeCloseKeeps, DrainKeeps DEF WindowNext

\* Reading events and writing what begins no session leaves the fresh fresh.
LEMMA LineRead ==
    ASSUME StudioInv, toHost' \in Seq(HostEvents), Part(toHost', toHost),
           dev' = dev, confirmed' = confirmed,
           \/ toDev' = toDev
           \/ \E l \in CommandLines : l.cmd # "begin" /\ toDev' = Append(toDev, l)
    PROVE  DeviceInv' /\ ExitsNoted' /\ \A s \in Sessions0 : Fresh(s) => Fresh(s)'
  <1>1. DeviceInv
    BY DEF StudioInv
  <1>2. PICK a \in 0..Len(toHost) :
          /\ Len(toHost') + a <= Len(toHost)
          /\ \A i \in 1..Len(toHost') : i + a \in 1..Len(toHost) /\ toHost'[i] = toHost[i + a]
    BY DEF Part
  <1>3. /\ toDev' \in Seq(CommandLines)
        /\ \A i \in 1..Len(toDev') : toDev'[i].cmd = "begin" =>
             i \in 1..Len(toDev) /\ toDev'[i] = toDev[i]
    <2>1. CASE toDev' = toDev
      BY <1>1, <2>1 DEF DeviceInv
    <2>2. ASSUME NEW l \in CommandLines, l.cmd # "begin", toDev' = Append(toDev, l)
          PROVE  /\ toDev' \in Seq(CommandLines)
                 /\ \A i \in 1..Len(toDev') : toDev'[i].cmd = "begin" =>
                      i \in 1..Len(toDev) /\ toDev'[i] = toDev[i]
      BY <1>1, <2>2, AppendOf DEF DeviceInv
    <2>. QED
      BY <2>1, <2>2
  <1>4. DeviceInv'
    BY <1>1, <1>3 DEF DeviceInv
  <1>5. ExitsNoted'
    BY <1>2 DEF StudioInv, ExitsNoted
  <1>6. ASSUME NEW s \in Sessions0, Fresh(s) PROVE Fresh(s)'
    <2>1. ~BeginLine(s)'
      BY <1>3, <1>6 DEF Fresh, BeginLine
    <2>2. ~WaitingEvent(s)'
      BY <1>2, <1>6 DEF Fresh, WaitingEvent
    <2>. QED
      BY <2>1, <2>2 DEF Fresh
  <1>. QED
    BY <1>4, <1>5, <1>6

\* What the worker read is a part of the line.
LEMMA Reads ==
    ASSUME DeviceInv
    PROVE  /\ \A k \in DOMAIN toHost : ReadTo(k) => toHost' \in Seq(HostEvents) /\ Part(toHost', toHost)
           /\ toHost' = <<>> => toHost' \in Seq(HostEvents) /\ Part(toHost', toHost)
           /\ toHost' = toHost => toHost' \in Seq(HostEvents) /\ Part(toHost', toHost)
           /\ \A k \in DOMAIN toHost : k \in 1..Len(toHost) /\ toHost[k] \in HostEvents
  <1>1. DOMAIN toHost = 1..Len(toHost) /\ Len(toHost) \in Nat /\ toHost \in Seq(HostEvents)
    BY DEF DeviceInv
  <1>2. \A k \in DOMAIN toHost : k \in 0..Len(toHost) /\ toHost[k] \in HostEvents
    BY <1>1
  <1>3. \A k \in 0..Len(toHost) : /\ SubSeq(toHost, k + 1, Len(toHost)) \in Seq(HostEvents)
                                  /\ Part(SubSeq(toHost, k + 1, Len(toHost)), toHost)
    BY <1>1, PartOf
  <1>4. <<>> \in Seq(HostEvents) /\ Part(<<>>, toHost) /\ Part(toHost, toHost)
    BY <1>1, PartOf
  <1>5. toHost' = <<>> => toHost' \in Seq(HostEvents) /\ Part(toHost', toHost)
    BY <1>4
  <1>6. toHost' = toHost => toHost' \in Seq(HostEvents) /\ Part(toHost', toHost)
    BY <1>1, <1>4
  <1>7. \A k \in DOMAIN toHost : ReadTo(k) => toHost' \in Seq(HostEvents) /\ Part(toHost', toHost)
    BY <1>2, <1>3 DEF ReadTo
  <1>. QED
    BY <1>1, <1>2, <1>5, <1>6, <1>7

\* The begins that wait in the queue, whatever the worker takes from it.
LEMMA QueueShrinks ==
    ASSUME StudioInv, win' = win, wk'.pc # "checked",
           \/ queue' = queue
           \/ queue # <<>> /\ queue' = Tail(queue),
           \A s \in Sessions0 : Fresh(s) => Fresh(s)'
    PROVE  queue' \in Seq(Commands) /\ BeginsFresh'
  <1>1. queue \in Seq(Commands) /\ BeginsFresh
    BY DEF StudioInv, StudioTyped
  <1>2. CASE queue' = queue
    BY <1>1, <1>2, ZeroSession DEF BeginsFresh
  <1>3. CASE queue # <<>> /\ queue' = Tail(queue)
    <2>1. /\ queue' \in Seq(Commands)
          /\ \A i \in 1..Len(queue') : i + 1 \in 1..Len(queue) /\ queue'[i] = queue[i + 1]
      BY <1>1, <1>3, TailOf
    <2>2. ASSUME NEW i \in 1..Len(queue'), NEW j \in 1..Len(queue'),
                 queue'[i].type = "BEGIN", queue'[j].type = "BEGIN",
                 queue'[i].session = queue'[j].session
          PROVE  i = j
      <3>1. i + 1 = j + 1
        BY <1>1, <2>1, <2>2 DEF BeginsFresh
      <3>. QED
        BY <3>1
    <2>3. ASSUME NEW k \in 1..Len(queue'), NEW s \in Sessions0,
                 queue'[k].type = "BEGIN", queue'[k].session = s
          PROVE  s \in Sessions /\ s <= win.started /\ Fresh(s)'
      BY <1>1, <2>1, <2>3 DEF BeginsFresh
    <2>4. \A s \in Sessions : s > win.started => Fresh(s)'
      BY <1>1, ZeroSession DEF BeginsFresh
    <2>. QED
      BY <2>1, <2>2, <2>3, <2>4 DEF BeginsFresh
  <1>. QED
    BY <1>2, <1>3

\* The worker reports; a validated capture needs the module's word.
LEMMA Reporting ==
    ASSUME StudioInv, win' = win, confirmed' = confirmed,
           \/ evq' = evq
           \/ \E r \in Seq(Reports) :
                /\ evq' = evq \o r
                /\ \A k \in 1..Len(r) : r[k].type = "CAPTURE_VALIDATED" =>
                     r[k].frame = r[k].session /\ r[k].session \in confirmed
    PROVE  evq' \in Seq(Reports) /\ Reported'
  <1>1. evq \in Seq(Reports) /\ Reported
    BY DEF StudioInv, StudioTyped
  <1>2. CASE evq' = evq
    BY <1>1, <1>2 DEF Reported
  <1>3. ASSUME NEW r \in Seq(Reports), evq' = evq \o r,
               \A k \in 1..Len(r) : r[k].type = "CAPTURE_VALIDATED" =>
                 r[k].frame = r[k].session /\ r[k].session \in confirmed
        PROVE  evq' \in Seq(Reports) /\ Reported'
    <2>1. /\ evq' \in Seq(Reports)
          /\ \A k \in 1..Len(evq') :
                \/ k \in 1..Len(evq) /\ evq'[k] = evq[k]
                \/ k - Len(evq) \in 1..Len(r) /\ evq'[k] = r[k - Len(evq)]
      BY <1>1, <1>3, ConcatOf
    <2>. QED
      BY <1>1, <1>3, <2>1 DEF Reported
  <1>. QED
    BY <1>2, <1>3

\* The worker leaves the capture, or was in none.
LEMMA WorkerLeaves ==
    ASSUME StudioInv, toHost' \in Seq(HostEvents), Part(toHost', toHost),
           UNCHANGED <<win, posted, dev, confirmed>>,
           \/ toDev' = toDev
           \/ \E l \in CommandLines : l.cmd # "begin" /\ toDev' = Append(toDev, l),
           \/ queue' = queue
           \/ queue # <<>> /\ queue' = Tail(queue),
           cancelEvent' \in BOOLEAN,
           \/ evq' = evq
           \/ \E r \in Seq(Reports) :
                /\ evq' = evq \o r
                /\ \A k \in 1..Len(r) : r[k].type = "CAPTURE_VALIDATED" =>
                     r[k].frame = r[k].session /\ r[k].session \in confirmed,
           wk' \in Workers, wk'.pc \notin Capturing \cup {"checked"},
           wk'.stop => wk'.pc \in {"idle", "gone"},
           wk'.owed => /\ wk'.client /\ ~wk'.cancelSent /\ ~wk'.stop
                       /\ wk'.pc \in {"idle", "status"} /\ InQueue({"CANCEL", "DISCONNECT"})'
    PROVE  StudioInv'
  <1>1. DeviceInv' /\ ExitsNoted' /\ \A s \in Sessions0 : Fresh(s) => Fresh(s)'
    BY LineRead
  <1>2. queue' \in Seq(Commands) /\ BeginsFresh'
    BY <1>1, QueueShrinks
  <1>3. evq' \in Seq(Reports) /\ Reported'
    BY Reporting
  <1>4. StudioTyped'
    BY <1>2, <1>3 DEF StudioInv, StudioTyped
  <1>5. EnteringInv' /\ OwnCancels' /\ FrameIn'
    BY DEF EnteringInv, OwnCancels, FrameIn, Capturing
  <1>6. OwedInv'
    BY DEF OwedInv, Capturing
  <1>. QED
    BY <1>1, <1>2, <1>3, <1>4, <1>5, <1>6 DEF StudioInv

\* A record of a worker with some of its fields set.
LEMMA WorkerSet ==
    ASSUME NEW P, NEW B, NEW R, NEW S, NEW G, NEW T,
           NEW w \in [pc : P, client : B, ready : R, session : S, generation : G,
                      cancelSent : B, frame : S, then : T, exitOk : B, stop : B, owed : B],
           NEW p \in P, NEW c \in B, NEW r \in R, NEW s \in B, NEW o \in B
    PROVE  LET b == [w EXCEPT !.pc = p, !.client = c, !.ready = r, !.cancelSent = s, !.owed = o]
           IN  /\ b \in [pc : P, client : B, ready : R, session : S, generation : G,
                          cancelSent : B, frame : S, then : T, exitOk : B, stop : B, owed : B]
               /\ b.pc = p /\ b.stop = w.stop
               /\ b.client = c /\ b.cancelSent = s /\ b.owed = o
  OBVIOUS

\* Between two commands.
LEMMA BetweenForm ==
    ASSUME StudioTyped
    PROVE  /\ Between \in Workers /\ Between.pc = "idle" /\ ~Between.stop
           /\ Between.owed => wk.owed
           /\ wk.client => Between.client
           /\ Between.cancelSent => wk.cancelSent
  <1>1. wk \in Workers
    BY DEF StudioTyped
  <1>2. wk.client \in BOOLEAN
    BY <1>1, Zenon DEF Workers
  <1>3. wk.cancelSent \in BOOLEAN
    BY <1>1, Zenon DEF Workers
  <1>4. wk.owed \in BOOLEAN
    BY <1>1, Zenon DEF Workers
  <1>5. wk.ready \in {"unknown", "yes", "no"}
    BY <1>1 DEF Workers
  <1>6. NoWorker \in Workers /\ "idle" \in Waits \cup {"none", "idle", "checked", "gone"}
    BY NoWorkerTyped
  <1>7. /\ Between \in Workers /\ Between.pc = "idle" /\ Between.stop = NoWorker.stop
        /\ Between.client = wk.client /\ Between.cancelSent = wk.cancelSent
        /\ Between.owed = wk.owed
    BY <1>2, <1>3, <1>4, <1>5, <1>6, WorkerSet, Zenon DEF Between, Workers
  <1>8. ~NoWorker.stop
    BY NoWorkerTyped
  <1>. QED
    BY <1>7, <1>8, Zenon

\* What the worker can report.
LEMMA ReportForms ==
    /\ <<Failed>> \in Seq(Reports)
    /\ \A k \in 1..Len(<<Failed>>) : <<Failed>>[k].type # "CAPTURE_VALIDATED"
    /\ <<Terminated>> \in Seq(Reports)
    /\ \A k \in 1..Len(<<Terminated>>) : <<Terminated>>[k].type # "CAPTURE_VALIDATED"
    /\ <<Cancelled>> \in Seq(Reports)
    /\ \A k \in 1..Len(<<Cancelled>>) : <<Cancelled>>[k].type # "CAPTURE_VALIDATED"
    /\ <<Cancelled, Cancelled>> \in Seq(Reports)
    /\ \A k \in 1..Len(<<Cancelled, Cancelled>>) :
         <<Cancelled, Cancelled>>[k].type # "CAPTURE_VALIDATED"
    /\ <<>> \in Seq(Reports)
    /\ \A k \in 1..Len(<<>>) : <<>>[k].type # "CAPTURE_VALIDATED"
    /\ \A s \in Sessions :
         /\ <<Validated(s, s)>> \in Seq(Reports)
         /\ \A k \in 1..Len(<<Validated(s, s)>>) :
              <<Validated(s, s)>>[k].frame = s /\ <<Validated(s, s)>>[k].session = s
  <1>1. /\ Failed \in Reports /\ Failed.type # "CAPTURE_VALIDATED"
        /\ Terminated \in Reports /\ Terminated.type # "CAPTURE_VALIDATED"
        /\ Cancelled \in Reports /\ Cancelled.type # "CAPTURE_VALIDATED"
    BY DEF Failed, Terminated, Cancelled, Reports
  <1>2. \A s \in Sessions : Validated(s, s) \in Reports /\ Validated(s, s).frame = s
                            /\ Validated(s, s).session = s
    BY DEF Validated, Reports
  <1>3. \A r \in Reports : <<r>> \in Seq(Reports) /\ \A k \in 1..Len(<<r>>) : <<r>>[k] = r
    OBVIOUS
  <1>4. \A r \in Reports : <<r, r>> \in Seq(Reports) /\ \A k \in 1..Len(<<r, r>>) : <<r, r>>[k] = r
    OBVIOUS
  <1>5. <<>> \in Seq(Reports) /\ \A k \in 1..Len(<<>>) : <<>>[k].type # "CAPTURE_VALIDATED"
    OBVIOUS
  <1>. QED
    BY <1>1, <1>2, <1>3, <1>4, <1>5

\* An exception ends the capture.
LEMMA CaptureEnds ==
    ASSUME StudioInv, wk.pc \in Capturing, CaptureRaises,
           toHost' \in Seq(HostEvents), Part(toHost', toHost),
           UNCHANGED <<workerOnly, queue, cancelEvent, confirmed>>
    PROVE  StudioInv'
  <1>0. /\ StudioTyped /\ OwedInv /\ wk \in Workers
        /\ UNCHANGED <<win, posted, dev, queue, cancelEvent, confirmed>>
    BY DEF StudioInv, StudioTyped, workerOnly
  <1>1. cancelEvent' \in BOOLEAN
    BY <1>0 DEF StudioTyped
  <1>2. CASE cancelEvent
    <2>1. wk' = Between /\ evq' = evq \o <<Failed>> /\ toDev' = toDev
      BY <1>2 DEF CaptureRaises, Return, Emit
    <2>2. InQueue({"CANCEL", "DISCONNECT"})'
      BY <1>0, <1>2 DEF OwedInv, InQueue
    <2>3. /\ wk' \in Workers /\ wk'.pc = "idle" /\ ~wk'.stop
          /\ wk'.owed => wk'.client /\ ~wk'.cancelSent
      BY <1>0, <2>1, BetweenForm DEF OwedInv
    <2>. QED
      BY <1>0, <1>1, <2>1, <2>2, <2>3, ReportForms, WorkerLeaves DEF Capturing
  <1>3. CASE ~cancelEvent
    <2>. DEFINE l == Line("cancel", wk.session)
    <2>1. wk' = [wk EXCEPT !.pc = "cleanup", !.owed = FALSE] /\ evq' = evq /\ toDev' = Append(toDev, l)
      BY <1>3 DEF CaptureRaises, Write
    <2>2. l \in CommandLines /\ l.cmd # "begin"
      BY <1>0, EventForms DEF Workers
    <2>3. wk' \in Workers /\ wk'.pc = "cleanup" /\ ~wk'.owed
      <3>1. FALSE \in BOOLEAN /\ "cleanup" \in Waits
        BY DEF Waits
      <3>. QED
        BY <1>0, <2>1, <3>1 DEF Workers
    <2>4. ~wk'.stop
      BY <1>0, <2>1 DEF OwedInv, Capturing, Workers
    <2>. HIDE DEF l
    <2>. QED
      BY <1>0, <1>1, <2>1, <2>2, <2>3, <2>4, WorkerLeaves DEF Capturing
  <1>. QED
    BY <1>2, <1>3

\* The cancel outside a capture, and the one that interrupts it.
LEMMA CancelSent ==
    ASSUME StudioInv, NEW then \in {"cancel", "disconnect", "interrupted"}, SendCancel(then),
           ~wk.stop, UNCHANGED <<workerOnly, evq, toHost, confirmed>>,
           \/ queue' = queue
           \/ queue # <<>> /\ queue' = Tail(queue),
           cancelEvent' \in BOOLEAN
    PROVE  StudioInv'
  <1>0. /\ StudioTyped /\ OwedInv /\ wk \in Workers /\ DeviceInv
        /\ UNCHANGED <<win, posted, dev, evq, toHost, confirmed>>
    BY DEF StudioInv, StudioTyped, workerOnly
  <1>1. toHost' \in Seq(HostEvents) /\ Part(toHost', toHost)
    BY <1>0, Reads
  <1>a. FALSE \in BOOLEAN /\ "cancelling" \in Waits /\ "cancelled" \in Waits
        /\ then \in {"", "cancel", "disconnect", "interrupted"}
    BY DEF Waits
  <1>2. CASE wk.client /\ ~wk.cancelSent
    <2>. DEFINE l == Line("cancel", NoSession)
    <2>1. /\ wk' = [wk EXCEPT !.pc = "cancelling", !.then = then, !.owed = FALSE]
          /\ toDev' = Append(toDev, l)
      BY <1>2 DEF SendCancel, Write
    <2>2. l \in CommandLines /\ l.cmd # "begin"
      BY EventForms, ZeroSession
    <2>3. wk' \in Workers /\ wk'.pc = "cancelling" /\ ~wk'.owed /\ (wk'.stop = wk.stop)
      BY <1>0, <1>a, <2>1 DEF Workers
    <2>. HIDE DEF l
    <2>. QED
      BY <1>0, <1>1, <2>1, <2>2, <2>3, WorkerLeaves DEF Capturing
  <1>3. CASE ~(wk.client /\ ~wk.cancelSent)
    <2>1. wk' = [wk EXCEPT !.pc = "cancelled", !.then = then] /\ toDev' = toDev
      BY <1>3 DEF SendCancel
    <2>2. /\ wk' \in Workers /\ wk'.pc = "cancelled" /\ (wk'.owed = wk.owed) /\ (wk'.stop = wk.stop)
      BY <1>0, <1>a, <2>1 DEF Workers
    <2>3. ~wk.owed
      BY <1>0, <1>3 DEF OwedInv
    <2>. QED
      BY <1>0, <1>1, <2>1, <2>2, <2>3, WorkerLeaves DEF Capturing
  <1>. QED
    BY <1>2, <1>3

\* A line more about the session itself.
LEMMA OwnKept ==
    ASSUME StudioInv, wk.pc \in {"remote", "exporting", "exiting"}, Part(toHost', toHost),
           wk'.session = wk.session, NEW l \in CommandLines,
           l.cmd = "cancel" => l.session = wk.session, toDev' = Append(toDev, l)
    PROVE  OwnCancels'
  <1>1. /\ \A k \in 1..Len(toDev) : toDev[k].cmd = "cancel" => toDev[k].session = wk.session
        /\ \A k \in 1..Len(toHost) : toHost[k].event = "cancelled" => toHost[k].session = wk.session
    BY DEF StudioInv, OwnCancels
  <1>2. /\ Len(toDev) \in Nat /\ toDev'[Len(toDev) + 1] = l
        /\ \A i \in 1..Len(toDev) : toDev'[i] = toDev[i]
        /\ \A i \in 1..Len(toDev') : i \in 1..Len(toDev) \/ i = Len(toDev) + 1
    BY AppendOf DEF StudioInv, DeviceInv
  <1>3. \A k \in 1..Len(toDev') : toDev'[k].cmd = "cancel" => toDev'[k].session = wk.session
    BY <1>1, <1>2
  <1>4. \A k \in 1..Len(toHost') : toHost'[k].event = "cancelled" => toHost'[k].session = wk.session
    BY <1>1 DEF Part
  <1>. QED
    BY <1>3, <1>4 DEF OwnCancels

\* The capture goes on.
LEMMA CaptureGoesOn ==
    ASSUME StudioInv, toHost' \in Seq(HostEvents), Part(toHost', toHost),
           \/ toDev' = toDev
           \/ \E l \in CommandLines : l.cmd # "begin" /\ toDev' = Append(toDev, l),
           UNCHANGED <<win, posted, dev, confirmed, queue, cancelEvent, evq>>,
           wk.pc \in {"entering", "remote", "exporting", "exiting"}, wk' \in Workers,
           wk'.pc \in {"remote", "exporting", "exiting", "clearing"},
           wk'.session = wk.session, wk'.generation = wk.generation,
           wk'.stop => wk.stop, wk.client => wk'.client, wk'.cancelSent => wk.cancelSent,
           wk'.owed => wk.owed /\ wk'.pc \in {"remote", "exporting"},
           wk'.pc \in {"remote", "exporting"} => wk.pc \in {"entering", "remote", "exporting"},
           OwnCancels',
           wk'.pc \in {"exiting", "clearing"} => wk'.frame = wk.session,
           wk'.pc = "clearing" /\ wk'.exitOk => wk.session \in confirmed
    PROVE  StudioInv'
  <1>1. DeviceInv' /\ ExitsNoted' /\ \A s \in Sessions0 : Fresh(s) => Fresh(s)'
    BY LineRead
  <1>2. queue' \in Seq(Commands) /\ BeginsFresh'
    BY <1>1, QueueShrinks
  <1>3. evq' \in Seq(Reports) /\ Reported'
    BY Reporting
  <1>4. StudioTyped'
    BY <1>2, <1>3 DEF StudioInv, StudioTyped
  <1>5. EnteringInv'
    BY DEF EnteringInv
  <1>6. FrameIn'
    BY DEF FrameIn, StudioInv, Capturing
  <1>7. OwedInv'
    <2>1. wk.pc \in Capturing /\ wk'.pc \in Capturing /\ ~wk.stop /\ OwedInv
      BY DEF Capturing, StudioInv, OwedInv
    <2>2. InQueue({"CANCEL", "DISCONNECT"}) => InQueue({"CANCEL", "DISCONNECT"})'
      BY DEF InQueue
    <2>3. cancelEvent' => cancelEvent
      OBVIOUS
    <2>. QED
      BY <2>1, <2>2, <2>3 DEF OwedInv
  <1>. QED
    BY <1>1, <1>2, <1>3, <1>4, <1>5, <1>6, <1>7 DEF StudioInv

\* A step that only moves on.
LEMMA SetPlace ==
    ASSUME NEW w \in Workers,
           NEW pc \in {"remote", "exporting", "cancelled", "gone", "status", "cancelling"},
           NEW v, v = [w EXCEPT !.pc = pc]
    PROVE  /\ v \in Workers /\ v.pc = pc /\ v.session = w.session
           /\ v.generation = w.generation /\ v.frame = w.frame
           /\ v.stop = w.stop /\ v.client = w.client /\ v.cancelSent = w.cancelSent
           /\ v.owed = w.owed
  BY DEF Workers, Waits

\* Waiting for the module to enter learning.
LEMMA EnterKeeps ==
    ASSUME StudioInv, Enter, UNCHANGED confirmed
    PROVE  StudioInv'
  <1>0. /\ DeviceInv /\ wk \in Workers /\ wk.pc = "entering"
        /\ UNCHANGED <<win, posted, dev, confirmed, queue, cancelEvent>>
    BY DEF StudioInv, StudioTyped, Enter, At, workerOnly
  <1>1. CASE toHost' = <<>> /\ CaptureRaises
    BY <1>0, <1>1, Reads, CaptureEnds DEF Capturing, Enter
  <1>2. ASSUME NEW k \in DOMAIN toHost, toHost[k] = Event("waiting", wk.session), ReadTo(k),
               Goto("remote"), UNCHANGED <<evq, toDev>>
        PROVE  StudioInv'
    <2>1. toHost[k].event = "waiting" /\ toHost[k].session = wk.session
      BY <1>2 DEF Event
    <2>2. k \in 1..Len(toHost) /\ toHost' \in Seq(HostEvents) /\ Part(toHost', toHost)
      BY <1>0, <1>2, Reads
    <2>3. /\ toDev = <<>>
          /\ \A j \in 1..Len(toHost) : k < j => toHost[j].event # "cancelled"
      BY <1>0, <2>1, <2>2 DEF StudioInv, EnteringInv
    <2>4. \A j \in 1..Len(toHost') : j + k \in 1..Len(toHost) /\ k < j + k /\ toHost'[j] = toHost[j + k]
      <3>1. toHost' = SubSeq(toHost, k + 1, Len(toHost)) /\ Len(toHost) \in Nat /\ toHost \in Seq(HostEvents)
        BY <1>0, <1>2 DEF ReadTo, DeviceInv
      <3>. QED
        BY <2>2, <3>1
    <2>5. OwnCancels'
      BY <1>2, <2>3, <2>4 DEF OwnCancels
    <2>6. wk' = [wk EXCEPT !.pc = "remote"]
      BY <1>2 DEF Goto
    <2>7. /\ wk' \in Workers /\ wk'.pc = "remote" /\ wk'.session = wk.session
          /\ wk'.generation = wk.generation /\ wk'.stop = wk.stop /\ wk'.client = wk.client
          /\ wk'.cancelSent = wk.cancelSent /\ wk'.owed = wk.owed
      BY <1>0, <2>6, SetPlace
    <2>. QED
      BY <1>0, <1>2, <2>2, <2>5, <2>7, CaptureGoesOn
  <1>. QED
    BY <1>1, <1>2 DEF Enter

\* Waiting for the key of the remote control.
LEMMA AwaitRemoteKeeps ==
    ASSUME StudioInv, AwaitRemote, UNCHANGED confirmed
    PROVE  StudioInv'
  <1>0. /\ DeviceInv /\ StudioTyped /\ wk \in Workers /\ wk.session \in Sessions0 /\ wk.pc = "remote" /\ ~wk.stop
        /\ UNCHANGED <<win, posted, dev, confirmed, queue>>
    BY DEF StudioInv, StudioTyped, AwaitRemote, At, workerOnly, OwedInv, Workers
  <1>1. ASSUME NEW k \in DOMAIN toHost, ReadTo(k), Goto("exporting"), Write(Line("export", wk.session)),
               UNCHANGED <<evq, cancelEvent>>
        PROVE  StudioInv'
    <2>. DEFINE l == Line("export", wk.session)
    <2>1. l \in CommandLines /\ l.cmd = "export" /\ toDev' = Append(toDev, l)
      BY <1>0, <1>1, EventForms DEF Write
    <2>. HIDE DEF l
    <2>2. toHost' \in Seq(HostEvents) /\ Part(toHost', toHost)
      BY <1>0, <1>1, Reads
    <2>3. wk' = [wk EXCEPT !.pc = "exporting"]
      BY <1>1 DEF Goto
    <2>4. /\ wk' \in Workers /\ wk'.pc = "exporting" /\ wk'.session = wk.session
          /\ wk'.generation = wk.generation /\ wk'.stop = wk.stop /\ wk'.client = wk.client
          /\ wk'.cancelSent = wk.cancelSent /\ wk'.owed = wk.owed
      BY <1>0, <2>3, SetPlace
    <2>5. OwnCancels'
      BY <1>0, <2>1, <2>2, <2>4, OwnKept
    <2>. QED
      BY <1>0, <1>1, <2>1, <2>2, <2>4, <2>5, CaptureGoesOn
  <1>2. CASE ReadNothing({"captured"}) /\ CaptureRaises /\ UNCHANGED cancelEvent
    BY <1>0, <1>2, Reads, CaptureEnds DEF Capturing, ReadNothing, AwaitRemote
  <1>3. CASE SendCancel("interrupted") /\ UNCHANGED <<cancelEvent, evq, toHost>>
    <2>1. cancelEvent' \in BOOLEAN
      BY <1>0, <1>3 DEF StudioTyped
    <2>. QED
      BY <1>0, <1>3, <2>1, CancelSent DEF AwaitRemote
  <1>. QED
    BY <1>1, <1>2, <1>3 DEF AwaitRemote

\* Reading the frame.
LEMMA ExportFrameKeeps ==
    ASSUME StudioInv, ExportFrame, UNCHANGED confirmed
    PROVE  StudioInv'
  <1>0. /\ DeviceInv /\ StudioTyped /\ wk \in Workers /\ wk.session \in Sessions0 /\ wk.pc = "exporting" /\ ~wk.stop
        /\ UNCHANGED <<win, posted, dev, confirmed, queue, cancelEvent>>
    BY DEF StudioInv, StudioTyped, ExportFrame, At, workerOnly, OwedInv, Workers
  <1>1. CASE ReadNothing(ExportNames) /\ CaptureRaises
    BY <1>0, <1>1, Reads, CaptureEnds DEF Capturing, ReadNothing, ExportFrame
  <1>2. ASSUME NEW k \in DOMAIN toHost, ReadTo(k), CaptureRaises
        PROVE  StudioInv'
    <2>1. toHost' \in Seq(HostEvents) /\ Part(toHost', toHost)
      BY <1>0, <1>2, Reads
    <2>. QED
      BY <1>0, <1>2, <2>1, CaptureEnds DEF Capturing, ExportFrame
  <1>3. ASSUME NEW k \in DOMAIN toHost, Exported(k), ReadTo(k + 1),
               wk' = [wk EXCEPT !.pc = "exiting", !.owed = FALSE, !.frame = toHost[k].frame],
               Write(Line("cancel", wk.session)), UNCHANGED evq
        PROVE  StudioInv'
    <2>. DEFINE l == Line("cancel", wk.session)
                f == toHost[k].frame
    <2>1. l \in CommandLines /\ l.cmd = "cancel" /\ l.session = wk.session /\ toDev' = Append(toDev, l)
      BY <1>0, <1>3, EventForms DEF Write
    <2>2. toHost' \in Seq(HostEvents) /\ Part(toHost', toHost)
      <3>1. k + 1 \in DOMAIN toHost
        BY <1>3 DEF Exported
      <3>. QED
        BY <1>0, <1>3, <3>1, Reads
    <2>3. f = wk.session /\ f \in Sessions0
      <3>1. toHost[k] \in HostEvents /\ toHost[k].event = "export.begin" /\ toHost[k].session = wk.session
        BY <1>0, <1>3, Reads DEF Exported
      <3>2. toHost[k] \in FrameEvents
        BY <3>1 DEF HostEvents, PlainEvents, ExitEvents
      <3>. QED
        BY <3>1, <3>2, ZeroSession DEF FrameEvents
    <2>. HIDE DEF l, f
    <2>4. wk' = [wk EXCEPT !.pc = "exiting", !.owed = FALSE, !.frame = f]
      BY <1>3 DEF f
    <2>5. /\ wk' \in Workers /\ wk'.pc = "exiting" /\ wk'.session = wk.session
          /\ wk'.generation = wk.generation /\ wk'.frame = f
          /\ wk'.stop = wk.stop /\ wk'.client = wk.client
          /\ wk'.cancelSent = wk.cancelSent /\ ~wk'.owed
      BY <1>0, <2>3, <2>4 DEF Workers, Waits
    <2>6. OwnCancels'
      BY <1>0, <2>1, <2>2, <2>5, OwnKept
    <2>. QED
      BY <1>0, <1>3, <2>1, <2>2, <2>3, <2>5, <2>6, CaptureGoesOn
  <1>. QED
    BY <1>1, <1>2, <1>3 DEF ExportFrame

\* Waiting for the module to leave learning.
LEMMA ExitLearningKeeps ==
    ASSUME StudioInv, ExitLearning, UNCHANGED confirmed
    PROVE  StudioInv'
  <1>0. /\ DeviceInv /\ StudioTyped /\ wk \in Workers /\ wk.session \in Sessions0 /\ wk.pc = "exiting" /\ ~wk.stop /\ ~wk.owed
        /\ UNCHANGED <<win, posted, dev, confirmed, queue, cancelEvent>>
    BY DEF StudioInv, StudioTyped, ExitLearning, At, workerOnly, OwedInv, Workers
  <1>1. CASE ReadNothing({"cancelled"}) /\ CaptureRaises
    BY <1>0, <1>1, Reads, CaptureEnds DEF Capturing, ReadNothing, ExitLearning
  <1>2. ASSUME NEW k \in DOMAIN toHost, Comes(k, {"cancelled"}), ReadTo(k),
               wk' = [wk EXCEPT !.pc = "clearing", !.exitOk = toHost[k].exitConfirmed],
               Write(Line("clear", NoSession)), UNCHANGED evq
        PROVE  StudioInv'
    <2>. DEFINE l == Line("clear", NoSession)
                ok == toHost[k].exitConfirmed
    <2>1. l \in CommandLines /\ l.cmd # "begin" /\ toDev' = Append(toDev, l)
      BY <1>2, EventForms, ZeroSession DEF Write
    <2>2. toHost' \in Seq(HostEvents) /\ Part(toHost', toHost)
      BY <1>0, <1>2, Reads
    <2>3. k \in 1..Len(toHost) /\ toHost[k] \in HostEvents /\ toHost[k].event = "cancelled"
      BY <1>0, <1>2, Reads DEF Comes
    <2>4. toHost[k] \in ExitEvents
      BY <2>3 DEF HostEvents, PlainEvents, FrameEvents
    <2>5. ok \in BOOLEAN
      BY <2>4, Zenon DEF ExitEvents
    <2>6. ok => wk.session \in confirmed
      BY <1>0, <2>3 DEF StudioInv, OwnCancels, ExitsNoted
    <2>. HIDE DEF l, ok
    <2>7. wk' = [wk EXCEPT !.pc = "clearing", !.exitOk = ok]
      BY <1>2 DEF ok
    <2>8. /\ wk' \in Workers /\ wk'.pc = "clearing" /\ wk'.session = wk.session
          /\ wk'.generation = wk.generation /\ wk'.frame = wk.frame /\ wk'.exitOk = ok
          /\ wk'.stop = wk.stop /\ wk'.client = wk.client
          /\ wk'.cancelSent = wk.cancelSent /\ wk'.owed = wk.owed
      BY <1>0, <2>5, <2>7 DEF Workers, Waits
    <2>9. OwnCancels' /\ wk.frame = wk.session
      BY <1>0, <2>8 DEF OwnCancels, StudioInv, FrameIn
    <2>10. ~wk'.owed /\ ~wk'.stop /\ (wk.client => wk'.client) /\ (wk'.cancelSent => wk.cancelSent)
           /\ (wk'.exitOk => wk.session \in confirmed)
      BY <1>0, <2>6, <2>8, Zenon
    <2>. QED
      BY <1>0, <1>2, <2>1, <2>2, <2>8, <2>9, <2>10, CaptureGoesOn
  <1>. QED
    BY <1>1, <1>2 DEF ExitLearning

\* Clearing the module, and validating the capture.
LEMMA FinishCaptureKeeps ==
    ASSUME StudioInv, FinishCapture, UNCHANGED confirmed
    PROVE  StudioInv'
  <1>0. /\ DeviceInv /\ StudioTyped /\ wk.pc = "clearing"
        /\ UNCHANGED <<win, posted, dev, confirmed, queue, cancelEvent>>
    BY DEF StudioInv, StudioTyped, FinishCapture, At, workerOnly
  <1>1. ~wk.owed /\ wk.session \in Sessions /\ wk.frame = wk.session
        /\ (wk.exitOk => wk.session \in confirmed)
    BY <1>0 DEF StudioInv, OwedInv, FrameIn, Capturing
  <1>2. CASE ReadNothing({"cleared"}) /\ CaptureRaises
    BY <1>0, <1>2, Reads, CaptureEnds DEF Capturing, ReadNothing, FinishCapture
  <1>3. ASSUME NEW k \in DOMAIN toHost, ReadTo(k), Return, Emit(<<Outcome(wk.exitOk)>>),
               UNCHANGED toDev
        PROVE  StudioInv'
    <2>1. toHost' \in Seq(HostEvents) /\ Part(toHost', toHost)
      BY <1>0, <1>3, Reads
    <2>2. wk' = Between
      BY <1>3 DEF Return
    <2>3. wk' \in Workers /\ wk'.pc = "idle" /\ ~wk'.stop /\ ~wk'.owed
      BY <1>0, <1>1, <2>2, BetweenForm
    <2>4. cancelEvent' \in BOOLEAN
      BY <1>0 DEF StudioTyped
    <2>5. \E r \in Seq(Reports) :
            /\ evq' = evq \o r
            /\ \A j \in 1..Len(r) : r[j].type = "CAPTURE_VALIDATED" =>
                 r[j].frame = r[j].session /\ r[j].session \in confirmed
      <3>1. CASE wk.exitOk
        <4>1. evq' = evq \o <<Validated(wk.session, wk.session)>>
          BY <1>1, <1>3, <3>1 DEF Emit, Outcome
        <4>. DEFINE r == <<Validated(wk.session, wk.session)>>
        <4>2. /\ r \in Seq(Reports)
              /\ \A j \in 1..Len(r) : r[j].frame = wk.session /\ r[j].session = wk.session
          BY <1>1, ReportForms
        <4>. HIDE DEF r
        <4>3. evq' = evq \o r
          BY <4>1 DEF r
        <4>. QED
          BY <1>1, <3>1, <4>2, <4>3
      <3>2. CASE ~wk.exitOk
        <4>1. evq' = evq \o <<Failed>>
          BY <1>3, <3>2 DEF Emit, Outcome
        <4>. QED
          BY <4>1, ReportForms
      <3>. QED
        BY <3>1, <3>2
    <2>. QED
      BY <1>0, <1>3, <2>1, <2>3, <2>4, <2>5, WorkerLeaves DEF Capturing
  <1>. QED
    BY <1>2, <1>3 DEF FinishCapture

\* Cleaning up after a capture that failed.
LEMMA CleanupKeeps ==
    ASSUME StudioInv, Cleanup, UNCHANGED confirmed
    PROVE  StudioInv'
  <1>0. /\ DeviceInv /\ StudioTyped /\ wk.pc = "cleanup" /\ ~wk.owed
        /\ wk' = Between /\ evq' = evq \o <<Failed>>
        /\ UNCHANGED <<win, posted, dev, confirmed, queue, cancelEvent, toDev>>
    BY DEF StudioInv, StudioTyped, Cleanup, At, workerOnly, OwedInv, Return, Emit
  <1>1. toHost' \in Seq(HostEvents) /\ Part(toHost', toHost)
    BY <1>0, Reads DEF Cleanup, ReadNothing
  <1>2. wk' \in Workers /\ wk'.pc = "idle" /\ ~wk'.stop /\ ~wk'.owed
    BY <1>0, BetweenForm
  <1>3. cancelEvent' \in BOOLEAN
    BY <1>0 DEF StudioTyped
  <1>. QED
    BY <1>0, <1>1, <1>2, <1>3, ReportForms, WorkerLeaves DEF Capturing

\* Waiting for the reply to a cancel.
LEMMA AwaitCancelledKeeps ==
    ASSUME StudioInv, AwaitCancelled, UNCHANGED confirmed
    PROVE  StudioInv'
  <1>0. /\ DeviceInv /\ StudioTyped /\ wk \in Workers /\ wk.pc = "cancelling" /\ ~wk.owed /\ ~wk.stop
        /\ UNCHANGED <<win, posted, dev, confirmed, queue, cancelEvent, evq, toDev>>
    BY DEF StudioInv, StudioTyped, AwaitCancelled, At, workerOnly, OwedInv
  <1>1. toHost' \in Seq(HostEvents) /\ Part(toHost', toHost)
    BY <1>0, Reads DEF AwaitCancelled, ReadNothing
  <1>2. wk' \in Workers /\ wk'.pc = "cancelled" /\ ~wk'.owed /\ ~wk'.stop
    <2>1. TRUE \in BOOLEAN /\ "cancelled" \in Waits
      BY DEF Waits
    <2>2. CASE wk' = [wk EXCEPT !.pc = "cancelled", !.cancelSent = TRUE]
      BY <1>0, <2>1, <2>2 DEF Workers
    <2>3. CASE wk' = [wk EXCEPT !.pc = "cancelled"]
      BY <1>0, <2>1, <2>3 DEF Workers
    <2>. QED
      BY <2>2, <2>3 DEF AwaitCancelled, Goto
  <1>3. cancelEvent' \in BOOLEAN
    BY <1>0 DEF StudioTyped
  <1>. QED
    BY <1>0, <1>1, <1>2, <1>3, WorkerLeaves DEF Capturing

\* What follows a cancel, whether it was confirmed or not.
LEMMA AfterCancelKeeps ==
    ASSUME StudioInv, AfterCancel, UNCHANGED confirmed
    PROVE  StudioInv'
  <1>0. /\ DeviceInv /\ StudioTyped /\ wk.pc = "cancelled" /\ ~wk.owed
        /\ UNCHANGED <<win, posted, dev, confirmed, queue, toDev, toHost>>
        /\ cancelEvent' = TRUE
    BY DEF StudioInv, StudioTyped, AfterCancel, At, workerOnly, OwedInv
  <1>1. toHost' \in Seq(HostEvents) /\ Part(toHost', toHost)
    BY <1>0, Reads
  <1>2. wk' \in Workers /\ wk'.pc = "idle" /\ ~wk'.owed
    <2>1. Between \in Workers /\ Between.pc = "idle" /\ ~Between.owed
      BY <1>0, BetweenForm
    <2>2. CASE wk' = Between
      BY <2>1, <2>2
    <2>3. CASE wk' = AfterDisconnect
      <3>1. FALSE \in BOOLEAN /\ TRUE \in BOOLEAN
        OBVIOUS
      <3>2. wk' = [Between EXCEPT !.client = FALSE, !.stop = TRUE]
        BY <2>3 DEF AfterDisconnect
      <3>. QED
        BY <2>1, <3>1, <3>2 DEF Workers
    <2>. QED
      BY <2>2, <2>3 DEF AfterCancel
  <1>3. cancelEvent' \in BOOLEAN
    BY <1>0
  <1>4. \E r \in Seq(Reports) :
          evq' = evq \o r /\ \A k \in 1..Len(r) : r[k].type # "CAPTURE_VALIDATED"
    <2>1. \/ evq' = evq \o <<>>
          \/ evq' = evq \o <<Cancelled>>
          \/ evq' = evq \o <<Cancelled, Cancelled>>
      BY DEF AfterCancel, Emit
    <2>. QED
      BY <2>1, ReportForms
  <1>. QED
    BY <1>0, <1>1, <1>2, <1>3, <1>4, WorkerLeaves DEF Capturing

\* The worker leaves.
LEMMA TerminateKeeps ==
    ASSUME StudioInv, Terminate, UNCHANGED confirmed
    PROVE  StudioInv'
  <1>0. /\ DeviceInv /\ StudioTyped /\ wk \in Workers /\ ~wk.owed
        /\ UNCHANGED <<win, posted, dev, confirmed, queue, cancelEvent, toDev, toHost>>
        /\ wk' = [wk EXCEPT !.pc = "gone"] /\ evq' = evq \o <<Terminated>>
    BY DEF StudioInv, StudioTyped, Terminate, At, workerOnly, OwedInv, Goto, Emit
  <1>1. toHost' \in Seq(HostEvents) /\ Part(toHost', toHost)
    BY <1>0, Reads
  <1>2. /\ wk' \in Workers /\ wk'.pc = "gone" /\ wk'.owed = wk.owed
    BY <1>0, SetPlace
  <1>3. cancelEvent' \in BOOLEAN
    BY <1>0 DEF StudioTyped
  <1>. QED
    BY <1>0, <1>1, <1>2, <1>3, ReportForms, WorkerLeaves DEF Capturing

\* Reading the status that says whether the module is ready.
LEMMA ReadStatusKeeps ==
    ASSUME StudioInv, ReadStatus, UNCHANGED confirmed
    PROVE  StudioInv'
  <1>0. /\ DeviceInv /\ StudioTyped /\ OwedInv /\ wk.pc = "status"
        /\ UNCHANGED <<win, posted, dev, confirmed, queue, cancelEvent, evq, toDev>>
    BY DEF StudioInv, StudioTyped, ReadStatus, At, workerOnly
  <1>1. toHost' \in Seq(HostEvents) /\ Part(toHost', toHost)
    BY <1>0, Reads DEF ReadStatus, ReadNothing
  <1>a. /\ Between \in Workers /\ Between.pc = "idle" /\ ~Between.stop
        /\ Between.owed => wk.owed
        /\ wk.client => Between.client
        /\ Between.cancelSent => wk.cancelSent
    BY <1>0, BetweenForm
  <1>2. /\ wk' \in Workers /\ wk'.pc = "idle" /\ ~wk'.stop
        /\ wk'.owed => Between.owed
        /\ Between.client => wk'.client
        /\ wk'.cancelSent => Between.cancelSent
    <2>1. CASE wk' = Between
      BY <1>a, <2>1
    <2>2. ASSUME NEW ready \in {"yes", "no"}, wk' = [Between EXCEPT !.ready = ready]
          PROVE  /\ wk' \in Workers /\ wk'.pc = "idle" /\ ~wk'.stop
                 /\ wk'.owed => Between.owed
                 /\ Between.client => wk'.client
                 /\ wk'.cancelSent => Between.cancelSent
      <3>. HIDE DEF Between
      <3>. QED
        BY <1>a, <2>2 DEF Workers
    <2>3. \/ wk' = Between
          \/ wk' = [Between EXCEPT !.ready = "yes"]
          \/ wk' = [Between EXCEPT !.ready = "no"]
      BY DEF ReadStatus, Return
    <2>. QED
      BY <2>1, <2>2, <2>3
  <1>3. cancelEvent' \in BOOLEAN
    BY <1>0 DEF StudioTyped
  <1>4. wk'.owed => /\ wk'.client /\ ~wk'.cancelSent /\ InQueue({"CANCEL", "DISCONNECT"})'
    BY <1>0, <1>a, <1>2 DEF OwedInv, InQueue
  <1>. QED
    BY <1>0, <1>1, <1>2, <1>3, <1>4, WorkerLeaves DEF Capturing

\* What a command that is no cancel leaves queued.
LEMMA TailQueue ==
    ASSUME StudioTyped, queue # <<>>, queue' = Tail(queue),
           Head(queue).type \notin {"CANCEL", "DISCONNECT"}
    PROVE  InQueue({"CANCEL", "DISCONNECT"}) => InQueue({"CANCEL", "DISCONNECT"})'
  <1>1. /\ Len(queue') = Len(queue) - 1 /\ Len(queue) \in Nat /\ Head(queue) = queue[1]
        /\ \A i \in 1..Len(queue') : queue'[i] = queue[i + 1]
    BY TailOf DEF StudioTyped
  <1>2. ASSUME NEW k \in 1..Len(queue), queue[k].type \in {"CANCEL", "DISCONNECT"}
        PROVE  InQueue({"CANCEL", "DISCONNECT"})'
    <2>1. k # 1
      BY <1>1, <1>2
    <2>2. k - 1 \in 1..Len(queue') /\ k = (k - 1) + 1
      BY <1>1, <2>1
    <2>3. queue'[k - 1] = queue[k]
      BY <1>1, <2>2
    <2>. QED
      BY <1>2, <2>2, <2>3 DEF InQueue
  <1>. QED
    BY <1>2 DEF InQueue

\* Opening the port.
LEMMA ConnectPortKeeps ==
    ASSUME StudioInv, ConnectPort, UNCHANGED confirmed
    PROVE  StudioInv'
  <1>0. /\ DeviceInv /\ StudioTyped /\ OwedInv /\ wk \in Workers /\ wk.pc = "idle" /\ ~wk.stop
        /\ queue # <<>> /\ queue' = Tail(queue) /\ Head(queue).type = "CONNECT"
        /\ UNCHANGED <<win, posted, dev, confirmed, cancelEvent, evq>>
    BY DEF StudioInv, StudioTyped, ConnectPort, Command, At, workerOnly
  <1>1. toHost' \in Seq(HostEvents) /\ Part(toHost', toHost)
    BY <1>0, Reads DEF ConnectPort
  <1>2. cancelEvent' \in BOOLEAN
    BY <1>0 DEF StudioTyped
  <1>3. wk.owed => wk.client /\ ~wk.cancelSent /\ InQueue({"CANCEL", "DISCONNECT"})'
    BY <1>0, TailQueue DEF OwedInv
  <1>4. CASE /\ wk' = [wk EXCEPT !.client = TRUE, !.pc = "status"]
             /\ Write(Line("status", NoSession))
    <2>. DEFINE l == Line("status", NoSession)
    <2>1. l \in CommandLines /\ l.cmd # "begin" /\ toDev' = Append(toDev, l)
      BY <1>4, EventForms, ZeroSession DEF Write
    <2>2. /\ wk' \in Workers /\ wk'.pc = "status" /\ wk'.client
          /\ wk'.owed = wk.owed /\ wk'.cancelSent = wk.cancelSent /\ wk'.stop = wk.stop
      <3>1. TRUE \in BOOLEAN /\ "status" \in Waits
        BY DEF Waits
      <3>. QED
        BY <1>0, <1>4, <3>1 DEF Workers
    <2>. HIDE DEF l
    <2>. QED
      BY <1>0, <1>1, <1>2, <1>3, <2>1, <2>2, WorkerLeaves DEF Capturing
  <1>5. CASE UNCHANGED <<wk, toDev, toHost>>
    BY <1>0, <1>1, <1>2, <1>3, <1>5, WorkerLeaves DEF Capturing
  <1>. QED
    BY <1>4, <1>5 DEF ConnectPort

\* A begin that was superseded is dropped; any other is checked.
LEMMA CheckBeginKeeps ==
    ASSUME StudioInv, CheckBegin, UNCHANGED confirmed
    PROVE  StudioInv'
  <1>0. /\ DeviceInv /\ StudioTyped /\ OwedInv /\ BeginsFresh /\ wk \in Workers
        /\ wk.pc = "idle" /\ ~wk.stop
        /\ queue \in Seq(Commands)
        /\ queue # <<>> /\ queue' = Tail(queue) /\ Head(queue).type = "BEGIN"
        /\ UNCHANGED <<win, posted, dev, confirmed, cancelEvent, toDev, toHost>>
    BY DEF StudioInv, StudioTyped, CheckBegin, Command, At, workerOnly
  <1>1. toHost' \in Seq(HostEvents) /\ Part(toHost', toHost)
    BY <1>0, Reads
  <1>2. cancelEvent' \in BOOLEAN
    BY <1>0 DEF StudioTyped
  <1>3. wk.owed => wk.client /\ ~wk.cancelSent /\ InQueue({"CANCEL", "DISCONNECT"})'
    BY <1>0, TailQueue DEF OwedInv
  <1>4. CASE wk' = wk /\ (evq' = evq \/ evq' = evq \o <<Failed>>)
    <2>1. \/ evq' = evq
          \/ \E r \in Seq(Reports) :
               evq' = evq \o r /\ \A k \in 1..Len(r) : r[k].type # "CAPTURE_VALIDATED"
      BY <1>4, ReportForms
    <2>. QED
      BY <1>0, <1>1, <1>2, <1>3, <1>4, <2>1, WorkerLeaves DEF Capturing
  <1>5. CASE /\ wk.client /\ ~Superseded(Head(queue).generation) /\ evq' = evq
             /\ wk' = [wk EXCEPT !.pc = "checked", !.session = Head(queue).session,
                                 !.generation = Head(queue).generation]
    <2>. DEFINE c == Head(queue)
    <2>1. /\ queue' \in Seq(Commands) /\ Len(queue') = Len(queue) - 1 /\ Len(queue) \in Nat
          /\ Len(queue) >= 1 /\ c = queue[1] /\ c \in Commands
          /\ \A i \in 1..Len(queue') : i + 1 \in 1..Len(queue) /\ queue'[i] = queue[i + 1]
      BY <1>0, TailOf
    <2>2. c.session \in Sessions0 /\ c.generation \in 0..MaxPosts /\ c.generation \in Nat
      BY <2>1, PostsAssumption DEF Commands
    <2>3. /\ wk' \in Workers /\ wk'.pc = "checked" /\ wk'.session = c.session
          /\ wk'.generation = c.generation
          /\ wk'.client = wk.client /\ wk'.cancelSent = wk.cancelSent /\ wk'.owed = wk.owed
          /\ wk'.stop = wk.stop
      BY <1>0, <1>5, <2>2 DEF Workers
    <2>4. posted.cancel < c.generation
      BY <1>0, <1>5, <2>2, PostsAssumption DEF Superseded, StudioTyped, Numbers
    <2>5. 1 \in 1..Len(queue) /\ queue[1].type = "BEGIN" /\ queue[1].session = c.session
      BY <1>0, <2>1
    <2>. HIDE DEF c
    <2>6. DeviceInv' /\ ExitsNoted' /\ \A s \in Sessions0 : Fresh(s) => Fresh(s)'
      BY <1>0, <1>1, LineRead
    <2>7. BeginsFresh'
      <3>1. ASSUME NEW i \in 1..Len(queue'), NEW j \in 1..Len(queue'),
                   queue'[i].type = "BEGIN", queue'[j].type = "BEGIN",
                   queue'[i].session = queue'[j].session
            PROVE  i = j
        <4>1. i + 1 = j + 1
          BY <1>0, <2>1, <3>1 DEF BeginsFresh
        <4>. QED
          BY <4>1
      <3>2. ASSUME NEW k \in 1..Len(queue'), NEW s \in Sessions0,
                   queue'[k].type = "BEGIN", queue'[k].session = s
            PROVE  s \in Sessions /\ s <= win.started /\ Fresh(s)' /\ s # c.session
        <4>1. s \in Sessions /\ s <= win.started /\ Fresh(s)'
          BY <1>0, <2>1, <2>6, <3>2 DEF BeginsFresh
        <4>2. s = c.session => k + 1 = 1
          BY <1>0, <2>1, <2>5, <3>2 DEF BeginsFresh
        <4>3. s # c.session
          BY <4>2
        <4>. QED
          BY <4>1, <4>3
      <3>3. \A s \in Sessions0 : c.session = s => s \in Sessions /\ s <= win.started /\ Fresh(s)'
        BY <1>0, <2>5, <2>6 DEF BeginsFresh
      <3>4. \A s \in Sessions : s > win.started => Fresh(s)'
        BY <1>0, <2>6, ZeroSession DEF BeginsFresh
      <3>. QED
        BY <1>0, <2>3, <3>1, <3>2, <3>3, <3>4 DEF BeginsFresh
    <2>8. EnteringInv' /\ OwnCancels' /\ FrameIn'
      BY <2>3 DEF EnteringInv, OwnCancels, FrameIn, Capturing
    <2>9. OwedInv'
      <3>1. ~(posted'.cancel >= wk'.generation)
        BY <1>0, <2>2, <2>3, <2>4, PostsAssumption DEF StudioTyped, Numbers
      <3>. QED
        BY <1>0, <1>3, <1>5, <2>3, <3>1 DEF OwedInv, Capturing
    <2>10. StudioTyped' /\ Reported'
      BY <1>0, <1>5, <2>1, <2>3 DEF StudioInv, StudioTyped, Reported
    <2>. QED
      BY <2>6, <2>7, <2>8, <2>9, <2>10 DEF StudioInv
  <1>. QED
    BY <1>4, <1>5 DEF CheckBegin, Emit

\* A capture begins, and is owed its end.
LEMMA BeginCaptureKeeps ==
    ASSUME StudioInv, BeginCapture, UNCHANGED confirmed
    PROVE  StudioInv'
  <1>. DEFINE l == Line("begin", wk.session)
  <1>0. /\ DeviceInv /\ StudioTyped /\ OwedInv /\ BeginsFresh /\ wk \in Workers
        /\ wk.pc = "checked" /\ wk.session \in Sessions0
        /\ UNCHANGED <<win, posted, dev, confirmed, queue, evq, toHost>>
        /\ cancelEvent' = (cancelEvent /\ wk.generation <= posted.cancel)
        /\ wk' = [wk EXCEPT !.pc = "entering", !.cancelSent = FALSE, !.owed = TRUE]
        /\ toDev' = Append(toDev, l)
    BY DEF StudioInv, StudioTyped, BeginCapture, At, workerOnly, Beginning, Write, Workers
  <1>1. l \in CommandLines /\ l.cmd = "begin" /\ l.session = wk.session
    BY <1>0, EventForms
  <1>. HIDE DEF l
  <1>2. /\ toDev' \in Seq(CommandLines) /\ Len(toDev') = Len(toDev) + 1 /\ Len(toDev) \in Nat
        /\ toDev'[Len(toDev) + 1] = l
        /\ \A i \in 1..Len(toDev) : toDev'[i] = toDev[i]
        /\ \A i \in 1..Len(toDev') : i \in 1..Len(toDev) \/ i = Len(toDev) + 1
    BY <1>0, <1>1, AppendOf DEF DeviceInv
  <1>3. /\ wk' \in Workers /\ wk'.pc = "entering" /\ wk'.session = wk.session
        /\ wk'.generation = wk.generation /\ wk'.client = wk.client /\ wk'.stop = wk.stop
        /\ ~wk'.cancelSent /\ wk'.owed
    <2>1. FALSE \in BOOLEAN /\ TRUE \in BOOLEAN /\ "entering" \in Waits
      BY DEF Waits
    <2>. QED
      BY <1>0, <2>1 DEF Workers
  <1>4. wk.session \in Sessions /\ wk.session <= win.started /\ Fresh(wk.session)
    BY <1>0 DEF BeginsFresh
  <1>5. \A s \in Sessions0 : Fresh(s) /\ s # wk.session => Fresh(s)'
    <2>1. ASSUME NEW s \in Sessions0, Fresh(s), s # wk.session PROVE Fresh(s)'
      <3>1. ~BeginLine(s)'
        BY <1>1, <1>2, <2>1 DEF Fresh, BeginLine
      <3>2. ~WaitingEvent(s)'
        BY <1>0, <2>1 DEF Fresh, WaitingEvent
      <3>. QED
        BY <3>1, <3>2 DEF Fresh
    <2>. QED
      BY <2>1
  <1>6. BeginsFresh'
    <2>1. \A s \in Sessions : s > win.started => s # wk.session
      BY <1>0, <1>4, SessionNumbers DEF StudioTyped, Windows
    <2>2. \A s \in Sessions : s > win.started => Fresh(s)'
      BY <1>0, <1>5, <2>1, ZeroSession DEF BeginsFresh
    <2>. QED
      BY <1>0, <1>3, <1>5, <2>2 DEF BeginsFresh
  <1>7. EnteringInv'
    <2>1. \A k \in 1..Len(toDev) : ~(toDev[k].cmd = "begin" /\ toDev[k].session = wk.session)
      BY <1>4 DEF Fresh, BeginLine
    <2>2. \A k \in 1..Len(toDev') :
            toDev'[k].cmd = "begin" /\ toDev'[k].session = wk.session => k = Len(toDev')
      BY <1>2, <2>1
    <2>3. \A k \in 1..Len(toHost) : ~(toHost[k].event = "waiting" /\ toHost[k].session = wk.session)
      BY <1>4 DEF Fresh, WaitingEvent
    <2>. QED
      BY <1>0, <1>3, <2>2, <2>3 DEF EnteringInv
  <1>8. OwnCancels' /\ FrameIn' /\ DeviceInv' /\ ExitsNoted' /\ Reported'
    BY <1>0, <1>2, <1>3, <1>4 DEF OwnCancels, FrameIn, DeviceInv, StudioInv, ExitsNoted, Reported,
       Capturing
  <1>9. cancelEvent' \in BOOLEAN
    BY <1>0, Zenon
  <1>10. StudioTyped'
    BY <1>0, <1>3, <1>9 DEF StudioTyped
  <1>11. OwedInv'
    <2>1. InQueue({"CANCEL", "DISCONNECT"}) => InQueue({"CANCEL", "DISCONNECT"})'
      BY <1>0 DEF InQueue
    <2>2. posted.cancel >= wk.generation => InQueue({"CANCEL", "DISCONNECT"})
      BY <1>0 DEF OwedInv
    <2>3. wk.client /\ ~wk.stop
      BY <1>0 DEF OwedInv
    <2>4. cancelEvent' => posted.cancel >= wk.generation
      BY <1>0, PostsAssumption DEF StudioTyped, Numbers, Workers
    <2>. QED
      BY <1>0, <1>3, <2>1, <2>2, <2>3, <2>4 DEF OwedInv
  <1>. QED
    BY <1>6, <1>7, <1>8, <1>10, <1>11 DEF StudioInv

\* Every step keeps the invariant.
LEMMA StudioStep == StudioInv /\ [StudioNext]_allStudioVars => StudioInv'
  <1> SUFFICES ASSUME StudioInv, [StudioNext]_allStudioVars PROVE StudioInv'
    OBVIOUS
  <1>0. StudioTyped
    BY DEF StudioInv
  <1>1. ASSUME WorkerNext, UNCHANGED confirmed PROVE StudioInv'
    <2>1. CASE CancelCapture
      <3>1. /\ wk.pc = "idle" /\ ~wk.stop /\ queue # <<>> /\ queue' = Tail(queue)
            /\ SendCancel("cancel") /\ cancelEvent' \in BOOLEAN
            /\ UNCHANGED <<workerOnly, evq, toHost, confirmed>>
        BY <1>1, <2>1 DEF CancelCapture, Command, At
      <3>. QED
        BY <3>1, CancelSent
    <2>2. CASE Disconnect
      <3>1. /\ wk.pc = "idle" /\ ~wk.stop /\ queue # <<>> /\ queue' = Tail(queue)
            /\ SendCancel("disconnect") /\ cancelEvent' \in BOOLEAN
            /\ UNCHANGED <<workerOnly, evq, toHost, confirmed>>
        BY <1>1, <2>2 DEF Disconnect, Command, At
      <3>. QED
        BY <3>1, CancelSent
    <2>. QED
      BY <1>1, <2>1, <2>2, ConnectPortKeeps, ReadStatusKeeps, CheckBeginKeeps, BeginCaptureKeeps,
         EnterKeeps, AwaitRemoteKeeps, ExportFrameKeeps, ExitLearningKeeps, FinishCaptureKeeps,
         CleanupKeeps, AwaitCancelledKeeps, AfterCancelKeeps, TerminateKeeps DEF WorkerNext
  <1>2. ASSUME WindowNext, UNCHANGED confirmed PROVE StudioInv'
    BY <1>2, WindowKeeps
  <1>3. ASSUME DeviceNext, NoteExit, UNCHANGED studioVars PROVE StudioInv'
    BY <1>3, StudioDevice
  <1>4. CASE UNCHANGED allStudioVars
    <2>1. /\ UNCHANGED <<deviceVars, confirmed, win, queue, posted, cancelEvent, wk, evq>>
      BY <1>4 DEF allStudioVars, studioVars
    <2>2. DeviceInv' /\ EnteringInv' /\ OwnCancels' /\ ExitsNoted' /\ FrameIn'
          /\ \A s \in Sessions0 : Fresh(s)' <=> Fresh(s)
      BY <2>1, LineKept
    <2>3. BeginsFresh'
      BY <2>1, <2>2, StaysFresh DEF StudioInv
    <2>4. StudioTyped' /\ Reported' /\ OwedInv'
      BY <2>1 DEF StudioInv, StudioTyped, Reported, OwedInv, InQueue
    <2>. QED
      BY <2>2, <2>3, <2>4 DEF StudioInv
  <1>. QED
    BY <1>1, <1>2, <1>3, <1>4 DEF StudioNext

\* StudioInv is an inductive invariant of Learning Studio with the device.
THEOREM LearningInductive == StudioSpec => []StudioInv
  <1>. QED
    BY StudioStart, StudioStep, PTL DEF StudioSpec

\* What the invariant promises.
LEMMA StudioPromises == StudioInv => ValidatedTruth /\ NoLearningAbandoned
  <1> SUFFICES ASSUME StudioInv PROVE ValidatedTruth /\ NoLearningAbandoned
    OBVIOUS
  <1>1. DOMAIN evq = 1..Len(evq) /\ DOMAIN queue = 1..Len(queue)
    BY DEF StudioInv, StudioTyped
  <1>2. ValidatedTruth
    BY <1>1 DEF ValidatedTruth, ValidatedEvents, StudioInv, Reported
  <1>3. NoLearningAbandoned
    BY <1>1 DEF NoLearningAbandoned, StudioInv, OwedInv, InQueue
  <1>. QED
    BY <1>2, <1>3

\* Whatever the window is told is validated, and whatever it saved, is the frame
\* of its own session, whose end the module acknowledged.
THEOREM ValidatedIsTrue == StudioSpec => []ValidatedTruth
  <1>. QED
    BY LearningInductive, StudioPromises, PTL

\* A worker that is idle or gone owes the module no end of a session, unless the
\* command that ends it is already queued for the idle worker.
THEOREM NoneAbandoned == StudioSpec => []NoLearningAbandoned
  <1>. QED
    BY LearningInductive, StudioPromises, PTL

\* What the invariant says, as types.
LEMMA StudioTypes == StudioInv => StudioTypeOK
  <1> SUFFICES ASSUME StudioInv PROVE StudioTypeOK
    OBVIOUS
  <1>1. win \in Windows /\ wk \in Workers /\ queue \in Seq(Commands) /\ confirmed \subseteq Sessions0
    BY DEF StudioInv, StudioTyped
  <1>2. \A k \in DOMAIN queue : queue[k] \in Commands
    BY <1>1
  <1>3. \A k \in DOMAIN queue : queue[k].generation \in 1..MaxPosts
    BY <1>2 DEF Commands
  <1>4. /\ wk.pc \in Waits \cup {"none", "idle", "checked", "gone"}
        /\ wk.session \in Sessions0 /\ wk.frame \in Sessions0
    BY <1>1 DEF Workers
  <1>5. win.started \in Sessions0
    BY <1>1 DEF Windows
  <1>6. DeviceTypeOK
    BY DeviceTypes DEF StudioInv
  <1>. QED
    BY <1>1, <1>3, <1>4, <1>5, <1>6 DEF StudioTypeOK, Sessions0, NoFrame, NoSession

------------------------------------------------------------------------------
(***************************************************************************)
(* ReplayOnce, for every length of the candidate and every size of the     *)
(* staging buffer.                                                         *)
(*                                                                         *)
(* EmittedIsCandidate is not inductive: it speaks of frames already sent   *)
(* and not of what the next "ir extsend" would send.  ReplayInv follows    *)
(* the lines on the cable instead.  Chunks precede commits (Ordered), so   *)
(* an echo on its way back finds the staging buffer empty and nothing left *)
(* that could fill it (Echoed): the frame the program compares is the one  *)
(* the device will send (Armed), and it is told so once (Single).          *)
(***************************************************************************)
Frames == Seq(0..Chunks)
CableLines == [cmd : {"append"}, chunk : 1..Chunks] \cup [cmd : {"commit", "send"}]
CableAnswers == [kind : {"append", "fail", "not sent", "requested"}]
             \cup [kind : {"echo"}, frame : Frames]

Hosts == [pc : {"gate", "query", "load", "commit", "send", "done"},
          mode : {"unknown", "none", "verify", "authorize"},
          chunk : 1..Chunks, tries : 0..MaxTries, waiting : BOOLEAN,
          code : {"none", "verified", "mismatch", "sent", "load failed"}]
Rams == [staged : Frames, committed : Frames, sent : Seq(Frames)]

\* Every variable has its type, the lines and answers under way included.
ReplayTypes ==
    /\ host \in Hosts
    /\ cable \in [down : Seq(CableLines), up : Seq(CableAnswers)]
    /\ ram \in Rams /\ Len(ram.staged) <= MaxStage

\* Whether a line of this kind is on its way to the device.
UnderWay(cmd) == \E k \in 1..Len(cable.down) : cable.down[k].cmd = cmd

\* What each place of the program has not done yet.
Phases ==
    /\ host.pc \in {"gate", "query"} => cable.down = <<>> /\ cable.up = <<>>
    /\ host.pc \in {"gate", "query", "load", "commit"} =>
         ~UnderWay("send") /\ ram.sent = <<>>
    /\ host.pc = "load" => ~UnderWay("commit")
    /\ host.pc \in {"query", "load", "commit"} => host.mode \in {"verify", "authorize"}

\* The cable is first in, first out, and chunks are written before commits.
Ordered ==
    \A i, j \in 1..Len(cable.down) :
        i < j /\ cable.down[i].cmd # "append" => cable.down[j].cmd # "append"

\* The committed frame cannot change any more.
Settled == ram.staged = <<>> /\ ~UnderWay("append")

\* An echo on its way back is the committed frame.
Echoed ==
    \A k \in 1..Len(cable.up) :
        cable.up[k].kind = "echo" => Settled /\ cable.up[k].frame = ram.committed

\* An order to send finds the candidate committed, in an authorised run, and
\* nothing sent before.
Armed ==
    /\ UnderWay("send") \/ host.pc = "send" =>
         Settled /\ ram.committed = Candidate /\ host.mode = "authorize"
    /\ UnderWay("send") \/ (host.pc = "send" /\ host.tries = 0) => ram.sent = <<>>

\* The order to send is given once.
Single ==
    /\ host.pc = "send" /\ host.tries = 0 => ~UnderWay("send")
    /\ \A i, j \in 1..Len(cable.down) :
         cable.down[i].cmd = "send" /\ cable.down[j].cmd = "send" => i = j

Emitted == ram.sent # <<>> => ram.sent = <<Candidate>> /\ host.mode = "authorize"

ReplayInv ==
    ReplayTypes /\ Phases /\ Ordered /\ Echoed /\ Armed /\ Single /\ Emitted

------------------------------------------------------------------------------
(* Sequences. *)

\* What a line or an answer more at the end is.
LEMMA AtEnd ==
    ASSUME NEW S, NEW s \in Seq(S), NEW e \in S
    PROVE  /\ Append(s, e) \in Seq(S)
           /\ Len(s) \in Nat /\ Len(Append(s, e)) = Len(s) + 1
           /\ \A k \in 1..Len(s) : Append(s, e)[k] = s[k]
           /\ Append(s, e)[Len(s) + 1] = e
  BY AppendProperties

\* What is left when the first is taken.
LEMMA FirstTaken ==
    ASSUME NEW S, NEW s \in Seq(S), s # <<>>
    PROVE  /\ Tail(s) \in Seq(S) /\ Head(s) \in S /\ Head(s) = s[1]
           /\ Len(s) \in Nat \ {0} /\ Len(Tail(s)) = Len(s) - 1
           /\ \A k \in 1..Len(Tail(s)) : Tail(s)[k] = s[k + 1]
  BY HeadTailProperties

\* A sequence of one.
LEMMA OfOne ==
    ASSUME NEW S, NEW e \in S
    PROVE  <<e>> \in Seq(S) /\ Append(<<>>, e) = <<e>> /\ Len(<<e>>) = 1 /\ <<e>>[1] = e
  OBVIOUS

\* The frames that occur are frames.
LEMMA FramesTyped == Candidate \in Frames /\ Leftovers \subseteq Frames
                     /\ \A f \in Leftovers : Len(f) <= MaxStage
  BY ReplayAssumption DEF Candidate, Leftovers, Damaged, Frames

\* A cable that has lost its first line carries no other kind than before,
\* keeps the order of kinds and no order to send but the one it had.
LEMMA LineTaken ==
    ASSUME ReplayTypes, Ordered, cable.down # <<>>,
           cable'.down = Tail(cable.down)
    PROVE  /\ cable'.down \in Seq(CableLines)
           /\ \A cmd : UnderWay(cmd)' => UnderWay(cmd)
           /\ Ordered'
           /\ Head(cable.down) \in CableLines
           /\ UnderWay(Head(cable.down).cmd)
           /\ Head(cable.down).cmd # "append" => ~UnderWay("append")'
  <1>. DEFINE s == cable.down
  <1>1. s \in Seq(CableLines)
    BY DEF ReplayTypes
  <1>2. /\ Tail(s) \in Seq(CableLines) /\ Head(s) \in CableLines /\ Head(s) = s[1]
        /\ Len(s) \in Nat \ {0} /\ Len(Tail(s)) = Len(s) - 1
        /\ \A k \in 1..Len(Tail(s)) : Tail(s)[k] = s[k + 1]
    BY <1>1, FirstTaken
  <1>3. \A cmd : UnderWay(cmd)' => UnderWay(cmd)
    BY <1>2 DEF UnderWay
  <1>4. Ordered'
    BY <1>2 DEF Ordered
  <1>5. UnderWay(Head(s).cmd)
    BY <1>2 DEF UnderWay
  <1>6. Head(s).cmd # "append" => ~UnderWay("append")'
    BY <1>2 DEF UnderWay, Ordered
  <1>. QED
    BY <1>2, <1>3, <1>4, <1>5, <1>6

\* The order to send is given once, also when a line is taken.
LEMMA SingleTaken ==
    ASSUME ReplayTypes, Single, cable.down # <<>>,
           cable'.down = Tail(cable.down), UNCHANGED host
    PROVE  Single' /\ (Head(cable.down).cmd = "send" => ~UnderWay("send")')
  <1>. DEFINE s == cable.down
  <1>1. s \in Seq(CableLines)
    BY DEF ReplayTypes
  <1>2. /\ Head(s) = s[1]
        /\ Len(s) \in Nat \ {0} /\ Len(Tail(s)) = Len(s) - 1
        /\ \A k \in 1..Len(Tail(s)) : Tail(s)[k] = s[k + 1]
    BY <1>1, FirstTaken
  <1>. QED
    BY <1>2 DEF Single, UnderWay

\* With nothing on the cable, nothing is under way.
LEMMA NothingUnderWay ==
    ASSUME cable.down = <<>>
    PROVE  (\A cmd : ~UnderWay(cmd)) /\ Ordered /\ Len(cable.down) = 0
  BY DEF UnderWay, Ordered

------------------------------------------------------------------------------
(* The initial state and the steps of the program. *)

\* Nothing is on the cable in the beginning.
LEMMA ReplayStart == ReplayInit => ReplayInv
  <1> SUFFICES ASSUME ReplayInit PROVE ReplayInv
    OBVIOUS
  <1>1. ReplayTypes
    BY FramesTyped, ReplayAssumption DEF ReplayInit, ReplayTypes, Hosts, Rams, MaxTries, Frames
  <1>2. Phases /\ Ordered /\ Echoed /\ Armed /\ Single /\ Emitted
    BY DEF ReplayInit, Phases, UnderWay, Ordered, Echoed, Armed, Single, Emitted
  <1>. QED
    BY <1>1, <1>2 DEF ReplayInv

\* Opening the port may reset the device; nothing is on the cable yet.
LEMMA GateStep == ReplayInv /\ Gate => ReplayInv'
  <1> SUFFICES ASSUME ReplayInv, Gate PROVE ReplayInv'
    OBVIOUS
  <1> USE DEF ReplayInv
  <1>1. PICK ok \in BOOLEAN, mode \in {"none", "verify", "authorize"} :
          host' = [host EXCEPT !.pc = IF ok THEN AfterGate(mode) ELSE "done",
                               !.mode = mode]
    BY DEF Gate
  <1>2. AfterGate(mode) \in {"done", "load", "query"}
        /\ (AfterGate(mode) # "done" => mode # "none")
    BY DEF AfterGate
  <1>3. /\ cable.down = <<>> /\ cable.up = <<>> /\ ram.sent = <<>>
        /\ cable' = cable
    BY DEF Gate, Phases
  <1>4. ReplayTypes'
    <2>1. host' \in Hosts
      BY <1>1, <1>2 DEF ReplayTypes, Hosts
    <2>2. ram \in Rams /\ Len(ram.staged) <= MaxStage
          /\ ram' \in {ram, [ram EXCEPT !.staged = <<>>, !.committed = <<>>]}
      BY DEF Gate, ReplayTypes
    <2>3. CASE ram' = ram
      BY <2>1, <2>2, <2>3, <1>3 DEF ReplayTypes
    <2>4. CASE ram' = [ram EXCEPT !.staged = <<>>, !.committed = <<>>]
      <3>1. <<>> \in Frames /\ Len(<<>>) <= MaxStage
        BY ReplayAssumption DEF Frames
      <3>2. ram' \in Rams /\ ram'.staged = <<>>
        BY <2>2, <2>4, <3>1 DEF Rams
      <3>. QED
        BY <2>1, <3>1, <3>2, <1>3 DEF ReplayTypes
    <2>. QED
      BY <2>2, <2>3, <2>4
  <1>5. ram'.sent = <<>>
    BY <1>3 DEF Gate, ReplayTypes, Rams
  <1>6. host'.pc \in {"done", "load", "query"} /\ (host'.pc # "done" => host'.mode # "none")
        /\ host'.mode \in {"none", "verify", "authorize"}
    BY <1>1, <1>2 DEF ReplayTypes, Hosts
  <1>7. Phases' /\ Ordered' /\ Echoed' /\ Armed' /\ Single' /\ Emitted'
    BY <1>3, <1>5, <1>6
       DEF Phases, UnderWay, Ordered, Echoed, Armed, Single, Emitted
  <1>. QED
    BY <1>4, <1>7

\* The module answers, or the program ends.
LEMMA QueryStep == ReplayInv /\ ModuleQuery => ReplayInv'
  <1> SUFFICES ASSUME ReplayInv, ModuleQuery PROVE ReplayInv'
    OBVIOUS
  <1>1. /\ host.pc = "query" /\ UNCHANGED <<cable, ram>>
        /\ host' \in {[host EXCEPT !.pc = "load"], [host EXCEPT !.pc = "done"]}
    BY DEF ModuleQuery
  <1>2. ReplayTypes'
    BY <1>1 DEF ReplayInv, ReplayTypes, Hosts
  <1>3. host'.pc \in {"load", "done"} /\ host'.mode = host.mode
    BY <1>1 DEF ReplayInv, ReplayTypes, Hosts
  <1>4. Phases' /\ Ordered' /\ Echoed' /\ Armed' /\ Single' /\ Emitted'
    BY <1>1, <1>3 DEF ReplayInv, Phases, UnderWay, Ordered, Echoed, Armed, Settled,
                      Single, Emitted
  <1>. QED
    BY <1>2, <1>4 DEF ReplayInv

\* A line joins the cable behind what is there, and the answers are dropped.
LEMMA SendCmdStep == ReplayInv /\ SendCmd => ReplayInv'
  <1> SUFFICES ASSUME ReplayInv, SendCmd PROVE ReplayInv'
    OBVIOUS
  <1> USE DEF ReplayInv
  <1>. DEFINE line == ReplayCommand(host.pc)
  <1>1. /\ host.pc \in {"load", "commit", "send"} /\ ram' = ram
        /\ host.tries < Tries(host.pc)
        /\ cable' = [down |-> Append(cable.down, line), up |-> <<>>]
        /\ host' = [host EXCEPT !.waiting = TRUE, !.tries = @ + 1]
    BY DEF SendCmd
  <1>2. line \in CableLines
        /\ line.cmd = (CASE host.pc = "load" -> "append" [] host.pc = "commit" -> "commit"
                         [] host.pc = "send" -> "send")
    BY <1>1 DEF ReplayTypes, Hosts, ReplayCommand, CableLines
  <1>3. host.tries + 1 \in 1..MaxTries /\ (host.pc = "send" => host.tries = 0)
    <2>1. host.tries \in 0..MaxTries
      BY DEF ReplayTypes, Hosts
    <2>2. host.tries < Tries(host.pc)
      BY <1>1
    <2>. QED
      BY <2>1, <2>2 DEF Tries, MaxTries
  <1>4. /\ host'.pc = host.pc /\ host'.mode = host.mode /\ host'.tries = host.tries + 1
        /\ cable'.down = Append(cable.down, line) /\ cable'.up = <<>>
    BY <1>1 DEF ReplayTypes, Hosts
  <1>5. /\ cable'.down \in Seq(CableLines)
        /\ Len(cable.down) \in Nat /\ Len(cable'.down) = Len(cable.down) + 1
        /\ \A k \in 1..Len(cable.down) : cable'.down[k] = cable.down[k]
        /\ cable'.down[Len(cable.down) + 1] = line
    <2>1. cable.down \in Seq(CableLines)
      BY DEF ReplayTypes
    <2>. QED
      BY <2>1, <1>2, <1>4, AtEnd
  <1>6. ReplayTypes'
    <2>1. host' \in Hosts
      <3>1. host \in Hosts
        BY DEF ReplayTypes
      <3>2. host' = [host EXCEPT !.waiting = TRUE, !.tries = @ + 1]
        BY <1>1
      <3>3. host.tries + 1 \in 0..MaxTries
        BY <1>3 DEF MaxTries
      <3>. QED
        BY <3>1, <3>2, <3>3 DEF Hosts
    <2>2. cable' \in [down : Seq(CableLines), up : Seq(CableAnswers)]
      <3>1. <<>> \in Seq(CableAnswers)
        OBVIOUS
      <3>. QED
        BY <3>1, <1>1, <1>4, <1>5
    <2>. QED
      BY <2>1, <2>2, <1>1 DEF ReplayTypes
  <1>7. \A cmd : UnderWay(cmd)' => UnderWay(cmd) \/ cmd = line.cmd
    BY <1>5 DEF UnderWay
  <1>8. line.cmd = "append" => \A k \in 1..Len(cable.down) : cable.down[k].cmd = "append"
    <2> SUFFICES ASSUME line.cmd = "append", NEW k \in 1..Len(cable.down)
                 PROVE  cable.down[k].cmd = "append"
      OBVIOUS
    <2>1. host.pc = "load" /\ ~UnderWay("commit") /\ ~UnderWay("send")
      BY <1>1, <1>2 DEF Phases
    <2>2. cable.down[k] \in CableLines
      <3>1. cable.down \in Seq(CableLines)
        BY DEF ReplayTypes
      <3>. QED
        BY <3>1, ElementOfSeq
    <2>. QED
      BY <2>1, <2>2 DEF UnderWay, CableLines
  <1>9. Ordered'
    <2> SUFFICES ASSUME NEW i \in 1..Len(cable'.down), NEW j \in 1..Len(cable'.down),
                        i < j, cable'.down[i].cmd # "append"
                 PROVE  cable'.down[j].cmd # "append"
      BY DEF Ordered
    <2>1. i \in 1..Len(cable.down) /\ cable'.down[i] = cable.down[i]
      BY <1>5
    <2>2. CASE j \in 1..Len(cable.down)
      BY <2>1, <2>2, <1>5 DEF Ordered
    <2>3. CASE j = Len(cable.down) + 1
      BY <2>1, <2>3, <1>5, <1>8
    <2>. QED
      BY <2>2, <2>3, <1>5
  <1>10. Phases' /\ Echoed' /\ Emitted'
    BY <1>1, <1>2, <1>4, <1>7 DEF Phases, Echoed, Emitted
  <1>11. Armed'
    BY <1>1, <1>2, <1>3, <1>4, <1>7 DEF Phases, Armed, Settled
  <1>12. Single'
    <2>1. host.pc = "send" => ~UnderWay("send")
      BY <1>3 DEF Single
    <2>2. line.cmd = "send" => \A k \in 1..Len(cable.down) : cable.down[k].cmd # "send"
      BY <2>1, <1>1, <1>2 DEF UnderWay
    <2>3. host'.pc = "send" => host'.tries # 0
      BY <1>3, <1>4
    <2>4. ASSUME NEW i \in 1..Len(cable'.down), NEW j \in 1..Len(cable'.down),
                 cable'.down[i].cmd = "send", cable'.down[j].cmd = "send"
          PROVE  i = j
      <3>1. CASE line.cmd = "send"
        BY <2>2, <2>4, <3>1, <1>5
      <3>2. CASE line.cmd # "send"
        <4>1. i \in 1..Len(cable.down) /\ j \in 1..Len(cable.down)
          BY <2>4, <3>2, <1>5
        <4>. QED
          BY <4>1, <2>4, <1>5 DEF Single
      <3>. QED
        BY <3>1, <3>2
    <2>. QED
      BY <2>3, <2>4 DEF Single
  <1>. QED
    BY <1>6, <1>9, <1>10, <1>11, <1>12

\* What the steps share in which the program reads or waits: the device and
\* the lines to it are as before, and the program stays, stops, goes on from
\* the chunks, or goes on to send what Echoed has shown to be committed.
LEMMA HostStep ==
    ASSUME ReplayInv, ram' = ram, cable'.down = cable.down,
           cable' \in [down : Seq(CableLines), up : Seq(CableAnswers)],
           cable.up = <<>> => cable'.up = <<>>, Echoed',
           host' \in Hosts, host'.mode = host.mode,
           \/ host'.pc = "done"
           \/ host'.pc = host.pc /\ host'.tries = host.tries
           \/ host.pc = "load" /\ host'.pc \in {"load", "commit"}
           \/ /\ host.pc = "commit" /\ host'.pc = "send"
              /\ Settled /\ ram.committed = Candidate /\ host.mode = "authorize"
    PROVE  ReplayInv'
  <1>1. ReplayTypes'
    BY DEF ReplayInv, ReplayTypes
  <1>2. \A cmd : UnderWay(cmd)' <=> UnderWay(cmd)
    BY DEF UnderWay
  <1>3. Phases' /\ Emitted'
    BY <1>2 DEF ReplayInv, Phases, Emitted
  <1>4. Ordered'
    BY DEF ReplayInv, Ordered
  <1>5. Armed' /\ Single'
    BY <1>2 DEF ReplayInv, Phases, Armed, Settled, Single
  <1>. QED
    BY <1>1, <1>3, <1>4, <1>5 DEF ReplayInv

\* The wait is over, the echo is unusable, or the tries are used up.
LEMMA WaitOverStep == ReplayInv /\ (NoAnswer \/ BadEcho \/ GiveUp) => ReplayInv'
  <1> SUFFICES ASSUME ReplayInv, NoAnswer \/ BadEcho \/ GiveUp PROVE ReplayInv'
    OBVIOUS
  <1>1. host \in Hosts /\ cable \in [down : Seq(CableLines), up : Seq(CableAnswers)]
    BY DEF ReplayInv, ReplayTypes
  <1>2. cable' = cable /\ ram' = ram
        /\ host' \in {Stop("sent"), Stop("load failed"), [host EXCEPT !.waiting = FALSE]}
    BY DEF NoAnswer, BadEcho, GiveUp
  <1>3. /\ host' \in Hosts /\ host'.mode = host.mode
        /\ host'.pc = "done" \/ (host'.pc = host.pc /\ host'.tries = host.tries)
    BY <1>1, <1>2 DEF Stop, Hosts
  <1>4. Echoed'
    BY <1>2 DEF ReplayInv, Echoed, Settled, UnderWay
  <1>. QED
    BY <1>1, <1>2, <1>3, <1>4, HostStep

\* An echo the program accepts is the frame that is and stays committed.
LEMMA ReadAnswerStep == ReplayInv /\ ReadAnswer => ReplayInv'
  <1> SUFFICES ASSUME ReplayInv, ReadAnswer PROVE ReplayInv'
    OBVIOUS
  <1>. DEFINE answer == Head(cable.up)
  <1>1. /\ host \in Hosts /\ cable \in [down : Seq(CableLines), up : Seq(CableAnswers)]
        /\ cable.up \in Seq(CableAnswers) /\ cable.up # <<>> /\ ram' = ram
        /\ cable' = [cable EXCEPT !.up = Tail(@)]
    BY DEF ReplayInv, ReplayTypes, ReadAnswer
  <1>2. /\ Tail(cable.up) \in Seq(CableAnswers) /\ answer = cable.up[1]
        /\ Len(cable.up) \in Nat \ {0} /\ Len(Tail(cable.up)) = Len(cable.up) - 1
        /\ \A k \in 1..Len(Tail(cable.up)) : Tail(cable.up)[k] = cable.up[k + 1]
    BY <1>1, FirstTaken
  <1>3. /\ cable'.down = cable.down /\ cable'.up = Tail(cable.up)
        /\ cable' \in [down : Seq(CableLines), up : Seq(CableAnswers)]
    BY <1>1, <1>2
  <1>4. Echoed'
    <2> SUFFICES ASSUME NEW k \in 1..Len(cable'.up), cable'.up[k].kind = "echo"
                 PROVE  Settled' /\ cable'.up[k].frame = ram'.committed
      BY DEF Echoed
    <2>1. k + 1 \in 1..Len(cable.up) /\ cable'.up[k] = cable.up[k + 1]
      BY <1>2, <1>3
    <2>2. Settled /\ cable'.up[k].frame = ram.committed
      BY <2>1 DEF ReplayInv, Echoed
    <2>. QED
      BY <2>2, <1>1, <1>3 DEF Settled, UnderWay
  <1>5. \/ host' = NextChunk /\ host.pc = "load"
        \/ host' = Verified(answer.frame) /\ host.pc = "commit" /\ answer.kind = "echo"
        \/ host' \in {Stop("sent"), [host EXCEPT !.waiting = FALSE], host}
    BY DEF ReadAnswer
  <1>6. CASE host' = NextChunk /\ host.pc = "load"
    <2>1. host' \in Hosts /\ host'.mode = host.mode /\ host'.pc \in {"load", "commit"}
      <3>1. 0 \in 0..MaxTries /\ (host.chunk < Chunks => host.chunk + 1 \in 1..Chunks)
        <4>1. host.chunk \in 1..Chunks
          BY <1>1 DEF Hosts
        <4>. QED
          BY <4>1, ReplayAssumption DEF MaxTries
      <3>. QED
        BY <3>1, <1>1, <1>6 DEF NextChunk, Hosts
    <2>. QED
      BY <2>1, <1>1, <1>3, <1>4, <1>6, HostStep
  <1>7. CASE host' = Verified(answer.frame) /\ host.pc = "commit" /\ answer.kind = "echo"
    <2>1. Settled /\ answer.frame = ram.committed
      BY <1>2, <1>7 DEF ReplayInv, Echoed
    <2>2. host.mode \in {"verify", "authorize"}
      BY <1>7 DEF ReplayInv, Phases
    <2>3. CASE host.mode = "authorize" /\ answer.frame = Candidate
      <3>1. host' = [host EXCEPT !.pc = "send", !.tries = 0, !.waiting = FALSE]
        BY <1>7, <2>3 DEF Verified, EchoIdentical
      <3>2. host' \in Hosts /\ host'.mode = host.mode /\ host'.pc = "send"
        <4>1. 0 \in 0..MaxTries
          BY DEF MaxTries
        <4>. QED
          BY <4>1, <3>1, <1>1 DEF Hosts
      <3>. QED
        BY <3>2, <2>1, <2>3, <1>1, <1>3, <1>4, <1>7, HostStep
    <2>4. CASE ~(host.mode = "authorize" /\ answer.frame = Candidate)
      <3>1. host' \in {Stop("verified"), Stop("mismatch")}
        BY <1>7, <2>2, <2>4 DEF Verified, EchoIdentical
      <3>2. host' \in Hosts /\ host'.mode = host.mode /\ host'.pc = "done"
        BY <3>1, <1>1 DEF Stop, Hosts
      <3>. QED
        BY <3>2, <1>1, <1>3, <1>4, HostStep
    <2>. QED
      BY <2>3, <2>4
  <1>8. CASE host' \in {Stop("sent"), [host EXCEPT !.waiting = FALSE], host}
    <2>1. /\ host' \in Hosts /\ host'.mode = host.mode
          /\ host'.pc = "done" \/ (host'.pc = host.pc /\ host'.tries = host.tries)
      BY <1>1, <1>8 DEF Stop, Hosts
    <2>. QED
      BY <2>1, <1>1, <1>3, <1>4, HostStep
  <1>. QED
    BY <1>5, <1>6, <1>7, <1>8

------------------------------------------------------------------------------
(* The steps of the device. *)

\* One line, and what the device does and answers: the four answers there are.
CableLine == Head(cable.down)
Answered(answer) ==
    \/ cable' = [down |-> Tail(cable.down), up |-> cable.up]
    \/ cable' = [down |-> Tail(cable.down), up |-> Append(cable.up, answer)]

\* What the device may do with a line.
LEMMA DeviceCases ==
    ASSUME DeviceLine
    PROVE  /\ host' = host /\ cable.down # <<>>
           /\ \/ /\ CableLine.cmd = "append"
                 /\ \E c \in {CableLine.chunk, Damaged} : ram' = Appended(c)
                 /\ Answered([kind |-> AppendAnswer])
              \/ CableLine.cmd = "commit" /\ ram' = Committed /\ Answered(CommitAnswer)
              \/ /\ CableLine.cmd = "send" /\ ram' = ram
                 /\ Answered([kind |-> "not sent"])
              \/ /\ CableLine.cmd = "send" /\ ram' = [ram EXCEPT !.sent = Append(@, ram.committed)]
                 /\ Answered([kind |-> "requested"])
  <1> USE DEF CableLine, Answered
  <1>1. host' = host /\ cable.down # <<>>
    BY DEF DeviceLine
  <1>2. CASE CableLine.cmd = "append"
    BY <1>2 DEF DeviceLine
  <1>3. CASE CableLine.cmd = "commit"
    BY <1>3 DEF DeviceLine
  <1>4. CASE CableLine.cmd = "send"
    BY <1>4 DEF DeviceLine
  <1>5. CableLine.cmd \in {"append", "commit", "send"}
    BY DEF DeviceLine
  <1>. QED
    BY <1>1, <1>2, <1>3, <1>4, <1>5

\* What the answer leaves on the cable.
LEMMA AnsweredCable ==
    ASSUME ReplayTypes, cable.down # <<>>, NEW answer \in CableAnswers, Answered(answer)
    PROVE  /\ cable' \in [down : Seq(CableLines), up : Seq(CableAnswers)]
           /\ cable'.down = Tail(cable.down)
           /\ \A k \in 1..Len(cable'.up) :
                 (k \in 1..Len(cable.up) /\ cable'.up[k] = cable.up[k]) \/ cable'.up[k] = answer
  <1>1. cable.down \in Seq(CableLines) /\ cable.up \in Seq(CableAnswers)
    BY DEF ReplayTypes
  <1>2. Tail(cable.down) \in Seq(CableLines)
    BY <1>1, FirstTaken
  <1>3. CASE cable' = [down |-> Tail(cable.down), up |-> cable.up]
    BY <1>1, <1>2, <1>3
  <1>4. CASE cable' = [down |-> Tail(cable.down), up |-> Append(cable.up, answer)]
    <2>1. /\ Append(cable.up, answer) \in Seq(CableAnswers)
          /\ Len(cable.up) \in Nat /\ Len(Append(cable.up, answer)) = Len(cable.up) + 1
          /\ \A k \in 1..Len(cable.up) : Append(cable.up, answer)[k] = cable.up[k]
          /\ Append(cable.up, answer)[Len(cable.up) + 1] = answer
      BY <1>1, AtEnd
    <2>2. cable'.up = Append(cable.up, answer) /\ cable'.down = Tail(cable.down)
      BY <1>4
    <2>3. cable' \in [down : Seq(CableLines), up : Seq(CableAnswers)]
      BY <1>2, <1>4, <2>1
    <2>. QED
      BY <2>1, <2>2, <2>3
  <1>. QED
    BY <1>3, <1>4 DEF Answered

\* A line that is not read changes nothing but the cable.
LEMMA DropLineStep == ReplayInv /\ DropLine => ReplayInv'
  <1> SUFFICES ASSUME ReplayInv, DropLine PROVE ReplayInv'
    OBVIOUS
  <1>1. /\ cable \in [down : Seq(CableLines), up : Seq(CableAnswers)]
        /\ cable.down # <<>> /\ cable' = [cable EXCEPT !.down = Tail(@)]
        /\ host' = host /\ ram' = ram /\ ReplayTypes /\ Ordered /\ Single
    BY DEF ReplayInv, ReplayTypes, DropLine
  <1>2. cable'.down = Tail(cable.down) /\ cable'.up = cable.up
    BY <1>1
  <1>3. /\ cable'.down \in Seq(CableLines) /\ Ordered'
        /\ \A cmd : UnderWay(cmd)' => UnderWay(cmd)
    BY <1>1, <1>2, LineTaken
  <1>4. Single'
    BY <1>1, <1>2, SingleTaken
  <1>5. ReplayTypes'
    BY <1>1, <1>3 DEF ReplayTypes
  <1>6. Phases' /\ Armed' /\ Emitted'
    BY <1>1, <1>3 DEF ReplayInv, Phases, Armed, Settled, Emitted
  <1>7. Echoed'
    BY <1>1, <1>2, <1>3 DEF ReplayInv, Echoed, Settled
  <1>. QED
    BY <1>3, <1>4, <1>5, <1>6, <1>7 DEF ReplayInv

\* A chunk finds nothing settled, so no echo and no order to send is about.
LEMMA AppendStep ==
    ASSUME ReplayInv, cable.down # <<>>, host' = host, CableLine.cmd = "append",
           NEW c \in {CableLine.chunk, Damaged}, ram' = Appended(c),
           Answered([kind |-> AppendAnswer])
    PROVE  ReplayInv'
  <1> USE DEF CableLine
  <1>1. ReplayTypes /\ Ordered /\ Single /\ ram \in Rams /\ Len(ram.staged) <= MaxStage
    BY DEF ReplayInv, ReplayTypes
  <1>2. [kind |-> AppendAnswer] \in CableAnswers /\ AppendAnswer # "echo"
    BY DEF AppendAnswer, CableAnswers
  <1>3. /\ cable' \in [down : Seq(CableLines), up : Seq(CableAnswers)]
        /\ cable'.down = Tail(cable.down)
        /\ \A k \in 1..Len(cable'.up) :
              (k \in 1..Len(cable.up) /\ cable'.up[k] = cable.up[k])
              \/ cable'.up[k] = [kind |-> AppendAnswer]
    BY <1>1, <1>2, AnsweredCable
  <1>4. /\ \A cmd : UnderWay(cmd)' => UnderWay(cmd)
        /\ Ordered' /\ CableLine \in CableLines /\ UnderWay("append")
    BY <1>1, <1>3, LineTaken
  <1>5. Single'
    BY <1>1, <1>3, SingleTaken
  <1>6. ram' \in Rams /\ Len(ram'.staged) <= MaxStage /\ ram'.sent = ram.sent
    <2>1. c \in 0..Chunks
      BY <1>4, ReplayAssumption DEF CableLines, Damaged
    <2>2. ram.staged \in Seq(0..Chunks)
      BY <1>1 DEF Rams, Frames
    <2>3. /\ Append(ram.staged, c) \in Seq(0..Chunks)
          /\ Len(ram.staged) \in Nat /\ Len(Append(ram.staged, c)) = Len(ram.staged) + 1
      BY <2>1, <2>2, AtEnd
    <2>4. CASE Len(ram.staged) < MaxStage
      <3>1. ram' = [ram EXCEPT !.staged = Append(@, c)]
        BY <2>4 DEF Appended
      <3>2. ram' \in Rams /\ ram'.staged = Append(ram.staged, c) /\ ram'.sent = ram.sent
        BY <3>1, <2>3, <1>1 DEF Rams, Frames
      <3>. QED
        BY <3>2, <2>3, <2>4, ReplayAssumption
    <2>5. CASE ~(Len(ram.staged) < MaxStage)
      BY <2>5, <1>1 DEF Appended
    <2>. QED
      BY <2>4, <2>5
  <1>7. ReplayTypes'
    BY <1>1, <1>3, <1>6 DEF ReplayTypes
  <1>8. ~UnderWay("send") /\ host.pc # "send"
    BY <1>4 DEF ReplayInv, Armed, Settled
  <1>9. Phases' /\ Armed' /\ Emitted'
    BY <1>4, <1>6, <1>8 DEF ReplayInv, Phases, Armed, Emitted
  <1>10. Echoed'
    <2>1. \A k \in 1..Len(cable.up) : cable.up[k].kind # "echo"
      BY <1>4 DEF ReplayInv, Echoed, Settled
    <2>. QED
      BY <2>1, <1>2, <1>3 DEF Echoed
  <1>. QED
    BY <1>4, <1>5, <1>7, <1>9, <1>10 DEF ReplayInv

\* A commit settles the frame: behind it there is no chunk.
LEMMA CommitStep ==
    ASSUME ReplayInv, cable.down # <<>>, host' = host, CableLine.cmd = "commit",
           ram' = Committed, Answered(CommitAnswer)
    PROVE  ReplayInv'
  <1> USE DEF CableLine
  <1>1. ReplayTypes /\ Ordered /\ Single /\ ram \in Rams
        /\ ram.staged \in Frames /\ ram.committed \in Frames
        /\ Len(ram.staged) <= MaxStage
    BY DEF ReplayInv, ReplayTypes, Rams
  <1>2. CommitAnswer \in CableAnswers
    BY <1>1 DEF CommitAnswer, CableAnswers
  <1>3. /\ cable' \in [down : Seq(CableLines), up : Seq(CableAnswers)]
        /\ cable'.down = Tail(cable.down)
        /\ \A k \in 1..Len(cable'.up) :
              (k \in 1..Len(cable.up) /\ cable'.up[k] = cable.up[k])
              \/ cable'.up[k] = CommitAnswer
    BY <1>1, <1>2, AnsweredCable
  <1>4. /\ \A cmd : UnderWay(cmd)' => UnderWay(cmd)
        /\ Ordered' /\ ~UnderWay("append")'
    BY <1>1, <1>3, LineTaken
  <1>5. Single'
    BY <1>1, <1>3, SingleTaken
  <1>6. CASE ram.staged = <<>>
    <2>1. ram' = ram /\ CommitAnswer = [kind |-> "fail"]
      BY <1>6 DEF Committed, CommitAnswer
    <2>2. ReplayTypes'
      BY <2>1, <1>1, <1>3 DEF ReplayTypes
    <2>3. Phases' /\ Armed' /\ Emitted'
      BY <2>1, <1>4 DEF ReplayInv, Phases, Armed, Settled, Emitted
    <2>4. Echoed'
      BY <2>1, <1>3, <1>4 DEF ReplayInv, Echoed, Settled
    <2>. QED
      BY <2>2, <2>3, <2>4, <1>4, <1>5 DEF ReplayInv
  <1>7. CASE ram.staged # <<>>
    <2>1. ram' = [ram EXCEPT !.committed = ram.staged, !.staged = <<>>]
          /\ CommitAnswer = [kind |-> "echo", frame |-> ram.staged]
      BY <1>7 DEF Committed, CommitAnswer
    <2>2. <<>> \in Frames /\ Len(<<>>) <= MaxStage
      BY ReplayAssumption DEF Frames
    <2>3. /\ ram' \in Rams /\ ram'.staged = <<>> /\ ram'.committed = ram.staged
          /\ ram'.sent = ram.sent
      BY <2>1, <2>2, <1>1 DEF Rams
    <2>4. ReplayTypes'
      BY <2>2, <2>3, <1>1, <1>3 DEF ReplayTypes
    <2>5. ~UnderWay("send") /\ host.pc # "send"
      BY <1>7 DEF ReplayInv, Armed, Settled
    <2>6. Phases' /\ Armed' /\ Emitted'
      BY <2>3, <2>5, <1>4 DEF ReplayInv, Phases, Armed, Emitted
    <2>7. \A k \in 1..Len(cable.up) : cable.up[k].kind # "echo"
      BY <1>7 DEF ReplayInv, Echoed, Settled
    <2>8. Echoed'
      BY <2>1, <2>3, <2>7, <1>3, <1>4 DEF Echoed, Settled
    <2>. QED
      BY <2>4, <2>6, <2>8, <1>4, <1>5 DEF ReplayInv
  <1>. QED
    BY <1>6, <1>7

\* The order to send finds the candidate, and is the only one.
LEMMA SendStep ==
    ASSUME ReplayInv, cable.down # <<>>, host' = host, CableLine.cmd = "send",
           NEW kind \in {"not sent", "requested"}, Answered([kind |-> kind]),
           ram' \in {ram, [ram EXCEPT !.sent = Append(@, ram.committed)]}
    PROVE  ReplayInv'
  <1> USE DEF CableLine
  <1>1. ReplayTypes /\ Ordered /\ Single /\ ram \in Rams
        /\ Len(ram.staged) <= MaxStage
    BY DEF ReplayInv, ReplayTypes
  <1>2. [kind |-> kind] \in CableAnswers
    BY DEF CableAnswers
  <1>3. /\ cable' \in [down : Seq(CableLines), up : Seq(CableAnswers)]
        /\ cable'.down = Tail(cable.down)
        /\ \A k \in 1..Len(cable'.up) :
              (k \in 1..Len(cable.up) /\ cable'.up[k] = cable.up[k])
              \/ cable'.up[k] = [kind |-> kind]
    BY <1>1, <1>2, AnsweredCable
  <1>4. /\ \A cmd : UnderWay(cmd)' => UnderWay(cmd)
        /\ Ordered' /\ UnderWay("send")
    BY <1>1, <1>3, LineTaken
  <1>5. Single' /\ ~UnderWay("send")'
    BY <1>1, <1>3, SingleTaken
  <1>6. Settled /\ ram.committed = Candidate /\ host.mode = "authorize" /\ ram.sent = <<>>
    BY <1>4 DEF ReplayInv, Armed
  <1>7. /\ ram' \in Rams /\ ram'.staged = ram.staged /\ ram'.committed = ram.committed
        /\ ram'.sent \in {<<>>, <<Candidate>>}
    <2>1. CASE ram' = ram
      BY <2>1, <1>1, <1>6
    <2>2. CASE ram' = [ram EXCEPT !.sent = Append(@, ram.committed)]
      <3>1. Append(ram.sent, ram.committed) = <<Candidate>>
        BY <1>6, FramesTyped, OfOne
      <3>2. <<Candidate>> \in Seq(Frames)
        BY FramesTyped, OfOne
      <3>. QED
        BY <2>2, <3>1, <3>2, <1>1 DEF Rams
    <2>. QED
      BY <2>1, <2>2
  <1>8. ReplayTypes'
    BY <1>1, <1>3, <1>7 DEF ReplayTypes
  <1>9. Phases'
    BY <1>4 DEF ReplayInv, Phases
  <1>10. host.pc = "send" => host.tries # 0
    BY <1>4 DEF ReplayInv, Single
  <1>11. Armed' /\ Emitted'
    BY <1>4, <1>5, <1>6, <1>7, <1>10 DEF Armed, Settled, Emitted
  <1>12. Echoed'
    <2> SUFFICES ASSUME NEW k \in 1..Len(cable'.up), cable'.up[k].kind = "echo"
                 PROVE  Settled' /\ cable'.up[k].frame = ram'.committed
      BY DEF Echoed
    <2>1. [kind |-> kind].kind # "echo"
      OBVIOUS
    <2>2. (k \in 1..Len(cable.up) /\ cable'.up[k] = cable.up[k])
      BY <2>1, <1>3
    <2>3. cable'.up[k].frame = ram.committed
      BY <2>2 DEF ReplayInv, Echoed
    <2>. QED
      BY <2>3, <1>4, <1>6, <1>7 DEF Settled
  <1>. QED
    BY <1>4, <1>5, <1>8, <1>9, <1>11, <1>12 DEF ReplayInv

\* What the device does with a line keeps the invariant.
LEMMA DeviceLineStep == ReplayInv /\ DeviceLine => ReplayInv'
  BY DeviceCases, AppendStep, CommitStep, SendStep

------------------------------------------------------------------------------
(* The theorems. *)

\* Every step keeps the invariant.
LEMMA ReplayStep == ReplayInv /\ [ReplayNext]_replayVars => ReplayInv'
  <1> SUFFICES ASSUME ReplayInv, [ReplayNext]_replayVars PROVE ReplayInv'
    OBVIOUS
  <1>1. CASE UNCHANGED replayVars
    BY <1>1 DEF replayVars, ReplayInv, ReplayTypes, Phases, UnderWay, Ordered,
                Echoed, Settled, Armed, Single, Emitted
  <1>2. CASE Gate
    BY <1>2, GateStep
  <1>3. CASE ModuleQuery
    BY <1>3, QueryStep
  <1>4. CASE SendCmd
    BY <1>4, SendCmdStep
  <1>5. CASE ReadAnswer
    BY <1>5, ReadAnswerStep
  <1>6. CASE NoAnswer \/ BadEcho \/ GiveUp
    BY <1>6, WaitOverStep
  <1>7. CASE DeviceLine
    BY <1>7, DeviceLineStep
  <1>8. CASE DropLine
    BY <1>8, DropLineStep
  <1>. QED
    BY <1>1, <1>2, <1>3, <1>4, <1>5, <1>6, <1>7, <1>8 DEF ReplayNext

\* What the invariant promises.
LEMMA ReplayPromises == ReplayInv => EmittedIsCandidate /\ ReplayTypeOK
  <1> SUFFICES ASSUME ReplayInv PROVE EmittedIsCandidate /\ ReplayTypeOK
    OBVIOUS
  <1>1. ASSUME ram.sent = <<>> PROVE EmittedIsCandidate
    BY <1>1 DEF EmittedIsCandidate
  <1>2. ASSUME ram.sent # <<>> PROVE EmittedIsCandidate
    <2>1. ram.sent = <<Candidate>> /\ host.mode = "authorize"
      BY <1>2 DEF ReplayInv, Emitted
    <2>2. Len(<<Candidate>>) = 1 /\ <<Candidate>>[1] = Candidate
      BY FramesTyped, OfOne
    <2>. QED
      BY <2>1, <2>2 DEF EmittedIsCandidate
  <1>3. host \in Hosts /\ ram \in Rams /\ Len(ram.staged) <= MaxStage
    BY DEF ReplayInv, ReplayTypes
  <1>4. /\ host.pc \in {"gate", "query", "load", "commit", "send", "done"}
        /\ host.chunk \in 1..(Chunks + 1) /\ host.tries \in 0..MaxTries
    <2>1. host.chunk \in 1..Chunks /\ host.tries \in 0..MaxTries
          /\ host.pc \in {"gate", "query", "load", "commit", "send", "done"}
      BY <1>3 DEF Hosts
    <2>. QED
      BY <2>1, ReplayAssumption
  <1>5. ram.staged \in Seq(0..Chunks) /\ ram.sent \in Seq(Frames)
    BY <1>3 DEF Rams, Frames
  <1>6. \A k \in DOMAIN ram.sent : ram.sent[k] \in Seq(0..Chunks)
    BY <1>5 DEF Frames
  <1>7. ReplayTypeOK
    BY <1>3, <1>4, <1>5, <1>6 DEF ReplayTypeOK
  <1>. QED
    BY <1>1, <1>2, <1>7

\* Types, order of the lines, echoes and orders to send, in every reachable
\* state: what makes reading back before sending safe.
THEOREM ReplayInductive == ReplaySpec => []ReplayInv
  BY ReplayStart, ReplayStep, PTL DEF ReplaySpec

\* The module is told to send nothing but the candidate's frame, once, in an
\* authorised run, for every number of chunks and every size of the buffer.
THEOREM ReplaySafe == ReplaySpec => []EmittedIsCandidate
  BY ReplayInductive, ReplayPromises, PTL

------------------------------------------------------------------------------
(***************************************************************************)
(* ExportAssembly, for every number of chunks, everything a chunk can hold *)
(* and any number of lost, changed and left over events.                   *)
(*                                                                         *)
(* That only the frame comes out needs little of the assemblers: the line  *)
(* may change a digest, but never into that of another frame (WireOK).     *)
(* That an undisturbed export is not refused is the other direction, and   *)
(* needs how far the assembler is to be how far the line is (CleanOK).     *)
(***************************************************************************)
Metas == [count : Nat, digest : Seq(Letters)]
Ids == {"earlier", "this"}
AllLines ==
    [name : {"begin"}, id : Ids, meta : Metas]
    \cup [name : {"chunk"}, id : Ids, index : Nat, count : Nat, data : Letters]
    \cup [name : {"done"}, id : Ids, meta : Metas]

\* No event of this export announces another frame.
ExportEvents == {e \in AllLines : e.name # "chunk" /\ e.id = "this" =>
                              e.meta.digest \in {sent, NoDigest}}

\* The i-th event of an export.
EventAt(id, frame, i) ==
    IF i = 1 THEN BeginEvent(id, frame)
    ELSE IF i = Len(frame) + 2 THEN DoneEvent(id, frame)
    ELSE ChunkEvent(id, i - 1, frame)

WireOK == sent \in Seq(Letters) /\ Len(sent) \in 1..MaxChunks /\ wire \in Seq(ExportEvents)

AsmOK ==
    /\ asm \in [state : {"open", "failed", "assembled"}, begin : Metas,
                chunks : Seq(Letters), result : {NoResult, sent}]
    /\ asm.begin = NoBegin \/ asm.begin.count \in 1..MaxChunks
    /\ Len(asm.chunks) <= asm.begin.count

\* The assembler has read n events of an export nothing happened to.
ReadSoFar(n) ==
    /\ Len(wire) = Len(sent) + 2 - n
    /\ \A i \in 1..Len(wire) : wire[i] = EventAt("this", sent, n + i)
    /\ asm.begin = IF n = 0 THEN NoBegin ELSE Meta(sent)
    /\ Len(asm.chunks) = IF n = 0 THEN 0 ELSE n - 1
    /\ \A i \in 1..Len(asm.chunks) : asm.chunks[i] = sent[i]

CleanOK ==
    ~harmed => \/ asm.state = "assembled"
               \/ asm.state = "open" /\ \E n \in 0..(Len(sent) + 1) : ReadSoFar(n)

ExportInv == WireOK /\ AsmOK /\ CleanOK

------------------------------------------------------------------------------
(* The initial states. *)

\* A frame is a sequence.
LEMMA FrameSeq ==
    ASSUME NEW frame \in FramesOf
    PROVE  frame \in Seq(Letters) /\ Len(frame) \in 1..MaxChunks
  <1>1. PICK n \in 1..MaxChunks : frame \in [1..n -> Letters]
    BY DEF FramesOf
  <1>2. frame \in Seq(Letters)
    BY <1>1, ExportAssumption, SeqDef
  <1>3. 1..Len(frame) = 1..n /\ Len(frame) \in Nat
    BY <1>1, <1>2, LenProperties
  <1>. QED
    BY <1>1, <1>2, <1>3, ExportAssumption

\* An export is its begin, its chunks in order and its done.
LEMMA ExportLines ==
    ASSUME NEW id \in Ids, NEW frame \in Seq(Letters), Len(frame) \in Nat
    PROVE  /\ Export(id, frame) \in Seq(AllLines)
           /\ Len(Export(id, frame)) = Len(frame) + 2
           /\ \A i \in 1..(Len(frame) + 2) : Export(id, frame)[i] = EventAt(id, frame, i)
  <1>. DEFINE n == Len(frame)
              chunks == [i \in 1..n |-> ChunkEvent(id, i, frame)]
              first == <<BeginEvent(id, frame)>>
              last == <<DoneEvent(id, frame)>>
  <1>1. Meta(frame) \in Metas
    BY DEF Meta, Metas
  <1>2. BeginEvent(id, frame) \in AllLines /\ DoneEvent(id, frame) \in AllLines
    BY <1>1 DEF BeginEvent, DoneEvent, AllLines
  <1>3. \A i \in 1..n : ChunkEvent(id, i, frame) \in AllLines
    <2> SUFFICES ASSUME NEW i \in 1..n PROVE ChunkEvent(id, i, frame) \in AllLines
      OBVIOUS
    <2>1. frame[i] \in Letters
      BY ElementOfSeq
    <2>. QED
      BY <2>1 DEF ChunkEvent, AllLines
  <1>4. chunks \in Seq(AllLines) /\ Len(chunks) = n
    <2>1. chunks \in [1..n -> AllLines]
      BY <1>3
    <2>2. chunks \in Seq(AllLines)
      BY <2>1, SeqDef
    <2>3. Len(chunks) \in Nat /\ DOMAIN chunks = 1..Len(chunks)
      BY <2>2, LenProperties
    <2>. HIDE DEF chunks
    <2>. QED
      BY <2>1, <2>2, <2>3
  <1>5. /\ first \in Seq(AllLines) /\ Len(first) = 1 /\ first[1] = BeginEvent(id, frame)
        /\ last \in Seq(AllLines) /\ Len(last) = 1 /\ last[1] = DoneEvent(id, frame)
    BY <1>2
  <1>6. \A i \in 1..n : chunks[i] = ChunkEvent(id, i, frame)
    OBVIOUS
  <1>7. Export(id, frame) = (first \o chunks) \o last
    BY DEF Export
  <1>. HIDE DEF chunks, first, last
  <1>8. /\ first \o chunks \in Seq(AllLines)
        /\ Len(first \o chunks) = 1 + n
        /\ \A i \in 1..(1 + n) :
             (first \o chunks)[i] = IF i <= 1 THEN first[i] ELSE chunks[i - 1]
    <2>1. /\ first \o chunks \in Seq(AllLines)
          /\ Len(first \o chunks) = Len(first) + Len(chunks)
          /\ \A i \in 1..(Len(first) + Len(chunks)) :
               (first \o chunks)[i] = IF i <= Len(first) THEN first[i] ELSE chunks[i - Len(first)]
      <3>1. first \in Seq(AllLines) /\ chunks \in Seq(AllLines)
        BY <1>4, <1>5
      <3>. QED
        BY ONLY <3>1, ConcatProperties
    <2>. QED
      BY <1>4, <1>5, <2>1
  <1>9. /\ (first \o chunks) \o last \in Seq(AllLines)
        /\ Len((first \o chunks) \o last) = (1 + n) + 1
        /\ \A i \in 1..((1 + n) + 1) :
             ((first \o chunks) \o last)[i]
               = IF i <= 1 + n THEN (first \o chunks)[i] ELSE last[i - (1 + n)]
    <2>. DEFINE front == first \o chunks
    <2>1. front \in Seq(AllLines) /\ Len(front) = 1 + n
      BY <1>8
    <2>. HIDE DEF front
    <2>2. /\ front \o last \in Seq(AllLines)
          /\ Len(front \o last) = Len(front) + Len(last)
          /\ \A i \in 1..(Len(front) + Len(last)) :
               (front \o last)[i] = IF i <= Len(front) THEN front[i] ELSE last[i - Len(front)]
      BY <1>5, <2>1, ConcatProperties
    <2>. QED
      BY <1>5, <2>1, <2>2 DEF front
  <1>10. ASSUME NEW i \in 1..(n + 2)
         PROVE  Export(id, frame)[i] = EventAt(id, frame, i)
    <2>1. CASE i = 1
      BY <2>1, <1>5, <1>7, <1>8, <1>9 DEF EventAt
    <2>2. CASE i = n + 2
      BY <2>2, <1>5, <1>7, <1>9 DEF EventAt
    <2>3. CASE i \in 2..(n + 1)
      <3>1. i - 1 \in 1..n /\ i <= 1 + n /\ ~(i <= 1) /\ i \in 1..(1 + n) /\ i # n + 2 /\ i # 1
        BY <2>3
      <3>2. Export(id, frame)[i] = chunks[i - 1]
        BY <3>1, <1>7, <1>8, <1>9
      <3>. QED
        BY <3>1, <3>2, <1>6 DEF EventAt
    <2>. QED
      BY <2>1, <2>2, <2>3
  <1>. QED
    BY <1>7, <1>9, <1>10

\* What is left of an earlier export does not count as this one.
LEMMA ExportStart == ExportInit => ExportInv
  <1> SUFFICES ASSUME ExportInit PROVE ExportInv
    OBVIOUS
  <1>1. sent \in FramesOf /\ sent \in Seq(Letters) /\ Len(sent) \in 1..MaxChunks
    BY FrameSeq DEF ExportInit
  <1>2. PICK old \in FramesOf : \E left \in 0..(Len(old) + 2) :
          /\ wire = SubSeq(Export("earlier", old), Len(old) + 3 - left, Len(old) + 2)
                    \o Export("this", sent)
          /\ harmed = (left > 0)
    BY DEF ExportInit
  <1>3. PICK left \in 0..(Len(old) + 2) :
          /\ wire = SubSeq(Export("earlier", old), Len(old) + 3 - left, Len(old) + 2)
                    \o Export("this", sent)
          /\ harmed = (left > 0)
    BY <1>2
  <1>4. old \in Seq(Letters) /\ Len(old) \in Nat
    BY FrameSeq, LenProperties
  <1>. DEFINE E == Export("earlier", old)
              T == Export("this", sent)
              a == Len(old) + 3 - left
              b == Len(old) + 2
              rest == SubSeq(E, a, b)
  <1>5. /\ E \in Seq(AllLines) /\ Len(E) = b
        /\ \A i \in 1..b : E[i] = EventAt("earlier", old, i)
    BY <1>4, ExportLines DEF Ids
  <1>6. /\ T \in Seq(AllLines) /\ Len(T) = Len(sent) + 2
        /\ \A i \in 1..(Len(sent) + 2) : T[i] = EventAt("this", sent, i)
    BY <1>1, ExportLines DEF Ids
  <1>7. a \in Int /\ b \in Int /\ a >= 1 /\ (left = 0 => b < a)
    BY <1>4
  <1>. HIDE DEF E, T, a, b
  <1>8. \A i \in a..b : E[i] \in ExportEvents
    <2> SUFFICES ASSUME NEW i \in a..b PROVE E[i] \in ExportEvents
      OBVIOUS
    <2>1. i \in 1..b
      BY <1>7
    <2>2. E[i] \in AllLines
      BY <2>1, <1>5, ElementOfSeq
    <2>3. E[i].id = "earlier"
      BY <2>1, <1>5 DEF EventAt, BeginEvent, DoneEvent, ChunkEvent
    <2>. QED
      BY <2>2, <2>3 DEF ExportEvents
  <1>9. rest \in Seq(ExportEvents) /\ (b < a => Len(rest) = 0)
    BY <1>7, <1>8, SubSeqProperties
  <1>10. T \in Seq(ExportEvents)
    <2>1. \A i \in 1..Len(T) : T[i] \in ExportEvents
      <3> SUFFICES ASSUME NEW i \in 1..Len(T) PROVE T[i] \in ExportEvents
        OBVIOUS
      <3>1. T[i] \in AllLines
        BY <1>6, ElementOfSeq
      <3>2. T[i] = EventAt("this", sent, i)
        BY <1>6
      <3>3. T[i].name # "chunk" => T[i].meta.digest = sent
        BY <3>2 DEF EventAt, BeginEvent, DoneEvent, ChunkEvent, Meta
      <3>. QED
        BY <3>1, <3>3 DEF ExportEvents
    <2>2. Len(T) \in Nat /\ T \in [1..Len(T) -> AllLines]
      BY <1>6, LenProperties
    <2>3. T \in [1..Len(T) -> ExportEvents]
      BY <2>1, <2>2
    <2>. QED
      BY <2>2, <2>3, SeqDef
  <1>. HIDE DEF rest
  <1>11. wire = rest \o T
    BY <1>3 DEF rest, E, T, a, b
  <1>12. WireOK
    BY <1>1, <1>9, <1>10, <1>11, ConcatProperties DEF WireOK
  <1>13. asm = [state |-> "open", begin |-> NoBegin, chunks |-> <<>>, result |-> NoResult]
    BY DEF ExportInit
  <1>14. AsmOK
    BY <1>13 DEF AsmOK, NoBegin, NoDigest, Metas
  <1>15. CleanOK
    <2> SUFFICES ASSUME ~harmed PROVE ReadSoFar(0)
      BY <1>1, <1>13 DEF CleanOK
    <2>1. left = 0
      <3>1. ~(left > 0)
        BY <1>3, Zenon
      <3>. QED
        BY <3>1, <1>4
    <2>2. rest = <<>>
      BY <2>1, <1>7, <1>9, EmptySeq
    <2>3. wire = T
      BY <2>2, <1>6, <1>11, ConcatEmptySeq
    <2>. QED
      BY <2>3, <1>1, <1>6, <1>13 DEF ReadSoFar
  <1>. QED
    BY <1>12, <1>14, <1>15 DEF ExportInv

------------------------------------------------------------------------------
(* The steps. *)

\* The line takes an event away or changes it, which harms the export.
LEMMA LineStep == ExportInv /\ (LoseEvent \/ GarbleEvent \/ ExportDeadline) => ExportInv'
  <1> SUFFICES ASSUME ExportInv, LoseEvent \/ GarbleEvent \/ ExportDeadline PROVE ExportInv'
    OBVIOUS
  <1>1. harmed' /\ sent' = sent
    BY DEF LoseEvent, GarbleEvent, ExportDeadline
  <1>2. ExportEvents' = ExportEvents
    BY <1>1 DEF ExportEvents
  <1>3. CASE LoseEvent
    <2>1. wire' \in Seq(ExportEvents)
      BY <1>3, HeadTailProperties DEF LoseEvent, ExportInv, WireOK
    <2>. QED
      BY <2>1, <1>1, <1>2, <1>3 DEF LoseEvent, ExportInv, WireOK, AsmOK, CleanOK
  <1>4. CASE GarbleEvent
    <2>1. Head(wire) \in ExportEvents /\ Tail(wire) \in Seq(ExportEvents)
      BY <1>4, HeadTailProperties DEF GarbleEvent, ExportInv, WireOK
    <2>2. PICK e \in Changed(Head(wire)) : wire' = <<e>> \o Tail(wire)
      BY <1>4 DEF GarbleEvent
    <2>3. e \in ExportEvents
      <3>. DEFINE h == Head(wire)
      <3>1. h \in AllLines
        BY <2>1 DEF ExportEvents
      <3>2. CASE h.name = "chunk"
        <4>1. PICK x \in Letters : e = [h EXCEPT !.data = x]
          BY <2>2, <3>2 DEF Changed
        <4>. HIDE DEF h
        <4>2. h \in [name : {"chunk"}, id : Ids, index : Nat, count : Nat, data : Letters]
          BY <3>1, <3>2 DEF AllLines
        <4>3. e \in AllLines /\ e.name = "chunk"
          BY <4>1, <4>2 DEF AllLines
        <4>. QED
          BY <4>3 DEF ExportEvents
      <3>3. CASE h.name # "chunk"
        <4>1. e = [h EXCEPT !.meta.digest = NoDigest]
          BY <2>2, <3>3 DEF Changed
        <4>. HIDE DEF h
        <4>2. \/ h \in [name : {"begin"}, id : Ids, meta : Metas]
              \/ h \in [name : {"done"}, id : Ids, meta : Metas]
          BY <3>1, <3>3 DEF AllLines
        <4>3. e = [name |-> h.name, id |-> h.id,
                   meta |-> [count |-> h.meta.count, digest |-> NoDigest]]
          BY <4>1, <4>2 DEF Metas
        <4>4. [count |-> h.meta.count, digest |-> NoDigest] \in Metas
          BY <4>2 DEF Metas, NoDigest
        <4>5. e \in AllLines /\ e.meta.digest = NoDigest
          BY <4>2, <4>3, <4>4 DEF AllLines
        <4>. QED
          BY <4>5 DEF ExportEvents
      <3>. QED
        BY <3>2, <3>3
    <2>4. wire' \in Seq(ExportEvents)
      <3>1. <<e>> \in Seq(ExportEvents)
        BY <2>3
      <3>. QED
        BY <2>1, <2>2, <3>1, ConcatProperties
    <2>. QED
      BY <2>4, <1>1, <1>2, <1>4 DEF GarbleEvent, ExportInv, WireOK, AsmOK, CleanOK
  <1>5. CASE ExportDeadline
    <2>1. wire' = wire /\ asm' = [asm EXCEPT !.state = "failed"]
      BY <1>5 DEF ExportDeadline, Fail
    <2>2. AsmOK'
      BY <2>1, <1>1 DEF ExportInv, AsmOK
    <2>. QED
      BY <2>1, <2>2, <1>1, <1>2 DEF ExportInv, WireOK, CleanOK
  <1>. QED
    BY <1>3, <1>4, <1>5

\* An event that is read goes into the assembly or ends it; what done accepts is
\* the announced frame, and only this export's frame is ever announced.
LEMMA ReadKeeps ==
    ASSUME ExportInv, ReadExport
    PROVE  WireOK' /\ AsmOK'
  <1>1. /\ wire # <<>> /\ wire' = Tail(wire) /\ sent' = sent /\ asm.state = "open"
        /\ Head(wire) \in ExportEvents /\ Tail(wire) \in Seq(ExportEvents)
    BY HeadTailProperties DEF ReadExport, ExportInv, WireOK
  <1>2. WireOK'
    BY <1>1 DEF ExportInv, WireOK, ExportEvents
  <1>3. asm \in [state : {"open", "failed", "assembled"}, begin : Metas,
                 chunks : Seq(Letters), result : {NoResult, sent}]
    BY DEF ExportInv, AsmOK
  <1>4. Len(asm.chunks) \in Nat /\ asm.begin.count \in Nat /\ Len(asm.chunks) <= asm.begin.count
    BY <1>3, LenProperties DEF ExportInv, AsmOK, Metas
  <1>. DEFINE e == Head(wire)
  <1>5. e \in AllLines /\ (e.name # "chunk" /\ e.id = "this" => e.meta.digest \in {sent, NoDigest})
    BY <1>1 DEF ExportEvents
  <1>6. /\ e.name = "begin" => asm' = AfterBegin(e)
        /\ e.name = "chunk" => asm' = AfterChunk(e)
        /\ e.name = "done" => asm' = AfterDone(e)
    BY DEF ReadExport
  <1>7. e.name \in {"begin", "chunk", "done"}
    BY <1>5 DEF AllLines
  <1>. HIDE DEF e
  <1>8. CASE asm' = Fail
    BY <1>1, <1>2, <1>3, <1>8 DEF Fail, ExportInv, AsmOK
  <1>9. CASE e.name = "begin" /\ BeginAccepted(e)
    <2>1. asm' = [asm EXCEPT !.begin = e.meta] /\ asm.begin = NoBegin
      BY <1>6, <1>9 DEF AfterBegin, BeginAccepted
    <2>2. e.meta \in Metas /\ e.meta.count \in 1..MaxChunks
      BY <1>5, <1>9 DEF AllLines, BeginAccepted
    <2>3. Len(asm.chunks) = 0
      BY <2>1, <1>4 DEF NoBegin
    <2>4. asm'.begin = e.meta /\ asm'.chunks = asm.chunks
      BY <2>1, <1>3
    <2>5. asm' \in [state : {"open", "failed", "assembled"}, begin : Metas,
                    chunks : Seq(Letters), result : {NoResult, sent'}]
      BY <2>1, <2>2, <1>1, <1>3
    <2>6. 0 <= asm'.begin.count
      BY <2>2, <2>4, ExportAssumption
    <2>. QED
      BY <2>2, <2>3, <2>4, <2>5, <2>6, <1>2 DEF AsmOK
  <1>10. CASE e.name = "chunk" /\ ChunkAccepted(e)
    <2>1. asm' = [asm EXCEPT !.chunks = Append(asm.chunks, e.data)]
      BY <1>6, <1>10 DEF AfterChunk
    <2>2. e.data \in Letters /\ Len(asm.chunks) + 1 <= asm.begin.count
      BY <1>5, <1>10 DEF AllLines, ChunkAccepted
    <2>3. /\ Append(asm.chunks, e.data) \in Seq(Letters)
          /\ Len(Append(asm.chunks, e.data)) = Len(asm.chunks) + 1
      BY <2>2, <1>3, AppendProperties
    <2>4. asm'.begin = asm.begin /\ asm'.chunks = Append(asm.chunks, e.data)
      BY <2>1, <1>3
    <2>5. asm' \in [state : {"open", "failed", "assembled"}, begin : Metas,
                    chunks : Seq(Letters), result : {NoResult, sent'}]
      BY <2>1, <2>3, <1>1, <1>3
    <2>6. AsmOK'
      BY <2>2, <2>3, <2>4, <2>5 DEF ExportInv, AsmOK
    <2>. QED
      BY <2>6, <1>2
  <1>11. CASE e.name = "done" /\ DoneAccepted(e)
    <2>1. asm' = [asm EXCEPT !.state = "assembled", !.result = asm.chunks]
      BY <1>6, <1>11 DEF AfterDone
    <2>2. /\ asm.begin # NoBegin /\ e.id = "this" /\ asm.chunks = e.meta.digest
          /\ Len(asm.chunks) = asm.begin.count
      BY <1>11 DEF DoneAccepted, DigestMatches
    <2>3. asm.begin.count \in 1..MaxChunks
      BY <2>2 DEF ExportInv, AsmOK
    <2>4. asm.chunks # <<>>
      <3>1. Len(asm.chunks) # 0
        BY <2>2, <2>3, ExportAssumption
      <3>. QED
        BY <3>1
    <2>5. asm.chunks = sent
      BY <2>2, <2>4, <1>5, <1>11 DEF NoDigest
    <2>6. AsmOK'
      BY <2>1, <2>5, <1>1, <1>3 DEF ExportInv, AsmOK
    <2>. QED
      BY <2>6, <1>2
  <1>. QED
    BY <1>6, <1>7, <1>8, <1>9, <1>10, <1>11 DEF AfterBegin, AfterChunk, AfterDone

\* The next event of an undisturbed export is accepted.
LEMMA ReadClean ==
    ASSUME ExportInv, ReadExport, ~harmed
    PROVE  \/ asm'.state = "assembled"
           \/ asm'.state = "open" /\ \E n \in 0..(Len(sent) + 1) : ReadSoFar(n)'
  <1>1. /\ wire # <<>> /\ wire' = Tail(wire) /\ sent' = sent /\ asm.state = "open"
        /\ wire \in Seq(ExportEvents)
    BY DEF ReadExport, ExportInv, WireOK
  <1>2. /\ asm \in [state : {"open", "failed", "assembled"}, begin : Metas,
                    chunks : Seq(Letters), result : {NoResult, sent}]
        /\ sent \in Seq(Letters) /\ Len(sent) \in Nat /\ Len(sent) \in 1..MaxChunks
    BY ExportAssumption DEF ExportInv, AsmOK, WireOK
  <1>3. PICK n \in 0..(Len(sent) + 1) : ReadSoFar(n)
    BY <1>1 DEF ExportInv, CleanOK
  <1>4. Len(wire) \in Nat /\ Len(asm.chunks) \in Nat /\ Len(wire) >= 1
    BY <1>1, <1>2, <1>3, LenProperties DEF ReadSoFar
  <1>5. /\ Head(wire) = EventAt("this", sent, n + 1)
        /\ Len(wire') = Len(sent) + 2 - (n + 1)
        /\ \A i \in 1..Len(wire') : wire'[i] = EventAt("this", sent, (n + 1) + i)
    <2>1. Head(wire) = wire[1]
      BY <1>1
    <2>2. Len(Tail(wire)) = Len(wire) - 1 /\ \A i \in 1..Len(Tail(wire)) : Tail(wire)[i] = wire[i + 1]
      BY <1>1, HeadTailProperties
    <2>3. \A i \in 1..Len(Tail(wire)) : i + 1 \in 1..Len(wire) /\ n + (i + 1) = (n + 1) + i
      BY <2>2, <1>3, <1>4
    <2>4. /\ Len(wire) = Len(sent) + 2 - n
          /\ \A i \in 1..Len(wire) : wire[i] = EventAt("this", sent, n + i)
      BY <1>3 DEF ReadSoFar
    <2>5. Head(wire) = EventAt("this", sent, n + 1)
      BY <2>1, <2>4, <1>4
    <2>6. Len(Tail(wire)) = Len(sent) + 2 - (n + 1)
      BY <2>2, <2>4, <1>2
    <2>7. \A i \in 1..Len(Tail(wire)) : Tail(wire)[i] = EventAt("this", sent, (n + 1) + i)
      <3>1. SUFFICES ASSUME NEW i \in 1..Len(Tail(wire))
                     PROVE  Tail(wire)[i] = EventAt("this", sent, (n + 1) + i)
        OBVIOUS
      <3>2. wire[i + 1] = EventAt("this", sent, n + (i + 1))
        BY <2>3, <2>4
      <3>. QED
        BY <2>2, <2>3, <3>2
    <2>. QED
      BY <2>5, <2>6, <2>7, <1>1
  <1>. DEFINE e == Head(wire)
  <1>6. /\ e.name = "begin" => asm' = AfterBegin(e)
        /\ e.name = "chunk" => asm' = AfterChunk(e)
        /\ e.name = "done" => asm' = AfterDone(e)
    BY DEF ReadExport
  <1>. HIDE DEF e
  <1>7. CASE n = 0
    <2>1. e = BeginEvent("this", sent) /\ asm.begin = NoBegin /\ Len(asm.chunks) = 0
      BY <1>3, <1>5, <1>7 DEF EventAt, ReadSoFar, e
    <2>2. BeginAccepted(e)
      BY <2>1, <1>2 DEF BeginEvent, Meta, BeginAccepted
    <2>3. asm' = [asm EXCEPT !.begin = Meta(sent)]
      BY <2>1, <2>2, <1>6 DEF AfterBegin, BeginEvent
    <2>4. asm'.state = "open" /\ asm'.begin = Meta(sent) /\ asm'.chunks = asm.chunks
      BY <2>3, <1>1, <1>2
    <2>5. ReadSoFar(1)'
      BY <2>1, <2>4, <1>1, <1>5, <1>7 DEF ReadSoFar
    <2>. QED
      BY <2>4, <2>5, <1>2
  <1>8. CASE n \in 1..Len(sent)
    <2>1. /\ e = ChunkEvent("this", n, sent) /\ asm.begin = Meta(sent)
          /\ Len(asm.chunks) = n - 1 /\ \A i \in 1..(n - 1) : asm.chunks[i] = sent[i]
      BY <1>2, <1>3, <1>5, <1>8 DEF EventAt, ReadSoFar, e
    <2>2. asm.begin # NoBegin /\ asm.begin.count = Len(sent)
      BY <2>1, <1>2 DEF Meta, NoBegin
    <2>3. ChunkAccepted(e)
      BY <2>1, <2>2, <1>8 DEF ChunkEvent, ChunkAccepted
    <2>4. asm' = [asm EXCEPT !.chunks = Append(asm.chunks, sent[n])]
      BY <2>1, <2>3, <1>6 DEF AfterChunk, ChunkEvent
    <2>5. asm'.state = "open" /\ asm'.begin = Meta(sent)
          /\ asm'.chunks = Append(asm.chunks, sent[n])
      BY <2>1, <2>4, <1>1, <1>2
    <2>6. sent[n] \in Letters
      BY <1>2, <1>8, ElementOfSeq
    <2>7. /\ Len(Append(asm.chunks, sent[n])) = n
          /\ \A i \in 1..n : Append(asm.chunks, sent[n])[i] = sent[i]
      <3>1. /\ Len(Append(asm.chunks, sent[n])) = (n - 1) + 1
            /\ \A i \in 1..(n - 1) : Append(asm.chunks, sent[n])[i] = asm.chunks[i]
            /\ Append(asm.chunks, sent[n])[(n - 1) + 1] = sent[n]
        BY <2>1, <2>6, <1>2, AppendProperties
      <3>. QED
        BY <3>1, <2>1, <1>8
    <2>8. ReadSoFar(n + 1)'
      <3>1. Len(wire') = Len(sent') + 2 - (n + 1)
        BY <1>1, <1>5
      <3>2. \A i \in 1..Len(wire') : wire'[i] = EventAt("this", sent', (n + 1) + i)
        BY <1>1, <1>5
      <3>3. asm'.begin = Meta(sent') /\ Len(asm'.chunks) = n /\ n + 1 # 0 /\ (n + 1) - 1 = n
        BY <2>5, <2>7, <1>1, <1>8
      <3>4. \A i \in 1..Len(asm'.chunks) : asm'.chunks[i] = sent'[i]
        BY <2>5, <2>7, <1>1
      <3>. QED
        BY <3>1, <3>2, <3>3, <3>4 DEF ReadSoFar
    <2>. QED
      BY <2>5, <2>8, <1>2, <1>8
  <1>9. CASE n = Len(sent) + 1
    <2>1. /\ e = DoneEvent("this", sent) /\ asm.begin = Meta(sent)
          /\ Len(asm.chunks) = Len(sent) /\ \A i \in 1..Len(sent) : asm.chunks[i] = sent[i]
      BY <1>2, <1>3, <1>5, <1>9 DEF EventAt, ReadSoFar, e
    <2>2. asm.begin # NoBegin /\ asm.begin.count = Len(sent)
      BY <2>1, <1>2 DEF Meta, NoBegin
    <2>3. asm.chunks = sent
      <3>1. asm.chunks \in [1..Len(sent) -> Letters] /\ sent \in [1..Len(sent) -> Letters]
        BY <2>1, <1>2, LenProperties
      <3>. QED
        BY <2>1, <3>1
    <2>4. DoneAccepted(e)
      BY <2>1, <2>2, <2>3 DEF DoneEvent, DoneAccepted, DigestMatches, Meta
    <2>5. asm' = [asm EXCEPT !.state = "assembled", !.result = asm.chunks]
      BY <2>1, <2>4, <1>6 DEF AfterDone, DoneEvent
    <2>. QED
      BY <2>5, <1>2
  <1>. QED
    BY <1>2, <1>7, <1>8, <1>9

\* Reading keeps both halves.
LEMMA ReadStep == ExportInv /\ ReadExport => ExportInv'
  <1> SUFFICES ASSUME ExportInv, ReadExport PROVE ExportInv'
    OBVIOUS
  <1>1. WireOK' /\ AsmOK'
    BY ReadKeeps
  <1>2. harmed' = harmed /\ sent' = sent
    BY DEF ReadExport
  <1>3. CleanOK'
    BY <1>2, ReadClean DEF CleanOK
  <1>. QED
    BY <1>1, <1>3 DEF ExportInv

\* Every step keeps the invariant.
LEMMA ExportStep == ExportInv /\ [ExportNext]_exportVars => ExportInv'
  <1>1. ASSUME ExportInv, UNCHANGED exportVars PROVE ExportInv'
    <2>1. UNCHANGED <<sent, wire, asm, harmed>>
      BY <1>1 DEF exportVars
    <2>2. WireOK'
      BY <1>1, <2>1 DEF ExportInv, WireOK, ExportEvents
    <2>3. AsmOK'
      BY <1>1, <2>1 DEF ExportInv, AsmOK
    <2>4. \A n : ReadSoFar(n) => ReadSoFar(n)'
      BY <2>1 DEF ReadSoFar
    <2>5. CleanOK'
      BY <1>1, <2>1, <2>4 DEF ExportInv, CleanOK
    <2>. QED
      BY <2>2, <2>3, <2>5 DEF ExportInv
  <1>. QED
    BY <1>1, ReadStep, LineStep DEF ExportNext

\* What the invariant promises, in a frame of the device.
LEMMA ExportPromises ==
    ASSUME ExportInv
    PROVE  /\ ExportExact
           /\ tool \in {"studio", "simple"} /\ sent \in FramesOf => ExportTypeOK
  <1>1. ExportExact
    BY DEF ExportInv, AsmOK, CleanOK, ExportExact
  <1>2. /\ asm.state \in {"open", "failed", "assembled"} /\ asm.result \in {NoResult, sent}
        /\ asm.chunks \in Seq(Letters) /\ Len(asm.chunks) <= asm.begin.count
    BY DEF ExportInv, AsmOK
  <1>3. Len(asm.chunks) <= MaxChunks
    <2>1. Len(asm.chunks) \in Nat /\ MaxChunks \in Nat /\ asm.begin.count \in Nat
      BY <1>2, ExportAssumption DEF ExportInv, AsmOK, Metas
    <2>2. asm.begin.count <= MaxChunks
      BY ExportAssumption DEF ExportInv, AsmOK, NoBegin
    <2>. QED
      BY <1>2, <2>1, <2>2
  <1>. QED
    BY <1>1, <1>2, <1>3 DEF ExportTypeOK

\* ExportInv is an inductive invariant of the export.
THEOREM ExportInductive == ExportSpec => []ExportInv
  BY ExportStart, ExportStep, PTL DEF ExportSpec

\* Neither assembler ever returns anything but the frame the device sent,
\* however the line treats the events of this export and of one before; and an
\* export nothing happened to is never refused.
THEOREM ExportIsExact == ExportSpec => []ExportExact
  BY ExportInductive, ExportPromises, PTL

------------------------------------------------------------------------------
(***************************************************************************)
(* The bench: one program at a time holds the port, the others are at rest *)
(* (MCIrBench).                                                            *)
(***************************************************************************)
StudioAtRest ==
    /\ win = WindowInit /\ queue = <<>> /\ evq = <<>> /\ posted = NothingPosted
    /\ cancelEvent = FALSE /\ wk = NoWorker /\ confirmed = {}
LearnerAtRest ==
    /\ link = "closed" /\ loops = {"drain", "clock"} /\ flow = NoFlow /\ slot = 1
    /\ started = NoSession /\ disk = [i \in Slots |-> NoCapture]

BenchInv ==
    /\ program \in {"studio", "learner", "replay", "export"}
    /\ DeviceInv
    /\ program = "studio" => StudioInv
    /\ program # "studio" => StudioAtRest
    /\ program = "learner" => LearnerInv
    /\ program # "learner" => LearnerAtRest
    /\ ReplayInv
    /\ ExportInv /\ tool \in {"studio", "simple"} /\ sent \in FramesOf

\* Every program starts in its own initial state.
LEMMA BenchStart == Init => BenchInv
  <1> SUFFICES ASSUME Init PROVE BenchInv
    OBVIOUS
  <1>1. StudioInv /\ DeviceInv /\ LearnerInv /\ ReplayInv /\ ExportInv
    BY StudioStart, LearnerStart, ReplayStart, ExportStart DEF Init, StudioInv
  <1>2. StudioAtRest /\ LearnerAtRest
    BY DEF Init, StudioInit, LearnerInit, StudioAtRest, LearnerAtRest
  <1>. QED
    BY <1>1, <1>2 DEF BenchInv, Init, ExportInit

\* What does not move stays as it is.
LEMMA AtRestKeeps ==
    /\ StudioAtRest /\ UNCHANGED <<studioVars, confirmed>> => StudioAtRest'
    /\ LearnerAtRest /\ UNCHANGED learnerVars => LearnerAtRest'
    /\ DeviceInv /\ UNCHANGED deviceVars => DeviceInv'
  <1>1. StudioAtRest /\ UNCHANGED <<studioVars, confirmed>> => StudioAtRest'
    BY DEF StudioAtRest, studioVars
  <1>2. LearnerAtRest /\ UNCHANGED learnerVars => LearnerAtRest'
    BY DEF LearnerAtRest, learnerVars
  <1>3. DeviceInv /\ UNCHANGED deviceVars => DeviceInv'
    BY DEF DeviceInv, deviceVars
  <1>. QED
    BY <1>1, <1>2, <1>3

\* A step is a step of the program that holds the port.
LEMMA BenchStep ==
    ASSUME BenchInv, [Next]_<<program, allStudioVars, learnerVars, replayVars, exportVars>>
    PROVE  BenchInv'
  <1>1. CASE UNCHANGED <<program, allStudioVars, learnerVars, replayVars, exportVars>>
    <2>1. /\ UNCHANGED <<allStudioVars, studioVars, confirmed, deviceVars>>
          /\ UNCHANGED <<learnerVars, allLearnerVars, replayVars, exportVars, program>>
          /\ UNCHANGED <<tool, sent>>
      BY <1>1 DEF allStudioVars, allLearnerVars, exportVars
    <2>2. (program = "studio" => StudioInv') /\ (program = "learner" => LearnerInv')
      BY <2>1, StudioStep, LearnerStep DEF BenchInv
    <2>3. ReplayInv' /\ ExportInv'
      BY <2>1, ReplayStep, ExportStep DEF BenchInv
    <2>. QED
      BY <2>1, <2>2, <2>3, AtRestKeeps DEF BenchInv
  <1>2. CASE /\ program = "studio" /\ StudioNext /\ UNCHANGED program
             /\ UNCHANGED <<learnerVars, replayVars, exportVars>>
    <2>1. StudioInv'
      BY <1>2, StudioStep DEF BenchInv
    <2>2. DeviceInv'
      BY <2>1 DEF StudioInv
    <2>3. ReplayInv' /\ ExportInv'
      BY <1>2, ReplayStep, ExportStep DEF BenchInv
    <2>4. UNCHANGED <<tool, sent, program>>
      BY <1>2 DEF exportVars
    <2>. QED
      BY <1>2, <2>1, <2>2, <2>3, <2>4, AtRestKeeps DEF BenchInv
  <1>3. CASE /\ program = "learner" /\ LearnerNext /\ UNCHANGED program
             /\ UNCHANGED <<studioVars, confirmed, replayVars, exportVars>>
    <2>1. LearnerInv'
      BY <1>3, LearnerStep DEF BenchInv
    <2>2. DeviceInv'
      BY <2>1 DEF LearnerInv
    <2>3. ReplayInv' /\ ExportInv'
      BY <1>3, ReplayStep, ExportStep DEF BenchInv
    <2>4. UNCHANGED <<tool, sent, program>>
      BY <1>3 DEF exportVars
    <2>. QED
      BY <1>3, <2>1, <2>2, <2>3, <2>4, AtRestKeeps DEF BenchInv
  <1>4. CASE /\ program = "replay" /\ ReplayNext /\ UNCHANGED program
             /\ UNCHANGED <<allStudioVars, learnerVars, exportVars>>
    <2>1. ReplayInv' /\ ExportInv'
      BY <1>4, ReplayStep, ExportStep DEF BenchInv
    <2>2. UNCHANGED <<tool, sent, program, studioVars, confirmed, deviceVars, learnerVars>>
      BY <1>4 DEF exportVars, allStudioVars
    <2>. QED
      BY <1>4, <2>1, <2>2, AtRestKeeps DEF BenchInv
  <1>5. CASE /\ program = "export" /\ ExportNext /\ UNCHANGED program
             /\ UNCHANGED <<allStudioVars, learnerVars, replayVars>>
    <2>1. ReplayInv' /\ ExportInv'
      BY <1>5, ReplayStep, ExportStep DEF BenchInv
    <2>2. UNCHANGED <<tool, sent>>
      BY <1>5 DEF ExportNext, ReadExport, LoseEvent, GarbleEvent, ExportDeadline
    <2>3. UNCHANGED <<program, studioVars, confirmed, deviceVars, learnerVars>>
      BY <1>5 DEF allStudioVars
    <2>. QED
      BY <1>5, <2>1, <2>2, <2>3, AtRestKeeps DEF BenchInv
  <1>. QED
    BY <1>1, <1>2, <1>3, <1>4, <1>5 DEF Next

\* BenchInv is an inductive invariant of the bench.
THEOREM BenchInductive == Spec => []BenchInv
  <1>. QED
    BY BenchStart, BenchStep, PTL DEF Spec

\* A program at rest has its types and keeps its promises.
LEMMA RestPromises ==
    ASSUME BenchInv
    PROVE  /\ StudioAtRest => StudioTypeOK /\ ValidatedTruth /\ NoLearningAbandoned
           /\ LearnerAtRest => LearnerTypeOK /\ SlotsDistinct
  <1>0. DeviceTypeOK
    BY DeviceTypes DEF BenchInv
  <1>1. ASSUME StudioAtRest
        PROVE  StudioTypeOK /\ ValidatedTruth /\ NoLearningAbandoned
    <2>1. /\ win.started = NoSession /\ win.saved = {} /\ queue = <<>> /\ evq = <<>>
          /\ wk.pc = "none" /\ wk.session = NoSession /\ wk.frame = NoFrame /\ confirmed = {}
      BY <1>1 DEF StudioAtRest, WindowInit, NoWorker
    <2>2. DOMAIN queue = {} /\ DOMAIN evq = {}
      BY <2>1
    <2>3. StudioTypeOK
      BY <1>0, <2>1, <2>2 DEF StudioTypeOK
    <2>4. ValidatedTruth
      BY <2>1, <2>2 DEF ValidatedTruth, ValidatedEvents
    <2>5. NoLearningAbandoned
      BY <2>1 DEF NoLearningAbandoned
    <2>. QED
      BY <2>3, <2>4, <2>5
  <1>2. ASSUME LearnerAtRest PROVE LearnerTypeOK /\ SlotsDistinct
    BY <1>0, <1>2, SlotsAssumption DEF LearnerAtRest, LearnerTypeOK, SlotsDistinct, NoFlow,
       NoCapture, NoFrame, NoSession
  <1>. QED
    BY <1>1, <1>2

\* Every variable of the four programs and of the device has its type.
THEOREM BenchTyped == Spec => []BenchTypeOK
  <1>1. BenchInv => BenchTypeOK
    <2> SUFFICES ASSUME BenchInv PROVE BenchTypeOK
      OBVIOUS
    <2>1. StudioTypeOK
      BY RestPromises, StudioTypes DEF BenchInv
    <2>2. LearnerTypeOK
      BY RestPromises, LearnerTypes DEF BenchInv
    <2>3. ReplayTypeOK
      BY ReplayPromises DEF BenchInv
    <2>4. ExportTypeOK
      BY ExportPromises DEF BenchInv
    <2>. QED
      BY <2>1, <2>2, <2>3, <2>4 DEF BenchTypeOK
  <1>. QED
    BY <1>1, BenchInductive, PTL

\* What the bench's programs tell and keep is true, whichever holds the port:
\* what Learning Studio validates or saves is one frame, received in the session
\* it is filed under, whose end the module acknowledged; what Simple Learner
\* keeps is a session's own frame, in one slot; what an export returns is the
\* frame the device held; what a replay sends is the candidate, once.
THEOREM BenchIsTrue ==
    Spec => [](ValidatedTruth /\ SlotsDistinct /\ ExportExact /\ EmittedIsCandidate)
  <1>1. BenchInv => ValidatedTruth /\ SlotsDistinct /\ ExportExact /\ EmittedIsCandidate
    <2> SUFFICES ASSUME BenchInv
                 PROVE  ValidatedTruth /\ SlotsDistinct /\ ExportExact /\ EmittedIsCandidate
      OBVIOUS
    <2>1. ValidatedTruth
      BY RestPromises, StudioPromises DEF BenchInv
    <2>2. SlotsDistinct
      BY RestPromises, LearnerPromises DEF BenchInv
    <2>. QED
      BY <2>1, <2>2, ReplayPromises, ExportPromises DEF BenchInv
  <1>. QED
    BY <1>1, BenchInductive, PTL

\* No worker of Learning Studio goes idle, or away, over a learning session it
\* started and did not end, unless the command that ends it is queued.
THEOREM BenchLeavesNothing == Spec => []NoLearningAbandoned
  <1>1. BenchInv => NoLearningAbandoned
    BY RestPromises, StudioPromises DEF BenchInv
  <1>. QED
    BY <1>1, BenchInductive, PTL

=============================================================================

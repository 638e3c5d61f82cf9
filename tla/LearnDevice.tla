----------------------------- MODULE LearnDevice -----------------------------
(***************************************************************************)
(* The ESP8266 of the learning bench as its serial line shows it: the      *)
(* ir_learn commands of serial_cli.cpp over the external learning mode of  *)
(* ir_module.cpp.  The line is two queues without loss; the device answers *)
(* when it gets to it, which may be later than the PC program waits.       *)
(*                                                                         *)
(* A learning session stands for the request and session id the program    *)
(* made for it.  A frame is named by the session in which the key of the   *)
(* remote control was pressed: another press, another frame.               *)
(***************************************************************************)
EXTENDS Naturals, Sequences

CONSTANT MaxSession     \* bound on the learning sessions begun

ASSUME SessionAssumption == MaxSession \in Nat

VARIABLES
    dev,        \* the learning state of the device
    toDev,      \* command lines written and not yet read by the device
    toHost      \* events the device printed and the program has not read

deviceVars == <<dev, toDev, toHost>>

Sessions == 1..MaxSession
NoSession == 0
NoFrame == 0

\* lab and told are _labLearnActive and _labLearnCaptured, ext the learning
\* mode of the module, session the ids of the last begin.
IdleDevice == [lab |-> FALSE, ext |-> FALSE, told |-> FALSE,
               session |-> NoSession, frame |-> NoFrame]

DeviceTypeOK ==
    /\ dev.lab \in BOOLEAN /\ dev.ext \in BOOLEAN /\ dev.told \in BOOLEAN
    /\ dev.session \in Sessions \cup {NoSession}
    /\ dev.frame \in Sessions \cup {NoFrame}
    /\ \A k \in DOMAIN toDev : toDev[k].session \in Sessions \cup {NoSession}
    /\ \A k \in DOMAIN toHost : toHost[k].session \in Sessions \cup {NoSession}

DeviceInit == dev = IdleDevice /\ toDev = <<>> /\ toHost = <<>>

Line(cmd, s) == [cmd |-> cmd, session |-> s]
Event(name, s) == [event |-> name, session |-> s]
FrameEvent(name, s, f) == [event |-> name, session |-> s, frame |-> f]
ExitEvent(s, ok) == [event |-> "cancelled", session |-> s, exitConfirmed |-> ok]

Answer(device, events) ==
    /\ dev' = device
    /\ toDev' = Tail(toDev)
    /\ toHost' = toHost \o events

------------------------------------------------------------------------------
\* The last capture not cleared.
EnteredKeepsFrame(s) == [dev EXCEPT !.lab = TRUE, !.ext = TRUE, !.told = FALSE,
                                    !.session = s]

\* The state after a begin the device accepted: the last capture is cleared
\* before the module enters learning mode.
Entered(s) == [dev EXCEPT !.lab = TRUE, !.ext = TRUE, !.told = FALSE,
                          !.session = s, !.frame = NoFrame]

\* doIrLearnBegin: refused while a session is open, failed when the module
\* does not acknowledge.
DeviceBegin(s) ==
    IF dev.lab \/ dev.ext
    THEN Answer(dev, <<Event("error", s)>>)
    ELSE \/ Answer(Entered(s), <<Event("waiting", s)>>)
         \/ Answer([Entered(s) EXCEPT !.lab = FALSE, !.ext = FALSE],
                   <<Event("error", s)>>)

\* doIrLearnCancel looks at no ids: it ends whatever runs and answers with
\* the ids it was given.
DeviceCancel(s) ==
    \E ok \in BOOLEAN :
        Answer([dev EXCEPT !.lab = FALSE, !.ext = FALSE], <<ExitEvent(s, ok)>>)

\* doIrLearnExport: only the session that was begun last, and only when it
\* has a frame.
DeviceExport(s) ==
    Answer(dev, IF s = dev.session /\ dev.frame # NoFrame
                THEN <<FrameEvent("export.begin", s, dev.frame),
                       FrameEvent("export.done", s, dev.frame)>>
                ELSE <<Event("export.error", s)>>)

DeviceClear == Answer(IdleDevice, <<Event("cleared", NoSession)>>)

DeviceStatus == Answer(dev, <<Event("status", dev.session)>>)

\* The command loop of the device.
DeviceReceive ==
    /\ toDev # <<>>
    /\ LET line == Head(toDev) IN
         \/ line.cmd = "begin" /\ DeviceBegin(line.session)
         \/ line.cmd = "cancel" /\ DeviceCancel(line.session)
         \/ line.cmd = "export" /\ DeviceExport(line.session)
         \/ line.cmd = "clear" /\ DeviceClear
         \/ line.cmd = "status" /\ DeviceStatus

\* tickExtLearn: a key was pressed; the module leaves learning mode by itself.
RemotePress ==
    /\ dev.ext
    /\ dev' = [dev EXCEPT !.ext = FALSE, !.frame = dev.session]
    /\ UNCHANGED <<toDev, toHost>>

\* tickExtLearn after IR_LEARN_REPORT_TIMEOUT_MS without a frame.
LearnTimeout ==
    /\ dev.ext
    /\ dev' = [dev EXCEPT !.ext = FALSE]
    /\ UNCHANGED <<toDev, toHost>>

\* pollLabLearn tells of a capture once per session.
MayTell == ~dev.told

PollCaptured ==
    /\ dev.lab /\ dev.frame # NoFrame /\ MayTell
    /\ dev' = [dev EXCEPT !.told = TRUE]
    /\ toHost' = Append(toHost, FrameEvent("captured", dev.session, dev.frame))
    /\ UNCHANGED toDev

\* pollLabLearn: the module gave up, the session ends.
PollTimeout ==
    /\ dev.lab /\ ~dev.ext /\ ~dev.told /\ dev.frame = NoFrame
    /\ dev' = [dev EXCEPT !.lab = FALSE]
    /\ toHost' = Append(toHost, Event("timeout", dev.session))
    /\ UNCHANGED toDev

DeviceNext ==
    DeviceReceive \/ RemotePress \/ LearnTimeout \/ PollCaptured \/ PollTimeout

=============================================================================

---------------------------- MODULE SimpleLearner ----------------------------
(***************************************************************************)
(* The IR Simple Learner: the state machine of capture_flow.py, fed by the *)
(* window of simple_ir_learner.py with the events its serial thread reads  *)
(* (serial_worker.py), and the directory tree it saves three captures per  *)
(* air-conditioner state to (storage.py).                                  *)
(*                                                                         *)
(* Buttons, events and the half-second timeout check all run on the one    *)
(* Tk thread, so each is one step; the device runs beside it.  What the    *)
(* serial thread has put into the window's queue is the front of toHost.   *)
(* A write to a port whose device was pulled out raises, which ends the    *)
(* callback; a loop that meets it never schedules itself again.            *)
(* The form stays at one air-conditioner state, whose captures are meant.  *)
(***************************************************************************)
EXTENDS LearnDevice, FiniteSets

CONSTANTS
    Slots,      \* capture slots, 1 to 3 in the program
    MaxLines    \* bound: no button is pressed with more lines on their way

ASSUME SlotsAssumption == 1 \in Slots

VARIABLES
    link,       \* "closed": no worker; "open"; "gone": the device was pulled out
    loops,      \* which of _drain and _check_timeout still schedule themselves
    flow,       \* flow.active, or NoFlow
    slot,       \* _pending_capture_idx
    started,    \* the last session made
    disk        \* slot -> capture file with its description

learnerVars == <<link, loops, flow, slot, started, disk>>

NoFlow == [state |-> "none"]
NoCapture == [session |-> NoSession, frame |-> NoFrame]

Busy == {"WAITING_ENTER_ACK", "WAITING_REMOTE", "EXPORTING", "EXITING",
         "EXIT_UNCONFIRMED"}
Working == Busy \ {"EXIT_UNCONFIRMED"}

LearnerTypeOK ==
    /\ DeviceTypeOK
    /\ flow.state \in Busy \cup {"none", "COMPLETED", "CANCELLED", "ERROR"}
    /\ flow # NoFlow =>
         /\ flow.session \in Sessions
         /\ flow.slot \in Slots
         /\ flow.frame \in Sessions \cup {NoFrame}
    /\ slot \in Slots
    /\ link \in {"closed", "open", "gone"} /\ loops \subseteq {"drain", "clock"}
    /\ \A i \in Slots : disk[i].session \in Sessions \cup {NoSession}

LearnerInit ==
    /\ DeviceInit
    /\ link = "closed"
    /\ loops = {"drain", "clock"}
    /\ flow = NoFlow
    /\ slot = 1
    /\ started = NoSession
    /\ disk = [i \in Slots |-> NoCapture]

\* CaptureContext
Context(s, i, state) ==
    [state |-> state, session |-> s, slot |-> i, frame |-> NoFrame,
     resent |-> FALSE]

\* write_line without a worker does nothing.
Written(lines) == IF link = "open" THEN toDev \o lines ELSE toDev
Raises(lines) == link = "gone" /\ lines # <<>>
Cancel(s) == <<Line("cancel", s)>>
Calm == Len(toDev) < MaxLines

------------------------------------------------------------------------------
(* The window's buttons. *)

\* SerialWorker.start; a port that does not open leaves no worker behind.
WorkerStarts ==
    \/ link' = "open" /\ toHost' = <<>>
    \/ UNCHANGED <<link, toHost>>

\* SerialWorker.stop: the reader is joined, three seconds at most, and the port
\* closed.  Its queue goes with the worker.
WorkerStops == link' = "closed"

\* _connect: the answers to the questions it asks on a new port are shown and
\* change nothing else.
ConnectLearner ==
    /\ Calm
    /\ link = "closed"
    /\ WorkerStarts
    /\ UNCHANGED <<dev, toDev, loops, flow, slot, started, disk>>

\* _disconnect: an unfinished flow is cancelled before the port is closed; the
\* write comes first, and when it raises nothing else is done.
Cancels == flow # NoFlow /\ flow.state # "COMPLETED"
Disconnected ==
    IF Cancels /\ link = "gone" THEN UNCHANGED <<toDev, flow, link>>
    ELSE /\ WorkerStops
         /\ IF Cancels
            THEN /\ toDev' = Written(Cancel(flow.session))
                 /\ flow' = [flow EXCEPT !.state = "CANCELLED", !.frame = NoFrame]
            ELSE UNCHANGED <<toDev, flow>>

DisconnectLearner ==
    /\ Calm
    /\ link # "closed"
    /\ Disconnected
    /\ UNCHANGED <<dev, toHost, loops, slot, started, disk>>

\* SerialWorker._run: a read that raises ends the thread, which looks at the
\* port every 50 ms; what it has put into the queue stays there.  The device
\* lives on the power of the cable.
Unplug ==
    /\ link = "open"
    /\ link' = "gone"
    /\ dev' = IdleDevice /\ toDev' = <<>>
    /\ \E k \in 0..Len(toHost) : toHost' = SubSeq(toHost, 1, k)
    /\ UNCHANGED <<loops, flow, slot, started, disk>>

\* _drain meets SERIAL_ERROR behind the events read before it.
SerialError ==
    /\ link = "gone" /\ "drain" \in loops
    /\ toHost' = <<>>
    /\ Disconnected
    /\ loops' = IF link' = "gone" THEN loops \ {"drain"} ELSE loops
    /\ UNCHANGED <<dev, slot, started, disk>>

\* _start_capture: the queue is emptied of what the serial thread has read
\* so far, a flow that ended is dropped.
StartSlot(i) ==
    /\ Calm
    /\ link = "open"
    /\ flow.state \notin Busy
    /\ started + 1 \in Sessions
    /\ slot' = i
    /\ started' = started + 1
    /\ flow' = Context(started + 1, i, "WAITING_ENTER_ACK")
    /\ toDev' = Append(toDev, Line("begin", started + 1))
    /\ \E k \in 0..Len(toHost) : toHost' = SubSeq(toHost, k + 1, Len(toHost))
    /\ UNCHANGED <<dev, link, loops, disk>>

\* _cancel: the button is enabled while the flow is busy.
CancelSlot ==
    /\ Calm
    /\ flow.state \in Busy /\ link # "gone"
    /\ toDev' = Written(Cancel(flow.session))
    /\ flow' = [flow EXCEPT !.state = "CANCELLED", !.frame = NoFrame]
    /\ UNCHANGED <<dev, toHost, link, loops, slot, started, disk>>

\* _reset_flow forgets the flow and tells the device nothing.
ResetFlow ==
    /\ Calm
    /\ flow # NoFlow
    /\ flow' = NoFlow
    /\ UNCHANGED <<deviceVars, link, loops, slot, started, disk>>

------------------------------------------------------------------------------
(* Events. *)

\* _do_save: in the slot of the flow, over what was there.
Save(ctx) ==
    disk' = IF ctx.frame = NoFrame THEN disk
            ELSE [disk EXCEPT ![ctx.slot] = [session |-> ctx.session,
                                             frame |-> ctx.frame]]

\* ExportAssembler over the two events an export is here: those of this
\* session whose frame the capture event announced.
Assembled(event, ctx) ==
    event.event \in {"export.begin", "export.done"} /\ event.session = ctx.session

\* CaptureFlow.handle_event: the context after the event and the lines it
\* wrote.  EXITING is left by a reply of its own session only.
FlowStep(ctx, event) ==
    LET name == event.event
        to(state) == [ctx |-> [ctx EXCEPT !.state = state], lines |-> <<>>]
        stay == [ctx |-> ctx, lines |-> <<>>]
    IN
    CASE ctx.state = "EXITING" /\ name = "cancelled" /\ event.session = ctx.session ->
           to(IF event.exitConfirmed THEN "COMPLETED" ELSE "EXIT_UNCONFIRMED")
      [] ctx.state # "EXITING" /\ name = "cancelled" -> to("CANCELLED")
      [] ctx.state = "WAITING_ENTER_ACK" /\ name = "waiting" -> to("WAITING_REMOTE")
      [] ctx.state = "WAITING_ENTER_ACK" /\ name \in {"error", "export.error"} ->
           to("ERROR")
      [] ctx.state = "WAITING_REMOTE" /\ name = "captured"
                                      /\ event.session = ctx.session ->
           [ctx |-> [ctx EXCEPT !.state = "EXPORTING"],
            lines |-> <<Line("export", ctx.session)>>]
      [] ctx.state = "EXPORTING" /\ name = "export.done" /\ Assembled(event, ctx) ->
           [ctx |-> [ctx EXCEPT !.state = "EXITING", !.frame = event.frame,
                                !.resent = FALSE],
            lines |-> Cancel(ctx.session)]
      [] ctx.state = "EXPORTING" /\ name \in {"export.begin", "export.done", "export.error"}
                                 /\ ~Assembled(event, ctx) -> to("ERROR")
      [] OTHER -> stay

\* _handle with a flow: what the new state makes the window do.  COMPLETED
\* saves and ERROR cancels again with every event that finds the flow there;
\* a cancelled event outside EXITING drops the flow.
HandleFlow(event) ==
    LET step == FlowStep(flow, event)
        dropped == event.event = "cancelled" /\ flow.state # "EXITING"
        lines == step.lines \o IF step.ctx.state = "ERROR"
                               THEN Cancel(flow.session) ELSE <<>>
    IN  /\ flow' = IF dropped THEN NoFlow ELSE step.ctx
        /\ toDev' = Written(lines)
        /\ loops' = IF Raises(lines) THEN loops \ {"drain"} ELSE loops
        /\ IF step.ctx.state = "COMPLETED" THEN Save(step.ctx)
           ELSE UNCHANGED disk

\* A captured event without a flow, or after its flow failed or was
\* cancelled, makes a new one for the slot clicked last.
Adopts(event) ==
    event.event = "captured" /\ flow.state \in {"none", "ERROR", "CANCELLED"}

HandleEvent ==
    /\ link # "closed" /\ "drain" \in loops /\ toHost # <<>>
    /\ toHost' = Tail(toHost)
    /\ LET event == Head(toHost) IN
         IF Adopts(event)
         THEN /\ flow' = Context(event.session, slot, "EXPORTING")
              /\ toDev' = Written(<<Line("export", event.session)>>)
              /\ loops' = IF link = "gone" THEN loops \ {"drain"} ELSE loops
              /\ UNCHANGED disk
         ELSE IF flow = NoFlow THEN UNCHANGED <<flow, toDev, loops, disk>>
         ELSE HandleFlow(event)
    /\ UNCHANGED <<dev, link, slot, started>>

------------------------------------------------------------------------------
(* _check_timeout, twice a second. *)

\* The exit deadline forgotten.
HasDeadlineNotExiting == flow.state \in Working \ {"EXITING"}

HasDeadline == flow.state \in Working

\* The states a deadline ends, as check_timeout has them.
TimedOut(ctx) ==
    CASE ctx.state = "WAITING_ENTER_ACK" -> "WAITING_REMOTE"
      [] ctx.state = "EXITING" -> IF ctx.frame # NoFrame THEN "COMPLETED"
                                  ELSE "EXIT_UNCONFIRMED"
      [] OTHER -> "ERROR"

\* A deadline passed: COMPLETED is saved, everything else is cancelled, also
\* the learning that only now counts as waiting for the remote.
Deadline ==
    /\ HasDeadline /\ "clock" \in loops
    /\ flow' = [flow EXCEPT !.state = TimedOut(flow)]
    /\ IF TimedOut(flow) = "COMPLETED"
       THEN Save(flow) /\ UNCHANGED <<toDev, loops>>
       ELSE /\ toDev' = Written(Cancel(flow.session))
            /\ loops' = IF link = "gone" THEN loops \ {"clock"} ELSE loops
            /\ UNCHANGED disk
    /\ UNCHANGED <<dev, toHost, link, slot, started>>

\* Two seconds without a reply: the cancel is written once more.
ResendCancel ==
    /\ flow.state = "EXITING" /\ ~flow.resent /\ "clock" \in loops
    /\ flow' = [flow EXCEPT !.resent = TRUE]
    /\ toDev' = Written(Cancel(flow.session))
    /\ loops' = IF link = "gone" THEN loops \ {"clock"} ELSE loops
    /\ UNCHANGED <<dev, toHost, link, slot, started, disk>>

LearnerNext ==
    \/ ConnectLearner \/ DisconnectLearner \/ CancelSlot \/ ResetFlow
    \/ \E i \in Slots : StartSlot(i)
    \/ HandleEvent \/ Unplug \/ SerialError \/ Deadline \/ ResendCancel
    \/ DeviceNext /\ UNCHANGED learnerVars

allLearnerVars == <<deviceVars, learnerVars>>

\* The timeout check runs on a timer of its own.
LearnerFairness == WF_allLearnerVars(Deadline)
LearnerSpec == LearnerInit /\ [][LearnerNext]_allLearnerVars /\ LearnerFairness

------------------------------------------------------------------------------
(* Properties. *)

\* Every capture file holds the frame that was sent in the session its
\* description names, for late answers, resent cancels and adopted captures
\* alike, and the three captures that are compared with each other are three
\* presses of the key: no learning session fills two slots (README: capture
\* 1, 2 and 3 by the same steps).
SlotsDistinct ==
    /\ \A i \in Slots : disk[i].frame = disk[i].session
    /\ \A i, j \in Slots :
         disk[i].session = disk[j].session /\ disk[i] # NoCapture => i = j

\* No capture keeps the window busy for ever: with the device silent in any
\* state the flow ends (capture_flow.handle_event on EXITING: "the flow stuck
\* forever"), as long as no write to a lost port has ended the timeout check.
\* EXIT_UNCONFIRMED waits for the user and is not meant.
FlowEnds ==
    flow.state \in Working ~> flow.state \notin Working \/ "clock" \notin loops

=============================================================================

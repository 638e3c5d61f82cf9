---------------------------- MODULE LearningStudio ----------------------------
(***************************************************************************)
(* The IR Learning Studio at the bench: the window (desktop_app.py), the   *)
(* thread that owns the serial port (SerialIoWorker) and the learning      *)
(* conversation it holds with the device (LearningClient).  The window     *)
(* posts commands into one queue and sets an event flag; the worker puts   *)
(* its events into another, which the window empties ten times a second.   *)
(*                                                                         *)
(* A step of the worker is what it does between two waits.  Waiting for an *)
(* event of a kind discards everything that comes before it.               *)
(***************************************************************************)
EXTENDS LearnDevice, FiniteSets, SequencesExt

CONSTANTS
    UsbIds,     \* whether the worker knows its port for a CH9102, or is in mock
                \* mode; connect_device tells it the port's name only
    MaxPosts    \* bound on the commands posted

ASSUME PostsAssumption == MaxPosts \in Nat

VARIABLES
    win,        \* the window: worker present, learning_active, what it saved
    queue,      \* command_queue
    posted,     \* sequence numbers of the latest command of each kind
    cancelEvent,\* cancel_event
    wk,         \* the worker thread
    evq,        \* event_queue
    confirmed   \* history: the sessions whose exit the module acknowledged

studioVars == <<win, queue, posted, cancelEvent, wk, evq>>

\* started is the last session made by new_session_id, saved what add_capture
\* was called with, closed that the window is gone.
WindowInit == [worker |-> FALSE, active |-> FALSE, started |-> NoSession,
               saved |-> {}, closed |-> FALSE]

\* pc is where the thread waits, then what a cancel it sent is part of, owed
\* that it wrote a begin and no cancel after it.
NoWorker == [pc |-> "none", client |-> FALSE, ready |-> "unknown",
             session |-> NoSession, generation |-> 0, cancelSent |-> FALSE,
             frame |-> NoFrame, then |-> "", exitOk |-> FALSE, stop |-> FALSE,
             owed |-> FALSE]
NothingPosted == [seq |-> 0, cancel |-> 0, disconnect |-> 0]

Waits == {"status", "entering", "remote", "exporting", "exiting", "clearing",
          "cleanup", "cancelling", "cancelled"}

StudioTypeOK ==
    /\ DeviceTypeOK
    /\ win.started \in Sessions \cup {NoSession}
    /\ wk.pc \in Waits \cup {"none", "idle", "checked", "gone"}
    /\ wk.session \in Sessions \cup {NoSession}
    /\ wk.frame \in Sessions \cup {NoFrame}
    /\ \A k \in DOMAIN queue : queue[k].generation \in 1..MaxPosts
    /\ confirmed \subseteq Sessions \cup {NoSession}

StudioInit ==
    /\ DeviceInit
    /\ win = WindowInit
    /\ queue = <<>> /\ evq = <<>>
    /\ posted = NothingPosted
    /\ cancelEvent = FALSE
    /\ wk = NoWorker
    /\ confirmed = {}

Emit(events) == evq' = evq \o events
\* Of the events only those are kept that the window does more with than show
\* them.
Cancelled == [type |-> "CANCELLED"]
Failed == [type |-> "CAPTURE_FAILED"]
Terminated == [type |-> "WORKER_TERMINATED"]
Validated(s, f) == [type |-> "CAPTURE_VALIDATED", session |-> s, frame |-> f]

Write(line) == toDev' = Append(toDev, line)

------------------------------------------------------------------------------
(* The window. *)

\* SerialIoWorker.post: the numbers and the flag before the command itself.
Post(type, s) ==
    LET n == posted.seq + 1 IN
    /\ n <= MaxPosts
    /\ posted' = CASE type = "CANCEL" -> [posted EXCEPT !.seq = n, !.cancel = n]
                   [] type = "DISCONNECT" -> [posted EXCEPT !.seq = n, !.disconnect = n]
                   [] OTHER -> [posted EXCEPT !.seq = n]
    /\ cancelEvent' = (cancelEvent \/ type \in {"CANCEL", "DISCONNECT"})
    /\ queue' = Append(queue, [type |-> type, session |-> s, generation |-> n])

\* connect_device: a new worker with an empty queue of its own.  Its numbers
\* start again in the code; here they go on, for only their order matters.
Connect ==
    /\ ~win.worker /\ ~win.closed
    /\ win' = [win EXCEPT !.worker = TRUE]
    /\ wk' = [NoWorker EXCEPT !.pc = "idle"]
    /\ posted.seq < MaxPosts
    /\ posted' = [NothingPosted EXCEPT !.seq = posted.seq + 1]
    /\ queue' = <<[type |-> "CONNECT", session |-> NoSession,
                    generation |-> posted.seq + 1]>>
    /\ cancelEvent' = FALSE
    /\ UNCHANGED <<evq, deviceVars>>

\* start_capture asks for a worker and for nothing else.
StartCapture ==
    /\ win.worker /\ ~win.closed
    /\ win.started + 1 \in Sessions
    /\ win' = [win EXCEPT !.started = @ + 1, !.active = TRUE]
    /\ Post("BEGIN", win.started + 1)
    /\ UNCHANGED <<wk, evq, deviceVars>>

CancelLearning ==
    /\ win.worker /\ win.active /\ ~win.closed
    /\ win' = [win EXCEPT !.active = FALSE]
    /\ Post("CANCEL", NoSession)
    /\ UNCHANGED <<wk, evq, deviceVars>>

DisconnectDevice ==
    /\ win.worker /\ ~win.closed
    /\ Post("DISCONNECT", NoSession)
    /\ UNCHANGED <<win, wk, evq, deviceVars>>

\* safe_close: the runtime is closed, which does not know the worker, and the
\* program ends; the worker is a daemon thread and ends with it.
SafeClose ==
    /\ ~win.closed
    /\ win' = [win EXCEPT !.closed = TRUE, !.worker = FALSE]
    /\ wk' = NoWorker /\ queue' = <<>> /\ evq' = <<>>
    /\ posted' = NothingPosted /\ cancelEvent' = FALSE
    /\ UNCHANGED deviceVars

\* _handle_worker_event: a validated capture goes to the library state that
\* is selected when its event is handled, and nowhere when none is.
Handled(event, selected) ==
    CASE event.type = "CAPTURE_VALIDATED" ->
           [win EXCEPT !.active = FALSE,
              !.saved = IF ~selected THEN @
                        ELSE @ \cup {[session |-> event.session,
                                      frame |-> event.frame]}]
      [] event.type \in {"CAPTURE_FAILED", "CANCELLED"} -> [win EXCEPT !.active = FALSE]
      [] event.type = "WORKER_TERMINATED" -> [win EXCEPT !.worker = FALSE]
      [] OTHER -> win
DrainEvent ==
    /\ evq # <<>> /\ ~win.closed
    /\ \E selected \in BOOLEAN : win' = Handled(Head(evq), selected)
    /\ evq' = Tail(evq)
    /\ UNCHANGED <<queue, posted, cancelEvent, wk, deviceVars>>

------------------------------------------------------------------------------
(* The worker: reading. *)

\* _read_until took the first event of these kinds and dropped those before.
Comes(k, names) ==
    /\ k \in DOMAIN toHost
    /\ toHost[k].event \in names
    /\ \A j \in 1..(k - 1) : toHost[j].event \notin names
ReadTo(k) == toHost' = SubSeq(toHost, k + 1, Len(toHost))

\* The wait ended with TimeoutError: nothing that has come is of use.
ReadNothing(names) ==
    /\ \A k \in DOMAIN toHost : toHost[k].event \notin names
    /\ toHost' = <<>>

At(pc) == wk.pc = pc
Goto(pc) == wk' = [wk EXCEPT !.pc = pc]

\* The thread between two commands: what its methods kept in locals is gone.
Between == [NoWorker EXCEPT !.pc = "idle", !.client = wk.client,
                            !.ready = wk.ready, !.cancelSent = wk.cancelSent,
                            !.owed = wk.owed]
Return == wk' = Between

\* The exceptions of capture_once only passed on.
RaisesUncancelled == Return /\ Emit(<<Failed>>) /\ UNCHANGED toDev

\* The exceptions of capture_once: with the cancel flag set it is only passed
\* on, without it a cancel is sent before.
CaptureRaises ==
    IF cancelEvent
    THEN /\ Return
         /\ Emit(<<Failed>>)
         /\ UNCHANGED toDev
    ELSE /\ wk' = [wk EXCEPT !.pc = "cleanup", !.owed = FALSE]
         /\ Write(Line("cancel", wk.session))
         /\ UNCHANGED evq

\* A cancel outside capture_once (_cancel_capture, _disconnect): once until
\* the next begin.
SendCancel(then) ==
    IF wk.client /\ ~wk.cancelSent
    THEN /\ wk' = [wk EXCEPT !.pc = "cancelling", !.then = then, !.owed = FALSE]
         /\ Write(Line("cancel", NoSession))
    ELSE /\ wk' = [wk EXCEPT !.pc = "cancelled", !.then = then]
         /\ UNCHANGED toDev

workerOnly == <<win, posted, dev>>

------------------------------------------------------------------------------
(* The worker: commands. *)

Command(type) ==
    /\ At("idle") /\ ~wk.stop /\ queue # <<>>
    /\ Head(queue).type = type
    /\ queue' = Tail(queue)

\* _connect: the port is opened, its input buffer dropped, the status asked
\* for; a port another program holds ends it with an exception.
ConnectPort ==
    /\ Command("CONNECT")
    /\ UNCHANGED <<workerOnly, cancelEvent, evq>>
    /\ \/ /\ wk' = [wk EXCEPT !.client = TRUE, !.pc = "status"]
          /\ Write(Line("status", NoSession))
          /\ toHost' = <<>>
       \/ UNCHANGED <<wk, toDev, toHost>>

\* validate_device_status of an ir-lab device that reports everything it
\* should: what is left to fail is the identity of the port.
HandshakeReady == UsbIds

ReadStatus ==
    /\ At("status")
    /\ UNCHANGED <<workerOnly, cancelEvent, queue, evq, toDev>>
    /\ \/ \E k \in DOMAIN toHost :
            /\ Comes(k, {"status"}) /\ ReadTo(k)
            /\ wk' = [Between EXCEPT !.ready = IF HandshakeReady THEN "yes" ELSE "no"]
       \/ ReadNothing({"status"}) /\ Return

\* _begin_capture up to its last check: a begin that a later cancel or
\* disconnect has overtaken is not carried out.
Superseded(n) == posted.cancel >= n \/ posted.disconnect >= n
CheckBegin ==
    /\ Command("BEGIN")
    /\ UNCHANGED <<workerOnly, cancelEvent, toDev, toHost>>
    /\ IF ~wk.client
       THEN UNCHANGED <<wk, evq>>
       ELSE IF wk.ready # "yes"
       THEN Emit(<<Failed>>) /\ UNCHANGED wk
       ELSE IF Superseded(Head(queue).generation)
       THEN Emit(<<Failed>>) /\ UNCHANGED wk
       ELSE /\ wk' = [wk EXCEPT !.pc = "checked", !.session = Head(queue).session,
                                !.generation = Head(queue).generation]
            /\ UNCHANGED evq

\* The worker as it begins a capture.
Beginning == [wk EXCEPT !.pc = "entering", !.cancelSent = FALSE, !.owed = TRUE]

\* The rest of _begin_capture before the first wait: the flag is cleared
\* unless a cancel came in between; a disconnect that came is not looked at.
BeginCapture ==
    /\ At("checked")
    /\ cancelEvent' = (cancelEvent /\ wk.generation <= posted.cancel)
    /\ wk' = Beginning
    /\ Write(Line("begin", wk.session))
    /\ UNCHANGED <<workerOnly, queue, evq, toHost>>

------------------------------------------------------------------------------
(* The worker: capture_once. *)

\* LearningClient.begin: the waiting event of this very session.
Enter ==
    /\ At("entering")
    /\ UNCHANGED <<workerOnly, queue, cancelEvent>>
    /\ LET mine(k) == toHost[k] = Event("waiting", wk.session) IN
       \/ \E k \in DOMAIN toHost :
            /\ mine(k) /\ ReadTo(k)
            /\ Goto("remote")
            /\ UNCHANGED <<evq, toDev>>
       \/ (\A k \in DOMAIN toHost : ~mine(k)) /\ toHost' = <<>> /\ CaptureRaises

\* The wait for the key looks at the cancel flag before every line.
AwaitRemote ==
    /\ At("remote")
    /\ UNCHANGED <<workerOnly, queue>>
    /\ \/ \E k \in DOMAIN toHost :
            /\ Comes(k, {"captured"}) /\ ReadTo(k)
            /\ Goto("exporting")
            /\ Write(Line("export", wk.session))
            /\ UNCHANGED <<evq, cancelEvent>>
       \/ ReadNothing({"captured"}) /\ CaptureRaises /\ UNCHANGED cancelEvent
       \/ /\ cancelEvent
          /\ SendCancel("interrupted")
          /\ UNCHANGED <<cancelEvent, evq, toHost>>

\* export_capture and ExportAssembler: begin and done of this session, which
\* agree; anything else of an export is an error.
ExportNames == {"export.begin", "export.done", "export.error"}
Exported(k) ==
    /\ toHost[k].event = "export.begin" /\ toHost[k].session = wk.session
    /\ k + 1 \in DOMAIN toHost
    /\ toHost[k + 1] = FrameEvent("export.done", wk.session, toHost[k].frame)
ExportFrame ==
    /\ At("exporting")
    /\ UNCHANGED <<workerOnly, queue, cancelEvent>>
    /\ \/ \E k \in DOMAIN toHost :
            /\ Comes(k, ExportNames)
            /\ IF Exported(k)
               THEN /\ ReadTo(k + 1)
                    /\ wk' = [wk EXCEPT !.pc = "exiting", !.owed = FALSE,
                                        !.frame = toHost[k].frame]
                    /\ Write(Line("cancel", wk.session))
                    /\ UNCHANGED evq
               ELSE ReadTo(k) /\ CaptureRaises
       \/ ReadNothing(ExportNames) /\ CaptureRaises

ExitLearning ==
    /\ At("exiting")
    /\ UNCHANGED <<workerOnly, queue, cancelEvent>>
    /\ \/ \E k \in DOMAIN toHost :
            /\ Comes(k, {"cancelled"}) /\ ReadTo(k)
            /\ wk' = [wk EXCEPT !.pc = "clearing",
                                !.exitOk = toHost[k].exitConfirmed]
            /\ Write(Line("clear", NoSession))
            /\ UNCHANGED evq
       \/ ReadNothing({"cancelled"}) /\ CaptureRaises

\* Validated in spite of an exit the module did not confirm.
OutcomeUnchecked(ok) == Validated(wk.session, wk.frame)

\* What _begin_capture reports of a capture that came to its end.
Outcome(ok) == IF ok THEN Validated(wk.session, wk.frame)
               ELSE Failed
FinishCapture ==
    /\ At("clearing")
    /\ UNCHANGED <<workerOnly, queue, cancelEvent>>
    /\ \/ \E k \in DOMAIN toHost :
            /\ Comes(k, {"cleared"}) /\ ReadTo(k)
            /\ Return
            /\ Emit(<<Outcome(wk.exitOk)>>)
            /\ UNCHANGED toDev
       \/ ReadNothing({"cleared"}) /\ CaptureRaises

\* The cancel sent for an exception: what becomes of it is not looked at.
Cleanup ==
    /\ At("cleanup")
    /\ \/ \E k \in DOMAIN toHost : Comes(k, {"cancelled"}) /\ ReadTo(k)
       \/ ReadNothing({"cancelled"})
    /\ Return
    /\ Emit(<<Failed>>)
    /\ UNCHANGED <<workerOnly, queue, cancelEvent, toDev>>

------------------------------------------------------------------------------
(* The worker: cancel, disconnect and the end of the thread. *)

CancelCapture ==
    /\ Command("CANCEL")
    /\ cancelEvent' = TRUE
    /\ SendCancel("cancel")
    /\ UNCHANGED <<workerOnly, evq, toHost>>

Disconnect ==
    /\ Command("DISCONNECT")
    /\ cancelEvent' = TRUE
    /\ SendCancel("disconnect")
    /\ UNCHANGED <<workerOnly, evq, toHost>>

AwaitCancelled ==
    /\ At("cancelling")
    /\ \/ \E k \in DOMAIN toHost :
            /\ Comes(k, {"cancelled"}) /\ ReadTo(k)
            /\ wk' = [wk EXCEPT !.pc = "cancelled", !.cancelSent = TRUE]
       \/ ReadNothing({"cancelled"}) /\ Goto("cancelled")
    /\ UNCHANGED <<workerOnly, queue, cancelEvent, evq, toDev>>

\* The loop not asked to end.
AfterDisconnectGoesOn == [Between EXCEPT !.client = FALSE]

\* _disconnect after its cancel: the port closed, the loop asked to end.
AfterDisconnect == [Between EXCEPT !.client = FALSE, !.stop = TRUE]

\* What comes after the cancel: an interrupted capture reports it twice.
AfterCancel ==
    /\ At("cancelled")
    /\ wk' = IF wk.then = "disconnect" THEN AfterDisconnect ELSE Between
    /\ cancelEvent' = TRUE
    /\ Emit(CASE wk.then = "disconnect" -> <<>>
              [] wk.then = "cancel" -> <<Cancelled>>
              [] OTHER -> <<Cancelled, Cancelled>>)
    /\ UNCHANGED <<workerOnly, queue, toDev, toHost>>

\* The loop has ended: _clean_exit finds no client, _safe_close reports.
Terminate ==
    /\ At("idle") /\ wk.stop
    /\ Goto("gone")
    /\ Emit(<<Terminated>>)
    /\ UNCHANGED <<workerOnly, queue, cancelEvent, toDev, toHost>>

WorkerNext ==
    \/ ConnectPort \/ ReadStatus
    \/ CheckBegin \/ BeginCapture \/ Enter \/ AwaitRemote \/ ExportFrame
    \/ ExitLearning \/ FinishCapture \/ Cleanup
    \/ CancelCapture \/ Disconnect \/ AwaitCancelled \/ AfterCancel \/ Terminate

WindowNext ==
    \/ Connect \/ StartCapture \/ CancelLearning \/ DisconnectDevice \/ SafeClose
    \/ DrainEvent

\* Note, for ValidatedTruth, what the module acknowledged in a reply to a
\* cancel.
NoteExit ==
    confirmed' = LET last == Last(toHost') IN
        IF toHost' # toHost /\ last.event = "cancelled" /\ last.exitConfirmed
        THEN confirmed \cup {last.session} ELSE confirmed

StudioNext ==
    \/ WorkerNext /\ UNCHANGED confirmed
    \/ WindowNext /\ UNCHANGED confirmed
    \/ DeviceNext /\ NoteExit /\ UNCHANGED studioVars

allStudioVars == <<deviceVars, studioVars, confirmed>>

\* Every wait of the worker has a deadline, the window empties its queue on a
\* timer, the device runs its loop.
StudioFairness ==
    /\ WF_allStudioVars(WorkerNext /\ UNCHANGED confirmed)
    /\ WF_allStudioVars(DrainEvent /\ UNCHANGED confirmed)

StudioSpec == StudioInit /\ [][StudioNext]_allStudioVars /\ StudioFairness

------------------------------------------------------------------------------
(* Properties. *)

ValidatedEvents == {e \in {evq[k] : k \in DOMAIN evq} : e.type = "CAPTURE_VALIDATED"}

\* A frame reported as validated, and one saved, is the one the remote control
\* sent in that session, however late the answers of an earlier session come
\* (they are told apart by the waiting event's session id and the order of the
\* line, for the waits after it look at the kind of event only), and the
\* module had confirmed, in the reply to that session's own cancel, that it
\* left learning mode (_begin_capture: "Verify exit confirmation before
\* emitting").
ValidatedTruth ==
    LET Sound(c) == c.frame = c.session /\ c.session \in confirmed IN
    /\ \A e \in ValidatedEvents : Sound(e)
    /\ \A r \in win.saved : Sound(r)

\* A worker that waits for commands or has ended owes the device no exit: a
\* begin it wrote was followed by a cancel, or the command that will send one
\* is in its queue ("DISCONNECT performs safe 21H exit").
NoLearningAbandoned ==
    wk.pc \in {"idle", "gone"} /\ wk.owed =>
        /\ wk.pc = "idle"
        /\ \E k \in DOMAIN queue : queue[k].type \in {"CANCEL", "DISCONNECT"}

\* A disconnect always gets through, whatever the worker waits for when it is
\* posted: the worker terminates and the window lets go of it, unless the
\* window itself is closed first (SerialIoWorker: "DISCONNECT performs safe
\* 21H exit, closes serial, signals WORKER_TERMINATED").
DisconnectEnds ==
    win.worker /\ posted.disconnect > 0 ~> ~win.worker

=============================================================================

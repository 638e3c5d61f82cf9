----------------------------- MODULE CaptureStudio -----------------------------
(***************************************************************************)
(* The IR Capture Studio: the window of ir_capture_studio/app.py on the    *)
(* simulated device (REAL_SERIAL_ACCESS_ALLOWED is False), the thread that *)
(* carries out one capture, and the session directories of its storage.py. *)
(* Every file is written on its own, any write may fail, and the thread is *)
(* a daemon: closing the window ends it between two writes.                *)
(***************************************************************************)
EXTENDS Naturals, Sequences, FiniteSets

CONSTANTS
    Target,     \* captureCount of a task
    MaxTasks,   \* bound on the tasks built
    MaxTries    \* bound on the attempts of a task

\* _read_form clamps the count to 1..20.
ASSUME CaptureAssumption ==
    Target \in Nat \ {0} /\ MaxTasks \in Nat /\ MaxTries \in Nat

VARIABLES
    app,        \* the window: the task, its counters, the flags
    thread,     \* the capture thread
    cancelled,  \* the _cancel event of the backend
    results,    \* what the thread put into the queue
    dirs        \* session directory -> sample number -> its files

captureVars == <<app, thread, cancelled, results, dirs>>

DirNames == 1..MaxTasks
Samples == 1..Target
NoFiles == [bin |-> 0, json |-> <<"none", 0>>, row |-> "none"]
NoThread == [pc |-> "none", dir |-> 0, sample |-> 0, try |-> 0]
Steps == {"checking", "learning", "waiting", "bin", "json", "text", "manifest",
          "final", "failJson", "failManifest"}

\* bin is the attempt whose frame the .bin holds, json its result and its
\* attempt, row the result in the last row manifest.csv has for the sample.
CaptureTypeOK ==
    /\ app.dir \in 0..MaxTasks /\ app.valid \in 0..Target
    /\ app.sample \in 0..Target
    /\ thread.pc \in Steps \cup {"none"}
    /\ thread.dir \in 0..MaxTasks /\ thread.sample \in 0..Target
    /\ cancelled \in BOOLEAN
    /\ dirs \in [DirNames -> [Samples -> [bin : 0..(MaxTasks * MaxTries),
          json : {"none", "success", "failed"} \X (0..(MaxTasks * MaxTries)),
          row : {"none", "success", "failed"}]]]

\* counted are the samples _on_success counted, as directory, number, attempt.
CaptureInit ==
    /\ app = [dir |-> 0, valid |-> 0, sample |-> 0, attempts |-> 0, failed |-> 0,
              tries |-> 0, capturing |-> FALSE, exiting |-> FALSE, counted |-> {}]
    /\ thread = NoThread
    /\ cancelled = FALSE
    /\ results = <<>>
    /\ dirs = [d \in DirNames |-> [s \in Samples |-> NoFiles]]

------------------------------------------------------------------------------
(* The window. *)

\* safe_session_dir: a name that is taken gets the next free suffix.
MadeDirs == app.dir
FreeDir == MadeDirs + 1

\* build_task
BuildTask ==
    /\ ~app.capturing /\ ~app.exiting
    /\ FreeDir \in DirNames
    /\ app' = [app EXCEPT !.dir = FreeDir, !.valid = 0, !.attempts = 0,
                          !.failed = 0, !.sample = 1]
    /\ UNCHANGED <<thread, cancelled, results, dirs>>

\* start_capture: the button is off while a capture runs and when the target
\* is reached.
StartCapturing ==
    /\ app.dir # 0 /\ ~app.capturing /\ ~app.exiting
    /\ app.valid < Target
    /\ app.attempts < MaxTries
    /\ app' = [app EXCEPT !.capturing = TRUE, !.attempts = @ + 1, !.tries = @ + 1]
    /\ cancelled' = FALSE
    /\ thread' = [pc |-> "checking", dir |-> app.dir, sample |-> app.sample,
                  try |-> app.tries + 1]
    /\ UNCHANGED <<results, dirs>>

CancelWait ==
    /\ app.capturing /\ ~app.exiting /\ ~cancelled
    /\ cancelled' = TRUE
    /\ UNCHANGED <<app, thread, results, dirs>>

\* _on_success: counted, and the next number only now.
Succeeded(r) ==
    [app EXCEPT !.valid = @ + 1, !.capturing = FALSE,
                !.sample = IF app.valid + 1 < Target THEN @ + 1 ELSE @,
                !.counted = @ \cup {<<r.dir, r.sample, r.try>>}]
\* _poll_queue, _on_fail
PollQueue ==
    /\ results # <<>> /\ ~app.exiting
    /\ app' = IF Head(results).ok THEN Succeeded(Head(results))
              ELSE [app EXCEPT !.failed = @ + 1, !.capturing = FALSE]
    /\ results' = Tail(results)
    /\ UNCHANGED <<thread, cancelled, dirs>>

\* safe_exit joins self.worker, which nothing assigns: the program ends and
\* the daemon thread with it.
SafeExit ==
    /\ ~app.exiting
    /\ app' = [app EXCEPT !.exiting = TRUE]
    /\ thread' = NoThread
    /\ UNCHANGED <<cancelled, results, dirs>>

------------------------------------------------------------------------------
(* The thread: _worker, save_capture, save_failed. *)

Goes(pc) == thread' = [thread EXCEPT !.pc = pc]
Keep == UNCHANGED <<app, cancelled, results>>

\* The waits look at the flag; once the frame is there it is saved.
Waiting ==
    /\ thread.pc \in {"checking", "learning", "waiting"}
    /\ IF cancelled THEN Goes("failJson")
       ELSE Goes([checking |-> "learning", learning |-> "waiting",
                  waiting |-> "bin"][thread.pc])
    /\ Keep /\ UNCHANGED dirs

Store(files) ==
    dirs' = [dirs EXCEPT ![thread.dir][thread.sample] = files]
Files == dirs[thread.dir][thread.sample]

\* A write of save_capture, in its order: BIN, JSON, text and serial log, a
\* row of the manifest, the JSON again with all hashes.  A file being written
\* over is empty first.
SavedFile(pc) ==
    CASE pc = "bin" -> [Files EXCEPT !.bin = thread.try]
      [] pc \in {"json", "final"} -> [Files EXCEPT !.json = <<"success", thread.try>>]
      [] pc = "manifest" -> [Files EXCEPT !.row = "success"]
      [] pc = "text" -> Files
AfterSaved == [bin |-> "json", json |-> "text", text |-> "manifest",
               manifest |-> "final", final |-> "none"]

SaveStep ==
    /\ thread.pc \in DOMAIN AfterSaved
    /\ Store(SavedFile(thread.pc))
    /\ thread' = IF thread.pc = "final" THEN NoThread
                 ELSE [thread EXCEPT !.pc = AfterSaved[thread.pc]]
    /\ results' = IF thread.pc # "final" THEN results
                  ELSE Append(results, [ok |-> TRUE, dir |-> thread.dir,
                                sample |-> thread.sample, try |-> thread.try])
    /\ UNCHANGED <<app, cancelled>>

\* file_write_failure: what was written stays.
SaveFails ==
    /\ thread.pc \in DOMAIN AfterSaved
    /\ Goes("failJson")
    /\ dirs' = dirs
    /\ Keep

\* save_failed: a JSON that says so and a row; its own failure is only logged.
FailStep ==
    /\ thread.pc \in {"failJson", "failManifest"}
    /\ \/ /\ thread.pc = "failJson"
          /\ Store([Files EXCEPT !.json = <<"failed", thread.try>>])
          /\ Goes("failManifest")
          /\ UNCHANGED results
       \/ /\ Store(IF thread.pc = "failManifest"
                   THEN [Files EXCEPT !.row = "failed"] ELSE Files)
          /\ thread' = NoThread
          /\ results' = Append(results, [ok |-> FALSE])
    /\ UNCHANGED <<app, cancelled>>

CaptureNext ==
    \/ BuildTask \/ StartCapturing \/ CancelWait \/ PollQueue \/ SafeExit
    \/ Waiting \/ SaveStep \/ SaveFails \/ FailStep

CaptureSpec == CaptureInit /\ [][CaptureNext]_captureVars

------------------------------------------------------------------------------
(* Properties. *)

\* A sample the window counted stays what it was: its .bin and its .json are
\* those of the attempt that was counted and its last manifest row says
\* success, whatever failed, was cancelled or was built after it (README: 失败
\* 不计入有效; safe_session_dir: 绝不覆盖).
CountedComplete ==
    /\ \A c \in app.counted :
         LET files == dirs[c[1]][c[2]] IN
         /\ files.bin = c[3]
         /\ files.json = <<"success", c[3]>>
         /\ files.row = "success"
    /\ app.valid = Cardinality({c \in app.counted : c[1] = app.dir})

=============================================================================

---------------------------- MODULE CaptureConsole ----------------------------
(***************************************************************************)
(* ir_capture_console.py: the loop of repeated captures in a terminal.     *)
(* The parsing, the gate and the saving are capture_repeat's, which is not *)
(* in the repository; they are modelled by how the console uses them.      *)
(* One step is what happens between two questions to the user.             *)
(***************************************************************************)
EXTENDS Integers, FiniteSets

CONSTANTS
    Wanted,       \* --count
    FirstIndex,   \* --start-index
    MaxAttempts   \* bound on the captures tried in a run

ASSUME ConsoleAssumption ==
    Wanted \in Nat /\ FirstIndex \in Int /\ MaxAttempts \in Nat

VARIABLES
    loop,         \* the locals of run_loop and what it will report
    bins,         \* capture number -> its .bin: "none", "sound", "damaged"
    learning      \* the firmware's learning window: "closed" or "open"

consoleVars == <<loop, bins, learning>>

LastIndex == FirstIndex + Wanted - 1
Numbers == FirstIndex..LastIndex
OnDisk == {i \in Numbers : bins[i] # "none"}

ConsoleTypeOK ==
    /\ loop.pc \in {"start", "round", "capture", "armed", "failed", "end"}
    /\ loop.idx \in FirstIndex..(LastIndex + 1)
    /\ loop.valid \in 0..Wanted
    /\ loop.attempts \in 0..MaxAttempts /\ loop.failed \in 0..MaxAttempts
    /\ bins \in [Numbers -> {"none", "sound", "damaged"}]
    /\ learning \in {"closed", "open"}

\* Files of earlier runs may be there.
ConsoleInit ==
    /\ loop = [pc |-> "start", idx |-> FirstIndex, valid |-> 0, attempts |-> 0,
               failed |-> 0, kept |-> {}, interrupted |-> FALSE]
    /\ bins \in [Numbers -> {"none", "sound", "damaged"}]
    /\ learning = "closed"

Leave(interrupted) == [loop EXCEPT !.pc = "end", !.interrupted = interrupted]

\* main and gate_check: a port, its exclusive use, an idle module that
\* answers at 19200 baud, a directory to write to.
GateCheck ==
    /\ loop.pc = "start"
    /\ \E pass \in BOOLEAN :
         loop' = IF pass THEN [loop EXCEPT !.pc = "round"] ELSE Leave(FALSE)
    /\ UNCHANGED <<bins, learning>>

RoundLeft == loop.valid < Wanted /\ loop.idx <= LastIndex
Taken == bins[loop.idx] # "none"

\* The number not advanced: the same file is asked about, and counted, again.
KeptAgain == [loop EXCEPT !.valid = @ + 1, !.kept = @ \cup {loop.idx}]

\* K: a file that is there counts as a valid capture; its bytes are not read.
Kept == [loop EXCEPT !.valid = @ + 1, !.idx = @ + 1, !.kept = @ \cup {loop.idx}]
\* The top of the loop: check_existing, then the question.
Round ==
    /\ loop.pc = "round"
    /\ loop' \in IF ~RoundLeft THEN {Leave(FALSE)}
                 ELSE IF Taken
                 THEN {Kept, Leave(FALSE), [loop EXCEPT !.pc = "capture"]}
                 ELSE {[loop EXCEPT !.pc = "capture"]}
    /\ UNCHANGED <<bins, learning>>

\* capture_one: a busy module, or a learning mode that the firmware refuses,
\* ends the attempt; without an answer the user is asked to press the key all
\* the same.
Attempt ==
    /\ loop.pc = "capture" /\ loop.attempts < MaxAttempts
    /\ \/ /\ loop' = [loop EXCEPT !.pc = "armed", !.attempts = @ + 1]
          /\ learning' \in {"open", learning}
       \/ /\ loop' = [loop EXCEPT !.pc = "failed", !.attempts = @ + 1,
                                  !.failed = @ + 1]
          /\ UNCHANGED learning
    /\ UNCHANGED bins

\* A frame that passes integrity_gate is saved under the number, over what was
\* there, and the number is done with.
Captured ==
    /\ loop.pc = "armed" /\ learning = "open"
    /\ bins' = [bins EXCEPT ![loop.idx] = "sound"]
    /\ loop' = [loop EXCEPT !.pc = "round", !.valid = @ + 1, !.idx = @ + 1]
    /\ learning' = "closed"

\* An exception of the saving is not caught; what was written stays.
SavingFails ==
    /\ loop.pc = "armed" /\ learning = "open"
    /\ \E left \in {bins[loop.idx], "damaged"} : bins' = [bins EXCEPT ![loop.idx] = left]
    /\ loop' = Leave(TRUE)
    /\ learning' = "closed"

\* The firmware gave up, no line came in time, or the gate refused the frame.
NotCaptured ==
    /\ loop.pc = "armed"
    /\ loop' = [loop EXCEPT !.pc = "failed", !.failed = @ + 1]
    /\ learning' \in {"closed", learning}
    /\ UNCHANGED bins

\* R, or anything else: the same number again.  S and Q end the loop.
AfterFailure ==
    /\ loop.pc = "failed"
    /\ loop' \in {[loop EXCEPT !.pc = "round"], Leave(FALSE)}
    /\ UNCHANGED <<bins, learning>>

\* Ctrl+C, at any question and in any wait.
Interrupt ==
    /\ loop.pc \in {"round", "capture", "armed", "failed"}
    /\ loop' = Leave(TRUE)
    /\ UNCHANGED <<bins, learning>>

\* The firmware's own learning timeout, 30 s.
WindowCloses ==
    /\ learning = "open" /\ loop.pc # "armed"
    /\ learning' = "closed"
    /\ UNCHANGED <<loop, bins>>

ConsoleNext ==
    \/ GateCheck \/ Round \/ Attempt \/ Captured \/ SavingFails \/ NotCaptured
    \/ AfterFailure \/ Interrupt \/ WindowCloses

ConsoleSpec == ConsoleInit /\ [][ConsoleNext]_consoleVars

------------------------------------------------------------------------------
(* Properties. *)

\* The console never reports more valid captures than there are capture files
\* of its own numbers, and each it did not keep unread is a sound one, however
\* many numbers were kept, retried, failed or cut off (_finalize counts the
\* files again for this reason).
KeptOrSound ==
    /\ loop.valid <= Cardinality(OnDisk)
    /\ \A i \in FirstIndex..(loop.idx - 1) : i \in loop.kept \/ bins[i] = "sound"

=============================================================================

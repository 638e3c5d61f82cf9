------------------------------ MODULE ReplayOnce ------------------------------
(***************************************************************************)
(* ir_replay_once.py: one authorised replay of a captured frame.  The      *)
(* frame goes to the device in chunks ("ir extload"), is committed, is     *)
(* read back, and is sent only when the echo is the frame.  There are no   *)
(* sequence numbers: a chunk whose answer is missing is written again, and *)
(* the staging buffer of the device may hold what an earlier program left. *)
(*                                                                         *)
(* The device may read a line late, not at all, or damaged; its answer may *)
(* be lost between log lines.  send_cmd empties the input buffer before it *)
(* writes, and still may meet the answer to the line before.               *)
(***************************************************************************)
EXTENDS Naturals, Sequences, FiniteSets

CONSTANTS
    Chunks,     \* the number of chunks of the candidate, at least 1
    MaxStage    \* chunks that fit into the staging buffer (IR_MAX_FRAME)

ASSUME ReplayAssumption == Chunks \in Nat \ {0} /\ MaxStage \in Nat \ {0}

VARIABLES
    host,       \* the program: where it is, the chunk, the tries
    cable,      \* command lines on their way, answers on their way back
    ram         \* the device: staging buffer, committed frame, frames sent

replayVars == <<host, cable, ram>>

\* A chunk of the candidate is its number; Damaged is any other content.
Damaged == 0
Candidate == [k \in 1..Chunks |-> k]
Leftovers == {<<>>, <<1>>, <<Damaged>>}
MaxTries == 3

ReplayTypeOK ==
    /\ host.pc \in {"gate", "query", "load", "commit", "send", "done"}
    /\ host.chunk \in 1..(Chunks + 1) /\ host.tries \in 0..MaxTries
    /\ ram.staged \in Seq(0..Chunks) /\ Len(ram.staged) <= MaxStage
    /\ \A k \in DOMAIN ram.sent : ram.sent[k] \in Seq(0..Chunks)

ReplayInit ==
    /\ host = [pc |-> "gate", mode |-> "unknown", chunk |-> 1, tries |-> 0,
               waiting |-> FALSE, code |-> "none"]
    /\ cable = [down |-> <<>>, up |-> <<>>]
    /\ \E left, old \in Leftovers :
         ram = [staged |-> left, committed |-> old, sent |-> <<>>]

------------------------------------------------------------------------------
(* The device. *)

\* The room in the buffer unchecked.
AppendedUnchecked(c) == [ram EXCEPT !.staged = Append(@, c)]

\* extLoadAppend refuses what does not fit and keeps what is there.
Appended(c) ==
    IF Len(ram.staged) < MaxStage THEN [ram EXCEPT !.staged = Append(@, c)] ELSE ram
AppendAnswer == IF Len(ram.staged) < MaxStage THEN "append" ELSE "fail"

\* extLoadCommit copies the staging buffer over the learned frame and empties
\* it; it does not look at the frame itself.
Committed == IF ram.staged = <<>> THEN ram
             ELSE [ram EXCEPT !.committed = ram.staged, !.staged = <<>>]
CommitAnswer ==
    IF ram.staged = <<>> THEN [kind |-> "fail"]
    ELSE [kind |-> "echo", frame |-> ram.staged]

\* doIrExtLoad, extSendCaptured: one command line, one answer.  A build
\* without mutating commands sends nothing.
DeviceLine ==
    /\ cable.down # <<>>
    /\ LET line == Head(cable.down)
           reply(device, answer) ==
             /\ ram' = device
             /\ \E lost \in BOOLEAN :
                  cable' = [down |-> Tail(cable.down),
                            up |-> IF lost THEN cable.up ELSE Append(cable.up, answer)]
       IN  \/ /\ line.cmd = "append"
              /\ \E c \in {line.chunk, Damaged} :
                   reply(Appended(c), [kind |-> AppendAnswer])
           \/ line.cmd = "commit" /\ reply(Committed, CommitAnswer)
           \/ /\ line.cmd = "send"
              /\ \/ reply(ram, [kind |-> "not sent"])
                 \/ /\ ram.committed # <<>>
                    /\ reply([ram EXCEPT !.sent = Append(@, ram.committed)],
                             [kind |-> "requested"])
    /\ UNCHANGED host

\* A line the command loop does not get to read.
DropLine ==
    /\ cable.down # <<>>
    /\ cable' = [cable EXCEPT !.down = Tail(@)]
    /\ UNCHANGED <<host, ram>>

------------------------------------------------------------------------------
(* The program. *)

\* main up to the port: the frame's own structure, then which of the two
\* phases was asked for.  Opening the port may reset the device.
AfterGate(mode) == [none |-> "done", verify |-> "load", authorize |-> "query"][mode]
Gate ==
    /\ host.pc = "gate"
    /\ \E ok \in BOOLEAN, mode \in {"none", "verify", "authorize"} :
         host' = [host EXCEPT !.pc = IF ok THEN AfterGate(mode) ELSE "done",
                              !.mode = mode]
    /\ ram' \in {ram, [ram EXCEPT !.staged = <<>>, !.committed = <<>>]}
    /\ UNCHANGED cable

\* module_query_ok of an authorised replay.
ModuleQuery ==
    /\ host.pc = "query"
    /\ \E pc \in {"load", "done"} : host' = [host EXCEPT !.pc = pc]
    /\ UNCHANGED <<cable, ram>>

ReplayCommand(pc) ==
    CASE pc = "load" -> [cmd |-> "append", chunk |-> host.chunk]
      [] pc = "commit" -> [cmd |-> "commit"]
      [] pc = "send" -> [cmd |-> "send"]

\* send_cmd: input buffer emptied, line written.  "ir extsend" is written
\* once; the others up to three times.
Tries(pc) == IF pc = "send" THEN 1 ELSE MaxTries
SendCmd ==
    /\ host.pc \in {"load", "commit", "send"} /\ ~host.waiting
    /\ host.tries < Tries(host.pc)
    /\ cable' = [down |-> Append(cable.down, ReplayCommand(host.pc)), up |-> <<>>]
    /\ host' = [host EXCEPT !.waiting = TRUE, !.tries = @ + 1]
    /\ UNCHANGED ram

\* The answer that ends the wait with what the program was waiting for.
NextChunk ==
    IF host.chunk < Chunks
    THEN [host EXCEPT !.chunk = @ + 1, !.tries = 0, !.waiting = FALSE]
    ELSE [host EXCEPT !.pc = "commit", !.tries = 0, !.waiting = FALSE]
Stop(code) == [host EXCEPT !.pc = "done", !.waiting = FALSE, !.code = code]

\* load_and_verify and main: only an authorised replay whose echo is the
\* candidate goes on to extsend.
EchoSameLength(frame) == Len(frame) = Chunks
EchoIdentical(frame) == frame = Candidate
Verified(frame) ==
    IF host.mode = "verify" THEN Stop("verified")
    ELSE IF EchoIdentical(frame)
    THEN [host EXCEPT !.pc = "send", !.tries = 0, !.waiting = FALSE]
    ELSE Stop("mismatch")

ReadAnswer ==
    /\ host.waiting /\ cable.up # <<>>
    /\ LET answer == Head(cable.up) IN
         host' = CASE answer.kind = "append" /\ host.pc = "load" -> NextChunk
                   [] answer.kind = "echo" /\ host.pc = "commit" -> Verified(answer.frame)
                   [] answer.kind = "requested" /\ host.pc = "send" -> Stop("sent")
                   [] answer.kind = "not sent" /\ host.pc = "send" -> Stop("sent")
                   [] answer.kind = "fail" /\ host.pc # "send" ->
                        [host EXCEPT !.waiting = FALSE]
                   [] OTHER -> host
    /\ cable' = [cable EXCEPT !.up = Tail(@)]
    /\ UNCHANGED ram

\* The wait of send_cmd is over.  After extsend the program reports one
\* transmission whether it was acknowledged or not.
NoAnswer ==
    /\ host.waiting
    /\ host' = IF host.pc = "send" THEN Stop("sent")
               ELSE [host EXCEPT !.waiting = FALSE]
    /\ UNCHANGED <<cable, ram>>

\* An echo that cannot be parsed, or whose length line is missing, ends the
\* program without another try.
BadEcho ==
    /\ host.waiting /\ host.pc = "commit"
    /\ \E k \in DOMAIN cable.up : cable.up[k].kind = "echo"
    /\ host' = Stop("load failed")
    /\ UNCHANGED <<cable, ram>>

GiveUp ==
    /\ host.pc \in {"load", "commit"} /\ ~host.waiting /\ host.tries = MaxTries
    /\ host' = Stop("load failed")
    /\ UNCHANGED <<cable, ram>>

ReplayNext ==
    \/ Gate \/ ModuleQuery \/ SendCmd \/ ReadAnswer \/ NoAnswer \/ BadEcho \/ GiveUp
    \/ DeviceLine \/ DropLine

ReplaySpec == ReplayInit /\ [][ReplayNext]_replayVars

------------------------------------------------------------------------------
(* Properties. *)

\* What the infrared module is told to send is the candidate's frame, at most
\* once, and only in an authorised run: no retried chunk, late answer, damaged
\* line or leftover of an earlier program gets past the read-back
\* (IR_TRANSMIT_AUTO_RETRY_DISABLED, LOAD_CHAIN_BYTE_MISMATCH).
EmittedIsCandidate ==
    /\ Len(ram.sent) <= 1
    /\ ram.sent # <<>> => host.mode = "authorize" /\ ram.sent[1] = Candidate

=============================================================================

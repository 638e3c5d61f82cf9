----------------------------- MODULE LearnedStates -----------------------------
(***************************************************************************)
(* From a learned capture to the table the firmware is built with: the     *)
(* form of the Simple Learner and the files it keeps of each               *)
(* air-conditioner state (simple_ir_learner.py, storage.py), and the two  *)
(* generators that turn such files into C, gen_ir_state_registry.py for    *)
(* the table and gen_ir_code.py for the one frame of capture 002.          *)
(*                                                                         *)
(* The window keeps its captures when another state is chosen in the form, *)
(* so the frame made canonical for one state may be a capture of another;  *)
(* the generators run at any time beside it.  A frame is the number of the *)
(* capture that brought it; whatever is derived from it (length, SHA-256)  *)
(* is that number too.                                                     *)
(***************************************************************************)
EXTENDS Naturals, Sequences, FiniteSets, SequencesExt

CONSTANTS
    States,       \* STATES of the generator, also the presets of the form
    KeepSlots,    \* capture slots, 1 to 3 in the program
    MaxFrames     \* bound on the captures of one execution

ASSUME LearnedAssumption == IsFiniteSet(States) /\ MaxFrames \in Nat

VARIABLES
    form,         \* code_id_var: the state chosen in the form
    shown,        \* captures: slot -> frame, NoFrameYet before one was saved
    todo,         \* the files the button or event being handled still writes
    owner,        \* for each frame, the state whose directory it was saved in
    folders,      \* state -> its files
    gen,          \* gen_ir_state_registry.py
    table,        \* ir_library_generated.inc
    fixed         \* capture 002: its files, and what gen_ir_code.py made

windowVars == <<form, shown, todo, owner, folders>>
learnedVars == <<windowVars, gen, table, fixed>>

NoFrameYet == 0
FrameNumbers == 1..MaxFrames
NotChosen == [source |-> 0, sha |-> NoFrameYet]
NoTable == [kind |-> "none", frames |-> <<>>]
EmptyDir == [described |-> FALSE, bins |-> [i \in KeepSlots |-> NoFrameYet],
             canonicalBin |-> NoFrameYet, canonicalJson |-> NotChosen]
IdleGen == [pc |-> "idle", at |-> 1, json |-> NotChosen, data |-> NoFrameYet,
            entries |-> <<>>]

\* The states in the order of the generator's list.
STATES == SetToSeq(States)

LearnedTypeOK ==
    /\ form \in States
    /\ shown \in [KeepSlots -> 0..MaxFrames]
    /\ owner \in Seq(States)
    /\ \A s \in States : folders[s].canonicalBin \in 0..Len(owner)
    /\ gen.pc \in {"idle", "json", "bin", "source", "emit", "written"}
    /\ gen.at \in 1..(Len(STATES) + 1)
    /\ table.kind \in {"none", "torn", "whole"}
    /\ table.frames \in Seq(FrameNumbers)

LearnedInit ==
    /\ form \in States
    /\ shown = [i \in KeepSlots |-> NoFrameYet]
    /\ todo = <<>>
    /\ owner = <<>>
    /\ folders = [s \in States |-> EmptyDir]
    /\ gen = IdleGen
    /\ table = NoTable
    /\ \E listed \in {{}, {1}} :
         fixed = [bin |-> 1, listed |-> listed, source |-> 0, pc |-> "idle",
                  data |-> 0, shas |-> {}, match |-> "none"]

------------------------------------------------------------------------------
(* The window. *)

\* _on_preset: the fields of the form, nothing else.
OnPreset(s) ==
    /\ todo = <<>>
    /\ form' = s
    /\ UNCHANGED <<shown, todo, owner, folders, gen, table, fixed>>

\* One file, as atomic_write_bytes leaves it.
Put(s, file, slot, value) == [state |-> s, file |-> file, slot |-> slot, value |-> value]

\* _save_state: the fields of the form, under its state.  The class has two
\* methods of this name; this is the second, which is the one that counts.
SaveState(i, n) == Put(form, "state.json", i, n)

\* _do_save of a completed capture: state.json, the capture and its
\* description under the state the form shows now; then the window's slot.
DoSave(i) ==
    /\ todo = <<>>
    /\ Len(owner) < MaxFrames
    /\ LET n == Len(owner) + 1 IN
         todo' = <<SaveState(i, n), Put(form, "capture.bin", i, n),
                   Put(form, "capture.json", i, n), Put(form, "window", i, n)>>
    /\ owner' = Append(owner, form)
    /\ UNCHANGED <<form, shown, folders, gen, table, fixed>>

\* _approve: canonical.bin, then canonical.json, of the chosen slot's frame as
\* the window has it.
Approve(i) ==
    /\ todo = <<>>
    /\ shown[i] # NoFrameYet
    /\ todo' = <<Put(form, "canonical.bin", i, shown[i]),
                 Put(form, "canonical.json", i, shown[i])>>
    /\ UNCHANGED <<form, shown, owner, folders, gen, table, fixed>>

\* _compare: the captures of the window, whatever they were captured for, into
\* the comparison of the state in the form.
Compare ==
    /\ todo = <<>>
    /\ Cardinality({i \in KeepSlots : shown[i] # NoFrameYet}) >= 2
    /\ todo' = <<Put(form, "comparison.json", 1, NoFrameYet)>>
    /\ UNCHANGED <<form, shown, owner, folders, gen, table, fixed>>

\* What a write leaves in the directory; comparison.json and capture.json are
\* read by nobody here.
AfterPut(d, w) ==
    CASE w.file = "state.json" -> [d EXCEPT !.described = TRUE]
      [] w.file = "capture.bin" -> [d EXCEPT !.bins[w.slot] = w.value]
      [] w.file = "canonical.bin" -> [d EXCEPT !.canonicalBin = w.value]
      [] w.file = "canonical.json" ->
           [d EXCEPT !.canonicalJson = [source |-> w.slot, sha |-> w.value]]
      [] OTHER -> d

\* atomic_write_bytes: a temporary file, read back, then os.replace.
AtomicWrite ==
    /\ todo # <<>>
    /\ LET w == Head(todo) IN
         /\ folders' = [folders EXCEPT ![w.state] = AfterPut(@, w)]
         /\ shown' = IF w.file = "window" THEN [shown EXCEPT ![w.slot] = w.value]
                     ELSE shown
    /\ todo' = Tail(todo)
    /\ UNCHANGED <<form, owner, gen, table, fixed>>

\* A write that fails ends the callback; the window goes on.
WriteFails ==
    /\ todo # <<>>
    /\ todo' = <<>>
    /\ UNCHANGED <<form, shown, owner, folders, gen, table, fixed>>

\* The window is closed or killed between two writes, and started again.
CloseLearner ==
    /\ todo' = <<>>
    /\ shown' = [i \in KeepSlots |-> NoFrameYet]
    /\ <<todo, shown>>' # <<todo, shown>>
    /\ UNCHANGED <<form, owner, folders, gen, table, fixed>>

------------------------------------------------------------------------------
(* gen_ir_state_registry.py without a baseline frame. *)

\* fail: the exit code tells, nothing was written by then.
Fails == gen' = IdleGen /\ UNCHANGED table
Dir == folders[STATES[gen.at]]

\* Are the three files there; then canonical.json and state.json are read.
ReadJson ==
    /\ gen.pc = "json"
    /\ IF Dir.described /\ Dir.canonicalBin # NoFrameYet /\ Dir.canonicalJson # NotChosen
       THEN gen' = [gen EXCEPT !.pc = "bin", !.json = Dir.canonicalJson]
            /\ UNCHANGED table
       ELSE Fails

\* canonical.bin: its length and SHA-256 are those of canonical.json.
ReadBin ==
    /\ gen.pc = "bin"
    /\ IF Dir.canonicalBin = gen.json.sha
       THEN gen' = [gen EXCEPT !.pc = "source", !.data = Dir.canonicalBin]
            /\ UNCHANGED table
       ELSE Fails

\* The capture canonical.json names has the same bytes.
SourceUnread(d) == TRUE
SourceAgrees(d) == d.bins[gen.json.source] = gen.data
ReadSource ==
    /\ gen.pc = "source"
    /\ IF SourceAgrees(Dir)
       THEN gen' = [gen EXCEPT !.entries = Append(@, gen.data), !.at = @ + 1,
                               !.pc = IF gen.at = Len(STATES) THEN "emit" ELSE "json"]
            /\ UNCHANGED table
       ELSE Fails

\* emit: the old table is truncated, then written.
Emit ==
    \/ /\ gen.pc = "emit" /\ table.kind # "torn"
       /\ table' = [kind |-> "torn", frames |-> <<>>]
       /\ UNCHANGED gen
    \/ /\ gen.pc = "emit" /\ table.kind = "torn"
       /\ table' = [kind |-> "whole", frames |-> gen.entries]
       /\ gen' = [gen EXCEPT !.pc = "written"]

\* roundtrip reads the table back and reports; it changes nothing.
Roundtrip ==
    /\ gen.pc = "written"
    /\ gen' = IdleGen
    /\ UNCHANGED table

RunGenerator ==
    /\ gen.pc = "idle"
    /\ gen' = [gen EXCEPT !.pc = "json"]
    /\ UNCHANGED table

KillGenerator ==
    /\ gen.pc # "idle"
    /\ gen' = IdleGen
    /\ UNCHANGED table

Generate ==
    /\ \/ RunGenerator \/ KillGenerator
       \/ ReadJson \/ ReadBin \/ ReadSource \/ Emit \/ Roundtrip
    /\ UNCHANGED <<windowVars, fixed>>

------------------------------------------------------------------------------
(* gen_ir_code.py.  The console that makes capture 002 anew writes its BIN    *)
(* first and lists its SHA-256 in the manifests later.                      *)

Recapture ==
    \/ fixed' = [fixed EXCEPT !.bin = 3 - @]
    \/ fixed' = [fixed EXCEPT !.listed = @ \cup {fixed.bin}]

\* The BIN, then read_manifest_sha: the hashes of the CSV and the JSON.
ReadFixed ==
    /\ fixed.pc = "idle"
    /\ fixed' = [fixed EXCEPT !.pc = "manifest", !.data = fixed.bin]
ReadManifests ==
    /\ fixed.pc = "manifest"
    /\ fixed' = [fixed EXCEPT !.pc = "check", !.shas = fixed.listed]

\* Without any manifest every frame passes, and the report says N/A.
WriteFixed ==
    /\ fixed.pc = "check"
    /\ fixed' = IF fixed.shas = {} \/ fixed.data \in fixed.shas
                THEN [fixed EXCEPT !.pc = "idle", !.source = fixed.data,
                                   !.match = IF fixed.shas = {} THEN "N/A" ELSE "TRUE"]
                ELSE [fixed EXCEPT !.pc = "idle"]

FixedNext ==
    /\ Recapture \/ ReadFixed \/ ReadManifests \/ WriteFixed
    /\ UNCHANGED <<windowVars, gen, table>>

\* The window and the table's generator; capture 002 has files of its own.
LearnedNext ==
    \/ \E s \in States : OnPreset(s)
    \/ \E i \in KeepSlots : DoSave(i) \/ Approve(i)
    \/ Compare \/ AtomicWrite \/ WriteFails \/ CloseLearner
    \/ Generate

LearnedSpec == LearnedInit /\ [][LearnedNext \/ FixedNext]_learnedVars

------------------------------------------------------------------------------
(* Properties. *)

\* A frame in the table of the firmware was captured for the state it stands
\* under, although the window lets the user approve a capture of another
\* state, files are overwritten while the generator reads them, and any of the
\* writers may be killed between two files
\* (gen_ir_state_registry.py: canonical not byte-exact with its source).
TableOwned ==
    table.kind = "whole" =>
        /\ Len(table.frames) = Len(STATES)
        /\ \A k \in DOMAIN STATES : owner[table.frames[k]] = STATES[k]

\* When gen_ir_code.py has reported IR_CODE_002_MANIFEST_SHA_MATCH=TRUE, the
\* frame it made into code is listed, also when the capture was made anew
\* while it ran.
FixedListed == fixed.match = "TRUE" => fixed.source \in fixed.listed

=============================================================================

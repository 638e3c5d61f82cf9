----------------------------- MODULE SrunLibrary -----------------------------
(***************************************************************************)
(* prepare_srun_arduino_library.py: the Arduino library of srun-c, made    *)
(* from the one authoritative copy in the repository, with a manifest of   *)
(* its files; with --verify-deterministic it is made a second time in a    *)
(* scratch directory and the two manifests are compared.                   *)
(*                                                                         *)
(* The files are copied one by one, while the working tree may be edited   *)
(* or another commit checked out; the program may be killed between any    *)
(* two of its file operations, and is then simply run again over what it   *)
(* left.  The content of a file stands for its size and SHA-256 as well;   *)
(* the two files with a fixed text are left out.                           *)
(***************************************************************************)
EXTENDS Integers, Sequences, FiniteSets, SequencesExt

CONSTANTS
    SrunFiles,     \* the expected inventory that is shipped
    SrunTrees,     \* the source trees there may be
    MaxEdits       \* bound on the edits of the source during one run

\* The inventory is not empty, and a tree says of each of its files what it is.
ASSUME SrunAssumption ==
    /\ IsFiniteSet(SrunFiles) /\ SrunFiles # {}
    /\ \A tree \in SrunTrees :
         /\ tree.files \in [SrunFiles -> {tree.files[f] : f \in SrunFiles}]
         /\ tree.unknown \in BOOLEAN
    /\ MaxEdits \in Nat

VARIABLES
    source,        \* lib/srun-c
    edits,         \* edits since the run began
    prep,          \* the program
    made           \* the directories it writes: 1 the output, 2 the scratch

srunVars == <<source, edits, prep, made>>

NotThere == 0
NoManifest == [f \in SrunFiles |-> NotThere]
TornManifest == [f \in SrunFiles |-> -1]
NoLibrary == [files |-> NoManifest, manifest |-> NoManifest]
SRUN_FILES == SetToSeq(SrunFiles)

SrunTypeOK ==
    /\ source \in SrunTrees
    /\ edits \in 0..MaxEdits
    /\ prep.pc \in {"ended", "audit", "remove", "copy", "manifest"}
    /\ prep.pass \in {1, 2} /\ prep.at \in 1..Len(SRUN_FILES)
    /\ prep.ok \in BOOLEAN /\ prep.verify \in BOOLEAN
    /\ \A p \in {1, 2} : DOMAIN made[p].files = SrunFiles

SrunInit ==
    /\ source \in SrunTrees
    /\ edits = 0
    /\ prep = [pc |-> "ended", pass |-> 1, at |-> 1, ok |-> FALSE, verify |-> FALSE]
    /\ made = [p \in {1, 2} |-> NoLibrary]

------------------------------------------------------------------------------
\* The working tree changes under the program.
EditSource ==
    /\ prep.pc # "ended" => edits < MaxEdits
    /\ source' \in SrunTrees \ {source}
    /\ edits' = IF prep.pc = "ended" THEN edits ELSE edits + 1
    /\ UNCHANGED <<prep, made>>

\* main.
Prepare ==
    /\ prep.pc = "ended"
    /\ \E verify \in BOOLEAN :
         prep' = [pc |-> "audit", pass |-> 1, at |-> 1, ok |-> FALSE, verify |-> verify]
    /\ edits' = 0
    /\ made' = [made EXCEPT ![2] = NoLibrary]
    /\ UNCHANGED source

StepTo(pc) == prep' = [prep EXCEPT !.pc = pc, !.at = 1]
ExitWith(ok) == prep' = [prep EXCEPT !.pc = "ended", !.at = 1, !.ok = ok]

\* audit_source: no file missing, none that is not in the inventory.
Expected(tree) == ~tree.unknown /\ \A f \in SrunFiles : tree.files[f] # NotThere
AuditSource ==
    /\ prep.pc = "audit"
    /\ IF Expected(source) THEN StepTo("remove") ELSE ExitWith(FALSE)
    /\ UNCHANGED <<source, edits, made>>

\* shutil.rmtree, an entry at a time and in the order of the file system.
RemoveOld ==
    /\ prep.pc = "remove"
    /\ \/ made[prep.pass] = NoLibrary /\ StepTo("copy") /\ UNCHANGED made
       \/ /\ made[prep.pass].manifest # NoManifest
          /\ made' = [made EXCEPT ![prep.pass].manifest = NoManifest]
          /\ UNCHANGED prep
       \/ \E f \in SrunFiles :
            /\ made[prep.pass].files[f] # NotThere
            /\ made' = [made EXCEPT ![prep.pass].files[f] = NotThere]
            /\ UNCHANGED prep
    /\ UNCHANGED <<source, edits>>

\* generate: the files in the order of the inventory.  One that is gone since
\* the audit raises.
CopyFile ==
    /\ prep.pc = "copy"
    /\ LET f == SRUN_FILES[prep.at] IN
         IF source.files[f] = NotThere THEN ExitWith(FALSE) /\ UNCHANGED made
         ELSE /\ made' = [made EXCEPT ![prep.pass].files[f] = source.files[f]]
              /\ IF prep.at = Len(SRUN_FILES) THEN StepTo("manifest")
                 ELSE prep' = [prep EXCEPT !.at = @ + 1]
    /\ UNCHANGED <<source, edits>>

\* The manifest is made of the files as they were written; the second one only
\* to be compared with the first.
WriteManifest ==
    /\ prep.pc = "manifest"
    /\ made' = [made EXCEPT ![prep.pass].manifest = made[prep.pass].files]
    /\ IF prep.verify /\ prep.pass = 1
       THEN prep' = [prep EXCEPT !.pc = "audit", !.pass = 2, !.at = 1]
       ELSE ExitWith(prep.pass = 2 => made[1].manifest = made[2].files)
    /\ UNCHANGED <<source, edits>>

\* Killed, perhaps while it writes the manifest.
KillPrepare ==
    /\ prep.pc # "ended"
    /\ \/ UNCHANGED made
       \/ /\ prep.pc = "manifest"
          /\ made' = [made EXCEPT ![prep.pass].manifest = TornManifest]
    /\ ExitWith(FALSE)
    /\ UNCHANGED <<source, edits>>

SrunNext ==
    \/ EditSource \/ Prepare
    \/ AuditSource \/ RemoveOld \/ CopyFile \/ WriteManifest \/ KillPrepare

SrunSpec == SrunInit /\ [][SrunNext]_srunVars

------------------------------------------------------------------------------
(* Properties. *)

\* A run that reports success leaves every file of the inventory, listed as it
\* is, whatever half of a library an earlier run had left there; when it has
\* verified itself, the library is one source tree and no mixture, unless the
\* source was edited more than once meanwhile.  And at any time a manifest that can be read lists no
\* file otherwise than it is: a killed run leaves files without a manifest or
\* a manifest without files, never files of one tree under the manifest of
\* another (GUARANTEES: deterministic, fail closed).
SrunExact ==
    /\ prep.pc = "ended" /\ prep.ok =>
         /\ made[1].manifest = made[1].files
         /\ \A f \in SrunFiles : made[1].files[f] # NotThere
         /\ prep.verify /\ edits <= 1 =>
              \E tree \in SrunTrees : made[1].files = tree.files
    /\ made[1].manifest \notin {NoManifest, TornManifest} =>
         \A f \in SrunFiles :
             made[1].files[f] \in {NotThere, made[1].manifest[f]}

=============================================================================

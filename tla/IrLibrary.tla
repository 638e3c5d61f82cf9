------------------------------ MODULE IrLibrary ------------------------------
(***************************************************************************)
(* The authoritative infrared library of the IR Learning Studio: the       *)
(* SQLite tables of ir_library_db.py with their constraints and triggers,  *)
(* the LibraryService over them, the migration of the older file store     *)
(* and the two things written out of the database, a snapshot directory    *)
(* and the firmware include.                                               *)
(*                                                                         *)
(* A row is one record of table states with the captures, the canonical    *)
(* selection and the audit entries that refer to it.  One action is one    *)
(* SQLite transaction: a program that dies inside one leaves nothing of    *)
(* it.  What takes several transactions or several file operations is a    *)
(* job of its process, and the process may end between two of its steps.   *)
(***************************************************************************)
EXTENDS StudioRuntime, Sequences, SequencesExt

CONSTANTS
    Codes,        \* code ids: records [key, ver], "<key>_v<ver>"
    Code002,      \* the one of Codes CAPTURE_002.bin is registered under
    Frames,       \* infrared frames that pass protocol.validate_frame
    BadFrames,    \* frames that do not (an old file may hold one)
    LegacyDirs,   \* directories of the file store: see LegacyDir
    Inputs,       \* definitions create_draft and update_draft are called with
    MaxIndex      \* bound on the captures of one state

VARIABLES
    rows,         \* Codes -> a row, or NoRow
    job,          \* per process: the multi-step work it is in
    snapshot,     \* the export directory: "absent", "whole" or "partial"
    include,      \* ir_library_generated.inc: "absent", "torn" or "whole" with entries
    report        \* the verdict of the last finished migrate-legacy

libraryVars == <<rows, job, snapshot, include, report>>

\* What validate_definition tells apart: a definition unfit for capture, one
\* whose swing fields are unknown and not confirmed, one fit for approval.
Qualities == {"incomplete", "swingUnknown", "complete"}
Definitions == [code : Codes, quality : Qualities]
FitForCapture(def) == def.quality # "incomplete"
FitForApproval(def) == def.quality = "complete"

NoRow == [status |-> "none"]
NoCanonical == [capture |-> 0]
Idle == [op |-> "idle"]

Present(c) == rows[c].status # "none"
Approved(c) == rows[c].status = "approved"

NewRow(def, status, origin, event) ==
    [status |-> status, def |-> def, captures |-> <<>>,
     canonical |-> NoCanonical, origin |-> origin, audit |-> <<event>>]

\* A directory of the file store as _migrate_legacy_state finds it.
LegacyDir == [code : Codes, status : {"draft", "captured", "approved"},
              quality : Qualities, bins : SUBSET (Frames \cup BadFrames)]

ASSUME LibraryAssumption ==
    /\ Inputs \subseteq Definitions
    /\ LegacyDirs \subseteq LegacyDir
    /\ \A d \in LegacyDirs : IsFiniteSet(d.bins)
    /\ MaxIndex \in Nat

LibraryTypeOK ==
    /\ RuntimeTypeOK
    /\ \A c \in Codes : Present(c) =>
         /\ rows[c].status \in {"draft", "captured", "approved"}
         /\ rows[c].def \in Definitions
         /\ rows[c].captures \in Seq(Frames \cup BadFrames)
         /\ rows[c].canonical.capture \in 0..Len(rows[c].captures)
    /\ \A p \in Procs : job[p].op \in {"idle", "migrate", "export", "include"}
    /\ snapshot \in {"absent", "whole", "partial"}
    /\ include.state \in {"absent", "torn", "whole"}
    /\ report \in {"none", "pass", "fail"}

LibraryInit ==
    /\ RuntimeInit
    /\ rows = [c \in Codes |-> NoRow]
    /\ job = [p \in Procs |-> Idle]
    /\ snapshot = "absent"
    /\ include = [state |-> "absent", entries |-> {}]
    /\ report = "none"

------------------------------------------------------------------------------
(* The database operations. *)

\* A process whose program can call the LibraryService now.
Service(p) == HasService(p) /\ job[p] = Idle

OnlyRow(c, row) ==
    /\ rows' = [rows EXCEPT ![c] = row]
    /\ UNCHANGED <<runtimeVars, job, snapshot, include, report>>

\* create_draft and create_state: UNIQUE (code_id) refuses a second one.
CreateDraft(p, c, def) ==
    /\ Service(p)
    /\ FitForCapture(def) /\ def.code = c
    /\ ~Present(c)
    /\ OnlyRow(c, NewRow(def, "draft", "created", "STATE_CREATED"))

\* update_draft: the definition is stored as it is given, not validated, with
\* a code id that may be another than the row's, and without an audit entry.
UpdateDraft(p, c, def) ==
    /\ Service(p)
    /\ Present(c) /\ ~Approved(c)
    /\ OnlyRow(c, [rows[c] EXCEPT !.def = def])

\* The row add_capture leaves: the capture, the status, the audit entry.
WithCapture(row, frame) ==
    [row EXCEPT !.captures = Append(@, frame),
                !.status = IF @ = "draft" THEN "captured" ELSE @,
                !.audit = Append(@, "CAPTURE_ADDED")]

\* The guard and the trigger for approved states gone.
MayAddCaptureAnyStatus(c) == Present(c) /\ FitForCapture(rows[c].def)

\* add_capture: not to an approved state, not to a definition unfit for it.
MayAddCapture(c) == Present(c) /\ ~Approved(c) /\ FitForCapture(rows[c].def)

\* LibraryService.add_capture: only of a learning session whose exit the
\* module confirmed, only a valid frame, never to an approved state.
AddCapture(p, c, frame, exitConfirmed) ==
    /\ Service(p)
    /\ exitConfirmed
    /\ frame \in Frames
    /\ MayAddCapture(c)
    /\ Len(rows[c].captures) < MaxIndex
    /\ OnlyRow(c, WithCapture(rows[c], frame))

\* The definition approved is not the one the row holds.
SelectionOfOther(c, i) ==
    [capture |-> i, frame |-> rows[c].captures[i],
     def |-> [code |-> c, quality |-> "complete"]]

\* The selection approve_canonical inserts: the capture, its bytes and the
\* definition as they are at that moment.
Selection(c, i) ==
    [capture |-> i, frame |-> rows[c].captures[i], def |-> rows[c].def]

\* approve_canonical: status captured, a definition fit for approval, a
\* capture of this very state whose bytes still validate.
ApproveCanonical(p, c, i) ==
    /\ Service(p)
    /\ Present(c) /\ rows[c].status = "captured"
    /\ FitForApproval(rows[c].def)
    /\ i \in DOMAIN rows[c].captures
    /\ rows[c].captures[i] \in Frames
    /\ OnlyRow(c, [rows[c] EXCEPT !.status = "approved",
                                  !.canonical = Selection(c, i),
                                  !.audit = Append(@, "CANONICAL_APPROVED")])

\* fork_approved_state: the next version only; a version that exists already
\* refuses the fork.  The copy loses unknownApprovalConfirmed, so unknown
\* swing fields have to be confirmed again.
ForkedDefinitions(c, n) ==
    [code : {n}, quality : {rows[c].def.quality, "swingUnknown"}]
ForkApproved(p, c) ==
    /\ Service(p)
    /\ Present(c) /\ Approved(c)
    /\ \E n \in Codes, def \in Definitions :
         /\ n.key = c.key /\ n.ver = c.ver + 1
         /\ ~Present(n)
         /\ def \in ForkedDefinitions(c, n)
         /\ OnlyRow(n, NewRow(def, "draft", "forked", "STATE_FORKED"))

------------------------------------------------------------------------------
(* What the database is checked against, and what is generated from it. *)

\* validate_library: every count of its report that fails it.
RowValid(c) ==
    LET row == rows[c] IN
    /\ FitForCapture(row.def)
    /\ \A i \in DOMAIN row.captures : row.captures[i] \in Frames
    /\ row.status = "approved" =>
         /\ FitForApproval(row.def)
         /\ row.canonical # NoCanonical
         /\ row.canonical.def = row.def
         /\ row.canonical.frame = row.captures[row.canonical.capture]
LibraryValid == \A c \in Codes : Present(c) => RowValid(c)

\* generate_firmware_include writes, for each approved state, the code id
\* named in its definition and the frame of its canonical selection.
IncludeEntries ==
    {[code |-> rows[c].def.code, frame |-> rows[c].canonical.frame] :
        c \in {d \in Codes : Present(d) /\ Approved(d)
                             /\ rows[d].canonical # NoCanonical}}

\* The file is opened and truncated first, its text comes after.
BeginInclude(p) ==
    /\ Service(p)
    /\ LibraryValid
    /\ job' = [job EXCEPT ![p] = [op |-> "include", entries |-> IncludeEntries]]
    /\ include' = [state |-> "torn", entries |-> {}]
    /\ UNCHANGED <<runtimeVars, rows, snapshot, report>>
FinishInclude(p) ==
    /\ job[p].op = "include"
    /\ include' = [state |-> "whole", entries |-> job[p].entries]
    /\ job' = [job EXCEPT ![p] = Idle]
    /\ UNCHANGED <<runtimeVars, rows, snapshot, report>>

\* export_snapshot: a staging directory beside the output is filled first,
\* an older output is removed, the staging directory is renamed.
BeginExport(p) ==
    /\ Service(p)
    /\ job' = [job EXCEPT ![p] = [op |-> "export", staged |-> TRUE]]
    /\ UNCHANGED <<runtimeVars, rows, snapshot, include, report>>
RemoveOldSnapshot(p) ==
    /\ job[p].op = "export" /\ snapshot # "absent"
    /\ snapshot' = "absent"
    /\ UNCHANGED <<runtimeVars, rows, job, include, report>>
RenameStaging(p) ==
    /\ job[p].op = "export" /\ snapshot = "absent"
    /\ snapshot' = "whole"
    /\ job' = [job EXCEPT ![p] = Idle]
    /\ UNCHANGED <<runtimeVars, rows, include, report>>

------------------------------------------------------------------------------
(* migrate_legacy_library: CAPTURE_002 and then one directory after the     *)
(* other, each in a transaction of its own.                                 *)

BeginMigration(p) ==
    /\ HasDatabase(p)
    /\ job[p] = Idle
    /\ job' = [job EXCEPT ![p] = [op |-> "migrate", todo |-> LegacyDirs,
                                  capture002 |-> "todo", blocked |-> FALSE]]
    /\ UNCHANGED <<runtimeVars, rows, snapshot, include, report>>

\* The trigger trg_captures_no_insert_on_approved: a capture inserted for a
\* state that is approved already aborts, and takes its transaction with it.
CaptureInsertAborts(status) == status = "approved"

\* _migrate_capture_002 inserts the state as approved first and its capture
\* second, which the trigger refuses: unless the state is there already, the
\* transaction is undone and its exception counts as blocked.
MigrateCapture002(p) ==
    /\ job[p].op = "migrate" /\ job[p].capture002 = "todo"
    /\ job' = IF Present(Code002)
              THEN [job EXCEPT ![p].capture002 = "pass"]
              ELSE [job EXCEPT ![p].capture002 = "fail", ![p].blocked = TRUE]
    /\ UNCHANGED <<runtimeVars, rows, snapshot, include, report>>

\* The row is committed before its captures are read.
MigratedRowOnly(d) ==
    NewRow([code |-> d.code, quality |-> d.quality], d.status, "legacy",
           "STATE_CREATED")

\* The row _migrate_legacy_state commits: the status the file claims, every
\* capture file whether its frame validates or not, one audit entry in all.
MigratedRow(d) ==
    [NewRow([code |-> d.code, quality |-> d.quality], d.status, "legacy",
            "STATE_CREATED") EXCEPT !.captures = SetToSeq(d.bins)]

MigrateState(p, d) ==
    /\ job[p].op = "migrate" /\ job[p].capture002 # "todo"
    /\ d \in job[p].todo
    /\ LET skipped == Present(d.code) \/ d.quality = "incomplete"
                      \/ (d.status = "approved" /\ d.quality # "complete")
           aborts == d.bins # {} /\ CaptureInsertAborts(d.status)
       IN  /\ job' = [job EXCEPT ![p].todo = @ \ {d},
                                 ![p].blocked = @ \/ (~skipped /\ aborts)]
           /\ rows' = IF skipped \/ aborts THEN rows
                      ELSE [rows EXCEPT ![d.code] = MigratedRow(d)]
    /\ UNCHANGED <<runtimeVars, snapshot, include, report>>

EndMigration(p) ==
    /\ job[p].op = "migrate" /\ job[p].capture002 # "todo" /\ job[p].todo = {}
    /\ report' = IF job[p].capture002 = "pass" /\ ~job[p].blocked
                 THEN "pass" ELSE "fail"
    /\ job' = [job EXCEPT ![p] = Idle]
    /\ UNCHANGED <<runtimeVars, rows, snapshot, include>>

------------------------------------------------------------------------------
Start(p) ==
    StartRuntime(p) /\ UNCHANGED libraryVars

\* The end of a process, also in the middle of its job.
End(p) ==
    /\ EndRuntime(p)
    /\ job' = [job EXCEPT ![p] = Idle]
    /\ UNCHANGED <<rows, snapshot, include, report>>

LibraryNext ==
    \E p \in Procs :
        \/ Start(p) \/ End(p)
        \/ \E c \in Codes, def \in Inputs :
             CreateDraft(p, c, def) \/ UpdateDraft(p, c, def)
        \/ \E c \in Codes, f \in Frames \cup BadFrames, ok \in BOOLEAN :
             AddCapture(p, c, f, ok)
        \/ \E c \in Codes, i \in 1..MaxIndex : ApproveCanonical(p, c, i)
        \/ \E c \in Codes : ForkApproved(p, c)
        \/ BeginInclude(p) \/ FinishInclude(p)
        \/ BeginExport(p) \/ RemoveOldSnapshot(p) \/ RenameStaging(p)
        \/ BeginMigration(p) \/ MigrateCapture002(p) \/ EndMigration(p)
        \/ \E d \in LegacyDirs : MigrateState(p, d)

allLibraryVars == <<runtimeVars, libraryVars>>
LibrarySpec == LibraryInit /\ [][LibraryNext]_allLibraryVars

------------------------------------------------------------------------------
(* Properties. *)

\* The canonical selection of an approved state is one of its own captures,
\* a frame that validates, and was made for the definition the state holds:
\* what the firmware sends under a code is what was approved for it
\* (approve_canonical and the triggers on canonical_selections).
CanonicalTruth ==
    \A c \in Codes : Present(c) /\ rows[c].canonical # NoCanonical =>
        /\ Approved(c)
        /\ rows[c].canonical.capture \in DOMAIN rows[c].captures
        /\ rows[c].canonical.frame = rows[c].captures[rows[c].canonical.capture]
        /\ rows[c].canonical.frame \in Frames
        /\ rows[c].canonical.def = rows[c].def

\* An approved state never changes again, by no operation of any process:
\* not its definition, its captures, its selection (the immutability triggers,
\* "APPROVED_STATE_IMMUTABLE").
ApprovedFrozen ==
    [][\A c \in Codes : Present(c) /\ Approved(c) => rows'[c] = rows[c]]_allLibraryVars

\* A migration that is cut off leaves each directory either wholly in the
\* library or not at all: a state it made holds every frame of its directory
\* (one transaction per directory in _migrate_legacy_state).
MigrationAllOrNothing ==
    \A c \in Codes : Present(c) /\ rows[c].origin = "legacy" =>
        \E d \in LegacyDirs :
            /\ d.code = c
            /\ d.bins \subseteq {rows[c].captures[i] : i \in DOMAIN rows[c].captures}

\* An include that was written to its end names, for every entry, an approved
\* state with that code in its definition and that canonical frame: no later
\* edit or capture can make the firmware's table untrue.
IncludeBacked ==
    include.state = "whole" =>
        \A e \in include.entries : \E c \in Codes :
            /\ Present(c) /\ Approved(c)
            /\ rows[c].def.code = e.code
            /\ rows[c].canonical # NoCanonical /\ rows[c].canonical.frame = e.frame

=============================================================================

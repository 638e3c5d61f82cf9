---------------------------- MODULE LibraryProofs ----------------------------
(***************************************************************************)
(* The library database for any number of processes, states, frames and    *)
(* directories to migrate: one owner (OneLibraryOwner), canonical frames   *)
(* that are true (CanonicalTruth), approved states that stay               *)
(* (ApprovedFrozen), whole migrations and backed includes.  Then the file  *)
(* store before it, whose writes a crash may cut off anywhere: approved    *)
(* states that are complete (ApprovedComplete) and frames that are never   *)
(* replaced (FramesKept).  Last the learned states: a table of the         *)
(* firmware that holds what was captured for each state (TableOwned), and  *)
(* a frame of capture 002 that is listed (FixedListed).                    *)
(***************************************************************************)
EXTENDS IrLibrary, LegacyStore, LearnedStates, FiniteSetTheorems, SequenceTheorems, TLAPS

AnyFrame == Frames \cup BadFrames

(* What the constants give, and the sequence made of a set. *)

\* A finite set as a sequence: every element, and nothing else.
LEMMA SetToSeqOf ==
    ASSUME NEW S, IsFiniteSet(S)
    PROVE  /\ SetToSeq(S) \in Seq(S)
           /\ Len(SetToSeq(S)) = Cardinality(S)
           /\ \A x \in S : \E k \in DOMAIN SetToSeq(S) : SetToSeq(S)[k] = x
           /\ \A j, k \in DOMAIN SetToSeq(S) : SetToSeq(S)[j] = SetToSeq(S)[k] => j = k
  <1> DEFINE n == Cardinality(S)
             f == SetToSeq(S)
  <1>1. n \in Nat /\ ExistsBijection(1..n, S)
    BY FS_CardinalityType
  <1>2. PICK g \in Bijection(1..n, S) : TRUE
    BY <1>1 DEF ExistsBijection
  <1>3. g \in [1..n -> S] /\ IsInjective(g)
    BY <1>2 DEF Bijection, Injection
  <1>4. f \in [1..n -> S] /\ IsInjective(f)
    BY <1>3 DEF SetToSeq
  <1>5. f \in Injection(1..n, S)
    BY <1>4 DEF Injection
  <1>6. IsFiniteSet(1..n) /\ Cardinality(1..n) = n
    BY <1>1, FS_Interval
  <1>7. f \in Surjection(1..n, S)
    BY <1>5, <1>6, FS_Injection
  <1>8. \A x \in S : \E k \in 1..n : f[k] = x
    BY <1>7 DEF Surjection
  <1>9. f \in Seq(S) /\ Len(f) = n /\ DOMAIN f = 1..n
    BY <1>1, <1>4
  <1>. QED
    BY <1>4, <1>8, <1>9 DEF IsInjective

------------------------------------------------------------------------------
(* The invariant. *)

Events == {"STATE_CREATED", "CAPTURE_ADDED", "CANONICAL_APPROVED", "STATE_FORKED"}
Canonicals == {NoCanonical} \cup
              [capture : Nat \ {0}, frame : AnyFrame, def : Definitions]
Rows == [status : {"draft", "captured", "approved"}, def : Definitions,
         captures : Seq(AnyFrame), canonical : Canonicals,
         origin : {"created", "forked", "legacy"}, audit : Seq(Events)]

ExportJobs == [op : {"export"}, staged : {TRUE}]
IncludeJobs == [op : {"include"}, entries : SUBSET [code : Codes, frame : AnyFrame]]
MigrateJobs == [op : {"migrate"}, todo : SUBSET LegacyDirs,
                capture002 : {"todo", "pass", "fail"}, blocked : BOOLEAN]
Jobs == {Idle} \cup ExportJobs \cup IncludeJobs \cup MigrateJobs

Typed ==
    /\ RuntimeTypeOK
    /\ rows \in [Codes -> Rows \cup {NoRow}]
    /\ job \in [Procs -> Jobs]
    /\ snapshot \in {"absent", "whole", "partial"}
    /\ include \in [state : {"absent", "torn", "whole"},
                    entries : SUBSET [code : Codes, frame : AnyFrame]]
    /\ report \in {"none", "pass", "fail"}

\* Who has the library open on Windows holds the mutex.
OwnerHolds == Windows => \A p \in Procs : HasDatabase(p) => mutex = p

\* A canonical selection of a row is that of an approved state, and true.
RowTrue(row) ==
    row.canonical # NoCanonical =>
        /\ row.status = "approved"
        /\ row.canonical.capture \in DOMAIN row.captures
        /\ row.canonical.frame = row.captures[row.canonical.capture]
        /\ row.canonical.frame \in Frames
        /\ row.canonical.def = row.def

\* A row that was migrated has every frame of its directory.
RowWhole(c, row) ==
    row.origin = "legacy" =>
        \E d \in LegacyDirs :
            /\ d.code = c
            /\ d.bins \subseteq {row.captures[i] : i \in DOMAIN row.captures}

RowsTrue == \A c \in Codes : Present(c) => RowTrue(rows[c])
RowsWhole == \A c \in Codes : Present(c) => RowWhole(c, rows[c])

\* Each entry is an approved state's: those being written and those in the file.
Backed(entries) ==
    \A e \in entries : \E c \in Codes :
        /\ Present(c) /\ Approved(c)
        /\ rows[c].def.code = e.code
        /\ rows[c].canonical # NoCanonical /\ rows[c].canonical.frame = e.frame
IncludesTrue ==
    /\ \A p \in Procs : job[p].op = "include" => Backed(job[p].entries)
    /\ include.state = "whole" => Backed(include.entries)

LibraryInv ==
    Typed /\ OwnerHolds /\ RowsTrue /\ RowsWhole /\ IncludesTrue

\* An approved row stays as it is.
Frozen == \A c \in Codes : Present(c) /\ Approved(c) => rows'[c] = rows[c]

------------------------------------------------------------------------------
(* Rows. *)

\* Rows and the mark of a missing one are told apart by the status.
LEMMA RowOf ==
    ASSUME Typed, NEW c \in Codes, Present(c)
    PROVE  rows[c] \in Rows
  BY DEF Typed, Present, NoRow

\* What the approved rows back stays backed while they stay.
LEMMA StaysBacked ==
    ASSUME Frozen, NEW entries, Backed(entries)
    PROVE  Backed(entries)'
  <1> SUFFICES ASSUME NEW e \in entries
               PROVE  \E c \in Codes :
                        /\ Present(c)' /\ Approved(c)'
                        /\ rows'[c].def.code = e.code
                        /\ rows'[c].canonical # NoCanonical
                        /\ rows'[c].canonical.frame = e.frame
    BY DEF Backed, Present, Approved
  <1>1. PICK c \in Codes :
          /\ Present(c) /\ Approved(c)
          /\ rows[c].def.code = e.code
          /\ rows[c].canonical # NoCanonical /\ rows[c].canonical.frame = e.frame
    BY DEF Backed
  <1>2. rows'[c] = rows[c]
    BY <1>1 DEF Frozen
  <1>. QED
    BY <1>1, <1>2 DEF Present, Approved

\* A row that is not approved is replaced by a true and whole one.
LEMMA RowStep ==
    ASSUME LibraryInv, NEW c \in Codes, NEW row \in Rows,
           Present(c) => ~Approved(c),
           RowTrue(row), RowWhole(c, row),
           rows' = [rows EXCEPT ![c] = row]
    PROVE  /\ rows' \in [Codes -> Rows \cup {NoRow}]
           /\ RowsTrue' /\ RowsWhole' /\ Frozen
  <1>1. rows \in [Codes -> Rows \cup {NoRow}]
    BY DEF LibraryInv, Typed
  <1>2. rows'[c] = row /\ \A d \in Codes : d # c => rows'[d] = rows[d]
    BY <1>1
  <1>3. rows' \in [Codes -> Rows \cup {NoRow}]
    BY <1>1
  <1>4. RowsTrue'
    BY <1>2 DEF LibraryInv, RowsTrue, RowTrue, Present
  <1>5. RowsWhole'
    BY <1>2 DEF LibraryInv, RowsWhole, RowWhole, Present
  <1>6. Frozen
    BY <1>2 DEF Frozen
  <1>. QED
    BY <1>3, <1>4, <1>5, <1>6

\* One row changes and nothing else.
LEMMA OnlyRowStep ==
    ASSUME LibraryInv, NEW c \in Codes, NEW row \in Rows,
           Present(c) => ~Approved(c),
           RowTrue(row), RowWhole(c, row), OnlyRow(c, row)
    PROVE  LibraryInv' /\ Frozen
  <1>1. /\ rows' = [rows EXCEPT ![c] = row]
        /\ UNCHANGED <<rt, mutex, metaHash, job, snapshot, include, report>>
    BY DEF OnlyRow, runtimeVars
  <1>2. /\ rows' \in [Codes -> Rows \cup {NoRow}]
        /\ RowsTrue' /\ RowsWhole' /\ Frozen
    BY <1>1, RowStep
  <1>3. Typed'
    BY <1>1, <1>2 DEF LibraryInv, Typed, RuntimeTypeOK
  <1>4. OwnerHolds'
    BY <1>1 DEF LibraryInv, OwnerHolds, HasDatabase
  <1>5. IncludesTrue'
    BY <1>1, <1>2, StaysBacked DEF LibraryInv, IncludesTrue
  <1>. QED
    BY <1>2, <1>3, <1>4, <1>5 DEF LibraryInv

\* A state that is new has neither captures nor a selection.
LEMMA NewRowTrue ==
    ASSUME NEW def \in Definitions, NEW status \in {"draft", "captured", "approved"},
           NEW origin \in {"created", "forked", "legacy"}, NEW event \in Events
    PROVE  /\ NewRow(def, status, origin, event) \in Rows
           /\ RowTrue(NewRow(def, status, origin, event))
           /\ NewRow(def, status, origin, event).origin = origin
           /\ NewRow(def, status, origin, event).captures = <<>>
  BY DEF NewRow, Rows, Canonicals, RowTrue

------------------------------------------------------------------------------
(* One lemma per operation. *)

\* The operation of a job says which of its forms it has.
LEMMA JobForms ==
    /\ \A j \in ExportJobs : j \in Jobs /\ j.op = "export"
    /\ \A j \in IncludeJobs : j \in Jobs /\ j.op = "include"
    /\ \A j \in MigrateJobs : j \in Jobs /\ j.op = "migrate"
    /\ Idle \in Jobs /\ Idle.op = "idle"
    /\ \A j \in Jobs :
         /\ j.op \in {"idle", "migrate", "export", "include"}
         /\ j.op = "include" => j \in IncludeJobs
         /\ j.op = "migrate" => j \in MigrateJobs
  <1>1. \A j \in ExportJobs : j.op = "export"
    BY DEF ExportJobs
  <1>2. \A j \in IncludeJobs : j.op = "include"
    BY DEF IncludeJobs
  <1>3. \A j \in MigrateJobs : j.op = "migrate"
    BY DEF MigrateJobs
  <1>4. Idle.op = "idle"
    BY DEF Idle
  <1>. QED
    BY <1>1, <1>2, <1>3, <1>4 DEF Jobs

\* The library is empty and closed in the beginning.
LEMMA InitInv == LibraryInit => LibraryInv
  <1> SUFFICES ASSUME LibraryInit PROVE LibraryInv
    OBVIOUS
  <1> USE DEF LibraryInit, RuntimeInit
  <1>1. Typed
    BY DEF Typed, RuntimeTypeOK, Modes, Jobs
  <1>2. OwnerHolds
    BY DEF OwnerHolds, HasDatabase
  <1>3. RowsTrue /\ RowsWhole
    BY DEF RowsTrue, RowsWhole, Present, NoRow
  <1>4. IncludesTrue
    BY DEF IncludesTrue, Idle
  <1>. QED
    BY <1>1, <1>2, <1>3, <1>4 DEF LibraryInv

\* The rows stay, and so does what the other parts say of them.
LEMMA RowsStay ==
    ASSUME LibraryInv, UNCHANGED rows
    PROVE  RowsTrue' /\ RowsWhole' /\ Frozen
           /\ \A entries : Backed(entries) => Backed(entries)'
  <1>1. RowsTrue' /\ RowsWhole'
    BY DEF LibraryInv, RowsTrue, RowsWhole, Present
  <1>2. Frozen
    BY DEF Frozen
  <1>. QED
    BY <1>1, <1>2, StaysBacked

\* A process opens the library only when no other holds the mutex.
LEMMA StartStep ==
    ASSUME LibraryInv, NEW p \in Procs, Start(p)
    PROVE  LibraryInv' /\ Frozen
  <1>1. PICK rootValid \in BOOLEAN, healthy \in BOOLEAN :
          LET mode == RuntimeMode(rootValid, Windows /\ MutexTaken, healthy)
              open == mode \in {"readonly", "ready"}
          IN  /\ rt' = [rt EXCEPT ![p] = mode]
              /\ mutex' = IF Windows /\ open THEN p ELSE mutex
              /\ metaHash' = IF open /\ metaHash = "none" THEN "own" ELSE metaHash
    BY DEF Start, StartRuntime
  <1> DEFINE mode == RuntimeMode(rootValid, Windows /\ MutexTaken, healthy)
  <1>2. /\ UNCHANGED <<rows, job, snapshot, include, report>>
        /\ rt[p] = "down"
    BY DEF Start, StartRuntime, libraryVars
  <1>3. /\ mode \in {"noDatabase", "readonly", "ready"}
        /\ Windows /\ mutex # NoProc => mode = "noDatabase"
    BY DEF RuntimeMode, MutexTaken
  <1>4. RuntimeTypeOK'
    BY <1>1, <1>3 DEF LibraryInv, Typed, RuntimeTypeOK, Modes
  <1>5. Typed'
    BY <1>2, <1>4 DEF LibraryInv, Typed
  <1>6. OwnerHolds'
    <2> SUFFICES ASSUME Windows, NEW q \in Procs, HasDatabase(q)'
                 PROVE  mutex' = q
      BY DEF OwnerHolds
    <2>1. rt' = [rt EXCEPT ![p] = mode] /\ rt \in [Procs -> Modes]
      BY <1>1 DEF LibraryInv, Typed, RuntimeTypeOK
    <2>2. CASE q = p
      BY <2>1, <2>2, <1>1, <1>3 DEF HasDatabase
    <2>3. CASE q # p
      <3>1. mutex = q
        BY <2>1, <2>3 DEF HasDatabase, LibraryInv, OwnerHolds
      <3>2. mutex # NoProc
        BY <3>1, RuntimeAssumption
      <3>. QED
        BY <3>1, <3>2, <1>1, <1>3
    <2>. QED
      BY <2>2, <2>3
  <1>7. IncludesTrue'
    BY <1>2, RowsStay DEF LibraryInv, IncludesTrue
  <1>. QED
    BY <1>2, <1>5, <1>6, <1>7, RowsStay DEF LibraryInv

\* The end of a process releases the library and ends its job.
LEMMA EndStep ==
    ASSUME LibraryInv, NEW p \in Procs, End(p)
    PROVE  LibraryInv' /\ Frozen
  <1>1. /\ UNCHANGED <<rows, snapshot, include, report, metaHash>>
        /\ rt' = [rt EXCEPT ![p] = "down"]
        /\ mutex' = IF mutex = p THEN NoProc ELSE mutex
        /\ job' = [job EXCEPT ![p] = Idle]
    BY DEF End, EndRuntime
  <1>2. Typed'
    BY <1>1 DEF LibraryInv, Typed, RuntimeTypeOK, Modes, Jobs
  <1>3. OwnerHolds'
    <2> SUFFICES ASSUME Windows, NEW q \in Procs, HasDatabase(q)'
                 PROVE  mutex' = q
      BY DEF OwnerHolds
    <2>1. rt \in [Procs -> Modes]
      BY DEF LibraryInv, Typed, RuntimeTypeOK
    <2>2. q # p /\ HasDatabase(q)
      BY <1>1, <2>1 DEF HasDatabase
    <2>. QED
      BY <1>1, <2>2 DEF LibraryInv, OwnerHolds
  <1>4. IncludesTrue'
    <2>1. job \in [Procs -> Jobs]
      BY DEF LibraryInv, Typed
    <2>2. \A q \in Procs : job'[q].op = "include" => q # p /\ job'[q] = job[q]
      BY <1>1, <2>1 DEF Idle
    <2>. QED
      BY <1>1, <2>2, RowsStay DEF LibraryInv, IncludesTrue
  <1>. QED
    BY <1>1, <1>2, <1>3, <1>4, RowsStay DEF LibraryInv

\* A new draft has no capture and no canonical frame.
LEMMA CreateDraftStep ==
    ASSUME LibraryInv, NEW p \in Procs, NEW c \in Codes, NEW def \in Inputs,
           CreateDraft(p, c, def)
    PROVE  LibraryInv' /\ Frozen
  <1> DEFINE row == NewRow(def, "draft", "created", "STATE_CREATED")
  <1>1. ~Present(c) /\ OnlyRow(c, row)
    BY DEF CreateDraft
  <1>2. def \in Definitions
    BY LibraryAssumption
  <1>3. row \in Rows /\ RowTrue(row) /\ row.origin = "created"
    BY <1>2, NewRowTrue DEF Events
  <1>4. RowWhole(c, row)
    BY <1>3 DEF RowWhole
  <1>. QED
    BY <1>1, <1>3, <1>4, OnlyRowStep

\* A row that is not approved has no selection.
LEMMA NoSelection ==
    ASSUME LibraryInv, NEW c \in Codes, Present(c), ~Approved(c)
    PROVE  rows[c] \in Rows /\ rows[c].canonical = NoCanonical
           /\ RowWhole(c, rows[c])
  BY RowOf DEF LibraryInv, RowsTrue, RowTrue, Approved, RowsWhole

\* The definition of a draft changes, its captures stay.
LEMMA UpdateDraftStep ==
    ASSUME LibraryInv, NEW p \in Procs, NEW c \in Codes, NEW def \in Inputs,
           UpdateDraft(p, c, def)
    PROVE  LibraryInv' /\ Frozen
  <1> DEFINE row == [rows[c] EXCEPT !.def = def]
  <1>1. Present(c) /\ ~Approved(c) /\ OnlyRow(c, row)
    BY DEF UpdateDraft
  <1>2. def \in Definitions
    BY LibraryAssumption
  <1>3. rows[c] \in Rows /\ rows[c].canonical = NoCanonical /\ RowWhole(c, rows[c])
    BY <1>1, NoSelection
  <1>4. /\ row \in Rows /\ row.canonical = NoCanonical
        /\ row.origin = rows[c].origin /\ row.captures = rows[c].captures
    BY <1>2, <1>3 DEF Rows
  <1>5. RowTrue(row) /\ RowWhole(c, row)
    BY <1>3, <1>4 DEF RowTrue, RowWhole
  <1>. QED
    BY <1>1, <1>4, <1>5, OnlyRowStep

\* A capture is recorded for the definition of its time.
LEMMA AddCaptureStep ==
    ASSUME LibraryInv, NEW p \in Procs, NEW c \in Codes, NEW f \in AnyFrame,
           NEW ok \in BOOLEAN, AddCapture(p, c, f, ok)
    PROVE  LibraryInv' /\ Frozen
  <1> DEFINE row == WithCapture(rows[c], f)
             old == rows[c].captures
             new == row.captures
  <1>1. Present(c) /\ ~Approved(c) /\ OnlyRow(c, row)
    BY DEF AddCapture, MayAddCapture
  <1>2. rows[c] \in Rows /\ rows[c].canonical = NoCanonical /\ RowWhole(c, rows[c])
    BY <1>1, NoSelection
  <1>3. /\ old \in Seq(AnyFrame) /\ rows[c].audit \in Seq(Events)
        /\ "CAPTURE_ADDED" \in Events
    BY <1>2 DEF Rows, Events
  <1>4. /\ new = Append(old, f)
        /\ row.canonical = NoCanonical /\ row.origin = rows[c].origin
    BY <1>2 DEF WithCapture, Rows
  <1>5. Append(rows[c].audit, "CAPTURE_ADDED") \in Seq(Events) /\ new \in Seq(AnyFrame)
    BY <1>3, <1>4
  <1>6. row \in Rows
    BY <1>2, <1>4, <1>5 DEF WithCapture, Rows
  <1>7. {old[i] : i \in DOMAIN old} \subseteq {new[i] : i \in DOMAIN new}
    BY <1>3, <1>4
  <1>8. RowTrue(row) /\ RowWhole(c, row)
    BY <1>2, <1>4, <1>7 DEF RowTrue, RowWhole
  <1>. QED
    BY <1>1, <1>6, <1>8, OnlyRowStep

\* Only a valid frame captured for the definition becomes canonical.
LEMMA ApproveStep ==
    ASSUME LibraryInv, NEW p \in Procs, NEW c \in Codes, NEW i \in 1..MaxIndex,
           ApproveCanonical(p, c, i)
    PROVE  LibraryInv' /\ Frozen
  <1> DEFINE row == [rows[c] EXCEPT !.status = "approved",
                                    !.canonical = Selection(c, i),
                                    !.audit = Append(@, "CANONICAL_APPROVED")]
  <1>1. /\ Present(c) /\ ~Approved(c) /\ OnlyRow(c, row)
        /\ i \in DOMAIN rows[c].captures /\ rows[c].captures[i] \in Frames
    BY DEF ApproveCanonical, Approved
  <1>2. rows[c] \in Rows /\ RowWhole(c, rows[c])
    BY <1>1, NoSelection
  <1>3. rows[c].audit \in Seq(Events) /\ "CANONICAL_APPROVED" \in Events
    BY <1>2 DEF Rows, Events
  <1>4. Append(rows[c].audit, "CANONICAL_APPROVED") \in Seq(Events)
    BY <1>3
  <1>5. rows[c].def \in Definitions
    BY <1>2 DEF Rows
  <1>6. i \in Nat \ {0}
    BY LibraryAssumption
  <1>7. Selection(c, i) \in Canonicals
    BY <1>1, <1>5, <1>6 DEF Selection, Canonicals, AnyFrame
  <1>8. /\ row \in Rows /\ row.status = "approved"
        /\ row.canonical = Selection(c, i) /\ row.captures = rows[c].captures
        /\ row.origin = rows[c].origin /\ row.def = rows[c].def
    BY <1>2, <1>4, <1>7 DEF Rows
  <1>9. RowTrue(row)
    BY <1>1, <1>8 DEF RowTrue, Selection
  <1>10. RowWhole(c, row)
    BY <1>2, <1>8 DEF RowWhole
  <1>. QED
    BY <1>1, <1>8, <1>9, <1>10, OnlyRowStep

\* A fork is a draft of its own and leaves the approved state as it is.
LEMMA ForkStep ==
    ASSUME LibraryInv, NEW p \in Procs, NEW c \in Codes, ForkApproved(p, c)
    PROVE  LibraryInv' /\ Frozen
  <1>1. PICK n \in Codes, def \in Definitions :
          ~Present(n) /\ OnlyRow(n, NewRow(def, "draft", "forked", "STATE_FORKED"))
    BY DEF ForkApproved
  <1> DEFINE row == NewRow(def, "draft", "forked", "STATE_FORKED")
  <1>2. row \in Rows /\ RowTrue(row) /\ row.origin = "forked"
    BY NewRowTrue DEF Events
  <1>3. RowWhole(n, row)
    BY <1>2 DEF RowWhole
  <1>. QED
    BY <1>1, <1>2, <1>3, OnlyRowStep

\* A step of one job: the rows, the owner and the types of the rest stay.
LEMMA JobStep ==
    ASSUME LibraryInv, UNCHANGED <<runtimeVars, rows>>,
           job' \in [Procs -> Jobs],
           snapshot' \in {"absent", "whole", "partial"},
           include' \in [state : {"absent", "torn", "whole"},
                         entries : SUBSET [code : Codes, frame : AnyFrame]],
           report' \in {"none", "pass", "fail"},
           \A q \in Procs : job'[q].op = "include" => Backed(job'[q].entries),
           include'.state = "whole" => Backed(include'.entries)
    PROVE  LibraryInv' /\ Frozen
  <1>1. Typed'
    BY DEF LibraryInv, Typed, RuntimeTypeOK, runtimeVars
  <1>2. OwnerHolds'
    BY DEF LibraryInv, OwnerHolds, HasDatabase, runtimeVars
  <1>3. IncludesTrue'
    BY RowsStay DEF IncludesTrue
  <1>. QED
    BY <1>1, <1>2, <1>3, RowsStay DEF LibraryInv

\* What a job changes of its own process, the others keep.
LEMMA OtherJobs ==
    ASSUME LibraryInv, NEW p \in Procs, NEW j \in Jobs, job' = [job EXCEPT ![p] = j],
           j.op = "include" => Backed(j.entries)
    PROVE  /\ job' \in [Procs -> Jobs]
           /\ \A q \in Procs : job'[q].op = "include" => Backed(job'[q].entries)
  <1>1. job \in [Procs -> Jobs]
    BY DEF LibraryInv, Typed
  <1>2. job' \in [Procs -> Jobs]
    BY <1>1
  <1>3. \A q \in Procs : job'[q] = IF q = p THEN j ELSE job[q]
    BY <1>1
  <1>. QED
    BY <1>2, <1>3 DEF LibraryInv, IncludesTrue

\* The entries are those of approved states, by the frames of their selections.
LEMMA EntriesBacked ==
    ASSUME LibraryInv
    PROVE  /\ IncludeEntries \in SUBSET [code : Codes, frame : AnyFrame]
           /\ Backed(IncludeEntries)
  <1>1. \A c \in Codes : Present(c) /\ rows[c].canonical # NoCanonical =>
          /\ rows[c].def.code \in Codes
          /\ rows[c].canonical.frame \in AnyFrame
    BY RowOf DEF LibraryInv, RowsTrue, RowTrue, Rows, Definitions, AnyFrame
  <1>2. IncludeEntries \in SUBSET [code : Codes, frame : AnyFrame]
    BY <1>1 DEF IncludeEntries
  <1>3. Backed(IncludeEntries)
    BY DEF IncludeEntries, Backed
  <1>. QED
    BY <1>2, <1>3

\* The include is made of the approved selections.
LEMMA IncludeStep ==
    ASSUME LibraryInv, NEW p \in Procs, BeginInclude(p) \/ FinishInclude(p)
    PROVE  LibraryInv' /\ Frozen
  <1>1. CASE BeginInclude(p)
    <2> DEFINE j == [op |-> "include", entries |-> IncludeEntries]
    <2>1. j \in Jobs /\ Backed(j.entries)
      BY EntriesBacked, JobForms DEF IncludeJobs
    <2>2. /\ job' = [job EXCEPT ![p] = j]
          /\ include' = [state |-> "torn", entries |-> {}]
          /\ UNCHANGED <<runtimeVars, rows, snapshot, report>>
      BY <1>1 DEF BeginInclude
    <2>3. /\ job' \in [Procs -> Jobs]
          /\ \A q \in Procs : job'[q].op = "include" => Backed(job'[q].entries)
      BY <2>1, <2>2, OtherJobs
    <2>4. snapshot' \in {"absent", "whole", "partial"} /\ report' \in {"none", "pass", "fail"}
      BY <2>2 DEF LibraryInv, Typed
    <2>. QED
      BY <2>2, <2>3, <2>4, JobStep
  <1>2. CASE FinishInclude(p)
    <2>1. /\ job[p].op = "include"
          /\ job' = [job EXCEPT ![p] = Idle]
          /\ include' = [state |-> "whole", entries |-> job[p].entries]
          /\ UNCHANGED <<runtimeVars, rows, snapshot, report>>
      BY <1>2 DEF FinishInclude
    <2>2. Idle \in Jobs /\ Idle.op # "include"
      BY JobForms
    <2>3. /\ job' \in [Procs -> Jobs]
          /\ \A q \in Procs : job'[q].op = "include" => Backed(job'[q].entries)
      BY <2>1, <2>2, OtherJobs
    <2>4. /\ snapshot' \in {"absent", "whole", "partial"}
          /\ report' \in {"none", "pass", "fail"}
          /\ job[p] \in Jobs
      BY <2>1 DEF LibraryInv, Typed
    <2>5. job[p].entries \in SUBSET [code : Codes, frame : AnyFrame]
      BY <2>1, <2>4, JobForms DEF IncludeJobs
    <2>6. Backed(include'.entries)
      BY <2>1 DEF LibraryInv, IncludesTrue
    <2>. QED
      BY <2>1, <2>3, <2>4, <2>5, <2>6, JobStep
  <1>. QED
    BY <1>1, <1>2

\* An export replaces the snapshot.
LEMMA ExportStep ==
    ASSUME LibraryInv, NEW p \in Procs,
           BeginExport(p) \/ RemoveOldSnapshot(p) \/ RenameStaging(p)
    PROVE  LibraryInv' /\ Frozen
  <1>1. PICK j \in Jobs : job' = [job EXCEPT ![p] = j] /\ j.op # "include"
    <2>1. job \in [Procs -> Jobs]
      BY DEF LibraryInv, Typed
    <2>2. CASE BeginExport(p)
      <3> DEFINE j == [op |-> "export", staged |-> TRUE]
      <3>1. j \in ExportJobs
        BY DEF ExportJobs
      <3>2. job' = [job EXCEPT ![p] = j]
        BY <2>2 DEF BeginExport
      <3>. QED
        BY <3>1, <3>2, JobForms
    <2>3. CASE RemoveOldSnapshot(p)
      <3>1. job' = [job EXCEPT ![p] = job[p]] /\ job[p].op = "export"
        BY <2>1, <2>3 DEF RemoveOldSnapshot
      <3>. QED
        BY <2>1, <3>1
    <2>4. CASE RenameStaging(p)
      BY <2>4, JobForms DEF RenameStaging
    <2>. QED
      BY <2>2, <2>3, <2>4
  <1>2. /\ snapshot' \in {"absent", "whole", "partial"}
        /\ UNCHANGED <<runtimeVars, rows, include, report>>
    BY DEF BeginExport, RemoveOldSnapshot, RenameStaging, LibraryInv, Typed
  <1>3. /\ job' \in [Procs -> Jobs]
        /\ \A q \in Procs : job'[q].op = "include" => Backed(job'[q].entries)
    BY <1>1, OtherJobs
  <1>4. /\ include \in [state : {"absent", "torn", "whole"},
                        entries : SUBSET [code : Codes, frame : AnyFrame]]
        /\ report \in {"none", "pass", "fail"}
        /\ include.state = "whole" => Backed(include.entries)
    BY DEF LibraryInv, Typed, IncludesTrue
  <1>. QED
    BY <1>2, <1>3, <1>4, JobStep

\* The migration begins, imports capture 002, or ends.
LEMMA MigrationJobStep ==
    ASSUME LibraryInv, NEW p \in Procs,
           BeginMigration(p) \/ MigrateCapture002(p) \/ EndMigration(p)
    PROVE  LibraryInv' /\ Frozen
  <1>1. PICK j \in Jobs : job' = [job EXCEPT ![p] = j] /\ j.op # "include"
    <2>1. job \in [Procs -> Jobs]
      BY DEF LibraryInv, Typed
    <2>2. CASE BeginMigration(p)
      <3> DEFINE j == [op |-> "migrate", todo |-> LegacyDirs,
                       capture002 |-> "todo", blocked |-> FALSE]
      <3>1. j \in MigrateJobs
        BY DEF MigrateJobs
      <3>2. job' = [job EXCEPT ![p] = j]
        BY <2>2 DEF BeginMigration
      <3>. QED
        BY <3>1, <3>2, JobForms
    <2>3. CASE MigrateCapture002(p)
      <3>1. /\ job[p].op = "migrate"
            /\ job' = IF Present(Code002)
                      THEN [job EXCEPT ![p].capture002 = "pass"]
                      ELSE [job EXCEPT ![p].capture002 = "fail", ![p].blocked = TRUE]
        BY <2>3 DEF MigrateCapture002
      <3> DEFINE jp == IF Present(Code002) THEN [job[p] EXCEPT !.capture002 = "pass"]
                       ELSE [job[p] EXCEPT !.capture002 = "fail", !.blocked = TRUE]
      <3>2. job' = [job EXCEPT ![p] = jp]
        BY <2>1, <3>1
      <3>3. job[p] \in MigrateJobs
        BY <2>1, <3>1, JobForms
      <3>4. jp \in MigrateJobs
        BY <3>3 DEF MigrateJobs
      <3>. QED
        BY <3>2, <3>4, JobForms
    <2>4. CASE EndMigration(p)
      BY <2>4, JobForms DEF EndMigration
    <2>. QED
      BY <2>2, <2>3, <2>4
  <1>2. UNCHANGED <<runtimeVars, rows, snapshot, include>>
    BY DEF BeginMigration, MigrateCapture002, EndMigration
  <1>3. /\ job' \in [Procs -> Jobs]
        /\ \A q \in Procs : job'[q].op = "include" => Backed(job'[q].entries)
    BY <1>1, OtherJobs
  <1>4. report' \in {"none", "pass", "fail"}
    BY DEF BeginMigration, MigrateCapture002, EndMigration, LibraryInv, Typed
  <1>5. /\ include \in [state : {"absent", "torn", "whole"},
                        entries : SUBSET [code : Codes, frame : AnyFrame]]
        /\ snapshot \in {"absent", "whole", "partial"}
        /\ include.state = "whole" => Backed(include.entries)
    BY DEF LibraryInv, Typed, IncludesTrue
  <1>. QED
    BY <1>2, <1>3, <1>4, <1>5, JobStep

\* The row of a directory: the whole of it, and no selection.
LEMMA MigratedRowWhole ==
    ASSUME NEW d \in LegacyDirs
    PROVE  /\ MigratedRow(d) \in Rows
           /\ RowTrue(MigratedRow(d)) /\ RowWhole(d.code, MigratedRow(d))
  <1>1. d \in LegacyDir /\ IsFiniteSet(d.bins)
    BY LibraryAssumption
  <1> DEFINE def == [code |-> d.code, quality |-> d.quality]
             new == NewRow(def, d.status, "legacy", "STATE_CREATED")
             caps == SetToSeq(d.bins)
  <1>2. /\ def \in Definitions /\ d.code \in Codes
        /\ d.status \in {"draft", "captured", "approved"} /\ d.bins \subseteq AnyFrame
    BY <1>1 DEF LegacyDir, Definitions, Qualities, AnyFrame
  <1>3. "STATE_CREATED" \in Events
    BY DEF Events
  <1>4. new \in Rows /\ new.canonical = NoCanonical
    BY <1>2, <1>3, NewRowTrue DEF NewRow
  <1>5. caps \in Seq(d.bins) /\ \A x \in d.bins : \E k \in DOMAIN caps : caps[k] = x
    BY <1>1, SetToSeqOf
  <1>6. caps \in Seq(AnyFrame)
    BY <1>2, <1>5
  <1>7. MigratedRow(d) = [new EXCEPT !.captures = caps]
    BY DEF MigratedRow
  <1>8. /\ MigratedRow(d) \in Rows /\ MigratedRow(d).canonical = NoCanonical
        /\ MigratedRow(d).captures = caps
    BY <1>4, <1>6, <1>7 DEF Rows
  <1>. QED
    BY <1>5, <1>8 DEF RowTrue, RowWhole

\* One transaction brings in the frames of a directory, or none.
LEMMA MigrateStateStep ==
    ASSUME LibraryInv, NEW p \in Procs, NEW d \in LegacyDirs, MigrateState(p, d)
    PROVE  LibraryInv' /\ Frozen
  <1> DEFINE skipped == Present(d.code) \/ d.quality = "incomplete"
                        \/ (d.status = "approved" /\ d.quality # "complete")
             aborts == d.bins # {} /\ CaptureInsertAborts(d.status)
             jp == [job[p] EXCEPT !.todo = @ \ {d}, !.blocked = @ \/ (~skipped /\ aborts)]
  <1>1. /\ job[p].op = "migrate" /\ job' = [job EXCEPT ![p] = jp]
        /\ rows' = IF skipped \/ aborts THEN rows
                   ELSE [rows EXCEPT ![d.code] = MigratedRow(d)]
        /\ UNCHANGED <<runtimeVars, snapshot, include, report>>
    BY DEF MigrateState, LibraryInv, Typed
  <1>2. job[p] \in MigrateJobs
    BY <1>1, JobForms DEF LibraryInv, Typed
  <1>3. (job[p].blocked \/ (~skipped /\ aborts)) \in BOOLEAN
    BY Zenon
  <1>4. jp \in MigrateJobs
    BY <1>2, <1>3 DEF MigrateJobs
  <1>5. jp \in Jobs /\ jp.op # "include"
    BY <1>4, JobForms
  <1>6. /\ job' \in [Procs -> Jobs]
        /\ \A q \in Procs : job'[q].op = "include" => Backed(job'[q].entries)
    BY <1>1, <1>5, OtherJobs
  <1>7. /\ rows' \in [Codes -> Rows \cup {NoRow}]
        /\ RowsTrue' /\ RowsWhole' /\ Frozen
    <2>1. CASE skipped \/ aborts
      BY <1>1, <2>1, RowsStay DEF LibraryInv, Typed
    <2>2. CASE ~(skipped \/ aborts)
      <3>1. d.code \in Codes
        BY LibraryAssumption DEF LegacyDir
      <3>. QED
        BY <1>1, <2>2, <3>1, MigratedRowWhole, RowStep
    <2>. QED
      BY <2>1, <2>2
  <1>8. Typed'
    BY <1>1, <1>6, <1>7 DEF LibraryInv, Typed, RuntimeTypeOK, runtimeVars
  <1>9. OwnerHolds'
    BY <1>1 DEF LibraryInv, OwnerHolds, HasDatabase, runtimeVars
  <1>10. IncludesTrue'
    <2>1. \A q \in Procs : job'[q].op = "include" => job[q].op = "include" /\ job'[q] = job[q]
      <3>1. job \in [Procs -> Jobs]
        BY DEF LibraryInv, Typed
      <3>2. \A q \in Procs : job'[q] = IF q = p THEN jp ELSE job[q]
        BY <1>1, <3>1
      <3>. QED
        BY <1>5, <3>2
    <2>. QED
      BY <1>1, <1>7, <2>1, StaysBacked DEF LibraryInv, IncludesTrue
  <1>. QED
    BY <1>7, <1>8, <1>9, <1>10 DEF LibraryInv

------------------------------------------------------------------------------
(* The theorems. *)

\* Every step keeps the invariant.
LEMMA LibraryNextStep ==
    ASSUME LibraryInv, [LibraryNext]_allLibraryVars
    PROVE  LibraryInv' /\ Frozen
  <1>1. CASE UNCHANGED allLibraryVars
    <2>1. /\ UNCHANGED <<runtimeVars, rows, job, snapshot, include, report>>
      BY <1>1 DEF allLibraryVars, libraryVars
    <2>. QED
      BY <2>1, JobStep DEF LibraryInv, Typed, IncludesTrue
  <1>2. CASE LibraryNext
    <2>1. PICK p \in Procs :
        \/ Start(p) \/ End(p)
        \/ \E c \in Codes, def \in Inputs :
             CreateDraft(p, c, def) \/ UpdateDraft(p, c, def)
        \/ \E c \in Codes, f \in AnyFrame, ok \in BOOLEAN : AddCapture(p, c, f, ok)
        \/ \E c \in Codes, i \in 1..MaxIndex : ApproveCanonical(p, c, i)
        \/ \E c \in Codes : ForkApproved(p, c)
        \/ BeginInclude(p) \/ FinishInclude(p)
        \/ BeginExport(p) \/ RemoveOldSnapshot(p) \/ RenameStaging(p)
        \/ BeginMigration(p) \/ MigrateCapture002(p) \/ EndMigration(p)
        \/ \E d \in LegacyDirs : MigrateState(p, d)
      BY <1>2 DEF LibraryNext, AnyFrame
    <2>. QED
      BY <2>1, StartStep, EndStep, CreateDraftStep, UpdateDraftStep, AddCaptureStep,
         ApproveStep, ForkStep, IncludeStep, ExportStep, MigrationJobStep,
         MigrateStateStep
  <1>. QED
    BY <1>1, <1>2

\* The invariant the theorems below are read off.
THEOREM LibraryInductive == LibrarySpec => []LibraryInv
  <1>1. LibraryInv /\ [LibraryNext]_allLibraryVars => LibraryInv'
    BY LibraryNextStep
  <1>. QED
    BY <1>1, InitInv, PTL DEF LibrarySpec

\* The variables keep their types (the tables' columns and CHECK constraints).
THEOREM LibraryTyped == LibrarySpec => []LibraryTypeOK
  <1>1. LibraryInv => LibraryTypeOK
    <2> SUFFICES ASSUME LibraryInv PROVE LibraryTypeOK
      OBVIOUS
    <2>1. ASSUME NEW c \in Codes, Present(c)
          PROVE  /\ rows[c].status \in {"draft", "captured", "approved"}
                 /\ rows[c].def \in Definitions
                 /\ rows[c].captures \in Seq(AnyFrame)
                 /\ rows[c].canonical.capture \in 0..Len(rows[c].captures)
      <3>1. rows[c] \in Rows
        BY <2>1, RowOf DEF LibraryInv
      <3>2. rows[c].captures \in Seq(AnyFrame)
        BY <3>1 DEF Rows
      <3> DEFINE chosen == rows[c].canonical.capture
      <3>3. ASSUME rows[c].canonical = NoCanonical PROVE chosen \in 0..Len(rows[c].captures)
        <4>1. Len(rows[c].captures) \in Nat
          BY <3>2
        <4>3. rows[c].canonical.capture = 0
          BY <3>3 DEF NoCanonical
        <4>2. \A n \in Nat : 0 \in 0..n
          OBVIOUS
        <4>. QED
          BY <4>1, <4>2, <4>3
      <3>4. ASSUME rows[c].canonical # NoCanonical PROVE chosen \in 0..Len(rows[c].captures)
        <4>1. rows[c].canonical.capture \in DOMAIN rows[c].captures
          BY <2>1, <3>4 DEF LibraryInv, RowsTrue, RowTrue
        <4>2. /\ Len(rows[c].captures) \in Nat
              /\ DOMAIN rows[c].captures = 1..Len(rows[c].captures)
          BY <3>2
        <4>3. \A n \in Nat : \A i \in 1..n : i \in 0..n
          OBVIOUS
        <4>. QED
          BY <4>1, <4>2, <4>3
      <3>5. rows[c].status \in {"draft", "captured", "approved"} /\ rows[c].def \in Definitions
        BY <3>1 DEF Rows
      <3>. QED
        BY <3>2, <3>3, <3>4, <3>5
    <2>2. \A p \in Procs : job[p].op \in {"idle", "migrate", "export", "include"}
      BY JobForms DEF LibraryInv, Typed
    <2>. QED
      BY <2>1, <2>2 DEF LibraryTypeOK, LibraryInv, Typed, AnyFrame
  <1>. QED
    BY <1>1, LibraryInductive, PTL

\* At most one process has the library open on Windows: who has it holds the
\* named mutex of the project root, and the mutex has one holder.
THEOREM OneOwner == LibrarySpec => []OneLibraryOwner
  <1>1. LibraryInv => OneLibraryOwner
    <2> SUFFICES ASSUME LibraryInv, Windows
                 PROVE  Cardinality({p \in Procs : HasDatabase(p)}) <= 1
      BY DEF OneLibraryOwner
    <2> DEFINE open == {p \in Procs : HasDatabase(p)}
    <2>1. open \subseteq {mutex}
      BY DEF LibraryInv, OwnerHolds
    <2>2. IsFiniteSet({mutex}) /\ Cardinality({mutex}) = 1
      BY FS_Singleton
    <2>3. Cardinality(open) <= Cardinality({mutex})
      BY <2>1, <2>2, FS_Subset
    <2>. QED
      BY <2>2, <2>3
  <1>. QED
    BY <1>1, LibraryInductive, PTL

\* What is sent under an approved code is a valid capture of that very state,
\* selected for the definition the state still has.
THEOREM SelectionsTrue == LibrarySpec => []CanonicalTruth
  <1>1. LibraryInv => CanonicalTruth
    BY DEF LibraryInv, RowsTrue, RowTrue, CanonicalTruth, Approved
  <1>. QED
    BY <1>1, LibraryInductive, PTL

\* No operation of any process changes an approved state.
THEOREM ApprovedStays == LibrarySpec => ApprovedFrozen
  <1>1. LibraryInv /\ [LibraryNext]_allLibraryVars =>
          [\A c \in Codes : Present(c) /\ Approved(c) => rows'[c] = rows[c]]_allLibraryVars
    BY LibraryNextStep DEF Frozen
  <1>. QED
    BY <1>1, LibraryInductive, PTL DEF LibrarySpec, ApprovedFrozen

\* A directory is migrated whole or not at all, wherever the migration stopped.
THEOREM MigrationWhole == LibrarySpec => []MigrationAllOrNothing
  <1>1. LibraryInv => MigrationAllOrNothing
    BY DEF LibraryInv, RowsWhole, RowWhole, MigrationAllOrNothing
  <1>. QED
    BY <1>1, LibraryInductive, PTL

\* No later edit, capture or process end makes a whole include untrue.
THEOREM IncludeStaysBacked == LibrarySpec => []IncludeBacked
  <1>1. LibraryInv => IncludeBacked
    BY DEF LibraryInv, IncludesTrue, Backed, IncludeBacked
  <1>. QED
    BY <1>1, LibraryInductive, PTL

------------------------------------------------------------------------------
(* The file store: what its directories and its plans look like. *)

FileStatus == {"draft", "captured", "approved"}
FileDefs == [present : {TRUE}, status : FileStatus, fit : BOOLEAN]
Dirs == [made : BOOLEAN, def : {Nothing} \cup FileDefs, bins : Seq(StoreFrames),
         jsons : SUBSET ((1..MaxCaptures) \X StoreFrames),
         canonBin : {Nothing} \cup [present : {TRUE}, frame : StoreFrames],
         canonJson : {Nothing} \cup [present : {TRUE}, source : 1..MaxCaptures,
                                    frame : StoreFrames],
         litter : BOOLEAN]

PlainWrites == [code : StateCodes, file : {"dir", "validation"}]
DefWrites == [code : StateCodes, file : {"def"}, def : FileDefs]
BinWrites == [code : StateCodes, file : {"bin"}, index : 1..MaxCaptures,
              frame : StoreFrames]
JsonWrites == [code : StateCodes, file : {"json"}, index : 1..MaxCaptures,
               frame : StoreFrames]
CanonBinWrites == [code : StateCodes, file : {"canonBin"}, frame : StoreFrames]
CanonJsonWrites == [code : StateCodes, file : {"canonJson"}, source : 1..MaxCaptures,
                    frame : StoreFrames]
Writes == PlainWrites \cup DefWrites \cup BinWrites \cup JsonWrites
          \cup CanonBinWrites \cup CanonJsonWrites

StoreTyped ==
    /\ store \in [StateCodes -> Dirs]
    /\ plan \in Seq(Writes)
    /\ inc \subseteq [code : StateCodes, frame : StoreFrames]

DefsMade == \A c \in StateCodes : store[c].def.present => store[c].made

\* The frame that is to be written is the next one of its state, and the only one.
Next1(w) == w.file = "bin" => w.index = Len(store[w.code].bins) + 1
OneBin(s) == \A j, k \in DOMAIN s : s[j].file = "bin" /\ s[k].file = "bin" => j = k
BinsNext == OneBin(plan) /\ \A k \in DOMAIN plan : Next1(plan[k])

\* A write that neither approves a state nor touches its canonical files,
\* unless it is the migrated one.
Harmless(w) ==
    w.code # Migrated =>
        /\ w.file \notin {"canonBin", "canonJson"}
        /\ w.file = "def" => w.def.status # "approved"

\* An approval on its way: what is written and what is left, for one capture.
Approving(c, i, f) ==
    LET d == store[c] IN
    /\ i \in DOMAIN d.bins /\ d.bins[i] = f
    /\ \/ plan = <<WriteCanonBin(c, f), WriteCanonJson(c, i, f),
                   WriteDef(c, Def("approved", TRUE)), WriteValidation(c)>>
          /\ Status(c) # "approved"
       \/ plan = <<WriteCanonJson(c, i, f),
                   WriteDef(c, Def("approved", TRUE)), WriteValidation(c)>>
          /\ Status(c) # "approved"
          /\ d.canonBin.present /\ d.canonBin.frame = f
       \/ plan = <<WriteDef(c, Def("approved", TRUE)), WriteValidation(c)>>
          /\ d.canonBin.present /\ d.canonBin.frame = f
          /\ d.canonJson.present /\ d.canonJson.source = i
PlanShape ==
    \/ \A k \in DOMAIN plan : Harmless(plan[k])
    \/ \E c \in StateCodes \ {Migrated}, i \in 1..MaxCaptures, f \in StoreFrames :
          Approving(c, i, f)

StoreInv ==
    StoreTyped /\ DefsMade /\ BinsNext /\ PlanShape /\ ApprovedComplete

KeepsFrames ==
    \A c \in StateCodes : \A i \in DOMAIN store[c].bins :
        i \in DOMAIN store'[c].bins /\ store'[c].bins[i] = store[c].bins[i]

------------------------------------------------------------------------------
(* The writes. *)

\* The writes an operation of the file library can have before it.
LEMMA WriteForms ==
    /\ \A w \in PlainWrites : w \in Writes /\ w.file \in {"dir", "validation"}
    /\ \A w \in DefWrites : w \in Writes /\ w.file = "def"
    /\ \A w \in BinWrites : w \in Writes /\ w.file = "bin"
    /\ \A w \in JsonWrites : w \in Writes /\ w.file = "json"
    /\ \A w \in CanonBinWrites : w \in Writes /\ w.file = "canonBin"
    /\ \A w \in CanonJsonWrites : w \in Writes /\ w.file = "canonJson"
    /\ \A w \in Writes :
         /\ w.code \in StateCodes
         /\ w.file = "def" => w \in DefWrites
         /\ w.file = "bin" => w \in BinWrites
         /\ w.file = "json" => w \in JsonWrites
         /\ w.file = "canonBin" => w \in CanonBinWrites
         /\ w.file = "canonJson" => w \in CanonJsonWrites
         /\ w.file \in {"dir", "validation", "def", "bin", "json", "canonBin", "canonJson"}
  <1>1. \A w \in PlainWrites : w.file \in {"dir", "validation"} /\ w.code \in StateCodes
    BY DEF PlainWrites
  <1>2. \A w \in DefWrites : w.file = "def" /\ w.code \in StateCodes
    BY DEF DefWrites
  <1>3. \A w \in BinWrites : w.file = "bin" /\ w.code \in StateCodes
    BY DEF BinWrites
  <1>4. \A w \in JsonWrites : w.file = "json" /\ w.code \in StateCodes
    BY DEF JsonWrites
  <1>5. \A w \in CanonBinWrites : w.file = "canonBin" /\ w.code \in StateCodes
    BY DEF CanonBinWrites
  <1>6. \A w \in CanonJsonWrites : w.file = "canonJson" /\ w.code \in StateCodes
    BY DEF CanonJsonWrites
  <1>. QED
    BY <1>1, <1>2, <1>3, <1>4, <1>5, <1>6 DEF Writes

\* One file written leaves the directory typed and its other files alone.
LEMMA WrittenDir ==
    ASSUME NEW d \in Dirs, NEW w \in Writes,
           w.file = "bin" => w.index = Len(d.bins) + 1,
           d.def.present => d.made
    PROVE  LET e == Written(d, w) IN
           /\ e \in Dirs
           /\ e.def.present => e.made
           /\ e.def = IF w.file = "def" THEN w.def ELSE d.def
           /\ e.bins = IF w.file = "bin" THEN Append(d.bins, w.frame) ELSE d.bins
           /\ e.canonBin = IF w.file = "canonBin" THEN [present |-> TRUE, frame |-> w.frame]
                           ELSE d.canonBin
           /\ e.canonJson = IF w.file = "canonJson"
                            THEN [present |-> TRUE, source |-> w.source, frame |-> w.frame]
                            ELSE d.canonJson
  <1> DEFINE e == Written(d, w)
  <1>1. CASE w.file = "def"
    <2>1. w.def \in FileDefs
      BY <1>1, WriteForms DEF DefWrites
    <2>2. e = [d EXCEPT !.made = TRUE, !.def = w.def]
      BY <1>1 DEF Written
    <2>. QED
      BY <1>1, <2>1, <2>2 DEF Dirs
  <1>2. CASE w.file = "bin"
    <2>1. w.frame \in StoreFrames /\ w.index \in 1..MaxCaptures
      BY <1>2, WriteForms DEF BinWrites
    <2>2. d.bins \in Seq(StoreFrames)
      BY DEF Dirs
    <2>3. ~(w.index <= Len(d.bins))
      BY <1>2, <2>2
    <2>4. e = [d EXCEPT !.bins = IF w.index <= Len(@) THEN [@ EXCEPT ![w.index] = w.frame]
                                 ELSE Append(@, w.frame)]
      BY <1>2 DEF Written
    <2>5. e = [d EXCEPT !.bins = Append(d.bins, w.frame)]
      BY <2>3, <2>4 DEF Dirs
    <2>6. Append(d.bins, w.frame) \in Seq(StoreFrames)
      BY <2>1, <2>2
    <2>. QED
      BY <1>2, <2>5, <2>6 DEF Dirs
  <1>3. CASE w.file = "json"
    <2>1. w.frame \in StoreFrames /\ w.index \in 1..MaxCaptures
      BY <1>3, WriteForms DEF JsonWrites
    <2>2. e = [d EXCEPT !.jsons = @ \cup {<<w.index, w.frame>>}]
      BY <1>3 DEF Written
    <2>3. d.jsons \cup {<<w.index, w.frame>>} \in SUBSET ((1..MaxCaptures) \X StoreFrames)
      BY <2>1 DEF Dirs
    <2>4. e = [d EXCEPT !.jsons = d.jsons \cup {<<w.index, w.frame>>}]
      BY <2>2 DEF Dirs
    <2>5. e \in Dirs
      BY <2>3, <2>4 DEF Dirs
    <2>. QED
      BY <1>3, <2>4, <2>5 DEF Dirs
  <1>4. CASE w.file = "canonBin"
    <2>1. w.frame \in StoreFrames
      BY <1>4, WriteForms DEF CanonBinWrites
    <2>2. e = [d EXCEPT !.canonBin = [present |-> TRUE, frame |-> w.frame]]
      BY <1>4 DEF Written
    <2>3. [present |-> TRUE, frame |-> w.frame]
             \in {Nothing} \cup [present : {TRUE}, frame : StoreFrames]
      BY <2>1
    <2>4. e \in Dirs
      BY <2>2, <2>3 DEF Dirs
    <2>. QED
      BY <1>4, <2>2, <2>4 DEF Dirs
  <1>5. CASE w.file = "canonJson"
    <2>1. w.frame \in StoreFrames /\ w.source \in 1..MaxCaptures
      BY <1>5, WriteForms DEF CanonJsonWrites
    <2>2. e = [d EXCEPT !.canonJson = [present |-> TRUE, source |-> w.source,
                                       frame |-> w.frame]]
      BY <1>5 DEF Written
    <2>3. [present |-> TRUE, source |-> w.source, frame |-> w.frame]
             \in {Nothing} \cup [present : {TRUE}, source : 1..MaxCaptures,
                                frame : StoreFrames]
      BY <2>1
    <2>4. e \in Dirs
      BY <2>2, <2>3 DEF Dirs
    <2>. QED
      BY <1>5, <2>2, <2>4 DEF Dirs
  <1>6. CASE w.file \in {"dir", "validation"}
    <2>1. e = [d EXCEPT !.made = TRUE]
      BY <1>6 DEF Written
    <2>. QED
      BY <1>6, <2>1 DEF Dirs
  <1>. QED
    BY <1>1, <1>2, <1>3, <1>4, <1>5, <1>6, WriteForms

\* The file library has no state in the beginning.
LEMMA StoreInitInv == StoreInit => StoreInv
  <1> SUFFICES ASSUME StoreInit PROVE StoreInv
    OBVIOUS
  <1> USE DEF StoreInit
  <1>1. NoDir \in Dirs /\ NoDir.def.present = FALSE
    BY DEF NoDir, Dirs, Nothing
  <1>2. StoreTyped
    BY <1>1 DEF StoreTyped
  <1>3. DefsMade /\ ApprovedComplete
    BY <1>1 DEF DefsMade, ApprovedComplete, Status
  <1>4. BinsNext /\ PlanShape
    BY DEF BinsNext, OneBin, PlanShape
  <1>. QED
    BY <1>2, <1>3, <1>4 DEF StoreInv

\* What is left of a short sequence, and what one more element keeps of any.
LEMMA TailOfFour == \A x1, x2, x3, x4 : Tail(<<x1, x2, x3, x4>>) = <<x2, x3, x4>>
  OBVIOUS

\* What is left of three writes.
LEMMA TailOfThree == \A x1, x2, x3 : Tail(<<x1, x2, x3>>) = <<x2, x3>>
  OBVIOUS

\* One member more leaves the others in their places.
LEMMA AppendKeeps ==
    ASSUME NEW S, NEW s \in Seq(S), NEW x \in S
    PROVE  /\ DOMAIN s \subseteq DOMAIN Append(s, x)
           /\ \A i \in DOMAIN s : Append(s, x)[i] = s[i]
  OBVIOUS

\* The first write of a plan, and what it leaves in its directory.
LEMMA FirstWrite ==
    ASSUME StoreInv, Write
    PROVE  LET w == Head(plan) IN
           /\ w \in Writes /\ w = plan[1] /\ 1 \in DOMAIN plan
           /\ store' = [store EXCEPT ![w.code] = Written(store[w.code], w)]
           /\ plan' = Tail(plan) /\ inc' = inc
           /\ plan' \in Seq(Writes)
           /\ \A k \in DOMAIN plan' : k + 1 \in DOMAIN plan /\ plan'[k] = plan[k + 1]
           /\ \A k \in DOMAIN plan' : plan'[k] \in Writes /\ k \in Nat \ {0}
  <1> DEFINE w == Head(plan)
  <1>1. plan \in Seq(Writes) /\ plan # <<>> /\ store \in [StateCodes -> Dirs]
    BY DEF StoreInv, StoreTyped, Write
  <1>2. w \in Writes /\ w = plan[1] /\ 1 \in DOMAIN plan
    BY <1>1
  <1>3. w.code \in StateCodes
    BY <1>2, WriteForms
  <1>4. store' = [store EXCEPT ![w.code] = Written(store[w.code], w)]
    BY <1>1, <1>3 DEF Write
  <1>5. plan' = Tail(plan) /\ inc' = inc
    BY DEF Write
  <1>6. plan' \in Seq(Writes)
    BY <1>1, <1>5
  <1>7. \A k \in DOMAIN plan' : k + 1 \in DOMAIN plan /\ plan'[k] = plan[k + 1] /\ k \in Nat \ {0}
    BY <1>1, <1>5
  <1>8. \A k \in DOMAIN plan' : plan'[k] \in Writes
    BY <1>6
  <1>. QED
    BY <1>2, <1>4, <1>5, <1>6, <1>7, <1>8

\* A state whose canonical files, definition and captures stay is as complete as
\* it was; a frame more among its captures does no harm.
LEMMA StaysComplete ==
    ASSUME StoreInv, NEW c \in StateCodes \ {Migrated},
           store'[c].canonBin = store[c].canonBin,
           store'[c].canonJson = store[c].canonJson,
           Status(c)' = "approved" => Status(c) = "approved",
           \/ store'[c].bins = store[c].bins
           \/ \E f \in StoreFrames : store'[c].bins = Append(store[c].bins, f),
           Status(c)' = "approved"
    PROVE  LET d == store'[c] IN
           /\ d.canonBin.present /\ d.canonJson.present
           /\ d.canonJson.source \in DOMAIN d.bins
           /\ d.canonBin.frame = d.bins[d.canonJson.source]
  <1>1. /\ store[c].canonBin.present /\ store[c].canonJson.present
        /\ store[c].canonJson.source \in DOMAIN store[c].bins
        /\ store[c].canonBin.frame = store[c].bins[store[c].canonJson.source]
    BY DEF StoreInv, ApprovedComplete
  <1>2. store[c].bins \in Seq(StoreFrames)
    BY DEF StoreInv, StoreTyped, Dirs
  <1>3. /\ DOMAIN store[c].bins \subseteq DOMAIN store'[c].bins
        /\ \A i \in DOMAIN store[c].bins : store'[c].bins[i] = store[c].bins[i]
    <2>1. CASE store'[c].bins = store[c].bins
      BY <2>1
    <2>2. ASSUME NEW f \in StoreFrames, store'[c].bins = Append(store[c].bins, f)
          PROVE  /\ DOMAIN store[c].bins \subseteq DOMAIN store'[c].bins
                 /\ \A i \in DOMAIN store[c].bins : store'[c].bins[i] = store[c].bins[i]
      BY <1>2, <2>2, AppendKeeps
    <2>. QED
      BY <2>1, <2>2
  <1>. QED
    BY <1>1, <1>3

\* One write, the next of the operation under way.
LEMMA WriteStep ==
    ASSUME StoreInv, Write
    PROVE  StoreInv' /\ KeepsFrames
  <1> DEFINE w == Head(plan)
             a == w.code
             d == store[a]
             e == Written(d, w)
  <1>1. /\ w \in Writes /\ w = plan[1] /\ 1 \in DOMAIN plan
        /\ store' = [store EXCEPT ![a] = e]
        /\ plan' = Tail(plan) /\ inc' = inc
        /\ plan' \in Seq(Writes)
        /\ \A k \in DOMAIN plan' : k + 1 \in DOMAIN plan /\ plan'[k] = plan[k + 1]
        /\ \A k \in DOMAIN plan' : plan'[k] \in Writes /\ k \in Nat \ {0}
    BY FirstWrite
  <1>2. a \in StateCodes /\ store \in [StateCodes -> Dirs] /\ d \in Dirs
    BY <1>1, WriteForms DEF StoreInv, StoreTyped
  <1>3. Next1(w) /\ (d.def.present => d.made)
    BY <1>1, <1>2 DEF StoreInv, BinsNext, DefsMade
  <1>4. /\ e \in Dirs
        /\ e.def.present => e.made
        /\ e.def = IF w.file = "def" THEN w.def ELSE d.def
        /\ e.bins = IF w.file = "bin" THEN Append(d.bins, w.frame) ELSE d.bins
        /\ e.canonBin = IF w.file = "canonBin" THEN [present |-> TRUE, frame |-> w.frame]
                        ELSE d.canonBin
        /\ e.canonJson = IF w.file = "canonJson"
                         THEN [present |-> TRUE, source |-> w.source, frame |-> w.frame]
                         ELSE d.canonJson
    BY <1>1, <1>2, <1>3, WrittenDir DEF Next1
  <1>5. \A c \in StateCodes : store'[c] = IF c = a THEN e ELSE store[c]
    BY <1>1, <1>2
  <1>6. StoreTyped'
    BY <1>1, <1>2, <1>4 DEF StoreInv, StoreTyped
  <1>7. DefsMade'
    BY <1>4, <1>5 DEF StoreInv, DefsMade
  <1>8. w.file = "bin" => w.frame \in StoreFrames
    BY <1>1, WriteForms DEF BinWrites
  <1>9. d.bins \in Seq(StoreFrames)
    BY <1>2 DEF Dirs
  <1>10. BinsNext'
    <2>1. OneBin(plan')
      <3> SUFFICES ASSUME NEW j \in DOMAIN plan', NEW k \in DOMAIN plan',
                          plan'[j].file = "bin", plan'[k].file = "bin"
                   PROVE  j = k
        BY DEF OneBin
      <3>1. j + 1 = k + 1
        BY <1>1 DEF StoreInv, BinsNext, OneBin
      <3>. QED
        BY <1>1, <3>1
    <2>2. ASSUME NEW k \in DOMAIN plan', plan'[k].file = "bin"
          PROVE  plan'[k].index = Len(store'[plan'[k].code].bins) + 1
      <3>1. k + 1 \in DOMAIN plan /\ plan'[k] = plan[k + 1] /\ k + 1 # 1
        BY <1>1
      <3>2. w.file # "bin"
        BY <1>1, <2>2, <3>1 DEF StoreInv, BinsNext, OneBin
      <3>3. plan'[k].code \in StateCodes
        BY <1>1, WriteForms
      <3>4. store'[plan'[k].code].bins = store[plan'[k].code].bins
        BY <1>4, <1>5, <3>2, <3>3
      <3>. QED
        BY <2>2, <3>1, <3>4 DEF StoreInv, BinsNext, Next1
    <2>. QED
      BY <2>1, <2>2 DEF BinsNext, Next1
  <1>11. KeepsFrames
    <2>1. w.file = "bin" => /\ DOMAIN d.bins \subseteq DOMAIN e.bins
                            /\ \A i \in DOMAIN d.bins : e.bins[i] = d.bins[i]
      <3>1. w.file = "bin" => e.bins = Append(d.bins, w.frame)
        BY <1>4
      <3>2. w.file = "bin" => /\ DOMAIN d.bins \subseteq DOMAIN Append(d.bins, w.frame)
                              /\ \A i \in DOMAIN d.bins : Append(d.bins, w.frame)[i] = d.bins[i]
        BY <1>8, <1>9, AppendKeeps
      <3>. QED
        BY <3>1, <3>2
    <2>. QED
      BY <1>4, <1>5, <2>1 DEF KeepsFrames
  <1>12. PlanShape' /\ ApprovedComplete'
    <2>1. CASE \A k \in DOMAIN plan : Harmless(plan[k])
      <3>1. PlanShape'
        BY <1>1, <2>1 DEF PlanShape, Harmless
      <3>2. Harmless(w)
        BY <1>1, <2>1
      <3>3. ASSUME NEW c \in StateCodes \ {Migrated}, Status(c)' = "approved"
            PROVE  LET x == store'[c] IN
                   /\ x.canonBin.present /\ x.canonJson.present
                   /\ x.canonJson.source \in DOMAIN x.bins
                   /\ x.canonBin.frame = x.bins[x.canonJson.source]
        <4>1. CASE c # a
          <5>1. store'[c] = store[c] /\ Status(c) = "approved"
            BY <1>5, <3>3, <4>1 DEF Status
          <5>. QED
            BY <3>3, <5>1, StaysComplete
        <4>2. CASE c = a
          <5>1. /\ store'[c].canonBin = store[c].canonBin
                /\ store'[c].canonJson = store[c].canonJson
            BY <1>4, <1>5, <3>2, <4>2 DEF Harmless
          <5>2. w.file # "def"
            BY <1>4, <1>5, <3>2, <3>3, <4>2 DEF Harmless, Status
          <5>3. Status(c) = "approved"
            BY <1>4, <1>5, <3>3, <4>2, <5>2 DEF Status
          <5>4. \/ store'[c].bins = store[c].bins
                \/ \E f \in StoreFrames : store'[c].bins = Append(store[c].bins, f)
            BY <1>4, <1>5, <1>8, <4>2
          <5>. QED
            BY <3>3, <5>1, <5>3, <5>4, StaysComplete
        <4>. QED
          BY <4>1, <4>2
      <3>4. ApprovedComplete'
        BY <3>3 DEF ApprovedComplete
      <3>. QED
        BY <3>1, <3>4
    <2>2. ASSUME NEW c \in StateCodes \ {Migrated}, NEW i \in 1..MaxCaptures,
                 NEW f \in StoreFrames, Approving(c, i, f)
          PROVE  PlanShape' /\ ApprovedComplete'
      <3>1. i \in DOMAIN store[c].bins /\ store[c].bins[i] = f
        BY <2>2 DEF Approving
      <3>2. ASSUME NEW x \in StateCodes \ {Migrated}, x # c, a = c, Status(x)' = "approved"
            PROVE  LET y == store'[x] IN
                   /\ y.canonBin.present /\ y.canonJson.present
                   /\ y.canonJson.source \in DOMAIN y.bins
                   /\ y.canonBin.frame = y.bins[y.canonJson.source]
        <4>1. store'[x] = store[x] /\ Status(x) = "approved"
          BY <1>5, <3>2 DEF Status
        <4>. QED
          BY <3>2, <4>1, StaysComplete
      <3>3. CASE /\ plan = <<WriteCanonBin(c, f), WriteCanonJson(c, i, f),
                              WriteDef(c, Def("approved", TRUE)), WriteValidation(c)>>
                 /\ Status(c) # "approved"
        <4>1. w = WriteCanonBin(c, f) /\ a = c /\ w.file = "canonBin" /\ w.frame = f
          BY <3>3 DEF WriteCanonBin
        <4>2. plan' = <<WriteCanonJson(c, i, f),
                        WriteDef(c, Def("approved", TRUE)), WriteValidation(c)>>
          <5>1. plan' = Tail(plan)
            BY <1>1
          <5>. QED
            BY <3>3, <5>1, TailOfFour, Zenon
        <4>3. /\ store'[c].bins = store[c].bins /\ store'[c].def = store[c].def
              /\ store'[c].canonBin.present /\ store'[c].canonBin.frame = f
          BY <1>4, <1>5, <4>1
        <4>4. Status(c)' # "approved"
          BY <3>3, <4>3 DEF Status
        <4>5. Approving(c, i, f)'
          BY <3>1, <4>2, <4>3, <4>4 DEF Approving
        <4>6. ApprovedComplete'
          BY <3>2, <4>1, <4>4 DEF ApprovedComplete
        <4>. QED
          BY <4>5, <4>6 DEF PlanShape
      <3>4. CASE /\ plan = <<WriteCanonJson(c, i, f),
                              WriteDef(c, Def("approved", TRUE)), WriteValidation(c)>>
                 /\ Status(c) # "approved"
                 /\ store[c].canonBin.present /\ store[c].canonBin.frame = f
        <4>1. /\ w = WriteCanonJson(c, i, f) /\ a = c /\ w.file = "canonJson"
              /\ w.source = i
          BY <3>4 DEF WriteCanonJson
        <4>2. plan' = <<WriteDef(c, Def("approved", TRUE)), WriteValidation(c)>>
          <5>1. plan' = Tail(plan)
            BY <1>1
          <5>. QED
            BY <3>4, <5>1, TailOfThree, Zenon
        <4>3. /\ store'[c].bins = store[c].bins /\ store'[c].def = store[c].def
              /\ store'[c].canonBin = store[c].canonBin
              /\ store'[c].canonJson.present /\ store'[c].canonJson.source = i
          BY <1>4, <1>5, <4>1
        <4>4. Status(c)' # "approved"
          BY <3>4, <4>3 DEF Status
        <4>5. Approving(c, i, f)'
          BY <3>1, <3>4, <4>2, <4>3 DEF Approving
        <4>6. ApprovedComplete'
          BY <3>2, <4>1, <4>4 DEF ApprovedComplete
        <4>. QED
          BY <4>5, <4>6 DEF PlanShape
      <3>5. CASE /\ plan = <<WriteDef(c, Def("approved", TRUE)), WriteValidation(c)>>
                 /\ store[c].canonBin.present /\ store[c].canonBin.frame = f
                 /\ store[c].canonJson.present /\ store[c].canonJson.source = i
        <4>1. /\ w = WriteDef(c, Def("approved", TRUE)) /\ a = c /\ w.file = "def"
          BY <3>5 DEF WriteDef
        <4>2. plan' = <<WriteValidation(c)>>
          BY <1>1, <3>5
        <4>3. /\ store'[c].bins = store[c].bins
              /\ store'[c].canonBin = store[c].canonBin
              /\ store'[c].canonJson = store[c].canonJson
          BY <1>4, <1>5, <4>1
        <4>4. \A k \in DOMAIN plan' : Harmless(plan'[k])
          BY <4>2 DEF Harmless, WriteValidation
        <4>5. ApprovedComplete'
          BY <3>1, <3>2, <3>5, <4>1, <4>3 DEF ApprovedComplete
        <4>. QED
          BY <4>4, <4>5 DEF PlanShape, Harmless
      <3>. QED
        BY <2>2, <3>3, <3>4, <3>5 DEF Approving
    <2>. QED
      BY <2>1, <2>2 DEF StoreInv, PlanShape
  <1>. QED
    BY <1>6, <1>7, <1>10, <1>11, <1>12 DEF StoreInv

\* A program that dies leaves at most a file that does not belong there.
LEMMA DieStep ==
    ASSUME StoreInv, Die
    PROVE  StoreInv' /\ KeepsFrames
  <1> DEFINE w == Head(plan)
             a == w.code
  <1>1. plan \in Seq(Writes) /\ plan # <<>> /\ store \in [StateCodes -> Dirs]
    BY DEF StoreInv, StoreTyped, Die
  <1>2. a \in StateCodes
    BY <1>1, WriteForms
  <1>3. PICK left : store' = [store EXCEPT ![a].litter = @ \/ left]
    BY DEF Die
  <1>4. plan' = <<>> /\ inc' = inc
    BY DEF Die
  <1> DEFINE e == [store[a] EXCEPT !.litter = store[a].litter \/ left]
  <1>5. store' = [store EXCEPT ![a] = e]
    BY <1>1, <1>2, <1>3
  <1>6. (store[a].litter \/ left) \in BOOLEAN
    BY Zenon
  <1>7. /\ e \in Dirs /\ e.def = store[a].def /\ e.made = store[a].made
        /\ e.bins = store[a].bins
        /\ e.canonBin = store[a].canonBin /\ e.canonJson = store[a].canonJson
    <2> DEFINE x == store[a].litter \/ left
               d == store[a]
    <2>1. d \in Dirs /\ x \in BOOLEAN
      BY <1>1, <1>2, <1>6
    <2>2. e = [d EXCEPT !.litter = x]
      OBVIOUS
    <2> HIDE DEF x, d, e
    <2>. QED
      BY <2>1, <2>2 DEF Dirs, d
  <1>8. \A c \in StateCodes :
          /\ store'[c].def = store[c].def /\ store'[c].made = store[c].made
          /\ store'[c].bins = store[c].bins
          /\ store'[c].canonBin = store[c].canonBin
          /\ store'[c].canonJson = store[c].canonJson
    BY <1>1, <1>5, <1>7
  <1>9. StoreTyped'
    <2>1. store' \in [StateCodes -> Dirs]
      BY <1>1, <1>2, <1>5, <1>7
    <2>. QED
      BY <1>4, <2>1 DEF StoreInv, StoreTyped
  <1>10. DefsMade' /\ KeepsFrames
    BY <1>8 DEF StoreInv, DefsMade, KeepsFrames
  <1>11. BinsNext' /\ PlanShape'
    BY <1>4 DEF BinsNext, OneBin, PlanShape
  <1>12. ApprovedComplete'
    BY <1>8 DEF StoreInv, ApprovedComplete, Status
  <1>. QED
    BY <1>9, <1>10, <1>11, <1>12 DEF StoreInv

\* An operation begins: nothing is written yet, its plan is typed and of one of
\* the two shapes.
LEMMA BeginStep ==
    ASSUME StoreInv, NEW s \in Seq(Writes), Begin(s), OneBin(s),
           \A k \in DOMAIN s : Next1(s[k]),
           \/ \A k \in DOMAIN s : Harmless(s[k])
           \/ PlanShape'
    PROVE  StoreInv' /\ KeepsFrames
  <1>1. plan' = s /\ UNCHANGED <<store, inc>>
    BY DEF Begin
  <1>2. StoreTyped' /\ DefsMade' /\ KeepsFrames /\ ApprovedComplete'
    BY <1>1 DEF StoreInv, StoreTyped, DefsMade, KeepsFrames, ApprovedComplete, Status
  <1>3. BinsNext'
    BY <1>1 DEF BinsNext, OneBin, Next1
  <1>4. PlanShape'
    BY <1>1 DEF PlanShape, Harmless
  <1>. QED
    BY <1>2, <1>3, <1>4 DEF StoreInv

\* The writes an operation is made of are writes.
LEMMA WritesOf ==
    /\ \A c \in StateCodes : WriteDir(c) \in Writes /\ WriteValidation(c) \in Writes
    /\ \A c \in StateCodes, d \in FileDefs : WriteDef(c, d) \in Writes
    /\ \A c \in StateCodes, i \in 1..MaxCaptures, f \in StoreFrames :
          /\ WriteBin(c, i, f) \in Writes
          /\ WriteJson(c, i, f) \in Writes
          /\ WriteCanonBin(c, f) \in Writes
          /\ WriteCanonJson(c, i, f) \in Writes
  <1>1. \A c \in StateCodes : WriteDir(c) \in PlainWrites /\ WriteValidation(c) \in PlainWrites
    BY DEF WriteDir, WriteValidation, PlainWrites
  <1>2. \A c \in StateCodes, d \in FileDefs : WriteDef(c, d) \in DefWrites
    BY DEF WriteDef, DefWrites
  <1>3. ASSUME NEW c \in StateCodes, NEW i \in 1..MaxCaptures, NEW f \in StoreFrames
        PROVE  /\ WriteBin(c, i, f) \in BinWrites
               /\ WriteJson(c, i, f) \in JsonWrites
               /\ WriteCanonBin(c, f) \in CanonBinWrites
               /\ WriteCanonJson(c, i, f) \in CanonJsonWrites
    BY DEF WriteBin, WriteJson, WriteCanonBin, WriteCanonJson, BinWrites, JsonWrites,
           CanonBinWrites, CanonJsonWrites
  <1>. QED
    BY <1>1, <1>2, <1>3, WriteForms

\* The file and the code each of them writes.
LEMMA FilesOf ==
    ASSUME NEW c, NEW i, NEW f, NEW d
    PROVE  /\ WriteDir(c).file = "dir"
           /\ WriteValidation(c).file = "validation"
           /\ WriteDef(c, d).file = "def" /\ WriteDef(c, d).def = d
           /\ WriteBin(c, i, f).file = "bin" /\ WriteBin(c, i, f).code = c
           /\ WriteBin(c, i, f).index = i
           /\ WriteJson(c, i, f).file = "json"
           /\ WriteCanonBin(c, f).file = "canonBin" /\ WriteCanonBin(c, f).code = c
           /\ WriteCanonJson(c, i, f).file = "canonJson" /\ WriteCanonJson(c, i, f).code = c
           /\ WriteDef(c, d).code = c /\ WriteJson(c, i, f).code = c
           /\ WriteDir(c).code = c /\ WriteValidation(c).code = c
  BY DEF WriteDir, WriteDef, WriteBin, WriteJson, WriteCanonBin, WriteCanonJson,
         WriteValidation

\* Four members make a sequence.
LEMMA SeqOfFour ==
    ASSUME NEW S, NEW x1 \in S, NEW x2 \in S, NEW x3 \in S, NEW x4 \in S
    PROVE  <<x1, x2, x3, x4>> \in Seq(S)
  OBVIOUS

\* So do five.
LEMMA SeqOfFive ==
    ASSUME NEW S, NEW x1 \in S, NEW x2 \in S, NEW x3 \in S, NEW x4 \in S, NEW x5 \in S
    PROVE  <<x1, x2, x3, x4, x5>> \in Seq(S)
  OBVIOUS

\* A definition that is there is one.
LEMMA PresentDef ==
    ASSUME NEW d \in Dirs, d.def.present
    PROVE  d.def \in FileDefs
  <1>1. Nothing.present = FALSE
    BY DEF Nothing
  <1>. QED
    BY <1>1 DEF Dirs

\* The elements of a concatenation.
LEMMA ConcatOf ==
    ASSUME NEW S, NEW s \in Seq(S), NEW t \in Seq(S)
    PROVE  /\ s \o t \in Seq(S) /\ Len(s) \in Nat
           /\ \A k \in DOMAIN (s \o t) :
                \/ k \in DOMAIN s /\ (s \o t)[k] = s[k]
                \/ k - Len(s) \in DOMAIN t /\ (s \o t)[k] = t[k - Len(s)]
  OBVIOUS

\* A draft is saved.
LEMMA SaveDefinitionStep ==
    ASSUME StoreInv, NEW c \in StateCodes, NEW fit \in BOOLEAN, SaveDefinition(c, fit)
    PROVE  StoreInv' /\ KeepsFrames
  <1> DEFINE s == <<WriteDef(c, Def("draft", fit))>>
  <1>1. Def("draft", fit) \in FileDefs /\ Def("draft", fit).status = "draft"
    BY DEF Def, FileDefs, FileStatus
  <1>2. s \in Seq(Writes)
    BY <1>1, WritesOf
  <1>3. \A k \in DOMAIN s : s[k].file = "def" /\ s[k].def.status = "draft"
    BY <1>1, FilesOf
  <1>4. OneBin(s) /\ \A k \in DOMAIN s : Next1(s[k]) /\ Harmless(s[k])
    BY <1>3 DEF OneBin, Next1, Harmless
  <1>5. Begin(s)
    BY DEF SaveDefinition
  <1>. QED
    BY <1>2, <1>4, <1>5, BeginStep

\* A capture is to be written.
LEMMA AddCaptureFileStep ==
    ASSUME StoreInv, NEW c \in StateCodes, NEW f \in RemoteFrames[c], AddCaptureFile(c, f)
    PROVE  StoreInv' /\ KeepsFrames
  <1> DEFINE n == NextCapture(c)
             def == Def("captured", store[c].def.fit)
             first == <<WriteBin(c, n, f), WriteJson(c, n, f), WriteValidation(c)>>
             last == IF Status(c) = "draft" THEN <<WriteDef(c, def)>> ELSE <<>>
             s == first \o last
  <1>1. f \in StoreFrames
    BY DEF StoreFrames
  <1>2. store[c] \in Dirs /\ store[c].def.present
    BY DEF StoreInv, StoreTyped, AddCaptureFile
  <1>3. n \in 1..MaxCaptures /\ n = Len(store[c].bins) + 1
    <2>1. Len(store[c].bins) \in Nat
      BY <1>2 DEF Dirs
    <2>2. n <= MaxCaptures /\ MaxCaptures \in Nat
      BY StoreAssumption DEF AddCaptureFile
    <2>. QED
      BY <2>1, <2>2 DEF NextCapture
  <1>4. def \in FileDefs /\ def.status = "captured"
    <2>1. store[c].def \in FileDefs
      BY <1>2, PresentDef
    <2>. QED
      BY <2>1 DEF Def, FileDefs, FileStatus
  <1>5. first \in Seq(Writes) /\ last \in Seq(Writes) /\ DOMAIN first = {1, 2, 3}
    <2>1. /\ WriteBin(c, n, f) \in Writes /\ WriteJson(c, n, f) \in Writes
          /\ WriteValidation(c) \in Writes /\ WriteDef(c, def) \in Writes
      BY <1>1, <1>3, <1>4, WritesOf
    <2>2. first \in Seq(Writes) /\ DOMAIN first = {1, 2, 3}
      BY <2>1
    <2>3. last \in Seq(Writes)
      BY <2>1
    <2>. QED
      BY <2>2, <2>3
  <1>6. /\ first[1].file = "bin" /\ first[1].index = n /\ first[1].code = c
        /\ first[2].file = "json" /\ first[3].file = "validation"
    BY FilesOf
  <1>7. \A k \in DOMAIN last : last[k].file = "def" /\ last[k].def.status = "captured"
    BY <1>4, FilesOf
  <1> HIDE DEF first, last, def, n
  <1>8. /\ s \in Seq(Writes)
        /\ \A k \in DOMAIN s :
             \/ k \in DOMAIN first /\ s[k] = first[k]
             \/ \E j \in DOMAIN last : s[k] = last[j]
    BY <1>5, ConcatOf
  <1>9. \A k \in DOMAIN s :
          \/ k = 1 /\ s[k].file = "bin" /\ s[k].index = n /\ s[k].code = c
          \/ s[k].file \in {"json", "validation"}
          \/ s[k].file = "def" /\ s[k].def.status = "captured"
    BY <1>5, <1>6, <1>7, <1>8
  <1>10. OneBin(s) /\ \A k \in DOMAIN s : Next1(s[k]) /\ Harmless(s[k])
    <2> HIDE DEF s
    <2>. QED
      BY <1>3, <1>9 DEF OneBin, Next1, Harmless
  <1>11. Begin(s)
    BY DEF AddCaptureFile, first, last, def, n
  <1>. QED
    BY <1>8, <1>10, <1>11, BeginStep

\* An approval is to be written.
LEMMA ApproveFileStep ==
    ASSUME StoreInv, NEW c \in StateCodes, NEW i \in 1..MaxCaptures, ApproveFile(c, i)
    PROVE  StoreInv' /\ KeepsFrames
  <1> DEFINE f == store[c].bins[i]
             def == Def("approved", TRUE)
             s == <<WriteCanonBin(c, f), WriteCanonJson(c, i, f), WriteDef(c, def),
                    WriteValidation(c)>>
  <1>1. i \in DOMAIN store[c].bins /\ f \in StoreFrames
    <2>1. store[c].bins \in Seq(StoreFrames)
      BY DEF StoreInv, StoreTyped, Dirs
    <2>. QED
      BY <2>1 DEF ApproveFile
  <1>2. def \in FileDefs
    BY DEF Def, FileDefs, FileStatus
  <1>3. s \in Seq(Writes)
    <2>1. /\ WriteCanonBin(c, f) \in Writes /\ WriteCanonJson(c, i, f) \in Writes
          /\ WriteDef(c, def) \in Writes /\ WriteValidation(c) \in Writes
      BY <1>1, <1>2, WritesOf
    <2> HIDE DEF f, def
    <2>. QED
      BY <2>1, SeqOfFour
  <1>4. \A k \in DOMAIN s : s[k].file # "bin" /\ s[k].code = c
    <2>1. DOMAIN s = {1, 2, 3, 4}
      OBVIOUS
    <2>2. /\ s[1] = WriteCanonBin(c, f) /\ s[2] = WriteCanonJson(c, i, f)
          /\ s[3] = WriteDef(c, def) /\ s[4] = WriteValidation(c)
      OBVIOUS
    <2> HIDE DEF s, f, def
    <2>. QED
      BY <2>1, <2>2, FilesOf
  <1>5. OneBin(s) /\ \A k \in DOMAIN s : Next1(s[k])
    <2> HIDE DEF s
    <2>. QED
      BY <1>4 DEF OneBin, Next1
  <1>6. Begin(s) /\ Status(c) # "approved"
    BY DEF ApproveFile, ApprovalPlan
  <1>7. plan' = s /\ store' = store
    BY <1>6 DEF Begin
  <1>8. PlanShape' \/ \A k \in DOMAIN s : Harmless(s[k])
    <2>1. CASE c = Migrated
      <3> HIDE DEF s
      <3>. QED
        BY <1>4, <2>1 DEF Harmless
    <2>2. CASE c # Migrated
      <3>1. Approving(c, i, f)'
        BY <1>1, <1>6, <1>7 DEF Approving, Status
      <3>. QED
        BY <1>1, <1>7, <2>2, <3>1 DEF PlanShape
    <2>. QED
      BY <2>1, <2>2
  <1>. QED
    BY <1>3, <1>5, <1>6, <1>8, BeginStep

\* A fork is to be written.
LEMMA ForkFileStep ==
    ASSUME StoreInv, NEW c \in StateCodes, ForkFile(c)
    PROVE  StoreInv' /\ KeepsFrames
  <1>1. PICK n \in StateCodes, fit \in {FALSE, store[c].def.fit} :
          Begin(<<WriteDir(n), WriteDef(n, Def("draft", fit))>>)
    BY DEF ForkFile
  <1> DEFINE def == Def("draft", fit)
             s == <<WriteDir(n), WriteDef(n, def)>>
  <1>2. store[c].def \in FileDefs
    <2>1. store[c] \in Dirs /\ store[c].def.present
      BY DEF ForkFile, Status, StoreInv, StoreTyped
    <2>. QED
      BY <2>1, PresentDef
  <1>3. fit \in BOOLEAN
    BY <1>2 DEF FileDefs
  <1>4. def \in FileDefs /\ def.status = "draft"
    BY <1>3 DEF Def, FileDefs, FileStatus
  <1>5. s \in Seq(Writes)
    <2>1. WriteDir(n) \in Writes /\ WriteDef(n, def) \in Writes
      BY <1>4, WritesOf
    <2>. QED
      BY <2>1
  <1>6. \A k \in DOMAIN s : \/ s[k].file = "dir"
                            \/ s[k].file = "def" /\ s[k].def.status = "draft"
    BY <1>4, FilesOf
  <1>7. OneBin(s) /\ \A k \in DOMAIN s : Next1(s[k]) /\ Harmless(s[k])
    <2> HIDE DEF s
    <2>. QED
      BY <1>6 DEF OneBin, Next1, Harmless
  <1>. QED
    BY <1>1, <1>5, <1>7, BeginStep

\* Its plan writes one state only, and a capture only when there is none yet.
LEMMA MigrateExistingStep ==
    ASSUME StoreInv, MigrateExisting
    PROVE  StoreInv' /\ KeepsFrames
  <1> DEFINE m == Migrated
             frames == store[m].bins
             def == WriteDef(m, Def("approved", TRUE))
             head == <<def>>
             bin == WriteBin(m, 1, Frame002)
             capture == IF frames = <<>> THEN <<bin>> ELSE <<>>
             hc == head \o capture
             rest == <<WriteCanonBin(m, Frame002), WriteJson(m, 1, Frame002),
                       WriteCanonJson(m, 1, Frame002), def, WriteValidation(m)>>
  <1>1. Migrated \in StateCodes /\ Frame002 \in StoreFrames /\ 1 \in 1..MaxCaptures
    <2>1. \A n \in Nat \ {0} : 1 \in 1..n
      OBVIOUS
    <2>2. Migrated \in StateCodes /\ MaxCaptures \in Nat \ {0}
      BY StoreAssumption
    <2>3. Frame002 \in StoreFrames
      BY DEF StoreFrames
    <2>. QED
      BY <2>1, <2>2, <2>3
  <1>2. Def("approved", TRUE) \in FileDefs
    BY DEF Def, FileDefs, FileStatus
  <1>3. def \in Writes /\ bin \in Writes
    BY <1>1, <1>2, WritesOf
  <1>4. rest \in Seq(Writes)
    <2>1. /\ WriteCanonBin(m, Frame002) \in Writes /\ WriteJson(m, 1, Frame002) \in Writes
          /\ WriteCanonJson(m, 1, Frame002) \in Writes /\ WriteValidation(m) \in Writes
      BY <1>1, WritesOf
    <2> HIDE DEF def
    <2>. QED
      BY <1>3, <2>1, SeqOfFive
  <1>5. def.file = "def" /\ def.code = m
        /\ bin.file = "bin" /\ bin.code = m /\ bin.index = 1
    BY DEF WriteDef, WriteBin
  <1>6. \A k \in DOMAIN rest : rest[k].file # "bin" /\ rest[k].code = m
    <2>1. DOMAIN rest = {1, 2, 3, 4, 5}
      OBVIOUS
    <2>2. /\ rest[1] = WriteCanonBin(m, Frame002) /\ rest[2] = WriteJson(m, 1, Frame002)
          /\ rest[3] = WriteCanonJson(m, 1, Frame002) /\ rest[4] = def
          /\ rest[5] = WriteValidation(m)
      OBVIOUS
    <2> HIDE DEF rest, def
    <2>. QED
      BY <1>5, <2>1, <2>2, FilesOf
  <1>7. \/ Begin(head) \/ Begin(hc) \/ Begin(hc \o rest)
    BY DEF MigrateExisting
  <1>8. /\ head \in Seq(Writes) /\ DOMAIN head = {1} /\ head[1] = def /\ Len(head) = 1
        /\ capture \in Seq(Writes)
        /\ \A k \in DOMAIN capture : k = 1 /\ capture[k] = bin /\ frames = <<>>
    <2> HIDE DEF def, bin, frames
    <2>1. head \in Seq(Writes) /\ DOMAIN head = {1} /\ head[1] = def /\ Len(head) = 1
      BY <1>3
    <2>2. capture \in Seq(Writes)
      BY <1>3
    <2>3. \A k \in DOMAIN capture : k = 1 /\ capture[k] = bin /\ frames = <<>>
      OBVIOUS
    <2>. QED
      BY <2>1, <2>2, <2>3
  <1> DEFINE Fits(s) ==
        /\ s \in Seq(Writes)
        /\ \A k \in DOMAIN s :
             s[k].code = m /\ (s[k].file = "bin" => k = 2 /\ s[k].index = 1 /\ frames = <<>>)
  <1>9. Fits(head) /\ Fits(hc)
    <2> HIDE DEF def, bin, frames, m, head, capture
    <2>1. Fits(head)
      BY <1>5, <1>8
    <2>2. /\ hc \in Seq(Writes)
          /\ \A k \in DOMAIN hc :
               \/ k \in DOMAIN head /\ hc[k] = head[k]
               \/ k - 1 \in DOMAIN capture /\ hc[k] = capture[k - 1]
      BY <1>8, ConcatOf
    <2>3. \A k \in DOMAIN hc : k \in Nat
      BY <2>2
    <2> HIDE DEF hc
    <2>4. Fits(hc)
      BY <1>5, <1>8, <2>2, <2>3
    <2>. QED
      BY <2>1, <2>4
  <1>10. Fits(hc \o rest)
    <2> HIDE DEF def, bin, frames, hc, m, rest
    <2>1. hc \in Seq(Writes)
      BY <1>9
    <2>2. /\ hc \o rest \in Seq(Writes)
          /\ \A k \in DOMAIN (hc \o rest) :
               \/ k \in DOMAIN hc /\ (hc \o rest)[k] = hc[k]
               \/ \E j \in DOMAIN rest : (hc \o rest)[k] = rest[j]
      BY <1>4, <2>1, ConcatOf
    <2>. QED
      BY <1>6, <1>9, <2>2
  <1>11. ASSUME NEW s, Fits(s), Begin(s)
         PROVE  StoreInv' /\ KeepsFrames
    <2>1. frames = <<>> => Len(store[m].bins) = 0
      OBVIOUS
    <2> HIDE DEF frames
    <2>2. OneBin(s)
      BY <1>11 DEF OneBin
    <2>3. \A k \in DOMAIN s : Next1(s[k])
      BY <1>11, <2>1 DEF Next1
    <2>4. \A k \in DOMAIN s : Harmless(s[k])
      BY <1>11 DEF Harmless
    <2>. QED
      BY <1>11, <2>2, <2>3, <2>4, BeginStep
  <1> HIDE DEF Fits, head, hc, rest
  <1>. QED
    BY <1>7, <1>9, <1>10, <1>11

\* What changes neither a directory nor the plan keeps the invariant.
LEMMA StoreStays ==
    ASSUME StoreInv, UNCHANGED <<store, plan>>,
           inc' \subseteq [code : StateCodes, frame : StoreFrames]
    PROVE  StoreInv' /\ KeepsFrames
  <1>1. StoreTyped' /\ DefsMade' /\ KeepsFrames
    BY DEF StoreInv, StoreTyped, DefsMade, KeepsFrames
  <1>2. BinsNext'
    BY DEF StoreInv, BinsNext, OneBin, Next1
  <1>3. PlanShape'
    <2>1. CASE \A k \in DOMAIN plan : Harmless(plan[k])
      BY <2>1 DEF PlanShape, Harmless
    <2>2. ASSUME NEW c \in StateCodes \ {Migrated}, NEW i \in 1..MaxCaptures,
                 NEW f \in StoreFrames, Approving(c, i, f)
          PROVE  PlanShape'
      <3>1. Approving(c, i, f)'
        BY <2>2 DEF Approving, Status
      <3>. QED
        BY <3>1 DEF PlanShape
    <2>. QED
      BY <2>1, <2>2 DEF StoreInv, PlanShape
  <1>4. ApprovedComplete'
    BY DEF StoreInv, ApprovedComplete, Status
  <1>. QED
    BY <1>1, <1>2, <1>3, <1>4 DEF StoreInv

\* Every approved directory is there and holds a canonical frame.
LEMMA GenerateFileStep ==
    ASSUME StoreInv, GenerateFile
    PROVE  StoreInv' /\ KeepsFrames
  <1>1. ASSUME NEW c \in StateCodes, Status(c) = "approved"
        PROVE  store[c].canonBin.frame \in StoreFrames
    <2>1. store[c] \in Dirs /\ store[c].def.present /\ store[c].made
      BY <1>1 DEF Status, StoreInv, StoreTyped, DefsMade
    <2>2. store[c].def.status = "approved"
      BY <1>1, <2>1 DEF Status
    <2>3. store[c].canonBin.present
      BY <2>1, <2>2 DEF GenerateFile, StoreValid, DirValid
    <2>4. Nothing.present = FALSE
      BY DEF Nothing
    <2>. QED
      BY <2>1, <2>3, <2>4 DEF Dirs
  <1>2. inc' = {[code |-> c, frame |-> store[c].canonBin.frame] :
                  c \in {x \in StateCodes : Status(x) = "approved"}}
        /\ UNCHANGED <<store, plan>>
    BY DEF GenerateFile
  <1>3. inc' \subseteq [code : StateCodes, frame : StoreFrames]
    BY <1>1, <1>2
  <1>. QED
    BY <1>2, <1>3, StoreStays

------------------------------------------------------------------------------
(* The theorems of the file store. *)

\* Every step keeps the invariant.
LEMMA StoreNextStep ==
    ASSUME StoreInv, [StoreNext]_storeVars
    PROVE  StoreInv' /\ KeepsFrames
  <1>1. CASE UNCHANGED storeVars
    BY <1>1, StoreStays DEF storeVars, StoreInv, StoreTyped
  <1>2. CASE StoreNext
    BY <1>2, WriteStep, DieStep, MigrateExistingStep, GenerateFileStep,
       SaveDefinitionStep, AddCaptureFileStep, ApproveFileStep, ForkFileStep DEF StoreNext
  <1>. QED
    BY <1>1, <1>2

\* The invariant of the file store.
THEOREM StoreInductive == StoreSpec => []StoreInv
  <1>1. StoreInv /\ [StoreNext]_storeVars => StoreInv'
    BY StoreNextStep
  <1>. QED
    BY <1>1, StoreInitInv, PTL DEF StoreSpec

\* The files of the store keep their types.
THEOREM StoreTypes == StoreSpec => []StoreTypeOK
  <1>1. StoreInv => StoreTypeOK
    <2> SUFFICES ASSUME StoreInv PROVE StoreTypeOK
      OBVIOUS
    <2>1. ASSUME NEW c \in StateCodes
          PROVE  /\ store[c].bins \in Seq(StoreFrames)
                 /\ store[c].jsons \subseteq ((1..MaxCaptures) \X StoreFrames)
                 /\ Status(c) \in {"none", "draft", "captured", "approved"}
      <3>1. store[c] \in Dirs
        BY DEF StoreInv, StoreTyped
      <3>2. store[c].def.present => store[c].def \in FileDefs
        BY <3>1, PresentDef
      <3>3. Status(c) \in {"none", "draft", "captured", "approved"}
        BY <3>2 DEF Status, FileDefs, FileStatus
      <3>. QED
        BY <3>1, <3>3 DEF Dirs
    <2>2. \A k \in DOMAIN plan : plan[k].code \in StateCodes
      <3>1. \A k \in DOMAIN plan : plan[k] \in Writes
        BY DEF StoreInv, StoreTyped
      <3>. QED
        BY <3>1, WriteForms
    <2>3. \A e \in inc : e.code \in StateCodes /\ e.frame \in StoreFrames
      BY DEF StoreInv, StoreTyped
    <2>. QED
      BY <2>1, <2>2, <2>3 DEF StoreTypeOK
  <1>. QED
    BY <1>1, StoreInductive, PTL

\* Wherever a program died, an approved state has its canonical frame, and it is
\* the frame of the capture it names.
THEOREM ApprovalsComplete == StoreSpec => []ApprovedComplete
  <1>1. StoreInv => ApprovedComplete
    BY DEF StoreInv
  <1>. QED
    BY <1>1, StoreInductive, PTL

\* No crash and no retry replaces a frame that was recorded.
THEOREM FramesStay == StoreSpec => FramesKept
  <1>1. StoreInv /\ [StoreNext]_storeVars =>
          [\A c \in StateCodes : \A i \in DOMAIN store[c].bins :
             i \in DOMAIN store'[c].bins /\ store'[c].bins[i] = store[c].bins[i]]_storeVars
    BY StoreNextStep DEF KeepsFrames
  <1>. QED
    BY <1>1, StoreInductive, PTL DEF StoreSpec, FramesKept

------------------------------------------------------------------------------
(* The learned states: what the window, the files, the generator and the    *)
(* table hold, every frame by the number of the capture that brought it.    *)

Known == 1..Len(owner)
Frame0 == {NoFrameYet} \cup Known
PutFiles == {"state.json", "capture.bin", "capture.json", "window", "canonical.bin",
             "canonical.json", "comparison.json"}
Puts == [state : States, file : PutFiles, slot : KeepSlots \cup {1}, value : Frame0]
Folder == [described : BOOLEAN, bins : [KeepSlots -> Frame0], canonicalBin : Frame0,
           canonicalJson : [source : KeepSlots \cup {0}, sha : Frame0]]

\* A capture goes into the directory of the state it was made for; a canonical
\* description names a slot and a frame there is.
GoodPut(w) ==
    /\ w.file = "capture.bin" => w.value \in Known /\ owner[w.value] = w.state
    /\ w.file = "canonical.json" => w.value \in Known
    /\ w.file \in {"capture.bin", "canonical.json", "window"} => w.slot \in KeepSlots
GoodFolder(s) ==
    /\ \A i \in KeepSlots : LET n == folders[s].bins[i] IN
          n # NoFrameYet => n \in Known /\ owner[n] = s
    /\ folders[s].canonicalJson # NotChosen =>
          folders[s].canonicalJson.sha \in Known /\ folders[s].canonicalJson.source \in KeepSlots

PutsGood == \A k \in DOMAIN todo : GoodPut(todo[k])

WindowInv ==
    /\ form \in States
    /\ owner \in Seq(States) /\ Len(owner) <= MaxFrames
    /\ shown \in [KeepSlots -> Frame0]
    /\ todo \in Seq(Puts) /\ PutsGood
    /\ folders \in [States -> Folder] /\ \A s \in States : GoodFolder(s)

\* The frames of a list are those of the states in their order.
InOrder(frames) ==
    /\ frames \in Seq(Known)
    /\ \A k \in DOMAIN frames : k \in DOMAIN STATES /\ owner[frames[k]] = STATES[k]

GenInv ==
    /\ DOMAIN gen = {"pc", "at", "json", "data", "entries"}
    /\ gen.pc \in {"idle", "json", "bin", "source", "emit", "written"}
    /\ gen.pc = "idle" => gen = IdleGen
    /\ gen.pc \in {"json", "bin", "source"} => gen.at \in 1..Len(STATES)
    /\ gen.pc \in {"emit", "written"} => gen.at = Len(STATES) + 1
    /\ gen.pc \in {"bin", "source"} =>
         gen.json.sha \in Known /\ gen.json.source \in KeepSlots
    /\ gen.pc = "source" => gen.data = gen.json.sha
    /\ InOrder(gen.entries) /\ Len(gen.entries) = gen.at - 1

TableInv ==
    /\ table.kind \in {"none", "torn", "whole"}
    /\ InOrder(table.frames)
    /\ table.kind = "whole" => Len(table.frames) = Len(STATES)

\* The hashes gen_ir_code.py read are listed, and stay so.
FixedInv ==
    /\ fixed \in [bin : {1, 2}, listed : SUBSET {1, 2}, source : {0, 1, 2},
                  pc : {"idle", "manifest", "check"}, data : {0, 1, 2},
                  shas : SUBSET {1, 2}, match : {"none", "N/A", "TRUE"}]
    /\ fixed.shas \subseteq fixed.listed
    /\ fixed.match = "TRUE" => fixed.source \in fixed.listed

LearnedInv == WindowInv /\ GenInv /\ TableInv /\ FixedInv

------------------------------------------------------------------------------
\* The states in their order: there is at least one.
LEMMA TheStates ==
    ASSUME NEW s \in States
    PROVE  STATES \in Seq(States) /\ Len(STATES) \in Nat \ {0}
           /\ DOMAIN STATES = 1..Len(STATES)
  <1>1. STATES \in Seq(States) /\ Len(STATES) = Cardinality(States)
    BY LearnedAssumption, SetToSeqOf DEF STATES
  <1>2. Cardinality(States) \in Nat /\ (Cardinality(States) = 0 <=> States = {})
    BY LearnedAssumption, FS_CardinalityType, FS_EmptySet
  <1>. QED
    BY <1>1, <1>2

\* The invariant holds in the beginning.
LEMMA LearnedInitInv == LearnedInit => LearnedInv
  <1> SUFFICES ASSUME LearnedInit PROVE LearnedInv
    OBVIOUS
  <1> USE DEF LearnedInit
  <1>1. owner = <<>> /\ Len(owner) = 0 /\ owner \in Seq(States)
    OBVIOUS
  <1>2. NoFrameYet \in Frame0
    BY DEF Frame0
  <1>3. EmptyDir \in Folder /\ EmptyDir.canonicalJson = NotChosen
        /\ \A i \in KeepSlots : EmptyDir.bins[i] = NoFrameYet
    <2>1. NotChosen \in [source : KeepSlots \cup {0}, sha : Frame0]
      BY <1>2 DEF NotChosen
    <2>. QED
      BY <1>2, <2>1 DEF EmptyDir, Folder
  <1>4. WindowInv
    <2>1. Len(owner) <= MaxFrames
      BY <1>1, LearnedAssumption
    <2>2. \A s \in States : folders[s] = EmptyDir
      OBVIOUS
    <2>3. \A s \in States : GoodFolder(s)
      BY <1>3, <2>2 DEF GoodFolder
    <2>. QED
      BY <1>1, <1>2, <1>3, <2>1, <2>3 DEF WindowInv, PutsGood
  <1>5. InOrder(<<>>)
    BY DEF InOrder
  <1>6. GenInv /\ TableInv
    BY <1>5 DEF GenInv, TableInv, IdleGen, NoTable
  <1>7. FixedInv
    BY DEF FixedInv
  <1>. QED
    BY <1>4, <1>6, <1>7 DEF LearnedInv

\* What is known stays known when captures are added.
LEMMA InOrderStays ==
    ASSUME NEW frames, InOrder(frames), Known \subseteq Known',
           \A n \in Known : owner'[n] = owner[n]
    PROVE  InOrder(frames)'
  <1>1. \A k \in DOMAIN frames : frames[k] \in Known
    BY DEF InOrder
  <1>2. frames \in Seq(Known')
    BY DEF InOrder
  <1>. QED
    BY <1>1, <1>2 DEF InOrder

\* What was generated stays in order while more frames become known.
LEMMA TablesStay ==
    ASSUME LearnedInv, Known \subseteq Known', \A n \in Known : owner'[n] = owner[n],
           UNCHANGED <<gen, table, fixed>>
    PROVE  GenInv' /\ TableInv' /\ FixedInv'
  <1>1. InOrder(gen.entries)' /\ InOrder(table.frames)'
    BY InOrderStays DEF LearnedInv, GenInv, TableInv, InOrder
  <1>2. GenInv'
    BY <1>1 DEF LearnedInv, GenInv
  <1>3. TableInv' /\ FixedInv'
    BY <1>1 DEF LearnedInv, TableInv, FixedInv
  <1>. QED
    BY <1>2, <1>3

\* The window's variables while no capture is added.
LEMMA WindowStep ==
    ASSUME LearnedInv, UNCHANGED <<owner, folders, gen, table, fixed>>,
           form' \in States, shown' \in [KeepSlots -> Frame0],
           todo' \in Seq(Puts), \A k \in DOMAIN todo' : GoodPut(todo'[k])
    PROVE  LearnedInv'
  <1>1. Known' = Known /\ Frame0' = Frame0 /\ Puts' = Puts /\ Folder' = Folder
    BY DEF Known, Frame0, Puts, Folder
  <1>2. \A s \in States : GoodFolder(s)'
    BY <1>1 DEF LearnedInv, WindowInv, GoodFolder
  <1>3. PutsGood'
    BY <1>1 DEF PutsGood, GoodPut
  <1>4. WindowInv'
    BY <1>1, <1>2, <1>3 DEF LearnedInv, WindowInv
  <1>5. GenInv' /\ TableInv' /\ FixedInv'
    BY <1>1, TablesStay
  <1>. QED
    BY <1>4, <1>5 DEF LearnedInv

\* Another state is chosen in the form.
LEMMA OnPresetStep ==
    ASSUME LearnedInv, NEW s \in States, OnPreset(s)
    PROVE  LearnedInv'
  BY WindowStep DEF OnPreset, LearnedInv, WindowInv, PutsGood

\* What a write of the window is made of.
LEMMA PutForm ==
    ASSUME NEW s \in States, NEW file \in PutFiles, NEW i \in KeepSlots \cup {1},
           NEW n \in Frame0
    PROVE  /\ Put(s, file, i, n) \in Puts
           /\ Put(s, file, i, n).file = file /\ Put(s, file, i, n).slot = i
           /\ Put(s, file, i, n).value = n /\ Put(s, file, i, n).state = s
  BY DEF Put, Puts

\* A capture on show is to be made canonical.
LEMMA ApproveLearnedStep ==
    ASSUME LearnedInv, NEW i \in KeepSlots, Approve(i)
    PROVE  LearnedInv'
  <1> DEFINE n == shown[i]
             w1 == Put(form, "canonical.bin", i, n)
             w2 == Put(form, "canonical.json", i, n)
  <1>1. n \in Known /\ form \in States
    BY DEF Approve, LearnedInv, WindowInv, Frame0
  <1>2. n \in Frame0
    BY <1>1 DEF Frame0
  <1>3. /\ w1 \in Puts /\ w1.file = "canonical.bin"
        /\ w2 \in Puts /\ w2.file = "canonical.json" /\ w2.slot = i /\ w2.value = n
    BY <1>1, <1>2, PutForm DEF PutFiles
  <1>4. GoodPut(w1) /\ GoodPut(w2)
    BY <1>1, <1>3 DEF GoodPut
  <1>5. todo' = <<w1, w2>> /\ UNCHANGED <<form, shown, owner, folders, gen, table, fixed>>
    BY DEF Approve
  <1> HIDE DEF w1, w2
  <1>6. todo' \in Seq(Puts) /\ \A k \in DOMAIN todo' : GoodPut(todo'[k])
    BY <1>3, <1>4, <1>5
  <1>7. form' \in States /\ shown' \in [KeepSlots -> Frame0]
    BY <1>5 DEF LearnedInv, WindowInv
  <1>. QED
    BY <1>5, <1>6, <1>7, WindowStep

\* The comparison of the captures is to be written.
LEMMA CompareStep ==
    ASSUME LearnedInv, Compare
    PROVE  LearnedInv'
  <1> DEFINE w == Put(form, "comparison.json", 1, NoFrameYet)
  <1>1. form \in States /\ NoFrameYet \in Frame0
    BY DEF LearnedInv, WindowInv, Frame0
  <1>2. w \in Puts /\ w.file = "comparison.json"
    BY <1>1, PutForm DEF PutFiles
  <1>3. GoodPut(w)
    BY <1>2 DEF GoodPut
  <1>4. todo' = <<w>> /\ UNCHANGED <<form, shown, owner, folders, gen, table, fixed>>
    BY DEF Compare
  <1> HIDE DEF w
  <1>5. todo' \in Seq(Puts) /\ \A k \in DOMAIN todo' : GoodPut(todo'[k])
    BY <1>2, <1>3, <1>4
  <1>6. form' \in States /\ shown' \in [KeepSlots -> Frame0]
    BY <1>4 DEF LearnedInv, WindowInv
  <1>. QED
    BY <1>4, <1>5, <1>6, WindowStep

\* A write fails, or the window closes: the rest is not written.
LEMMA DropStep ==
    ASSUME LearnedInv, WriteFails \/ CloseLearner
    PROVE  LearnedInv'
  <1>1. /\ todo' = <<>> /\ UNCHANGED <<form, owner, folders, gen, table, fixed>>
        /\ shown' = shown \/ shown' = [j \in KeepSlots |-> NoFrameYet]
    BY DEF WriteFails, CloseLearner
  <1>2. form' \in States /\ shown' \in [KeepSlots -> Frame0]
    BY <1>1 DEF LearnedInv, WindowInv, Frame0
  <1>3. todo' \in Seq(Puts) /\ \A k \in DOMAIN todo' : GoodPut(todo'[k])
    BY <1>1
  <1>. QED
    BY <1>1, <1>2, <1>3, WindowStep

\* A new capture has the next number and belongs to the state of the form.
LEMMA OwnerGrows ==
    ASSUME LearnedInv, NEW i \in KeepSlots, DoSave(i)
    PROVE  LET n == Len(owner) + 1 IN
           /\ owner' \in Seq(States) /\ Len(owner') <= MaxFrames
           /\ Known' = Known \cup {n} /\ Frame0' = Frame0 \cup {n}
           /\ owner'[n] = form /\ \A m \in Known : owner'[m] = owner[m]
  <1>1. /\ owner \in Seq(States) /\ form \in States /\ owner' = Append(owner, form)
        /\ Len(owner) < MaxFrames /\ MaxFrames \in Nat
    BY LearnedAssumption DEF LearnedInv, WindowInv, DoSave
  <1>2. /\ owner' \in Seq(States) /\ Len(owner') = Len(owner) + 1 /\ Len(owner) \in Nat
        /\ owner'[Len(owner) + 1] = form
        /\ \A m \in 1..Len(owner) : owner'[m] = owner[m]
    BY <1>1
  <1>3. 1..(Len(owner) + 1) = 1..Len(owner) \cup {Len(owner) + 1}
    BY <1>2
  <1>. QED
    BY <1>1, <1>2, <1>3 DEF Known, Frame0

\* A capture is to be saved.
LEMMA DoSaveStep ==
    ASSUME LearnedInv, NEW i \in KeepSlots, DoSave(i)
    PROVE  LearnedInv'
  <1> DEFINE n == Len(owner) + 1
             w1 == Put(form, "state.json", i, n)
             w2 == Put(form, "capture.bin", i, n)
             w3 == Put(form, "capture.json", i, n)
             w4 == Put(form, "window", i, n)
  <1>1. /\ owner' \in Seq(States) /\ Len(owner') <= MaxFrames
        /\ Known' = Known \cup {n} /\ Frame0' = Frame0 \cup {n}
        /\ owner'[n] = form /\ \A m \in Known : owner'[m] = owner[m]
    BY OwnerGrows
  <1>2. /\ todo' = <<w1, w2, w3, w4>>
        /\ UNCHANGED <<form, shown, folders, gen, table, fixed>>
    BY DEF DoSave, SaveState
  <1>3. form \in States
    BY DEF LearnedInv, WindowInv
  <1>4. /\ w1 \in Puts' /\ w1.file = "state.json"
        /\ w2 \in Puts' /\ w2.file = "capture.bin" /\ w2.slot = i /\ w2.value = n
        /\ w2.state = form
        /\ w3 \in Puts' /\ w3.file = "capture.json"
        /\ w4 \in Puts' /\ w4.file = "window" /\ w4.slot = i
    <2> HIDE DEF n
    <2>1. n \in Frame0'
      BY <1>1
    <2>. QED
      BY <1>3, <2>1 DEF Put, Puts, PutFiles
  <1> HIDE DEF n, w1, w2, w3, w4
  <1>5. \A w \in {w1, w2, w3, w4} :
          /\ w.file = "capture.bin" => w.value \in Known' /\ owner'[w.value] = w.state
          /\ w.file = "canonical.json" => w.value \in Known'
          /\ w.file \in {"capture.bin", "canonical.json", "window"} => w.slot \in KeepSlots
    <2>1. n \in Known'
      BY <1>1
    <2>. QED
      BY <1>1, <1>4, <2>1 DEF GoodPut, n, w1, w2, w3, w4
  <1>6. todo' \in Seq(Puts)' /\ PutsGood'
    <2>1. todo' \in Seq(Puts')
      BY <1>2, <1>4, SeqOfFour
    <2>2. \A k \in DOMAIN todo' : k = 1 \/ k = 2 \/ k = 3 \/ k = 4
      BY <1>2
    <2>3. todo'[1] = w1 /\ todo'[2] = w2 /\ todo'[3] = w3 /\ todo'[4] = w4
      BY <1>2
    <2>4. PutsGood'
      BY <1>5, <2>2, <2>3 DEF PutsGood, GoodPut
    <2>. QED
      BY <2>1, <2>4
  <1>7. folders' \in [States -> Folder']
    <2>1. ASSUME NEW d \in Folder PROVE d \in Folder'
      BY <1>1 DEF Folder
    <2>. QED
      BY <1>2, <2>1 DEF LearnedInv, WindowInv
  <1>8. \A s \in States : GoodFolder(s)'
    BY <1>1, <1>2 DEF LearnedInv, WindowInv, GoodFolder
  <1>9. shown' \in [KeepSlots -> Frame0']
    BY <1>1, <1>2 DEF LearnedInv, WindowInv
  <1>10. WindowInv'
    BY <1>1, <1>2, <1>3, <1>6, <1>7, <1>8, <1>9 DEF WindowInv
  <1>11. GenInv' /\ TableInv' /\ FixedInv'
    BY <1>1, <1>2, TablesStay
  <1>. QED
    BY <1>10, <1>11 DEF LearnedInv

\* A file is replaced: the directory stays good, a canonical description there
\* is names a frame.
LEMMA AtomicWriteStep ==
    ASSUME LearnedInv, AtomicWrite
    PROVE  LearnedInv'
  <1> DEFINE w == Head(todo)
             a == w.state
             d == folders[a]
             e == AfterPut(d, w)
  <1>1. todo \in Seq(Puts) /\ todo # <<>>
    BY DEF AtomicWrite, LearnedInv, WindowInv
  <1>2. w \in Puts /\ w = todo[1] /\ 1 \in DOMAIN todo
    BY <1>1
  <1>3. GoodPut(w) /\ a \in States /\ w.value \in Frame0 /\ w.file \in PutFiles
    BY <1>2 DEF LearnedInv, WindowInv, PutsGood, Puts
  <1>4. folders \in [States -> Folder] /\ d \in Folder /\ GoodFolder(a)
    BY <1>3 DEF LearnedInv, WindowInv
  <1>5. /\ folders' = [folders EXCEPT ![a] = e]
        /\ shown' = IF w.file = "window" THEN [shown EXCEPT ![w.slot] = w.value] ELSE shown
        /\ todo' = Tail(todo)
        /\ UNCHANGED <<form, owner, gen, table, fixed>>
    BY <1>3, <1>4 DEF AtomicWrite
  <1>6. Known' = Known /\ Frame0' = Frame0 /\ Puts' = Puts /\ Folder' = Folder
    BY <1>5 DEF Known, Frame0, Puts, Folder
  <1>7. e \in Folder /\ (\A i \in KeepSlots : e.bins[i] # NoFrameYet =>
                             e.bins[i] \in Known /\ owner[e.bins[i]] = a)
        /\ (e.canonicalJson # NotChosen =>
               e.canonicalJson.sha \in Known /\ e.canonicalJson.source \in KeepSlots)
    <2>1. CASE w.file = "capture.bin"
      <3>1. e = [d EXCEPT !.bins = [@ EXCEPT ![w.slot] = w.value]] /\ w.slot \in KeepSlots
            /\ w.value \in Known /\ owner[w.value] = a
        BY <1>3, <2>1 DEF AfterPut, GoodPut
      <3>2. d.bins \in [KeepSlots -> Frame0]
        BY <1>4 DEF Folder
      <3>3. e.bins = [d.bins EXCEPT ![w.slot] = w.value]
            /\ e.bins \in [KeepSlots -> Frame0] /\ e.canonicalJson = d.canonicalJson
            /\ e.described = d.described /\ e.canonicalBin = d.canonicalBin
        BY <1>3, <1>4, <3>1, <3>2 DEF Folder
      <3>4. e \in Folder
        BY <1>4, <3>1, <3>3 DEF Folder
      <3>5. \A i \in KeepSlots : e.bins[i] = IF i = w.slot THEN w.value ELSE d.bins[i]
        BY <3>2, <3>3
      <3>. QED
        BY <1>4, <3>1, <3>3, <3>4, <3>5 DEF GoodFolder
    <2>2. CASE w.file = "canonical.json"
      <3>1. e = [d EXCEPT !.canonicalJson = [source |-> w.slot, sha |-> w.value]]
        BY <2>2 DEF AfterPut
      <3>2. w.slot \in KeepSlots /\ w.value \in Known
        BY <1>3, <2>2 DEF GoodPut
      <3>3. [source |-> w.slot, sha |-> w.value] \in [source : KeepSlots \cup {0}, sha : Frame0]
        BY <1>3, <3>2
      <3>4. e \in Folder /\ e.bins = d.bins
            /\ e.canonicalJson = [source |-> w.slot, sha |-> w.value]
        BY <1>4, <3>1, <3>3 DEF Folder
      <3>. QED
        BY <1>4, <3>2, <3>4 DEF GoodFolder
    <2>3. CASE w.file \notin {"capture.bin", "canonical.json"}
      <3>1. e \in {d, [d EXCEPT !.described = TRUE], [d EXCEPT !.canonicalBin = w.value]}
        BY <2>3 DEF AfterPut
      <3>2. e \in Folder /\ e.bins = d.bins /\ e.canonicalJson = d.canonicalJson
        BY <1>3, <1>4, <3>1 DEF Folder
      <3>. QED
        BY <1>4, <3>2 DEF GoodFolder
    <2>. QED
      BY <2>1, <2>2, <2>3
  <1>8. \A s \in States : folders'[s] = IF s = a THEN e ELSE folders[s]
    BY <1>4, <1>5
  <1>9. folders' \in [States -> Folder] /\ \A s \in States : GoodFolder(s)'
    BY <1>4, <1>5, <1>6, <1>7, <1>8 DEF LearnedInv, WindowInv, GoodFolder
  <1>10. shown' \in [KeepSlots -> Frame0]
    BY <1>3, <1>5 DEF LearnedInv, WindowInv, GoodPut
  <1>11. todo' \in Seq(Puts) /\ PutsGood'
    <2>1. todo' \in Seq(Puts)
          /\ \A k \in DOMAIN todo' : k + 1 \in DOMAIN todo /\ todo'[k] = todo[k + 1]
      BY <1>1, <1>5
    <2>2. \A k \in DOMAIN todo' : GoodPut(todo'[k])
      BY <2>1 DEF LearnedInv, WindowInv, PutsGood
    <2>. QED
      BY <1>5, <1>6, <2>1, <2>2 DEF PutsGood, GoodPut
  <1>12. WindowInv'
    BY <1>5, <1>6, <1>9, <1>10, <1>11 DEF LearnedInv, WindowInv
  <1>13. GenInv' /\ TableInv' /\ FixedInv'
    BY <1>5, <1>6, TablesStay
  <1>. QED
    BY <1>12, <1>13 DEF LearnedInv

\* The window's part while none of its variables changes.
LEMMA WindowStays ==
    ASSUME LearnedInv, UNCHANGED windowVars
    PROVE  /\ WindowInv' /\ Known' = Known
           /\ \A frames : InOrder(frames) => InOrder(frames)'
  <1>1. UNCHANGED <<form, shown, todo, owner, folders>>
    BY DEF windowVars
  <1>2. Known' = Known /\ Frame0' = Frame0 /\ Puts' = Puts /\ Folder' = Folder
    BY <1>1 DEF Known, Frame0, Puts, Folder
  <1>3. PutsGood' /\ \A s \in States : GoodFolder(s)'
    BY <1>1, <1>2 DEF LearnedInv, WindowInv, PutsGood, GoodPut, GoodFolder
  <1>4. WindowInv'
    BY <1>1, <1>2, <1>3 DEF LearnedInv, WindowInv
  <1>5. \A frames : InOrder(frames) => InOrder(frames)'
    BY <1>1, <1>2 DEF InOrder
  <1>. QED
    BY <1>2, <1>4, <1>5

\* A generator at rest has read nothing.
LEMMA IdleGood ==
    ASSUME gen' = IdleGen
    PROVE  GenInv'
  <1>1. IdleGen.entries = <<>> /\ IdleGen.at = 1 /\ IdleGen.pc = "idle"
        /\ DOMAIN IdleGen = {"pc", "at", "json", "data", "entries"}
    BY DEF IdleGen
  <1>2. InOrder(gen.entries)'
    BY <1>1 DEF InOrder
  <1>. QED
    BY <1>1, <1>2 DEF GenInv

\* The generator checks what it reads and appends a frame of the state it is at.
LEMMA GenerateStep ==
    ASSUME LearnedInv, Generate
    PROVE  LearnedInv'
  <1>1. UNCHANGED <<windowVars, fixed>>
    BY DEF Generate
  <1>2. /\ WindowInv' /\ Known' = Known
        /\ \A frames : InOrder(frames) => InOrder(frames)'
    BY <1>1, WindowStays
  <1>3. FixedInv'
    BY <1>1 DEF LearnedInv, FixedInv
  <1>4. GenInv /\ TableInv /\ WindowInv
    BY DEF LearnedInv
  <1>5. /\ STATES \in Seq(States) /\ Len(STATES) \in Nat \ {0}
        /\ DOMAIN STATES = 1..Len(STATES)
    BY <1>4, TheStates DEF WindowInv
  <1>6. UNCHANGED table => TableInv'
    BY <1>2, <1>4 DEF TableInv
  <1> DEFINE s == STATES[gen.at]
  <1>7. gen.pc \in {"json", "bin", "source"} =>
          /\ s \in States /\ Dir = folders[s] /\ GoodFolder(s) /\ gen.at \in DOMAIN STATES
    <2>1. gen.pc \in {"json", "bin", "source"} => gen.at \in DOMAIN STATES
      BY <1>4, <1>5 DEF GenInv
    <2>2. gen.pc \in {"json", "bin", "source"} => s \in States
      BY <1>5, <2>1
    <2>. QED
      BY <1>4, <2>1, <2>2 DEF Dir, WindowInv
  <1>8. GenInv' /\ TableInv'
    <2>1. CASE gen' = IdleGen /\ UNCHANGED table
      BY <1>6, <2>1, IdleGood
    <2>2. CASE RunGenerator
      <3>1. gen = IdleGen /\ gen' = [gen EXCEPT !.pc = "json"] /\ UNCHANGED table
        BY <1>4, <2>2 DEF RunGenerator, GenInv
      <3>2. gen'.pc = "json" /\ gen'.at = 1 /\ gen'.entries = <<>>
            /\ DOMAIN gen' = {"pc", "at", "json", "data", "entries"}
        BY <3>1 DEF IdleGen
      <3>3. InOrder(gen.entries)'
        BY <3>2 DEF InOrder
      <3>4. 1 \in 1..Len(STATES)
        BY <1>5
      <3>. QED
        BY <1>6, <3>1, <3>2, <3>3, <3>4 DEF GenInv
    <2>3. CASE ReadJson /\ gen' # IdleGen
      <3>1. /\ gen.pc = "json" /\ Dir.canonicalJson # NotChosen /\ UNCHANGED table
            /\ gen' = [gen EXCEPT !.pc = "bin", !.json = Dir.canonicalJson]
        BY <2>3 DEF ReadJson, Fails
      <3>2. Dir.canonicalJson.sha \in Known /\ Dir.canonicalJson.source \in KeepSlots
        BY <1>7, <3>1 DEF GoodFolder
      <3>3. /\ gen'.pc = "bin" /\ gen'.json = Dir.canonicalJson /\ gen'.at = gen.at
            /\ gen'.entries = gen.entries
            /\ DOMAIN gen' = {"pc", "at", "json", "data", "entries"}
        BY <1>4, <3>1 DEF GenInv
      <3>4. InOrder(gen.entries)'
        BY <1>2, <1>4, <3>3 DEF GenInv
      <3>. QED
        BY <1>2, <1>4, <1>6, <3>1, <3>2, <3>3, <3>4 DEF GenInv
    <2>4. CASE ReadBin /\ gen' # IdleGen
      <3>1. /\ gen.pc = "bin" /\ Dir.canonicalBin = gen.json.sha /\ UNCHANGED table
            /\ gen' = [gen EXCEPT !.pc = "source", !.data = Dir.canonicalBin]
        BY <2>4 DEF ReadBin, Fails
      <3>2. /\ gen'.pc = "source" /\ gen'.json = gen.json /\ gen'.at = gen.at
            /\ gen'.data = gen.json.sha /\ gen'.entries = gen.entries
            /\ DOMAIN gen' = {"pc", "at", "json", "data", "entries"}
        BY <1>4, <3>1 DEF GenInv
      <3>3. InOrder(gen.entries)'
        BY <1>2, <1>4, <3>2 DEF GenInv
      <3>. QED
        BY <1>2, <1>4, <1>6, <3>1, <3>2, <3>3 DEF GenInv
    <2>5. CASE ReadSource /\ gen' # IdleGen
      <3> DEFINE more == Append(gen.entries, gen.data)
                 pc2 == IF gen.at = Len(STATES) THEN "emit" ELSE "json"
      <3>1. /\ gen.pc = "source" /\ SourceAgrees(Dir) /\ UNCHANGED table
            /\ gen' = [gen EXCEPT !.entries = Append(@, gen.data), !.at = @ + 1, !.pc = pc2]
        BY <2>5 DEF ReadSource, Fails
      <3>2. gen.data \in Known /\ gen.json.source \in KeepSlots
        BY <1>4, <3>1 DEF GenInv
      <3>3. gen.data # NoFrameYet
        BY <3>2 DEF Known, NoFrameYet
      <3>4. owner[gen.data] = s
        BY <1>7, <3>1, <3>2, <3>3 DEF SourceAgrees, GoodFolder
      <3>5. /\ gen'.pc = pc2 /\ gen'.at = gen.at + 1 /\ gen'.entries = more
            /\ DOMAIN gen' = {"pc", "at", "json", "data", "entries"}
        BY <1>4, <3>1 DEF GenInv
      <3>6. /\ gen.entries \in Seq(Known) /\ Len(gen.entries) = gen.at - 1
            /\ gen.at \in 1..Len(STATES) /\ InOrder(gen.entries)
        BY <1>4, <3>1 DEF GenInv, InOrder
      <3>7. /\ more \in Seq(Known) /\ Len(more) = gen.at
            /\ more[gen.at] = gen.data
            /\ \A k \in DOMAIN more :
                 k = gen.at \/ (k \in DOMAIN gen.entries /\ more[k] = gen.entries[k])
        <4> DEFINE es == gen.entries
        <4>1. es \in Seq(Known) /\ Len(es) + 1 = gen.at
          BY <1>5, <3>6
        <4>2. /\ Append(es, gen.data) \in Seq(Known)
              /\ Len(Append(es, gen.data)) = Len(es) + 1
              /\ Append(es, gen.data)[Len(es) + 1] = gen.data
              /\ \A k \in DOMAIN Append(es, gen.data) :
                   k = Len(es) + 1 \/ (k \in DOMAIN es /\ Append(es, gen.data)[k] = es[k])
          <5> HIDE DEF es
          <5>. QED
            BY <3>2, <4>1
        <4>. QED
          BY <4>1, <4>2
      <3>8. InOrder(more)
        <4> HIDE DEF more
        <4>. QED
          BY <1>7, <3>1, <3>4, <3>6, <3>7 DEF InOrder
      <3>9. InOrder(gen.entries)'
        BY <1>2, <3>5, <3>8
      <3>10. /\ pc2 \in {"emit", "json"}
             /\ pc2 = "emit" => gen.at + 1 = Len(STATES) + 1
             /\ pc2 = "json" => gen.at + 1 \in 1..Len(STATES)
             /\ Len(more) = (gen.at + 1) - 1
        <4>1. \A n \in Nat \ {0} : \A a \in 1..n : a # n => a + 1 \in 1..n
          OBVIOUS
        <4>. QED
          BY <1>5, <3>6, <3>7, <4>1
      <3> HIDE DEF more, pc2
      <3>. QED
        BY <1>6, <3>1, <3>5, <3>9, <3>10 DEF GenInv
    <2>6. CASE Emit
      <3>1. gen.pc = "emit"
        BY <2>6 DEF Emit
      <3>2. CASE table' = [kind |-> "torn", frames |-> <<>>] /\ UNCHANGED gen
        <4>1. InOrder(table.frames)'
          BY <3>2 DEF InOrder
        <4>2. GenInv'
          BY <1>2, <1>4, <3>2 DEF GenInv
        <4>. QED
          BY <3>2, <4>1, <4>2 DEF TableInv
      <3>3. CASE /\ table' = [kind |-> "whole", frames |-> gen.entries]
                 /\ gen' = [gen EXCEPT !.pc = "written"]
        <4>1. /\ InOrder(gen.entries) /\ Len(gen.entries) = gen.at - 1
              /\ gen.at = Len(STATES) + 1
          BY <1>4, <3>1 DEF GenInv
        <4>2. /\ gen'.pc = "written" /\ gen'.at = gen.at /\ gen'.entries = gen.entries
              /\ DOMAIN gen' = {"pc", "at", "json", "data", "entries"}
          BY <1>4, <3>3 DEF GenInv
        <4>3. InOrder(gen.entries)' /\ InOrder(table.frames)'
          BY <1>2, <3>3, <4>1, <4>2
        <4>4. GenInv'
          BY <4>1, <4>2, <4>3 DEF GenInv
        <4>. QED
          BY <1>5, <3>3, <4>1, <4>3, <4>4 DEF TableInv
      <3>. QED
        BY <2>6, <3>2, <3>3 DEF Emit
    <2>7. CASE Roundtrip \/ KillGenerator
      BY <2>1, <2>7 DEF Roundtrip, KillGenerator
    <2>8. CASE (ReadJson \/ ReadBin \/ ReadSource) /\ gen' = IdleGen
      <3>1. UNCHANGED table
        BY <2>8 DEF ReadJson, ReadBin, ReadSource, Fails
      <3>. QED
        BY <2>1, <2>8, <3>1
    <2>. QED
      BY <2>2, <2>3, <2>4, <2>5, <2>6, <2>7, <2>8 DEF Generate
  <1>. QED
    BY <1>2, <1>3, <1>8 DEF LearnedInv

\* gen_ir_code.py writes a frame whose hash it found among the listed ones.
LEMMA FixedStep ==
    ASSUME LearnedInv, FixedNext
    PROVE  LearnedInv'
  <1>1. UNCHANGED windowVars /\ UNCHANGED <<gen, table>>
    BY DEF FixedNext
  <1>2. WindowInv' /\ Known' = Known /\ \A frames : InOrder(frames) => InOrder(frames)'
    BY <1>1, WindowStays
  <1>3. GenInv' /\ TableInv'
    BY <1>1, <1>2 DEF LearnedInv, GenInv, TableInv
  <1>4. FixedInv
    BY DEF LearnedInv
  <1>5. FixedInv'
    <2>1. CASE fixed' = [fixed EXCEPT !.bin = 3 - @]
      <3>1. 3 - fixed.bin \in {1, 2}
        BY <1>4 DEF FixedInv
      <3>. QED
        BY <1>4, <2>1, <3>1 DEF FixedInv
    <2>2. CASE fixed' = [fixed EXCEPT !.listed = @ \cup {fixed.bin}]
      BY <1>4, <2>2 DEF FixedInv
    <2>3. CASE ReadFixed
      BY <1>4, <2>3 DEF FixedInv, ReadFixed
    <2>4. CASE ReadManifests
      BY <1>4, <2>4 DEF FixedInv, ReadManifests
    <2>5. CASE WriteFixed
      BY <1>4, <2>5 DEF FixedInv, WriteFixed
    <2>. QED
      BY <2>1, <2>2, <2>3, <2>4, <2>5 DEF FixedNext, Recapture
  <1>. QED
    BY <1>2, <1>3, <1>5 DEF LearnedInv

------------------------------------------------------------------------------
(* The theorems of the learned states. *)

\* Every step keeps the invariant.
LEMMA LearnedNextStep ==
    ASSUME LearnedInv, [LearnedNext \/ FixedNext]_learnedVars
    PROVE  LearnedInv'
  <1>1. CASE UNCHANGED learnedVars
    <2>1. UNCHANGED windowVars /\ UNCHANGED <<gen, table, fixed>>
      BY <1>1 DEF learnedVars
    <2>2. WindowInv' /\ Known' = Known /\ \A frames : InOrder(frames) => InOrder(frames)'
      BY <2>1, WindowStays
    <2>. QED
      BY <2>1, <2>2 DEF LearnedInv, GenInv, TableInv, FixedInv
  <1>2. CASE LearnedNext
    BY <1>2, OnPresetStep, DoSaveStep, ApproveLearnedStep, CompareStep, AtomicWriteStep,
       DropStep, GenerateStep DEF LearnedNext
  <1>. QED
    BY <1>1, <1>2, FixedStep

\* The invariant of the learned states.
THEOREM LearnedInductive == LearnedSpec => []LearnedInv
  <1>1. LearnedInv /\ [LearnedNext \/ FixedNext]_learnedVars => LearnedInv'
    BY LearnedNextStep
  <1>. QED
    BY <1>1, LearnedInitInv, PTL DEF LearnedSpec

\* A whole table of the firmware has one frame per state in the order of the
\* list, each captured for the state it stands under.
THEOREM TableIsOwned == LearnedSpec => []TableOwned
  <1>1. LearnedInv => TableOwned
    <2> SUFFICES ASSUME LearnedInv, table.kind = "whole"
                 PROVE  /\ Len(table.frames) = Len(STATES)
                        /\ \A k \in DOMAIN STATES : owner[table.frames[k]] = STATES[k]
      BY DEF TableOwned
    <2>1. form \in States
      BY DEF LearnedInv, WindowInv
    <2>2. DOMAIN STATES = 1..Len(STATES)
      BY <2>1, TheStates
    <2>3. /\ Len(table.frames) = Len(STATES) /\ table.frames \in Seq(Known)
          /\ \A k \in DOMAIN table.frames : owner[table.frames[k]] = STATES[k]
      BY DEF LearnedInv, TableInv, InOrder
    <2>. QED
      BY <2>2, <2>3
  <1>. QED
    BY <1>1, LearnedInductive, PTL

\* A report that the manifest's hash matches is about a listed frame.
THEOREM FixedIsListed == LearnedSpec => []FixedListed
  <1>1. LearnedInv => FixedListed
    BY DEF LearnedInv, FixedInv, FixedListed
  <1>. QED
    BY <1>1, LearnedInductive, PTL

\* The files, the generator and the table keep their types.
THEOREM LearnedTypes == LearnedSpec => []LearnedTypeOK
  <1>1. LearnedInv => LearnedTypeOK
    <2> SUFFICES ASSUME LearnedInv PROVE LearnedTypeOK
      OBVIOUS
    <2>1. Len(owner) \in Nat /\ Len(owner) <= MaxFrames /\ MaxFrames \in Nat
      BY LearnedAssumption DEF LearnedInv, WindowInv
    <2>2. Frame0 = 0..Len(owner) /\ Frame0 \subseteq 0..MaxFrames /\ Known \subseteq FrameNumbers
      BY <2>1 DEF Frame0, Known, NoFrameYet, FrameNumbers
    <2>3. form \in States /\ shown \in [KeepSlots -> 0..MaxFrames] /\ owner \in Seq(States)
      BY <2>2 DEF LearnedInv, WindowInv
    <2>4. \A s \in States : folders[s].canonicalBin \in 0..Len(owner)
      BY <2>2 DEF LearnedInv, WindowInv, Folder
    <2>5. Len(STATES) \in Nat \ {0}
      BY <2>3, TheStates
    <2>6. gen.at \in 1..(Len(STATES) + 1)
      <3>1. gen.pc = "idle" => gen.at = 1
        BY DEF LearnedInv, GenInv, IdleGen
      <3>2. \A n \in Nat \ {0} : 1..n \subseteq 1..(n + 1) /\ n + 1 \in 1..(n + 1) /\ 1 \in 1..(n + 1)
        OBVIOUS
      <3>3. /\ gen.pc \in {"idle", "json", "bin", "source", "emit", "written"}
            /\ gen.pc \in {"json", "bin", "source"} => gen.at \in 1..Len(STATES)
            /\ gen.pc \in {"emit", "written"} => gen.at = Len(STATES) + 1
        BY DEF LearnedInv, GenInv
      <3>. QED
        BY <2>5, <3>1, <3>2, <3>3
    <2>7. table.frames \in Seq(FrameNumbers)
      <3>1. table.frames \in Seq(Known)
        BY DEF LearnedInv, TableInv, InOrder
      <3>. QED
        BY <2>2, <3>1
    <2>. QED
      BY <2>3, <2>4, <2>6, <2>7 DEF LearnedTypeOK, LearnedInv, GenInv, TableInv
  <1>. QED
    BY <1>1, LearnedInductive, PTL

==============================================================================

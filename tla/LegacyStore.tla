----------------------------- MODULE LegacyStore -----------------------------
(***************************************************************************)
(* The file store of library_store.py (legacy_library_migration.py is the  *)
(* same file): one directory per state, a file per capture, an approved    *)
(* directory.  Every file is replaced atomically, an operation replaces    *)
(* several of them one after the other, and nothing holds them together: a *)
(* program that dies between two leaves what the first ones wrote.  An     *)
(* operation is therefore its checks and a plan, the sequence of its       *)
(* writes; Write carries out the first write that is left.                 *)
(***************************************************************************)
EXTENDS Naturals, Sequences, FiniteSets, Functions

CONSTANTS
    StateCodes,   \* records [key, ver]: the names of the state directories
    Migrated,     \* the one CAPTURE_002.bin is registered under
    RemoteFrames, \* StateCodes -> valid frames a remote control may send for it
    Frame002,     \* the valid frame in CAPTURE_002.bin
    MaxCaptures   \* bound on the captures of one state

ASSUME StoreAssumption ==
    Migrated \in StateCodes /\ MaxCaptures \in Nat \ {0}

VARIABLES
    store,        \* StateCodes -> the directory of the state
    plan,         \* the writes left of the running operation
    inc           \* ir_library_generated.inc: its entries

storeVars == <<store, plan, inc>>

StoreFrames == (UNION {RemoteFrames[c] : c \in StateCodes}) \cup {Frame002}
Nothing == [present |-> FALSE]
NoDir == [made |-> FALSE, def |-> Nothing, bins |-> <<>>, jsons |-> {},
          canonBin |-> Nothing, canonJson |-> Nothing, litter |-> FALSE]

Def(status, fit) == [present |-> TRUE, status |-> status, fit |-> fit]
Status(c) == IF store[c].def.present THEN store[c].def.status ELSE "none"

\* bins[i] is the frame of capture_00i.bin; jsons has the indices and frame
\* hashes of the .json files.
StoreTypeOK ==
    /\ \A c \in StateCodes :
         /\ store[c].bins \in Seq(StoreFrames)
         /\ store[c].jsons \subseteq ((1..MaxCaptures) \X StoreFrames)
         /\ Status(c) \in {"none", "draft", "captured", "approved"}
    /\ \A e \in inc : e.code \in StateCodes /\ e.frame \in StoreFrames
    /\ \A k \in DOMAIN plan : plan[k].code \in StateCodes

StoreInit ==
    /\ store = [c \in StateCodes |-> NoDir]
    /\ plan = <<>>
    /\ inc = {}

------------------------------------------------------------------------------
(* Writes. *)

WriteDir(c) == [code |-> c, file |-> "dir"]
WriteDef(c, def) == [code |-> c, file |-> "def", def |-> def]
WriteBin(c, i, f) == [code |-> c, file |-> "bin", index |-> i, frame |-> f]
WriteJson(c, i, f) == [code |-> c, file |-> "json", index |-> i, frame |-> f]
WriteCanonBin(c, f) == [code |-> c, file |-> "canonBin", frame |-> f]
WriteCanonJson(c, i, f) ==
    [code |-> c, file |-> "canonJson", source |-> i, frame |-> f]
WriteValidation(c) == [code |-> c, file |-> "validation"]

\* What a finished atomic_write_bytes leaves in the directory.
Written(dir, w) ==
    CASE w.file = "def" -> [dir EXCEPT !.made = TRUE, !.def = w.def]
      [] w.file = "bin" -> [dir EXCEPT !.bins = IF w.index <= Len(@)
                                                THEN [@ EXCEPT ![w.index] = w.frame]
                                                ELSE Append(@, w.frame)]
      [] w.file = "json" -> [dir EXCEPT !.jsons = @ \cup {<<w.index, w.frame>>}]
      [] w.file = "canonBin" -> [dir EXCEPT !.canonBin =
                                   [present |-> TRUE, frame |-> w.frame]]
      [] w.file = "canonJson" -> [dir EXCEPT !.canonJson =
                                   [present |-> TRUE, source |-> w.source,
                                    frame |-> w.frame]]
      [] OTHER -> [dir EXCEPT !.made = TRUE]

Write ==
    /\ plan # <<>>
    /\ store' = [store EXCEPT ![Head(plan).code] = Written(@, Head(plan))]
    /\ plan' = Tail(plan)
    /\ UNCHANGED inc

\* The program dies, before the first write that is left or inside it: then
\* the temporary file stays, and beside definition.json and validation.json
\* it is a file validate_library counts as an orphan for ever.
Die ==
    /\ plan # <<>>
    /\ plan' = <<>>
    /\ \E left \in {FALSE, Head(plan).file \in {"def", "validation"}} :
         store' = [store EXCEPT ![Head(plan).code].litter = @ \/ left]
    /\ UNCHANGED inc

Begin(writes) == plan = <<>> /\ plan' = writes /\ UNCHANGED <<store, inc>>

------------------------------------------------------------------------------
(* Operations. *)

\* save_definition of a draft: an approved one is refused, a captured one is
\* set back to draft, its captures stay.
SaveDefinition(c, fit) ==
    /\ Status(c) # "approved"
    /\ Begin(<<WriteDef(c, Def("draft", fit))>>)

\* The number of the described captures, and the existence check gone with it.
NextDescribed(c) == Cardinality(store[c].jsons) + 1

\* _next_capture_index counts the .bin files.
NextCapture(c) == Len(store[c].bins) + 1

\* add_capture: frame, description, validation.json, and the status last.
AddCaptureFile(c, f) ==
    /\ store[c].def.present /\ Status(c) # "approved"
    /\ NextCapture(c) <= MaxCaptures
    /\ Begin(<<WriteBin(c, NextCapture(c), f), WriteJson(c, NextCapture(c), f),
               WriteValidation(c)>>
             \o IF Status(c) = "draft"
                THEN <<WriteDef(c, Def("captured", store[c].def.fit))>>
                ELSE <<>>)

\* The order of migrate_existing_capture_002: the definition first.
ApprovalPlanDefinitionFirst(c, i, f) ==
    <<WriteDef(c, Def("approved", TRUE)), WriteCanonBin(c, f),
      WriteCanonJson(c, i, f), WriteValidation(c)>>

\* The order approve_canonical writes in: the definition, which makes the
\* state approved, comes after what it refers to.
ApprovalPlan(c, i, f) ==
    <<WriteCanonBin(c, f), WriteCanonJson(c, i, f),
      WriteDef(c, Def("approved", TRUE)), WriteValidation(c)>>

\* approve_canonical asks for the source's two files and for a definition fit
\* for approval, and not for status captured.
ApproveFile(c, i) ==
    /\ store[c].def.present /\ Status(c) # "approved" /\ store[c].def.fit
    /\ i \in DOMAIN store[c].bins
    /\ \E f \in StoreFrames : <<i, f>> \in store[c].jsons
    /\ Begin(ApprovalPlan(c, i, store[c].bins[i]))

\* migrate_existing_capture_002: the approved definition is written before
\* the capture is compared with what is there; another capture_001.bin ends
\* it with an exception and leaves the state approved.
MigrateExisting ==
    LET bins == store[Migrated].bins
        other == bins # <<>> /\ bins[1] # Frame002
        canon == store[Migrated].canonBin
        canonOther == canon.present /\ canon.frame # Frame002
        def == WriteDef(Migrated, Def("approved", TRUE))
        capture == IF bins = <<>> THEN <<WriteBin(Migrated, 1, Frame002)>> ELSE <<>>
    IN  Begin(IF other THEN <<def>>
              ELSE IF canonOther THEN <<def>> \o capture
              ELSE <<def>> \o capture
                   \o <<WriteCanonBin(Migrated, Frame002),
                        WriteJson(Migrated, 1, Frame002),
                        WriteCanonJson(Migrated, 1, Frame002), def,
                        WriteValidation(Migrated)>>)

\* fork_approved_state: one more than the highest version that has a
\* directory, whether it is approved, a draft or a directory left empty.
NextVersion(c, n) ==
    LET vers == {d.ver : d \in {x \in StateCodes : x.key = c.key /\ store[x].made}}
    IN  n.key = c.key /\ \A v \in vers \cup {c.ver} : n.ver > v /\
            (n.ver = 1 \/ \E u \in vers \cup {c.ver} : u = n.ver - 1)
ForkFile(c) ==
    /\ Status(c) = "approved"
    /\ \E n \in StateCodes, fit \in {FALSE, store[c].def.fit} :
         /\ NextVersion(c, n)
         /\ Begin(<<WriteDir(n), WriteDef(n, Def("draft", fit))>>)

\* What makes validate_library fail: a directory without a definition, a
\* .json without its frame, an approved state whose canonical files are
\* missing or differ from their source, a file that does not belong there.
\* A .bin without a .json is not looked for.
DirValid(c) ==
    LET d == store[c] IN
    /\ d.def.present /\ ~d.litter
    /\ \A j \in d.jsons : j[1] \in DOMAIN d.bins /\ d.bins[j[1]] = j[2]
    /\ d.def.status = "approved" =>
         /\ d.canonBin.present /\ d.canonJson.present
         /\ d.canonJson.source \in DOMAIN d.bins
         /\ d.canonBin.frame = d.bins[d.canonJson.source]
         /\ d.canonJson.frame = d.canonBin.frame
StoreValid == \A c \in StateCodes : store[c].made => DirValid(c)

\* generate_firmware_include, the include replaced atomically.
GenerateFile ==
    /\ plan = <<>> /\ StoreValid
    /\ inc' = {[code |-> c, frame |-> store[c].canonBin.frame] :
                 c \in {x \in StateCodes : Status(x) = "approved"}}
    /\ UNCHANGED <<store, plan>>

StoreNext ==
    \/ Write \/ Die \/ MigrateExisting \/ GenerateFile
    \/ \E c \in StateCodes :
         \/ \E fit \in BOOLEAN : SaveDefinition(c, fit)
         \/ \E f \in RemoteFrames[c] : AddCaptureFile(c, f)
         \/ \E i \in 1..MaxCaptures : ApproveFile(c, i)
         \/ ForkFile(c)

StoreSpec == StoreInit /\ [][StoreNext]_storeVars

------------------------------------------------------------------------------
(* Properties. *)

\* Wherever a program died, a state whose definition says approved has a
\* canonical frame and it is the frame of the capture it names (the order of
\* the writes in approve_canonical).  Not said of the migrated state, whose
\* definition is written first.
ApprovedComplete ==
    \A c \in StateCodes \ {Migrated} : Status(c) = "approved" => 
        LET d == store[c] IN
        /\ d.canonBin.present /\ d.canonJson.present
        /\ d.canonJson.source \in DOMAIN d.bins
        /\ d.canonBin.frame = d.bins[d.canonJson.source]

\* A frame once recorded is never replaced by another one, whatever crashes,
\* orphans and retries came between (_next_capture_index).
FramesKept ==
    [][\A c \in StateCodes : \A i \in DOMAIN store[c].bins :
         i \in DOMAIN store'[c].bins /\ store'[c].bins[i] = store[c].bins[i]]_storeVars

=============================================================================

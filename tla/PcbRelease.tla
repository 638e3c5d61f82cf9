------------------------------ MODULE PcbRelease ------------------------------
(***************************************************************************)
(* The manufacturing package of the circuit board: package-pcb-release.py  *)
(* builds it from the files of a git ref, check-pcb-release.py checks a    *)
(* ref and tests itself with broken manifests and packages; both take the  *)
(* list of files from pcb_release_contract.py.                             *)
(*                                                                         *)
(* Each file is a git show of its own, and a ref like HEAD, the default,   *)
(* may be moved by a commit between two of them.  A program runs through   *)
(* the parts of its kind, one file at a time.                              *)
(*                                                                         *)
(* The content of a file stands for its size and SHA-256 as well.          *)
(***************************************************************************)
EXTENDS Integers, Sequences, FiniteSets, SequencesExt

CONSTANTS
    HashedFiles,   \* HASHED_MANIFEST_ENTRIES
    Trees,         \* the commits the ref may name
    MaxMoves       \* bound on the moves of the ref during one program

VARIABLES
    head,          \* the tree of the ref
    moves,         \* how often it was moved
    work           \* the program

pcbVars == <<head, moves, work>>

Manifest == "manufacturing-manifest.md"
Stranger == "zzz_UNEXPECTED.txt"
Absent == 0       \* what a tree without the file has of it
Tampered == -1    \* no file has this content

\* self_check: the package is the hashed files and the manifest, in a fixed
\* order and each once.
PACKAGE_ENTRIES == SetToSeq(HashedFiles) \o <<Manifest>>
Entries == ToSet(PACKAGE_ENTRIES)

Row(name, content) == [name |-> name, content |-> content]

\* What a manifest lists is up to who wrote it.
ListingOf(tree) ==
    Seq([name : {row.name : row \in ToSet(tree.rows)},
         content : {row.content : row \in ToSet(tree.rows)}])
ASSUME PcbAssumption ==
    /\ IsFiniteSet(HashedFiles) /\ {Manifest, Stranger} \cap HashedFiles = {}
    /\ \A tree \in Trees :
         /\ \A f \in HashedFiles : tree.files[f] # Tampered
         /\ tree.rows \in ListingOf(tree) /\ tree.fit \in BOOLEAN
    /\ MaxMoves \in Nat

\* The manifest that lists these files rightly.
RightRows(files) == [k \in 1..Len(PACKAGE_ENTRIES) - 1 |->
                       Row(PACKAGE_ENTRIES[k], files[PACKAGE_ENTRIES[k]])]

\* A tree has the files, the rows of its manifest, and whatever else is
\* checked of it (fit): REVISION, the EasyEDA source, the READMEs, no
\* forbidden file.  Its manifest is right when it lists every file once and as
\* it is, in any order.
RightTree(tree) ==
    /\ Len(tree.rows) = Cardinality(HashedFiles)
    /\ ToSet(tree.rows) = {Row(f, tree.files[f]) : f \in HashedFiles}
Complete(tree) == \A f \in HashedFiles : tree.files[f] # Absent

\* An entry of the package as git_show gives it: the manifest has rows, every
\* other file a content.
GitShow(tree, name) ==
    IF name = Manifest THEN [name |-> name, content |-> 0, rows |-> tree.rows]
    ELSE [name |-> name, content |-> tree.files[name], rows |-> <<>>]
Missing(tree, name) == name # Manifest /\ tree.files[name] = Absent

Kinds == {"package", "verified", "check", "badManifest", "badPackage"}
Parts(kind) ==
    CASE kind = "package" -> <<"build">>
      [] kind = "verified" -> <<"build", "names", "openRows", "rows", "bytes">>
      [] kind = "check" -> <<"manifest", "rows", "others", "build", "names", "bytes">>
      [] kind = "badManifest" -> <<"manifest", "spoilRows", "rows">>
      [] kind = "badPackage" -> <<"build", "spoilZip", "names", "bytes">>

PcbTypeOK ==
    /\ head \in Trees
    /\ moves \in 0..MaxMoves
    /\ work.kind \in Kinds
    /\ work.part \in 1..(Len(Parts(work.kind)) + 1)
    /\ work.at \in Nat \ {0}
    /\ work.ok \in BOOLEAN /\ work.spoilt \in BOOLEAN

PcbInit ==
    /\ head \in Trees
    /\ moves = 0
    /\ \E kind \in Kinds :
         work = [kind |-> kind, part |-> 1, at |-> 1, zip |-> <<>>, rows |-> <<>>,
                ok |-> TRUE, spoilt |-> FALSE]

------------------------------------------------------------------------------
Running(part) == work.part <= Len(Parts(work.kind)) /\ Parts(work.kind)[work.part] = part
Ended == work.part = Len(Parts(work.kind)) + 1

NextPart(j) == [j EXCEPT !.part = @ + 1, !.at = 1]
\* An exception or SystemExit.
Exit(j) == [j EXCEPT !.part = Len(Parts(j.kind)) + 1, !.at = 1, !.ok = FALSE]
\* One of the findings that are counted; the program goes on.
Judged(j, good) == [j EXCEPT !.ok = @ /\ good]

\* A commit, or a checkout.
MoveRef ==
    /\ ~Ended /\ moves < MaxMoves
    /\ head' \in Trees \ {head}
    /\ moves' = moves + 1
    /\ UNCHANGED work

\* build_entries and write_zip, the latter in one step: the entries in the
\* order of the contract, every header field pinned.
BuildEntry ==
    /\ Running("build")
    /\ work' = LET name == PACKAGE_ENTRIES[work.at]
              IN  IF Missing(head, name) THEN Exit(work)
                  ELSE LET j == [work EXCEPT !.zip = Append(@, GitShow(head, name))]
                       IN  IF work.at = Len(PACKAGE_ENTRIES) THEN NextPart(j)
                           ELSE [j EXCEPT !.at = @ + 1]
    /\ UNCHANGED <<head, moves>>

\* The first half of verify_zip and verify_package_zip: the names, no more
\* and no fewer than the contract's.
NamesOf(list) == {list[k].name : k \in DOMAIN list}
ExactNames(list, names) == Len(list) = Cardinality(names) /\ NamesOf(list) = names
CheckNames ==
    /\ Running("names")
    /\ work' = NextPart(Judged(work, ExactNames(work.zip, Entries)))
    /\ UNCHANGED <<head, moves>>

\* verify_zip takes the manifest out of the package; without one it ends with
\* a KeyError.
OpenRows ==
    /\ Running("openRows")
    /\ work' = IF Manifest \in NamesOf(work.zip)
              THEN LET k == CHOOSE k \in DOMAIN work.zip : work.zip[k].name = Manifest
                       rows == work.zip[k].rows
                   IN  NextPart([work EXCEPT !.rows = rows,
                                            !.ok = @ /\ ExactNames(rows, HashedFiles)])
              ELSE Exit(work)
    /\ UNCHANGED <<head, moves>>

\* The checker reads it from the ref.
ReadManifest ==
    /\ Running("manifest")
    /\ work' = NextPart([work EXCEPT !.rows = head.rows,
                                   !.ok = @ /\ ExactNames(head.rows, HashedFiles)])
    /\ UNCHANGED <<head, moves>>

\* A part that looks at one element of a list at a time.
ForEach(list, element(_)) ==
    IF work.at > Len(list) THEN NextPart(work)
    ELSE [element(list[work.at]) EXCEPT !.at = @ + 1]

\* Rows against the ref; names the contract does not have were counted
\* before.  A row of the manifest itself matches nothing.  Without the file in
\* git the packager exits, the checker goes on.
RowMatches(row) ==
    row.name \in Entries =>
        row.name \in HashedFiles /\ head.files[row.name] = row.content
CheckRow ==
    /\ Running("rows")
    /\ work' = ForEach(work.rows, LAMBDA row : Judged(work, RowMatches(row)))
    /\ UNCHANGED <<head, moves>>

\* Entries of the package against the ref, byte for byte.
EntryMatches(e) == e.name \in Entries => e = GitShow(head, e.name)
CheckBytes ==
    /\ Running("bytes")
    /\ work' = ForEach(work.zip, LAMBDA e : Judged(work, EntryMatches(e)))
    /\ UNCHANGED <<head, moves>>

\* Everything else main looks at in the tree.
CheckOthers ==
    /\ Running("others")
    /\ work' = NextPart(Judged(work, head.fit))
    /\ UNCHANGED <<head, moves>>

\* _make_broken_manifest: one of six kinds.  What is broken is spoilt if it was
\* a right list of names: a wrong one may be put right.
BrokenManifests(rows) ==
    LET first == rows[1] IN
    {Tail(rows),                                             \* remove
     Append(rows, Row(Stranger, first.content)),             \* extra
     Append(rows, first),                                    \* duplicate
     <<Row(first.name, Tampered)>> \o Tail(rows),            \* bad_hash, bad_size
     Append(rows, Row(Manifest, Tampered))}                  \* self
SpoilRows ==
    /\ Running("spoilRows")
    /\ IF work.rows = <<>> THEN work' = Exit(work)
       ELSE \E rows \in BrokenManifests(work.rows) :
              work' = NextPart([work EXCEPT !.rows = rows, !.spoilt = work.ok,
                                          !.ok = ExactNames(rows, HashedFiles)])
    /\ UNCHANGED <<head, moves>>

\* _zip_variant: an entry missing, added or changed.
SpoilZip ==
    /\ Running("spoilZip")
    /\ \E zip \in {Tail(work.zip), Append(work.zip, [work.zip[1] EXCEPT !.name = Stranger]),
                   <<[work.zip[1] EXCEPT !.content = Tampered]>> \o Tail(work.zip)} :
         work' = NextPart([work EXCEPT !.zip = zip, !.spoilt = TRUE])
    /\ UNCHANGED <<head, moves>>

PcbNext ==
    \/ MoveRef
    \/ BuildEntry \/ CheckNames \/ OpenRows \/ ReadManifest
    \/ CheckRow \/ CheckBytes \/ CheckOthers
    \/ SpoilRows \/ SpoilZip

PcbSpec == PcbInit /\ [][PcbNext]_pcbVars

------------------------------------------------------------------------------
(* Properties. *)

\* While the ref stays where it is, packager and checker accept exactly the
\* trees whose files are there and listed rightly, and no spoilt manifest or
\* package; what the packager has verified is the tree, file by file, and no
\* mixture of two unless the ref moved more than once (package-pcb-release.py:
\* --verify; check-pcb-release.py: all ten sabotage scenarios must return
\* non-zero).
PackageExact ==
    Ended =>
      /\ work.spoilt => ~work.ok
      /\ moves = 0 /\ work.kind = "verified" =>
           work.ok = (Complete(head) /\ RightTree(head))
      /\ moves = 0 /\ work.kind = "check" =>
           work.ok = (Complete(head) /\ RightTree(head) /\ head.fit)
      /\ work.ok /\ work.kind = "verified" /\ moves <= 1 =>
           \E tree \in Trees : \A k \in DOMAIN work.zip :
               work.zip[k] = GitShow(tree, work.zip[k].name)

=============================================================================

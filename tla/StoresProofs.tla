------------------------------ MODULE StoresProofs ------------------------------
(***************************************************************************)
(* What the programs beside the Learning Studio's library promise, for all *)
(* sizes, and then the promises of MCIrStores's composition, the library's *)
(* (LibraryProofs) among them.                                             *)
(***************************************************************************)
EXTENDS MCIrStores, LibraryProofs, WellFoundedInduction

BinStates == {"none", "sound", "damaged"}

Loops == [pc : {"start", "round", "capture", "armed", "failed", "end"},
          idx : Int, valid : Int, attempts : Nat, failed : Nat,
          kept : SUBSET Int, interrupted : BOOLEAN]

ConsoleTyped == loop \in Loops /\ bins \in [Numbers -> BinStates]

\* A capture has a number of this run.
Counted ==
    /\ loop.idx \in FirstIndex..(LastIndex + 1)
    /\ loop.valid = loop.idx - FirstIndex
    /\ loop.pc \in {"capture", "armed", "failed"} => loop.idx <= LastIndex

\* A number that is done with has a file, kept unread or sound.
DoneWith(i) == bins[i] # "none" /\ (i \in loop.kept \/ bins[i] = "sound")
Done == \A i \in FirstIndex..(loop.idx - 1) : DoneWith(i)

ConsoleInv == ConsoleTyped /\ Counted /\ Done

\* The last number of the run.
LEMMA LastIndexType == LastIndex \in Int /\ LastIndex + 1 >= FirstIndex
  BY ConsoleAssumption DEF LastIndex

\* Whatever files earlier runs have left, nothing is done with yet.
LEMMA ConsoleInitInv == ConsoleInit => ConsoleInv
  <1> SUFFICES ASSUME ConsoleInit PROVE ConsoleInv
    OBVIOUS
  <1>1. ConsoleTyped
    BY ConsoleAssumption DEF ConsoleInit, ConsoleTyped, Loops, BinStates
  <1>2. Counted
    BY ConsoleAssumption, LastIndexType DEF ConsoleInit, Counted
  <1>3. Done
    BY ConsoleAssumption DEF ConsoleInit, Done
  <1>. QED
    BY <1>1, <1>2, <1>3 DEF ConsoleInv

\* A step that does not count leaves numbers and files as they are.
LEMMA LoopStayStep ==
    ASSUME ConsoleInv, bins' = bins, loop' \in Loops,
           UNCHANGED <<loop.idx, loop.valid, loop.kept>>,
           loop'.pc \in {"capture", "armed", "failed"} => loop.idx <= LastIndex
    PROVE  ConsoleInv'
  <1>1. ConsoleTyped'
    BY DEF ConsoleInv, ConsoleTyped
  <1>2. Counted'
    BY DEF ConsoleInv, Counted
  <1>3. Done'
    BY DEF ConsoleInv, Done, DoneWith
  <1>. QED
    BY <1>1, <1>2, <1>3 DEF ConsoleInv

\* A step that counts has a file for its number.
LEMMA CountStep ==
    ASSUME ConsoleInv, loop.idx <= LastIndex, loop' \in Loops,
           loop'.pc = "round", loop'.idx = loop.idx + 1, loop'.valid = loop.valid + 1,
           loop.kept \subseteq loop'.kept,
           bins' \in [Numbers -> BinStates],
           \A i \in Numbers : i # loop.idx => bins'[i] = bins[i],
           bins'[loop.idx] # "none",
           loop.idx \in loop'.kept \/ bins'[loop.idx] = "sound"
    PROVE  ConsoleInv'
  <1>1. loop.idx \in Int /\ loop.valid \in Int
    BY DEF ConsoleInv, ConsoleTyped, Loops
  <1>2. ConsoleTyped'
    BY DEF ConsoleTyped
  <1>3. Counted'
    BY <1>1, LastIndexType, ConsoleAssumption DEF ConsoleInv, Counted
  <1>4. ASSUME NEW i \in FirstIndex..(loop'.idx - 1) PROVE DoneWith(i)'
    <2>1. CASE i = loop.idx
      BY <2>1 DEF DoneWith
    <2>2. CASE i # loop.idx
      <3>1. i \in FirstIndex..(loop.idx - 1) /\ i \in Numbers
        BY <2>2, <1>1, <1>4, LastIndexType, ConsoleAssumption
           DEF ConsoleInv, Counted, Numbers
      <3>2. DoneWith(i) /\ bins'[i] = bins[i]
        BY <3>1, <2>2 DEF ConsoleInv, Done
      <3>. QED
        BY <3>2 DEF DoneWith
    <2>. QED
      BY <2>1, <2>2
  <1>5. Done'
    BY <1>4 DEF Done
  <1>. QED
    BY <1>2, <1>3, <1>5 DEF ConsoleInv

\* A file that is damaged in the writing is none that was counted.
LEMMA BreakStep ==
    ASSUME ConsoleInv, loop.idx <= LastIndex, NEW left \in BinStates,
           loop' = Leave(TRUE), bins' = [bins EXCEPT ![loop.idx] = left]
    PROVE  ConsoleInv'
  <1>1. /\ loop'.pc = "end" /\ loop'.idx = loop.idx /\ loop'.valid = loop.valid
        /\ loop'.kept = loop.kept /\ loop.idx \in Int
    BY DEF ConsoleInv, ConsoleTyped, Loops, Leave
  <1>2. ConsoleTyped'
    BY DEF ConsoleInv, ConsoleTyped, Loops, Leave
  <1>3. Counted'
    BY <1>1 DEF ConsoleInv, Counted
  <1>4. \A i \in FirstIndex..(loop.idx - 1) : i \in Numbers /\ i # loop.idx
    BY <1>1, LastIndexType, ConsoleAssumption DEF Numbers
  <1>5. \A i \in FirstIndex..(loop.idx - 1) : bins'[i] = bins[i]
    BY <1>4 DEF ConsoleInv, ConsoleTyped
  <1>6. Done'
    BY <1>1, <1>5 DEF ConsoleInv, Done, DoneWith
  <1>. QED
    BY <1>2, <1>3, <1>6 DEF ConsoleInv

\* Every step keeps the invariant.
LEMMA ConsoleNextStep == ConsoleInv /\ [ConsoleNext]_consoleVars => ConsoleInv'
  <1> SUFFICES ASSUME ConsoleInv, [ConsoleNext]_consoleVars PROVE ConsoleInv'
    OBVIOUS
  <1>0. loop \in Loops
    BY DEF ConsoleInv, ConsoleTyped
  <1>counts. /\ loop.idx + 1 \in Int /\ loop.valid + 1 \in Int
        /\ loop.attempts + 1 \in Nat /\ loop.failed + 1 \in Nat
        /\ loop.kept \cup {loop.idx} \in SUBSET Int
    BY <1>0 DEF Loops
  <1>1. ASSUME bins' = bins, NEW interrupted \in BOOLEAN, loop' = Leave(interrupted)
        PROVE  ConsoleInv'
    <2>1. /\ loop' \in Loops /\ UNCHANGED <<loop.idx, loop.valid, loop.kept>>
          /\ loop'.pc = "end"
      BY <1>0, <1>1 DEF Leave, Loops
    <2>. QED
      BY <2>1, <1>1, LoopStayStep
  <1>2. ASSUME bins' = bins, NEW pc \in {"round", "capture"},
               loop' = [loop EXCEPT !.pc = pc],
               pc = "capture" => loop.idx <= LastIndex
        PROVE  ConsoleInv'
    <2>1. /\ loop' \in Loops /\ UNCHANGED <<loop.idx, loop.valid, loop.kept>>
          /\ loop'.pc = pc
      BY <1>0, <1>2 DEF Loops
    <2>. QED
      BY <2>1, <1>2, LoopStayStep
  <1>3. CASE GateCheck
    BY <1>1, <1>2, <1>3 DEF GateCheck
  <1>4. CASE Round
    <2>1. CASE loop' = Leave(FALSE)
      BY <1>1, <1>4, <2>1 DEF Round
    <2>2. CASE RoundLeft /\ loop' = [loop EXCEPT !.pc = "capture"]
      BY <1>2, <1>4, <2>2 DEF Round, RoundLeft
    <2>3. CASE RoundLeft /\ Taken /\ loop' = Kept /\ loop.pc = "round"
      <3>1. /\ loop' \in Loops /\ loop'.pc = "round" /\ loop'.idx = loop.idx + 1
            /\ loop'.valid = loop.valid + 1 /\ loop'.kept = loop.kept \cup {loop.idx}
        BY <1>0, <1>counts, <2>3 DEF Kept, Loops
      <3>2. bins' = bins /\ bins[loop.idx] # "none" /\ loop.idx <= LastIndex
        BY <1>4, <2>3 DEF Round, RoundLeft, Taken
      <3>3. bins' \in [Numbers -> BinStates]
        BY <3>2 DEF ConsoleInv, ConsoleTyped
      <3>. QED
        BY <3>1, <3>2, <3>3, CountStep
    <2>. QED
      BY <1>4, <2>1, <2>2, <2>3 DEF Round
  <1>5. CASE Attempt
    <2>1. loop.idx <= LastIndex /\ bins' = bins
      BY <1>5 DEF Attempt, ConsoleInv, Counted
    <2>2. loop' \in Loops /\ UNCHANGED <<loop.idx, loop.valid, loop.kept>>
      BY <1>0, <1>counts, <1>5 DEF Attempt, Loops
    <2>. QED
      BY <2>1, <2>2, LoopStayStep
  <1>6. CASE Captured
    <2>1. loop.idx <= LastIndex /\ bins' = [bins EXCEPT ![loop.idx] = "sound"]
      BY <1>6 DEF Captured, ConsoleInv, Counted
    <2>2. /\ loop' \in Loops /\ loop'.pc = "round" /\ loop'.idx = loop.idx + 1
          /\ loop'.valid = loop.valid + 1 /\ loop'.kept = loop.kept
      BY <1>0, <1>counts, <1>6 DEF Captured, Loops
    <2>3. loop.idx \in Numbers /\ bins \in [Numbers -> BinStates]
      BY <2>1, ConsoleAssumption DEF ConsoleInv, Counted, ConsoleTyped, Numbers
    <2>4. /\ bins' \in [Numbers -> BinStates] /\ bins'[loop.idx] = "sound"
          /\ \A i \in Numbers : i # loop.idx => bins'[i] = bins[i]
      BY <2>1, <2>3 DEF BinStates
    <2>. QED
      BY <2>1, <2>2, <2>4, CountStep
  <1>7. CASE SavingFails
    <2>1. loop.idx <= LastIndex /\ loop' = Leave(TRUE)
      BY <1>7 DEF SavingFails, ConsoleInv, Counted
    <2>2. loop.idx \in Numbers /\ bins \in [Numbers -> BinStates]
      BY <2>1, ConsoleAssumption DEF ConsoleInv, Counted, ConsoleTyped, Numbers
    <2>3. PICK left \in BinStates : bins' = [bins EXCEPT ![loop.idx] = left]
      BY <1>7, <2>2 DEF SavingFails, BinStates
    <2>. QED
      BY <2>1, <2>3, BreakStep
  <1>8. CASE NotCaptured
    <2>1. loop.idx <= LastIndex /\ bins' = bins
      BY <1>8 DEF NotCaptured, ConsoleInv, Counted
    <2>2. loop' \in Loops /\ UNCHANGED <<loop.idx, loop.valid, loop.kept>>
      BY <1>0, <1>counts, <1>8 DEF NotCaptured, Loops
    <2>. QED
      BY <2>1, <2>2, LoopStayStep
  <1>9. CASE AfterFailure
    BY <1>1, <1>2, <1>9 DEF AfterFailure
  <1>10. CASE Interrupt
    BY <1>1, <1>10 DEF Interrupt
  <1>11. CASE WindowCloses \/ UNCHANGED consoleVars
    BY <1>11 DEF WindowCloses, consoleVars, ConsoleInv, ConsoleTyped, Counted, Done, DoneWith
  <1>. QED
    BY <1>3, <1>4, <1>5, <1>6, <1>7, <1>8, <1>9, <1>10, <1>11 DEF ConsoleNext

\* ConsoleInv is an inductive invariant of the console.
THEOREM ConsoleInductive == ConsoleSpec => []ConsoleInv
  BY ConsoleInitInv, ConsoleNextStep, PTL DEF ConsoleSpec

\* However many captures are wanted and wherever their numbers begin, the
\* console never reports more valid captures than it has files of its numbers,
\* and each was kept by the user or is sound.
THEOREM CountIsHonest == ConsoleSpec => []KeptOrSound
<1>1. ConsoleInv => KeptOrSound
  <2> SUFFICES ASSUME ConsoleInv PROVE KeptOrSound
    OBVIOUS
  <2>1. /\ loop.idx \in Int /\ loop.idx - 1 \in Int /\ FirstIndex \in Int
        /\ loop.idx >= FirstIndex /\ loop.idx <= LastIndex + 1
        /\ loop.valid = loop.idx - FirstIndex
    BY ConsoleAssumption, LastIndexType DEF ConsoleInv, ConsoleTyped, Loops, Counted
  <2>2. FirstIndex..(loop.idx - 1) \subseteq OnDisk
    BY <2>1, LastIndexType DEF ConsoleInv, Done, DoneWith, OnDisk, Numbers
  <2>3. IsFiniteSet(Numbers)
    BY LastIndexType, ConsoleAssumption, FS_Interval DEF Numbers
  <2>4. OnDisk \subseteq Numbers
    BY DEF OnDisk
  <2>5. IsFiniteSet(OnDisk)
    BY <2>3, <2>4, FS_Subset
  <2>6. Cardinality(FirstIndex..(loop.idx - 1)) <= Cardinality(OnDisk)
    BY <2>2, <2>5, FS_Subset
  <2>7. Cardinality(FirstIndex..(loop.idx - 1)) = loop.idx - FirstIndex
    <3>1. Cardinality(FirstIndex..(loop.idx - 1))
            = IF FirstIndex > loop.idx - 1 THEN 0 ELSE (loop.idx - 1) - FirstIndex + 1
      BY <2>1, FS_Interval
    <3>. QED
      BY <3>1, <2>1
  <2>8. loop.valid <= Cardinality(OnDisk)
    BY <2>1, <2>6, <2>7
  <2>9. \A i \in FirstIndex..(loop.idx - 1) : i \in loop.kept \/ bins[i] = "sound"
    BY DEF ConsoleInv, Done, DoneWith
  <2>. QED
    BY <2>8, <2>9 DEF KeptOrSound
<1>. QED
  BY <1>1, ConsoleInductive, PTL

\* What the console has tried: a failure is one of the attempts, and the attempt
\* that is under way has not failed yet.
Tried ==
    /\ loop.attempts \in 0..MaxAttempts /\ loop.failed <= loop.attempts
    /\ loop.pc = "armed" => loop.failed < loop.attempts
    /\ learning \in {"closed", "open"}

\* A number that was tried stays tried.
LEMMA TriedStep == ConsoleInv /\ Tried /\ [ConsoleNext]_consoleVars => Tried'
  <1> SUFFICES ASSUME ConsoleInv, Tried, [ConsoleNext]_consoleVars PROVE Tried'
    OBVIOUS
  <1>1. loop \in Loops /\ loop.attempts \in Nat /\ loop.failed \in Nat /\ MaxAttempts \in Nat
    BY ConsoleAssumption DEF ConsoleInv, ConsoleTyped, Loops
  <1>2. ASSUME loop'.attempts = loop.attempts, loop'.failed = loop.failed,
               loop'.pc # "armed", learning' \in {"closed", "open"}
        PROVE  Tried'
    BY <1>1, <1>2 DEF Tried
  <1>3. CASE Attempt
    <2>1. /\ loop.attempts < MaxAttempts /\ learning' \in {"closed", "open"}
          /\ \/ loop' = [loop EXCEPT !.pc = "armed", !.attempts = loop.attempts + 1]
             \/ loop' = [loop EXCEPT !.pc = "failed", !.attempts = loop.attempts + 1,
                                     !.failed = loop.failed + 1]
      BY <1>3 DEF Attempt, Tried
    <2>2. /\ loop'.attempts = loop.attempts + 1
          /\ \/ loop'.pc = "armed" /\ loop'.failed = loop.failed
             \/ loop'.pc = "failed" /\ loop'.failed = loop.failed + 1
      BY <1>1, <2>1 DEF Loops
    <2>. QED
      BY <1>1, <2>1, <2>2 DEF Tried
  <1>4. CASE NotCaptured
    <2>1. /\ loop.pc = "armed" /\ learning' \in {"closed", "open"}
          /\ loop' = [loop EXCEPT !.pc = "failed", !.failed = loop.failed + 1]
      BY <1>4 DEF NotCaptured, Tried
    <2>2. /\ loop'.pc = "failed" /\ loop'.attempts = loop.attempts
          /\ loop'.failed = loop.failed + 1
      BY <1>1, <2>1 DEF Loops
    <2>. QED
      BY <1>1, <2>1, <2>2 DEF Tried
  <1>5. CASE Captured
    <2>1. /\ loop' = [loop EXCEPT !.pc = "round", !.valid = loop.valid + 1,
                                  !.idx = loop.idx + 1]
          /\ learning' = "closed"
      BY <1>5 DEF Captured
    <2>2. loop'.pc = "round" /\ loop'.attempts = loop.attempts /\ loop'.failed = loop.failed
      BY <1>1, <2>1 DEF Loops
    <2>. QED
      BY <2>1, <2>2, <1>2
  <1>6. ASSUME NEW interrupted \in BOOLEAN, loop' = Leave(interrupted),
               learning' \in {"closed", learning}
        PROVE  Tried'
    <2>1. loop'.pc = "end" /\ loop'.attempts = loop.attempts /\ loop'.failed = loop.failed
      BY <1>1, <1>6 DEF Leave, Loops
    <2>. QED
      BY <1>2, <1>6, <2>1 DEF Tried
  <1>7. ASSUME NEW pc \in {"round", "capture"}, loop' = [loop EXCEPT !.pc = pc],
               learning' = learning
        PROVE  Tried'
    <2>1. loop'.pc = pc /\ loop'.attempts = loop.attempts /\ loop'.failed = loop.failed
      BY <1>1, <1>7 DEF Loops
    <2>. QED
      BY <1>2, <1>7, <2>1 DEF Tried
  <1>8. CASE Round
    <2>1. CASE loop' = Kept /\ loop.pc = "round"
      <3>1. /\ loop'.pc = "round" /\ loop'.attempts = loop.attempts
            /\ loop'.failed = loop.failed
        BY <1>1, <2>1 DEF Kept, Loops
      <3>. QED
        BY <1>2, <1>8, <3>1 DEF Round, Tried
    <2>. QED
      BY <1>6, <1>7, <1>8, <2>1 DEF Round
  <1>9. CASE GateCheck \/ SavingFails \/ AfterFailure \/ Interrupt
    BY <1>6, <1>7, <1>9 DEF GateCheck, SavingFails, AfterFailure, Interrupt
  <1>10. CASE WindowCloses \/ UNCHANGED consoleVars
    BY <1>10 DEF WindowCloses, consoleVars, Tried
  <1>. QED
    BY <1>3, <1>4, <1>5, <1>8, <1>9, <1>10 DEF ConsoleNext

\* The console's variables have their types: it stays within its numbers.
THEOREM ConsoleTypes == ConsoleSpec => []ConsoleTypeOK
<1>1. ConsoleInit => Tried
  BY ConsoleAssumption DEF ConsoleInit, Tried
<1>2. ConsoleInv /\ Tried => ConsoleTypeOK
  <2> SUFFICES ASSUME ConsoleInv, Tried PROVE ConsoleTypeOK
    OBVIOUS
  <2>1. loop \in Loops /\ loop.failed \in Nat /\ loop.attempts \in Nat
    BY DEF ConsoleInv, ConsoleTyped, Loops
  <2>2. loop.failed \in 0..MaxAttempts
    BY <2>1, ConsoleAssumption DEF Tried
  <2>3. loop.valid \in 0..Wanted
    BY ConsoleAssumption, LastIndexType DEF ConsoleInv, Counted, LastIndex
  <2>. QED
    BY <2>1, <2>2, <2>3
       DEF ConsoleTypeOK, ConsoleInv, ConsoleTyped, Counted, Loops, BinStates, Tried
<1>. QED
  BY <1>1, <1>2, TriedStep, ConsoleInitInv, ConsoleInductive, PTL DEF ConsoleSpec

------------------------------------------------------------------------------
Fetches == [pc : {"resolve", "request", "reading", "returned", "refused"}, cur : Nat,
            mode : {"wb", "ab"}, retries : Nat, clean : BOOLEAN, cut : BOOLEAN]
LocalFiles == [exists : BOOLEAN, blocks : Seq(Nat)]
Servers == [checksum : BOOLEAN, sized : BOOLEAN, ranges : BOOLEAN, next : Nat]

DownloadTyped ==
    fetch \in Fetches /\ server \in Servers /\ file \in LocalFiles /\ oldName \in LocalFiles

Downloading == fetch.pc \in {"resolve", "request", "reading"}

\* The file is a beginning of the archive.
Begun ==
    /\ Len(file.blocks) <= Blocks
    /\ \A k \in 1..Len(file.blocks) : file.blocks[k] = k
    /\ fetch.pc = "resolve" => Len(file.blocks) < Blocks
    /\ fetch.pc = "reading" => file.exists

InStep ==
    /\ fetch.pc \in {"request", "reading"} => fetch.cur = Len(file.blocks)
    /\ fetch.pc = "request" /\ fetch.mode = "wb" => fetch.cur = 0
    /\ fetch.pc = "reading" => server.next = fetch.cur + 1

DownloadFinished ==
    /\ fetch.pc = "returned" /\ ~fetch.cut => IsArchive(file)
    /\ fetch.pc = "refused" => fetch.cut

Resumable == fetch.clean /\ server.ranges

DownloadInv ==
    /\ DownloadTyped
    /\ Resumable /\ Downloading => Begun /\ InStep
    /\ Resumable /\ ~Downloading => DownloadFinished

------------------------------------------------------------------------------
(* LocalFiles. *)

\* The archive, and the files a run may find.
LEMMA ArchiveType == Archive \in Seq(Nat) /\ Len(Archive) = Blocks
  <1>1. Archive \in [1..Blocks -> Nat] /\ Blocks \in Nat
    BY DownloadAssumption DEF Archive
  <1>2. Archive \in Seq(Nat)
    BY <1>1, SeqDef
  <1>3. Len(Archive) \in Nat /\ DOMAIN Archive = 1..Len(Archive)
    BY <1>2, LenProperties
  <1>. QED
    BY <1>1, <1>2, <1>3

\* A beginning of the archive is shorter than it and has its blocks.
LEMMA BeginningType ==
    ASSUME NEW f \in Beginnings \cup {NoFile}
    PROVE  /\ f \in LocalFiles /\ Len(f.blocks) \in Nat /\ Len(f.blocks) < Blocks
           /\ \A k \in 1..Len(f.blocks) : f.blocks[k] = k
  <1>1. CASE f = NoFile
    BY <1>1, DownloadAssumption DEF NoFile, LocalFiles
  <1>2. CASE f \in Beginnings
    <2>1. PICK n \in 0..(Blocks - 1) : f = File(SubSeq(Archive, 1, n))
      BY <1>2 DEF Beginnings
    <2>2. n \in Nat /\ n < Blocks
      BY <2>1, DownloadAssumption
    <2>3. \A k \in 1..n : Archive[k] = k /\ Archive[k] \in Nat
      BY <2>2, DownloadAssumption DEF Archive
    <2>. DEFINE b == SubSeq(Archive, 1, n)
    <2>4. /\ b \in Seq(Nat) /\ Len(b) = IF 1 <= n THEN n - 1 + 1 ELSE 0
          /\ \A k \in 1..(n - 1 + 1) : b[k] = Archive[1 + k - 1]
      BY <2>2, <2>3, SubSeqProperties
    <2>. HIDE DEF b
    <2>5. Len(b) = n /\ \A k \in 1..n : b[k] = k
      BY <2>2, <2>3, <2>4
    <2>6. f = [exists |-> TRUE, blocks |-> b]
      BY <2>1 DEF File, b
    <2>. QED
      BY <2>2, <2>4, <2>5, <2>6 DEF LocalFiles
  <1>. QED
    BY <1>1, <1>2

\* A beginning with all blocks is the archive.
LEMMA WholeArchive ==
    ASSUME file \in LocalFiles, file.exists, Len(file.blocks) = Blocks,
           \A k \in 1..Blocks : file.blocks[k] = k
    PROVE  IsArchive(file)
  <1>1. file.blocks \in [1..Blocks -> Nat]
    BY LenProperties DEF LocalFiles
  <1>2. file.blocks = Archive
    BY <1>1 DEF Archive
  <1>. QED
    BY <1>2 DEF LocalFiles, IsArchive, File

\* A run is clean when its file is a beginning of the archive or missing.
LEMMA CleanRun ==
    ASSUME NEW f, NewRun(f).clean
    PROVE  f \in Beginnings \cup {NoFile}
  <1>. DEFINE c == f \in Beginnings \cup {NoFile}
  <1>1. NewRun(f).clean = c
    BY DEF NewRun
  <1>. QED
    BY <1>1

\* Any file may be there at first.
LEMMA DownloadInitInv == DownloadInit => DownloadInv
  <1> SUFFICES ASSUME DownloadInit PROVE DownloadInv
    OBVIOUS
  <1>1. File(Archive) \in LocalFiles /\ NoFile \in LocalFiles
    BY ArchiveType DEF File, NoFile, LocalFiles
  <1>2. File(<<Wrong>>) \in LocalFiles
    BY DEF File, Wrong, LocalFiles
  <1>3. File([k \in 1..Blocks |-> Wrong]) \in LocalFiles
    <2>1. [k \in 1..Blocks |-> Wrong] \in [1..Blocks -> Nat] /\ Blocks \in Nat
      BY DownloadAssumption DEF Wrong
    <2>2. [k \in 1..Blocks |-> Wrong] \in Seq(Nat)
      BY <2>1, SeqDef
    <2>. QED
      BY <2>2 DEF File, LocalFiles
  <1>4. file \in LocalFiles /\ oldName \in LocalFiles
    BY <1>1, <1>2, <1>3, BeginningType DEF DownloadInit, Others
  <1>5. fetch = NewRun(file) /\ server \in Servers
    BY DEF DownloadInit, Servers
  <1>6. fetch \in Fetches
    BY <1>5 DEF NewRun, Fetches
  <1>7. ASSUME fetch.clean PROVE Begun /\ InStep
    <2>1. file \in Beginnings \cup {NoFile}
      BY <1>5, <1>7, CleanRun
    <2>2. fetch.pc = "resolve"
      BY <1>5 DEF NewRun
    <2>. QED
      BY <2>1, <2>2, BeginningType, DownloadAssumption DEF Begun, InStep
  <1>. QED
    BY <1>4, <1>5, <1>6, <1>7 DEF DownloadInv, DownloadTyped, Resumable, Downloading, NewRun

------------------------------------------------------------------------------
(* The steps. *)

\* The transfer goes on where the file ends.
LEMMA ResolveStep == DownloadInv /\ Resolve => DownloadInv'
  <1> SUFFICES ASSUME DownloadInv, Resolve PROVE DownloadInv'
    OBVIOUS
  <1>1. /\ fetch \in Fetches /\ server \in Servers /\ file \in LocalFiles /\ oldName \in LocalFiles
        /\ fetch.pc = "resolve" /\ server' = server
        /\ Len(file.blocks) \in Nat
    BY LenProperties DEF DownloadInv, DownloadTyped, Resolve, LocalFiles
  <1>2. CASE server.checksum /\ IsArchive(Existing)
    <2>1. /\ fetch' = [fetch EXCEPT !.pc = "returned"] /\ file' = File(Archive)
          /\ oldName' = IF file.exists THEN oldName ELSE NoFile
      BY <1>2 DEF Resolve
    <2>2. file' \in LocalFiles /\ oldName' \in LocalFiles
      BY <1>1, <2>1, ArchiveType DEF File, NoFile, LocalFiles
    <2>3. fetch' \in Fetches /\ fetch'.pc = "returned" /\ IsArchive(file')
      BY <1>1, <2>1 DEF Fetches, IsArchive
    <2>. QED
      BY <1>1, <2>2, <2>3 DEF DownloadInv, DownloadTyped, Downloading, DownloadFinished
  <1>3. CASE ~(server.checksum /\ IsArchive(Existing))
    <2>. DEFINE size == Len(file.blocks)
                cur == IF server.sized /\ size >= Blocks THEN 0 ELSE size
    <2>1. /\ fetch' = [fetch EXCEPT !.pc = "request", !.cur = cur,
                                    !.mode = IF cur > 0 THEN "ab" ELSE "wb"]
          /\ file' = file /\ oldName' = oldName
      BY <1>3 DEF Resolve
    <2>2. cur \in Nat
      BY <1>1
    <2>3. /\ fetch' \in Fetches /\ fetch'.pc = "request" /\ fetch'.cur = cur
          /\ fetch'.clean = fetch.clean /\ fetch'.mode = IF cur > 0 THEN "ab" ELSE "wb"
      BY <1>1, <2>1, <2>2 DEF Fetches
    <2>4. ASSUME Resumable' PROVE Begun' /\ InStep'
      <3>1. Begun /\ size < Blocks
        BY <1>1, <2>3, <2>4 DEF DownloadInv, Resumable, Downloading, Begun
      <3>2. cur = size
        BY <3>1, <1>1, DownloadAssumption
      <3>. QED
        BY <1>1, <2>1, <2>2, <2>3, <3>1, <3>2 DEF Begun, InStep
    <2>. QED
      BY <1>1, <2>1, <2>3, <2>4 DEF DownloadInv, DownloadTyped, Downloading
  <1>. QED
    BY <1>2, <1>3

\* The reply begins with the first block that is not there.
LEMMA RequestStep == DownloadInv /\ Request => DownloadInv'
  <1> SUFFICES ASSUME DownloadInv, Request PROVE DownloadInv'
    OBVIOUS
  <1>1. /\ fetch \in Fetches /\ server \in Servers /\ file \in LocalFiles /\ oldName \in LocalFiles
        /\ fetch.pc = "request" /\ fetch.cur \in Nat /\ oldName' = oldName
        /\ server' = [server EXCEPT !.next = IF server.ranges THEN fetch.cur + 1 ELSE 1]
        /\ file' = IF fetch.mode = "wb" THEN File(<<>>) ELSE File(file.blocks)
        /\ fetch' = [fetch EXCEPT !.pc = "reading"]
    BY DEF DownloadInv, DownloadTyped, Request, Fetches
  <1>2. /\ server' \in Servers /\ server'.ranges = server.ranges
        /\ server'.next = IF server.ranges THEN fetch.cur + 1 ELSE 1
    BY <1>1 DEF Servers
  <1>3. file' \in LocalFiles /\ file'.exists
        /\ file'.blocks = IF fetch.mode = "wb" THEN <<>> ELSE file.blocks
    BY <1>1 DEF LocalFiles, File
  <1>4. fetch' \in Fetches /\ fetch'.pc = "reading" /\ fetch'.cur = fetch.cur
        /\ fetch'.clean = fetch.clean
    BY <1>1 DEF Fetches
  <1>5. ASSUME Resumable' PROVE Begun' /\ InStep'
    <2>1. Begun /\ InStep /\ server.ranges
      BY <1>1, <1>2, <1>4, <1>5 DEF DownloadInv, Resumable, Downloading
    <2>2. CASE fetch.mode = "wb"
      BY <1>1, <1>2, <1>3, <1>4, <2>1, <2>2, DownloadAssumption DEF Begun, InStep
    <2>3. CASE fetch.mode # "wb"
      BY <1>1, <1>2, <1>3, <1>4, <2>1, <2>3 DEF Begun, InStep
    <2>. QED
      BY <2>2, <2>3
  <1>. QED
    BY <1>1, <1>2, <1>3, <1>4, <1>5 DEF DownloadInv, DownloadTyped, Downloading

\* A block goes to its place.
LEMMA ReadStep == DownloadInv /\ ReadBlock => DownloadInv'
  <1> SUFFICES ASSUME DownloadInv, ReadBlock PROVE DownloadInv'
    OBVIOUS
  <1>1. /\ fetch \in Fetches /\ server \in Servers /\ file \in LocalFiles /\ oldName \in LocalFiles
        /\ fetch.pc = "reading" /\ server.next <= Blocks /\ oldName' = oldName
        /\ file' = [file EXCEPT !.blocks = Append(file.blocks, server.next)]
        /\ fetch' = [fetch EXCEPT !.cur = fetch.cur + 1]
        /\ server' = [server EXCEPT !.next = server.next + 1]
    BY DEF DownloadInv, DownloadTyped, ReadBlock
  <1>2. server.next \in Nat /\ fetch.cur \in Nat /\ file.blocks \in Seq(Nat)
    BY <1>1 DEF Servers, Fetches, LocalFiles
  <1>3. /\ server' \in Servers /\ server'.ranges = server.ranges
        /\ server'.next = server.next + 1
    BY <1>1, <1>2 DEF Servers
  <1>4. fetch' \in Fetches /\ fetch'.pc = "reading" /\ fetch'.cur = fetch.cur + 1
        /\ fetch'.clean = fetch.clean
    <2>1. fetch.cur + 1 \in Nat
      BY <1>2
    <2>. DEFINE n == fetch.cur + 1
    <2>2. fetch' = [fetch EXCEPT !.cur = n] /\ n \in Nat
      BY <1>1, <2>1
    <2>. HIDE DEF n
    <2>3. fetch' \in Fetches /\ fetch'.pc = fetch.pc /\ fetch'.cur = n
          /\ fetch'.clean = fetch.clean
      BY <1>1, <2>2 DEF Fetches
    <2>. QED
      BY <1>1, <2>3 DEF n
  <1>. DEFINE b == Append(file.blocks, server.next)
  <1>5. /\ b \in Seq(Nat) /\ Len(b) = Len(file.blocks) + 1
        /\ \A k \in 1..Len(file.blocks) : b[k] = file.blocks[k]
        /\ b[Len(file.blocks) + 1] = server.next
        /\ Len(file.blocks) \in Nat
    BY <1>2, AppendProperties, LenProperties
  <1>. HIDE DEF b
  <1>6. file' \in LocalFiles /\ file'.blocks = b /\ file'.exists = file.exists
    BY <1>1, <1>5 DEF LocalFiles, b
  <1>7. ASSUME Resumable' PROVE Begun' /\ InStep'
    <2>1. Begun /\ InStep
      BY <1>1, <1>3, <1>4, <1>7 DEF DownloadInv, Resumable, Downloading
    <2>2. server.next = Len(file.blocks) + 1
      BY <1>1, <2>1 DEF InStep
    <2>3. \A k \in 1..Len(b) : b[k] = k
      BY <1>5, <2>1, <2>2 DEF Begun
    <2>4. Begun'
      BY <2>1, <2>2, <2>3, <1>1, <1>4, <1>5, <1>6 DEF Begun
    <2>5. InStep'
      BY <2>1, <2>2, <1>1, <1>3, <1>4, <1>5, <1>6 DEF InStep
    <2>. QED
      BY <2>4, <2>5
  <1>. QED
    BY <1>1, <1>3, <1>4, <1>6, <1>7 DEF DownloadInv, DownloadTyped, Downloading

\* A retry keeps count and file; nothing is opened to be emptied any more.
LEMMA InterruptedStep == DownloadInv /\ Interrupted => DownloadInv'
  <1> SUFFICES ASSUME DownloadInv, Interrupted PROVE DownloadInv'
    OBVIOUS
  <1>1. /\ fetch \in Fetches /\ fetch.pc \in {"request", "reading"}
        /\ fetch' = [fetch EXCEPT !.pc = "request", !.mode = "ab", !.retries = fetch.retries + 1]
        /\ UNCHANGED <<server, file, oldName>>
    BY DEF DownloadInv, DownloadTyped, Interrupted, Retry
  <1>2. fetch.retries + 1 \in Nat
    BY <1>1 DEF Fetches
  <1>3. /\ fetch' \in Fetches /\ fetch'.pc = "request" /\ fetch'.mode = "ab"
        /\ fetch'.cur = fetch.cur /\ fetch'.clean = fetch.clean
    BY <1>1, <1>2 DEF Fetches
  <1>. QED
    BY <1>1, <1>3 DEF DownloadInv, DownloadTyped, Resumable, Downloading, Begun, InStep

\* A reply that was not cut short ended with the last block.
LEMMA EndOfReplyStep == DownloadInv /\ EndOfReply => DownloadInv'
  <1> SUFFICES ASSUME DownloadInv, EndOfReply PROVE DownloadInv'
    OBVIOUS
  <1>. DEFINE pc == IF server.checksum /\ ~IsArchive(file) THEN "refused" ELSE "returned"
  <1>1. /\ fetch \in Fetches /\ server \in Servers /\ file \in LocalFiles
        /\ fetch.pc = "reading"
        /\ fetch' = [fetch EXCEPT !.cut = server.next <= Blocks, !.pc = pc]
        /\ UNCHANGED <<server, file, oldName>>
    BY DEF DownloadInv, DownloadTyped, EndOfReply
  <1>2. /\ fetch' \in Fetches /\ fetch'.pc = pc /\ fetch'.cut = (server.next <= Blocks)
        /\ fetch'.clean = fetch.clean
    <2>. DEFINE cut == server.next <= Blocks
    <2>1. fetch' = [fetch EXCEPT !.cut = cut, !.pc = pc] /\ cut \in BOOLEAN
      BY <1>1
    <2>2. pc \in {"returned", "refused"}
      OBVIOUS
    <2>. HIDE DEF cut, pc
    <2>3. /\ fetch' \in Fetches /\ fetch'.pc = pc /\ fetch'.cut = cut
          /\ fetch'.clean = fetch.clean
      BY <1>1, <2>1, <2>2 DEF Fetches
    <2>. QED
      BY <2>3 DEF cut
  <1>3. DownloadTyped'
    BY <1>1, <1>2 DEF DownloadInv, DownloadTyped
  <1>4. ASSUME Resumable, ~(server.next <= Blocks) PROVE IsArchive(file)
    <2>1. Begun /\ InStep
      BY <1>1, <1>4 DEF DownloadInv, Downloading
    <2>2. Len(file.blocks) \in Nat /\ server.next = Len(file.blocks) + 1
      BY <1>1, <2>1, LenProperties DEF LocalFiles, InStep
    <2>3. Len(file.blocks) = Blocks
      BY <2>1, <2>2, <1>4, DownloadAssumption DEF Begun
    <2>. QED
      BY <1>1, <2>1, <2>3, WholeArchive DEF Begun
  <1>5. Resumable' => Resumable
    BY <1>1, <1>2 DEF Resumable
  <1>6. ASSUME Resumable PROVE DownloadFinished'
    <2>1. CASE server.next <= Blocks
      <3>1. fetch'.cut
        BY <1>2, <2>1
      <3>. QED
        BY <3>1 DEF DownloadFinished
    <2>2. CASE ~(server.next <= Blocks)
      BY <1>1, <1>2, <1>4, <1>6, <2>2 DEF DownloadFinished, IsArchive
    <2>. QED
      BY <2>1, <2>2
  <1>7. ~Downloading'
    BY <1>2 DEF Downloading
  <1>. QED
    BY <1>3, <1>5, <1>6, <1>7 DEF DownloadInv

\* A run is clean that finds a beginning of the archive or nothing.
LEMMA AgainStep == DownloadInv /\ RunAgain => DownloadInv'
  <1> SUFFICES ASSUME DownloadInv, RunAgain PROVE DownloadInv'
    OBVIOUS
  <1>1. /\ fetch' = NewRun(file) /\ file' = file /\ oldName' = oldName
        /\ server \in Servers /\ file \in LocalFiles /\ oldName \in LocalFiles
    BY DEF DownloadInv, DownloadTyped, RunAgain
  <1>2. server' \in Servers
    BY <1>1 DEF RunAgain, Servers
  <1>3. fetch' \in Fetches
    BY <1>1 DEF NewRun, Fetches
  <1>4. ASSUME fetch'.clean PROVE Begun' /\ InStep'
    <2>1. file' \in Beginnings \cup {NoFile}
      BY <1>1, <1>4, CleanRun
    <2>2. fetch'.pc = "resolve"
      BY <1>1 DEF NewRun
    <2>. QED
      BY <1>1, <2>1, <2>2, BeginningType, DownloadAssumption DEF Begun, InStep
  <1>. QED
    BY <1>1, <1>2, <1>3, <1>4 DEF DownloadInv, DownloadTyped, Resumable, Downloading, NewRun

------------------------------------------------------------------------------
(* Theorems. *)

\* DownloadInv is an inductive invariant of the download.
THEOREM DownloadInductive == DownloadSpec => []DownloadInv
<1>1. DownloadInv /\ UNCHANGED downloadVars => DownloadInv'
  BY DEF downloadVars, DownloadInv, DownloadTyped, Resumable, Downloading, Begun, InStep, DownloadFinished,
         IsArchive
<1>2. DownloadInv /\ [DownloadNext]_downloadVars => DownloadInv'
  BY <1>1, ResolveStep, RequestStep, ReadStep, InterruptedStep, EndOfReplyStep, AgainStep
     DEF DownloadNext
<1>. QED
  BY <1>2, DownloadInitInv, PTL DEF DownloadSpec

\* Resuming is exact for every archive and every number of interruptions: a run
\* that began with no file or a beginning of the archive, and was not cut off,
\* returns the archive, also without a checksum.
THEOREM DownloadIsExact == DownloadSpec => []ResumeExact
<1>1. DownloadInv => ResumeExact
  BY DEF DownloadInv, DownloadTyped, Fetches, Resumable, Downloading, DownloadFinished, ResumeExact
<1>. QED
  BY <1>1, DownloadInductive, PTL

------------------------------------------------------------------------------
(* The types of the download. *)

\* The count of the program does not pass the end of the file, which has room
\* for the archive; a file to be emptied is counted from its first byte.
Sized ==
    /\ file.blocks \in Seq(0..Blocks) /\ oldName.blocks \in Seq(0..Blocks)
    /\ Len(file.blocks) <= MaxFile
    /\ fetch.cur <= Len(file.blocks)
    /\ fetch.pc = "resolve" => fetch.cur = 0
    /\ fetch.pc = "request" /\ fetch.mode = "wb" => fetch.cur = 0
    /\ fetch.retries \in 0..MaxRetries
    /\ server.next \in 1..(Blocks + 1)

\* The files the download may find or make have blocks of the archive, or wrong
\* ones, and are not longer than it.
LEMMA SizesOf ==
    ASSUME NEW f \in {NoFile, File(Archive), File(<<>>)} \cup Others \cup Beginnings
    PROVE  f.blocks \in Seq(0..Blocks) /\ Len(f.blocks) \in 0..MaxFile
  <1>1. /\ Blocks \in Nat /\ MaxFile \in Nat /\ Blocks <= MaxFile /\ Blocks > 0
        /\ Archive \in [1..Blocks -> 0..Blocks]
        /\ [k \in 1..Blocks |-> Wrong] \in [1..Blocks -> 0..Blocks]
    BY DownloadAssumption DEF Archive, Wrong
  <1>2. \A s \in [1..Blocks -> 0..Blocks] : s \in Seq(0..Blocks) /\ Len(s) = Blocks
    <2> TAKE s \in [1..Blocks -> 0..Blocks]
    <2>1. s \in Seq(0..Blocks)
      BY <1>1, SeqDef
    <2>2. Len(s) \in Nat /\ DOMAIN s = 1..Len(s)
      BY <2>1, LenProperties
    <2>. QED
      BY <2>1, <2>2, <1>1
  <1>3. CASE f = NoFile \/ f = File(<<>>)
    <2>1. f.blocks = <<>>
      BY <1>3 DEF NoFile, File
    <2>. QED
      BY <2>1, <1>1, EmptySeq
  <1>4. CASE f = File(<<Wrong>>)
    BY <1>1, <1>4 DEF File, Wrong
  <1>5. CASE f = File(Archive) \/ f = File([k \in 1..Blocks |-> Wrong])
    <2>1. ASSUME NEW s \in [1..Blocks -> 0..Blocks], f = File(s)
          PROVE  f.blocks \in Seq(0..Blocks) /\ Len(f.blocks) \in 0..MaxFile
      <3>1. f.blocks = s
        BY <2>1 DEF File
      <3>. QED
        BY <3>1, <1>1, <1>2
    <2>. QED
      BY <1>1, <1>5, <2>1
  <1>6. CASE f \in Beginnings
    <2>1. PICK n \in 0..(Blocks - 1) : f = File(SubSeq(Archive, 1, n))
      BY <1>6 DEF Beginnings
    <2>2. n \in Nat /\ n < Blocks
      BY <2>1, <1>1
    <2>3. \A k \in 1..n : Archive[k] \in 0..Blocks
      BY <2>2, <1>1 DEF Archive
    <2>. DEFINE b == SubSeq(Archive, 1, n)
    <2>4. b \in Seq(0..Blocks) /\ Len(b) = IF 1 <= n THEN n - 1 + 1 ELSE 0
      BY <2>2, <2>3, SubSeqProperties
    <2>. HIDE DEF b
    <2>5. f.blocks = b
      BY <2>1 DEF File, b
    <2>. QED
      BY <2>2, <2>4, <2>5, <1>1
  <1>. QED
    BY <1>3, <1>4, <1>5, <1>6 DEF Others

\* A step of the download keeps the sizes.
LEMMA SizedStep == DownloadInv /\ Sized /\ [DownloadNext]_downloadVars => Sized'
  <1> SUFFICES ASSUME DownloadInv, Sized, [DownloadNext]_downloadVars PROVE Sized'
    OBVIOUS
  <1>1. /\ fetch \in Fetches /\ server \in Servers /\ file \in LocalFiles
        /\ oldName \in LocalFiles /\ Len(file.blocks) \in Nat
        /\ Blocks \in Nat /\ MaxFile \in Nat /\ MaxRetries \in Nat /\ Blocks > 0
    BY LenProperties, DownloadAssumption DEF DownloadInv, DownloadTyped, LocalFiles
  <1>2. CASE UNCHANGED downloadVars
    BY <1>2 DEF downloadVars, Sized
  <1>3. CASE Resolve
    <2>1. CASE server.checksum /\ IsArchive(Existing)
      <3>1. /\ fetch' = [fetch EXCEPT !.pc = "returned"] /\ file' = File(Archive)
            /\ oldName' \in {oldName, NoFile} /\ server' = server /\ fetch.pc = "resolve"
        BY <1>3, <2>1 DEF Resolve
      <3>2. file'.blocks \in Seq(0..Blocks) /\ Len(file'.blocks) \in 0..MaxFile
        BY <3>1, SizesOf
      <3>3. oldName'.blocks \in Seq(0..Blocks)
        BY <3>1, SizesOf DEF Sized
      <3>4. /\ fetch'.pc = "returned" /\ fetch'.cur = fetch.cur /\ fetch.cur = 0
            /\ fetch'.retries = fetch.retries
        BY <1>1, <3>1 DEF Fetches, Sized
      <3>. QED
        BY <1>1, <3>1, <3>2, <3>3, <3>4 DEF Sized
    <2>2. CASE ~(server.checksum /\ IsArchive(Existing))
      <3>. DEFINE size == Len(file.blocks)
                  cur == IF server.sized /\ size >= Blocks THEN 0 ELSE size
      <3>1. /\ fetch' = [fetch EXCEPT !.pc = "request", !.cur = cur,
                                      !.mode = IF cur > 0 THEN "ab" ELSE "wb"]
            /\ file' = file /\ oldName' = oldName /\ server' = server
        BY <1>3, <2>2 DEF Resolve
      <3>2. cur \in Nat /\ cur <= Len(file.blocks)
        BY <1>1
      <3>3. /\ fetch'.pc = "request" /\ fetch'.cur = cur /\ fetch'.retries = fetch.retries
            /\ fetch'.mode = IF cur > 0 THEN "ab" ELSE "wb"
        BY <1>1, <3>1 DEF Fetches
      <3>. QED
        BY <1>1, <3>1, <3>2, <3>3 DEF Sized
    <2>. QED
      BY <2>1, <2>2
  <1>4. CASE Request
    <2>1. /\ fetch.pc = "request" /\ oldName' = oldName
          /\ server' = [server EXCEPT !.next = IF server.ranges THEN fetch.cur + 1 ELSE 1]
          /\ file' = IF fetch.mode = "wb" THEN File(<<>>) ELSE File(file.blocks)
          /\ fetch' = [fetch EXCEPT !.pc = "reading"]
          /\ fetch.cur > 0 /\ server.ranges => fetch.cur < Blocks
      BY <1>4 DEF Request
    <2>2. fetch'.pc = "reading" /\ fetch'.cur = fetch.cur /\ fetch'.retries = fetch.retries
      BY <1>1, <2>1 DEF Fetches
    <2>3. server'.next = IF server.ranges THEN fetch.cur + 1 ELSE 1
      BY <1>1, <2>1 DEF Servers
    <2>4. fetch.cur \in Nat
      BY <1>1 DEF Fetches
    <2>5. server'.next \in 1..(Blocks + 1)
      BY <1>1, <2>1, <2>3, <2>4
    <2>6. CASE fetch.mode = "wb"
      <3>1. file'.blocks = <<>> /\ fetch.cur = 0
        BY <2>1, <2>6 DEF File, Sized
      <3>2. file'.blocks \in Seq(0..Blocks) /\ Len(file'.blocks) = 0
        BY <3>1
      <3>. QED
        BY <1>1, <2>1, <2>2, <2>5, <3>1, <3>2 DEF Sized
    <2>7. CASE fetch.mode # "wb"
      <3>1. file'.blocks = file.blocks
        BY <2>1, <2>7 DEF File
      <3>. QED
        BY <1>1, <2>1, <2>2, <2>5, <3>1 DEF Sized
    <2>. QED
      BY <2>6, <2>7
  <1>5. CASE ReadBlock
    <2>1. /\ server.next <= Blocks /\ Len(file.blocks) < MaxFile /\ oldName' = oldName
          /\ fetch.pc = "reading"
          /\ file' = [file EXCEPT !.blocks = Append(file.blocks, server.next)]
          /\ fetch' = [fetch EXCEPT !.cur = fetch.cur + 1]
          /\ server' = [server EXCEPT !.next = server.next + 1]
      BY <1>5 DEF ReadBlock
    <2>2. /\ fetch'.cur = fetch.cur + 1 /\ fetch'.pc = "reading" /\ fetch.cur \in Nat
          /\ fetch'.retries = fetch.retries
      BY <1>1, <2>1 DEF Fetches
    <2>3. server'.next = server.next + 1 /\ server.next \in Nat
      BY <1>1, <2>1 DEF Servers
    <2>4. file'.blocks = Append(file.blocks, server.next)
      BY <1>1, <2>1 DEF LocalFiles
    <2>5. file.blocks \in Seq(0..Blocks) /\ server.next \in 0..Blocks
      BY <1>1, <2>1, <2>3 DEF Sized
    <2>6. file'.blocks \in Seq(0..Blocks) /\ Len(file'.blocks) = Len(file.blocks) + 1
      BY <2>4, <2>5, AppendProperties
    <2>7. fetch'.cur <= Len(file'.blocks) /\ Len(file'.blocks) <= MaxFile
          /\ server'.next \in 1..(Blocks + 1)
      BY <1>1, <2>1, <2>2, <2>3, <2>6 DEF Sized
    <2>. QED
      BY <2>1, <2>2, <2>6, <2>7 DEF Sized
  <1>6. CASE Interrupted
    <2>1. /\ fetch' = [fetch EXCEPT !.pc = "request", !.mode = "ab",
                                    !.retries = fetch.retries + 1]
          /\ fetch.retries < MaxRetries /\ UNCHANGED <<server, file, oldName>>
      BY <1>6 DEF Interrupted, Retry
    <2>2. /\ fetch'.pc = "request" /\ fetch'.mode = "ab" /\ fetch'.cur = fetch.cur
          /\ fetch'.retries = fetch.retries + 1 /\ fetch.retries \in Nat
      BY <1>1, <2>1 DEF Fetches
    <2>. QED
      BY <1>1, <2>1, <2>2 DEF Sized
  <1>7. CASE EndOfReply
    <2>. DEFINE pc == IF server.checksum /\ ~IsArchive(file) THEN "refused" ELSE "returned"
                cut == server.next <= Blocks
    <2>1. fetch' = [fetch EXCEPT !.cut = cut, !.pc = pc] /\ UNCHANGED <<server, file, oldName>>
      BY <1>7 DEF EndOfReply
    <2>2. pc \in {"returned", "refused"}
      OBVIOUS
    <2>. HIDE DEF pc, cut
    <2>3. fetch'.pc = pc /\ fetch'.cur = fetch.cur /\ fetch'.retries = fetch.retries
      BY <1>1, <2>1 DEF Fetches
    <2>. QED
      BY <2>1, <2>2, <2>3 DEF Sized
  <1>8. CASE RunAgain
    <2>1. /\ fetch' = NewRun(file) /\ file' = file /\ oldName' = oldName
          /\ server' \in [checksum : {server.checksum}, sized : BOOLEAN,
                          ranges : {server.ranges}, next : {1}]
      BY <1>8 DEF RunAgain
    <2>2. fetch'.pc = "resolve" /\ fetch'.cur = 0 /\ fetch'.retries = 0
      BY <2>1 DEF NewRun
    <2>3. server'.next = 1
      BY <2>1
    <2>. QED
      BY <1>1, <2>1, <2>2, <2>3 DEF Sized
  <1>. QED
    BY <1>2, <1>3, <1>4, <1>5, <1>6, <1>7, <1>8 DEF DownloadNext

\* The download's variables have their types, and its counters their bounds.
THEOREM DownloadTypes == DownloadSpec => []DownloadTypeOK
<1>1. DownloadInit => Sized
  <2> SUFFICES ASSUME DownloadInit PROVE Sized
    OBVIOUS
  <2>1. /\ file \in {NoFile, File(Archive), File(<<>>)} \cup Others \cup Beginnings
        /\ oldName \in {NoFile, File(Archive), File(<<>>)} \cup Others \cup Beginnings
    BY DEF DownloadInit, Others
  <2>2. fetch.pc = "resolve" /\ fetch.cur = 0 /\ fetch.retries = 0 /\ server.next = 1
    BY DEF DownloadInit, NewRun
  <2>. QED
    BY <2>1, <2>2, SizesOf, DownloadAssumption DEF Sized
<1>2. DownloadInv /\ Sized => DownloadTypeOK
  <2> SUFFICES ASSUME DownloadInv, Sized PROVE DownloadTypeOK
    OBVIOUS
  <2>1. /\ fetch.pc \in {"resolve", "request", "reading", "returned", "refused"}
        /\ fetch.mode \in {"wb", "ab"} /\ fetch.cur \in Nat
    BY DEF DownloadInv, DownloadTyped, Fetches
  <2>2. Len(file.blocks) \in Nat /\ MaxFile \in Nat
    BY LenProperties, DownloadAssumption DEF Sized
  <2>3. fetch.cur \in 0..MaxFile
    BY <2>1, <2>2 DEF Sized
  <2>. QED
    BY <2>1, <2>3 DEF Sized, DownloadTypeOK
<1>. QED
  BY <1>1, <1>2, SizedStep, DownloadInitInv, DownloadInductive, PTL DEF DownloadSpec

------------------------------------------------------------------------------
(* The window of captures: what it counted stays on disk as it was.  The   *)
(* thread writes only to the next number (AtWork), and what was counted is *)
(* behind it (CountedBehind).                                              *)

Tries == 0..(MaxTasks * MaxTries)
Apps == [dir : 0..MaxTasks, valid : 0..Target, sample : 0..Target,
         attempts : 0..MaxTries, failed : Nat, tries : Tries, capturing : BOOLEAN,
         exiting : BOOLEAN, counted : SUBSET (DirNames \X Samples \X Tries)]
Threads == [pc : Steps \cup {"none"}, dir : 0..MaxTasks, sample : 0..Target, try : Tries]
RowResults == {"none", "success", "failed"}
SampleFiles == [bin : Tries, json : RowResults \X Tries, row : RowResults]

StudioTyped ==
    /\ app \in Apps /\ thread \in Threads /\ cancelled \in BOOLEAN
    /\ dirs \in [DirNames -> [Samples -> SampleFiles]]

\* The numbers of a task in their order, and its attempts.
Ordered ==
    /\ app.dir = 0 => app.sample = 0 /\ app.valid = 0 /\ app.tries = 0 /\ app.attempts = 0
    /\ app.dir # 0 => /\ app.tries + MaxTries <= app.dir * MaxTries + app.attempts
                      /\ app.sample >= 1
    /\ app.dir # 0 /\ app.valid < Target => app.sample = app.valid + 1

Whole(files, try) ==
    files.bin = try /\ files.json = <<"success", try>> /\ files.row = "success"
Here == dirs[app.dir][app.sample]
OkResult == [ok |-> TRUE, dir |-> app.dir, sample |-> app.sample, try |-> app.tries]

\* The thread works on the sample the window waits for, and what it has written
\* of it is of this attempt; what it reports is whole.
ThreadAtWork ==
    /\ thread.dir = app.dir /\ thread.sample = app.sample /\ thread.try = app.tries
    /\ results = <<>>
    /\ thread.pc \in {"json", "text", "manifest", "final"} => Here.bin = app.tries
    /\ thread.pc = "final" => Here.row = "success"
ThreadDone ==
    results = <<[ok |-> FALSE]>> \/ (results = <<OkResult>> /\ Whole(Here, app.tries))
AtWork ==
    /\ app.exiting => thread.pc = "none"
    /\ thread.pc # "none" => app.capturing /\ ThreadAtWork
    /\ app.capturing => app.dir # 0 /\ app.valid < Target
    /\ app.capturing /\ ~app.exiting /\ thread.pc = "none" => ThreadDone
    /\ ~app.capturing => results = <<>>

CountedOf(counted, d) == {c \in counted : c[1] = d}
CountedBehind ==
    /\ \A c \in app.counted :
         /\ c[1] <= app.dir /\ (c[1] = app.dir => c[2] <= app.valid)
         /\ Whole(dirs[c[1]][c[2]], c[3])
    /\ IsFiniteSet(CountedOf(app.counted, app.dir))
    /\ Cardinality(CountedOf(app.counted, app.dir)) = app.valid

StudioInv == StudioTyped /\ Ordered /\ AtWork /\ CountedBehind

\* A task's attempts fit among those of all tasks.
LEMMA TriesFit ==
    ASSUME NEW d \in 0..MaxTasks, d # 0, NEW n \in Nat, NEW k \in 0..MaxTries,
           n + MaxTries <= d * MaxTries + k
    PROVE  n \in Tries
  <1>1. MaxTasks \in Nat /\ MaxTries \in Nat /\ d \in Nat /\ d <= MaxTasks /\ k <= MaxTries
    BY CaptureAssumption
  <1>2. \A a, b, m \in Nat : a <= b => a * m <= b * m
    OBVIOUS
  <1>3. /\ d * MaxTries <= MaxTasks * MaxTries
        /\ d * MaxTries \in Nat /\ MaxTasks * MaxTries \in Nat
    BY <1>1, <1>2
  <1>4. n <= d * MaxTries
    BY <1>1, <1>3
  <1>. QED
    BY <1>1, <1>3, <1>4 DEF Tries

\* Nothing is captured in the beginning.
LEMMA StudioInitInv == CaptureInit => StudioInv
  <1> SUFFICES ASSUME CaptureInit PROVE StudioInv
    OBVIOUS
  <1>1. 0 \in Tries /\ MaxTasks \in Nat /\ MaxTries \in Nat /\ Target \in Nat
    <2>1. \A a, b \in Nat : a * b \in Nat
      OBVIOUS
    <2>. QED
      BY <2>1, CaptureAssumption DEF Tries
  <1>2. app \in Apps
    BY <1>1 DEF CaptureInit, Apps
  <1>3. thread \in Threads /\ thread.pc = "none"
    BY <1>1 DEF CaptureInit, Threads, NoThread
  <1>4. NoFiles \in SampleFiles
    BY <1>1 DEF NoFiles, SampleFiles, RowResults
  <1>5. StudioTyped
    BY <1>2, <1>3, <1>4 DEF StudioTyped, CaptureInit
  <1>6. Ordered
    BY <1>1 DEF CaptureInit, Ordered
  <1>7. AtWork
    BY <1>3 DEF CaptureInit, AtWork
  <1>8. CountedBehind
    <2>1. app.counted = {} /\ CountedOf(app.counted, app.dir) = {} /\ app.valid = 0
      BY DEF CaptureInit, CountedOf
    <2>. QED
      BY <2>1, FS_EmptySet DEF CountedBehind
  <1>. QED
    BY <1>5, <1>6, <1>7, <1>8 DEF StudioInv

\* Nothing is counted of a directory that is to be made.
LEMMA BuildTaskStep == StudioInv /\ BuildTask => StudioInv'
  <1> SUFFICES ASSUME StudioInv, BuildTask PROVE StudioInv'
    OBVIOUS
  <1>1. /\ app \in Apps /\ thread \in Threads /\ Target \in Nat \ {0} /\ MaxTasks \in Nat
        /\ MaxTries \in Nat
        /\ app.dir \in 0..MaxTasks /\ app.attempts \in 0..MaxTries /\ app.tries \in Nat
    BY CaptureAssumption DEF StudioInv, StudioTyped, Apps, Tries
  <1>2. /\ ~app.capturing /\ ~app.exiting /\ app.dir + 1 \in 0..MaxTasks
        /\ app' = [app EXCEPT !.dir = app.dir + 1, !.valid = 0, !.attempts = 0,
                          !.failed = 0, !.sample = 1]
        /\ UNCHANGED <<thread, cancelled, results, dirs>>
    BY <1>1 DEF BuildTask, FreeDir, MadeDirs, DirNames
  <1>3. /\ app' \in Apps /\ app'.dir = app.dir + 1 /\ app'.valid = 0 /\ app'.attempts = 0
        /\ app'.sample = 1 /\ app'.counted = app.counted /\ app'.tries = app.tries
        /\ app'.capturing = app.capturing /\ app'.exiting = app.exiting
    <2>1. 0 \in 0..Target /\ 1 \in 0..Target /\ 0 \in 0..MaxTries /\ 0 \in Nat
      BY <1>1
    <2>. DEFINE d == app.dir + 1
    <2>2. d \in 0..MaxTasks /\ app' = [app EXCEPT !.dir = d, !.valid = 0, !.attempts = 0,
                                      !.failed = 0, !.sample = 1]
      BY <1>2
    <2>. HIDE DEF d
    <2>3. /\ app' \in Apps /\ app'.dir = d /\ app'.valid = 0 /\ app'.attempts = 0
          /\ app'.sample = 1 /\ app'.counted = app.counted /\ app'.tries = app.tries
          /\ app'.capturing = app.capturing /\ app'.exiting = app.exiting
      BY <1>1, <2>1, <2>2 DEF Apps
    <2>. QED
      BY <2>3 DEF d
  <1>4. StudioTyped'
    BY <1>2, <1>3 DEF StudioInv, StudioTyped
  <1>5. Ordered'
    <2>1. (app.dir + 1) * MaxTries = app.dir * MaxTries + MaxTries /\ app.dir * MaxTries \in Nat
      <3>1. \A a, m \in Nat : (a + 1) * m = a * m + m /\ a * m \in Nat
        OBVIOUS
      <3>. QED
        BY <3>1, <1>1
    <2>2. app.tries <= app.dir * MaxTries
      <3>. DEFINE m == app.dir * MaxTries
      <3>1. m \in Nat /\ (app.dir # 0 => app.tries + MaxTries <= m + app.attempts)
            /\ (app.dir = 0 => app.tries = 0)
        BY <2>1 DEF StudioInv, Ordered
      <3>. HIDE DEF m
      <3>2. app.tries <= m
        BY <1>1, <3>1
      <3>. QED
        BY <3>2 DEF m
    <2>. QED
      BY <1>1, <1>3, <2>1, <2>2 DEF Ordered
  <1>6. AtWork'
    BY <1>2, <1>3 DEF StudioInv, AtWork
  <1>7. CountedBehind'
    <2>1. \A c \in app.counted : c[1] \in Nat /\ c[1] <= app.dir /\ Whole(dirs[c[1]][c[2]], c[3])
      BY <1>1 DEF StudioInv, CountedBehind, Apps, DirNames
    <2>2. CountedOf(app'.counted, app'.dir) = {}
      BY <2>1, <1>1, <1>3 DEF CountedOf
    <2>3. \A c \in app'.counted :
            /\ c[1] <= app'.dir /\ (c[1] = app'.dir => c[2] <= app'.valid)
            /\ Whole(dirs'[c[1]][c[2]], c[3])
      BY <2>1, <1>1, <1>2, <1>3
    <2>. QED
      BY <2>2, <2>3, <1>3, FS_EmptySet DEF CountedBehind
  <1>. QED
    BY <1>4, <1>5, <1>6, <1>7 DEF StudioInv

\* What was counted stays so when neither the counting nor the task changes and
\* the counted samples' files stay.
LEMMA BehindStays ==
    ASSUME CountedBehind, UNCHANGED <<app.dir, app.valid, app.counted>>,
           \A c \in app.counted : dirs'[c[1]][c[2]] = dirs[c[1]][c[2]]
    PROVE  CountedBehind'
  BY DEF CountedBehind, CountedOf, Whole

\* The button starts a thread for the next number.
LEMMA StartCapturingStep == StudioInv /\ StartCapturing => StudioInv'
  <1> SUFFICES ASSUME StudioInv, StartCapturing PROVE StudioInv'
    OBVIOUS
  <1>1. /\ app \in Apps /\ Target \in Nat \ {0} /\ MaxTasks \in Nat /\ MaxTries \in Nat
        /\ app.dir \in 0..MaxTasks /\ app.attempts \in 0..MaxTries /\ app.tries \in Nat
        /\ app.sample \in 0..Target
    BY CaptureAssumption DEF StudioInv, StudioTyped, Apps, Tries
  <1>2. /\ app.dir # 0 /\ ~app.capturing /\ ~app.exiting /\ app.valid < Target
        /\ app.attempts < MaxTries
        /\ app' = [app EXCEPT !.capturing = TRUE, !.attempts = app.attempts + 1,
                              !.tries = app.tries + 1]
        /\ cancelled' = FALSE /\ results' = results /\ dirs' = dirs
        /\ thread' = [pc |-> "checking", dir |-> app.dir, sample |-> app.sample,
                      try |-> app.tries + 1]
    BY DEF StartCapturing
  <1>3. app.attempts + 1 \in 0..MaxTries
    BY <1>1, <1>2
  <1>. DEFINE p == app.dir * MaxTries
              n == app.tries + 1
              k == app.attempts + 1
  <1>4. n \in Nat /\ n + MaxTries <= p + k
    <2>1. p \in Nat
      <3>1. \A a, b \in Nat : a * b \in Nat
        OBVIOUS
      <3>. QED
        BY <3>1, <1>1
    <2>2. app.tries + MaxTries <= p + app.attempts
      BY <1>2 DEF StudioInv, Ordered
    <2>. HIDE DEF p
    <2>. QED
      BY <2>1, <2>2, <1>1
  <1>5. n \in Tries
    BY <1>1, <1>2, <1>3, <1>4, TriesFit
  <1>6. /\ app' \in Apps /\ app'.capturing = TRUE /\ app'.exiting = FALSE
        /\ app'.tries = n /\ app'.attempts = k
        /\ UNCHANGED <<app.dir, app.valid, app.sample, app.counted>>
    <2>1. app' = [app EXCEPT !.capturing = TRUE, !.attempts = k, !.tries = n]
      BY <1>2
    <2>2. k \in 0..MaxTries
      BY <1>3
    <2>. HIDE DEF n, k
    <2>. QED
      BY <1>1, <1>2, <1>5, <2>1, <2>2 DEF Apps
  <1>7. /\ thread' \in Threads /\ thread'.pc = "checking" /\ thread'.dir = app.dir
        /\ thread'.sample = app.sample /\ thread'.try = n
    <2>. HIDE DEF n
    <2>1. thread' = [pc |-> "checking", dir |-> app.dir, sample |-> app.sample, try |-> n]
      BY <1>2 DEF n
    <2>. QED
      BY <1>1, <1>5, <2>1 DEF Threads, Steps
  <1>8. StudioTyped'
    BY <1>2, <1>6, <1>7 DEF StudioInv, StudioTyped
  <1>9. Ordered'
    <2>1. n + MaxTries <= app'.dir * MaxTries + k
      BY <1>4, <1>6
    <2>. HIDE DEF n, k
    <2>. QED
      BY <1>2, <1>6, <2>1 DEF StudioInv, Ordered
  <1>10. AtWork'
    BY <1>2, <1>6, <1>7 DEF StudioInv, AtWork, ThreadAtWork
  <1>11. CountedBehind'
    BY <1>2, <1>6, BehindStays DEF StudioInv
  <1>. QED
    BY <1>8, <1>9, <1>10, <1>11 DEF StudioInv

\* The end of the program ends the thread.
LEMMA SafeExitStep == StudioInv /\ SafeExit => StudioInv'
  <1> SUFFICES ASSUME StudioInv, SafeExit PROVE StudioInv'
    OBVIOUS
  <1>1. /\ app \in Apps /\ app' = [app EXCEPT !.exiting = TRUE] /\ thread' = NoThread
        /\ UNCHANGED <<cancelled, results, dirs>>
    BY DEF StudioInv, StudioTyped, SafeExit
  <1>2. /\ app' \in Apps /\ app'.exiting = TRUE
        /\ UNCHANGED <<app.dir, app.valid, app.sample, app.counted, app.tries,
                      app.attempts, app.capturing>>
    BY <1>1 DEF Apps
  <1>3. 0 \in Tries /\ 0 \in 0..MaxTasks /\ 0 \in 0..Target
    <2>1. \A a, b \in Nat : a * b \in Nat
      OBVIOUS
    <2>. QED
      BY <2>1, CaptureAssumption DEF Tries
  <1>4. thread' \in Threads /\ thread'.pc = "none"
    BY <1>1, <1>3 DEF NoThread, Threads
  <1>5. StudioTyped' /\ Ordered'
    BY <1>1, <1>2, <1>4 DEF StudioInv, StudioTyped, Ordered
  <1>6. AtWork'
    BY <1>1, <1>2, <1>4 DEF StudioInv, AtWork
  <1>7. CountedBehind'
    BY <1>1, <1>2, BehindStays DEF StudioInv
  <1>. QED
    BY <1>5, <1>6, <1>7 DEF StudioInv

\* A sample that is counted is whole and was not counted before.
LEMMA SucceededStep ==
    ASSUME StudioInv, ~app.exiting, app.capturing, thread.pc = "none",
           results = <<OkResult>>, app' = Succeeded(OkResult), results' = <<>>,
           UNCHANGED <<thread, cancelled, dirs>>
    PROVE  StudioInv'
  <1>1. /\ app \in Apps /\ Target \in Nat \ {0} /\ app.dir \in 0..MaxTasks /\ app.dir # 0
        /\ app.valid \in 0..Target /\ app.valid < Target /\ app.sample = app.valid + 1
        /\ app.tries \in Tries /\ app.exiting \in BOOLEAN /\ MaxTasks \in Nat
        /\ app.counted \subseteq DirNames \X Samples \X Tries
    BY CaptureAssumption DEF StudioInv, StudioTyped, AtWork, Ordered, Apps
  <1>. DEFINE new == <<app.dir, app.sample, app.tries>>
              next == IF app.valid + 1 < Target THEN app.sample + 1 ELSE app.sample
              v == app.valid + 1
  <1>2. /\ next \in 0..Target /\ v \in 0..Target /\ (v < Target => next = v + 1) /\ next >= 1
        /\ app.dir \in DirNames /\ app.sample \in Samples
    BY <1>1 DEF DirNames, Samples
  <1>3. new \in DirNames \X Samples \X Tries
    BY <1>1, <1>2
  <1>4. app' = [app EXCEPT !.valid = v, !.capturing = FALSE, !.sample = next,
                           !.counted = app.counted \cup {new}]
    BY DEF Succeeded, OkResult
  <1>5. /\ app' \in Apps /\ app'.valid = v /\ app'.capturing = FALSE /\ app'.sample = next
        /\ app'.counted = app.counted \cup {new}
        /\ UNCHANGED <<app.dir, app.tries, app.attempts, app.exiting>>
    <2>. HIDE DEF new, next, v
    <2>1. app.counted \cup {new} \in SUBSET (DirNames \X Samples \X Tries)
      BY <1>1, <1>3
    <2>. QED
      BY <1>1, <1>2, <1>4, <2>1 DEF Apps
  <1>6. StudioTyped'
    BY <1>5 DEF StudioInv, StudioTyped
  <1>7. Ordered'
    <2>. HIDE DEF next, v
    <2>. QED
      BY <1>1, <1>2, <1>5 DEF StudioInv, Ordered
  <1>8. AtWork'
    BY <1>5 DEF AtWork
  <1>9. Whole(Here, app.tries)
    <2>1. results # <<[ok |-> FALSE]>>
      <3>1. OkResult # [ok |-> FALSE]
        BY DEF OkResult
      <3>. QED
        BY <3>1
    <2>. QED
      BY <2>1 DEF StudioInv, AtWork, ThreadDone
  <1>10. CountedBehind'
    <2>. DEFINE old == CountedOf(app.counted, app.dir)
    <2>1. new \notin old
      BY <1>1 DEF StudioInv, CountedBehind, CountedOf
    <2>2. CountedOf(app'.counted, app'.dir) = old \cup {new}
      BY <1>5 DEF CountedOf
    <2>3. IsFiniteSet(old) /\ Cardinality(old) = app.valid
      BY DEF StudioInv, CountedBehind
    <2>4. IsFiniteSet(old \cup {new}) /\ Cardinality(old \cup {new}) = app.valid + 1
      BY <2>1, <2>3, FS_AddElement
    <2>5. ASSUME NEW c \in app'.counted
          PROVE  /\ c[1] <= app'.dir /\ (c[1] = app'.dir => c[2] <= app'.valid)
                 /\ Whole(dirs'[c[1]][c[2]], c[3])
      <3>1. CASE c \in app.counted
        <4>1. c[2] \in Nat
          BY <1>1, <3>1 DEF Samples
        <4>. QED
          BY <1>1, <1>5, <3>1, <4>1 DEF StudioInv, CountedBehind
      <3>2. CASE c = new
        <4>1. c[1] = app.dir /\ c[2] = app.sample /\ c[3] = app.tries
          BY <3>2
        <4>. QED
          BY <4>1, <1>1, <1>5, <1>9 DEF Here
      <3>. QED
        BY <1>5, <3>1, <3>2
    <2>. QED
      BY <1>5, <2>2, <2>4, <2>5 DEF CountedBehind
  <1>. QED
    BY <1>6, <1>7, <1>8, <1>10 DEF StudioInv

\* A result that is read leaves nothing in the queue.
LEMMA PollQueueStep == StudioInv /\ PollQueue => StudioInv'
  <1> SUFFICES ASSUME StudioInv, PollQueue PROVE StudioInv'
    OBVIOUS
  <1>1. /\ app \in Apps /\ results # <<>> /\ ~app.exiting /\ results' = Tail(results)
        /\ app' = IF Head(results).ok THEN Succeeded(Head(results))
                  ELSE [app EXCEPT !.failed = app.failed + 1, !.capturing = FALSE]
        /\ UNCHANGED <<thread, cancelled, dirs>>
    BY DEF StudioInv, StudioTyped, PollQueue
  <1>2. app.capturing /\ thread.pc = "none"
    BY <1>1 DEF StudioInv, AtWork, ThreadAtWork
  <1>3. \A x : Head(<<x>>) = x /\ Tail(<<x>>) = <<>>
    OBVIOUS
  <1>4. CASE results = <<OkResult>>
    <2>1. Head(results) = OkResult /\ results' = <<>> /\ OkResult.ok = TRUE
      BY <1>1, <1>3, <1>4 DEF OkResult
    <2>2. app' = Succeeded(OkResult)
      BY <1>1, <2>1
    <2>. QED
      BY <1>1, <1>2, <1>4, <2>1, <2>2, SucceededStep
  <1>5. CASE results = <<[ok |-> FALSE]>>
    <2>1. Head(results).ok = FALSE /\ results' = <<>>
      BY <1>1, <1>3, <1>5
    <2>2. app' = [app EXCEPT !.failed = app.failed + 1, !.capturing = FALSE]
      BY <1>1, <2>1
    <2>3. app.failed + 1 \in Nat
      BY <1>1 DEF Apps
    <2>4. /\ app' \in Apps /\ app'.capturing = FALSE
          /\ UNCHANGED <<app.dir, app.valid, app.sample, app.counted, app.tries,
                        app.attempts, app.exiting>>
      BY <1>1, <2>2, <2>3 DEF Apps
    <2>5. StudioTyped' /\ Ordered'
      BY <1>1, <2>4 DEF StudioInv, StudioTyped, Ordered
    <2>6. AtWork'
      BY <1>1, <1>2, <2>1, <2>4 DEF AtWork
    <2>7. CountedBehind'
      BY <1>1, <2>4, BehindStays DEF StudioInv
    <2>. QED
      BY <2>5, <2>6, <2>7 DEF StudioInv
  <1>. QED
    BY <1>1, <1>2, <1>4, <1>5 DEF StudioInv, AtWork, ThreadDone

\* Where the thread works.
LEMMA WorkPlace ==
    ASSUME StudioInv, thread.pc # "none"
    PROVE  /\ ThreadAtWork /\ app.capturing /\ ~app.exiting
           /\ app.dir \in DirNames /\ app.sample \in Samples /\ app.sample = app.valid + 1
           /\ app.valid \in Nat /\ Files = Here /\ Here \in SampleFiles
           /\ app.tries \in Tries
  <1>1. ThreadAtWork /\ app.capturing /\ ~app.exiting /\ app.dir # 0 /\ app.valid < Target
    BY DEF StudioInv, AtWork
  <1>2. /\ app.dir \in 0..MaxTasks /\ app.valid \in 0..Target /\ app.tries \in Tries
        /\ MaxTasks \in Nat /\ Target \in Nat /\ app.sample = app.valid + 1
    BY <1>1, CaptureAssumption DEF StudioInv, StudioTyped, Apps, Ordered
  <1>3. app.dir \in DirNames /\ app.sample \in Samples
    BY <1>1, <1>2 DEF DirNames, Samples
  <1>4. Here \in SampleFiles
    BY <1>3 DEF StudioInv, StudioTyped, Here
  <1>5. Files = Here
    BY <1>1 DEF ThreadAtWork, Files, Here
  <1>. QED
    BY <1>1, <1>2, <1>3, <1>4, <1>5

\* A step of the thread writes to no sample that was counted.
LEMMA ThreadWrites ==
    ASSUME StudioInv, thread.pc # "none", UNCHANGED <<app, cancelled>>,
           thread' \in Threads, NEW files \in SampleFiles, Store(files),
           Here' = files => AtWork'
    PROVE  StudioInv'
  <1>1. /\ ThreadAtWork /\ app.dir \in DirNames /\ app.sample \in Samples
        /\ app.sample = app.valid + 1 /\ app.valid \in Nat
    BY WorkPlace
  <1>2. dirs \in [DirNames -> [Samples -> SampleFiles]]
    BY DEF StudioInv, StudioTyped
  <1>3. dirs' = [dirs EXCEPT ![app.dir][app.sample] = files]
    BY <1>1 DEF Store, ThreadAtWork
  <1>4. /\ dirs' \in [DirNames -> [Samples -> SampleFiles]]
        /\ dirs'[app.dir][app.sample] = files
        /\ \A d \in DirNames, s \in Samples :
             d # app.dir \/ s # app.sample => dirs'[d][s] = dirs[d][s]
    BY <1>1, <1>2, <1>3
  <1>5. AtWork'
    BY <1>4 DEF Here
  <1>6. \A c \in app.counted : dirs'[c[1]][c[2]] = dirs[c[1]][c[2]]
    <2> TAKE c \in app.counted
    <2>1. c[1] \in DirNames /\ c[2] \in Samples /\ c[2] \in Nat
      BY DEF StudioInv, StudioTyped, Apps, Samples
    <2>2. c[1] = app.dir => c[2] <= app.valid
      BY DEF StudioInv, CountedBehind
    <2>3. c[1] # app.dir \/ c[2] # app.sample
      BY <1>1, <2>1, <2>2
    <2>. QED
      BY <1>4, <2>1, <2>3
  <1>7. CountedBehind'
    BY <1>6, BehindStays DEF StudioInv
  <1>8. StudioTyped' /\ Ordered'
    BY <1>4 DEF StudioInv, StudioTyped, Ordered
  <1>. QED
    BY <1>5, <1>7, <1>8 DEF StudioInv

\* A step of the thread that writes nothing.
LEMMA ThreadGoes ==
    ASSUME StudioInv, thread.pc # "none", UNCHANGED <<app, cancelled, results, dirs>>,
           NEW pc \in Steps, Goes(pc), pc \notin {"json", "text", "manifest", "final"}
    PROVE  StudioInv'
  <1>1. thread' = [thread EXCEPT !.pc = pc] /\ thread \in Threads
    BY DEF Goes, StudioInv, StudioTyped
  <1>2. thread' \in Threads /\ thread'.pc = pc /\ UNCHANGED <<thread.dir, thread.sample, thread.try>>
    BY <1>1 DEF Threads
  <1>3. pc # "none"
    BY DEF Steps
  <1>4. ThreadAtWork'
    BY <1>2, WorkPlace DEF ThreadAtWork
  <1>5. AtWork'
    BY <1>2, <1>3, <1>4, WorkPlace DEF StudioInv, AtWork
  <1>6. StudioTyped' /\ Ordered' /\ CountedBehind'
    BY <1>2, BehindStays DEF StudioInv, StudioTyped, Ordered
  <1>. QED
    BY <1>5, <1>6 DEF StudioInv

\* Waiting for the device, or failing to save, writes nothing.
LEMMA WaitingStep == StudioInv /\ (Waiting \/ SaveFails) => StudioInv'
  <1> SUFFICES ASSUME StudioInv, Waiting \/ SaveFails PROVE StudioInv'
    OBVIOUS
  <1>1. UNCHANGED <<app, cancelled, results, dirs>> /\ thread.pc # "none"
    BY DEF Waiting, SaveFails, Keep, AfterSaved
  <1>2. Goes("failJson") \/ Goes("learning") \/ Goes("waiting") \/ Goes("bin")
    BY DEF Waiting, SaveFails
  <1>3. {"failJson", "learning", "waiting", "bin"} \subseteq Steps
    BY DEF Steps
  <1>. QED
    BY <1>1, <1>2, <1>3, ThreadGoes

\* A thread that ends hands over what it has done.
LEMMA ThreadEnds ==
    ASSUME StudioInv, thread.pc # "none", UNCHANGED <<app, cancelled>>,
           thread' = NoThread, NEW files \in SampleFiles, Store(files),
           NEW r, results' = Append(results, r),
           r = [ok |-> FALSE] \/ (r = OkResult /\ Whole(files, app.tries))
    PROVE  StudioInv'
  <1>1. results = <<>> /\ app.capturing /\ ~app.exiting
    BY WorkPlace DEF ThreadAtWork
  <1>2. results' = <<r>>
    <2>1. \A x : Append(<<>>, x) = <<x>>
      OBVIOUS
    <2>. QED
      BY <1>1, <2>1
  <1>3. thread' \in Threads /\ thread'.pc = "none"
    <2>1. 0 \in Tries /\ 0 \in 0..MaxTasks /\ 0 \in 0..Target
      <3>1. \A a, b \in Nat : a * b \in Nat
        OBVIOUS
      <3>. QED
        BY <3>1, CaptureAssumption DEF Tries
    <2>. QED
      BY <2>1 DEF NoThread, Threads
  <1>4. OkResult' = OkResult
    BY DEF OkResult
  <1>5. ASSUME Here' = files PROVE AtWork'
    <2>1. ThreadDone'
      BY <1>2, <1>4, <1>5 DEF ThreadDone
    <2>. QED
      BY <1>1, <1>3, <2>1 DEF StudioInv, AtWork
  <1>. QED
    BY <1>3, <1>5, ThreadWrites

\* Every write of save_capture is of the attempt under way.
LEMMA SaveStepStep == StudioInv /\ SaveStep => StudioInv'
  <1> SUFFICES ASSUME StudioInv, SaveStep PROVE StudioInv'
    OBVIOUS
  <1>1. /\ thread.pc \in {"bin", "json", "text", "manifest", "final"}
        /\ thread \in Threads /\ Store(SavedFile(thread.pc))
        /\ UNCHANGED <<app, cancelled>>
    BY DEF SaveStep, AfterSaved, StudioInv, StudioTyped
  <1>2. /\ ThreadAtWork /\ app.capturing /\ ~app.exiting /\ Files = Here
        /\ Here \in SampleFiles /\ app.tries \in Tries /\ thread.try = app.tries
    BY <1>1, WorkPlace DEF ThreadAtWork
  <1>3. ASSUME NEW pc \in {"json", "text", "manifest", "final"}, NEW files \in SampleFiles,
               Store(files), thread' = [thread EXCEPT !.pc = pc], results' = results,
               files.bin = app.tries, pc = "final" => files.row = "success"
        PROVE  StudioInv'
    <2>1. /\ thread' \in Threads /\ thread'.pc = pc
          /\ UNCHANGED <<thread.dir, thread.sample, thread.try>>
      BY <1>1, <1>3 DEF Threads, Steps
    <2>2. ASSUME Here' = files PROVE AtWork'
      <3>1. ThreadAtWork'
        BY <1>1, <1>2, <1>3, <2>1, <2>2 DEF ThreadAtWork
      <3>. QED
        BY <1>1, <1>2, <2>1, <3>1 DEF StudioInv, AtWork
    <2>. QED
      BY <1>1, <1>3, <2>1, <2>2, ThreadWrites
  <1>4. CASE thread.pc = "bin"
    <2>. DEFINE files == [Here EXCEPT !.bin = app.tries]
    <2>1. Store(files) /\ thread' = [thread EXCEPT !.pc = "json"] /\ results' = results
      BY <1>1, <1>2, <1>4 DEF SaveStep, SavedFile, AfterSaved
    <2>2. files \in SampleFiles /\ files.bin = app.tries
      BY <1>2 DEF SampleFiles
    <2>. QED
      BY <1>3, <2>1, <2>2
  <1>5. CASE thread.pc = "json"
    <2>. DEFINE files == [Here EXCEPT !.json = <<"success", app.tries>>]
    <2>1. Store(files) /\ thread' = [thread EXCEPT !.pc = "text"] /\ results' = results
      BY <1>1, <1>2, <1>5 DEF SaveStep, SavedFile, AfterSaved
    <2>2. files \in SampleFiles /\ files.bin = app.tries
      BY <1>2, <1>5 DEF SampleFiles, RowResults, ThreadAtWork
    <2>. QED
      BY <1>3, <2>1, <2>2
  <1>6. CASE thread.pc = "text"
    <2>1. Store(Here) /\ thread' = [thread EXCEPT !.pc = "manifest"] /\ results' = results
      BY <1>1, <1>2, <1>6 DEF SaveStep, SavedFile, AfterSaved
    <2>2. Here.bin = app.tries
      BY <1>2, <1>6 DEF ThreadAtWork
    <2>. QED
      BY <1>2, <1>3, <2>1, <2>2
  <1>7. CASE thread.pc = "manifest"
    <2>. DEFINE files == [Here EXCEPT !.row = "success"]
    <2>1. Store(files) /\ thread' = [thread EXCEPT !.pc = "final"] /\ results' = results
      BY <1>1, <1>2, <1>7 DEF SaveStep, SavedFile, AfterSaved
    <2>2. files \in SampleFiles /\ files.bin = app.tries /\ files.row = "success"
      BY <1>2, <1>7 DEF SampleFiles, RowResults, ThreadAtWork
    <2>. QED
      BY <1>3, <2>1, <2>2
  <1>8. CASE thread.pc = "final"
    <2>. DEFINE files == [Here EXCEPT !.json = <<"success", app.tries>>]
    <2>1. Store(files) /\ thread' = NoThread
      BY <1>1, <1>2, <1>8 DEF SaveStep, SavedFile
    <2>2. results' = Append(results, OkResult)
      BY <1>2, <1>8 DEF SaveStep, OkResult, ThreadAtWork
    <2>3. files \in SampleFiles /\ Whole(files, app.tries)
      BY <1>2, <1>8 DEF SampleFiles, RowResults, ThreadAtWork, Whole
    <2>. QED
      BY <1>1, <1>8, <2>1, <2>2, <2>3, ThreadEnds
  <1>. QED
    BY <1>1, <1>4, <1>5, <1>6, <1>7, <1>8

\* What a failed attempt leaves is under a number that is not counted yet.
LEMMA FailStepStep == StudioInv /\ FailStep => StudioInv'
  <1> SUFFICES ASSUME StudioInv, FailStep PROVE StudioInv'
    OBVIOUS
  <1>1. /\ thread.pc \in {"failJson", "failManifest"} /\ thread \in Threads
        /\ UNCHANGED <<app, cancelled>>
    BY DEF FailStep, StudioInv, StudioTyped
  <1>2. /\ ThreadAtWork /\ app.capturing /\ ~app.exiting /\ Files = Here
        /\ Here \in SampleFiles /\ app.tries \in Tries /\ thread.try = app.tries
    BY <1>1, WorkPlace DEF ThreadAtWork
  <1>3. [Here EXCEPT !.json = <<"failed", app.tries>>] \in SampleFiles
    BY <1>2 DEF SampleFiles, RowResults
  <1>4. [Here EXCEPT !.row = "failed"] \in SampleFiles
    BY <1>2 DEF SampleFiles, RowResults
  <1>5. CASE /\ Store([Files EXCEPT !.json = <<"failed", thread.try>>])
             /\ Goes("failManifest") /\ results' = results
    <2>1. Store([Here EXCEPT !.json = <<"failed", app.tries>>])
      BY <1>2, <1>5
    <2>2. /\ thread' \in Threads /\ thread'.pc = "failManifest"
          /\ UNCHANGED <<thread.dir, thread.sample, thread.try>>
      BY <1>1, <1>5 DEF Goes, Threads, Steps
    <2>3. AtWork'
      <3>1. ThreadAtWork'
        BY <1>1, <1>2, <1>5, <2>2 DEF ThreadAtWork
      <3>. QED
        BY <1>1, <1>2, <2>2, <3>1 DEF StudioInv, AtWork
    <2>. QED
      BY <1>1, <1>3, <2>1, <2>2, <2>3, ThreadWrites
  <1>6. CASE /\ Store(IF thread.pc = "failManifest"
                      THEN [Files EXCEPT !.row = "failed"] ELSE Files)
             /\ thread' = NoThread
             /\ results' = Append(results, [ok |-> FALSE])
    <2>1. PICK files \in SampleFiles : Store(files)
      BY <1>2, <1>4, <1>6
    <2>. QED
      BY <1>1, <1>6, <2>1, ThreadEnds
  <1>. QED
    BY <1>5, <1>6 DEF FailStep

\* Every step keeps the invariant.
LEMMA StudioNextStep == StudioInv /\ [CaptureNext]_captureVars => StudioInv'
  <1>1. StudioInv /\ CancelWait => StudioInv'
    <2> SUFFICES ASSUME StudioInv, CancelWait PROVE StudioInv'
      OBVIOUS
    <2>1. cancelled' = TRUE /\ UNCHANGED <<app, thread, results, dirs>>
      BY DEF CancelWait
    <2>. QED
      BY <2>1 DEF StudioInv, StudioTyped, Ordered, AtWork, ThreadAtWork, ThreadDone, OkResult,
                  Here, CountedBehind, CountedOf, Whole
  <1>2. StudioInv /\ UNCHANGED captureVars => StudioInv'
    BY DEF captureVars, StudioInv, StudioTyped, Ordered, AtWork, ThreadAtWork, ThreadDone,
           OkResult, Here, CountedBehind, CountedOf, Whole
  <1>. QED
    BY <1>1, <1>2, BuildTaskStep, StartCapturingStep, PollQueueStep, SafeExitStep, WaitingStep,
       SaveStepStep, FailStepStep DEF CaptureNext

\* StudioInv is an inductive invariant of the capture window and its thread.
THEOREM StudioInductive == CaptureSpec => []StudioInv
  BY StudioInitInv, StudioNextStep, PTL DEF CaptureSpec

\* For any number of samples, tasks and attempts, a sample that was counted
\* keeps the files of the attempt that was counted, whatever fails, is
\* cancelled or is built later.
THEOREM CountedStays == CaptureSpec => []CountedComplete
<1>1. StudioInv => CountedComplete
  BY DEF StudioInv, CountedBehind, CountedOf, Whole, CountedComplete
<1>. QED
  BY <1>1, StudioInductive, PTL

\* The capture window's variables have their types.
THEOREM CaptureTypes == CaptureSpec => []CaptureTypeOK
<1>1. StudioInv => CaptureTypeOK
  BY DEF StudioInv, StudioTyped, Apps, Threads, SampleFiles, RowResults, Tries, CaptureTypeOK
<1>. QED
  BY <1>1, StudioInductive, PTL

------------------------------------------------------------------------------
(* The package of the circuit board.  The entries of a package are of the  *)
(* tree the ref names while it stays (Rest), and so what packager and      *)
(* checker make of them is a fact about that tree (Verdict).  A move       *)
(* before the bytes are compared leaves these of the second tree, one      *)
(* after it the package of the first (OneTree).  What is spoilt has a      *)
(* flaw that stays in sight until a part has seen it (Spoiled).            *)

RowNames == UNION {{row.name : row \in ToSet(tree.rows)} : tree \in Trees}
RowContents == UNION {{row.content : row \in ToSet(tree.rows)} : tree \in Trees}
FileContents == UNION {{tree.files[f] : f \in HashedFiles} : tree \in Trees}
Names == HashedFiles \cup {Manifest, Stranger} \cup RowNames
Contents == {0, Tampered} \cup RowContents \cup FileContents
AnyRow == [name : Names, content : Contents]
Listing == Seq(AnyRow)
AnyEntry == [name : Names, content : Contents, rows : Listing]
Works == [kind : Kinds, part : Nat \ {0}, at : Nat \ {0}, zip : Seq(AnyEntry),
          rows : Listing, ok : BOOLEAN, spoilt : BOOLEAN]

PcbTyped == head \in Trees /\ moves \in 0..MaxMoves /\ work \in Works

NumParts(kind) ==
    CASE kind = "package" -> 1 [] kind = "verified" -> 5 [] kind = "check" -> 6
      [] kind = "badManifest" -> 3 [] kind = "badPackage" -> 4
AtPart(k, i) == work.kind = k /\ work.part = i

\* The package so far, and the whole of it.
Packs(n) ==
    /\ Len(work.zip) = n
    /\ \A k \in 1..n : work.zip[k].name = PACKAGE_ENTRIES[k]
Building ==
    AtPart("package", 1) \/ AtPart("verified", 1) \/ AtPart("check", 4) \/ AtPart("badPackage", 1)
Built ==
    \/ work.kind = "verified" /\ work.part \in 2..5
    \/ work.kind = "check" /\ work.part \in 5..6
    \/ AtPart("badPackage", 2)
Placed ==
    /\ work.part <= NumParts(work.kind) + 1
    /\ Building => work.at <= Len(PACKAGE_ENTRIES) /\ Packs(work.at - 1)
    /\ Built => Packs(Len(PACKAGE_ENTRIES))
    /\ work.kind = "check" /\ work.part <= 3 => work.zip = <<>>

FromTree(tree) == \A k \in DOMAIN work.zip : work.zip[k] = GitShow(tree, work.zip[k].name)
NoneMissing ==
    Building \/ Built =>
        \A k \in DOMAIN work.zip : ~Missing(head, work.zip[k].name)
Rest ==
    moves = 0 /\ work.kind \in {"verified", "check"} => FromTree(head) /\ NoneMissing

RowsSeen(n) == \A k \in DOMAIN head.rows : k < n => RowMatches(head.rows[k])
RowsRight(n) == ExactNames(head.rows, HashedFiles) /\ RowsSeen(n)
RowsAt(k, i) ==
    AtPart(k, i) =>
        work.rows = head.rows /\ \E n \in Nat : n = work.at /\ work.ok = RowsRight(n)
VerifiedVerdict ==
    /\ work.kind = "verified" /\ work.part <= 3 => work.ok
    /\ RowsAt("verified", 4)
    /\ AtPart("verified", 5) => work.ok = RightTree(head)
    /\ AtPart("verified", 6) => work.ok = (Complete(head) /\ RightTree(head))
CheckVerdict ==
    /\ AtPart("check", 1) => work.ok
    /\ RowsAt("check", 2)
    /\ AtPart("check", 3) => work.ok = RightTree(head)
    /\ work.kind = "check" /\ work.part \in 4..6 => work.ok = (RightTree(head) /\ head.fit)
    /\ AtPart("check", 7) => work.ok = (Complete(head) /\ RightTree(head) /\ head.fit)
Verdict == moves = 0 => VerifiedVerdict /\ CheckVerdict

BytesSeen(n) ==
    \A k \in DOMAIN work.zip : k < n => work.zip[k] = GitShow(head, work.zip[k].name)
BytesSoFar ==
    /\ AtPart("verified", 5) /\ work.ok => BytesSeen(work.at)
    /\ AtPart("verified", 6) /\ work.ok => FromTree(head)
OneTree ==
    moves = 1 /\ work.kind = "verified" =>
        (\E tree \in Trees : FromTree(tree)) \/ BytesSoFar

SpoiltRow ==
    Len(work.rows) > 0 /\ work.rows[1].name \in HashedFiles /\ work.rows[1].content = Tampered
SpoiltEntry ==
    Len(work.zip) > 0 /\ work.zip[1].name \in Entries /\ work.zip[1].content = Tampered
Spoiled ==
    /\ work.kind \in {"package", "verified", "check"} => ~work.spoilt
    /\ AtPart("badManifest", 1) => ~work.spoilt
    /\ AtPart("badManifest", 2) /\ work.ok => ExactNames(work.rows, HashedFiles)
    /\ AtPart("badManifest", 2) => ~work.spoilt
    /\ AtPart("badManifest", 3) /\ work.spoilt => ~work.ok \/ (work.at = 1 /\ SpoiltRow)
    /\ AtPart("badManifest", 4) /\ work.spoilt => ~work.ok
    /\ work.kind = "badPackage" /\ work.part <= 2 => ~work.spoilt
    /\ AtPart("badPackage", 3) => ~ExactNames(work.zip, Entries) \/ SpoiltEntry
    /\ AtPart("badPackage", 4) => ~work.ok \/ (work.at = 1 /\ SpoiltEntry)
    /\ AtPart("badPackage", 5) /\ work.spoilt => ~work.ok

PcbInv == PcbTyped /\ Placed /\ Rest /\ Verdict /\ OneTree /\ Spoiled

\* The parts of the programs.
LEMMA PartsOf ==
    ASSUME NEW k \in Kinds
    PROVE  Len(Parts(k)) = NumParts(k) /\ NumParts(k) \in 1..6
  BY DEF Kinds, Parts, NumParts

\* Which part of a program is which check.
LEMMA RunningAt ==
    ASSUME PcbTyped
    PROVE  /\ Running("build") <=> \/ AtPart("package", 1) \/ AtPart("verified", 1)
                                   \/ AtPart("check", 4) \/ AtPart("badPackage", 1)
           /\ Running("names") <=> \/ AtPart("verified", 2) \/ AtPart("check", 5)
                                   \/ AtPart("badPackage", 3)
           /\ Running("openRows") <=> AtPart("verified", 3)
           /\ Running("rows") <=> \/ AtPart("verified", 4) \/ AtPart("check", 2)
                                  \/ AtPart("badManifest", 3)
           /\ Running("bytes") <=> \/ AtPart("verified", 5) \/ AtPart("check", 6)
                                   \/ AtPart("badPackage", 4)
           /\ Running("manifest") <=> AtPart("check", 1) \/ AtPart("badManifest", 1)
           /\ Running("others") <=> AtPart("check", 3)
           /\ Running("spoilRows") <=> AtPart("badManifest", 2)
           /\ Running("spoilZip") <=> AtPart("badPackage", 2)
  <1>1. work.kind \in Kinds /\ work.part \in Nat \ {0}
    BY DEF PcbTyped, Works
  <1>2. CASE work.kind = "package"
    <2>1. \A i \in Nat \ {0} : i <= 1 => i = 1
      OBVIOUS
    <2>. QED
      BY <1>1, <1>2, <2>1 DEF Running, AtPart, Parts
  <1>3. CASE work.kind = "verified"
    <2>1. \A i \in Nat \ {0} : i <= 5 => i \in {1, 2, 3, 4, 5}
      OBVIOUS
    <2>. QED
      BY <1>1, <1>3, <2>1 DEF Running, AtPart, Parts
  <1>4. CASE work.kind = "check"
    <2>1. \A i \in Nat \ {0} : i <= 6 => i \in {1, 2, 3, 4, 5, 6}
      OBVIOUS
    <2>. QED
      BY <1>1, <1>4, <2>1 DEF Running, AtPart, Parts
  <1>5. CASE work.kind = "badManifest"
    <2>1. \A i \in Nat \ {0} : i <= 3 => i \in {1, 2, 3}
      OBVIOUS
    <2>. QED
      BY <1>1, <1>5, <2>1 DEF Running, AtPart, Parts
  <1>6. CASE work.kind = "badPackage"
    <2>1. \A i \in Nat \ {0} : i <= 4 => i \in {1, 2, 3, 4}
      OBVIOUS
    <2>. QED
      BY <1>1, <1>6, <2>1 DEF Running, AtPart, Parts
  <1>. QED
    BY <1>1, <1>2, <1>3, <1>4, <1>5, <1>6 DEF Kinds

\* What the ways to go on change.
LEMMA NextPartOf ==
    ASSUME NEW j \in Works
    PROVE  /\ NextPart(j) \in Works /\ NextPart(j).part = j.part + 1 /\ NextPart(j).at = 1
           /\ NextPart(j).kind = j.kind /\ NextPart(j).zip = j.zip
           /\ NextPart(j).rows = j.rows /\ NextPart(j).ok = j.ok
           /\ NextPart(j).spoilt = j.spoilt
  <1>1. j.part + 1 \in Nat \ {0} /\ 1 \in Nat \ {0}
    BY DEF Works
  <1>2. NextPart(j) = [j EXCEPT !.part = j.part + 1, !.at = 1]
    BY DEF NextPart
  <1>. QED
    BY <1>1, <1>2 DEF Works

\* How it ends.
LEMMA ExitOf ==
    ASSUME NEW j \in Works
    PROVE  /\ Exit(j) \in Works /\ Exit(j).part = NumParts(j.kind) + 1 /\ Exit(j).ok = FALSE
           /\ Exit(j).kind = j.kind /\ Exit(j).spoilt = j.spoilt /\ Exit(j).zip = j.zip
  <1>1. Len(Parts(j.kind)) = NumParts(j.kind) /\ NumParts(j.kind) \in 1..6
    BY PartsOf DEF Works
  <1>2. NumParts(j.kind) + 1 \in Nat \ {0} /\ 1 \in Nat \ {0}
    BY <1>1
  <1>3. Exit(j) = [j EXCEPT !.part = NumParts(j.kind) + 1, !.at = 1, !.ok = FALSE]
    BY <1>1 DEF Exit
  <1>. QED
    BY <1>2, <1>3 DEF Works

\* What a verdict leaves alone.
LEMMA JudgedOf ==
    ASSUME NEW j \in Works, NEW good \in BOOLEAN
    PROVE  /\ Judged(j, good) \in Works /\ Judged(j, good).ok = (j.ok /\ good)
           /\ Judged(j, good).part = j.part /\ Judged(j, good).at = j.at
           /\ Judged(j, good).kind = j.kind /\ Judged(j, good).zip = j.zip
           /\ Judged(j, good).rows = j.rows /\ Judged(j, good).spoilt = j.spoilt
  <1>. DEFINE b == j.ok /\ good
  <1>1. b \in BOOLEAN
    BY Zenon
  <1>2. Judged(j, good) = [j EXCEPT !.ok = b]
    BY DEF Judged
  <1>3. b = (j.ok /\ good)
    OBVIOUS
  <1>. HIDE DEF b
  <1>4. /\ Judged(j, good) \in Works /\ Judged(j, good).ok = b
        /\ Judged(j, good).part = j.part /\ Judged(j, good).at = j.at
        /\ Judged(j, good).kind = j.kind /\ Judged(j, good).zip = j.zip
        /\ Judged(j, good).rows = j.rows /\ Judged(j, good).spoilt = j.spoilt
    BY <1>1, <1>2 DEF Works
  <1>. QED
    BY <1>3, <1>4

\* The contract: every hashed file once, and then the manifest.
LEMMA ContractOf ==
    /\ PACKAGE_ENTRIES \in Seq(Names) /\ Len(PACKAGE_ENTRIES) \in Nat \ {0}
    /\ Len(PACKAGE_ENTRIES) = Cardinality(HashedFiles) + 1
    /\ Entries = HashedFiles \cup {Manifest}
    /\ Cardinality(Entries) = Len(PACKAGE_ENTRIES)
    /\ \A e \in Entries : \E k \in 1..Len(PACKAGE_ENTRIES) : PACKAGE_ENTRIES[k] = e
    /\ \A k \in 1..Len(PACKAGE_ENTRIES) : PACKAGE_ENTRIES[k] \in Entries
  <1>. DEFINE s == SetToSeq(HashedFiles)
              n == Cardinality(HashedFiles)
  <1>1. /\ s \in Seq(HashedFiles) /\ Len(s) = n /\ n \in Nat
        /\ \A f \in HashedFiles : \E k \in 1..Len(s) : s[k] = f
    BY SetToSeqOf, PcbAssumption, FS_CardinalityType
  <1>2. <<Manifest>> \in Seq({Manifest}) /\ Len(<<Manifest>>) = 1 /\ <<Manifest>>[1] = Manifest
    OBVIOUS
  <1>3. s \in Seq(Names) /\ <<Manifest>> \in Seq(Names)
    <2>1. HashedFiles \subseteq Names /\ Manifest \in Names
      BY DEF Names
    <2>2. \A k \in 1..Len(s) : s[k] \in Names
      BY <1>1, <2>1, ElementOfSeq
    <2>. HIDE DEF s
    <2>. QED
      BY <1>1, <2>1, <2>2
  <1>. HIDE DEF s
  <1>4. /\ PACKAGE_ENTRIES = s \o <<Manifest>>
        /\ PACKAGE_ENTRIES \in Seq(Names) /\ Len(PACKAGE_ENTRIES) = n + 1
        /\ \A k \in 1..(n + 1) : PACKAGE_ENTRIES[k] = IF k <= n THEN s[k] ELSE Manifest
    BY <1>1, <1>2, <1>3, ConcatProperties DEF PACKAGE_ENTRIES, s
  <1>5. \A k \in 1..n : s[k] \in HashedFiles
    BY <1>1, ElementOfSeq
  <1>6. \A k \in 1..(n + 1) : PACKAGE_ENTRIES[k] \in HashedFiles \cup {Manifest}
    BY <1>4, <1>5, <1>1
  <1>7. \A e \in HashedFiles \cup {Manifest} :
          \E k \in 1..(n + 1) : PACKAGE_ENTRIES[k] = e
    BY <1>1, <1>4
  <1>8. DOMAIN PACKAGE_ENTRIES = 1..(n + 1)
    BY <1>4, LenProperties
  <1>9. Entries = HashedFiles \cup {Manifest}
    BY <1>6, <1>7, <1>8 DEF Entries, ToSet
  <1>10. Cardinality(HashedFiles \cup {Manifest}) = n + 1
    BY PcbAssumption, FS_AddElement
  <1>. QED
    BY <1>1, <1>4, <1>6, <1>7, <1>9, <1>10

\* What git shows of a tree.
LEMMA TreeRows ==
    ASSUME NEW tree \in Trees
    PROVE  /\ tree.rows \in Listing /\ tree.fit \in BOOLEAN
           /\ \A k \in DOMAIN tree.rows :
                tree.rows[k] = Row(tree.rows[k].name, tree.rows[k].content)
  <1>. DEFINE listed == [name : {row.name : row \in ToSet(tree.rows)},
                         content : {row.content : row \in ToSet(tree.rows)}]
  <1>1. tree.rows \in Seq(listed) /\ tree.fit \in BOOLEAN
    BY PcbAssumption DEF ListingOf
  <1>2. listed \subseteq AnyRow
    BY DEF AnyRow, Names, Contents, RowNames, RowContents
  <1>3. \A r \in listed : r = Row(r.name, r.content)
    BY DEF Row
  <1>. HIDE DEF listed
  <1>4. /\ DOMAIN tree.rows = 1..Len(tree.rows)
        /\ \A k \in 1..Len(tree.rows) : tree.rows[k] \in listed
    BY <1>1, LenProperties, ElementOfSeq
  <1>5. tree.rows \in Listing
    BY <1>1, <1>2, <1>4 DEF Listing
  <1>. QED
    BY <1>1, <1>3, <1>4, <1>5

\* What git shows of a tree.
LEMMA GitShowOf ==
    ASSUME NEW tree \in Trees, NEW e \in Entries
    PROVE  /\ GitShow(tree, e) \in AnyEntry /\ GitShow(tree, e).name = e
           /\ GitShow(tree, e).content # Tampered
           /\ e = Manifest => GitShow(tree, e).rows = tree.rows
  <1>1. tree.rows \in Listing /\ <<>> \in Listing
    BY TreeRows DEF Listing
  <1>2. CASE e = Manifest
    BY <1>1, <1>2 DEF GitShow, AnyEntry, Names, Contents, Tampered
  <1>3. CASE e # Manifest
    <2>1. e \in HashedFiles
      BY <1>3, ContractOf
    <2>2. tree.files[e] \in Contents /\ tree.files[e] # Tampered /\ e \in Names
      BY <2>1, PcbAssumption DEF Contents, FileContents, Names
    <2>. QED
      BY <1>1, <1>3, <2>2 DEF GitShow, AnyEntry
  <1>. QED
    BY <1>2, <1>3

\* A package that is whole has the names of the contract.
LEMMA WholePackage ==
    ASSUME PcbTyped, Packs(Len(PACKAGE_ENTRIES))
    PROVE  /\ ExactNames(work.zip, Entries)
           /\ DOMAIN work.zip = 1..Len(PACKAGE_ENTRIES)
           /\ \A k \in DOMAIN work.zip : work.zip[k].name \in Entries
           /\ \A e \in Entries : \E k \in DOMAIN work.zip : work.zip[k].name = e
  <1>1. work.zip \in Seq(AnyEntry) /\ DOMAIN work.zip = 1..Len(PACKAGE_ENTRIES)
    BY LenProperties DEF PcbTyped, Works, Packs
  <1>2. \A k \in DOMAIN work.zip : work.zip[k].name = PACKAGE_ENTRIES[k]
    BY <1>1 DEF Packs
  <1>3. NamesOf(work.zip) = Entries
    BY <1>1, <1>2, ContractOf DEF NamesOf
  <1>. QED
    BY <1>1, <1>2, <1>3, ContractOf DEF ExactNames, Packs

\* A list is right when it has the right names and each of its rows matches.
LEMMA RightIff ==
    ASSUME head \in Trees
    PROVE  RightTree(head) <=>
             ExactNames(head.rows, HashedFiles) /\ \A k \in DOMAIN head.rows : RowMatches(head.rows[k])
  <1>. DEFINE rowsOf == {Row(f, head.files[f]) : f \in HashedFiles}
              listed == {head.rows[k] : k \in DOMAIN head.rows}
  <1>1. \A k \in DOMAIN head.rows :
          head.rows[k] = Row(head.rows[k].name, head.rows[k].content)
    BY TreeRows
  <1>2. ToSet(head.rows) = listed
    BY DEF ToSet
  <1>3. ASSUME listed = rowsOf
        PROVE  /\ NamesOf(head.rows) = HashedFiles
               /\ \A k \in DOMAIN head.rows : RowMatches(head.rows[k])
    <2>1. \A k \in DOMAIN head.rows :
            head.rows[k].name \in HashedFiles /\ head.files[head.rows[k].name] = head.rows[k].content
      BY <1>3 DEF Row
    <2>2. \A f \in HashedFiles : \E k \in DOMAIN head.rows : head.rows[k] = Row(f, head.files[f])
      BY <1>3
    <2>3. \A f \in HashedFiles : \E k \in DOMAIN head.rows : head.rows[k].name = f
      <3>1. \A f, c : Row(f, c).name = f
        BY DEF Row
      <3>. QED
        BY <2>2, <3>1
    <2>. QED
      BY <2>1, <2>3 DEF NamesOf, RowMatches
  <1>4. ASSUME NamesOf(head.rows) = HashedFiles,
               \A k \in DOMAIN head.rows : RowMatches(head.rows[k])
        PROVE  listed = rowsOf
    <2>1. \A k \in DOMAIN head.rows :
            /\ head.rows[k].name \in HashedFiles
            /\ head.files[head.rows[k].name] = head.rows[k].content
      BY <1>4, ContractOf DEF NamesOf, RowMatches
    <2>2. \A k \in DOMAIN head.rows :
            head.rows[k] = Row(head.rows[k].name, head.files[head.rows[k].name])
      BY <1>1, <2>1
    <2>3. listed \subseteq rowsOf
      BY <2>1, <2>2
    <2>4. \A f \in HashedFiles : \E k \in DOMAIN head.rows : head.rows[k].name = f
      BY <1>4 DEF NamesOf
    <2>5. rowsOf \subseteq listed
      BY <2>2, <2>4
    <2>. QED
      BY <2>3, <2>5
  <1>. HIDE DEF listed, rowsOf
  <1>5. RightTree(head) <=> Len(head.rows) = Cardinality(HashedFiles) /\ listed = rowsOf
    BY <1>2 DEF RightTree, rowsOf
  <1>. QED
    BY <1>3, <1>4, <1>5 DEF ExactNames

\* No part is packed in the beginning.
LEMMA PcbInitInv == PcbInit => PcbInv
  <1> SUFFICES ASSUME PcbInit PROVE PcbInv
    OBVIOUS
  <1>1. PICK kind \in Kinds :
          work = [kind |-> kind, part |-> 1, at |-> 1, zip |-> <<>>, rows |-> <<>>,
                  ok |-> TRUE, spoilt |-> FALSE]
    BY DEF PcbInit
  <1>2. /\ work.kind = kind /\ work.part = 1 /\ work.at = 1 /\ work.zip = <<>> /\ work.ok = TRUE
        /\ work.spoilt = FALSE
    BY <1>1
  <1>3. PcbTyped
    <2>1. <<>> \in Seq(AnyEntry) /\ <<>> \in Listing
      BY EmptySeq DEF Listing
    <2>2. work \in Works
      BY <1>1, <2>1 DEF Works
    <2>. QED
      BY <2>2, PcbAssumption DEF PcbInit, PcbTyped
  <1>4. Placed
    <2>1. NumParts(kind) + 1 >= 1
      BY PartsOf
    <2>2. Packs(0)
      BY <1>2 DEF Packs
    <2>3. Len(PACKAGE_ENTRIES) >= 1
      BY ContractOf
    <2>. QED
      BY <1>2, <2>1, <2>2, <2>3 DEF Placed, Built, AtPart
  <1>5. Rest
    BY <1>2 DEF Rest, FromTree, NoneMissing
  <1>6. Verdict
    BY <1>2 DEF Verdict, VerifiedVerdict, CheckVerdict, RowsAt, AtPart
  <1>7. OneTree
    BY DEF OneTree, PcbInit
  <1>8. Spoiled
    BY <1>2 DEF Spoiled, AtPart
  <1>. QED
    BY <1>3, <1>4, <1>5, <1>6, <1>7, <1>8 DEF PcbInv

\* The first move leaves a package of the tree that was.
LEMMA MoveRefStep == PcbInv /\ MoveRef => PcbInv'
  <1> SUFFICES ASSUME PcbInv, MoveRef PROVE PcbInv'
    OBVIOUS
  <1>1. /\ head \in Trees /\ head' \in Trees /\ moves' = moves + 1 /\ moves \in Nat
        /\ moves < MaxMoves /\ MaxMoves \in Nat /\ work' = work
    BY PcbAssumption DEF PcbInv, PcbTyped, MoveRef
  <1>2. PcbTyped' /\ moves' # 0
    BY <1>1 DEF PcbInv, PcbTyped
  <1>3. Placed' /\ Spoiled'
    BY <1>1 DEF PcbInv, Placed, Building, Built, AtPart, Packs, Spoiled, SpoiltRow, SpoiltEntry
  <1>4. Rest' /\ Verdict'
    BY <1>2 DEF Rest, Verdict
  <1>5. OneTree'
    <2> SUFFICES ASSUME moves' = 1, work.kind = "verified" PROVE OneTree'
      BY <1>1 DEF OneTree
    <2>1. moves = 0
      BY <1>1
    <2>2. FromTree(head)
      BY <2>1 DEF PcbInv, Rest
    <2>3. \E tree \in Trees : FromTree(tree)'
      BY <1>1, <2>2 DEF FromTree
    <2>. QED
      BY <2>3 DEF OneTree
  <1>. QED
    BY <1>2, <1>3, <1>4, <1>5 DEF PcbInv

\* A file that is there is packed as the ref has it; one that is not ends the
\* program, and the tree is not complete.
LEMMA BuildEntryStep == PcbInv /\ BuildEntry => PcbInv'
  <1> SUFFICES ASSUME PcbInv, BuildEntry PROVE PcbInv'
    OBVIOUS
  <1>. DEFINE n == Len(PACKAGE_ENTRIES)
              e == PACKAGE_ENTRIES[work.at]
  <1>1. /\ head \in Trees /\ work \in Works /\ Building /\ head' = head /\ moves' = moves
        /\ work.at \in Nat \ {0} /\ work.at <= n /\ Packs(work.at - 1) /\ n \in Nat
        /\ work.zip \in Seq(AnyEntry) /\ work.part \in Nat
    BY RunningAt, ContractOf DEF PcbInv, PcbTyped, Placed, Building, BuildEntry, Works
  <1>2. e \in Entries
    BY <1>1, ContractOf
  <1>3. CASE Missing(head, e)
    <2>1. work' = Exit(work)
      BY <1>3 DEF BuildEntry
    <2>2. /\ work' \in Works /\ work'.part = NumParts(work.kind) + 1 /\ work'.ok = FALSE
          /\ work'.kind = work.kind /\ work'.spoilt = work.spoilt /\ work'.zip = work.zip
      BY <1>1, <2>1, ExitOf
    <2>3. work'.part = IF work.kind = "package" THEN 2 ELSE IF work.kind = "verified" THEN 6
                       ELSE IF work.kind = "check" THEN 7 ELSE 5
      BY <1>1, <2>2 DEF NumParts, Building, AtPart
    <2>4. work.kind \in {"package", "verified", "check", "badPackage"}
      BY <1>1 DEF Building, AtPart
    <2>5. PcbTyped'
      BY <1>1, <2>2 DEF PcbInv, PcbTyped
    <2>6. Placed'
      <3>1. ~Building' /\ ~Built'
        BY <2>2, <2>3, <2>4 DEF Building, Built, AtPart
      <3>2. work'.part <= NumParts(work'.kind) + 1
        BY <2>2, <2>3, <2>4 DEF NumParts
      <3>. QED
        BY <2>2, <2>3, <3>1, <3>2 DEF Placed
    <2>7. Rest'
      BY <1>1, <2>2, <2>3, <2>4 DEF PcbInv, Rest, FromTree, NoneMissing, Building, Built, AtPart
    <2>8. ~Complete(head)
      BY <1>2, <1>3, ContractOf DEF Missing, Complete
    <2>9. Verdict'
      <3>1. ~Complete(head)'
        BY <1>1, <2>8
      <3>2. /\ work'.ok = (Complete(head)' /\ RightTree(head)')
            /\ work'.ok = (Complete(head)' /\ RightTree(head)' /\ head'.fit)
        BY <2>2, <3>1, Zenon
      <3>3. VerifiedVerdict'
        BY <2>2, <2>3, <3>2 DEF VerifiedVerdict, RowsAt, AtPart
      <3>4. CheckVerdict'
        BY <2>2, <2>3, <3>2 DEF CheckVerdict, RowsAt, AtPart
      <3>. QED
        BY <3>3, <3>4 DEF Verdict
    <2>10. OneTree'
      BY <2>2, <2>3 DEF OneTree, BytesSoFar, AtPart
    <2>11. Spoiled'
      BY <1>1, <2>2, <2>3, <2>4 DEF PcbInv, Spoiled, Building, AtPart
    <2>. QED
      BY <2>5, <2>6, <2>7, <2>9, <2>10, <2>11 DEF PcbInv
  <1>4. CASE ~Missing(head, e)
    <2>. DEFINE z == Append(work.zip, GitShow(head, e))
                j == [work EXCEPT !.zip = z]
    <2>1. GitShow(head, e) \in AnyEntry /\ GitShow(head, e).name = e
      BY <1>1, <1>2, GitShowOf
    <2>2. /\ z \in Seq(AnyEntry) /\ Len(z) = work.at
          /\ \A k \in 1..(work.at - 1) : z[k] = work.zip[k]
          /\ z[work.at] = GitShow(head, e) /\ DOMAIN z = 1..work.at
          /\ DOMAIN work.zip = 1..(work.at - 1)
      <3>1. /\ z \in Seq(AnyEntry) /\ Len(z) = Len(work.zip) + 1
            /\ \A k \in 1..Len(work.zip) : z[k] = work.zip[k]
            /\ z[Len(work.zip) + 1] = GitShow(head, e)
        BY <1>1, <2>1, AppendProperties
      <3>2. Len(work.zip) = work.at - 1 /\ DOMAIN work.zip = 1..Len(work.zip)
        BY <1>1, LenProperties DEF Packs
      <3>3. DOMAIN z = 1..Len(z)
        BY <3>1, LenProperties
      <3>. HIDE DEF z
      <3>. QED
        BY <1>1, <3>1, <3>2, <3>3
    <2>. HIDE DEF z, e
    <2>3. /\ j \in Works /\ j.zip = z /\ j.kind = work.kind /\ j.part = work.part /\ j.at = work.at
          /\ j.ok = work.ok /\ j.spoilt = work.spoilt /\ j.rows = work.rows
      BY <1>1, <2>2 DEF Works
    <2>4. work' = IF work.at = n THEN NextPart(j) ELSE [j EXCEPT !.at = j.at + 1]
      BY <1>4 DEF BuildEntry, z, e
    <2>. HIDE DEF j
    <2>5. /\ work' \in Works /\ work'.zip = z /\ work'.kind = work.kind /\ work'.ok = work.ok
          /\ work'.spoilt = work.spoilt /\ work'.rows = work.rows
          /\ \/ work.at = n /\ work'.part = work.part + 1 /\ work'.at = 1
             \/ work.at < n /\ work'.part = work.part /\ work'.at = work.at + 1
      <3>1. CASE work.at = n
        BY <2>3, <2>4, <3>1, NextPartOf
      <3>2. CASE work.at # n
        <4>1. work.at + 1 \in Nat \ {0} /\ work.at < n
          BY <1>1, <3>2
        <4>2. work' = [j EXCEPT !.at = work.at + 1]
          BY <2>3, <2>4, <3>2
        <4>3. /\ work' \in Works /\ work'.zip = z /\ work'.kind = work.kind
              /\ work'.ok = work.ok /\ work'.spoilt = work.spoilt
              /\ work'.rows = work.rows /\ work'.part = work.part /\ work'.at = work.at + 1
          BY <2>3, <4>1, <4>2 DEF Works
        <4>. QED
          BY <4>1, <4>3
      <3>. QED
        BY <3>1, <3>2
    <2>6. Len(work'.zip) = work.at /\ \A k \in 1..work.at : work'.zip[k].name = PACKAGE_ENTRIES[k]
      <3>1. ASSUME NEW k \in 1..work.at PROVE z[k].name = PACKAGE_ENTRIES[k]
        <4>1. CASE k = work.at
          BY <2>1, <2>2, <4>1 DEF e
        <4>2. CASE k # work.at
          <5>1. k \in 1..(work.at - 1)
            BY <1>1, <4>2
          <5>. QED
            BY <5>1, <1>1, <2>2 DEF Packs
        <4>. QED
          BY <4>1, <4>2
      <3>. QED
        BY <2>2, <2>5, <3>1
    <2>7. PcbTyped'
      BY <1>1, <2>5 DEF PcbInv, PcbTyped
    <2>8. Placed'
      <3>1. Building' => work'.at = work.at + 1 /\ work.at < n
        BY <1>1, <2>5 DEF Building, AtPart
      <3>2. Building' => /\ work'.at <= n /\ Len(work'.zip) = work'.at - 1
                         /\ \A k \in 1..(work'.at - 1) : work'.zip[k].name = PACKAGE_ENTRIES[k]
        BY <1>1, <2>6, <3>1
      <3>3. Built' => work.at = n
        BY <1>1, <2>5 DEF Building, Built, AtPart
      <3>4. Built' => Packs(n)'
        BY <2>6, <3>3 DEF Packs
      <3>5. work'.part <= NumParts(work'.kind) + 1
        BY <1>1, <2>5 DEF Building, AtPart, NumParts
      <3>6. work'.kind = "check" => work'.part > 3
        BY <1>1, <2>5 DEF Building, AtPart
      <3>7. Built' => Packs(Len(PACKAGE_ENTRIES))'
        BY <3>4 DEF Packs
      <3>8. ~(work'.kind = "check" /\ work'.part <= 3)
        BY <2>5, <3>6 DEF Works
      <3>. QED
        BY <3>2, <3>5, <3>7, <3>8 DEF Placed, Packs
    <2>9. Rest'
      <3> SUFFICES ASSUME moves = 0, work.kind \in {"verified", "check"}
                   PROVE  FromTree(head)' /\ NoneMissing'
        BY <1>1, <2>5 DEF Rest
      <3>1. /\ \A k \in DOMAIN work.zip : work.zip[k] = GitShow(head, work.zip[k].name)
            /\ \A k \in DOMAIN work.zip : ~Missing(head, work.zip[k].name)
        BY <1>1 DEF PcbInv, Rest, FromTree, NoneMissing
      <3>2. ASSUME NEW k \in 1..work.at
            PROVE  z[k] = GitShow(head, z[k].name) /\ ~Missing(head, z[k].name)
        <4>1. CASE k = work.at
          BY <1>4, <2>1, <2>2, <4>1
        <4>2. CASE k # work.at
          <5>1. k \in DOMAIN work.zip /\ z[k] = work.zip[k]
            BY <1>1, <2>2, <4>2
          <5>. QED
            BY <3>1, <5>1
        <4>. QED
          BY <4>1, <4>2
      <3>. QED
        BY <1>1, <2>2, <2>5, <3>2 DEF FromTree, NoneMissing, Missing, GitShow
    <2>10. Verdict'
      BY <1>1, <2>5 DEF PcbInv, Verdict, VerifiedVerdict, CheckVerdict, RowsAt, Building, AtPart
    <2>11. OneTree'
      BY <1>1, <2>5 DEF OneTree, BytesSoFar, Building, AtPart
    <2>12. Spoiled'
      BY <1>1, <2>5 DEF PcbInv, Spoiled, Building, AtPart
    <2>. QED
      BY <2>7, <2>8, <2>9, <2>10, <2>11, <2>12 DEF PcbInv
  <1>. QED
    BY <1>3, <1>4

\* A step to the next part that keeps package and rows leaves what was known of
\* them.
LEMMA NextPartStays ==
    ASSUME PcbInv, NEW good \in BOOLEAN, work' = NextPart(Judged(work, good)),
           head' = head, moves' = moves
    PROVE  /\ PcbTyped' /\ work'.kind = work.kind /\ work'.part = work.part + 1 /\ work'.at = 1
           /\ work'.zip = work.zip /\ work'.rows = work.rows /\ work'.ok = (work.ok /\ good)
           /\ work'.spoilt = work.spoilt /\ FromTree(head)' = FromTree(head)
  <1>1. work \in Works
    BY DEF PcbInv, PcbTyped
  <1>2. /\ work' \in Works /\ work'.kind = work.kind /\ work'.part = work.part + 1 /\ work'.at = 1
        /\ work'.zip = work.zip /\ work'.rows = work.rows /\ work'.ok = (work.ok /\ good)
        /\ work'.spoilt = work.spoilt
    BY <1>1, JudgedOf, NextPartOf
  <1>. QED
    BY <1>2 DEF PcbInv, PcbTyped, FromTree

\* The names of a package that was built are right.
LEMMA CheckNamesStep == PcbInv /\ CheckNames => PcbInv'
  <1> SUFFICES ASSUME PcbInv, CheckNames PROVE PcbInv'
    OBVIOUS
  <1>. DEFINE good == ExactNames(work.zip, Entries)
  <1>1. /\ AtPart("verified", 2) \/ AtPart("check", 5) \/ AtPart("badPackage", 3)
        /\ head' = head /\ moves' = moves /\ work' = NextPart(Judged(work, good))
        /\ good \in BOOLEAN
    BY RunningAt DEF PcbInv, CheckNames, ExactNames
  <1>. HIDE DEF good
  <1>2. /\ PcbTyped' /\ work'.kind = work.kind /\ work'.part = work.part + 1 /\ work'.at = 1
        /\ work'.zip = work.zip /\ work'.rows = work.rows /\ work'.ok = (work.ok /\ good)
        /\ work'.spoilt = work.spoilt /\ FromTree(head)' = FromTree(head)
    BY <1>1, NextPartStays
  <1>3. work.kind # "badPackage" => Packs(Len(PACKAGE_ENTRIES)) /\ good
    BY <1>1, WholePackage DEF PcbInv, Placed, Built, AtPart, good
  <1>4. work.part \in {2, 3, 5} /\ work.kind \in {"verified", "check", "badPackage"}
    BY <1>1 DEF AtPart
  <1>5. Placed'
    BY <1>1, <1>2, <1>3 DEF Placed, Building, Built, AtPart, Packs, NumParts
  <1>6. Rest'
    BY <1>1, <1>2 DEF PcbInv, Rest, NoneMissing, Building, Built, AtPart, Missing
  <1>7. Verdict'
    <2> SUFFICES ASSUME moves = 0 PROVE VerifiedVerdict' /\ CheckVerdict'
      BY <1>1 DEF Verdict
    <2>1. VerifiedVerdict /\ CheckVerdict
      BY DEF PcbInv, Verdict
    <2>2. VerifiedVerdict'
      BY <1>1, <1>2, <1>3, <2>1 DEF VerifiedVerdict, RowsAt, AtPart
    <2>3. CASE work.kind = "check"
      <3>0. good /\ work.ok \in BOOLEAN
        BY <1>3, <2>3 DEF PcbInv, PcbTyped, Works
      <3>a. work'.ok = work.ok
        BY <1>2, <3>0, Zenon
      <3>1. /\ work.part = 5 /\ work'.part = 6 /\ work'.ok = work.ok /\ work'.kind = "check"
        BY <1>1, <1>2, <2>3, <3>a DEF AtPart
      <3>2. work.ok = (RightTree(head) /\ head.fit)
        BY <2>1, <2>3, <3>1 DEF CheckVerdict
      <3>. QED
        BY <1>1, <2>2, <3>1, <3>2 DEF CheckVerdict, RowsAt, AtPart
    <2>4. CASE work.kind # "check"
      BY <1>2, <2>2, <2>4 DEF CheckVerdict, RowsAt, AtPart
    <2>. QED
      BY <2>3, <2>4
  <1>8. OneTree'
    BY <1>1, <1>2 DEF OneTree, BytesSoFar, AtPart
  <1>9. Spoiled'
    BY <1>1, <1>2 DEF PcbInv, Spoiled, AtPart, SpoiltEntry, good
  <1>. QED
    BY <1>2, <1>5, <1>6, <1>7, <1>8, <1>9 DEF PcbInv

\* The program goes on to its next part.
LEMMA NextPartKeeps ==
    ASSUME PcbInv, work' = NextPart(work), head' = head, moves' = moves
    PROVE  /\ PcbTyped' /\ work'.kind = work.kind /\ work'.part = work.part + 1 /\ work'.at = 1
           /\ work'.zip = work.zip /\ work'.rows = work.rows /\ work'.ok = work.ok
           /\ work'.spoilt = work.spoilt /\ FromTree(head)' = FromTree(head)
  <1>1. work \in Works
    BY DEF PcbInv, PcbTyped
  <1>. QED
    BY <1>1, NextPartOf DEF PcbInv, PcbTyped, FromTree

\* The same for a step to the next element of a list.
LEMMA NextElement ==
    ASSUME PcbInv, NEW good \in BOOLEAN, head' = head, moves' = moves,
           work' = [Judged(work, good) EXCEPT !.at = Judged(work, good).at + 1]
    PROVE  /\ PcbTyped' /\ work'.kind = work.kind /\ work'.part = work.part
           /\ work'.at = work.at + 1 /\ work'.at > 1
           /\ work'.zip = work.zip /\ work'.rows = work.rows /\ work'.ok = (work.ok /\ good)
           /\ work'.spoilt = work.spoilt /\ FromTree(head)' = FromTree(head)
  <1>. DEFINE j == Judged(work, good)
  <1>1. work \in Works /\ work.at \in Nat \ {0}
    BY DEF PcbInv, PcbTyped, Works
  <1>2. /\ j \in Works /\ j.ok = (work.ok /\ good) /\ j.part = work.part /\ j.at = work.at
        /\ j.kind = work.kind /\ j.zip = work.zip /\ j.rows = work.rows
        /\ j.spoilt = work.spoilt
    BY <1>1, JudgedOf
  <1>. HIDE DEF j
  <1>3. work' = [j EXCEPT !.at = work.at + 1] /\ work.at + 1 \in Nat \ {0} /\ work.at + 1 > 1
    BY <1>1, <1>2 DEF j
  <1>4. /\ work' \in Works /\ work'.kind = j.kind /\ work'.part = j.part
        /\ work'.at = work.at + 1 /\ work'.zip = j.zip /\ work'.rows = j.rows
        /\ work'.ok = j.ok /\ work'.spoilt = j.spoilt
    BY <1>2, <1>3 DEF Works
  <1>. QED
    BY <1>2, <1>3, <1>4 DEF PcbInv, PcbTyped, FromTree

\* The manifest in the package is the ref's.
LEMMA OpenRowsStep == PcbInv /\ OpenRows => PcbInv'
  <1> SUFFICES ASSUME PcbInv, OpenRows PROVE PcbInv'
    OBVIOUS
  <1>1. /\ AtPart("verified", 3) /\ head' = head /\ moves' = moves /\ PcbTyped /\ head \in Trees
        /\ work \in Works /\ work.ok \in BOOLEAN /\ work.zip \in Seq(AnyEntry)
    BY RunningAt DEF PcbInv, PcbTyped, OpenRows, Works
  <1>2. Packs(Len(PACKAGE_ENTRIES))
    BY <1>1 DEF PcbInv, Placed, Built, AtPart
  <1>. DEFINE k == CHOOSE i \in DOMAIN work.zip : work.zip[i].name = Manifest
              m == work.zip[k].rows
  <1>3. k \in DOMAIN work.zip /\ work.zip[k].name = Manifest /\ Manifest \in NamesOf(work.zip)
    <2>1. \E i \in DOMAIN work.zip : work.zip[i].name = Manifest
      BY <1>1, <1>2, WholePackage, ContractOf
    <2>. QED
      BY <2>1 DEF NamesOf
  <1>. DEFINE good == ExactNames(m, HashedFiles)
              j == [work EXCEPT !.rows = m, !.ok = work.ok /\ good]
  <1>4. work' = NextPart(j)
    BY <1>3 DEF OpenRows
  <1>5. m \in Listing
    <2>0. \A i \in DOMAIN work.zip : work.zip[i] \in AnyEntry
      BY <1>1, LenProperties, ElementOfSeq
    <2>1. work.zip[k] \in AnyEntry
      BY <1>3, <2>0
    <2>. QED
      BY <2>1 DEF AnyEntry
  <1>6. moves = 0 => m = head.rows
    <2>1. moves = 0 => work.zip[k] = GitShow(head, Manifest)
      BY <1>1, <1>3 DEF PcbInv, Rest, FromTree, AtPart
    <2>. QED
      BY <2>1 DEF GitShow
  <1>. HIDE DEF m
  <1>7. good \in BOOLEAN
    BY DEF ExactNames
  <1>. DEFINE b == work.ok /\ good
  <1>8. b \in BOOLEAN
    BY Zenon
  <1>9. /\ j \in Works /\ j.kind = work.kind /\ j.part = work.part /\ j.zip = work.zip
        /\ j.rows = m /\ j.spoilt = work.spoilt /\ j.ok = b
    <2>1. j = [work EXCEPT !.rows = m, !.ok = b]
      OBVIOUS
    <2>. HIDE DEF b, j
    <2>. QED
      BY <1>1, <1>5, <1>8, <2>1 DEF Works
  <1>. HIDE DEF j, b
  <1>10. /\ work' \in Works /\ work'.kind = "verified" /\ work'.part = 4 /\ work'.zip = work.zip
         /\ work'.rows = m /\ work'.ok = b /\ work'.at = 1 /\ work'.spoilt = work.spoilt
    BY <1>1, <1>4, <1>9, NextPartOf DEF AtPart
  <1>11. PcbTyped'
    BY <1>1, <1>10 DEF PcbInv, PcbTyped
  <1>12. Placed'
    BY <1>2, <1>10 DEF Placed, Building, AtPart, Packs, NumParts
  <1>13. Rest'
    BY <1>1, <1>10 DEF PcbInv, Rest, FromTree, NoneMissing, Building, Built, AtPart
  <1>14. Verdict'
    <2> SUFFICES ASSUME moves = 0 PROVE VerifiedVerdict' /\ CheckVerdict'
      BY <1>1 DEF Verdict
    <2>1. work.ok
      BY <1>1 DEF PcbInv, Verdict, VerifiedVerdict, AtPart
    <2>2. b = ExactNames(head.rows, HashedFiles)
      BY <1>1, <1>6, <1>7, <2>1, Zenon DEF b
    <2>3. \A i \in DOMAIN head.rows : ~(i < 1)
      <3>1. DOMAIN head.rows = 1..Len(head.rows)
        BY <1>1, TreeRows, LenProperties DEF Listing
      <3>. QED
        BY <3>1
    <2>4. RowsSeen(1)
      BY <2>3 DEF RowsSeen
    <2>5. b = RowsRight(1)
      BY <2>2, <2>4, Zenon DEF RowsRight, ExactNames
    <2>6. RowsRight(1)' = RowsRight(1)
      BY <1>1 DEF RowsRight, RowsSeen, RowMatches
    <2>. QED
      BY <1>1, <1>6, <1>10, <2>5, <2>6 DEF VerifiedVerdict, CheckVerdict, RowsAt, AtPart
  <1>15. OneTree'
    BY <1>10 DEF OneTree, BytesSoFar, AtPart
  <1>16. Spoiled'
    BY <1>1, <1>10 DEF PcbInv, Spoiled, AtPart
  <1>. QED
    BY <1>11, <1>12, <1>13, <1>14, <1>15, <1>16 DEF PcbInv

\* The checker takes it from the ref.
LEMMA ReadManifestStep == PcbInv /\ ReadManifest => PcbInv'
  <1> SUFFICES ASSUME PcbInv, ReadManifest PROVE PcbInv'
    OBVIOUS
  <1>. DEFINE good == ExactNames(head.rows, HashedFiles)
              b == work.ok /\ good
              j == [work EXCEPT !.rows = head.rows, !.ok = b]
  <1>1. /\ AtPart("check", 1) \/ AtPart("badManifest", 1)
        /\ head' = head /\ moves' = moves /\ PcbTyped /\ head \in Trees
        /\ work \in Works /\ work.ok \in BOOLEAN /\ work' = NextPart(j)
    BY RunningAt DEF PcbInv, PcbTyped, ReadManifest, Works
  <1>2. good \in BOOLEAN /\ head.rows \in Listing
    BY <1>1, TreeRows DEF ExactNames
  <1>3. b \in BOOLEAN
    BY Zenon
  <1>4. /\ j \in Works /\ j.kind = work.kind /\ j.part = work.part /\ j.zip = work.zip
        /\ j.rows = head.rows /\ j.spoilt = work.spoilt /\ j.ok = b
    <2>. HIDE DEF b
    <2>. QED
      BY <1>1, <1>2, <1>3 DEF Works
  <1>. HIDE DEF j
  <1>5. /\ work' \in Works /\ work'.kind = work.kind /\ work'.part = 2 /\ work'.zip = work.zip
        /\ work'.rows = head.rows /\ work'.ok = b /\ work'.at = 1
        /\ work'.spoilt = work.spoilt
    <2>. HIDE DEF b
    <2>. QED
      BY <1>1, <1>4, NextPartOf DEF AtPart
  <1>6. PcbTyped'
    BY <1>1, <1>5 DEF PcbInv, PcbTyped
  <1>7. Placed'
    BY <1>1, <1>5 DEF PcbInv, Placed, Building, Built, AtPart, NumParts
  <1>8. Rest'
    BY <1>1, <1>5 DEF PcbInv, Rest, FromTree, NoneMissing, Building, Built, AtPart
  <1>9. Verdict'
    <2> SUFFICES ASSUME moves = 0 PROVE VerifiedVerdict' /\ CheckVerdict'
      BY <1>1 DEF Verdict
    <2>1. VerifiedVerdict'
      BY <1>1, <1>5 DEF VerifiedVerdict, RowsAt, AtPart
    <2>2. CASE work.kind = "check"
      <3>1. work.ok
        BY <1>1, <2>2 DEF PcbInv, Verdict, CheckVerdict, AtPart
      <3>2. b = good
        BY <1>1, <1>2, <3>1, Zenon
      <3>3. \A i \in DOMAIN head.rows : ~(i < 1)
        <4>1. DOMAIN head.rows = 1..Len(head.rows)
          BY <1>2, LenProperties DEF Listing
        <4>. QED
          BY <4>1
      <3>4. RowsSeen(1)
        BY <3>3 DEF RowsSeen
      <3>5. b = RowsRight(1)
        BY <3>2, <3>4, Zenon DEF RowsRight, ExactNames
      <3>6. RowsRight(1)' = RowsRight(1)
        BY <1>1 DEF RowsRight, RowsSeen, RowMatches
      <3>. HIDE DEF b
      <3>. QED
        BY <1>1, <1>5, <2>1, <2>2, <3>5, <3>6 DEF CheckVerdict, RowsAt, AtPart
    <2>3. CASE work.kind # "check"
      BY <1>5, <2>1, <2>3 DEF CheckVerdict, RowsAt, AtPart
    <2>. QED
      BY <2>2, <2>3
  <1>10. OneTree'
    BY <1>1, <1>5 DEF OneTree, AtPart
  <1>11. Spoiled'
    BY <1>1, <1>5 DEF PcbInv, Spoiled, AtPart
  <1>. QED
    BY <1>6, <1>7, <1>8, <1>9, <1>10, <1>11 DEF PcbInv

\* The parts with one verdict for all of them.
LEMMA CheckOthersStep == PcbInv /\ CheckOthers => PcbInv'
  <1> SUFFICES ASSUME PcbInv, CheckOthers PROVE PcbInv'
    OBVIOUS
  <1>1. /\ AtPart("check", 3) /\ head' = head /\ moves' = moves /\ head \in Trees
        /\ work' = NextPart(Judged(work, head.fit)) /\ head.fit \in BOOLEAN
        /\ work.ok \in BOOLEAN
    BY RunningAt, TreeRows DEF PcbInv, PcbTyped, CheckOthers, Works
  <1>2. /\ PcbTyped' /\ work'.kind = "check" /\ work'.part = 4 /\ work'.at = 1
        /\ work'.zip = work.zip /\ work'.ok = (work.ok /\ head.fit)
        /\ work'.spoilt = work.spoilt /\ FromTree(head)' = FromTree(head)
    BY <1>1, NextPartStays DEF AtPart
  <1>3. work.zip = <<>>
    BY <1>1 DEF PcbInv, Placed, AtPart
  <1>4. Placed'
    BY <1>2, <1>3, ContractOf DEF Placed, Building, Built, AtPart, Packs, NumParts
  <1>5. Rest'
    BY <1>1, <1>2, <1>3 DEF PcbInv, Rest, NoneMissing, AtPart
  <1>6. Verdict'
    <2> SUFFICES ASSUME moves = 0 PROVE VerifiedVerdict' /\ CheckVerdict'
      BY <1>1 DEF Verdict
    <2>1. work.ok = RightTree(head)
      BY <1>1 DEF PcbInv, Verdict, CheckVerdict, AtPart
    <2>2. work'.ok = (RightTree(head) /\ head.fit)
      BY <1>2, <2>1, Zenon
    <2>. QED
      BY <1>1, <1>2, <2>2 DEF VerifiedVerdict, CheckVerdict, RowsAt, AtPart
  <1>7. OneTree'
    BY <1>2 DEF OneTree
  <1>8. Spoiled'
    BY <1>1, <1>2 DEF PcbInv, Spoiled, AtPart
  <1>. QED
    BY <1>2, <1>4, <1>5, <1>6, <1>7, <1>8 DEF PcbInv

\* Every row that has been looked at matches, or the program has noticed.
LEMMA CheckRowStep == PcbInv /\ CheckRow => PcbInv'
  <1> SUFFICES ASSUME PcbInv, CheckRow PROVE PcbInv'
    OBVIOUS
  <1>1. /\ AtPart("verified", 4) \/ AtPart("check", 2) \/ AtPart("badManifest", 3)
        /\ head' = head /\ moves' = moves /\ PcbTyped /\ head \in Trees /\ work \in Works
        /\ work.ok \in BOOLEAN /\ work.rows \in Listing /\ work.at \in Nat \ {0}
    BY RunningAt DEF PcbInv, PcbTyped, CheckRow, Works
  <1>2. /\ DOMAIN work.rows = 1..Len(work.rows) /\ Len(work.rows) \in Nat
        /\ DOMAIN head.rows = 1..Len(head.rows) /\ Len(head.rows) \in Nat
    BY <1>1, TreeRows, LenProperties DEF Listing
  <1>3. ASSUME moves = 0, work.kind \in {"verified", "check"}
        PROVE  work.rows = head.rows /\ work.ok = RowsRight(work.at)
    BY <1>1, <1>3 DEF PcbInv, Verdict, VerifiedVerdict, CheckVerdict, RowsAt, AtPart
  <1>4. CASE work.at > Len(work.rows)
    <2>1. work' = NextPart(work)
      BY <1>4 DEF CheckRow, ForEach
    <2>2. /\ PcbTyped' /\ work'.kind = work.kind /\ work'.part = work.part + 1 /\ work'.at = 1
          /\ work'.zip = work.zip /\ work'.rows = work.rows /\ work'.ok = work.ok
          /\ work'.spoilt = work.spoilt /\ FromTree(head)' = FromTree(head)
      BY <1>1, <2>1, NextPartKeeps
    <2>3. Placed'
      BY <1>1, <2>2 DEF PcbInv, Placed, Building, Built, AtPart, Packs, NumParts
    <2>4. Rest'
      BY <1>1, <2>2 DEF PcbInv, Rest, NoneMissing, Building, Built, AtPart, Missing
    <2>5. Verdict'
      <3> SUFFICES ASSUME moves = 0 PROVE VerifiedVerdict' /\ CheckVerdict'
        BY <1>1 DEF Verdict
      <3>1. ASSUME work.kind \in {"verified", "check"} PROVE work.ok = RightTree(head)
        <4>1. work.rows = head.rows /\ work.ok = RowsRight(work.at)
          BY <1>3, <3>1
        <4>2. \A k \in DOMAIN head.rows : k < work.at
          BY <1>1, <1>2, <1>4, <4>1
        <4>3. RowsRight(work.at) <=> RightTree(head)
          BY <1>1, <4>2, RightIff DEF RowsRight, RowsSeen
        <4>4. RowsRight(work.at) \in BOOLEAN /\ RightTree(head) \in BOOLEAN
          BY DEF RowsRight, RightTree
        <4>. QED
          BY <4>1, <4>3, <4>4, Zenon
      <3>. QED
        BY <1>1, <2>2, <3>1 DEF VerifiedVerdict, CheckVerdict, RowsAt, AtPart
    <2>6. OneTree'
      <3> SUFFICES ASSUME work.kind = "verified" PROVE BytesSoFar'
        BY <2>2 DEF OneTree
      <3>1. work'.part = 5 /\ work'.at = 1
        BY <1>1, <2>2 DEF AtPart
      <3>2. \A k \in DOMAIN work'.zip : ~(k < 1)
        <4>1. work.zip \in Seq(AnyEntry)
          BY <1>1 DEF Works
        <4>2. DOMAIN work.zip = 1..Len(work.zip)
          BY <4>1, LenProperties
        <4>. QED
          BY <2>2, <4>2
      <3>. QED
        BY <3>1, <3>2 DEF BytesSoFar, BytesSeen, AtPart
    <2>7. Spoiled'
      <3>1. ~(work.at = 1 /\ SpoiltRow)
        BY <1>2, <1>4 DEF SpoiltRow
      <3>. QED
        BY <1>1, <2>2, <3>1 DEF PcbInv, Spoiled, AtPart
    <2>. QED
      BY <2>2, <2>3, <2>4, <2>5, <2>6, <2>7 DEF PcbInv
  <1>5. CASE ~(work.at > Len(work.rows))
    <2>. DEFINE good == RowMatches(work.rows[work.at])
    <2>1. work' = [Judged(work, good) EXCEPT !.at = Judged(work, good).at + 1]
      BY <1>5 DEF CheckRow, ForEach
    <2>2. good \in BOOLEAN
      BY DEF RowMatches
    <2>3. work.at \in DOMAIN work.rows
      BY <1>1, <1>2, <1>5
    <2>. HIDE DEF good
    <2>4. /\ PcbTyped' /\ work'.kind = work.kind /\ work'.part = work.part
          /\ work'.at = work.at + 1 /\ work'.at > 1
          /\ work'.zip = work.zip /\ work'.rows = work.rows /\ work'.ok = (work.ok /\ good)
          /\ work'.spoilt = work.spoilt /\ FromTree(head)' = FromTree(head)
      BY <1>1, <2>1, <2>2, NextElement
    <2>5. Placed'
      BY <1>1, <2>4 DEF PcbInv, Placed, Building, Built, AtPart, Packs, NumParts
    <2>6. Rest'
      BY <1>1, <2>4 DEF PcbInv, Rest, NoneMissing, Building, Built, AtPart, Missing
    <2>7. Verdict'
      <3> SUFFICES ASSUME moves = 0 PROVE VerifiedVerdict' /\ CheckVerdict'
        BY <1>1 DEF Verdict
      <3>0. PICK n \in Nat : n = work.at + 1
        BY <1>1
      <3>1. ASSUME work.kind \in {"verified", "check"}
            PROVE  work'.rows = head.rows /\ n \in Nat /\ n = work'.at /\ work'.ok = RowsRight(n)'
        <4>1. work.rows = head.rows /\ work.ok = RowsRight(work.at)
          BY <1>3, <3>1
        <4>2. good = RowMatches(head.rows[work.at]) /\ work.at \in DOMAIN head.rows
          BY <2>3, <4>1 DEF good
        <4>3. \A k \in DOMAIN head.rows : k < n <=> k < work.at \/ k = work.at
          BY <1>1, <1>2, <3>0
        <4>4. RowsSeen(n) <=> RowsSeen(work.at) /\ good
          BY <2>2, <4>2, <4>3 DEF RowsSeen
        <4>5. RowsRight(n) <=> RowsRight(work.at) /\ good
          BY <4>4 DEF RowsRight
        <4>6. RowsRight(work.at) \in BOOLEAN /\ RowsRight(n) \in BOOLEAN
          BY DEF RowsRight
        <4>7. work'.ok = RowsRight(n)
          BY <2>4, <4>1, <4>5, <4>6, Zenon
        <4>8. \A k : RowMatches(head.rows[k])' = RowMatches(head.rows[k])
          BY <1>1 DEF RowMatches
        <4>9. RowsRight(n)' = RowsRight(n)
          BY <1>1, <4>8 DEF RowsRight, RowsSeen
        <4>. QED
          BY <1>1, <2>4, <3>0, <4>1, <4>7, <4>9
      <3>. QED
        BY <1>1, <2>4, <3>1 DEF VerifiedVerdict, CheckVerdict, RowsAt, AtPart
    <2>8. OneTree'
      BY <1>1, <2>4 DEF OneTree, BytesSoFar, AtPart
    <2>9. Spoiled'
      <3>1. ASSUME work.at = 1, SpoiltRow PROVE ~good
        <4>1. /\ work.rows[1].name \in HashedFiles /\ work.rows[1].content = Tampered
              /\ work.rows[1].name \in Entries
          BY <3>1, ContractOf DEF SpoiltRow
        <4>2. head.files[work.rows[1].name] # Tampered
          BY <1>1, <4>1, PcbAssumption
        <4>. QED
          BY <3>1, <4>1, <4>2 DEF good, RowMatches
      <3>2. CASE work.kind = "badManifest"
        <4>1. AtPart("badManifest", 3)
          BY <1>1, <3>2 DEF AtPart
        <4>2. work'.spoilt => ~work'.ok
          BY <2>4, <3>1, <4>1 DEF PcbInv, Spoiled
        <4>. QED
          BY <2>4, <4>1, <4>2 DEF Spoiled, AtPart
      <3>3. CASE work.kind # "badManifest"
        BY <1>1, <2>4, <3>3 DEF PcbInv, Spoiled, AtPart
      <3>. QED
        BY <3>2, <3>3
    <2>. QED
      BY <2>4, <2>5, <2>6, <2>7, <2>8, <2>9 DEF PcbInv
  <1>. QED
    BY <1>4, <1>5

\* Every entry that has been looked at is the ref's, or the program has noticed.
LEMMA CheckBytesStep == PcbInv /\ CheckBytes => PcbInv'
  <1> SUFFICES ASSUME PcbInv, CheckBytes PROVE PcbInv'
    OBVIOUS
  <1>1. /\ AtPart("verified", 5) \/ AtPart("check", 6) \/ AtPart("badPackage", 4)
        /\ head' = head /\ moves' = moves /\ PcbTyped /\ head \in Trees /\ work \in Works
        /\ work.ok \in BOOLEAN /\ work.zip \in Seq(AnyEntry) /\ work.at \in Nat \ {0}
    BY RunningAt DEF PcbInv, PcbTyped, CheckBytes, Works
  <1>2. DOMAIN work.zip = 1..Len(work.zip) /\ Len(work.zip) \in Nat
    BY <1>1, LenProperties
  <1>3. ASSUME work.kind \in {"verified", "check"}
        PROVE  /\ \A k \in DOMAIN work.zip : work.zip[k].name \in Entries
               /\ \A e \in Entries : \E k \in DOMAIN work.zip : work.zip[k].name = e
    BY <1>1, <1>3, WholePackage DEF PcbInv, Placed, Built, AtPart
  <1>4. CASE work.at > Len(work.zip)
    <2>1. work' = NextPart(work)
      BY <1>4 DEF CheckBytes, ForEach
    <2>2. /\ PcbTyped' /\ work'.kind = work.kind /\ work'.part = work.part + 1 /\ work'.at = 1
          /\ work'.zip = work.zip /\ work'.rows = work.rows /\ work'.ok = work.ok
          /\ work'.spoilt = work.spoilt /\ FromTree(head)' = FromTree(head)
      BY <1>1, <2>1, NextPartKeeps
    <2>3. Placed'
      BY <1>1, <2>2 DEF PcbInv, Placed, Building, Built, AtPart, NumParts
    <2>4. Rest'
      BY <1>1, <2>2 DEF PcbInv, Rest, NoneMissing, Building, Built, AtPart
    <2>5. Verdict'
      <3> SUFFICES ASSUME moves = 0 PROVE VerifiedVerdict' /\ CheckVerdict'
        BY <1>1 DEF Verdict
      <3>1. ASSUME work.kind \in {"verified", "check"} PROVE Complete(head)
        <4>1. \A k \in DOMAIN work.zip : ~Missing(head, work.zip[k].name)
          BY <1>1, <3>1 DEF PcbInv, Rest, NoneMissing, Built, AtPart
        <4>2. \A f \in HashedFiles : f # Manifest /\ f \in Entries
          BY ContractOf, PcbAssumption
        <4>. QED
          BY <1>3, <3>1, <4>1, <4>2 DEF Complete, Missing
      <3>2. CASE work.kind = "verified"
        <4>1. work.ok = RightTree(head) /\ Complete(head)
          BY <1>1, <3>1, <3>2 DEF PcbInv, Verdict, VerifiedVerdict, AtPart
        <4>2. work.ok = (Complete(head) /\ RightTree(head))
          BY <1>1, <4>1, Zenon DEF RightTree
        <4>. QED
          BY <1>1, <2>2, <3>2, <4>2 DEF VerifiedVerdict, CheckVerdict, RowsAt, AtPart
      <3>3. CASE work.kind = "check"
        <4>1. work.ok = (RightTree(head) /\ head.fit) /\ Complete(head)
          BY <1>1, <3>1, <3>3 DEF PcbInv, Verdict, CheckVerdict, AtPart
        <4>2. work.ok = (Complete(head) /\ RightTree(head) /\ head.fit)
          BY <1>1, <4>1, Zenon
        <4>. QED
          BY <1>1, <2>2, <3>3, <4>2 DEF VerifiedVerdict, CheckVerdict, RowsAt, AtPart
      <3>4. CASE work.kind \notin {"verified", "check"}
        BY <2>2, <3>4 DEF VerifiedVerdict, CheckVerdict, RowsAt, AtPart
      <3>. QED
        BY <3>2, <3>3, <3>4
    <2>6. OneTree'
      <3> SUFFICES ASSUME moves = 1, work.kind = "verified"
                   PROVE  (\E tree \in Trees : FromTree(tree)') \/ BytesSoFar'
        BY <1>1, <2>2 DEF OneTree
      <3>1. CASE \E tree \in Trees : FromTree(tree)
        BY <2>2, <3>1 DEF FromTree
      <3>2. CASE BytesSoFar
        <4>1. work.ok => BytesSeen(work.at)
          BY <1>1, <3>2 DEF BytesSoFar, AtPart
        <4>2. \A k \in DOMAIN work.zip : k < work.at
          BY <1>1, <1>2, <1>4
        <4>3. work.ok => FromTree(head)
          BY <4>1, <4>2 DEF BytesSeen, FromTree
        <4>. QED
          BY <1>1, <2>2, <4>3 DEF BytesSoFar, AtPart
      <3>. QED
        BY <3>1, <3>2 DEF PcbInv, OneTree
    <2>7. Spoiled'
      <3>1. ~(work.at = 1 /\ SpoiltEntry)
        BY <1>2, <1>4 DEF SpoiltEntry
      <3>. QED
        BY <1>1, <2>2, <3>1 DEF PcbInv, Spoiled, AtPart
    <2>. QED
      BY <2>2, <2>3, <2>4, <2>5, <2>6, <2>7 DEF PcbInv
  <1>5. CASE ~(work.at > Len(work.zip))
    <2>. DEFINE good == EntryMatches(work.zip[work.at])
    <2>1. work' = [Judged(work, good) EXCEPT !.at = Judged(work, good).at + 1]
      BY <1>5 DEF CheckBytes, ForEach
    <2>2. good \in BOOLEAN
      BY DEF EntryMatches
    <2>3. work.at \in DOMAIN work.zip
      BY <1>1, <1>2, <1>5
    <2>4. work.zip[work.at].name \in Entries =>
            (good <=> work.zip[work.at] = GitShow(head, work.zip[work.at].name))
      BY DEF EntryMatches
    <2>. HIDE DEF good
    <2>5. /\ PcbTyped' /\ work'.kind = work.kind /\ work'.part = work.part
          /\ work'.at = work.at + 1 /\ work'.at > 1
          /\ work'.zip = work.zip /\ work'.rows = work.rows /\ work'.ok = (work.ok /\ good)
          /\ work'.spoilt = work.spoilt /\ FromTree(head)' = FromTree(head)
      BY <1>1, <2>1, <2>2, NextElement
    <2>6. Placed'
      BY <1>1, <2>5 DEF PcbInv, Placed, Building, Built, AtPart, Packs, NumParts
    <2>7. Rest'
      BY <1>1, <2>5 DEF PcbInv, Rest, NoneMissing, Building, Built, AtPart
    <2>8. Verdict'
      <3> SUFFICES ASSUME moves = 0 PROVE VerifiedVerdict' /\ CheckVerdict'
        BY <1>1 DEF Verdict
      <3>1. ASSUME work.kind \in {"verified", "check"} PROVE work'.ok = work.ok
        <4>1. FromTree(head)
          BY <3>1 DEF PcbInv, Rest
        <4>2. good
          BY <1>3, <2>3, <2>4, <3>1, <4>1 DEF FromTree
        <4>. QED
          BY <1>1, <2>5, <4>2, Zenon
      <3>2. VerifiedVerdict /\ CheckVerdict
        BY DEF PcbInv, Verdict
      <3>3. VerifiedVerdict'
        BY <1>1, <2>5, <3>1, <3>2 DEF VerifiedVerdict, RowsAt, AtPart
      <3>4. CASE work.kind = "check"
        <4>1. work'.ok = (RightTree(head) /\ head.fit) /\ work'.part = 6
          BY <1>1, <2>5, <3>1, <3>2, <3>4 DEF CheckVerdict, AtPart
        <4>. QED
          BY <1>1, <2>5, <3>3, <3>4, <4>1 DEF CheckVerdict, RowsAt, AtPart
      <3>5. CASE work.kind # "check"
        BY <2>5, <3>3, <3>5 DEF CheckVerdict, RowsAt, AtPart
      <3>. QED
        BY <3>4, <3>5
    <2>9. OneTree'
      <3> SUFFICES ASSUME moves = 1, work.kind = "verified"
                   PROVE  (\E tree \in Trees : FromTree(tree)') \/ BytesSoFar'
        BY <1>1, <2>5 DEF OneTree
      <3>1. CASE \E tree \in Trees : FromTree(tree)
        BY <2>5, <3>1 DEF FromTree
      <3>2. CASE BytesSoFar
        <4>1. AtPart("verified", 5) /\ work'.part = 5
          BY <1>1, <2>5 DEF AtPart
        <4>2. ASSUME work'.ok, NEW k \in DOMAIN work.zip, k < work.at + 1
              PROVE  work.zip[k] = GitShow(head, work.zip[k].name)
          <5>1. work.ok /\ good
            BY <2>5, <4>2
          <5>2. CASE k < work.at
            BY <3>2, <4>1, <4>2, <5>1, <5>2 DEF BytesSoFar, BytesSeen
          <5>3. CASE ~(k < work.at)
            <6>1. k = work.at
              BY <1>1, <1>2, <4>2, <5>3
            <6>. QED
              BY <1>3, <2>3, <2>4, <5>1, <6>1
          <5>. QED
            BY <5>2, <5>3
        <4>3. work'.ok => BytesSeen(work.at)'
          BY <1>1, <2>5, <4>2 DEF BytesSeen
        <4>. QED
          BY <4>1, <4>3 DEF BytesSoFar, AtPart
      <3>. QED
        BY <3>1, <3>2 DEF PcbInv, OneTree
    <2>10. Spoiled'
      <3>1. ASSUME work.at = 1, SpoiltEntry PROVE ~good
        <4>1. work.zip[1].name \in Entries /\ work.zip[1].content = Tampered
          BY <3>1 DEF SpoiltEntry
        <4>2. GitShow(head, work.zip[1].name).content # Tampered
          BY <1>1, <4>1, GitShowOf
        <4>. QED
          BY <2>4, <3>1, <4>1, <4>2
      <3>2. CASE work.kind = "badPackage"
        <4>1. AtPart("badPackage", 4)
          BY <1>1, <3>2 DEF AtPart
        <4>2. ~work'.ok
          BY <2>5, <3>1, <4>1 DEF PcbInv, Spoiled
        <4>. QED
          BY <2>5, <4>1, <4>2 DEF Spoiled, AtPart
      <3>3. CASE work.kind # "badPackage"
        BY <1>1, <2>5, <3>3 DEF PcbInv, Spoiled, AtPart
      <3>. QED
        BY <3>2, <3>3
    <2>. QED
      BY <2>5, <2>6, <2>7, <2>8, <2>9, <2>10 DEF PcbInv
  <1>. QED
    BY <1>4, <1>5

\* A list that is broken has a row too few or too many, or a row no file
\* matches.
LEMMA BrokenList ==
    ASSUME NEW list \in Listing, list # <<>>, NEW rows1 \in BrokenManifests(list)
    PROVE  /\ rows1 \in Listing
           /\ ExactNames(list, HashedFiles) =>
                \/ ~ExactNames(rows1, HashedFiles)
                \/ Len(rows1) > 0 /\ rows1[1].name \in HashedFiles /\ rows1[1].content = Tampered
  <1>. DEFINE n == Len(list)
  <1>1. list \in Seq(AnyRow) /\ n \in Nat /\ n > 0
    <2>1. list \in Seq(AnyRow)
      BY DEF Listing
    <2>2. n \in Nat /\ n # 0
      BY <2>1, LenProperties, EmptySeq
    <2>. QED
      BY <2>1, <2>2
  <1>2. list[1] \in AnyRow
    <2>1. 1 \in 1..n
      BY <1>1
    <2>. QED
      BY <1>1, <2>1, ElementOfSeq
  <1>3. Tail(list) \in Seq(AnyRow) /\ Len(Tail(list)) = n - 1
    BY <1>1, HeadTailProperties
  <1>4. ASSUME NEW r \in AnyRow
        PROVE  Append(list, r) \in Seq(AnyRow) /\ Len(Append(list, r)) = n + 1
    BY <1>1, AppendProperties
  <1>. DEFINE first == Row(list[1].name, Tampered)
              spoilt == <<first>> \o Tail(list)
  <1>5. /\ Row(Stranger, list[1].content) \in AnyRow /\ Row(Manifest, Tampered) \in AnyRow
        /\ first \in AnyRow
    BY <1>2 DEF Row, AnyRow, Names, Contents
  <1>6. spoilt \in Seq(AnyRow) /\ Len(spoilt) > 0 /\ spoilt[1] = first
    <2>. HIDE DEF first
    <2>1. <<first>> \in Seq(AnyRow) /\ Len(<<first>>) = 1 /\ <<first>>[1] = first
      BY <1>5
    <2>2. /\ spoilt \in Seq(AnyRow) /\ Len(spoilt) = 1 + (n - 1)
          /\ \A i \in 1..(1 + (n - 1)) : spoilt[i] = IF i <= 1 THEN <<first>>[i] ELSE Tail(list)[i - 1]
      BY <2>1, <1>3, ConcatProperties
    <2>3. 1 \in 1..(1 + (n - 1)) /\ 1 + (n - 1) > 0
      BY <1>1
    <2>. HIDE DEF spoilt
    <2>. QED
      BY <2>1, <2>2, <2>3
  <1>7. ASSUME Len(rows1) # n, ExactNames(list, HashedFiles)
        PROVE  ~ExactNames(rows1, HashedFiles)
    BY <1>7 DEF ExactNames
  <1>8. ASSUME ExactNames(list, HashedFiles) PROVE list[1].name \in HashedFiles
    <2>1. 1 \in DOMAIN list
      BY <1>1, LenProperties
    <2>. QED
      BY <1>8, <2>1 DEF ExactNames, NamesOf
  <1>9. CASE rows1 = Tail(list)
    <2>1. Len(rows1) = n - 1
      BY <1>3, <1>9
    <2>2. Len(rows1) # n
      BY <1>1, <2>1
    <2>3. rows1 \in Listing
      BY <1>3, <1>9 DEF Listing
    <2>. QED
      BY <1>7, <2>2, <2>3
  <1>10. ASSUME NEW r \in AnyRow, rows1 = Append(list, r)
         PROVE  rows1 \in Listing /\ Len(rows1) # n
    BY <1>1, <1>4, <1>10 DEF Listing
  <1>11. CASE \E r \in AnyRow : rows1 = Append(list, r)
    BY <1>7, <1>10, <1>11
  <1>12. CASE rows1 = spoilt
    <2>1. first.name = list[1].name /\ first.content = Tampered
      BY DEF Row
    <2>. HIDE DEF spoilt, first
    <2>. QED
      BY <1>6, <1>8, <1>12, <2>1 DEF Listing
  <1>13. \/ rows1 = Tail(list) \/ rows1 = Append(list, Row(Stranger, list[1].content))
         \/ rows1 = Append(list, list[1]) \/ rows1 = spoilt
         \/ rows1 = Append(list, Row(Manifest, Tampered))
    BY DEF BrokenManifests
  <1>. HIDE DEF spoilt, first
  <1>. QED
    BY <1>2, <1>5, <1>9, <1>11, <1>12, <1>13

\* The self-test breaks a manifest in one place.
LEMMA SpoilRowsStep == PcbInv /\ SpoilRows => PcbInv'
  <1> SUFFICES ASSUME PcbInv, SpoilRows PROVE PcbInv'
    OBVIOUS
  <1>1. /\ AtPart("badManifest", 2) /\ head' = head /\ moves' = moves /\ PcbTyped
        /\ work \in Works /\ work.rows \in Listing /\ work.ok \in BOOLEAN
        /\ work.ok => ExactNames(work.rows, HashedFiles)
        /\ ~work.spoilt
    BY RunningAt DEF PcbInv, PcbTyped, SpoilRows, Works, Spoiled
  <1>2. ASSUME work' \in Works, work'.kind = work.kind, work'.part \in 3..4, Spoiled'
        PROVE  PcbInv'
    <2>1. PcbTyped'
      BY <1>1, <1>2 DEF PcbTyped
    <2>2. Placed'
      BY <1>1, <1>2 DEF Placed, Building, Built, AtPart, NumParts
    <2>3. Rest' /\ Verdict' /\ OneTree'
      BY <1>1, <1>2 DEF Rest, Verdict, VerifiedVerdict, CheckVerdict, RowsAt, OneTree, AtPart
    <2>. QED
      BY <1>2, <2>1, <2>2, <2>3 DEF PcbInv
  <1>3. CASE work.rows = <<>>
    <2>1. work' = Exit(work)
      BY <1>3 DEF SpoilRows
    <2>4. NumParts(work.kind) + 1 = 4
      BY <1>1 DEF NumParts, AtPart
    <2>2. /\ work' \in Works /\ work'.kind = work.kind /\ work'.part = 4 /\ ~work'.ok
      BY <1>1, <2>1, <2>4, ExitOf
    <2>3. Spoiled'
      BY <1>1, <2>2 DEF Spoiled, AtPart
    <2>. QED
      BY <1>2, <2>2, <2>3
  <1>4. CASE work.rows # <<>>
    <2>1. PICK rows1 \in BrokenManifests(work.rows) :
            work' = NextPart([work EXCEPT !.rows = rows1, !.spoilt = work.ok,
                                        !.ok = ExactNames(rows1, HashedFiles)])
      BY <1>4 DEF SpoilRows
    <2>. DEFINE b == ExactNames(rows1, HashedFiles)
                j == [work EXCEPT !.rows = rows1, !.spoilt = work.ok, !.ok = b]
    <2>2. /\ rows1 \in Listing
          /\ ExactNames(work.rows, HashedFiles) =>
               \/ ~b
               \/ Len(rows1) > 0 /\ rows1[1].name \in HashedFiles /\ rows1[1].content = Tampered
      BY <1>1, <1>4, BrokenList
    <2>3. b \in BOOLEAN
      BY DEF ExactNames
    <2>. HIDE DEF b
    <2>4. /\ j \in Works /\ j.kind = work.kind /\ j.part = work.part /\ j.rows = rows1
          /\ j.spoilt = work.ok /\ j.ok = b
      BY <1>1, <2>2, <2>3 DEF Works
    <2>5. work' = NextPart(j)
      BY <2>1 DEF b
    <2>. HIDE DEF j
    <2>6. /\ work' \in Works /\ work'.kind = "badManifest" /\ work'.part = 3 /\ work'.at = 1
          /\ work'.rows = rows1 /\ work'.spoilt = work.ok /\ work'.ok = b
      BY <1>1, <2>4, <2>5, NextPartOf DEF AtPart
    <2>7. Spoiled'
      BY <1>1, <2>2, <2>6 DEF Spoiled, AtPart, SpoiltRow
    <2>. QED
      BY <1>1, <1>2, <2>6, <2>7 DEF AtPart
  <1>. QED
    BY <1>3, <1>4

\* It breaks a package in one place.
LEMMA SpoilZipStep == PcbInv /\ SpoilZip => PcbInv'
  <1> SUFFICES ASSUME PcbInv, SpoilZip PROVE PcbInv'
    OBVIOUS
  <1>. DEFINE n == Len(PACKAGE_ENTRIES)
              z0 == work.zip
              added == [work.zip[1] EXCEPT !.name = Stranger]
              first == [work.zip[1] EXCEPT !.content = Tampered]
              spoilt == <<first>> \o Tail(z0)
  <1>1. /\ AtPart("badPackage", 2) /\ head' = head /\ moves' = moves /\ PcbTyped
        /\ work \in Works /\ Packs(n) /\ z0 \in Seq(AnyEntry)
    BY RunningAt DEF PcbInv, PcbTyped, SpoilZip, Works, Placed, Built, AtPart
  <1>2. /\ n \in Nat /\ n > 0 /\ Len(z0) = n /\ Cardinality(Entries) = n
        /\ z0[1] \in AnyEntry /\ z0[1].name \in Entries
    <2>1. n \in Nat /\ n > 0 /\ Len(z0) = n /\ Cardinality(Entries) = n
      BY <1>1, ContractOf DEF Packs
    <2>2. 1 \in 1..n
      BY <2>1
    <2>. QED
      BY <1>1, <2>1, <2>2, ElementOfSeq, ContractOf DEF Packs
  <1>3. /\ added \in AnyEntry /\ first \in AnyEntry /\ first.name = z0[1].name
        /\ first.content = Tampered
    <2>1. Stranger \in Names /\ Tampered \in Contents
      BY DEF Names, Contents
    <2>. QED
      BY <1>2, <2>1 DEF AnyEntry
  <1>. HIDE DEF added, first
  <1>4. Tail(z0) \in Seq(AnyEntry) /\ Len(Tail(z0)) = n - 1
    BY <1>1, <1>2, HeadTailProperties, EmptySeq
  <1>5. Append(z0, added) \in Seq(AnyEntry) /\ Len(Append(z0, added)) = n + 1
    BY <1>1, <1>2, <1>3, AppendProperties
  <1>6. spoilt \in Seq(AnyEntry) /\ Len(spoilt) > 0 /\ spoilt[1] = first
    <2>1. <<first>> \in Seq(AnyEntry) /\ Len(<<first>>) = 1 /\ <<first>>[1] = first
      BY <1>3
    <2>2. /\ spoilt \in Seq(AnyEntry) /\ Len(spoilt) = 1 + (n - 1)
          /\ \A i \in 1..(1 + (n - 1)) : spoilt[i] = IF i <= 1 THEN <<first>>[i] ELSE Tail(z0)[i - 1]
      BY <2>1, <1>4, ConcatProperties
    <2>3. 1 \in 1..(1 + (n - 1)) /\ 1 + (n - 1) > 0
      BY <1>2
    <2>. HIDE DEF spoilt, z0
    <2>. QED
      BY <2>1, <2>2, <2>3
  <1>7. PICK z \in {Tail(z0), Append(z0, added), spoilt} :
          work' = NextPart([work EXCEPT !.zip = z, !.spoilt = TRUE])
    BY <1>1 DEF SpoilZip, added, first
  <1>8. /\ z \in Seq(AnyEntry)
        /\ \/ ~ExactNames(z, Entries)
           \/ Len(z) > 0 /\ z[1].name \in Entries /\ z[1].content = Tampered
    <2>1. CASE z = Tail(z0) \/ z = Append(z0, added)
      <3>1. Len(z) # n
        <4>. HIDE DEF z0, n
        <4>. QED
          BY <1>2, <1>4, <1>5, <2>1
      <3>. QED
        BY <1>2, <1>4, <1>5, <2>1, <3>1 DEF ExactNames
    <2>2. CASE z = spoilt
      <3>. HIDE DEF spoilt, z0
      <3>. QED
        BY <1>2, <1>3, <1>6, <2>2
    <2>. QED
      BY <1>7, <2>1, <2>2
  <1>. DEFINE j == [work EXCEPT !.zip = z, !.spoilt = TRUE]
  <1>9. /\ j \in Works /\ j.kind = work.kind /\ j.part = work.part /\ j.zip = z
    BY <1>1, <1>8 DEF Works
  <1>15. work' = NextPart(j)
    BY <1>7
  <1>. HIDE DEF j, z0, n, spoilt
  <1>16. work.kind = "badPackage" /\ work.part = 2 /\ work.part + 1 = 3
    BY <1>1 DEF AtPart
  <1>10. /\ work' \in Works /\ work'.kind = "badPackage" /\ work'.part = 3 /\ work'.at = 1
         /\ work'.zip = z
    BY <1>9, <1>15, <1>16, NextPartOf
  <1>11. PcbTyped'
    BY <1>1, <1>10 DEF PcbTyped
  <1>12. Placed'
    BY <1>1, <1>10 DEF Placed, Building, Built, AtPart, NumParts
  <1>13. Rest' /\ Verdict' /\ OneTree'
    BY <1>1, <1>10 DEF Rest, Verdict, VerifiedVerdict, CheckVerdict, RowsAt, OneTree, AtPart
  <1>14. Spoiled'
    BY <1>8, <1>10 DEF Spoiled, AtPart, SpoiltEntry
  <1>. QED
    BY <1>11, <1>12, <1>13, <1>14 DEF PcbInv

\* Every step keeps the invariant.
LEMMA PcbNextStep == PcbInv /\ [PcbNext]_pcbVars => PcbInv'
  <1>1. PcbInv /\ UNCHANGED pcbVars => PcbInv'
    <2> SUFFICES ASSUME PcbInv, UNCHANGED pcbVars PROVE PcbInv'
      OBVIOUS
    <2>1. head' = head /\ moves' = moves /\ work' = work
      BY DEF pcbVars
    <2>2. PcbTyped' /\ Placed' /\ Spoiled'
      BY <2>1 DEF PcbInv, PcbTyped, Placed, Building, Built, AtPart, Packs, Spoiled, SpoiltRow,
                  SpoiltEntry
    <2>3. Rest' /\ OneTree'
      BY <2>1 DEF PcbInv, Rest, FromTree, NoneMissing, Building, Built, AtPart, OneTree,
                  BytesSoFar, BytesSeen
    <2>4. \A n : RowsRight(n)' = RowsRight(n)
      BY <2>1 DEF RowsRight, RowsSeen, RowMatches
    <2>5. Verdict'
      BY <2>1, <2>4 DEF PcbInv, Verdict, VerifiedVerdict, CheckVerdict, RowsAt, AtPart
    <2>. QED
      BY <2>2, <2>3, <2>5 DEF PcbInv
  <1>. QED
    BY <1>1, MoveRefStep, BuildEntryStep, CheckNamesStep, OpenRowsStep, ReadManifestStep,
       CheckRowStep, CheckBytesStep, CheckOthersStep, SpoilRowsStep, SpoilZipStep DEF PcbNext

\* PcbInv is an inductive invariant of packager and checker.
THEOREM PackageInductive == PcbSpec => []PcbInv
  BY PcbInitInv, PcbNextStep, PTL DEF PcbSpec

\* For any contract and any trees: while the ref stays, packager and checker
\* accept exactly the trees that are complete and listed rightly, never what was
\* spoilt; a package that was verified while the ref moved once at most is one
\* tree's.
THEOREM PackagesExact == PcbSpec => []PackageExact
<1>1. PcbInv => PackageExact
  <2> SUFFICES ASSUME PcbInv, Ended PROVE PackageExact
    BY DEF PackageExact
  <2>1. work.kind \in Kinds /\ work.part = NumParts(work.kind) + 1 /\ moves \in Nat
    BY PartsOf, PcbAssumption DEF PcbInv, PcbTyped, Works, Ended
  <2>2. /\ work.kind = "verified" => AtPart("verified", 6)
        /\ work.kind = "check" => AtPart("check", 7)
        /\ work.kind = "badManifest" => AtPart("badManifest", 4)
        /\ work.kind = "badPackage" => AtPart("badPackage", 5)
    BY <2>1 DEF NumParts, AtPart
  <2>3. work.spoilt => ~work.ok
    BY <2>1, <2>2 DEF PcbInv, Spoiled, Kinds
  <2>4. moves = 0 /\ work.kind = "verified" =>
          work.ok = (Complete(head) /\ RightTree(head))
    BY <2>2 DEF PcbInv, Verdict, VerifiedVerdict
  <2>5. moves = 0 /\ work.kind = "check" =>
          work.ok = (Complete(head) /\ RightTree(head) /\ head.fit)
    BY <2>2 DEF PcbInv, Verdict, CheckVerdict
  <2>6. ASSUME work.ok, work.kind = "verified", moves <= 1
        PROVE  \E tree \in Trees : FromTree(tree)
    <3>1. CASE moves = 0
      BY <2>6, <3>1 DEF PcbInv, PcbTyped, Rest
    <3>2. CASE moves = 1
      BY <2>2, <2>6, <3>2 DEF PcbInv, PcbTyped, OneTree, BytesSoFar
    <3>. QED
      BY <2>1, <2>6, <3>1, <3>2
  <2>. QED
    BY <2>3, <2>4, <2>5, <2>6 DEF PackageExact, FromTree
<1>. QED
  BY <1>1, PackageInductive, PTL

\* The variables of packager and checker have their types.
THEOREM PackageTypes == PcbSpec => []PcbTypeOK
<1>1. PcbInv => PcbTypeOK
  <2> SUFFICES ASSUME PcbInv PROVE PcbTypeOK
    OBVIOUS
  <2>1. /\ head \in Trees /\ moves \in 0..MaxMoves /\ work.kind \in Kinds
        /\ work.part \in Nat \ {0} /\ work.at \in Nat \ {0}
        /\ work.ok \in BOOLEAN /\ work.spoilt \in BOOLEAN
        /\ work.part <= NumParts(work.kind) + 1
    BY DEF PcbInv, PcbTyped, Placed, Works
  <2>2. Len(Parts(work.kind)) = NumParts(work.kind) /\ NumParts(work.kind) \in 1..6
    BY <2>1, PartsOf
  <2>3. work.part \in 1..(Len(Parts(work.kind)) + 1)
    BY <2>1, <2>2
  <2>. QED
    BY <2>1, <2>3 DEF PcbTypeOK
<1>. QED
  BY <1>1, PackageInductive, PTL

SrunTypes == prep \in [pc : {"ended", "audit", "remove", "copy", "manifest"}, pass : {1, 2},
                       at : 1..Len(SRUN_FILES), ok : BOOLEAN, verify : BOOLEAN]

\* What a file of the library may be.
SrunContents ==
    {NotThere, -1} \cup UNION {{tree.files[f] : f \in SrunFiles} : tree \in SrunTrees}
Libraries == [files : [SrunFiles -> SrunContents], manifest : [SrunFiles -> SrunContents]]

SrunTyped ==
    /\ source \in SrunTrees /\ edits \in 0..MaxEdits /\ SrunTypes
    /\ made \in [{1, 2} -> Libraries]

\* A library under construction has no manifest; any other that has one is no
\* more than it lists.
Unlisted == prep.pc \in {"copy", "manifest"} => made[prep.pass].manifest = NoManifest
Covered(library) ==
    library.manifest \notin {NoManifest, TornManifest} =>
        \A f \in SrunFiles : library.files[f] \in {NotThere, library.manifest[f]}

\* The files this pass has copied.
Copied ==
    {f \in SrunFiles : \/ prep.pc = "manifest"
                       \/ /\ prep.pc = "copy"
                          /\ \E k \in 1..(prep.at - 1) : SRUN_FILES[k] = f}
CopiedThere == \A f \in Copied : made[prep.pass].files[f] # NotThere

\* The first pass is behind us.
FirstMade ==
    (prep.pc # "ended" /\ prep.pass = 2) \/ (prep.pc = "ended" /\ prep.ok) =>
        /\ made[1].manifest = made[1].files
        /\ \A f \in SrunFiles : made[1].files[f] # NotThere

\* Of the two passes one at least has met no edit when there was only one.
ThisPassClean == \A f \in Copied : made[prep.pass].files[f] = source.files[f]
FirstIsTree == \E tree \in SrunTrees : made[1].files = tree.files
OneSource ==
    /\ prep.pc # "ended" /\ edits = 0 =>
         /\ ThisPassClean
         /\ prep.pass = 2 => made[1].files = source.files
    /\ prep.pc # "ended" /\ edits = 1 /\ prep.pass = 2 => FirstIsTree \/ ThisPassClean
    /\ prep.pc = "ended" /\ prep.ok /\ prep.verify /\ edits <= 1 =>
         FirstIsTree

SrunInv ==
    /\ SrunTyped /\ Unlisted /\ (\A p \in {1, 2} : Covered(made[p]))
    /\ CopiedThere /\ FirstMade /\ OneSource

\* The inventory in its order.
LEMMA SrunFilesOrder ==
    /\ Len(SRUN_FILES) \in Nat \ {0}
    /\ \A k \in 1..Len(SRUN_FILES) : SRUN_FILES[k] \in SrunFiles
    /\ \A f \in SrunFiles : \E k \in 1..Len(SRUN_FILES) : SRUN_FILES[k] = f
  <1>1. /\ SRUN_FILES \in Seq(SrunFiles)
        /\ \A f \in SrunFiles : \E k \in DOMAIN SRUN_FILES : SRUN_FILES[k] = f
    BY SrunAssumption, SetToSeqOf DEF SRUN_FILES
  <1>2. Len(SRUN_FILES) \in Nat /\ DOMAIN SRUN_FILES = 1..Len(SRUN_FILES)
    BY <1>1, LenProperties
  <1>3. PICK f \in SrunFiles : TRUE
    BY SrunAssumption
  <1>4. PICK k \in 1..Len(SRUN_FILES) : SRUN_FILES[k] = f
    BY <1>1, <1>2
  <1>5. Len(SRUN_FILES) # 0
    BY <1>2, <1>4
  <1>. QED
    BY <1>1, <1>2, <1>5, ElementOfSeq

\* There is a first file.
LEMMA SrunFirst == 1 \in 1..Len(SRUN_FILES)
  BY SrunFilesOrder

\* An empty library.
LEMMA NoLibraryType ==
    /\ NoManifest \in [SrunFiles -> SrunContents] /\ TornManifest \in [SrunFiles -> SrunContents]
    /\ NoLibrary \in Libraries
    /\ \A tree \in SrunTrees : tree.files \in [SrunFiles -> SrunContents]
  <1>1. NoManifest \in [SrunFiles -> SrunContents] /\ TornManifest \in [SrunFiles -> SrunContents]
    BY DEF NoManifest, TornManifest, SrunContents, NotThere
  <1>2. ASSUME NEW tree \in SrunTrees PROVE tree.files \in [SrunFiles -> SrunContents]
    <2>1. tree.files \in [SrunFiles -> {tree.files[f] : f \in SrunFiles}]
      BY SrunAssumption
    <2>2. {tree.files[f] : f \in SrunFiles} \subseteq SrunContents
      BY DEF SrunContents
    <2>. QED
      BY <2>1, <2>2
  <1>. QED
    BY <1>1, <1>2 DEF NoLibrary, Libraries

\* No file is copied in the beginning.
LEMMA SrunInitInv == SrunInit => SrunInv
  <1> SUFFICES ASSUME SrunInit PROVE SrunInv
    OBVIOUS
  <1>1. SrunTyped
    <2>1. 1 \in 1..Len(SRUN_FILES)
      BY SrunFilesOrder
    <2>2. prep = [pc |-> "ended", pass |-> 1, at |-> 1, ok |-> FALSE, verify |-> FALSE]
      BY DEF SrunInit
    <2>3. SrunTypes
      BY <2>1, <2>2 DEF SrunTypes
    <2>. QED
      BY <2>3, SrunAssumption, NoLibraryType DEF SrunInit, SrunTyped
  <1>2. \A p \in {1, 2} : Covered(made[p])
    BY DEF SrunInit, NoLibrary, Covered
  <1>3. prep.pc = "ended" /\ ~prep.ok
    BY DEF SrunInit
  <1>. QED
    BY <1>1, <1>2, <1>3
    DEF SrunInv, Unlisted, CopiedThere, Copied, FirstMade, OneSource

\* The source changes: what was copied is of the tree it was.
LEMMA EditSourceStep == SrunInv /\ EditSource => SrunInv'
  <1> SUFFICES ASSUME SrunInv, EditSource PROVE SrunInv'
    OBVIOUS
  <1>1. /\ prep' = prep /\ made' = made /\ source' \in SrunTrees /\ SrunTyped
        /\ prep.pc # "ended" => edits < MaxEdits
        /\ edits' = IF prep.pc = "ended" THEN edits ELSE edits + 1
    BY DEF SrunInv, EditSource
  <1>2. edits \in 0..MaxEdits /\ MaxEdits \in Nat /\ source \in SrunTrees
    BY <1>1, SrunAssumption DEF SrunTyped
  <1>3. SrunTyped'
    <2>1. edits' \in 0..MaxEdits
      BY <1>1, <1>2
    <2>. QED
      BY <1>1, <2>1 DEF SrunTyped, SrunTypes
  <1>4. Unlisted' /\ (\A p \in {1, 2} : Covered(made[p])') /\ CopiedThere' /\ FirstMade'
    BY <1>1 DEF SrunInv, Unlisted, Covered, CopiedThere, Copied, FirstMade
  <1>5. CASE prep.pc = "ended"
    <2>1. OneSource'
      BY <1>1, <1>5 DEF SrunInv, OneSource, FirstIsTree
    <2>. QED
      BY <1>3, <1>4, <2>1 DEF SrunInv
  <1>6. CASE prep.pc # "ended"
    <2>1. edits' # 0 /\ (edits' = 1 => edits = 0)
      BY <1>1, <1>2, <1>6
    <2>2. edits' = 1 /\ prep.pass = 2 => FirstIsTree
      BY <1>2, <1>6, <2>1 DEF SrunInv, OneSource, FirstIsTree
    <2>3. OneSource'
      BY <1>1, <1>6, <2>1, <2>2 DEF OneSource, FirstIsTree
    <2>. QED
      BY <1>3, <1>4, <2>3 DEF SrunInv
  <1>. QED
    BY <1>5, <1>6

\* A run begins, over whatever an earlier one left.
LEMMA PrepareStep == SrunInv /\ Prepare => SrunInv'
  <1> SUFFICES ASSUME SrunInv, Prepare PROVE SrunInv'
    OBVIOUS
  <1>1. /\ SrunTyped /\ source' = source /\ edits' = 0 /\ MaxEdits \in Nat
        /\ made' = [made EXCEPT ![2] = NoLibrary]
    BY SrunAssumption DEF SrunInv, Prepare
  <1>2. PICK verify \in BOOLEAN :
          prep' = [pc |-> "audit", pass |-> 1, at |-> 1, ok |-> FALSE, verify |-> verify]
    BY DEF Prepare
  <1>3. SrunTyped'
    <2>1. 1 \in 1..Len(SRUN_FILES)
      BY SrunFilesOrder
    <2>2. SrunTypes'
      BY <1>2, <2>1 DEF SrunTypes
    <2>. QED
      BY <1>1, <2>2, NoLibraryType DEF SrunTyped
  <1>4. made'[1] = made[1] /\ made'[2] = NoLibrary
    BY <1>1 DEF SrunTyped
  <1>5. \A p \in {1, 2} : Covered(made'[p])
    BY <1>4 DEF SrunInv, NoLibrary, Covered
  <1>6. prep'.pc = "audit" /\ prep'.pass = 1
    BY <1>2
  <1>7. Unlisted' /\ CopiedThere' /\ FirstMade' /\ OneSource'
    BY <1>6 DEF Unlisted, CopiedThere, Copied, FirstMade, OneSource, ThisPassClean
  <1>. QED
    BY <1>3, <1>5, <1>7 DEF SrunInv

\* The program ends without success, or goes on where nothing is copied yet.
LEMMA SrunFails ==
    ASSUME SrunInv, prep.pc # "ended", ExitWith(FALSE), source' = source, edits' = edits,
           made' \in [{1, 2} -> Libraries], \A p \in {1, 2} : Covered(made'[p])
    PROVE  SrunInv'
  <1>1. SrunTyped /\ 1 \in 1..Len(SRUN_FILES)
    BY SrunFilesOrder DEF SrunInv
  <1>2. SrunTypes' /\ prep'.pc = "ended" /\ ~prep'.ok
    BY <1>1 DEF SrunTyped, SrunTypes, ExitWith
  <1>3. SrunTyped'
    BY <1>1, <1>2 DEF SrunTyped
  <1>4. Unlisted' /\ CopiedThere' /\ FirstMade' /\ OneSource'
    BY <1>2 DEF Unlisted, CopiedThere, Copied, FirstMade, OneSource
  <1>. QED
    BY <1>3, <1>4 DEF SrunInv

\* The vendored tree is checked before anything is copied.
LEMMA AuditSourceStep == SrunInv /\ AuditSource => SrunInv'
  <1> SUFFICES ASSUME SrunInv, AuditSource PROVE SrunInv'
    OBVIOUS
  <1>1. /\ prep.pc = "audit" /\ source' = source /\ edits' = edits /\ made' = made
        /\ SrunTyped /\ (StepTo("remove") \/ ExitWith(FALSE))
    BY DEF SrunInv, AuditSource
  <1>2. CASE StepTo("remove")
    <2>1. prep' = [prep EXCEPT !.pc = "remove", !.at = 1]
      BY <1>2 DEF StepTo
    <2>2. /\ SrunTypes' /\ prep'.pc = "remove" /\ prep'.pass = prep.pass
      BY <1>1, <2>1, SrunFirst DEF SrunTyped, SrunTypes
    <2>3. SrunTyped' /\ \A p \in {1, 2} : Covered(made'[p])
      BY <1>1, <2>2 DEF SrunInv, SrunTyped
    <2>4. Unlisted' /\ CopiedThere' /\ FirstMade'
      BY <1>1, <2>2 DEF SrunInv, Unlisted, CopiedThere, Copied, FirstMade
    <2>5. OneSource'
      BY <1>1, <2>2 DEF SrunInv, OneSource, ThisPassClean, Copied, FirstIsTree
    <2>. QED
      BY <2>3, <2>4, <2>5 DEF SrunInv
  <1>3. CASE ExitWith(FALSE)
    BY <1>1, <1>3, SrunFails DEF SrunInv, SrunTyped
  <1>. QED
    BY <1>1, <1>2, <1>3

\* What is removed is not missed: the manifest goes whole, and no manifest
\* covers a file that is gone.
LEMMA RemoveOldStep == SrunInv /\ RemoveOld => SrunInv'
  <1> SUFFICES ASSUME SrunInv, RemoveOld PROVE SrunInv'
    OBVIOUS
  <1>. DEFINE p == prep.pass
              old == made[p]
  <1>1. /\ prep.pc = "remove" /\ p \in {1, 2} /\ source' = source /\ edits' = edits
        /\ SrunTyped /\ old \in Libraries
    BY DEF SrunInv, RemoveOld, SrunTyped, SrunTypes
  <1>2. CASE old = NoLibrary /\ StepTo("copy") /\ UNCHANGED made
    <2>1. prep' = [prep EXCEPT !.pc = "copy", !.at = 1]
      BY <1>2 DEF StepTo
    <2>2. /\ SrunTypes' /\ prep'.pc = "copy" /\ prep'.pass = p /\ prep'.at = 1
      BY <1>1, <2>1, SrunFirst DEF SrunTyped, SrunTypes
    <2>3. SrunTyped' /\ (\A q \in {1, 2} : Covered(made'[q])) /\ FirstMade'
      BY <1>1, <1>2, <2>2 DEF SrunInv, SrunTyped, FirstMade
    <2>4. Unlisted'
      BY <1>1, <1>2, <2>2 DEF Unlisted, NoLibrary
    <2>5. Copied' = {}
      BY <2>2 DEF Copied
    <2>6. CopiedThere' /\ OneSource'
      BY <1>1, <1>2, <2>2, <2>5
      DEF SrunInv, CopiedThere, OneSource, ThisPassClean, FirstIsTree
    <2>. QED
      BY <2>3, <2>4, <2>6 DEF SrunInv
  <1>3. ASSUME NEW new \in Libraries, made' = [made EXCEPT ![p] = new], prep' = prep,
               Covered(new)
        PROVE  SrunInv'
    <2>1. SrunTyped'
      BY <1>1, <1>3 DEF SrunTyped, SrunTypes
    <2>2. \A q \in {1, 2} : Covered(made'[q])
      BY <1>1, <1>3 DEF SrunInv, SrunTyped
    <2>3. p = 2 => made'[1] = made[1]
      BY <1>1, <1>3 DEF SrunTyped
    <2>4. Unlisted' /\ CopiedThere'
      BY <1>1, <1>3 DEF Unlisted, CopiedThere, Copied
    <2>5. FirstMade'
      BY <1>1, <1>3, <2>3 DEF SrunInv, FirstMade
    <2>6. OneSource'
      BY <1>1, <1>3, <2>3 DEF SrunInv, OneSource, ThisPassClean, Copied, FirstIsTree
    <2>. QED
      BY <2>1, <2>2, <2>4, <2>5, <2>6 DEF SrunInv
  <1>4. CASE made' = [made EXCEPT ![p].manifest = NoManifest] /\ UNCHANGED prep
    <2>. DEFINE new == [old EXCEPT !.manifest = NoManifest]
    <2>1. new \in Libraries /\ Covered(new)
      BY <1>1, NoLibraryType DEF Libraries, Covered
    <2>2. made' = [made EXCEPT ![p] = new]
      BY <1>1, <1>4
    <2>. QED
      BY <1>3, <1>4, <2>1, <2>2
  <1>5. ASSUME NEW f \in SrunFiles,
               made' = [made EXCEPT ![p].files[f] = NotThere], UNCHANGED prep
        PROVE  SrunInv'
    <2>. DEFINE left == [old.files EXCEPT ![f] = NotThere]
                new == [old EXCEPT !.files = left]
    <2>1. left \in [SrunFiles -> SrunContents]
      BY <1>1 DEF Libraries, SrunContents
    <2>2. \A g \in SrunFiles : left[g] \in {NotThere, old.files[g]}
      BY <1>1 DEF Libraries
    <2>3. made' = [made EXCEPT ![p] = new]
      BY <1>1, <1>5
    <2>. HIDE DEF left
    <2>4. new \in Libraries /\ new.files = left /\ new.manifest = old.manifest
      BY <1>1, <2>1 DEF Libraries
    <2>5. Covered(new)
      BY <1>1, <2>2, <2>4 DEF SrunInv, Covered
    <2>. QED
      BY <1>3, <1>5, <2>3, <2>4, <2>5
  <1>. QED
    BY <1>2, <1>4, <1>5 DEF RemoveOld

\* A file is copied, or is gone since the audit.
LEMMA CopyFileStep == SrunInv /\ CopyFile => SrunInv'
  <1> SUFFICES ASSUME SrunInv, CopyFile PROVE SrunInv'
    OBVIOUS
  <1>. DEFINE p == prep.pass
              old == made[p]
              n == Len(SRUN_FILES)
              f == SRUN_FILES[prep.at]
              after == [old.files EXCEPT ![f] = source.files[f]]
              new == [old EXCEPT !.files = after]
  <1>1. /\ prep.pc = "copy" /\ p \in {1, 2} /\ source' = source /\ edits' = edits
        /\ SrunTyped /\ old \in Libraries /\ prep.at \in 1..n /\ n \in Nat \ {0}
        /\ f \in SrunFiles /\ source \in SrunTrees
    BY SrunFilesOrder DEF SrunInv, CopyFile, SrunTyped, SrunTypes
  <1>2. CASE source.files[f] = NotThere
    <2>1. ExitWith(FALSE) /\ made' = made
      BY <1>2 DEF CopyFile
    <2>. QED
      BY <1>1, <2>1, SrunFails DEF SrunInv, SrunTyped
  <1>3. CASE source.files[f] # NotThere
    <2>1. /\ made' = [made EXCEPT ![p].files[f] = source.files[f]]
          /\ IF prep.at = n THEN StepTo("manifest") ELSE prep' = [prep EXCEPT !.at = @ + 1]
      BY <1>3 DEF CopyFile
    <2>2. made' = [made EXCEPT ![p] = new]
      BY <1>1, <2>1
    <2>3. after \in [SrunFiles -> SrunContents] /\ after[f] = source.files[f]
          /\ \A g \in SrunFiles \ {f} : after[g] = old.files[g]
      <3>1. source.files \in [SrunFiles -> SrunContents]
        BY <1>1, NoLibraryType
      <3>. QED
        BY <1>1, <3>1 DEF Libraries
    <2>. HIDE DEF after
    <2>4. new \in Libraries /\ new.files = after /\ new.manifest = old.manifest
      BY <1>1, <2>3 DEF Libraries
    <2>. HIDE DEF new
    <2>5. /\ made' \in [{1, 2} -> Libraries] /\ made'[p] = new
          /\ p = 2 => made'[1] = made[1]
          /\ \A q \in {1, 2} \ {p} : made'[q] = made[q]
      BY <1>1, <2>2, <2>4 DEF SrunTyped
    <2>6. /\ prep'.pc \in {"copy", "manifest"} /\ prep'.pass = p /\ SrunTypes'
          /\ prep'.pc = "copy" => prep'.at = prep.at + 1
          /\ prep'.pc = "manifest" => prep.at = n
      <3>1. CASE prep.at = n
        <4>1. prep' = [prep EXCEPT !.pc = "manifest", !.at = 1]
          BY <2>1, <3>1 DEF StepTo
        <4>2. 1 \in 1..n
          BY <1>1
        <4>. QED
          BY <1>1, <3>1, <4>1, <4>2 DEF SrunTyped, SrunTypes
      <3>2. CASE prep.at # n
        <4>1. prep' = [prep EXCEPT !.at = prep.at + 1]
          BY <2>1, <3>2
        <4>2. prep.at + 1 \in 1..n
          BY <1>1, <3>2
        <4>. QED
          BY <1>1, <4>1, <4>2 DEF SrunTyped, SrunTypes
      <3>. QED
        BY <3>1, <3>2
    <2>7. Copied' \subseteq Copied \cup {f}
      <3> SUFFICES ASSUME NEW g \in Copied', g # f PROVE g \in Copied
        OBVIOUS
      <3>1. g \in SrunFiles
        BY DEF Copied
      <3>2. CASE prep'.pc = "manifest"
        <4>1. PICK k \in 1..n : SRUN_FILES[k] = g
          BY <3>1, SrunFilesOrder
        <4>2. prep.at = n
          BY <2>6, <3>2
        <4>3. k # prep.at /\ k \in 1..(prep.at - 1)
          BY <1>1, <4>1, <4>2
        <4>. QED
          BY <1>1, <3>1, <4>1, <4>3 DEF Copied
      <3>3. CASE prep'.pc = "copy"
        <4>1. prep'.at = prep.at + 1
          BY <2>6, <3>3
        <4>2. PICK k \in 1..(prep'.at - 1) : SRUN_FILES[k] = g
          BY <3>3 DEF Copied
        <4>3. k # prep.at /\ k \in 1..(prep.at - 1)
          BY <1>1, <4>1, <4>2
        <4>. QED
          BY <1>1, <3>1, <4>2, <4>3 DEF Copied
      <3>. QED
        BY <2>6, <3>2, <3>3
    <2>8. \A g \in Copied' : g = f \/ (g \in Copied /\ g \in SrunFiles /\ g # f)
      BY <2>7 DEF Copied
    <2>9. SrunTyped'
      BY <1>1, <2>5, <2>6 DEF SrunTyped
    <2>10. new.manifest = NoManifest
      BY <1>1, <2>4 DEF SrunInv, Unlisted
    <2>11. Unlisted' /\ \A q \in {1, 2} : Covered(made'[q])
      BY <2>5, <2>6, <2>10 DEF SrunInv, Unlisted, Covered
    <2>12. CopiedThere'
      BY <1>3, <2>3, <2>4, <2>5, <2>6, <2>8 DEF SrunInv, CopiedThere
    <2>13. FirstMade'
      BY <1>1, <2>5, <2>6 DEF SrunInv, FirstMade
    <2>14. ThisPassClean => ThisPassClean'
      BY <1>1, <2>3, <2>4, <2>5, <2>6, <2>8 DEF ThisPassClean
    <2>15. p = 2 /\ FirstIsTree => FirstIsTree'
      BY <2>5 DEF FirstIsTree
    <2>16. OneSource'
      BY <1>1, <2>5, <2>6, <2>14, <2>15 DEF SrunInv, OneSource
    <2>. QED
      BY <2>9, <2>11, <2>12, <2>13, <2>16 DEF SrunInv
  <1>. QED
    BY <1>2, <1>3

\* The manifest of a pass: the first pass may be followed by the second, the
\* second only compares.
LEMMA WriteManifestStep == SrunInv /\ WriteManifest => SrunInv'
  <1> SUFFICES ASSUME SrunInv, WriteManifest PROVE SrunInv'
    OBVIOUS
  <1>. DEFINE p == prep.pass
              old == made[p]
              new == [old EXCEPT !.manifest = old.files]
  <1>1. /\ prep.pc = "manifest" /\ p \in {1, 2} /\ source' = source /\ edits' = edits
        /\ SrunTyped /\ old \in Libraries /\ source \in SrunTrees /\ edits \in Nat
        /\ Copied = SrunFiles
    BY SrunAssumption DEF SrunInv, WriteManifest, SrunTyped, SrunTypes, Copied
  <1>2. /\ made' = [made EXCEPT ![p] = new]
        /\ new \in Libraries /\ new.files = old.files /\ new.manifest = old.files
    <2>1. made' = [made EXCEPT ![p].manifest = made[p].files]
      BY DEF WriteManifest
    <2>. QED
      BY <1>1, <2>1 DEF Libraries, SrunTyped
  <1>. HIDE DEF new
  <1>3. /\ made' \in [{1, 2} -> Libraries] /\ made'[p] = new
        /\ p = 2 => made'[1] = made[1]
        /\ \A q \in {1, 2} \ {p} : made'[q] = made[q]
    BY <1>1, <1>2 DEF SrunTyped
  <1>4. \A q \in {1, 2} : Covered(made'[q])
    BY <1>1, <1>2, <1>3 DEF SrunInv, Covered
  <1>5. \A f \in SrunFiles : old.files[f] # NotThere
    BY <1>1 DEF SrunInv, CopiedThere
  <1>6. ThisPassClean => old.files = source.files
    <2>1. source.files \in [SrunFiles -> SrunContents] /\ old.files \in [SrunFiles -> SrunContents]
      BY <1>1, NoLibraryType DEF Libraries
    <2>. QED
      BY <1>1, <2>1 DEF ThisPassClean
  <1>7. CASE prep.verify /\ p = 1
    <2>1. prep' = [prep EXCEPT !.pc = "audit", !.pass = 2, !.at = 1]
      BY <1>7 DEF WriteManifest
    <2>2. /\ SrunTypes' /\ prep'.pc = "audit" /\ prep'.pass = 2
      BY <1>1, <2>1, SrunFirst DEF SrunTyped, SrunTypes
    <2>3. SrunTyped'
      BY <1>1, <1>3, <2>2 DEF SrunTyped
    <2>4. Unlisted' /\ Copied' = {}
      BY <2>2 DEF Unlisted, Copied
    <2>5. CopiedThere' /\ ThisPassClean'
      BY <2>4 DEF CopiedThere, ThisPassClean
    <2>6. FirstMade'
      BY <1>2, <1>3, <1>5, <1>7 DEF FirstMade
    <2>7. edits = 0 => made'[1].files = source.files
      BY <1>1, <1>2, <1>3, <1>6, <1>7 DEF SrunInv, OneSource
    <2>8. OneSource'
      BY <1>1, <2>2, <2>5, <2>7 DEF OneSource
    <2>. QED
      BY <1>4, <2>3, <2>4, <2>5, <2>6, <2>8 DEF SrunInv
  <1>8. CASE ~(prep.verify /\ p = 1)
    <2>. DEFINE same == p = 2 => made[1].manifest = made[2].files
    <2>1. same \in BOOLEAN
      BY Zenon
    <2>2. ExitWith(same)
      BY <1>8 DEF WriteManifest
    <2>. HIDE DEF same
    <2>3. prep' = [prep EXCEPT !.pc = "ended", !.at = 1, !.ok = same]
      BY <2>2 DEF ExitWith
    <2>4. /\ SrunTypes' /\ prep'.pc = "ended" /\ prep'.pass = p /\ prep'.ok = same
          /\ prep'.verify = prep.verify
      BY <1>1, <2>1, <2>3, SrunFirst DEF SrunTyped, SrunTypes
    <2>5. SrunTyped' /\ Unlisted' /\ CopiedThere'
      BY <1>1, <1>3, <2>4 DEF SrunTyped, Unlisted, CopiedThere, Copied
    <2>6. FirstMade'
      <3>1. CASE p = 1
        BY <1>2, <1>3, <1>5, <3>1 DEF FirstMade
      <3>2. CASE p = 2
        BY <1>1, <1>3, <3>2 DEF SrunInv, FirstMade
      <3>. QED
        BY <1>1, <3>1, <3>2
    <2>7. ASSUME prep'.ok, prep.verify, edits <= 1 PROVE FirstIsTree'
      <3>1. p = 2 /\ made'[1] = made[1]
        BY <1>1, <1>3, <1>8, <2>7
      <3>2. made[1].manifest = made[2].files
        BY <2>4, <2>7, <3>1 DEF same
      <3>3. made[1].files = old.files
        BY <1>1, <3>1, <3>2 DEF SrunInv, FirstMade
      <3>4. FirstIsTree \/ ThisPassClean
        BY <1>1, <2>7, <3>1 DEF SrunInv, OneSource
      <3>5. CASE FirstIsTree
        BY <3>1, <3>5 DEF FirstIsTree
      <3>6. CASE ThisPassClean
        BY <1>1, <1>6, <3>1, <3>3, <3>6 DEF FirstIsTree
      <3>. QED
        BY <3>4, <3>5, <3>6
    <2>8. OneSource'
      BY <1>1, <2>4, <2>7 DEF OneSource
    <2>. QED
      BY <1>4, <2>5, <2>6, <2>8 DEF SrunInv
  <1>. QED
    BY <1>7, <1>8

\* A killed program leaves at worst a torn manifest.
LEMMA KillPrepareStep == SrunInv /\ KillPrepare => SrunInv'
  <1> SUFFICES ASSUME SrunInv, KillPrepare PROVE SrunInv'
    OBVIOUS
  <1>. DEFINE p == prep.pass
              new == [made[p] EXCEPT !.manifest = TornManifest]
  <1>1. /\ prep.pc # "ended" /\ ExitWith(FALSE) /\ source' = source /\ edits' = edits
        /\ p \in {1, 2} /\ SrunTyped
        /\ made' = made \/ made' = [made EXCEPT ![p].manifest = TornManifest]
    BY DEF SrunInv, KillPrepare, SrunTyped, SrunTypes
  <1>2. CASE made' = made
    BY <1>1, <1>2, SrunFails DEF SrunInv, SrunTyped
  <1>3. CASE made' = [made EXCEPT ![p].manifest = TornManifest]
    <2>1. made' = [made EXCEPT ![p] = new]
      BY <1>3
    <2>2. new \in Libraries /\ Covered(new)
      BY <1>1, NoLibraryType DEF Libraries, Covered, SrunTyped
    <2>. HIDE DEF new
    <2>3. made' \in [{1, 2} -> Libraries] /\ \A q \in {1, 2} : Covered(made'[q])
      BY <1>1, <2>1, <2>2 DEF SrunInv, SrunTyped
    <2>. QED
      BY <1>1, <2>3, SrunFails
  <1>. QED
    BY <1>1, <1>2, <1>3

\* Every step keeps the invariant.
LEMMA SrunNextStep == SrunInv /\ [SrunNext]_srunVars => SrunInv'
  <1>1. SrunInv /\ UNCHANGED srunVars => SrunInv'
    BY DEF SrunInv, srunVars, SrunTyped, SrunTypes, Unlisted, Covered, CopiedThere, Copied,
           FirstMade, OneSource, ThisPassClean, FirstIsTree
  <1>. QED
    BY <1>1, EditSourceStep, PrepareStep, AuditSourceStep, RemoveOldStep, CopyFileStep,
       WriteManifestStep, KillPrepareStep DEF SrunNext

\* SrunInv is an inductive invariant of the maker of the library.
THEOREM SrunInductive == SrunSpec => []SrunInv
  BY SrunInitInv, SrunNextStep, PTL DEF SrunSpec

\* For any inventory and any trees: a run that reports success has listed every
\* file as it is; verified, and with one edit at most, the library is one
\* tree; and no kill leaves files under the manifest of others.
THEOREM SrunIsExact == SrunSpec => []SrunExact
<1>1. SrunInv => SrunExact
  BY DEF SrunInv, FirstMade, OneSource, FirstIsTree, Covered, SrunExact
<1>. QED
  BY <1>1, SrunInductive, PTL

\* The variables of the maker have their types.
THEOREM SrunTypesHold == SrunSpec => []SrunTypeOK
<1>1. SrunInv => SrunTypeOK
  BY DEF SrunInv, SrunTyped, SrunTypes, Libraries, SrunTypeOK
<1>. QED
  BY <1>1, SrunInductive, PTL


(* The 22H frame (FrameFormat). *)

Bytes == 0..255

\* Every nonempty set of numbers has a least one: what follows for all numbers
\* is shown of the least one for which it fails.
LEMMA LeastOf ==
    ASSUME NEW T \in SUBSET Nat, T # {}
    PROVE  \E x \in T : \A y \in T : x <= y
  <1>1. OpToRel(<, Nat) = {ss \in Nat \X Nat : ss[1] < ss[2]}
    BY DEF OpToRel
  <1>2. \E x \in T : \A y \in T : ~(<<y, x>> \in OpToRel(<, Nat))
    BY NatLessThanWellFounded, WFMin
  <1>3. PICK x \in T : \A y \in T : ~(<<y, x>> \in OpToRel(<, Nat))
    BY <1>2
  <1>4. ASSUME NEW y \in T PROVE x <= y
    <2>1. ~(y < x)
      BY <1>1, <1>3
    <2>. QED
      BY <2>1
  <1>. QED
    BY <1>4

\* A set that holds 0 and with each number below n the next one holds n.
LEMMA StepByStep ==
    ASSUME NEW n \in Nat, NEW U, 0 \in U,
           \A m \in Nat : m < n /\ m \in U => m + 1 \in U
    PROVE  n \in U
  <1> SUFFICES ASSUME n \notin U PROVE FALSE
    OBVIOUS
  <1>. DEFINE T == {m \in Nat : m <= n /\ m \notin U}
  <1>1. T \in SUBSET Nat /\ n \in T
    OBVIOUS
  <1>2. PICK x \in T : \A y \in T : x <= y
    BY <1>1, LeastOf
  <1>3. x \in Nat /\ x <= n /\ x \notin U /\ x # 0
    BY <1>2
  <1>4. x - 1 \in Nat /\ x - 1 < n /\ (x - 1) + 1 = x /\ ~(x <= x - 1)
    BY <1>3
  <1>5. x - 1 \in U
    BY <1>2, <1>4
  <1>. QED
    BY <1>3, <1>4, <1>5

\* The sum in a byte, after each of the bytes.
SumsTo(b, g, m) == g[0] = 0 /\ \A k \in 1..m : g[k] = (g[k - 1] + b[k]) % 256

\* What a byte is.
LEMMA BytesOf ==
    ASSUME NEW b \in Seq(Bytes)
    PROVE  Len(b) \in Nat /\ \A k \in 1..Len(b) : b[k] \in Bytes
  BY ElementOfSeq, LenProperties

\* A remainder by 256 is a byte.
LEMMA ModByte ==
    ASSUME NEW x \in Bytes, NEW y \in Bytes
    PROVE  (x + y) % 256 \in Bytes
  BY DEF Bytes

\* There is a function that sums as Sum256 does.
LEMMA SumExists ==
    ASSUME NEW b \in Seq(Bytes)
    PROVE  \E g \in [0..Len(b) -> Bytes] : SumsTo(b, g, Len(b))
  <1> DEFINE n == Len(b)
             Has(m) == \E g \in [0..m -> Bytes] : SumsTo(b, g, m)
             U == {m \in Nat : Has(m)}
  <1>1. n \in Nat /\ \A k \in 1..n : b[k] \in Bytes
    BY BytesOf
  <1>. HIDE DEF n
  <1>2. Has(0)
    <2>1. [i \in 0..0 |-> 0] \in [0..0 -> Bytes] /\ SumsTo(b, [i \in 0..0 |-> 0], 0)
      BY DEF SumsTo, Bytes
    <2>. QED
      BY <2>1
  <1>3. ASSUME NEW m \in Nat, m < n, Has(m) PROVE Has(m + 1)
    <2>1. PICK g \in [0..m -> Bytes] : SumsTo(b, g, m)
      BY <1>3
    <2>. DEFINE last == (g[m] + b[m + 1]) % 256
                h == [k \in 0..(m + 1) |-> IF k = m + 1 THEN last ELSE g[k]]
    <2>2. g[m] \in Bytes /\ b[m + 1] \in Bytes
      BY <1>1, <1>3
    <2>3. last \in Bytes
      BY <2>2, ModByte
    <2>4. h[m] = g[m] /\ h[m + 1] = last /\ h[0] = g[0]
      OBVIOUS
    <2>. HIDE DEF last
    <2>5. h \in [0..(m + 1) -> Bytes] /\ \A k \in 0..m : h[k] = g[k]
      BY <2>3
    <2>. HIDE DEF h
    <2>6. ASSUME NEW k \in 1..(m + 1) PROVE h[k] = (h[k - 1] + b[k]) % 256
      <3>1. CASE k = m + 1
        BY <2>4, <3>1 DEF last
      <3>2. CASE k # m + 1
        <4>1. k \in 1..m /\ k \in 0..m /\ k - 1 \in 0..m
          BY <3>2
        <4>. QED
          BY <2>1, <2>5, <4>1 DEF SumsTo
      <3>. QED
        BY <3>1, <3>2
    <2>7. SumsTo(b, h, m + 1)
      BY <2>1, <2>4, <2>6 DEF SumsTo
    <2>. QED
      BY <2>5, <2>7
  <1>. HIDE DEF Has
  <1>4. 0 \in U /\ \A m \in Nat : m < n /\ m \in U => m + 1 \in U
    BY <1>2, <1>3
  <1>. HIDE DEF U
  <1>5. n \in U
    BY <1>1, <1>4, StepByStep
  <1>. QED
    BY <1>5 DEF Has, n, U

\* Sum256 is the last of the sums.
LEMMA SumOf ==
    ASSUME NEW b \in Seq(Bytes)
    PROVE  \E g \in [0..Len(b) -> Bytes] : SumsTo(b, g, Len(b)) /\ Sum256(b) = g[Len(b)]
  <1> DEFINE n == Len(b)
             sum[k \in 0..Len(b)] == IF k = 0 THEN 0 ELSE (sum[k - 1] + b[k]) % 256
  <1>1. n \in Nat /\ \A k \in 1..n : b[k] \in Bytes
    BY BytesOf
  <1>2. PICK g \in [0..n -> Bytes] : SumsTo(b, g, n)
    BY SumExists
  <1>. DEFINE G == [k \in 0..n |-> IF k = 0 THEN 0 ELSE (g[k - 1] + b[k]) % 256]
  <1>3. ASSUME NEW k \in 0..n PROVE g[k] = G[k]
    <2>1. k # 0 => k \in 1..n
      BY <1>1
    <2>. QED
      BY <1>2, <2>1 DEF SumsTo
  <1>4. g = G
    BY <1>3
  <1>5. sum = [k \in 0..n |-> IF k = 0 THEN 0 ELSE (sum[k - 1] + b[k]) % 256]
    BY <1>4
  <1>6. Sum256(b) = sum[n]
    BY DEF Sum256
  <1>. HIDE DEF sum, G
  <1>7. sum[0] = 0 /\ \A k \in 1..n : sum[k] = (sum[k - 1] + b[k]) % 256
    <2>1. 0 \in 0..n /\ \A k \in 1..n : k \in 0..n /\ k # 0
      BY <1>1
    <2>. HIDE DEF n
    <2>. QED
      BY <1>5, <2>1
  <1>8. ASSUME NEW m \in Nat, m < n, sum[m] = g[m] PROVE sum[m + 1] = g[m + 1]
    <2>1. m + 1 \in 1..n /\ (m + 1) - 1 = m
      BY <1>1, <1>8
    <2>. QED
      BY <1>2, <1>7, <1>8, <2>1 DEF SumsTo
  <1>. DEFINE U == {m \in Nat : sum[m] = g[m]}
  <1>9. 0 \in U /\ \A m \in Nat : m < n /\ m \in U => m + 1 \in U
    BY <1>2, <1>7, <1>8 DEF SumsTo
  <1>10. n \in U
    <2>. HIDE DEF n, U
    <2>. QED
      BY <1>1, <1>9, StepByStep
  <1>. QED
    BY <1>2, <1>6, <1>10

\* A checksum is a byte.
LEMMA SumType == \A b \in Seq(Bytes) : Sum256(b) \in Bytes
  <1> SUFFICES ASSUME NEW b \in Seq(Bytes) PROVE Sum256(b) \in Bytes
    OBVIOUS
  <1>1. PICK g \in [0..Len(b) -> Bytes] : Sum256(b) = g[Len(b)]
    BY SumOf
  <1>2. Len(b) \in 0..Len(b)
    BY BytesOf
  <1>. QED
    BY <1>1, <1>2

\* The remainder of two bytes' sum.
LEMMA ModIs ==
    ASSUME NEW z \in 0..511
    PROVE  z % 256 = IF z < 256 THEN z ELSE z - 256
  <1>1. \A y \in 0..511 : y < 256 => y % 256 = y
    OBVIOUS
  <1>2. \A y \in 0..511 : y >= 256 => y % 256 = y - 256
    OBVIOUS
  <1>. QED
    BY <1>1, <1>2

\* Different sums stay different when the same byte is added to them.
LEMMA SumsDiffer ==
    ASSUME NEW x \in Bytes, NEW y \in Bytes, NEW c \in Bytes, x # y
    PROVE  (x + c) % 256 # (y + c) % 256
  <1>1. PICK u \in 0..511 : u = x + c
    BY DEF Bytes
  <1>2. PICK v \in 0..511 : v = y + c
    BY DEF Bytes
  <1>3. u # v /\ u - v \in -255..255
    BY <1>1, <1>2 DEF Bytes
  <1>4. u % 256 = (IF u < 256 THEN u ELSE u - 256) /\ v % 256 = (IF v < 256 THEN v ELSE v - 256)
    BY ModIs
  <1>5. u % 256 # v % 256
    BY <1>3, <1>4
  <1>. QED
    BY <1>1, <1>2, <1>5

\* Bytes that differ in one place have different sums.
LEMMA OneByteTells ==
    ASSUME NEW b \in Seq(Bytes), NEW c \in Seq(Bytes), Len(b) = Len(c),
           NEW k \in 1..Len(b), b[k] # c[k], \A i \in 1..Len(b) : i # k => b[i] = c[i]
    PROVE  Sum256(b) # Sum256(c)
  <1>. DEFINE n == Len(b)
  <1>1. n \in Nat /\ \A i \in 1..n : b[i] \in Bytes /\ c[i] \in Bytes
    BY BytesOf
  <1>2. PICK g \in [0..n -> Bytes] : SumsTo(b, g, n) /\ Sum256(b) = g[n]
    BY SumOf
  <1>3. PICK h \in [0..n -> Bytes] : SumsTo(c, h, n) /\ Sum256(c) = h[n]
    BY SumOf
  <1>. DEFINE U == {m \in Nat : m <= n => (m < k => g[m] = h[m]) /\ (m >= k => g[m] # h[m])}
  <1>4. 0 \in U
    BY <1>2, <1>3 DEF SumsTo
  <1>5. ASSUME NEW m \in Nat, m < n, m \in U PROVE m + 1 \in U
    <2>1. m + 1 \in 1..n /\ (m + 1) - 1 = m /\ m \in 0..n
      BY <1>1, <1>5
    <2>2. g[m] \in Bytes /\ h[m] \in Bytes /\ b[m + 1] \in Bytes /\ c[m + 1] \in Bytes
      BY <1>1, <2>1
    <2>3. g[m + 1] = (g[m] + b[m + 1]) % 256 /\ h[m + 1] = (h[m] + c[m + 1]) % 256
      BY <1>2, <1>3, <2>1 DEF SumsTo
    <2>4. CASE m + 1 < k
      <3>1. g[m] = h[m] /\ b[m + 1] = c[m + 1]
        BY <1>5, <2>1, <2>4
      <3>. QED
        BY <2>3, <2>4, <3>1
    <2>5. CASE m + 1 = k
      <3>1. g[m] = h[m] /\ b[m + 1] # c[m + 1]
        BY <1>5, <2>1, <2>5
      <3>2. (b[m + 1] + g[m]) % 256 # (c[m + 1] + g[m]) % 256
        BY <2>2, <3>1, SumsDiffer
      <3>5. b[m + 1] \in Int /\ c[m + 1] \in Int /\ g[m] \in Int
        <4>1. \A x \in Bytes : x \in Int
          BY DEF Bytes
        <4>. QED
          BY <2>2, <4>1
      <3>3. b[m + 1] + g[m] = g[m] + b[m + 1] /\ c[m + 1] + g[m] = g[m] + c[m + 1]
        <4>1. \A x, y \in Int : x + y = y + x
          OBVIOUS
        <4>. QED
          BY <3>5, <4>1
      <3>4. g[m + 1] # h[m + 1]
        BY <2>3, <3>1, <3>2, <3>3
      <3>. QED
        BY <2>5, <3>4
    <2>6. CASE m + 1 > k
      <3>1. g[m] # h[m] /\ b[m + 1] = c[m + 1]
        BY <1>5, <2>1, <2>6
      <3>2. g[m + 1] # h[m + 1]
        BY <2>2, <2>3, <3>1, SumsDiffer
      <3>. QED
        BY <2>6, <3>2
    <2>. QED
      BY <2>4, <2>5, <2>6
  <1>. HIDE DEF n
  <1>6. n \in U
    BY <1>1, <1>4, <1>5, StepByStep
  <1>7. n >= k
    BY <1>1 DEF n
  <1>. QED
    BY <1>2, <1>3, <1>6, <1>7

\* So have bytes and what is left of them when the first, which is not zero, is
\* lost.
LEMMA FirstByteTells ==
    ASSUME NEW b \in Seq(Bytes), NEW c \in Seq(Bytes), Len(b) = Len(c) + 1, b[1] # 0,
           \A i \in 1..Len(c) : c[i] = b[i + 1]
    PROVE  Sum256(b) # Sum256(c)
  <1>. DEFINE n == Len(c)
  <1>1. n \in Nat /\ n + 1 \in Nat /\ \A i \in 1..n : c[i] \in Bytes
    BY BytesOf
  <1>2. PICK g \in [0..(n + 1) -> Bytes] : SumsTo(b, g, n + 1) /\ Sum256(b) = g[n + 1]
    BY SumOf
  <1>3. PICK h \in [0..n -> Bytes] : SumsTo(c, h, n) /\ Sum256(c) = h[n]
    BY SumOf
  <1>. DEFINE U == {m \in Nat : m <= n => g[m + 1] # h[m]}
  <1>4. 0 \in U
    <2>1. 1 \in 1..(n + 1) /\ 1 \in 1..Len(b)
      BY <1>1
    <2>2. b[1] \in Bytes
      BY <2>1, BytesOf
    <2>3. g[1] = (g[0] + b[1]) % 256 /\ g[0] = 0 /\ h[0] = 0
      BY <1>2, <1>3, <2>1 DEF SumsTo
    <2>4. (0 + b[1]) % 256 # 0
      <3>1. \A z \in 0..255 : z # 0 => 0 + z \in 0..511 /\ 0 + z # 0 /\ 0 + z < 256
        OBVIOUS
      <3>2. 0 + b[1] \in 0..511 /\ 0 + b[1] # 0 /\ 0 + b[1] < 256
        BY <2>2, <3>1 DEF Bytes
      <3>. QED
        BY <3>2, ModIs
    <2>. QED
      BY <2>3, <2>4
  <1>5. ASSUME NEW m \in Nat, m < n, m \in U PROVE m + 1 \in U
    <2>1. /\ m + 1 \in 1..n /\ (m + 1) - 1 = m /\ m \in 0..n /\ (m + 1) + 1 \in 1..(n + 1)
          /\ ((m + 1) + 1) - 1 = m + 1 /\ m + 1 \in 0..(n + 1)
      BY <1>1, <1>5
    <2>2. g[m + 1] \in Bytes /\ h[m] \in Bytes /\ c[m + 1] \in Bytes /\ g[m + 1] # h[m]
      BY <1>1, <1>5, <2>1
    <2>3. /\ g[(m + 1) + 1] = (g[m + 1] + b[(m + 1) + 1]) % 256
          /\ h[m + 1] = (h[m] + c[m + 1]) % 256
      BY <1>2, <1>3, <2>1 DEF SumsTo
    <2>4. b[(m + 1) + 1] = c[m + 1]
      BY <2>1
    <2>5. g[(m + 1) + 1] # h[m + 1]
      BY <2>2, <2>3, <2>4, SumsDiffer
    <2>. QED
      BY <2>5
  <1>. HIDE DEF n
  <1>6. n \in U
    BY <1>1, <1>4, <1>5, StepByStep
  <1>. QED
    BY <1>1, <1>2, <1>3, <1>6 DEF n

\* An accepted frame, at an address a frame is sent to.
Sent(f) == StudioAccepts(f) /\ f[4] \in {0, 1}

FrameInv ==
    /\ frame \in Seq(Bytes) /\ errors \in 0..MaxErrors
    /\ errors = 0 => Sent(frame)
    /\ errors = 1 => ~StudioAccepts(frame)

\* A byte is a number from 0 to 255.
LEMMA ByteInt == \A c \in Bytes : c \in Int /\ c >= 0 /\ c <= 255
  BY DEF Bytes

\* A length in its two bytes.
LEMMA TwoBytes ==
    ASSUME NEW n \in Int, n >= 0, n <= 65535
    PROVE  n % 256 \in Bytes /\ n \div 256 \in Bytes /\ (n % 256) + 256 * (n \div 256) = n
  <1>. DEFINE q == n \div 256
              r == n % 256
  <1>1. q \in Int
    OBVIOUS
  <1>2. r \in Int /\ r >= 0 /\ r <= 255
    OBVIOUS
  <1>3. n = 256 * q + r
    OBVIOUS
  <1>. HIDE DEF q, r
  <1>4. q >= 0
    BY <1>1, <1>2, <1>3
  <1>5. q <= 255
    BY <1>1, <1>2, <1>3
  <1>6. r + 256 * q = n
    BY <1>1, <1>2, <1>3
  <1>7. q \in Bytes
    BY <1>1, <1>4, <1>5 DEF Bytes
  <1>8. r \in Bytes
    BY <1>2 DEF Bytes
  <1>. QED
    BY <1>6, <1>7, <1>8 DEF q, r

\* One piece after the other.
LEMMA PiecesOf ==
    ASSUME NEW s \in Seq(Bytes), NEW t \in Seq(Bytes), NEW i \in Nat, NEW j \in Nat,
           Len(s) = i, Len(t) = j
    PROVE  /\ s \o t \in Seq(Bytes) /\ Len(s \o t) = i + j
           /\ \A k \in 1..i : (s \o t)[k] = s[k]
           /\ \A k \in 1..j : (s \o t)[k + i] = t[k]
  <1>1. /\ s \o t \in Seq(Bytes) /\ Len(s \o t) = Len(s) + Len(t)
        /\ \A k \in 1..(Len(s) + Len(t)) :
             (s \o t)[k] = IF k <= Len(s) THEN s[k] ELSE t[k - Len(s)]
    BY ConcatProperties
  <1>2. \A k \in 1..(i + j) : (s \o t)[k] = IF k <= i THEN s[k] ELSE t[k - i]
    BY <1>1
  <1>3. \A k \in 1..i : k \in 1..(i + j) /\ k <= i
    OBVIOUS
  <1>4. \A k \in 1..j : k + i \in 1..(i + j) /\ ~(k + i <= i) /\ (k + i) - i = k
    OBVIOUS
  <1>. QED
    BY <1>1, <1>2, <1>3, <1>4

\* Two pieces of a sequence in a row, place by place.
LEMMA TwoPieces ==
    ASSUME NEW s \in Seq(Bytes), NEW t \in Seq(Bytes)
    PROVE  /\ s \o t \in Seq(Bytes) /\ Len(s \o t) = Len(s) + Len(t)
           /\ \A k \in 1..Len(s) : (s \o t)[k] = s[k]
           /\ \A k \in 1..Len(t) : (s \o t)[k + Len(s)] = t[k]
  <1>1. Len(s) \in Nat /\ Len(t) \in Nat
    BY BytesOf
  <1>. QED
    BY <1>1, PiecesOf

\* Address and AFN before the data.
LEMMA BodyOf ==
    ASSUME NEW d \in Seq(Bytes), NEW p \in Seq(Bytes), Len(p) = 2
    PROVE  /\ p \o d \in Seq(Bytes) /\ Len(p \o d) = Len(d) + 2
           /\ (p \o d)[1] = p[1] /\ (p \o d)[2] = p[2]
  <1>1. Len(d) \in Nat /\ 2 \in Nat
    BY LenProperties
  <1>2. /\ p \o d \in Seq(Bytes) /\ Len(p \o d) = 2 + Len(d)
        /\ \A k \in 1..(2 + Len(d)) : (p \o d)[k] = IF k <= 2 THEN p[k] ELSE d[k - 2]
    <2>1. /\ p \o d \in Seq(Bytes) /\ Len(p \o d) = Len(p) + Len(d)
          /\ \A k \in 1..(Len(p) + Len(d)) :
               (p \o d)[k] = IF k <= Len(p) THEN p[k] ELSE d[k - Len(p)]
      BY ConcatProperties
    <2>. QED
      BY <2>1
  <1>3. 1 \in 1..(2 + Len(d)) /\ 2 \in 1..(2 + Len(d)) /\ 2 + Len(d) = Len(d) + 2
    BY <1>1
  <1>. QED
    BY <1>2, <1>3

\* What the module sends is a frame.
LEMMA MadeIsSent ==
    ASSUME NEW m \in 0..(MaxFrame - MinFrame), NEW data \in [1..m -> DataBytes],
           NEW addr \in {0, 1}
    PROVE  MakeFrame(addr, data) \in Seq(Bytes) /\ Sent(MakeFrame(addr, data))
  <1>. DEFINE n == m + 7
              A == <<Header, n % 256, n \div 256>>
              H == <<addr, Afn>>
              B == H \o data
              C == <<Sum256(B), Tailer>>
              f == (A \o B) \o C
  <1>1. /\ m \in Nat /\ n \in Int /\ n >= 7 /\ n <= MaxFrame /\ MaxFrame \in Int
        /\ MaxFrame <= 65535
    <2>1. MinFrame = 7 /\ MaxFrame \in Nat /\ MaxFrame < 65536
      BY FrameAssumption DEF MinFrame
    <2>2. m \in Nat /\ m <= MaxFrame - 7
      BY <2>1
    <2>. QED
      BY <2>1, <2>2
  <1>2. data \in Seq(Bytes) /\ Len(data) = m
    <2>1. data \in [1..m -> Bytes]
      <3>1. DataBytes \subseteq Bytes
        BY FrameAssumption DEF Bytes
      <3>. QED
        BY <3>1
    <2>2. data \in Seq(Bytes)
      BY <1>1, <2>1, SeqDef
    <2>3. DOMAIN data = 1..Len(data) /\ DOMAIN data = 1..m /\ Len(data) \in Nat
      BY <2>1, <2>2, LenProperties
    <2>. QED
      BY <1>1, <2>2, <2>3
  <1>3. n % 256 \in Bytes /\ n \div 256 \in Bytes /\ (n % 256) + 256 * (n \div 256) = n
    <2>1. n >= 0 /\ n <= 65535
      BY <1>1
    <2>. HIDE DEF n
    <2>. QED
      BY <1>1, <2>1, TwoBytes
  <1>4. Header \in Bytes /\ Afn \in Bytes /\ Tailer \in Bytes /\ addr \in Bytes
    BY DEF Header, Afn, Tailer, Bytes
  <1>5. /\ A \in Seq(Bytes) /\ Len(A) = 3 /\ A[1] = Header /\ A[2] = n % 256
        /\ A[3] = n \div 256
    <2>. DEFINE lo == n % 256
                hi == n \div 256
    <2>. HIDE DEF lo, hi
    <2>1. <<Header, lo, hi>> \in Seq(Bytes) /\ Len(<<Header, lo, hi>>) = 3
      BY <1>3, <1>4 DEF lo, hi
    <2>. QED
      BY <2>1 DEF lo, hi
  <1>6. H \in Seq(Bytes) /\ Len(H) = 2 /\ H[1] = addr /\ H[2] = Afn
    BY <1>4
  <1>. HIDE DEF n, A, H
  <1>7. /\ B \in Seq(Bytes) /\ Len(B) = m + 2 /\ B[1] = addr /\ B[2] = Afn
    <2>1. H \in Seq(Bytes) /\ Len(H) = 2 /\ data \in Seq(Bytes)
      BY <1>2, <1>6
    <2>2. /\ H \o data \in Seq(Bytes) /\ Len(H \o data) = Len(data) + 2
          /\ (H \o data)[1] = H[1] /\ (H \o data)[2] = H[2]
      BY <2>1, BodyOf
    <2>. QED
      BY <1>2, <1>6, <2>2
  <1>8. MakeFrame(addr, data) = f
    BY <1>2 DEF MakeFrame, MinFrame, n, A, H
  <1>. HIDE DEF B
  <1>9. Sum256(B) \in Bytes
    BY <1>7, SumType
  <1>10. C \in Seq(Bytes) /\ Len(C) = 2 /\ C[1] = Sum256(B) /\ C[2] = Tailer
    BY <1>4, <1>9
  <1>. HIDE DEF C
  <1>11. /\ A \o B \in Seq(Bytes) /\ Len(A \o B) = m + 5
         /\ \A i \in 1..3 : (A \o B)[i] = A[i]
         /\ \A i \in 1..(m + 2) : (A \o B)[i + 3] = B[i]
    <2>1. /\ A \o B \in Seq(Bytes) /\ Len(A \o B) = 3 + (m + 2)
          /\ \A i \in 1..3 : (A \o B)[i] = A[i]
          /\ \A i \in 1..(m + 2) : (A \o B)[i + 3] = B[i]
      <3>1. A \in Seq(Bytes) /\ B \in Seq(Bytes) /\ Len(A) = 3 /\ Len(B) = m + 2
        BY <1>5, <1>7
      <3>2. /\ A \o B \in Seq(Bytes) /\ Len(A \o B) = Len(A) + Len(B)
            /\ \A k \in 1..Len(A) : (A \o B)[k] = A[k]
            /\ \A k \in 1..Len(B) : (A \o B)[k + Len(A)] = B[k]
        BY <3>1, TwoPieces
      <3>. QED
        BY <3>1, <3>2
    <2>2. 3 + (m + 2) = m + 5
      BY <1>1
    <2>. QED
      BY <2>1, <2>2
  <1>. DEFINE D == A \o B
  <1>. HIDE DEF D
  <1>12. /\ f \in Seq(Bytes) /\ Len(f) = n
         /\ \A i \in 1..(m + 5) : f[i] = D[i]
         /\ f[n - 1] = Sum256(B) /\ f[n] = Tailer
    <2>1. /\ D \o C \in Seq(Bytes) /\ Len(D \o C) = (m + 5) + 2
          /\ \A i \in 1..(m + 5) : (D \o C)[i] = D[i]
          /\ \A i \in 1..2 : (D \o C)[i + (m + 5)] = C[i]
      <3>1. 2 \in Nat /\ m + 5 \in Nat
        BY <1>1
      <3>2. D \in Seq(Bytes) /\ Len(D) = m + 5
        BY <1>11 DEF D
      <3>. QED
        BY <1>10, <3>1, <3>2, PiecesOf
    <2>2. (m + 5) + 2 = n /\ 1 + (m + 5) = n - 1 /\ 2 + (m + 5) = n
      BY <1>1 DEF n
    <2>3. (D \o C)[1 + (m + 5)] = C[1] /\ (D \o C)[2 + (m + 5)] = C[2]
      <3>1. 1 \in 1..2 /\ 2 \in 1..2
        OBVIOUS
      <3>. QED
        BY <2>1, <3>1
    <2>4. f = D \o C
      BY DEF D
    <2>. QED
      BY <1>10, <2>1, <2>2, <2>3, <2>4
  <1>. HIDE DEF f
  <1>13. f[1] = Header /\ f[2] = n % 256 /\ f[3] = n \div 256 /\ f[4] = addr /\ f[5] = Afn
    <2>1. /\ 1 \in 1..(m + 5) /\ 2 \in 1..(m + 5) /\ 3 \in 1..(m + 5)
          /\ 1 + 3 = 4 /\ 2 + 3 = 5
          /\ 4 \in 1..(m + 5) /\ 5 \in 1..(m + 5) /\ 1 \in 1..(m + 2) /\ 2 \in 1..(m + 2)
      BY <1>1
    <2>2. D[4] = B[1] /\ D[5] = B[2]
      BY <1>11, <2>1 DEF D
    <2>3. D[1] = A[1] /\ D[2] = A[2] /\ D[3] = A[3]
      BY <1>11 DEF D
    <2>. QED
      BY <1>5, <1>7, <1>12, <2>1, <2>2, <2>3
  <1>14. SubSeq(f, 4, n - 2) = B
    <2>1. n - 2 = m + 5 /\ n - 2 \in Int /\ 4 <= n - 2 /\ (n - 2) - 4 + 1 = m + 2
      BY <1>1 DEF n
    <2>2. \A i \in 4..(n - 2) : f[i] \in Bytes
      <3>1. \A i \in 4..(n - 2) : i \in 1..n
        BY <1>1
      <3>. QED
        BY <1>12, <3>1, BytesOf
    <2>3. /\ SubSeq(f, 4, n - 2) \in Seq(Bytes) /\ Len(SubSeq(f, 4, n - 2)) = m + 2
          /\ \A i \in 1..(m + 2) : SubSeq(f, 4, n - 2)[i] = f[4 + i - 1]
      BY <2>1, <2>2, SubSeqProperties
    <2>4. ASSUME NEW i \in 1..(m + 2) PROVE f[4 + i - 1] = B[i]
      <3>1. 4 + i - 1 = i + 3 /\ i + 3 \in 1..(m + 5)
        BY <1>1
      <3>. QED
        BY <1>11, <1>12, <3>1 DEF D
    <2>. QED
      BY <1>7, <2>3, <2>4, SeqEqual
  <1>15. StudioAccepts(f)
    <2>1. Len(f) \in MinFrame..MaxFrame
      <3>1. n \in 7..MaxFrame
        BY <1>1
      <3>. QED
        BY <1>12, <3>1 DEF MinFrame
    <2>2. Declared(f) = Len(f)
      BY <1>3, <1>12, <1>13 DEF Declared
    <2>3. Checksum(f) = Sum256(B)
      BY <1>12, <1>14 DEF Checksum
    <2>. QED
      BY <1>12, <1>13, <2>1, <2>2, <2>3, Zenon DEF StudioAccepts
  <1>. QED
    BY <1>8, <1>12, <1>13, <1>15 DEF Sent

\* The sum's part of a frame.
LEMMA SummedOf ==
    ASSUME NEW f \in Seq(Bytes), Len(f) >= 7
    PROVE  /\ SubSeq(f, 4, Len(f) - 2) \in Seq(Bytes)
           /\ Len(SubSeq(f, 4, Len(f) - 2)) = Len(f) - 5
           /\ \A i \in 1..(Len(f) - 5) : SubSeq(f, 4, Len(f) - 2)[i] = f[i + 3]
  <1>1. Len(f) \in Nat /\ \A i \in 1..Len(f) : f[i] \in Bytes
    BY BytesOf
  <1>. DEFINE n == Len(f)
  <1>. HIDE DEF n
  <1>2. /\ n - 2 \in Int /\ 4 <= n - 2 /\ (n - 2) - 4 + 1 = n - 5
        /\ \A i \in 4..(n - 2) : i \in 1..n
        /\ \A i \in 1..(n - 5) : 4 + i - 1 = i + 3
    BY <1>1 DEF n
  <1>3. \A i \in 4..(n - 2) : f[i] \in Bytes
    BY <1>1, <1>2 DEF n
  <1>4. /\ SubSeq(f, 4, n - 2) \in Seq(Bytes) /\ Len(SubSeq(f, 4, n - 2)) = n - 5
        /\ \A i \in 1..(n - 5) : SubSeq(f, 4, n - 2)[i] = f[4 + i - 1]
    BY <1>2, <1>3, SubSeqProperties
  <1>. QED
    BY <1>2, <1>4 DEF n

\* A changed byte shows: in what is fixed, in the length, or in the sum.
LEMMA ChangeShows ==
    ASSUME NEW f \in Seq(Bytes), StudioAccepts(f), NEW k \in DOMAIN f, NEW b \in Bytes,
           [f EXCEPT ![k] = b] # f
    PROVE  [f EXCEPT ![k] = b] \in Seq(Bytes) /\ ~StudioAccepts([f EXCEPT ![k] = b])
  <1>. DEFINE n == Len(f)
              x == [f EXCEPT ![k] = b]
  <1>1. /\ n \in Nat /\ DOMAIN f = 1..n /\ k \in 1..n /\ \A i \in 1..n : f[i] \in Bytes
        /\ n >= 7
    BY BytesOf, LenProperties, FrameAssumption DEF StudioAccepts, MinFrame
  <1>2. /\ x \in Seq(Bytes) /\ Len(x) = n /\ x[k] = b
        /\ \A i \in 1..n : i # k => x[i] = f[i]
    BY <1>1
  <1>3. b # f[k]
    BY <1>1
  <1>. HIDE DEF x
  <1>4. SUFFICES ASSUME StudioAccepts(x) PROVE FALSE
    BY <1>2 DEF x
  <1>5. /\ f[1] = Header /\ f[2] + 256 * f[3] = n /\ f[5] = Afn
        /\ f[n - 1] = Checksum(f) /\ f[n] = Tailer
        /\ x[1] = Header /\ x[2] + 256 * x[3] = n /\ x[5] = Afn
        /\ x[n - 1] = Checksum(x) /\ x[n] = Tailer
    BY <1>2, <1>4 DEF StudioAccepts, Declared
  <1>. HIDE DEF n
  <1>6. 1 \in 1..n /\ 2 \in 1..n /\ 3 \in 1..n /\ 5 \in 1..n /\ n \in 1..n /\ n - 1 \in 1..n
        /\ n - 1 # n
    BY <1>1
  <1>7. k # 1 /\ k # 5 /\ k # n
    BY <1>2, <1>3, <1>5, <1>6
  <1>8. k # 2
    <2> SUFFICES ASSUME k = 2 PROVE FALSE
      OBVIOUS
    <2>2. f[2] \in Bytes /\ f[3] \in Bytes /\ x[2] = b
      BY <1>1, <1>2, <1>6
    <2>3. 3 # k
      OBVIOUS
    <2>4. x[3] = f[3]
      BY <1>2, <1>6, <2>3
    <2>5. x[2] # f[2]
      BY <1>3, <2>2
    <2>1. f[3] \in Int /\ f[2] \in Int /\ x[2] \in Int
      BY <2>2, ByteInt
    <2>. QED
      BY <1>5, <2>1, <2>4, <2>5
  <1>9. k # 3
    <2> SUFFICES ASSUME k = 3 PROVE FALSE
      OBVIOUS
    <2>2. f[2] \in Bytes /\ f[3] \in Bytes /\ x[3] = b
      BY <1>1, <1>2, <1>6
    <2>3. 2 # k
      OBVIOUS
    <2>4. x[2] = f[2]
      BY <1>2, <1>6, <2>3
    <2>5. x[3] # f[3]
      BY <1>3, <2>2
    <2>1. f[3] \in Int /\ f[2] \in Int /\ x[3] \in Int
      BY <2>2, ByteInt
    <2>. QED
      BY <1>5, <2>1, <2>4, <2>5
  <1>. DEFINE F == SubSeq(f, 4, n - 2)
              X == SubSeq(x, 4, n - 2)
  <1>10. /\ F \in Seq(Bytes) /\ X \in Seq(Bytes) /\ Len(F) = n - 5 /\ Len(X) = n - 5
         /\ \A i \in 1..(n - 5) : F[i] = f[i + 3] /\ X[i] = x[i + 3]
    BY <1>1, <1>2, SummedOf DEF n
  <1>11. Checksum(f) = Sum256(F) /\ Checksum(x) = Sum256(X)
    BY <1>2 DEF Checksum, n
  <1>. HIDE DEF F, X
  <1>12. \A i \in 1..(n - 5) : i + 3 \in 1..n /\ i + 3 # n - 1
    BY <1>1
  <1>13. CASE k = n - 1
    <2>1. \A i \in 1..(n - 5) : F[i] = X[i]
      BY <1>2, <1>10, <1>12, <1>13
    <2>2. F = X
      BY <1>10, <2>1, SeqEqual
    <2>. QED
      BY <1>2, <1>3, <1>5, <1>11, <1>13, <2>2
  <1>14. CASE k # n - 1
    <2>1. k - 3 \in 1..(n - 5) /\ (k - 3) + 3 = k
      BY <1>1, <1>7, <1>8, <1>9, <1>14
    <2>2. F[k - 3] # X[k - 3]
      BY <1>2, <1>3, <1>10, <2>1
    <2>3. ASSUME NEW i \in 1..(n - 5), i # k - 3 PROVE F[i] = X[i]
      <3>1. i + 3 # k
        BY <1>1, <2>3
      <3>. QED
        BY <1>2, <1>10, <1>12, <3>1
    <2>4. Sum256(F) # Sum256(X)
      <3>. DEFINE j == k - 3
      <3>. HIDE DEF j
      <3>1. j \in 1..Len(F) /\ F[j] # X[j] /\ \A i \in 1..Len(F) : i # j => F[i] = X[i]
        BY <1>10, <2>1, <2>2, <2>3 DEF j
      <3>2. Len(F) = Len(X)
        BY <1>10
      <3>. QED
        BY <1>10, <3>1, <3>2, OneByteTells
    <2>5. x[n - 1] = f[n - 1]
      BY <1>2, <1>6, <1>14
    <2>. QED
      BY <1>5, <1>11, <2>4, <2>5
  <1>. QED
    BY <1>13, <1>14

\* A piece of a sequence.
LEMMA CutOf ==
    ASSUME NEW f \in Seq(Bytes), NEW i \in Int, NEW j \in Int, i >= 1, j <= Len(f), i <= j + 1
    PROVE  /\ SubSeq(f, i, j) \in Seq(Bytes) /\ Len(SubSeq(f, i, j)) = j - i + 1
           /\ \A k \in 1..(j - i + 1) : SubSeq(f, i, j)[k] = f[i + k - 1]
  <1>1. Len(f) \in Nat /\ \A k \in 1..Len(f) : f[k] \in Bytes
    BY BytesOf
  <1>2. \A k \in i..j : k \in 1..Len(f)
    BY <1>1
  <1>3. \A k \in i..j : f[k] \in Bytes
    BY <1>1, <1>2
  <1>4. /\ SubSeq(f, i, j) \in Seq(Bytes)
        /\ Len(SubSeq(f, i, j)) = IF i <= j THEN j - i + 1 ELSE 0
        /\ \A k \in 1..(j - i + 1) : SubSeq(f, i, j)[k] = f[i + k - 1]
    BY <1>3, SubSeqProperties
  <1>5. ~(i <= j) => j - i + 1 = 0
    OBVIOUS
  <1>. QED
    BY <1>4, <1>5

\* A byte lost: those after it move up.
LEMMA RemoveOf ==
    ASSUME NEW f \in Seq(Bytes), NEW k \in Int, k >= 1, k <= Len(f)
    PROVE  /\ RemoveAt(f, k) \in Seq(Bytes) /\ Len(RemoveAt(f, k)) = Len(f) - 1
           /\ \A i \in 1..(k - 1) : RemoveAt(f, k)[i] = f[i]
           /\ \A i \in k..(Len(f) - 1) : RemoveAt(f, k)[i] = f[i + 1]
  <1>. DEFINE n == Len(f)
              s == SubSeq(f, 1, k - 1)
              t == SubSeq(f, k + 1, n)
  <1>1. n \in Nat
    BY BytesOf
  <1>2. /\ s \in Seq(Bytes) /\ Len(s) = (k - 1) - 1 + 1
        /\ \A i \in 1..((k - 1) - 1 + 1) : s[i] = f[1 + i - 1]
    <2>1. k - 1 \in Int /\ k - 1 <= Len(f) /\ 1 <= (k - 1) + 1 /\ 1 \in Int /\ 1 >= 1
      BY <1>1
    <2>. QED
      BY <2>1, CutOf
  <1>3. /\ t \in Seq(Bytes) /\ Len(t) = n - (k + 1) + 1
        /\ \A i \in 1..(n - (k + 1) + 1) : t[i] = f[(k + 1) + i - 1]
    <2>1. k + 1 \in Int /\ k + 1 >= 1 /\ n \in Int /\ n <= Len(f) /\ k + 1 <= n + 1
      BY <1>1
    <2>. QED
      BY <2>1, CutOf
  <1>4. RemoveAt(f, k) = s \o t
    BY DEF RemoveAt
  <1>. HIDE DEF s, t, n
  <1>5. /\ k - 1 \in Nat /\ n - k \in Nat /\ (k - 1) - 1 + 1 = k - 1 /\ n - (k + 1) + 1 = n - k
        /\ (k - 1) + (n - k) = n - 1
    BY <1>1 DEF n
  <1>6. Len(s) = k - 1 /\ Len(t) = n - k
    BY <1>2, <1>3, <1>5
  <1>7. /\ s \o t \in Seq(Bytes) /\ Len(s \o t) = (k - 1) + (n - k)
        /\ \A i \in 1..(k - 1) : (s \o t)[i] = s[i]
        /\ \A i \in 1..(n - k) : (s \o t)[i + (k - 1)] = t[i]
    BY <1>2, <1>3, <1>5, <1>6, PiecesOf
  <1>8. ASSUME NEW i \in 1..(k - 1) PROVE (s \o t)[i] = f[i]
    <2>1. i \in 1..((k - 1) - 1 + 1) /\ 1 + i - 1 = i
      OBVIOUS
    <2>. QED
      BY <1>2, <1>7, <2>1
  <1>9. ASSUME NEW i \in k..(n - 1) PROVE (s \o t)[i] = f[i + 1]
    <2>. DEFINE j == i - (k - 1)
    <2>1. /\ j \in 1..(n - k) /\ j + (k - 1) = i /\ j \in 1..(n - (k + 1) + 1)
          /\ (k + 1) + j - 1 = i + 1
      BY <1>1
    <2>. HIDE DEF j
    <2>2. (s \o t)[i] = t[j]
      BY <1>7, <2>1
    <2>3. t[j] = f[i + 1]
      BY <1>3, <2>1
    <2>. QED
      BY <2>2, <2>3
  <1>. QED
    BY <1>4, <1>5, <1>7, <1>8, <1>9 DEF n

\* A byte more: those from its place on move down.
LEMMA InsertOf ==
    ASSUME NEW f \in Seq(Bytes), NEW k \in Int, k >= 1, k <= Len(f), NEW b \in Bytes
    PROVE  /\ InsertAt(f, k, b) \in Seq(Bytes) /\ Len(InsertAt(f, k, b)) = Len(f) + 1
           /\ \A i \in 1..(k - 1) : InsertAt(f, k, b)[i] = f[i]
           /\ InsertAt(f, k, b)[k] = b
           /\ \A i \in k..Len(f) : InsertAt(f, k, b)[i + 1] = f[i]
  <1>. DEFINE n == Len(f)
              s == SubSeq(f, 1, k - 1)
              o == <<b>>
              t == SubSeq(f, k, n)
  <1>1. n \in Nat
    BY BytesOf
  <1>2. /\ s \in Seq(Bytes) /\ Len(s) = (k - 1) - 1 + 1
        /\ \A i \in 1..((k - 1) - 1 + 1) : s[i] = f[1 + i - 1]
    <2>1. k - 1 \in Int /\ k - 1 <= Len(f) /\ 1 <= (k - 1) + 1 /\ 1 \in Int /\ 1 >= 1
      BY <1>1
    <2>. QED
      BY <2>1, CutOf
  <1>3. /\ t \in Seq(Bytes) /\ Len(t) = n - k + 1
        /\ \A i \in 1..(n - k + 1) : t[i] = f[k + i - 1]
    <2>1. n \in Int /\ n <= Len(f) /\ k <= n + 1
      BY <1>1
    <2>. QED
      BY <2>1, CutOf
  <1>4. o \in Seq(Bytes) /\ Len(o) = 1 /\ o[1] = b
    OBVIOUS
  <1>5. InsertAt(f, k, b) = (s \o o) \o t
    BY DEF InsertAt
  <1>. HIDE DEF s, t, n, o
  <1>6. /\ k - 1 \in Nat /\ n - k + 1 \in Nat /\ (k - 1) - 1 + 1 = k - 1 /\ (k - 1) + 1 = k
        /\ k + (n - k + 1) = n + 1 /\ 1 \in Nat /\ k \in Nat
    BY <1>1 DEF n
  <1>7. Len(s) = k - 1
    BY <1>2, <1>6
  <1>8. /\ s \o o \in Seq(Bytes) /\ Len(s \o o) = (k - 1) + 1
        /\ \A i \in 1..(k - 1) : (s \o o)[i] = s[i]
        /\ \A i \in 1..1 : (s \o o)[i + (k - 1)] = o[i]
    <2>1. s \in Seq(Bytes) /\ Len(s) = k - 1 /\ k - 1 \in Nat
      BY <1>2, <1>6, <1>7
    <2>2. o \in Seq(Bytes) /\ Len(o) = 1
      BY <1>4
    <2>3. /\ s \o o \in Seq(Bytes) /\ Len(s \o o) = Len(s) + Len(o)
          /\ \A i \in 1..Len(s) : (s \o o)[i] = s[i]
          /\ \A i \in 1..Len(o) : (s \o o)[i + Len(s)] = o[i]
      BY <2>1, <2>2, TwoPieces
    <2>. QED
      BY <2>1, <2>2, <2>3
  <1>. DEFINE u == s \o o
  <1>9. u \in Seq(Bytes) /\ Len(u) = k /\ u[k] = b /\ \A i \in 1..(k - 1) : u[i] = s[i]
    <2>1. 1 \in 1..1 /\ 1 + (k - 1) = k
      OBVIOUS
    <2>. QED
      BY <1>4, <1>6, <1>8, <2>1
  <1>. HIDE DEF u
  <1>10. /\ u \o t \in Seq(Bytes) /\ Len(u \o t) = k + (n - k + 1)
         /\ \A i \in 1..k : (u \o t)[i] = u[i]
         /\ \A i \in 1..(n - k + 1) : (u \o t)[i + k] = t[i]
    <2>1. u \in Seq(Bytes) /\ Len(u) = k /\ k \in Nat
      BY <1>6, <1>9
    <2>2. t \in Seq(Bytes) /\ Len(t) = n - k + 1
      BY <1>3, <1>6
    <2>3. /\ u \o t \in Seq(Bytes) /\ Len(u \o t) = Len(u) + Len(t)
          /\ \A i \in 1..Len(u) : (u \o t)[i] = u[i]
          /\ \A i \in 1..Len(t) : (u \o t)[i + Len(u)] = t[i]
      BY <2>1, <2>2, TwoPieces
    <2>. QED
      BY <2>1, <2>2, <2>3
  <1>11. ASSUME NEW i \in 1..(k - 1) PROVE (u \o t)[i] = f[i]
    <2>1. i \in 1..((k - 1) - 1 + 1) /\ 1 + i - 1 = i /\ i \in 1..k
      OBVIOUS
    <2>. QED
      BY <1>2, <1>9, <1>10, <2>1
  <1>12. (u \o t)[k] = b
    <2>1. k \in 1..k
      OBVIOUS
    <2>. QED
      BY <1>9, <1>10, <2>1
  <1>13. ASSUME NEW i \in k..n PROVE (u \o t)[i + 1] = f[i]
    <2>. DEFINE j == i - k + 1
    <2>1. j \in 1..(n - k + 1) /\ j + k = i + 1 /\ k + j - 1 = i
      BY <1>1
    <2>. HIDE DEF j
    <2>2. (u \o t)[i + 1] = t[j]
      BY <1>10, <2>1
    <2>3. t[j] = f[i]
      BY <1>3, <2>1
    <2>. QED
      BY <2>2, <2>3
  <1>14. InsertAt(f, k, b) = u \o t
    BY <1>5 DEF u
  <1>. QED
    BY <1>6, <1>10, <1>11, <1>12, <1>13, <1>14 DEF n

\* The first bytes of a frame.
LEMMA HeadOf ==
    ASSUME NEW f \in Seq(Bytes), StudioAccepts(f)
    PROVE  /\ Len(f) \in Nat /\ Len(f) >= 7 /\ f[1] = 104 /\ f[5] = 34
           /\ f[2] \in Int /\ f[2] >= 0 /\ f[2] <= 255
           /\ f[3] \in Int /\ f[3] >= 0 /\ f[3] <= 255
           /\ f[2] + 256 * f[3] = Len(f)
           /\ f[Len(f) - 1] = Sum256(SubSeq(f, 4, Len(f) - 2))
  <1>1. Len(f) \in Nat /\ Len(f) >= 7
    BY BytesOf, FrameAssumption DEF StudioAccepts, MinFrame
  <1>2. 2 \in 1..Len(f) /\ 3 \in 1..Len(f)
    BY <1>1
  <1>3. f[2] \in Bytes /\ f[3] \in Bytes
    BY <1>2, BytesOf
  <1>4. f[1] = 104 /\ f[5] = 34 /\ f[2] + 256 * f[3] = Len(f)
    BY DEF StudioAccepts, Declared, Header, Afn
  <1>5. f[Len(f) - 1] = Sum256(SubSeq(f, 4, Len(f) - 2))
    BY DEF StudioAccepts, Checksum
  <1>. QED
    BY <1>1, <1>3, <1>4, <1>5, ByteInt

\* The length shows a byte lost, unless it is the low byte of the length; then
\* the sum does, short of an address that is not zero.
LEMMA LossShows ==
    ASSUME NEW f \in Seq(Bytes), Sent(f), NEW k \in DOMAIN f
    PROVE  RemoveAt(f, k) \in Seq(Bytes) /\ ~StudioAccepts(RemoveAt(f, k))
  <1>. DEFINE n == Len(f)
              x == RemoveAt(f, k)
  <1>1. /\ n \in Nat /\ n >= 7 /\ f[1] = 104 /\ f[5] = 34
        /\ f[2] \in Int /\ f[2] >= 0 /\ f[2] <= 255
        /\ f[3] \in Int /\ f[3] >= 0 /\ f[3] <= 255
        /\ f[2] + 256 * f[3] = n
        /\ f[n - 1] = Sum256(SubSeq(f, 4, n - 2))
    BY HeadOf DEF Sent
  <1>2. f[4] \in {0, 1}
    BY DEF Sent
  <1>3. k \in Int /\ k >= 1 /\ k <= n
    <2>1. k \in 1..n
      BY LenProperties
    <2>. QED
      BY <1>1, <2>1
  <1>4. /\ x \in Seq(Bytes) /\ Len(x) = n - 1
        /\ \A i \in 1..(k - 1) : x[i] = f[i]
        /\ \A i \in k..(n - 1) : x[i] = f[i + 1]
    BY <1>3, RemoveOf
  <1>. HIDE DEF x
  <1>5. SUFFICES ASSUME StudioAccepts(x) PROVE FALSE
    BY <1>4 DEF x
  <1>. HIDE DEF n
  <1>6. /\ x[1] = 104 /\ x[2] + 256 * x[3] = n - 1
        /\ x[n - 2] = Sum256(SubSeq(x, 4, n - 3))
    <2>1. (n - 1) - 1 = n - 2 /\ (n - 1) - 2 = n - 3
      BY <1>1
    <2>2. /\ x[1] = 104 /\ x[2] + 256 * x[3] = Len(x)
          /\ x[Len(x) - 1] = Sum256(SubSeq(x, 4, Len(x) - 2))
      BY <1>4, <1>5, HeadOf
    <2>. QED
      BY <1>4, <2>1, <2>2
  <1>7. CASE k >= 4
    <2>1. 2 \in 1..(k - 1) /\ 3 \in 1..(k - 1)
      BY <1>3, <1>7
    <2>2. x[2] = f[2] /\ x[3] = f[3]
      BY <1>4, <2>1
    <2>. QED
      BY <1>1, <1>6, <2>2
  <1>8. CASE k = 3
    <2>1. 2 \in 1..(k - 1) /\ 3 \in k..(n - 1) /\ 3 + 1 = 4
      BY <1>1, <1>8
    <2>2. x[2] = f[2] /\ x[3] = f[4]
      BY <1>4, <2>1
    <2>3. f[2] + 256 * f[4] = n - 1
      BY <1>6, <2>2
    <2>4. CASE f[4] = 0
      <3>1. 256 * f[3] = 1
        BY <1>1, <2>3, <2>4
      <3>. QED
        BY <1>1, <3>1
    <2>5. CASE f[4] = 1
      <3>1. f[2] + 256 = n - 1
        BY <2>3, <2>5
      <3>2. f[2] = n - 257
        BY <1>1, <3>1
      <3>3. (n - 257) + 256 * f[3] = n
        BY <1>1, <3>2
      <3>4. ASSUME NEW h \in Int, (n - 257) + 256 * h = n PROVE FALSE
        BY <1>1, <3>4
      <3>. QED
        BY <1>1, <3>3, <3>4
    <2>. QED
      BY <1>2, <2>4, <2>5
  <1>9. CASE k = 1
    <2>1. /\ 1 \in k..(n - 1) /\ 2 \in k..(n - 1) /\ 3 \in k..(n - 1)
          /\ 1 + 1 = 2 /\ 2 + 1 = 3 /\ 3 + 1 = 4
      BY <1>1, <1>9
    <2>2. x[1] = f[2] /\ x[2] = f[3] /\ x[3] = f[4]
      BY <1>4, <2>1
    <2>3. f[2] = 104 /\ f[3] + 256 * f[4] = n - 1
      BY <1>6, <2>2
    <2>. QED
      BY <1>1, <1>2, <2>3
  <1>10. CASE k = 2
    <2>1. /\ 2 \in k..(n - 1) /\ 3 \in k..(n - 1) /\ n - 2 \in k..(n - 1)
          /\ 2 + 1 = 3 /\ 3 + 1 = 4 /\ (n - 2) + 1 = n - 1
      BY <1>1, <1>10
    <2>2. x[2] = f[3] /\ x[3] = f[4] /\ x[n - 2] = f[n - 1]
      BY <1>4, <2>1
    <2>3. f[3] + 256 * f[4] = n - 1
      BY <1>6, <2>2
    <2>4. f[4] = 1
      BY <1>1, <1>2, <2>3
    <2>. DEFINE F == SubSeq(f, 4, n - 2)
                X == SubSeq(x, 4, n - 3)
    <2>5. /\ F \in Seq(Bytes) /\ Len(F) = n - 5
          /\ \A i \in 1..(n - 5) : F[i] = f[i + 3]
      BY <1>1, SummedOf DEF n
    <2>6. n = 256 + 2
      BY <1>1, <2>3, <2>4
    <2>7. /\ X \in Seq(Bytes) /\ Len(X) = n - 6
          /\ \A i \in 1..(n - 6) : X[i] = x[i + 3]
      <3>1. /\ n - 3 \in Int /\ n - 3 <= Len(x) /\ 4 <= (n - 3) + 1 /\ 4 \in Int /\ 4 >= 1
            /\ (n - 3) - 4 + 1 = n - 6
            /\ \A i \in 1..(n - 6) : 4 + i - 1 = i + 3
        BY <1>1, <1>4
      <3>2. /\ X \in Seq(Bytes) /\ Len(X) = (n - 3) - 4 + 1
            /\ \A i \in 1..((n - 3) - 4 + 1) : X[i] = x[4 + i - 1]
        BY <1>4, <3>1, CutOf
      <3>. QED
        BY <3>1, <3>2
    <2>8. x[n - 2] = Sum256(X) /\ f[n - 1] = Sum256(F)
      BY <1>1, <1>6
    <2>. HIDE DEF F, X
    <2>9. ASSUME NEW i \in 1..(n - 6) PROVE X[i] = F[i + 1]
      <3>1. /\ i + 3 \in k..(n - 1) /\ i + 1 \in 1..(n - 5)
            /\ (i + 3) + 1 = i + 4 /\ (i + 1) + 3 = i + 4
        BY <1>1, <1>10
      <3>2. x[i + 3] = f[i + 4] /\ F[i + 1] = f[i + 4]
        BY <1>4, <2>5, <3>1
      <3>. QED
        BY <2>7, <3>2
    <2>10. F[1] # 0
      <3>1. 1 \in 1..(n - 5) /\ 1 + 3 = 4
        BY <1>1
      <3>. QED
        BY <2>4, <2>5, <3>1
    <2>11. Len(F) = Len(X) + 1
      BY <1>1, <2>5, <2>7
    <2>12. \A i \in 1..Len(X) : X[i] = F[i + 1]
      BY <2>7, <2>9
    <2>13. Sum256(F) # Sum256(X)
      BY <2>5, <2>7, <2>10, <2>11, <2>12, FirstByteTells
    <2>. QED
      BY <2>2, <2>8, <2>13
  <1>. QED
    BY <1>3, <1>7, <1>8, <1>9, <1>10

\* A byte doubled shows in the length or in the place of the AFN.
LEMMA DoubleShows ==
    ASSUME NEW f \in Seq(Bytes), Sent(f), NEW k \in DOMAIN f
    PROVE  /\ InsertAt(f, k, f[k]) \in Seq(Bytes)
           /\ ~StudioAccepts(InsertAt(f, k, f[k]))
  <1>. DEFINE n == Len(f)
              x == InsertAt(f, k, f[k])
  <1>1. /\ n \in Nat /\ n >= 7 /\ f[1] = 104 /\ f[5] = 34
        /\ f[2] \in Int /\ f[2] >= 0 /\ f[2] <= 255
        /\ f[3] \in Int /\ f[3] >= 0 /\ f[3] <= 255
        /\ f[2] + 256 * f[3] = n
    BY HeadOf DEF Sent
  <1>2. f[4] \in {0, 1}
    BY DEF Sent
  <1>3. k \in Int /\ k >= 1 /\ k <= n /\ f[k] \in Bytes
    BY <1>1, LenProperties, BytesOf
  <1>4. /\ x \in Seq(Bytes) /\ Len(x) = n + 1
        /\ \A i \in 1..(k - 1) : x[i] = f[i]
        /\ \A i \in k..n : x[i + 1] = f[i]
    BY <1>3, InsertOf
  <1>. HIDE DEF x
  <1>5. SUFFICES ASSUME StudioAccepts(x) PROVE FALSE
    BY <1>4 DEF x
  <1>. HIDE DEF n
  <1>6. x[2] + 256 * x[3] = n + 1 /\ x[5] = 34
    BY <1>4, <1>5, HeadOf
  <1>7. CASE k >= 4
    <2>1. 2 \in 1..(k - 1) /\ 3 \in 1..(k - 1)
      BY <1>3, <1>7
    <2>2. x[2] = f[2] /\ x[3] = f[3]
      BY <1>4, <2>1
    <2>. QED
      BY <1>1, <1>6, <2>2
  <1>8. CASE k <= 3
    <2>1. 4 \in k..n /\ 4 + 1 = 5
      BY <1>1, <1>3, <1>8
    <2>2. x[5] = f[4]
      BY <1>4, <2>1
    <2>. QED
      BY <1>2, <1>6, <2>2
  <1>. QED
    BY <1>3, <1>7, <1>8

\* Nothing was sent in the beginning.
LEMMA FrameInitInv == FrameInit => FrameInv
  <1> SUFFICES ASSUME FrameInit PROVE FrameInv
    OBVIOUS
  <1>4. PICK m \in 0..(MaxFrame - MinFrame) :
          \E data \in [1..m -> DataBytes] : \E addr \in {0, 1} : frame = MakeFrame(addr, data)
    BY DEF FrameInit
  <1>1. PICK data \in [1..m -> DataBytes], addr \in {0, 1} : frame = MakeFrame(addr, data)
    BY <1>4
  <1>2. frame \in Seq(Bytes) /\ Sent(frame)
    BY <1>1, MadeIsSent
  <1>3. errors = 0 /\ errors \in 0..MaxErrors
    BY FrameAssumption DEF FrameInit
  <1>. QED
    BY <1>2, <1>3 DEF FrameInv

\* Every step keeps the invariant.
LEMMA FrameNextStep == FrameInv /\ [FrameNext]_frameVars => FrameInv'
  <1> SUFFICES ASSUME FrameInv, [FrameNext]_frameVars PROVE FrameInv'
    OBVIOUS
  <1>1. frame \in Seq(Bytes) /\ errors \in Nat /\ MaxErrors \in Nat
    BY FrameAssumption DEF FrameInv
  <1>2. CASE UNCHANGED frameVars
    BY <1>2 DEF FrameInv, frameVars, Sent, StudioAccepts, Declared, Checksum
  <1>3. ASSUME NEW bytes \in Seq(Bytes), Arrives(bytes),
               errors = 0 => ~StudioAccepts(bytes)
        PROVE  FrameInv'
    <2>1. errors < MaxErrors /\ frame' = bytes /\ errors' = errors + 1
      BY <1>3 DEF Arrives
    <2>2. errors' \in 0..MaxErrors /\ errors' # 0 /\ (errors' = 1 => errors = 0)
      BY <1>1, <2>1
    <2>3. errors' = 1 => ~StudioAccepts(frame')
      BY <1>3, <2>1, <2>2
    <2>. QED
      BY <2>1, <2>2, <2>3 DEF FrameInv, StudioAccepts, Declared, Checksum
  <1>4. errors = 0 => Sent(frame) /\ StudioAccepts(frame)
    BY DEF FrameInv, Sent
  <1>5. CASE ChangeByte
    <2>1. PICK k \in DOMAIN frame, b \in Noise : Arrives([frame EXCEPT ![k] = b])
      BY <1>5 DEF ChangeByte
    <2>2. b \in Bytes /\ [frame EXCEPT ![k] = b] # frame
      BY <2>1, FrameAssumption DEF Bytes, Arrives
    <2>3. k \in 1..Len(frame)
      BY <1>1, <2>1, LenProperties
    <2>4. [frame EXCEPT ![k] = b] \in Seq(Bytes)
      BY <1>1, <2>2, <2>3, ExceptSeq
    <2>5. errors = 0 => ~StudioAccepts([frame EXCEPT ![k] = b])
      BY <1>1, <1>4, <2>1, <2>2, ChangeShows
    <2>. QED
      BY <1>3, <2>1, <2>4, <2>5
  <1>6. CASE LoseByte
    <2>1. PICK k \in DOMAIN frame : Arrives(RemoveAt(frame, k))
      BY <1>6 DEF LoseByte
    <2>2. k \in 1..Len(frame) /\ Len(frame) \in Nat
      BY <1>1, <2>1, LenProperties
    <2>3. k \in Int /\ k >= 1 /\ k <= Len(frame)
      BY <2>2
    <2>4. RemoveAt(frame, k) \in Seq(Bytes)
      BY <1>1, <2>3, RemoveOf
    <2>5. errors = 0 => ~StudioAccepts(RemoveAt(frame, k))
      BY <1>1, <1>4, <2>1, LossShows
    <2>. QED
      BY <1>3, <2>1, <2>4, <2>5
  <1>7. CASE DoubleByte
    <2>1. PICK k \in DOMAIN frame : Arrives(InsertAt(frame, k, frame[k]))
      BY <1>7 DEF DoubleByte
    <2>2. k \in 1..Len(frame) /\ Len(frame) \in Nat
      BY <1>1, <2>1, LenProperties
    <2>3. k \in Int /\ k >= 1 /\ k <= Len(frame) /\ frame[k] \in Bytes
      BY <1>1, <2>2, BytesOf
    <2>4. InsertAt(frame, k, frame[k]) \in Seq(Bytes)
      BY <1>1, <2>3, InsertOf
    <2>5. errors = 0 => ~StudioAccepts(InsertAt(frame, k, frame[k]))
      BY <1>1, <1>4, <2>1, DoubleShows
    <2>. QED
      BY <1>3, <2>1, <2>4, <2>5
  <1>. QED
    BY <1>2, <1>5, <1>6, <1>7 DEF FrameNext

\* The four validators judge alike, whatever the bytes.
LEMMA ValidatorsAgree ==
    ASSUME NEW f \in Seq(Bytes), Len(f) <= MaxFrame
    PROVE  /\ (LearnerReason(f) = "ok") = StudioAccepts(f)
           /\ AdapterAccepts(f) = StudioAccepts(f)
           /\ RegistryRefuses(f) = ~StudioAccepts(f)
  <1>. DEFINE long == Len(f) >= MinFrame
              sound == f[Len(f) - 1] = Sum256(SubSeq(f, 4, Len(f) - 2))
              all == /\ long /\ f[1] = Header /\ Declared(f) = Len(f) /\ f[5] = Afn
                     /\ sound /\ f[Len(f)] = Tailer
  <1>1. Len(f) \in Nat /\ MaxFrame \in Nat /\ MinFrame \in Nat
    BY BytesOf, FrameAssumption DEF MinFrame
  <1>2. (Len(f) \in MinFrame..MaxFrame <=> long) /\ (Len(f) < MinFrame <=> ~long)
        /\ ~(Len(f) > MaxFrame)
    BY <1>1
  <1>. HIDE DEF long
  <1>3. StudioAccepts(f) <=> all
    BY <1>2 DEF StudioAccepts, Checksum
  <1>4. AdapterAccepts(f) <=> all
    BY DEF AdapterAccepts, long
  <1>5. RegistryRefuses(f) <=> ~all
    BY <1>2 DEF RegistryRefuses
  <1>6. LearnerReason(f) = "ok" <=> all
    <2>1. CASE ~long
      <3>1. LearnerReason(f) = "frame_too_short"
        BY <1>2, <2>1 DEF LearnerReason
      <3>. QED
        BY <2>1, <3>1
    <2>2. CASE long
      <3>1. LearnerReason(f) =
              CASE f[1] # Header -> "bad_header"
                [] f[1] = Header /\ Declared(f) # Len(f) -> "bad_length"
                [] f[1] = Header /\ Declared(f) = Len(f) /\ f[5] # Afn -> "bad_afn"
                [] OTHER ->
                   IF ~sound THEN "bad_checksum"
                   ELSE IF f[Len(f)] # Tailer THEN "bad_tail"
                   ELSE "ok"
        BY <1>2, <2>2 DEF LearnerReason
      <3>. HIDE DEF sound
      <3>2. CASE f[1] # Header
        BY <3>1, <3>2
      <3>3. CASE f[1] = Header /\ Declared(f) # Len(f)
        BY <3>1, <3>3
      <3>4. CASE f[1] = Header /\ Declared(f) = Len(f) /\ f[5] # Afn
        BY <3>1, <3>4
      <3>5. CASE f[1] = Header /\ Declared(f) = Len(f) /\ f[5] = Afn
        BY <2>2, <3>1, <3>5
      <3>. QED
        BY <3>2, <3>3, <3>4, <3>5
    <2>. QED
      BY <2>1, <2>2
  <1>7. /\ StudioAccepts(f) \in BOOLEAN /\ AdapterAccepts(f) \in BOOLEAN
        /\ RegistryRefuses(f) \in BOOLEAN
    BY Zenon DEF StudioAccepts, AdapterAccepts, RegistryRefuses
  <1>. HIDE DEF all
  <1>8. (LearnerReason(f) = "ok") = StudioAccepts(f)
    BY <1>3, <1>6, <1>7, Zenon
  <1>9. AdapterAccepts(f) = StudioAccepts(f)
    BY <1>3, <1>4, <1>7, Zenon
  <1>10. RegistryRefuses(f) = ~StudioAccepts(f)
    BY <1>3, <1>5, <1>7, Zenon
  <1>. QED
    BY <1>8, <1>9, <1>10

\* FrameInv is an inductive invariant of the line.
THEOREM FrameInductive == FrameSpec => []FrameInv
  BY FrameInitInv, FrameNextStep, PTL DEF FrameSpec

\* For frames of every length two bytes can say: the validators agree on every
\* one of them, take what the module sends and refuse it after any one error.
THEOREM ValidatorsHold == FrameSpec => []FramesAgreed
<1>1. FrameInv => FramesAgreed
  BY ValidatorsAgree DEF FrameInv, Sent, FramesAgreed
<1>. QED
  BY <1>1, FrameInductive, PTL

\* A frame stays bytes.
THEOREM FrameTypes == FrameSpec => []FrameTypeOK
<1>1. FrameInv => FrameTypeOK
  BY DEF FrameInv, FrameTypeOK, Bytes
<1>. QED
  BY <1>1, FrameInductive, PTL

(* The composition (MCIrStores): each program behaves as it does alone,    *)
(* since no other changes its variables.                                   *)

everyVar == <<program, allLibraryVars, storeVars, captureVars, consoleVars,
              downloadVars, frameVars, pcbVars, srunVars, learnedVars>>

\* A step is one program's, or none's.
LEMMA OneProgramSteps ==
    ASSUME [Next]_everyVar
    PROVE  /\ [LibraryNext]_allLibraryVars
           /\ [StoreNext]_storeVars
           /\ [CaptureNext]_captureVars
           /\ [ConsoleNext]_consoleVars
           /\ [DownloadNext]_downloadVars
           /\ [FrameNext]_frameVars
           /\ [LearnedNext \/ FixedNext]_learnedVars
           /\ [PcbNext]_pcbVars
           /\ [SrunNext]_srunVars
  <1>1. CASE UNCHANGED everyVar
    BY <1>1 DEF everyVar
  <1>2. CASE Next
    BY <1>2, Zenon DEF Next
  <1>. QED
    BY <1>1, <1>2

\* Every program is one of the composition.
LEMMA ProgramsRun ==
    Spec => LibrarySpec /\ StoreSpec /\ CaptureSpec /\ ConsoleSpec /\ DownloadSpec
            /\ FrameSpec /\ LearnedSpec /\ PcbSpec /\ SrunSpec
<1>1. Init => /\ LibraryInit /\ StoreInit /\ CaptureInit /\ ConsoleInit /\ DownloadInit
              /\ FrameInit /\ LearnedInit /\ PcbInit /\ SrunInit
  BY DEF Init
<1>2. [Next]_everyVar =>
        /\ [LibraryNext]_allLibraryVars
        /\ [StoreNext]_storeVars
        /\ [CaptureNext]_captureVars
        /\ [ConsoleNext]_consoleVars
        /\ [DownloadNext]_downloadVars
        /\ [FrameNext]_frameVars
        /\ [LearnedNext \/ FixedNext]_learnedVars
        /\ [PcbNext]_pcbVars
        /\ [SrunNext]_srunVars
  BY OneProgramSteps
<1>. QED
  BY <1>1, <1>2, PTL
  DEF Spec, everyVar, LibrarySpec, StoreSpec, CaptureSpec, ConsoleSpec, DownloadSpec, FrameSpec,
      LearnedSpec, PcbSpec, SrunSpec

\* Whatever the programs do: one process has the library open at most, and its
\* canonical frames are true.
THEOREM OneOwnerAndTruth == Spec => []LibraryTruth
  BY ProgramsRun, OneOwner, SelectionsTrue, PTL DEF LibraryTruth

\* A migration of the library is whole or not there.
THEOREM MigrationsWhole == Spec => []MigrationAllOrNothing
  BY ProgramsRun, MigrationWhole, PTL

\* An approved state of the file store has all its frames.
THEOREM ApprovedAreComplete == Spec => []ApprovedComplete
  BY ProgramsRun, ApprovalsComplete, PTL

\* The firmware is compiled with what was captured and chosen for it.
THEOREM GeneratedIsBacked == Spec => []GeneratedBacked
  BY ProgramsRun, IncludeStaysBacked, TableIsOwned, FixedIsListed, PTL DEF GeneratedBacked

\* What was counted as captured is on disk as it was counted.
THEOREM CountsAreOnDisk == Spec => []CountedOnDisk
  BY ProgramsRun, CountedStays, CountIsHonest, PTL DEF CountedOnDisk

\* What is accepted or handed out is exactly what it stands for.
THEOREM DeliveriesAreExact == Spec => []DeliveredExact
  BY ProgramsRun, DownloadIsExact, PackagesExact, SrunIsExact, PTL DEF DeliveredExact

\* The tools' validators agree, and none takes a frame with one error.
THEOREM ToolsAgree == Spec => []FramesAgreed
  BY ProgramsRun, ValidatorsHold, PTL

\* Every variable of every program has its type.
THEOREM StoresTyped == Spec => []StoresTypeOK
  BY ProgramsRun, LibraryTyped, StoreTypes, CaptureTypes, ConsoleTypes, DownloadTypes,
     FrameTypes, LearnedTypes, PackageTypes, SrunTypesHold, PTL DEF StoresTypeOK

\* No step of any program changes an approved state or replaces a frame.
THEOREM ApprovedIsKept == Spec => ApprovedKept
  BY ProgramsRun, ApprovedStays, FramesStay, PTL DEF ApprovedKept

=============================================================================

-------------------------- MODULE DependencyDownload --------------------------
(***************************************************************************)
(* download_verify.py: one package archive after the other is fetched over *)
(* HTTP into the download directory, resumed where an earlier attempt or   *)
(* an earlier run broke off, and compared with the checksum the registry   *)
(* names.  The archive is a row of numbered blocks; a checksum is the      *)
(* blocks themselves.  The program may be started again at any time.       *)
(***************************************************************************)
EXTENDS Naturals, Sequences

CONSTANTS
    Blocks,       \* the number of blocks of the archive
    MaxFile,      \* bound on the blocks of the local file
    MaxRetries    \* bound on the interruptions of one run

ASSUME DownloadAssumption ==
    Blocks \in Nat \ {0} /\ MaxFile \in Nat /\ Blocks <= MaxFile /\ MaxRetries \in Nat

VARIABLES
    fetch,        \* the program: its state, byte count, open mode
    server,       \* what the registry and the server do, and where a reply is
    file,         \* the local archive under its official name
    oldName       \* the same under the name without the system

downloadVars == <<fetch, server, file, oldName>>

Archive == [k \in 1..Blocks |-> k]
NoFile == [exists |-> FALSE, blocks |-> <<>>]
File(blocks) == [exists |-> TRUE, blocks |-> blocks]
Wrong == 0
Others == {File(<<Wrong>>), File([k \in 1..Blocks |-> Wrong])}
Beginnings == {File(SubSeq(Archive, 1, k)) : k \in 0..(Blocks - 1)}

IsArchive(f) == f = File(Archive)

DownloadTypeOK ==
    /\ fetch.pc \in {"resolve", "request", "reading", "returned", "refused"}
    /\ fetch.cur \in 0..MaxFile /\ fetch.mode \in {"wb", "ab"}
    /\ fetch.retries \in 0..MaxRetries
    /\ server.next \in 1..(Blocks + 1)
    /\ file.blocks \in Seq(0..Blocks) /\ oldName.blocks \in Seq(0..Blocks)

\* clean: the file the run began with was missing or the beginning of the
\* archive; cut: a reply ended early without an error.
NewRun(f) == [pc |-> "resolve", cur |-> 0, mode |-> "wb", retries |-> 0,
              clean |-> f \in Beginnings \cup {NoFile}, cut |-> FALSE]

DownloadInit ==
    /\ file \in {NoFile, File(Archive)} \cup Others \cup Beginnings
    /\ oldName \in {NoFile, File(Archive), File(<<Wrong>>)}
    /\ fetch = NewRun(file)
    /\ server \in [checksum : BOOLEAN, sized : BOOLEAN, ranges : BOOLEAN, next : {1}]

------------------------------------------------------------------------------
\* find_existing: the official name before the old one.
Existing == IF file.exists THEN file ELSE oldName

\* download up to its loop: an archive that is there and matches is taken, and
\* renamed; else the size of the file is where the transfer goes on, unless it
\* has its full size already.
Resolve ==
    /\ fetch.pc = "resolve"
    /\ IF server.checksum /\ IsArchive(Existing)
       THEN /\ fetch' = [fetch EXCEPT !.pc = "returned"]
            /\ file' = File(Archive)
            /\ oldName' = IF file.exists THEN oldName ELSE NoFile
       ELSE /\ LET size == Len(file.blocks)
                   cur == IF server.sized /\ size >= Blocks THEN 0 ELSE size
               IN  fetch' = [fetch EXCEPT !.pc = "request", !.cur = cur,
                               !.mode = IF cur > 0 THEN "ab" ELSE "wb"]
            /\ UNCHANGED <<file, oldName>>
    /\ UNCHANGED server

\* A reply comes: from the byte asked for, or from the first one by a server
\* that ignores Range.  A range that begins at the end of the archive has no
\* reply but an error.
Request ==
    /\ fetch.pc = "request"
    /\ fetch.cur > 0 /\ server.ranges => fetch.cur < Blocks
    /\ server' = [server EXCEPT !.next = IF server.ranges THEN fetch.cur + 1 ELSE 1]
    /\ file' = IF fetch.mode = "wb" THEN File(<<>>) ELSE File(file.blocks)
    /\ fetch' = [fetch EXCEPT !.pc = "reading"]
    /\ UNCHANGED oldName

ReadBlock ==
    /\ fetch.pc = "reading" /\ server.next <= Blocks /\ Len(file.blocks) < MaxFile
    /\ file' = [file EXCEPT !.blocks = Append(@, server.next)]
    /\ fetch' = [fetch EXCEPT !.cur = @ + 1]
    /\ server' = [server EXCEPT !.next = @ + 1]
    /\ UNCHANGED oldName

\* The open mode left as it was.
RetryFromScratch == [fetch EXCEPT !.pc = "request", !.retries = @ + 1]

\* How the loop goes on after an exception: the file is appended to.
Retry == [fetch EXCEPT !.pc = "request", !.mode = "ab", !.retries = @ + 1]

\* Any exception, in the request or in a read.
Interrupted ==
    /\ fetch.pc \in {"request", "reading"} /\ fetch.retries < MaxRetries
    /\ fetch' = Retry
    /\ UNCHANGED <<server, file, oldName>>

\* An empty read ends the loop, also when the connection broke; then the
\* checksum decides, when the registry names one.
EndOfReply ==
    /\ fetch.pc = "reading"
    /\ fetch' = [fetch EXCEPT !.cut = server.next <= Blocks,
                   !.pc = IF server.checksum /\ ~IsArchive(file)
                          THEN "refused" ELSE "returned"]
    /\ UNCHANGED <<server, file, oldName>>

\* After download the program always ends: record_evidence is called with
\* arguments it does not have.  It may also be stopped anywhere, and is
\* started again.
RunAgain ==
    /\ fetch.pc # "resolve"
    /\ fetch' = NewRun(file)
    /\ server' \in [checksum : {server.checksum}, sized : BOOLEAN,
                    ranges : {server.ranges}, next : {1}]
    /\ UNCHANGED <<file, oldName>>

DownloadNext ==
    Resolve \/ Request \/ ReadBlock \/ Interrupted \/ EndOfReply \/ RunAgain

DownloadSpec == DownloadInit /\ [][DownloadNext]_downloadVars

------------------------------------------------------------------------------
(* Properties. *)

\* Resuming is exact: however often the transfer and the program are
\* interrupted, a run that began with no file or with the beginning of the
\* archive, and whose server answers ranges, returns the archive and nothing
\* else, also when there is no checksum to compare with.
ResumeExact ==
    fetch.pc \in {"returned", "refused"} /\ fetch.clean /\ server.ranges /\ ~fetch.cut =>
        fetch.pc = "returned" /\ IsArchive(file)

=============================================================================

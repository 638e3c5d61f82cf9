---------------------------- MODULE ExportAssembly ----------------------------
(***************************************************************************)
(* The export of a learned frame over the serial line and the two programs *)
(* that put it together again: ExportAssembler of the IR Learning Studio   *)
(* (protocol.py) and of the Simple Learner (protocol_adapter.py).  The     *)
(* device prints one begin, the chunks in order and one done, each with    *)
(* the ids of the export; the host's line may lose an event or change a    *)
(* character, and may still hold the end of an export before.              *)
(*                                                                         *)
(* A chunk of base64 text is a letter, the decoded frame their sequence,   *)
(* and its digest the frame itself.                                        *)
(***************************************************************************)
EXTENDS Naturals, Sequences

CONSTANTS
    Letters,     \* what a chunk can hold
    MaxChunks    \* MAX_CHUNK_COUNT

ASSUME ExportAssumption == MaxChunks \in Nat \ {0}

VARIABLES
    tool,        \* which program reads: "studio" or "simple"
    sent,        \* the frame the device holds
    wire,        \* the events on their way, the oldest first
    asm,         \* the assembler: its begin, its chunks, its result
    harmed       \* whether anything happened to the events of this export

exportVars == <<tool, sent, wire, asm, harmed>>

NoResult == <<>>
FramesOf == UNION {[1..n -> Letters] : n \in 1..MaxChunks}
Meta(frame) == [count |-> Len(frame), digest |-> frame]
NoDigest == <<>>
NoBegin == [count |-> 0, digest |-> NoDigest]

BeginEvent(id, frame) == [name |-> "begin", id |-> id, meta |-> Meta(frame)]
ChunkEvent(id, i, frame) ==
    [name |-> "chunk", id |-> id, index |-> i, count |-> Len(frame), data |-> frame[i]]
DoneEvent(id, frame) == [name |-> "done", id |-> id, meta |-> Meta(frame)]

\* doIrLearnExport
Export(id, frame) ==
    <<BeginEvent(id, frame)>>
    \o [i \in 1..Len(frame) |-> ChunkEvent(id, i, frame)]
    \o <<DoneEvent(id, frame)>>

ExportTypeOK ==
    /\ tool \in {"studio", "simple"}
    /\ sent \in FramesOf
    /\ asm.state \in {"open", "failed", "assembled"}
    /\ Len(asm.chunks) <= MaxChunks
    /\ asm.result \in FramesOf \cup {NoResult}

\* left: how many events of an earlier export are still on the line.
ExportInit ==
    /\ tool \in {"studio", "simple"}
    /\ sent \in FramesOf
    /\ \E old \in FramesOf : \E left \in 0..(Len(old) + 2) :
         /\ wire = SubSeq(Export("earlier", old), Len(old) + 3 - left, Len(old) + 2)
                   \o Export("this", sent)
         /\ harmed = (left > 0)
    /\ asm = [state |-> "open", begin |-> NoBegin, chunks |-> <<>>,
              result |-> NoResult]

------------------------------------------------------------------------------
Fail == [asm EXCEPT !.state = "failed"]

\* _process_begin, _begin: one begin, with this export's ids.  The Simple
\* Learner knows length and digest from the capture event.
BeginAccepted(e) ==
    /\ asm.begin = NoBegin
    /\ e.id = "this"
    /\ e.meta.count \in 1..MaxChunks
    /\ tool = "simple" => e.meta = Meta(sent)
AfterBegin(e) ==
    IF BeginAccepted(e) THEN [asm EXCEPT !.begin = e.meta] ELSE Fail

\* _process_chunk, _chunk: the next chunk of the announced number.
ChunkAccepted(e) ==
    /\ asm.begin # NoBegin
    /\ e.id = "this"
    /\ e.count = asm.begin.count
    /\ e.index = Len(asm.chunks) + 1 /\ e.index <= asm.begin.count
AfterChunk(e) ==
    IF ChunkAccepted(e) THEN [asm EXCEPT !.chunks = Append(@, e.data)] ELSE Fail

\* _process_done and _decode_and_validate, _done: begin and done agree, no
\* chunk is missing, the digest of what was decoded is the announced one.
DigestIgnored(meta) == Len(asm.chunks) = meta.count
DigestMatches(meta) == asm.chunks = meta.digest
DoneAccepted(e) ==
    /\ asm.begin # NoBegin
    /\ e.id = "this"
    /\ e.meta = asm.begin
    /\ Len(asm.chunks) = asm.begin.count
    /\ DigestMatches(e.meta)
AfterDone(e) ==
    IF DoneAccepted(e) THEN [asm EXCEPT !.state = "assembled", !.result = asm.chunks]
    ELSE Fail

\* process_event, process: an error ends the assembly.
ReadExport ==
    /\ asm.state = "open" /\ wire # <<>>
    /\ wire' = Tail(wire)
    /\ asm' = CASE Head(wire).name = "begin" -> AfterBegin(Head(wire))
                [] Head(wire).name = "chunk" -> AfterChunk(Head(wire))
                [] Head(wire).name = "done" -> AfterDone(Head(wire))
    /\ UNCHANGED <<tool, sent, harmed>>

\* A line the host does not get, or gets so damaged that it is no event.
LoseEvent ==
    /\ asm.state = "open" /\ wire # <<>>
    /\ wire' = Tail(wire)
    /\ harmed' = TRUE
    /\ UNCHANGED <<tool, sent, asm>>

\* A changed character that leaves the line an event: in a chunk's text, or in
\* the digest of a begin or done, which then is the digest of no frame.
Changed(e) ==
    IF e.name = "chunk" THEN {[e EXCEPT !.data = x] : x \in Letters}
    ELSE {[e EXCEPT !.meta.digest = NoDigest]}

GarbleEvent ==
    /\ asm.state = "open" /\ wire # <<>>
    /\ \E e \in Changed(Head(wire)) : wire' = <<e>> \o Tail(wire)
    /\ harmed' = TRUE
    /\ UNCHANGED <<tool, sent, asm>>

\* EXPORT_TIMEOUT, or the export deadline of the flow.
ExportDeadline ==
    /\ asm.state = "open"
    /\ asm' = Fail
    /\ harmed' = TRUE
    /\ UNCHANGED <<tool, sent, wire>>

ExportNext == ReadExport \/ LoseEvent \/ GarbleEvent \/ ExportDeadline
ExportSpec == ExportInit /\ [][ExportNext]_exportVars

------------------------------------------------------------------------------
(* Properties. *)

\* Nothing but the frame the device sent comes out of either assembler,
\* whatever was lost, changed or left over on the line; and an export nothing
\* happened to is never refused (protocol.py: one correlated export;
\* protocol_adapter.py: strict validation).
ExportExact ==
    /\ asm.result \in {NoResult, sent}
    /\ asm.state = "failed" => harmed

=============================================================================

----------------------------- MODULE FrameFormat -----------------------------
(***************************************************************************)
(* The 22H frame of the infrared module, which every tool checks with code *)
(* of its own: protocol.py of the Learning Studio, frame_validator.py of   *)
(* the Simple Learner, capture_core_adapter.py of the Capture Studio and   *)
(* gen_ir_state_registry.py, which puts frames into the firmware.          *)
(*                                                                         *)
(* A frame is built as the module builds it and then meets errors of the   *)
(* serial line: a byte changed, lost or doubled.                           *)
(***************************************************************************)
EXTENDS Naturals, Sequences, SequencesExt

CONSTANTS
    MaxFrame,     \* IR_MAX_FRAME
    DataBytes,    \* what the bytes after the AFN may be
    Noise,        \* what a byte may be changed to
    MaxErrors     \* bound on the errors of one frame

\* The length takes two bytes.
ASSUME FrameAssumption ==
    /\ MaxFrame \in Nat /\ MaxFrame < 65536
    /\ DataBytes \subseteq 0..255 /\ Noise \subseteq 0..255
    /\ MaxErrors \in Nat

VARIABLES
    frame,        \* the bytes as they arrive
    errors        \* how many errors they met

frameVars == <<frame, errors>>

Header == 104
Tailer == 22
Afn == 34
MinFrame == 7

\* The sum of a wider type.
SumUnreduced(bytes) ==
    LET sum[k \in 0..Len(bytes)] == IF k = 0 THEN 0 ELSE sum[k - 1] + bytes[k]
    IN  sum[Len(bytes)]

\* The sum in one byte.
Sum256(bytes) ==
    LET sum[k \in 0..Len(bytes)] == IF k = 0 THEN 0 ELSE (sum[k - 1] + bytes[k]) % 256
    IN  sum[Len(bytes)]

\* make_frame: header, length (low byte first), address, AFN, data, the sum of
\* everything from the address on, tail.
MakeFrame(addr, data) ==
    LET n == Len(data) + MinFrame
        body == <<addr, Afn>> \o data
    IN  <<Header, n % 256, n \div 256>> \o body \o <<Sum256(body), Tailer>>

FrameTypeOK ==
    /\ frame \in Seq(0..255)
    /\ errors \in 0..MaxErrors

FrameInit ==
    /\ \E n \in 0..(MaxFrame - MinFrame) : \E data \in [1..n -> DataBytes] :
         \E addr \in {0, 1} : frame = MakeFrame(addr, data)
    /\ errors = 0

------------------------------------------------------------------------------
(* The line. *)

Arrives(bytes) ==
    /\ errors < MaxErrors
    /\ bytes # frame
    /\ frame' = bytes
    /\ errors' = errors + 1
ChangeByte == \E k \in DOMAIN frame, b \in Noise : Arrives([frame EXCEPT ![k] = b])
LoseByte == \E k \in DOMAIN frame : Arrives(RemoveAt(frame, k))
DoubleByte == \E k \in DOMAIN frame : Arrives(InsertAt(frame, k, frame[k]))

FrameNext == ChangeByte \/ LoseByte \/ DoubleByte
FrameSpec == FrameInit /\ [][FrameNext]_frameVars

------------------------------------------------------------------------------
(* The validators; Python's indices are one less. *)

Declared(f) == f[2] + 256 * f[3]

\* The sum up to the byte before the last of the data.
ChecksumShort(f) == Sum256(SubSeq(f, 4, Len(f) - 3))

\* protocol.checksum of a frame whose length is the declared one.
Checksum(f) == Sum256(SubSeq(f, 4, Len(f) - 2))

\* protocol.validate_frame: full_frame_valid.
StudioAccepts(f) ==
    /\ Len(f) \in MinFrame..MaxFrame
    /\ f[1] = Header
    /\ Declared(f) = Len(f)
    /\ f[5] = Afn
    /\ f[Len(f) - 1] = Checksum(f)
    /\ f[Len(f)] = Tailer

\* frame_validator.validate_frame: the first reason to refuse.
LearnerReason(f) ==
    CASE Len(f) < MinFrame -> "frame_too_short"
      [] Len(f) > MaxFrame -> "frame_too_long"
      [] OTHER ->
         CASE f[1] # Header -> "bad_header"
           [] f[1] = Header /\ Declared(f) # Len(f) -> "bad_length"
           [] f[1] = Header /\ Declared(f) = Len(f) /\ f[5] # Afn -> "bad_afn"
           [] OTHER ->
              IF Sum256(SubSeq(f, 4, Len(f) - 2)) # f[Len(f) - 1] THEN "bad_checksum"
              ELSE IF f[Len(f)] # Tailer THEN "bad_tail"
              ELSE "ok"

\* capture_core_adapter.validate_frame has no greatest length; its counters of
\* the serial port are zero here.
AdapterAccepts(f) ==
    /\ Len(f) >= MinFrame
    /\ f[1] = Header /\ f[Len(f)] = Tailer /\ f[5] = Afn
    /\ Declared(f) = Len(f)
    /\ f[Len(f) - 1] = Sum256(SubSeq(f, 4, Len(f) - 2))

\* gen_ir_state_registry.validate_frame ends the generator with the first
\* reason.
RegistryRefuses(f) ==
    \/ Len(f) \notin MinFrame..MaxFrame
    \/ f[1] # Header
    \/ Declared(f) # Len(f)
    \/ f[5] # Afn
    \/ f[Len(f)] # Tailer
    \/ f[Len(f) - 1] # Sum256(SubSeq(f, 4, Len(f) - 2))

------------------------------------------------------------------------------
(* Properties. *)

\* The tools agree on every frame the device can hold, so that none of them
\* stores what another one, or the generator, will refuse; what the module
\* sent is accepted, and a frame that met one error is not, wherever it is.
FramesAgreed ==
    /\ Len(frame) <= MaxFrame =>
         /\ (LearnerReason(frame) = "ok") = StudioAccepts(frame)
         /\ AdapterAccepts(frame) = StudioAccepts(frame)
         /\ RegistryRefuses(frame) = ~StudioAccepts(frame)
    /\ errors = 0 => StudioAccepts(frame)
    /\ errors = 1 => ~StudioAccepts(frame)

=============================================================================

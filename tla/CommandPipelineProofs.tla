------------------------ MODULE CommandPipelineProofs ------------------------
(***************************************************************************)
(* Theorems about CommandPipeline for every value of its constants.  The   *)
(* inductive invariant PipelineInv joins the types, the closure of the     *)
(* streams under Created, the ring invariant behind the dedupe theorems,   *)
(* the distinct keys and deadlines of the rows, what the row and the cache *)
(* say of an emitted command, and the set clock of a CA-pinned session.    *)
(***************************************************************************)
EXTENDS CommandPipeline, TLAPS

AckOf(S)  == [type : {"ack"}, id : S, status : DeviceVerdicts]
MailOf(S) == AckOf(S) \cup [type : {"puback"}, id : S, status : {"published"}]

\* Only commands with a row travel: without it a PUBACK or an ack would have
\* no row to write to.
StreamsOK ==
  /\ outgoing \in Seq(Created)
  /\ toBroker \in Seq(Created)
  /\ fromBroker \in Seq(MailOf(Created))
  /\ toDevice \in Seq(Created)
  /\ fromDevice \in Seq(AckOf(Created))

\* Since the last emission of c the ring has taken handled - mark[c] ids, so c
\* cannot be older in the ring than that; and the earlier emissions have cost
\* one ring's turn each.
RingOK ==
  \A c \in CmdIds : shots[c] >= 1 =>
    /\ recent[c] <= handled - mark[c]
    /\ (shots[c] - 1) * (RingSize + 1) < mark[c]

\* Rows of different commands have different keys, and an IR row expires at
\* most one requested life after any later moment.
RowsOK ==
  /\ \A c, d \in Created : c # d => row[c].key # row[d].key
  /\ \A c \in Created : IsIr(c) =>
       \E t \in TtlRequests : row[c].expires <= now + ClampTtl(t)

\* What was emitted since boot has an IR row, and the cache's time stamp is not
\* older than one life before the expiry.
EmittedOK ==
  \A c \in CmdIds : shots[c] >= 1 =>
    /\ c \in Created
    /\ IsIr(c)
    /\ \E t \in TtlRequests : row[c].expires <= cacheAt[c] + ClampTtl(t)

ClockOK == TlsNeedsClock /\ devUp => synced

PipelineInv == TypeOK /\ StreamsOK /\ RingOK /\ RowsOK /\ EmittedOK /\ ClockOK

(***************************************************************************)
(* Helpers of the model.                                                   *)
(***************************************************************************)

\* A sequence over a set is a sequence over any larger set.
LEMMA SeqMonotonic ==
  ASSUME NEW S, NEW T, S \subseteq T, NEW s \in Seq(S)
  PROVE  s \in Seq(T)
OBVIOUS

\* The four operations the model applies to a stream.
LEMMA SeqOps ==
  ASSUME NEW S
  PROVE  /\ <<>> \in Seq(S)
         /\ \A s \in Seq(S), e \in S : Append(s, e) \in Seq(S)
         /\ \A s \in Seq(S) : s # <<>> => Head(s) \in S /\ Tail(s) \in Seq(S)
OBVIOUS

\* The lives dispatchIrAction and dispatchCommand give out are integers, and an
\* IR command gets a clamped request.
LEMMA LifetimesType ==
  ASSUME NEW p \in Payloads, NEW life \in Lifetimes(p)
  PROVE  /\ life \in Int
         /\ p \in IrPayloads => \E t \in TtlRequests : life = ClampTtl(t)
BY TimeAssumption DEF Lifetimes, ClampTtl

\* A push keeps the ages of a ring within its size.
LEMMA PushType ==
  ASSUME NEW size \in Nat, NEW age \in [CmdIds -> 0..size], NEW c \in CmdIds
  PROVE  Push(age, c, size) \in [CmdIds -> 0..size]
BY DEF Push

\* A row that exists keeps its shape when its status is written.
LEMMA StatusType ==
  ASSUME NEW r \in Rows, NEW st \in Statuses, NEW b \in BOOLEAN
  PROVE  /\ [r EXCEPT !.status = st] \in Rows
         /\ [r EXCEPT !.status = st, !.acked = b] \in Rows
BY DEF Rows

\* The rows that exist are exactly the well-formed ones.
LEMMA CreatedRows ==
  ASSUME row \in [CmdIds -> Rows \cup {NoRow}], NEW c \in CmdIds
  PROVE  c \in Created <=> row[c] \in Rows
BY DEF Created, Rows, NoRow, Statuses, DeviceVerdicts

\* Whatever the payload and the UART do, the device answers with one of the
\* statuses of sendAck.
LEMMA VerdictType ==
  ASSUME NEW c \in CmdIds, NEW short \in BOOLEAN
  PROVE  Verdict(c, short) \in DeviceVerdicts
BY DEF Verdict, Validate, SendOnce, DeviceVerdicts

\* What the bridge takes from its socket names a command with a row.
LEMMA MailType ==
  ASSUME NEW S, NEW mail \in Seq(MailOf(S)), mail # <<>>
  PROVE  /\ Head(mail).id \in S
         /\ Head(mail).type = "ack" => Head(mail).status \in DeviceVerdicts
<1>1. Head(mail) \in MailOf(S)
  BY SeqOps
<1>2. QED
  BY <1>1 DEF MailOf, AckOf

(***************************************************************************)
(* Type correctness.                                                       *)
(***************************************************************************)

\* A fresh deployment (empty database, device just booted) satisfies the
\* invariant.
LEMMA InitInv == Init => PipelineInv
<1>1. SUFFICES ASSUME Init PROVE PipelineInv
  OBVIOUS
<1>2. Created = {}
  BY <1>1 DEF Init, Created, NoRow
<1>3. TypeOK
  <2>1. /\ now \in 0..MaxTime
        /\ recent \in [CmdIds -> 0..RingSize]
        /\ cacheAge \in [CmdIds -> 0..CacheSize]
        /\ cacheAt \in [CmdIds -> 0..MaxTime]
    BY <1>1, SizesAssumption, TimeAssumption DEF Init
  <2>2. spent \in [backendDrops : 0..MaxBackendDrops, deviceDrops : 0..MaxDeviceDrops,
                   reboots : 0..MaxReboots, restarts : 0..MaxRestarts]
    BY <1>1, BoundAssumption DEF Init
  <2>3. connected \in BOOLEAN /\ devUp \in BOOLEAN /\ synced \in BOOLEAN
    BY <1>1 DEF Init
  <2>4. row \in [CmdIds -> Rows \cup {NoRow}]
    BY <1>1 DEF Init
  <2>5. /\ outgoing \in Seq(CmdIds)
        /\ toBroker \in Seq(CmdIds)
        /\ fromBroker \in Seq(Acks \cup Pubacks)
        /\ toDevice \in Seq(CmdIds)
        /\ fromDevice \in Seq(Acks)
    BY <1>1 DEF Init
  <2>6. /\ shots \in [CmdIds -> Nat]
        /\ total \in [CmdIds -> Nat]
        /\ handled \in Nat
        /\ mark \in [CmdIds -> Nat]
    BY <1>1 DEF Init
  <2>7. QED
    BY <2>1, <2>2, <2>3, <2>4, <2>5, <2>6
    DEF TypeOK, BackendTypeOK, StreamTypeOK, DeviceTypeOK
<1>4. StreamsOK
  BY <1>1 DEF Init, StreamsOK
<1>5. RingOK /\ EmittedOK
  BY <1>1 DEF Init, RingOK, EmittedOK
<1>6. RowsOK /\ ClockOK
  BY <1>1, <1>2, FlagAssumption DEF Init, RowsOK, ClockOK
<1>7. QED
  BY <1>3, <1>4, <1>5, <1>6 DEF PipelineInv

\* A step creates at most one row, and forgets none.
LEMMA CreatedStep ==
  ASSUME TypeOK, StreamsOK, [Next]_vars
  PROVE  Created \subseteq Created'
<1> USE DEF TypeOK, BackendTypeOK, StreamTypeOK
<1>1. ASSUME UNCHANGED row PROVE Created \subseteq Created'
  BY <1>1 DEF Created
<1>2. ASSUME NEW c \in CmdIds, NEW k \in Keys, NEW p \in Payloads, NEW life \in Int,
             NEW st \in Statuses, TryInsert(c, k, p, life, st)
      PROVE  Created \subseteq Created'
  BY <1>2 DEF TryInsert, Created, Statuses, DeviceVerdicts
<1>3. CASE \E c \in CmdIds, k \in Keys, p \in Payloads : \E life \in Lifetimes(p) :
             DispatchIr(c, k, p, life) \/ DispatchPlain(c, k, p, life)
  BY <1>2, <1>3, LifetimesType DEF DispatchIr, DispatchPlain, Statuses
<1>4. CASE ReceivePuback
  BY <1>4 DEF ReceivePuback, Created, Statuses
<1>5. CASE ReceiveAck
  <2>1. Head(fromBroker).status \in DeviceVerdicts /\ Head(fromBroker).id \in CmdIds
    BY <1>5 DEF ReceiveAck, Acks, Pubacks
  <2>2. \A r \in Rows \cup {NoRow} :
          [r EXCEPT !.status = Head(fromBroker).status, !.acked = TRUE].status
            = Head(fromBroker).status
    BY DEF Rows, NoRow
  <2>3. \A d \in CmdIds : row'[d].status \in {row[d].status, Head(fromBroker).status}
    BY <1>5, <2>1, <2>2 DEF ReceiveAck
  <2>4. QED
    BY <2>1, <2>3 DEF Created, DeviceVerdicts
<1>6. CASE ExpireStale
  BY <1>6 DEF ExpireStale, Created
<1>7. CASE Tick \/ BackendDrop \/ BackendReconnect \/ BackendRestart \/ BrokerRoute
             \/ BrokerForwardAck \/ DeviceConnect \/ ClockSync \/ DeviceDrop
             \/ DeviceReboot \/ \E short, sent \in BOOLEAN : HandleCommand(short, sent)
  BY <1>1, <1>7 DEF Tick, BackendDrop, BackendReconnect, BackendRestart, BrokerRoute,
     BrokerForwardAck, DeviceConnect, ClockSync, DeviceDrop, DeviceReboot,
     HandleCommand, backendVars
<1>8. CASE UNCHANGED vars
  BY <1>1, <1>8 DEF vars, backendVars
<1>9. QED
  BY <1>3, <1>4, <1>5, <1>6, <1>7, <1>8 DEF Next

\* No stream ever carries a command without a row.
LEMMA StreamStep ==
  ASSUME TypeOK, StreamsOK, [Next]_vars
  PROVE  StreamsOK'
<1> USE DEF StreamsOK
<1>1. Created \subseteq Created'
  BY CreatedStep
<1>2. /\ outgoing \in Seq(Created')
      /\ toBroker \in Seq(Created')
      /\ fromBroker \in Seq(MailOf(Created'))
      /\ toDevice \in Seq(Created')
      /\ fromDevice \in Seq(AckOf(Created'))
  <2>1. /\ AckOf(Created) \subseteq AckOf(Created')
        /\ MailOf(Created) \subseteq MailOf(Created')
    BY <1>1 DEF AckOf, MailOf
  <2>2. outgoing \in Seq(Created') /\ toBroker \in Seq(Created') /\ toDevice \in Seq(Created')
    BY <1>1, SeqMonotonic
  <2>3. fromDevice \in Seq(AckOf(Created'))
    BY <2>1, SeqMonotonic
  <2>4. fromBroker \in Seq(MailOf(Created'))
    BY <2>1, SeqMonotonic
  <2>5. QED
    BY <2>2, <2>3, <2>4
<1> USE <1>2
<1>3. ASSUME UNCHANGED <<outgoing, toBroker, fromBroker, toDevice, fromDevice>>
      PROVE  StreamsOK'
  BY <1>3
<1>4. ASSUME NEW c \in CmdIds, NEW k \in Keys, NEW p \in Payloads, NEW life \in Lifetimes(p),
             DispatchIr(c, k, p, life) \/ DispatchPlain(c, k, p, life)
      PROVE  StreamsOK'
  <2>1. c \in Created'
    BY <1>4 DEF DispatchIr, DispatchPlain, TryInsert, Created, TypeOK, BackendTypeOK,
       Statuses, DeviceVerdicts
  <2>2. toBroker' \in Seq(Created') /\ outgoing' \in Seq(Created')
    BY <1>4, <2>1, SeqOps DEF DispatchIr, DispatchPlain, PublishQos1
  <2>3. UNCHANGED <<fromBroker, toDevice, fromDevice>>
    BY <1>4 DEF DispatchIr, DispatchPlain, downVars
  <2>4. QED
    BY <2>2, <2>3
<1>5. CASE ReceivePuback
  BY <1>5, SeqOps DEF ReceivePuback, downVars
<1>6. CASE ReceiveAck
  BY <1>6, SeqOps DEF ReceiveAck, downVars
<1>7. CASE ExpireStale
  BY <1>3, <1>7 DEF ExpireStale, upVars, downVars
<1>8. CASE BackendDrop \/ BackendReconnect \/ BackendRestart
  <2>1. UNCHANGED <<toDevice, fromDevice>>
    BY <1>8 DEF BackendDrop, BackendReconnect, BackendRestart, downVars
  <2>2. /\ toBroker' = <<>> \/ toBroker' = outgoing
        /\ fromBroker' = <<>> \/ fromBroker' = fromBroker
        /\ outgoing' = <<>> \/ outgoing' = outgoing
    BY <1>8 DEF BackendDrop, BackendReconnect, BackendRestart
  <2>3. QED
    BY <2>1, <2>2, SeqOps
<1>9. CASE BrokerRoute
  <2>1. Head(toBroker) \in Created' /\ Tail(toBroker) \in Seq(Created')
    BY <1>9, SeqOps DEF BrokerRoute
  <2>2. toDevice' \in Seq(Created') /\ toBroker' \in Seq(Created')
    BY <1>9, <2>1, SeqOps DEF BrokerRoute
  <2>3. Puback(Head(toBroker)) \in MailOf(Created')
    BY <2>1 DEF Puback, MailOf
  <2>4. fromBroker' \in Seq(MailOf(Created'))
    BY <1>9, <2>3, SeqOps DEF BrokerRoute
  <2>5. QED
    BY <1>9, <2>2, <2>4 DEF BrokerRoute, backendVars
<1>10. CASE BrokerForwardAck
  <2>1. /\ Head(fromDevice) \in AckOf(Created')
        /\ Tail(fromDevice) \in Seq(AckOf(Created'))
    BY <1>10, SeqOps DEF BrokerForwardAck
  <2>2. fromBroker' \in Seq(MailOf(Created'))
    BY <1>10, <2>1, SeqOps DEF BrokerForwardAck, MailOf
  <2>3. QED
    BY <1>10, <2>1, <2>2 DEF BrokerForwardAck, backendVars
<1>11. CASE Tick \/ DeviceConnect \/ ClockSync
  BY <1>3, <1>11 DEF Tick, DeviceConnect, ClockSync, backendVars, upVars, downVars
<1>12. CASE DeviceDrop \/ DeviceReboot
  <2>1. UNCHANGED <<outgoing, toBroker, fromBroker>>
    BY <1>12 DEF DeviceDrop, DeviceReboot, backendVars, upVars
  <2>2. toDevice' = <<>> /\ fromDevice' = <<>>
    BY <1>12 DEF DeviceDrop, DeviceReboot
  <2>3. QED
    BY <2>1, <2>2, SeqOps
<1>13. ASSUME NEW short \in BOOLEAN, NEW sent \in BOOLEAN, HandleCommand(short, sent)
       PROVE  StreamsOK'
  <2>1. Head(toDevice) \in Created' /\ Head(toDevice) \in CmdIds
    BY <1>13 DEF HandleCommand, Created
  <2>2. Ack(Head(toDevice), Verdict(Head(toDevice), short)) \in AckOf(Created')
    BY <2>1, VerdictType DEF Ack, AckOf
  <2>3. fromDevice' \in Seq(AckOf(Created'))
    BY <1>13, <2>2, SeqOps DEF HandleCommand
  <2>4. toDevice' \in Seq(Created') /\ UNCHANGED <<backendVars, upVars>>
    BY <1>13, SeqOps DEF HandleCommand
  <2>5. QED
    BY <2>3, <2>4 DEF backendVars, upVars
<1>14. CASE UNCHANGED vars
  BY <1>3, <1>14 DEF vars, backendVars, upVars, downVars
<1>15. QED
  BY <1>4, <1>5, <1>6, <1>7, <1>8, <1>9, <1>10, <1>11, <1>12, <1>13, <1>14 DEF Next

\* Counting one more failure of a kind stays within the bound of that kind.
LEMMA SpentType ==
  ASSUME BackendTypeOK
  PROVE  LET Spent == [backendDrops : 0..MaxBackendDrops, deviceDrops : 0..MaxDeviceDrops,
                       reboots : 0..MaxReboots, restarts : 0..MaxRestarts]
         IN /\ spent.backendDrops < MaxBackendDrops
                 => [spent EXCEPT !.backendDrops = @ + 1] \in Spent
            /\ spent.deviceDrops < MaxDeviceDrops
                 => [spent EXCEPT !.deviceDrops = @ + 1] \in Spent
            /\ spent.reboots < MaxReboots
                 => [spent EXCEPT !.reboots = @ + 1] \in Spent
            /\ spent.restarts < MaxRestarts
                 => [spent EXCEPT !.restarts = @ + 1] \in Spent
<1>1. /\ spent.backendDrops \in 0..MaxBackendDrops
      /\ spent.deviceDrops \in 0..MaxDeviceDrops
      /\ spent.reboots \in 0..MaxReboots
      /\ spent.restarts \in 0..MaxRestarts
  BY DEF BackendTypeOK
<1>2. ASSUME NEW bound \in Nat, NEW n \in 0..bound, n < bound PROVE n + 1 \in 0..bound
  BY <1>2
<1>3. spent \in [backendDrops : 0..MaxBackendDrops, deviceDrops : 0..MaxDeviceDrops,
                 reboots : 0..MaxReboots, restarts : 0..MaxRestarts]
  BY DEF BackendTypeOK
<1>4. SUFFICES
        /\ \A n \in 0..MaxBackendDrops : [spent EXCEPT !.backendDrops = n]
             \in [backendDrops : 0..MaxBackendDrops, deviceDrops : 0..MaxDeviceDrops,
                  reboots : 0..MaxReboots, restarts : 0..MaxRestarts]
        /\ \A n \in 0..MaxDeviceDrops : [spent EXCEPT !.deviceDrops = n]
             \in [backendDrops : 0..MaxBackendDrops, deviceDrops : 0..MaxDeviceDrops,
                  reboots : 0..MaxReboots, restarts : 0..MaxRestarts]
        /\ \A n \in 0..MaxReboots : [spent EXCEPT !.reboots = n]
             \in [backendDrops : 0..MaxBackendDrops, deviceDrops : 0..MaxDeviceDrops,
                  reboots : 0..MaxReboots, restarts : 0..MaxRestarts]
        /\ \A n \in 0..MaxRestarts : [spent EXCEPT !.restarts = n]
             \in [backendDrops : 0..MaxBackendDrops, deviceDrops : 0..MaxDeviceDrops,
                  reboots : 0..MaxReboots, restarts : 0..MaxRestarts]
  BY <1>1, <1>2, BoundAssumption
<1>5. QED
  BY <1>3

\* The backend's variables keep their types: a status is only ever written to
\* a row that is there.
LEMMA BackendTypeStep ==
  ASSUME TypeOK, StreamsOK, StreamsOK', [Next]_vars
  PROVE  BackendTypeOK'
<1> USE DEF TypeOK, BackendTypeOK
<1>1. Created' \subseteq CmdIds /\ outgoing' \in Seq(CmdIds)
  BY SeqMonotonic DEF StreamsOK, Created
<1>2. ASSUME UNCHANGED <<now, row, connected, spent>> PROVE BackendTypeOK'
  BY <1>1, <1>2
<1>3. ASSUME NEW c \in CmdIds, NEW k \in Keys, NEW p \in Payloads, NEW life \in Int,
             NEW st \in Statuses, TryInsert(c, k, p, life, st)
      PROVE  row' \in [CmdIds -> Rows \cup {NoRow}]
  BY <1>3, TimeAssumption DEF TryInsert, Rows
<1>4. ASSUME NEW c \in Created, NEW st \in Statuses, NEW b \in BOOLEAN
      PROVE  /\ [row EXCEPT ![c].status = st] \in [CmdIds -> Rows \cup {NoRow}]
             /\ [row EXCEPT ![c].status = st, ![c].acked = b]
                  \in [CmdIds -> Rows \cup {NoRow}]
  <2>1. c \in CmdIds /\ row[c] \in Rows
    BY CreatedRows DEF Created
  <2>2. QED
    BY <2>1, StatusType
<1>5. CASE Tick
  BY <1>1, <1>5, TimeAssumption DEF Tick, backendVars
<1>6. ASSUME NEW c \in CmdIds, NEW k \in Keys, NEW p \in Payloads, NEW life \in Lifetimes(p),
             DispatchIr(c, k, p, life) \/ DispatchPlain(c, k, p, life)
      PROVE  BackendTypeOK'
  <2>1. row' \in [CmdIds -> Rows \cup {NoRow}]
    BY <1>3, <1>6, LifetimesType DEF DispatchIr, DispatchPlain, Statuses
  <2>2. UNCHANGED <<now, connected, spent>>
    BY <1>6 DEF DispatchIr, DispatchPlain
  <2>3. QED
    BY <1>1, <2>1, <2>2
<1>7. CASE ReceivePuback
  <2>1. Head(fromBroker).id \in Created
    BY <1>7, MailType DEF ReceivePuback, StreamsOK
  <2>2. row' \in [CmdIds -> Rows \cup {NoRow}]
    BY <1>4, <1>7, <2>1 DEF ReceivePuback, Statuses
  <2>3. QED
    BY <1>1, <1>7, <2>2 DEF ReceivePuback
<1>8. CASE ReceiveAck
  <2>1. Head(fromBroker).id \in Created /\ Head(fromBroker).status \in DeviceVerdicts
    BY <1>8, MailType DEF ReceiveAck, StreamsOK
  <2>2. row' \in [CmdIds -> Rows \cup {NoRow}]
    BY <1>4, <1>8, <2>1 DEF ReceiveAck, Statuses
  <2>3. QED
    BY <1>1, <1>8, <2>2 DEF ReceiveAck
<1>9. CASE ExpireStale
  <2>1. ASSUME NEW c \in CmdIds, IsStale(c)
        PROVE  [row[c] EXCEPT !.status = "expired"] \in Rows
    BY <2>1, CreatedRows, StatusType DEF IsStale, Statuses, DeviceVerdicts
  <2>2. row' \in [CmdIds -> Rows \cup {NoRow}]
    BY <1>9, <2>1 DEF ExpireStale
  <2>3. QED
    BY <1>1, <1>9, <2>2 DEF ExpireStale
<1>10. CASE BackendDrop \/ BackendRestart
  <2>1. spent' \in [backendDrops : 0..MaxBackendDrops, deviceDrops : 0..MaxDeviceDrops,
                    reboots : 0..MaxReboots, restarts : 0..MaxRestarts]
    <3>1. CASE BackendDrop
      BY <3>1, SpentType DEF BackendDrop
    <3>2. CASE BackendRestart
      BY <3>2, SpentType DEF BackendRestart
    <3>3. QED
      BY <1>10, <3>1, <3>2
  <2>2. connected' \in BOOLEAN /\ UNCHANGED <<now, row>>
    BY <1>10 DEF BackendDrop, BackendRestart
  <2>3. QED
    BY <1>1, <2>1, <2>2
<1>11. CASE BackendReconnect
  BY <1>1, <1>11 DEF BackendReconnect
<1>12. CASE DeviceDrop \/ DeviceReboot
  <2>1. spent' \in [backendDrops : 0..MaxBackendDrops, deviceDrops : 0..MaxDeviceDrops,
                    reboots : 0..MaxReboots, restarts : 0..MaxRestarts]
    <3>1. CASE DeviceDrop
      BY <3>1, SpentType DEF DeviceDrop
    <3>2. CASE DeviceReboot
      BY <3>2, SpentType DEF DeviceReboot
    <3>3. QED
      BY <1>12, <3>1, <3>2
  <2>2. UNCHANGED <<now, row, connected>>
    BY <1>12 DEF DeviceDrop, DeviceReboot, backendVars
  <2>3. QED
    BY <1>1, <2>1, <2>2
<1>13. CASE BrokerRoute \/ BrokerForwardAck \/ DeviceConnect \/ ClockSync
             \/ \E short, sent \in BOOLEAN : HandleCommand(short, sent)
  BY <1>2, <1>13 DEF BrokerRoute, BrokerForwardAck, DeviceConnect, ClockSync,
     HandleCommand, backendVars
<1>14. CASE UNCHANGED vars
  BY <1>2, <1>14 DEF vars, backendVars
<1>15. QED
  BY <1>5, <1>6, <1>7, <1>8, <1>9, <1>10, <1>11, <1>12, <1>13, <1>14 DEF Next

\* The device's variables keep their types: the rings never report an age
\* beyond their size, and a reboot resets them.
LEMMA DeviceTypeStep ==
  ASSUME TypeOK, [Next]_vars
  PROVE  DeviceTypeOK'
<1> USE DEF TypeOK, DeviceTypeOK
<1>1. ASSUME UNCHANGED <<devUp, synced, dedupVars>> PROVE DeviceTypeOK'
  BY <1>1 DEF dedupVars
<1>2. ASSUME devUp' \in BOOLEAN, synced' \in BOOLEAN, UNCHANGED dedupVars
      PROVE  DeviceTypeOK'
  BY <1>2 DEF dedupVars
<1>3. ASSUME NEW c \in CmdIds, NEW k \in Keys, NEW p \in Payloads, NEW life \in Lifetimes(p),
             DispatchIr(c, k, p, life) \/ DispatchPlain(c, k, p, life)
      PROVE  DeviceTypeOK'
  BY <1>1, <1>3 DEF DispatchIr, DispatchPlain, downVars
<1>4. CASE Tick \/ ReceivePuback \/ ReceiveAck \/ ExpireStale \/ BackendDrop
             \/ BackendReconnect \/ BackendRestart \/ BrokerRoute \/ BrokerForwardAck
  BY <1>1, <1>4 DEF Tick, ReceivePuback, ReceiveAck, ExpireStale, BackendDrop,
     BackendReconnect, BackendRestart, BrokerRoute, BrokerForwardAck, downVars
<1>5. CASE DeviceConnect \/ ClockSync \/ DeviceDrop
  BY <1>2, <1>5 DEF DeviceConnect, ClockSync, DeviceDrop, downVars
<1>6. CASE DeviceReboot
  <2>1. /\ recent' \in [CmdIds -> 0..RingSize]
        /\ cacheAge' \in [CmdIds -> 0..CacheSize]
        /\ cacheAt' \in [CmdIds -> 0..MaxTime]
    BY <1>6, SizesAssumption, TimeAssumption DEF DeviceReboot
  <2>2. /\ shots' \in [CmdIds -> Nat]
        /\ total' \in [CmdIds -> Nat]
        /\ handled' \in Nat
        /\ mark' \in [CmdIds -> Nat]
    BY <1>6 DEF DeviceReboot
  <2>3. devUp' \in BOOLEAN /\ synced' \in BOOLEAN
    BY <1>6 DEF DeviceReboot
  <2>4. QED
    BY <2>1, <2>2, <2>3
<1>7. ASSUME NEW short \in BOOLEAN, NEW sent \in BOOLEAN, HandleCommand(short, sent)
      PROVE  DeviceTypeOK'
  <2> DEFINE c == Head(toDevice)
             v == Verdict(c, short)
  <2>1. c \in CmdIds
    BY <1>7, SeqOps DEF HandleCommand, StreamTypeOK
  <2>2. Record(c, v) /\ Emit(c, v) /\ UNCHANGED <<devUp, synced>>
    BY <1>7 DEF HandleCommand
  <2> HIDE DEF c, v
  <2>3. recent' \in [CmdIds -> 0..RingSize] /\ handled' \in Nat
    <3>1. Push(recent, c, RingSize) \in [CmdIds -> 0..RingSize]
      BY <2>1, PushType, SizesAssumption
    <3>2. QED
      BY <2>2, <3>1 DEF Record
  <2>4. cacheAge' \in [CmdIds -> 0..CacheSize]
    <3>1. Push(cacheAge, c, CacheSize) \in [CmdIds -> 0..CacheSize]
      BY <2>1, PushType, SizesAssumption
    <3>2. QED
      BY <2>2, <3>1 DEF Emit
  <2>5. /\ cacheAt' \in [CmdIds -> 0..MaxTime]
        /\ shots' \in [CmdIds -> Nat]
        /\ total' \in [CmdIds -> Nat]
        /\ mark' \in [CmdIds -> Nat]
    <3>1. CASE v = "ir_executed"
      <4>1. /\ cacheAt' = [cacheAt EXCEPT ![c] = now]
            /\ shots' = [shots EXCEPT ![c] = shots[c] + 1]
            /\ total' = [total EXCEPT ![c] = total[c] + 1]
            /\ mark' = [mark EXCEPT ![c] = handled + 1]
        BY <2>2, <3>1 DEF Emit
      <4>2. cacheAt' \in [CmdIds -> 0..MaxTime]
        BY <2>1, <4>1 DEF BackendTypeOK
      <4>3. mark' \in [CmdIds -> Nat]
        BY <2>1, <4>1
      <4>4. shots' \in [CmdIds -> Nat]
        BY <2>1, <4>1
      <4>5. total' \in [CmdIds -> Nat]
        BY <2>1, <4>1
      <4>6. QED
        BY <4>2, <4>3, <4>4, <4>5
    <3>2. CASE v # "ir_executed"
      BY <2>2, <3>2 DEF Emit
    <3>3. QED
      BY <3>1, <3>2
  <2>6. QED
    BY <2>2, <2>3, <2>4, <2>5
<1>8. CASE UNCHANGED vars
  BY <1>1, <1>8 DEF vars, downVars
<1>9. QED
  BY <1>3, <1>4, <1>5, <1>6, <1>7, <1>8 DEF Next

\* No handler writes a value outside the type of its variable, given that the
\* messages it takes off a link name rows that exist.
LEMMA TypeStep ==
  ASSUME TypeOK, StreamsOK, [Next]_vars
  PROVE  TypeOK' /\ StreamsOK'
<1>1. StreamsOK'
  BY StreamStep
<1>2. Created' \subseteq CmdIds
  BY DEF Created
<1>3. AckOf(Created') \subseteq Acks /\ MailOf(Created') \subseteq Acks \cup Pubacks
  BY <1>2 DEF AckOf, MailOf, Acks, Pubacks
<1>4. /\ toBroker' \in Seq(CmdIds)
      /\ toDevice' \in Seq(CmdIds)
      /\ fromDevice' \in Seq(Acks)
      /\ fromBroker' \in Seq(Acks \cup Pubacks)
  BY <1>1, <1>2, <1>3, SeqMonotonic DEF StreamsOK
<1>5. QED
  BY <1>1, <1>4, BackendTypeStep, DeviceTypeStep DEF TypeOK, StreamTypeOK

(***************************************************************************)
(* The dedupe argument.                                                    *)
(***************************************************************************)

Forget ==
  /\ recent' = [c \in CmdIds |-> RingSize]
  /\ cacheAge' = [c \in CmdIds |-> CacheSize]
  /\ shots' = [c \in CmdIds |-> 0]
  /\ total' = total

Handle(c, v) ==
  /\ devUp
  /\ Record(c, v)
  /\ Emit(c, v)
  /\ UNCHANGED <<now, row, devUp, synced>>

\* Only a reboot and the handling of one command touch the dedupe structures.
LEMMA DedupStep ==
  ASSUME TypeOK, StreamsOK, [Next]_vars
  PROVE  \/ UNCHANGED dedupVars
         \/ Forget
         \/ \E c \in Created, short \in BOOLEAN : Handle(c, Verdict(c, short))
<1>1. ASSUME NEW c \in CmdIds, NEW k \in Keys, NEW p \in Payloads, NEW life \in Lifetimes(p),
             DispatchIr(c, k, p, life) \/ DispatchPlain(c, k, p, life)
      PROVE  UNCHANGED dedupVars
  BY <1>1 DEF DispatchIr, DispatchPlain
<1>2. CASE Tick \/ ReceivePuback \/ ReceiveAck \/ ExpireStale \/ BackendDrop
             \/ BackendReconnect \/ BackendRestart \/ BrokerRoute \/ BrokerForwardAck
             \/ DeviceConnect \/ ClockSync \/ DeviceDrop
  BY <1>2 DEF Tick, ReceivePuback, ReceiveAck, ExpireStale, BackendDrop,
     BackendReconnect, BackendRestart, BrokerRoute, BrokerForwardAck,
     DeviceConnect, ClockSync, DeviceDrop
<1>3. CASE DeviceReboot
  BY <1>3 DEF DeviceReboot, Forget
<1>4. ASSUME NEW short \in BOOLEAN, NEW sent \in BOOLEAN, HandleCommand(short, sent)
      PROVE  \E c \in Created : Handle(c, Verdict(c, short))
  <2>1. Head(toDevice) \in Created
    BY <1>4, SeqOps DEF HandleCommand, StreamsOK
  <2>2. Handle(Head(toDevice), Verdict(Head(toDevice), short))
    BY <1>4 DEF HandleCommand, Handle, backendVars
  <2>3. QED
    BY <2>1, <2>2
<1>5. CASE UNCHANGED vars
  BY <1>5 DEF vars
<1>6. QED
  BY <1>1, <1>2, <1>3, <1>4, <1>5 DEF Next

\* An emission has passed every check of the device.
LEMMA ExecutedPassed ==
  ASSUME NEW c \in CmdIds, NEW short \in BOOLEAN, Verdict(c, short) = "ir_executed"
  PROVE  ~IsExpired(c) /\ ~InRing(c) /\ ~InCache(c) /\ IsIr(c)
<1>1. Validate(c) = "accepted_mock" /\ IsIr(c)
  BY DEF Verdict, Validate
<1>2. SendOnce(c, short) = "ir_executed"
  BY <1>1 DEF Verdict
<1>3. QED
  BY <1>1, <1>2 DEF Validate, SendOnce

\* One more turn of a ring of size r: the arithmetic of RingOK.
LEMMA OneMoreTurn ==
  ASSUME NEW n \in Nat, NEW r \in Nat, NEW m \in Nat, NEW h \in Nat,
         (n - 1) * (r + 1) < m, r <= h - m
  PROVE  ((n + 1) - 1) * (r + 1) < h + 1
<1>1. n * (r + 1) = (n - 1) * (r + 1) + (r + 1)
  OBVIOUS
<1>2. (n - 1) * (r + 1) \in Int /\ n * (r + 1) \in Int
  OBVIOUS
<1>3. QED
  BY <1>1, <1>2

\* RingOK is inductive: a record ages everything else by one, an emission
\* needs the ring to have forgotten the command.
LEMMA RingStep ==
  ASSUME TypeOK, StreamsOK, RingOK, [Next]_vars
  PROVE  RingOK'
<1> USE DEF TypeOK, DeviceTypeOK
<1>1. CASE UNCHANGED dedupVars
  BY <1>1 DEF RingOK, dedupVars
<1>2. CASE Forget
  BY <1>2 DEF Forget, RingOK
<1>3. ASSUME NEW c \in Created, NEW short \in BOOLEAN, Handle(c, Verdict(c, short)),
             NEW d \in CmdIds, shots'[d] >= 1
      PROVE  /\ recent'[d] <= handled' - mark'[d]
             /\ (shots'[d] - 1) * (RingSize + 1) < mark'[d]
  <2> DEFINE v == Verdict(c, short)
  <2>1. c \in CmdIds /\ Record(c, v) /\ Emit(c, v)
    BY <1>3 DEF Handle, Created
  <2>2. CASE v = "ir_executed"
    <3>1. ~InRing(c)
      BY <2>1, <2>2, ExecutedPassed
    <3>2. recent[c] = RingSize
      BY <2>1, <3>1, SizesAssumption DEF InRing
    <3>3. /\ recent' = Push(recent, c, RingSize)
          /\ handled' = handled + 1
          /\ shots' = [shots EXCEPT ![c] = shots[c] + 1]
          /\ mark' = [mark EXCEPT ![c] = handled + 1]
      BY <2>1, <2>2 DEF Record, Emit, Unrecorded
    <3>4. CASE d = c
      <4>1. recent'[d] = 0 /\ mark'[d] = handled' /\ shots'[d] = shots[c] + 1
        BY <2>1, <3>3, <3>4 DEF Push
      <4>2. CASE shots[c] = 0
        BY <3>3, <4>1, <4>2, SizesAssumption
      <4>3. CASE shots[c] >= 1
        <5>1. RingSize <= handled - mark[c] /\ (shots[c] - 1) * (RingSize + 1) < mark[c]
          BY <2>1, <3>2, <4>3 DEF RingOK
        <5>2. ((shots[c] + 1) - 1) * (RingSize + 1) < handled + 1
          BY <2>1, <5>1, OneMoreTurn, SizesAssumption
        <5>3. QED
          BY <3>3, <4>1, <5>2
      <4>4. QED
        BY <2>1, <4>2, <4>3
    <3>5. CASE d # c
      <4>1. shots'[d] = shots[d] /\ mark'[d] = mark[d] /\ recent'[d] <= recent[d] + 1
        BY <2>1, <3>3, <3>5, SizesAssumption DEF Push
      <4>2. recent'[d] \in Nat
        BY DeviceTypeStep, SizesAssumption
      <4>3. QED
        BY <1>3, <3>3, <4>1, <4>2, SizesAssumption DEF RingOK
    <3>6. QED
      BY <3>4, <3>5
  <2>3. CASE v # "ir_executed"
    <3>1. shots' = shots /\ mark' = mark
      BY <2>1, <2>3 DEF Emit
    <3>2. recent[d] <= handled - mark[d] /\ (shots[d] - 1) * (RingSize + 1) < mark[d]
      BY <1>3, <3>1 DEF RingOK
    <3>3. \/ recent' = recent /\ handled' = handled
          \/ recent' = Push(recent, c, RingSize) /\ handled' = handled + 1
      BY <2>1 DEF Record
    <3>4. recent'[d] <= recent[d] + (handled' - handled)
      BY <2>1, <3>3, SizesAssumption DEF Push
    <3>5. recent'[d] \in Nat /\ handled' \in Nat
      BY DeviceTypeStep, SizesAssumption
    <3>6. QED
      BY <3>1, <3>2, <3>4, <3>5, SizesAssumption
  <2>4. QED
    BY <2>2, <2>3
<1>4. QED
  BY <1>1, <1>2, <1>3, DedupStep DEF RingOK

(***************************************************************************)
(* Rows, emissions and the clock.                                          *)
(***************************************************************************)

SameRequests ==
  /\ Created' = Created
  /\ \A c \in CmdIds : /\ row'[c].key = row[c].key
                       /\ row'[c].payload = row[c].payload
                       /\ row'[c].expires = row[c].expires

Inserts(c, k, p, life, st) ==
  /\ TryInsert(c, k, p, life, st)
  /\ UNCHANGED <<now, dedupVars>>

\* Every step but an insert leaves each row's request as it is.
LEMMA RowStep ==
  ASSUME TypeOK, StreamsOK, [Next]_vars
  PROVE  \/ SameRequests
         \/ \E c \in CmdIds, k \in Keys, p \in Payloads : \E life \in Lifetimes(p) :
              \E st \in Statuses : Inserts(c, k, p, life, st)
<1> USE DEF TypeOK, BackendTypeOK
<1>1. ASSUME UNCHANGED row PROVE SameRequests
  BY <1>1 DEF SameRequests, Created
<1>2. ASSUME NEW c \in Created, NEW st \in Statuses, NEW b \in BOOLEAN,
             \/ row' = [row EXCEPT ![c].status = st]
             \/ row' = [row EXCEPT ![c].status = st, ![c].acked = b]
      PROVE  SameRequests
  <2>1. c \in CmdIds /\ row[c] \in Rows
    BY CreatedRows DEF Created
  <2>2. ASSUME NEW d \in CmdIds
        PROVE  /\ row'[d].key = row[d].key
               /\ row'[d].payload = row[d].payload
               /\ row'[d].expires = row[d].expires
               /\ row'[d].status = IF d = c THEN st ELSE row[d].status
    BY <1>2, <2>1 DEF Rows
  <2>3. row[c].status # "absent" /\ st # "absent"
    BY <2>1 DEF Rows, Statuses, DeviceVerdicts
  <2>4. Created' = Created
    BY <2>2, <2>3 DEF Created
  <2>5. QED
    BY <2>2, <2>4 DEF SameRequests
<1>3. ASSUME NEW c \in CmdIds, NEW k \in Keys, NEW p \in Payloads, NEW life \in Lifetimes(p),
             DispatchIr(c, k, p, life) \/ DispatchPlain(c, k, p, life)
      PROVE  \E st \in Statuses : Inserts(c, k, p, life, st)
  BY <1>3 DEF DispatchIr, DispatchPlain, Inserts, Statuses
<1>4. CASE ReceivePuback
  <2>1. Head(fromBroker).id \in Created
    BY <1>4, MailType DEF ReceivePuback, StreamsOK
  <2>2. QED
    BY <1>2, <1>4, <2>1 DEF ReceivePuback, Statuses
<1>5. CASE ReceiveAck
  <2>1. Head(fromBroker).id \in Created /\ Head(fromBroker).status \in DeviceVerdicts
    BY <1>5, MailType DEF ReceiveAck, StreamsOK
  <2>2. QED
    BY <1>2, <1>5, <2>1 DEF ReceiveAck, Statuses
<1>6. CASE ExpireStale
  <2>1. row' = [c \in CmdIds |-> IF IsStale(c) THEN [row[c] EXCEPT !.status = "expired"]
                                              ELSE row[c]]
    BY <1>6 DEF ExpireStale
  <2>2. ASSUME NEW c \in CmdIds
        PROVE  /\ row'[c].key = row[c].key
               /\ row'[c].payload = row[c].payload
               /\ row'[c].expires = row[c].expires
               /\ row'[c].status = "absent" <=> row[c].status = "absent"
    <3>1. CASE IsStale(c)
      <4>1. row[c] \in Rows /\ row'[c] = [row[c] EXCEPT !.status = "expired"]
        BY <2>1, <3>1, CreatedRows DEF IsStale
      <4>2. QED
        BY <4>1 DEF Rows, Statuses, DeviceVerdicts
    <3>2. CASE ~IsStale(c)
      BY <2>1, <3>2
    <3>3. QED
      BY <3>1, <3>2
  <2>3. QED
    BY <2>2 DEF SameRequests, Created
<1>7. CASE Tick \/ BackendDrop \/ BackendReconnect \/ BackendRestart \/ BrokerRoute
             \/ BrokerForwardAck \/ DeviceConnect \/ ClockSync \/ DeviceDrop
             \/ DeviceReboot \/ \E short, sent \in BOOLEAN : HandleCommand(short, sent)
  BY <1>1, <1>7 DEF Tick, BackendDrop, BackendReconnect, BackendRestart, BrokerRoute,
     BrokerForwardAck, DeviceConnect, ClockSync, DeviceDrop, DeviceReboot,
     HandleCommand, backendVars
<1>8. CASE UNCHANGED vars
  BY <1>1, <1>8 DEF vars, backendVars
<1>9. QED
  BY <1>3, <1>4, <1>5, <1>6, <1>7, <1>8 DEF Next

\* The wall clock never runs backwards.
LEMMA ClockForward ==
  ASSUME TypeOK, [Next]_vars
  PROVE  now' >= now
<1> SUFFICES ASSUME ~Tick PROVE UNCHANGED now
  BY DEF Tick, TypeOK, BackendTypeOK
<1>handled. ASSUME NEW short \in BOOLEAN, NEW sent \in BOOLEAN, HandleCommand(short, sent)
            PROVE  UNCHANGED now
  BY <1>handled DEF HandleCommand
<1>dispatched. ASSUME NEW c \in CmdIds, NEW k \in Keys, NEW p \in Payloads, NEW life \in Lifetimes(p),
                      DispatchIr(c, k, p, life) \/ DispatchPlain(c, k, p, life)
               PROVE  UNCHANGED now
  BY <1>dispatched DEF DispatchIr, DispatchPlain
<1>backend. ReceivePuback \/ ReceiveAck \/ ExpireStale \/ BackendDrop
              \/ BackendReconnect \/ BackendRestart => UNCHANGED now
  BY DEF ReceivePuback, ReceiveAck, ExpireStale, BackendDrop, BackendReconnect,
     BackendRestart
<1>line. BrokerRoute \/ BrokerForwardAck \/ DeviceConnect \/ ClockSync
           \/ DeviceDrop \/ DeviceReboot => UNCHANGED now
  BY DEF BrokerRoute, BrokerForwardAck, DeviceConnect, ClockSync, DeviceDrop,
     DeviceReboot
<1>. QED
  BY <1>handled, <1>dispatched, <1>backend, <1>line DEF Next, vars

\* RowsOK is inductive: the unique key keeps the keys apart, a clamped life
\* bounds the expiry.
LEMMA RowsStep ==
  ASSUME TypeOK, StreamsOK, RowsOK, [Next]_vars
  PROVE  RowsOK'
<1> USE DEF TypeOK, BackendTypeOK
<1>1. CASE SameRequests
  <2>1. \A c, d \in Created' : c # d => row'[c].key # row'[d].key
    BY <1>1 DEF SameRequests, RowsOK, Created
  <2>2. ASSUME NEW c \in Created', IsIr(c)'
        PROVE  \E t \in TtlRequests : row'[c].expires <= now' + ClampTtl(t)
    <3>1. c \in CmdIds /\ c \in Created /\ IsIr(c) /\ row'[c].expires = row[c].expires
      BY <1>1, <2>2 DEF SameRequests, Created, IsIr
    <3>2. PICK t \in TtlRequests : row[c].expires <= now + ClampTtl(t)
      BY <3>1 DEF RowsOK
    <3>3. row[c].expires \in Int /\ ClampTtl(t) \in Int /\ now' \in Nat /\ now \in Nat
      BY <3>1, CreatedRows, TimeAssumption, BackendTypeStep, StreamStep DEF Rows, ClampTtl
    <3>4. row'[c].expires <= now' + ClampTtl(t)
      BY <3>1, <3>2, <3>3, ClockForward
    <3>5. QED
      BY <3>4
  <2>3. QED
    BY <2>1, <2>2 DEF RowsOK
<1>2. ASSUME NEW c \in CmdIds, NEW k \in Keys, NEW p \in Payloads, NEW life \in Lifetimes(p),
             NEW st \in Statuses, Inserts(c, k, p, life, st)
      PROVE  RowsOK'
  <2>1. /\ \A d \in Created : row[d].key # k
        /\ row'[c].key = k
        /\ row'[c].payload = p
        /\ row'[c].expires = now + life
        /\ \A d \in CmdIds : d # c => row'[d] = row[d]
        /\ now' = now
    BY <1>2 DEF Inserts, TryInsert
  <2>2. \A d \in Created' : d = c \/ d \in Created
    BY <2>1 DEF Created
  <2>3. \A d, e \in Created' : d # e => row'[d].key # row'[e].key
    BY <2>1, <2>2 DEF RowsOK, Created
  <2>4. ASSUME NEW d \in Created', IsIr(d)'
        PROVE  \E t \in TtlRequests : row'[d].expires <= now' + ClampTtl(t)
    <3>1. CASE d = c
      <4>1. PICK t \in TtlRequests : life = ClampTtl(t)
        BY <2>1, <2>4, <3>1, LifetimesType DEF IsIr
      <4>2. life \in Int
        BY LifetimesType
      <4>3. QED
        BY <2>1, <3>1, <4>1, <4>2
    <3>2. CASE d # c
      BY <2>1, <2>2, <2>4, <3>2 DEF RowsOK, IsIr, Created
    <3>3. QED
      BY <3>1, <3>2
  <2>5. QED
    BY <2>3, <2>4 DEF RowsOK
<1>3. QED
  BY <1>1, <1>2, RowStep

\* EmittedOK is inductive: what is emitted has an IR row that has not expired
\* by more than its life, and rows keep their requests.
LEMMA EmittedStep ==
  ASSUME TypeOK, StreamsOK, RowsOK, EmittedOK, [Next]_vars
  PROVE  EmittedOK'
<1> USE DEF TypeOK, DeviceTypeOK
<1>1. ASSUME NEW c \in CmdIds, c \in Created
      PROVE  /\ c \in Created'
             /\ row'[c].payload = row[c].payload
             /\ row'[c].expires = row[c].expires
  <2>1. CASE SameRequests
    BY <1>1, <2>1 DEF SameRequests
  <2>2. ASSUME NEW d \in CmdIds, NEW k \in Keys, NEW p \in Payloads,
               NEW life \in Lifetimes(p), NEW st \in Statuses, Inserts(d, k, p, life, st)
        PROVE  row'[c] = row[c]
    BY <1>1, <2>2 DEF Inserts, TryInsert, BackendTypeOK
  <2>3. QED
    BY <1>1, <2>1, <2>2, RowStep, CreatedStep
<1>2. CASE UNCHANGED dedupVars
  BY <1>1, <1>2 DEF EmittedOK, dedupVars, IsIr
<1>3. CASE Forget
  BY <1>3 DEF Forget, EmittedOK
<1>4. ASSUME NEW c \in Created, NEW short \in BOOLEAN, Handle(c, Verdict(c, short)),
             NEW d \in CmdIds, shots'[d] >= 1
      PROVE  /\ d \in Created' /\ IsIr(d)'
             /\ \E t \in TtlRequests : row'[d].expires <= cacheAt'[d] + ClampTtl(t)
  <2> DEFINE v == Verdict(c, short)
  <2>1. c \in CmdIds /\ Emit(c, v)
    BY <1>4 DEF Handle, Created
  <2>2. CASE v = "ir_executed" /\ d = c
    <3>1. cacheAt'[d] = now
      BY <2>1, <2>2 DEF Emit
    <3>2. IsIr(c)
      BY <2>1, <2>2, ExecutedPassed
    <3>3. QED
      BY <1>1, <2>1, <2>2, <3>1, <3>2 DEF RowsOK, IsIr
  <2>3. CASE ~(v = "ir_executed" /\ d = c)
    <3>1. shots'[d] = shots[d] /\ cacheAt'[d] = cacheAt[d]
      BY <2>1, <2>3 DEF Emit
    <3>2. QED
      BY <1>1, <1>4, <3>1 DEF EmittedOK, IsIr
  <2>4. QED
    BY <2>2, <2>3
<1>5. QED
  BY <1>2, <1>3, <1>4, DedupStep DEF EmittedOK

\* A CA-pinned build is never connected with an unset clock.
LEMMA ClockStep ==
  ASSUME TypeOK, ClockOK, [Next]_vars
  PROVE  ClockOK'
<1> USE FlagAssumption DEF ClockOK, TypeOK, DeviceTypeOK
<1>1. CASE UNCHANGED <<devUp, synced>>
  BY <1>1
<1>2. ASSUME NEW c \in CmdIds, NEW k \in Keys, NEW p \in Payloads, NEW life \in Lifetimes(p),
             DispatchIr(c, k, p, life) \/ DispatchPlain(c, k, p, life)
      PROVE  UNCHANGED <<devUp, synced>>
  BY <1>2 DEF DispatchIr, DispatchPlain, downVars
<1>3. CASE Tick \/ ReceivePuback \/ ReceiveAck \/ ExpireStale \/ BackendDrop
             \/ BackendReconnect \/ BackendRestart \/ BrokerRoute \/ BrokerForwardAck
             \/ \E short, sent \in BOOLEAN : HandleCommand(short, sent)
  BY <1>1, <1>3 DEF Tick, ReceivePuback, ReceiveAck, ExpireStale, BackendDrop,
     BackendReconnect, BackendRestart, BrokerRoute, BrokerForwardAck, HandleCommand,
     downVars
<1>4. CASE DeviceConnect
  BY <1>4 DEF DeviceConnect
<1>5. CASE ClockSync
  BY <1>5 DEF ClockSync, downVars
<1>6. CASE DeviceDrop \/ DeviceReboot
  BY <1>6 DEF DeviceDrop, DeviceReboot
<1>7. CASE UNCHANGED vars
  BY <1>1, <1>7 DEF vars, downVars
<1>8. QED
  BY <1>1, <1>2, <1>3, <1>4, <1>5, <1>6, <1>7 DEF Next

\* The conjunction of the four arguments is an inductive invariant.
THEOREM Inductive == Spec => []PipelineInv
<1>1. Init => PipelineInv
  BY InitInv
<1>2. PipelineInv /\ [Next]_vars => PipelineInv'
  BY TypeStep, RingStep, RowsStep, EmittedStep, ClockStep DEF PipelineInv
<1>3. QED
  BY <1>1, <1>2, PTL DEF Spec

\* In every reachable state the variables have their types, and a PUBACK or an
\* ack only ever finds a row that exists (markCommandPublished and
\* updateCommandAck never update nothing).
THEOREM Typing == Spec => [](TypeOK /\ StreamsOK)
<1>1. PipelineInv => TypeOK /\ StreamsOK
  BY DEF PipelineInv
<1>2. QED
  BY <1>1, Inductive, PTL

\* EmissionBudget holds for every ring size and any number of drops, reboots
\* and redeliveries: the ring's turn is the price of each repeated emission.
THEOREM Budget == Spec => []EmissionBudget
<1>1. ASSUME PipelineInv PROVE EmissionBudget
  <2>1. ASSUME NEW c \in CmdIds, shots[c] >= 1
        PROVE  (shots[c] - 1) * (RingSize + 1) < handled
    <3>1. /\ recent[c] \in Nat /\ mark[c] \in Nat /\ handled \in Nat
          /\ shots[c] \in Nat
      BY <1>1, SizesAssumption DEF PipelineInv, TypeOK, DeviceTypeOK
    <3>2. recent[c] <= handled - mark[c] /\ (shots[c] - 1) * (RingSize + 1) < mark[c]
      BY <1>1, <2>1 DEF PipelineInv, RingOK
    <3>3. (shots[c] - 1) * (RingSize + 1) \in Int
      BY <3>1, SizesAssumption
    <3>4. QED
      BY <3>1, <3>2, <3>3
  <2>2. QED
    BY <2>1 DEF EmissionBudget
<1>2. QED
  BY <1>1, Inductive, PTL

\* OneEmissionPerKey: the double-tap promise, from the budget and the unique
\* key of the commands table.
THEOREM OnePerKey == Spec => []OneEmissionPerKey
<1>1. ASSUME PipelineInv, handled <= RingSize + 1, NEW c \in CmdIds
      PROVE  shots[c] <= 1
  <2>1. /\ recent[c] \in Nat /\ mark[c] \in Nat /\ handled \in Nat /\ shots[c] \in Nat
        /\ RingSize \in Nat
    BY <1>1, SizesAssumption DEF PipelineInv, TypeOK, DeviceTypeOK
  <2>2. SUFFICES ASSUME shots[c] >= 2 PROVE FALSE
    BY <2>1
  <2>3. recent[c] <= handled - mark[c] /\ (shots[c] - 1) * (RingSize + 1) < mark[c]
    BY <1>1, <2>1, <2>2 DEF PipelineInv, RingOK
  <2>4. (shots[c] - 1) * (RingSize + 1) >= RingSize + 1
    <3>1. \A n \in Nat, r \in Nat : n >= 1 => n * r >= r
      OBVIOUS
    <3>2. shots[c] - 1 \in Nat /\ shots[c] - 1 >= 1 /\ RingSize + 1 \in Nat
      BY <2>1, <2>2
    <3>3. QED
      BY <3>1, <3>2
  <2>5. (shots[c] - 1) * (RingSize + 1) \in Int
    BY <2>1
  <2>6. QED
    BY <1>1, <2>1, <2>3, <2>4, <2>5
<1>2. ASSUME PipelineInv, NEW c \in CmdIds, NEW d \in CmdIds, c # d, shots[c] > 0, shots[d] > 0
      PROVE  row[c].key # row[d].key
  <2>1. shots[c] >= 1 /\ shots[d] >= 1
    BY <1>2 DEF PipelineInv, TypeOK, DeviceTypeOK
  <2>2. QED
    BY <1>2, <2>1 DEF PipelineInv, EmittedOK, RowsOK
<1>3. PipelineInv => OneEmissionPerKey
  BY <1>1, <1>2 DEF OneEmissionPerKey
<1>4. QED
  BY <1>3, Inductive, PTL

\* What a step that emits c has found: the command passed every check, and the
\* row, the wall clock and the device's clock did not move.
LEMMA EmittingStep ==
  ASSUME PipelineInv, [Next]_vars, NEW c \in CmdIds, shots'[c] > shots[c]
  PROVE  /\ devUp /\ c \in Created
         /\ ~IsExpired(c) /\ ~InRing(c) /\ ~InCache(c)
<1> USE DEF PipelineInv, TypeOK, DeviceTypeOK
<1>1. CASE UNCHANGED dedupVars
  BY <1>1 DEF dedupVars
<1>2. CASE Forget
  BY <1>2 DEF Forget
<1>3. ASSUME NEW d \in Created, NEW short \in BOOLEAN, Handle(d, Verdict(d, short))
      PROVE  /\ devUp /\ c \in Created
             /\ ~IsExpired(c) /\ ~InRing(c) /\ ~InCache(c)
  <2>1. devUp /\ d \in CmdIds /\ Emit(d, Verdict(d, short))
    BY <1>3 DEF Handle, Created
  <2>2. Verdict(d, short) = "ir_executed" /\ c = d
    BY <2>1 DEF Emit
  <2>3. QED
    BY <2>1, <2>2, ExecutedPassed
<1>4. QED
  BY <1>1, <1>2, <1>3, DedupStep

\* A command that is not expired on the device's clock is less than one grain
\* past its expiry on the wall clock.
LEMMA GrainBound ==
  ASSUME PipelineInv, NEW c \in Created, synced, ~IsExpired(c)
  PROVE  now < row[c].expires + Grain
<1>1. row[c].expires \in Int /\ now \in Nat /\ Grain \in Nat \ {0}
  BY CreatedRows, TimeAssumption DEF PipelineInv, TypeOK, BackendTypeOK, Created, Rows
<1>2. now % Grain < Grain /\ now % Grain \in Nat
  BY <1>1
<1>3. now - (now % Grain) <= row[c].expires
  BY <1>1, <1>2 DEF IsExpired, DeviceNow
<1>4. QED
  BY <1>1, <1>2, <1>3

\* EmissionIsTimely: no command is emitted a second past its expiry by a device
\* with a set clock, and a CA-pinned device always has one when it listens.
THEOREM Timely == Spec => EmissionIsTimely
<1>1. ASSUME PipelineInv, [Next]_vars
      PROVE  \A c \in CmdIds : shots'[c] > shots[c] /\ (synced \/ TlsNeedsClock)
               => now < row[c].expires + Grain
  BY <1>1, EmittingStep, GrainBound DEF PipelineInv, ClockOK
<1>2. QED
  BY <1>1, Inductive, PTL DEF Spec, EmissionIsTimely

\* ReplayNeedsEviction: within one boot, neither dedupe layer alone lets a
\* repeated command through.
THEOREM NeedsEviction == Spec => ReplayNeedsEviction
<1>1. ASSUME PipelineInv, [Next]_vars, NEW c \in CmdIds,
             shots[c] > 0, shots'[c] > shots[c], synced, CacheOutlivesCommands
      PROVE  cacheAge[c] = CacheSize /\ handled - mark[c] >= RingSize
  <2>1. /\ cacheAge[c] \in 0..CacheSize /\ recent[c] \in 0..RingSize
        /\ mark[c] \in Nat /\ handled \in Nat /\ shots[c] \in Nat /\ cacheAt[c] \in Nat
        /\ now \in Nat /\ RingSize \in Nat /\ CacheSize \in Nat /\ Grain \in Nat
        /\ CacheTtl \in Nat
    BY <1>1, SizesAssumption, TimeAssumption
    DEF PipelineInv, TypeOK, DeviceTypeOK, BackendTypeOK
  <2>2. c \in Created /\ ~IsExpired(c) /\ ~InRing(c) /\ ~InCache(c)
    BY <1>1, EmittingStep
  <2>3. now < row[c].expires + Grain
    BY <1>1, <2>2, GrainBound
  <2>4. PICK t \in TtlRequests : row[c].expires <= cacheAt[c] + ClampTtl(t)
    BY <1>1, <2>1 DEF PipelineInv, EmittedOK
  <2>5. row[c].expires \in Int /\ ClampTtl(t) \in Int
    BY <1>1, <2>2, CreatedRows, TimeAssumption
    DEF PipelineInv, TypeOK, BackendTypeOK, Created, Rows, ClampTtl
  <2>6. ClampTtl(t) + Grain <= CacheTtl + 1
    BY <1>1 DEF CacheOutlivesCommands
  <2>7. now - cacheAt[c] <= CacheTtl
    BY <2>1, <2>3, <2>4, <2>5, <2>6
  <2>8. cacheAge[c] = CacheSize
    BY <2>1, <2>2, <2>7 DEF InCache
  <2>9. handled - mark[c] >= RingSize
    BY <1>1, <2>1, <2>2 DEF InRing, PipelineInv, RingOK
  <2>10. QED
    BY <2>8, <2>9
<1>2. ASSUME PipelineInv, [Next]_vars
      PROVE  \A c \in CmdIds :
               shots[c] > 0 /\ shots'[c] > shots[c] /\ synced /\ CacheOutlivesCommands
                 => cacheAge[c] = CacheSize /\ handled - mark[c] >= RingSize
  BY <1>1, <1>2
<1>3. QED
  BY <1>2, Inductive, PTL DEF Spec, ReplayNeedsEviction

(***************************************************************************)
(* The contract.                                                           *)
(***************************************************************************)

Ledger == {[id |-> c, key |-> row[c].key] : c \in Created}

\* A ring that has recorded no more ids than it holds forgets none of them, so a
\* step of the pipeline is a step of the contract or none.
LEMMA ContractStep ==
  ASSUME PipelineInv, handled <= RingSize, [Next]_vars
  PROVE  [Promise!Next]_(Promise!contractVars)
<1> USE DEF PipelineInv, TypeOK, DeviceTypeOK, Promise!contractVars
<1>1. ASSUME SameRequests PROVE Ledger' = Ledger
  <2>1. Created' = Created /\ Created \subseteq CmdIds
    BY <1>1 DEF SameRequests, Created
  <2>2. \A c \in Created : row'[c].key = row[c].key
    BY <1>1, <2>1 DEF SameRequests
  <2>. QED
    BY <2>1, <2>2 DEF Ledger
<1>2. ASSUME SameRequests, UNCHANGED dedupVars
      PROVE  UNCHANGED Promise!contractVars
  BY <1>1, <1>2 DEF dedupVars, Ledger
<1>3. ASSUME SameRequests, Forget
      PROVE  Promise!Reboot
  BY <1>1, <1>3 DEF Forget, Promise!Reboot, Ledger
<1>4. ASSUME SameRequests, NEW c \in Created, NEW short \in BOOLEAN,
             Handle(c, Verdict(c, short))
      PROVE  Promise!Actuate(c) \/ UNCHANGED Promise!contractVars
  <2>1. Ledger' = Ledger
    BY <1>1, <1>4
  <2>2. c \in CmdIds /\ Emit(c, Verdict(c, short))
    BY <1>4 DEF Handle, Created
  <2>3. CASE Verdict(c, short) = "ir_executed"
    <3>1. shots' = [shots EXCEPT ![c] = shots[c] + 1]
      BY <2>2, <2>3 DEF Emit
    <3>2. shots[c] = 0
      <4>1. /\ recent[c] \in 0..RingSize /\ mark[c] \in Nat /\ handled \in Nat
            /\ shots[c] \in Nat /\ RingSize \in Nat
        BY <2>2, SizesAssumption
      <4>2. recent[c] = RingSize
        BY <2>2, <2>3, <4>1, ExecutedPassed DEF InRing
      <4>3. SUFFICES ASSUME shots[c] >= 1 PROVE FALSE
        BY <4>1
      <4>4. recent[c] <= handled - mark[c] /\ (shots[c] - 1) * (RingSize + 1) < mark[c]
        BY <2>2, <4>3 DEF RingOK
      <4>5. (shots[c] - 1) * (RingSize + 1) >= 0
        <5>1. \A n, r \in Nat : n * r >= 0
          OBVIOUS
        <5>. QED
          BY <5>1, <4>1, <4>3
      <4>. QED
        BY <4>1, <4>2, <4>4, <4>5
    <3>3. [id |-> c, key |-> row[c].key] \in Ledger
      BY <1>4 DEF Ledger
    <3>4. c \in {e.id : e \in Ledger}
      BY <3>3
    <3>. QED
      BY <3>1, <3>2, <3>4, <2>1 DEF Promise!Actuate, Promise!Accepted, Ledger
  <2>4. CASE Verdict(c, short) # "ir_executed"
    BY <2>1, <2>2, <2>4 DEF Emit, Ledger
  <2>. QED
    BY <2>3, <2>4
<1>5. ASSUME NEW c \in CmdIds, NEW k \in Keys, NEW p \in Payloads, NEW life \in Lifetimes(p),
             NEW st \in Statuses, Inserts(c, k, p, life, st)
      PROVE  Promise!Accept(c, k)
  <2>1. TryInsert(c, k, p, life, st) /\ shots' = shots
    BY <1>5 DEF Inserts, dedupVars
  <2>2. st # "absent"
    BY DEF Statuses, DeviceVerdicts
  <2>3. /\ c \notin Created /\ \A d \in Created : d # c /\ row[d].key # k
        /\ row'[c].key = k /\ row'[c].status = st
        /\ \A d \in CmdIds : d # c => row'[d] = row[d]
    BY <2>1 DEF TryInsert, BackendTypeOK
  <2>4. Created' = Created \cup {c}
    BY <2>2, <2>3 DEF Created
  <2>5. \A d \in Created : row'[d] = row[d]
    BY <2>3 DEF Created
  <2>6. Ledger' = Ledger \cup {[id |-> c, key |-> k]}
    BY <2>3, <2>4, <2>5 DEF Ledger
  <2>7. \A e \in Ledger : e.id # c /\ e.key # k
    BY <2>3 DEF Ledger
  <2>. QED
    BY <2>1, <2>6, <2>7 DEF Promise!Accept, Ledger
<1>6. CASE SameRequests
  <2>1. \/ UNCHANGED dedupVars
        \/ Forget
        \/ \E c \in Created, short \in BOOLEAN : Handle(c, Verdict(c, short))
    BY DedupStep
  <2>2. Created \subseteq CmdIds
    BY DEF Created
  <2>. QED
    BY <1>2, <1>3, <1>4, <1>6, <2>1, <2>2 DEF Promise!Next
<1>7. CASE ~SameRequests
  <2>1. PICK c \in CmdIds, k \in Keys, p \in Payloads :
          \E life \in Lifetimes(p) : \E st \in Statuses : Inserts(c, k, p, life, st)
    BY <1>7, RowStep
  <2>. QED
    BY <1>5, <2>1 DEF Promise!Next
<1>. QED
  BY <1>6, <1>7

\* The command path implements the button contract for as long as no boot of
\* the device records more ids than the ring holds, through every redelivery,
\* lost ack, reconnect and restart.
THEOREM Refinement == Spec /\ [](handled <= RingSize) => Contract
<1>1. Init => Promise!Init
  BY DEF Init, NoRow, Created, Promise!Init
<1>2. PipelineInv /\ handled <= RingSize /\ [Next]_vars => [Promise!Next]_(Promise!contractVars)
  BY ContractStep
<1>. QED
  BY <1>1, <1>2, Inductive, PTL DEF Spec, Contract, Promise!Contract

------------------------------------------------------------------------------
(***************************************************************************)
(* OutcomeTruth: what a row says of a command's emission is true, through  *)
(* lost acks, resends, reboots and the expiry sweep.                       *)
(*                                                                         *)
(* The invariant follows a verdict from the device to the row.  A success  *)
(* is a statement about the past, which no later step undoes.  A refusal   *)
(* is one about the future, and holds only because a refused payload would *)
(* be refused again: it is stated of the payload.                          *)
(***************************************************************************)
Refusals == {"ir_unknown_code", "ir_state_disabled", "rejected", "accepted_mock",
             "blocked_by_ir_policy"}

\* The payload passes every check of the device that time does not change.
Emittable(c) ==
  /\ IsIr(c) /\ IrMutating
  /\ row[c].payload \notin OutOfRange \cup UnknownCodes \cup DisabledCodes

TrueOf(c, status) ==
  /\ status \in {"ir_executed", "ir_module_busy"} => total[c] > 0
  /\ status \in Refusals => ~Emittable(c)

TrueMail == {m \in MailOf(Created) : TrueOf(m.id, m.status)}

RowsTrue == \A c \in Created : TrueOf(c, row[c].status)

AcksTrue == fromBroker \in Seq(TrueMail) /\ fromDevice \in Seq(TrueMail)

\* What the execution cache holds was emitted.
EmittedTrue ==
  /\ \A c \in CmdIds : total[c] > 0 => c \in Created /\ Emittable(c)
  /\ \A c \in CmdIds : cacheAge[c] < CacheSize => total[c] > 0

OutcomeInv == RowsTrue /\ AcksTrue /\ EmittedTrue

(***************************************************************************)
(* What is true stays true.                                                *)
(***************************************************************************)

\* With no row and no emission nothing is claimed.
LEMMA OutcomeInit == Init => OutcomeInv
<1> SUFFICES ASSUME Init PROVE OutcomeInv
  OBVIOUS
<1>1. Created = {} /\ fromBroker = <<>> /\ fromDevice = <<>>
  BY DEF Init, Created, NoRow
<1>2. \A c \in CmdIds : total[c] = 0 /\ cacheAge[c] = CacheSize
  BY DEF Init
<1>3. EmittedTrue
  BY <1>2, SizesAssumption DEF EmittedTrue
<1>4. RowsTrue /\ AcksTrue
  BY <1>1 DEF RowsTrue, AcksTrue
<1>. QED
  BY <1>3, <1>4 DEF OutcomeInv

\* The verdict of the device is true after the step that gives it, which is the
\* step that emits.
LEMMA VerdictTrue ==
  ASSUME PipelineInv, OutcomeInv, NEW c \in Created, NEW short \in BOOLEAN,
         NEW v, v = Verdict(c, short), Emit(c, v), row' = row
  PROVE  /\ TrueOf(c, v)'
         /\ v = "ir_executed" => Emittable(c)
<1>0. c \in CmdIds /\ total \in [CmdIds -> Nat] /\ cacheAge \in [CmdIds -> 0..CacheSize]
  BY DEF Created, PipelineInv, TypeOK, DeviceTypeOK
<1>1. Emittable(c)' <=> Emittable(c)
  BY DEF Emittable, IsIr
<1>2. CASE v = "ir_executed"
  <2>1. total'[c] > 0
    BY <1>0, <1>2 DEF Emit
  <2>2. Validate(c) = "accepted_mock" /\ IsIr(c)
    BY <1>2 DEF Verdict, Validate
  <2>3. Emittable(c)
    BY <2>2, FlagAssumption DEF Validate, Emittable
  <2>. QED
    BY <1>2, <2>1, <2>3 DEF TrueOf, Refusals
<1>3. CASE v = "ir_module_busy"
  <2>1. InCache(c)
    BY <1>3 DEF Verdict, Validate, SendOnce
  <2>2. total[c] > 0
    BY <1>0, <2>1 DEF InCache, OutcomeInv, EmittedTrue
  <2>3. total'[c] = total[c]
    BY <1>3 DEF Emit
  <2>. QED
    BY <1>3, <2>2, <2>3 DEF TrueOf, Refusals
<1>4. CASE v \in Refusals
  <2>1. ~Emittable(c)
    BY <1>4 DEF Verdict, Validate, SendOnce, Refusals, Emittable
  <2>. QED
    BY <1>1, <1>4, <2>1 DEF TrueOf, Refusals
<1>5. CASE v \notin Refusals \cup {"ir_executed", "ir_module_busy"}
  BY <1>5 DEF TrueOf
<1>. QED
  BY <1>2, <1>3, <1>4, <1>5

\* No step takes an emission back, changes what a command asks for, or emits
\* what would be refused.
LEMMA TruthLasts ==
  ASSUME PipelineInv, OutcomeInv, [Next]_vars
  PROVE  /\ \A c \in Created : Emittable(c)' <=> Emittable(c)
         /\ \A c \in CmdIds : total'[c] >= total[c]
         /\ EmittedTrue'
<1>0. /\ total \in [CmdIds -> Nat] /\ cacheAge \in [CmdIds -> 0..CacheSize]
      /\ CacheSize \in Nat
  BY SizesAssumption DEF PipelineInv, TypeOK, DeviceTypeOK
<1>1. \A c \in Created : row'[c].payload = row[c].payload
  <2>1. CASE SameRequests
    BY <2>1 DEF SameRequests, Created
  <2>2. CASE ~SameRequests
    <3>1. PICK d \in CmdIds, k \in Keys, p \in Payloads :
            \E life \in Lifetimes(p) : \E st \in Statuses : Inserts(d, k, p, life, st)
      BY <2>2, RowStep DEF PipelineInv
    <3>. QED
      BY <3>1 DEF Inserts, TryInsert, Created, PipelineInv, TypeOK, BackendTypeOK
  <2>. QED
    BY <2>1, <2>2
<1>2. \A c \in Created : Emittable(c)' <=> Emittable(c)
  BY <1>1 DEF Emittable, IsIr
<1>3. Created \subseteq Created' /\ Created \subseteq CmdIds
  BY CreatedStep DEF PipelineInv, Created
<1>4. CASE UNCHANGED dedupVars
  <2>1. total' = total /\ cacheAge' = cacheAge
    BY <1>4 DEF dedupVars
  <2>. QED
    BY <2>1, <1>0, <1>2, <1>3 DEF OutcomeInv, EmittedTrue
<1>5. CASE Forget
  <2>1. total' = total /\ \A c \in CmdIds : ~(cacheAge'[c] < CacheSize)
    BY <1>5, <1>0 DEF Forget
  <2>. QED
    BY <2>1, <1>0, <1>2, <1>3 DEF OutcomeInv, EmittedTrue
<1>6. ASSUME NEW c \in Created, NEW short \in BOOLEAN, Handle(c, Verdict(c, short))
      PROVE  EmittedTrue' /\ \A d \in CmdIds : total'[d] >= total[d]
  <2>1. c \in CmdIds /\ Emit(c, Verdict(c, short)) /\ row' = row
    BY <1>3, <1>6 DEF Handle
  <2>2. CASE Verdict(c, short) = "ir_executed"
    <3>1. Emittable(c)
      BY <2>1, <2>2, VerdictTrue
    <3>2. /\ total' = [total EXCEPT ![c] = total[c] + 1]
          /\ cacheAge' = Push(cacheAge, c, CacheSize)
      BY <2>1, <2>2 DEF Emit
    <3>3. \A d \in CmdIds : total'[d] = IF d = c THEN total[d] + 1 ELSE total[d]
      BY <3>2, <1>0
    <3>4. \A d \in CmdIds : d # c /\ cacheAge'[d] < CacheSize => cacheAge[d] < CacheSize
      BY <3>2, <1>0 DEF Push
    <3>5. \A d \in CmdIds : total'[d] > 0 => d \in Created' /\ Emittable(d)'
      BY <3>1, <3>3, <1>2, <1>3, <1>0 DEF OutcomeInv, EmittedTrue
    <3>6. \A d \in CmdIds : cacheAge'[d] < CacheSize => total'[d] > 0
      BY <3>3, <3>4, <1>0, <2>1 DEF OutcomeInv, EmittedTrue
    <3>. QED
      BY <3>3, <3>5, <3>6, <1>0 DEF EmittedTrue
  <2>3. CASE Verdict(c, short) # "ir_executed"
    <3>1. total' = total /\ cacheAge' = cacheAge
      BY <2>1, <2>3 DEF Emit
    <3>. QED
      BY <3>1, <1>0, <1>2, <1>3 DEF OutcomeInv, EmittedTrue
  <2>. QED
    BY <2>2, <2>3
<1>. QED
  BY <1>2, <1>4, <1>5, <1>6, DedupStep DEF PipelineInv

\* So what an ack on its way says stays true.
LEMMA MailLasts ==
  ASSUME PipelineInv, OutcomeInv, [Next]_vars
  PROVE  /\ TrueMail \subseteq TrueMail'
         /\ \A c \in Created : \A s \in Statuses : TrueOf(c, s) => TrueOf(c, s)'
<1>1. Created \subseteq Created' /\ Created \subseteq CmdIds
  BY CreatedStep DEF PipelineInv, Created
<1>2. \A c \in CmdIds : total[c] \in Nat
  BY DEF PipelineInv, TypeOK, DeviceTypeOK
<1>3. \A c \in CmdIds : total'[c] \in Nat
  BY TypeStep DEF PipelineInv, TypeOK, DeviceTypeOK
<1>4. ASSUME NEW c \in Created, NEW s, TrueOf(c, s) PROVE TrueOf(c, s)'
  <2>1. /\ Emittable(c)' <=> Emittable(c)
        /\ total'[c] >= total[c] /\ total[c] \in Nat /\ total'[c] \in Nat
    BY <1>1, <1>2, <1>3, TruthLasts
  <2>. QED
    BY <1>4, <2>1 DEF TrueOf
<1>5. MailOf(Created) \subseteq MailOf(Created') /\ \A m \in MailOf(Created) : m.id \in Created
  BY <1>1 DEF MailOf, AckOf
<1>. QED
  BY <1>4, <1>5 DEF TrueMail

(***************************************************************************)
(* The rows and the links.                                                 *)
(***************************************************************************)

\* A row's status is written by an insert, a PUBACK, the sweep or a true ack.
LEMMA StatusStep ==
  ASSUME PipelineInv, OutcomeInv, [Next]_vars, NEW c \in Created'
  PROVE  \/ c \in Created /\ row'[c].status = row[c].status
         \/ row'[c].status \in {"pending", "published", "expired"}
         \/ c \in Created /\ TrueOf(c, row'[c].status) /\ row'[c].status \in Statuses
<1>0. /\ c \in CmdIds /\ row \in [CmdIds -> Rows \cup {NoRow}]
      /\ row'[c].status # "absent"
  BY DEF Created, PipelineInv, TypeOK, BackendTypeOK
<1>1. CASE UNCHANGED row
  BY <1>0, <1>1 DEF Created
<1>2. ASSUME NEW d \in CmdIds, NEW k \in Keys, NEW p \in Payloads, NEW life \in Lifetimes(p),
             DispatchIr(d, k, p, life) \/ DispatchPlain(d, k, p, life)
      PROVE  \/ c \in Created /\ row'[c].status = row[c].status
             \/ row'[c].status \in {"pending", "published", "expired"}
  BY <1>0, <1>2 DEF DispatchIr, DispatchPlain, TryInsert, Created
<1>3. CASE ReceivePuback
  <2>1. row' = [row EXCEPT ![Head(fromBroker).id].status = "published"]
    BY <1>3 DEF ReceivePuback
  <2>2. CASE c = Head(fromBroker).id
    <3>1. Head(fromBroker).id \in Created
      BY <1>3, MailType DEF ReceivePuback, PipelineInv, StreamsOK
    <3>2. row[c] \in Rows
      BY <1>0, <2>2, <3>1, CreatedRows
    <3>. QED
      BY <1>0, <2>1, <2>2, <3>2 DEF Rows
  <2>3. CASE c # Head(fromBroker).id
    BY <1>0, <2>1, <2>3 DEF Created
  <2>. QED
    BY <2>2, <2>3
<1>4. CASE ReceiveAck
  <2>. DEFINE a == Head(fromBroker)
  <2>1. row' = [row EXCEPT ![a.id].status = a.status, ![a.id].acked = TRUE]
        /\ a.type = "ack" /\ fromBroker # <<>>
    BY <1>4 DEF ReceiveAck
  <2>2. a \in TrueMail
    BY <2>1, SeqOps DEF OutcomeInv, AcksTrue
  <2>3. /\ a.id \in Created /\ a.status \in DeviceVerdicts
        /\ TrueOf(a.id, a.status)
    BY <2>1, <2>2 DEF TrueMail, MailOf, AckOf
  <2>. HIDE DEF a
  <2>4. CASE c = a.id
    <3>1. row[c] \in Rows
      BY <1>0, <2>3, <2>4, CreatedRows
    <3>2. row'[c].status = a.status
      BY <1>0, <2>1, <2>4, <3>1 DEF Rows
    <3>. QED
      BY <2>3, <2>4, <3>2 DEF Statuses
  <2>5. CASE c # a.id
    <3>1. row'[c] = row[c]
      BY <1>0, <2>1, <2>5
    <3>. QED
      BY <1>0, <3>1 DEF Created
  <2>. QED
    BY <2>4, <2>5
<1>5. CASE ExpireStale
  <2>1. row' = [d \in CmdIds |-> IF IsStale(d) THEN [row[d] EXCEPT !.status = "expired"]
                                              ELSE row[d]]
    BY <1>5 DEF ExpireStale
  <2>2. CASE IsStale(c)
    <3>1. row[c] \in Rows /\ row'[c] = [row[c] EXCEPT !.status = "expired"]
      BY <1>0, <2>1, <2>2, CreatedRows DEF IsStale
    <3>. QED
      BY <3>1 DEF Rows
  <2>3. CASE ~IsStale(c)
    BY <1>0, <2>1, <2>3 DEF Created
  <2>. QED
    BY <2>2, <2>3
<1>6. CASE Tick \/ BackendDrop \/ BackendReconnect \/ BackendRestart \/ BrokerRoute
             \/ BrokerForwardAck \/ DeviceConnect \/ ClockSync \/ DeviceDrop
             \/ DeviceReboot \/ \E short, sent \in BOOLEAN : HandleCommand(short, sent)
  BY <1>1, <1>6 DEF Tick, BackendDrop, BackendReconnect, BackendRestart, BrokerRoute,
     BrokerForwardAck, DeviceConnect, ClockSync, DeviceDrop, DeviceReboot,
     HandleCommand, backendVars
<1>7. CASE UNCHANGED vars
  BY <1>1, <1>7 DEF vars, backendVars
<1>. QED
  BY <1>2, <1>3, <1>4, <1>5, <1>6, <1>7 DEF Next

\* A link takes mail from the device or from the other link, and a PUBACK, which
\* says nothing of the device.
LEMMA LinkStep ==
  ASSUME PipelineInv, OutcomeInv, [Next]_vars
  PROVE  AcksTrue'
<1> USE DEF AcksTrue
<1>1. fromBroker \in Seq(TrueMail') /\ fromDevice \in Seq(TrueMail')
  <2>1. TrueMail \subseteq TrueMail'
    BY MailLasts
  <2>2. fromBroker \in Seq(TrueMail) /\ fromDevice \in Seq(TrueMail)
    BY DEF OutcomeInv
  <2>3. fromBroker \in Seq(TrueMail')
    BY <2>1, <2>2, SeqMonotonic
  <2>4. fromDevice \in Seq(TrueMail')
    BY <2>1, <2>2, SeqMonotonic
  <2>. QED
    BY <2>3, <2>4
<1> USE <1>1
<1>2. CASE UNCHANGED <<fromBroker, fromDevice>>
  BY <1>2
<1>3. ASSUME NEW c \in CmdIds, NEW k \in Keys, NEW p \in Payloads, NEW life \in Lifetimes(p),
             DispatchIr(c, k, p, life) \/ DispatchPlain(c, k, p, life)
      PROVE  UNCHANGED <<fromBroker, fromDevice>>
  BY <1>3 DEF DispatchIr, DispatchPlain, downVars
<1>4. CASE ReceivePuback \/ ReceiveAck
  <2>1. fromDevice' = fromDevice /\ fromBroker # <<>> /\ fromBroker' = Tail(fromBroker)
    BY <1>4 DEF ReceivePuback, ReceiveAck, downVars
  <2>. QED
    BY <2>1, SeqOps
<1>5. CASE BackendDrop \/ BackendReconnect \/ BackendRestart
  <2>1. fromDevice' = fromDevice /\ (fromBroker' = <<>> \/ fromBroker' = fromBroker)
    BY <1>5 DEF BackendDrop, BackendReconnect, BackendRestart, downVars
  <2>. QED
    BY <2>1, SeqOps
<1>6. CASE BrokerRoute
  <2>1. Head(toBroker) \in Created'
    BY <1>6, SeqOps, CreatedStep DEF BrokerRoute, PipelineInv, StreamsOK
  <2>2. Puback(Head(toBroker)) \in TrueMail'
    BY <2>1 DEF Puback, MailOf, TrueMail, TrueOf, Refusals
  <2>3. fromDevice' = fromDevice
        /\ (fromBroker' = fromBroker \/ fromBroker' = Append(fromBroker, Puback(Head(toBroker))))
    BY <1>6 DEF BrokerRoute
  <2>. QED
    BY <2>2, <2>3, SeqOps
<1>7. CASE BrokerForwardAck
  <2>1. /\ fromDevice # <<>> /\ fromDevice' = Tail(fromDevice)
        /\ fromBroker' = fromBroker \/ fromBroker' = Append(fromBroker, Head(fromDevice))
    BY <1>7 DEF BrokerForwardAck
  <2>2. Head(fromDevice) \in TrueMail' /\ Tail(fromDevice) \in Seq(TrueMail')
    BY <2>1, SeqOps
  <2>. QED
    BY <2>1, <2>2, SeqOps
<1>8. CASE DeviceDrop \/ DeviceReboot
  <2>1. fromBroker' = fromBroker /\ fromDevice' = <<>>
    BY <1>8 DEF DeviceDrop, DeviceReboot, upVars
  <2>. QED
    BY <2>1, SeqOps
<1>9. ASSUME NEW short \in BOOLEAN, NEW sent \in BOOLEAN, HandleCommand(short, sent)
      PROVE  AcksTrue'
  <2>1. PICK c \in Created, v \in DeviceVerdicts : c = Head(toDevice) /\ v = Verdict(c, short)
    <3>1. Head(toDevice) \in Created /\ Head(toDevice) \in CmdIds
      BY <1>9, SeqOps DEF HandleCommand, PipelineInv, StreamsOK, Created
    <3>. QED
      BY <3>1, VerdictType
  <2>2. /\ Emit(c, v) /\ row' = row /\ fromBroker' = fromBroker
        /\ fromDevice' = (IF sent THEN Append(fromDevice, Ack(c, v)) ELSE fromDevice)
    BY <1>9, <2>1 DEF HandleCommand, backendVars, upVars
  <2>3. TrueOf(c, v)'
    BY <2>1, <2>2, VerdictTrue
  <2>4. Ack(c, v) \in MailOf(Created)' /\ Ack(c, v).id = c /\ Ack(c, v).status = v
    BY <2>1, CreatedStep DEF PipelineInv, Ack, MailOf, AckOf
  <2>5. Ack(c, v) \in TrueMail'
    BY <2>3, <2>4 DEF TrueMail
  <2>. QED
    BY <2>2, <2>5, SeqOps
<1>10. CASE Tick \/ ExpireStale \/ DeviceConnect \/ ClockSync
  BY <1>2, <1>10 DEF Tick, ExpireStale, DeviceConnect, ClockSync, upVars, downVars
<1>11. CASE UNCHANGED vars
  BY <1>2, <1>11 DEF vars, upVars, downVars
<1>. QED
  BY <1>2, <1>3, <1>4, <1>5, <1>6, <1>7, <1>8, <1>9, <1>10, <1>11 DEF Next

\* A row tells the truth when its status is written, and so ever after.
LEMMA RowsTrueStep ==
  ASSUME PipelineInv, OutcomeInv, [Next]_vars
  PROVE  RowsTrue'
<1> SUFFICES ASSUME NEW c \in Created' PROVE TrueOf(c, row[c].status)'
  BY DEF RowsTrue
<1>1. row[c].status \in Statuses \/ c \notin Created
  BY CreatedRows DEF PipelineInv, TypeOK, BackendTypeOK, Rows, Created
<1>2. CASE c \in Created /\ row'[c].status = row[c].status
  <2>1. TrueOf(c, row[c].status)
    BY <1>2 DEF OutcomeInv, RowsTrue
  <2>2. row[c].status \in Statuses
    BY <1>1, <1>2
  <2>3. \A s \in Statuses : TrueOf(c, s) => TrueOf(c, s)'
    BY <1>2, MailLasts
  <2>4. \A s : TrueOf(c, s)' <=> /\ s \in {"ir_executed", "ir_module_busy"} => total'[c] > 0
                                 /\ s \in Refusals => ~Emittable(c)'
    BY DEF TrueOf
  <2>. QED
    BY <1>2, <2>1, <2>2, <2>3, <2>4 DEF TrueOf
<1>3. CASE row'[c].status \in {"pending", "published", "expired"}
  BY <1>3 DEF TrueOf, Refusals
<1>4. CASE c \in Created /\ TrueOf(c, row'[c].status) /\ row'[c].status \in Statuses
  <2>1. \A s \in Statuses : TrueOf(c, s) => TrueOf(c, s)'
    BY <1>4, MailLasts
  <2>2. \A s : TrueOf(c, s)' <=> /\ s \in {"ir_executed", "ir_module_busy"} => total'[c] > 0
                                 /\ s \in Refusals => ~Emittable(c)'
    BY DEF TrueOf
  <2>. QED
    BY <1>4, <2>1, <2>2 DEF TrueOf
<1>. QED
  BY <1>2, <1>3, <1>4, StatusStep

(***************************************************************************)
(* The theorem.                                                            *)
(***************************************************************************)

\* Verdicts are true on the device, on the links and in the rows.
THEOREM OutcomeInductive == Spec => []OutcomeInv
<1>1. Init => OutcomeInv
  BY OutcomeInit
<1>2. PipelineInv /\ OutcomeInv /\ [Next]_vars => OutcomeInv'
  BY TruthLasts, LinkStep, RowsTrueStep DEF OutcomeInv
<1>. QED
  BY <1>1, <1>2, Inductive, PTL DEF Spec

\* 'ir_executed' and 'ir_module_busy' stand only in rows of commands that were
\* emitted, a refusal only in rows of commands that never were.
THEOREM OutcomesAreTrue == Spec => []OutcomeTruth
<1>1. PipelineInv /\ OutcomeInv => OutcomeTruth
  <2> SUFFICES ASSUME PipelineInv, OutcomeInv, NEW c \in Created
               PROVE  /\ row[c].status \in {"ir_executed", "ir_module_busy"} => total[c] > 0
                      /\ row[c].status \in Refusals => total[c] = 0
    BY DEF OutcomeTruth, Refusals
  <2>1. c \in CmdIds /\ total[c] \in Nat
    BY DEF Created, PipelineInv, TypeOK, DeviceTypeOK
  <2>. QED
    BY <2>1 DEF OutcomeInv, RowsTrue, EmittedTrue, TrueOf
<1>. QED
  BY <1>1, Inductive, OutcomeInductive, PTL

------------------------------------------------------------------------------
(***************************************************************************)
(* VerdictIsFinal: while the bridge's connection never breaks, a command   *)
(* is in one place at a time.  It is published once, so it is handled once *)
(* and answered once, and its answer comes after its PUBACK.               *)
(***************************************************************************)
Distinct(s) == \A i, j \in 1..Len(s) : s[i] = s[j] => i = j

\* Nothing is said of a command after its ack.
AckLast(s) == \A i, j \in 1..Len(s) : i < j /\ s[i].type = "ack" => s[j].id # s[i].id

On(s, c)      == \E i \in 1..Len(s) : s[i] = c
Said(s, c)    == \E i \in 1..Len(s) : s[i].id = c
AckSaid(s, c) == \E i \in 1..Len(s) : s[i].id = c /\ s[i].type = "ack"

\* From the bridge to the device and back into the row, one place at a time.
Places(c) ==
  /\ On(toBroker, c) =>
       ~On(toDevice, c) /\ ~Said(fromDevice, c) /\ ~Said(fromBroker, c) /\ ~row[c].acked
  /\ On(toDevice, c) => ~Said(fromDevice, c) /\ ~AckSaid(fromBroker, c) /\ ~row[c].acked
  /\ Said(fromDevice, c) => ~AckSaid(fromBroker, c) /\ ~row[c].acked
  /\ Said(fromBroker, c) => ~row[c].acked
  /\ row[c].acked => ~InFlight(c)

Ordered ==
  Distinct(toBroker) /\ Distinct(toDevice) /\ AckLast(fromDevice) /\ AckLast(fromBroker)

OnceInv ==
  /\ ~connected => outgoing = <<>>
  /\ Ordered
  /\ \A c \in CmdIds : Places(c)

\* What is taken from a link is gone from it, and an ack was the last word.
LEMMA TakeOne ==
  ASSUME NEW S, NEW s \in Seq(S), s # <<>>
  PROVE  /\ Distinct(s) => Distinct(Tail(s)) /\ ~On(Tail(s), Head(s))
         /\ AckLast(s) => AckLast(Tail(s))
         /\ AckLast(s) /\ Head(s).type = "ack" => ~Said(Tail(s), Head(s).id)
         /\ On(s, Head(s)) /\ Said(s, Head(s).id)
         /\ Head(s).type = "ack" => AckSaid(s, Head(s).id)
         /\ \A c : On(Tail(s), c) => On(s, c)
         /\ \A c : Said(Tail(s), c) => Said(s, c)
         /\ \A c : AckSaid(Tail(s), c) => AckSaid(s, c)
<1>1. /\ Len(s) \in Nat /\ Len(s) >= 1 /\ Len(Tail(s)) = Len(s) - 1
      /\ Head(s) = s[1] /\ \A i \in 1..Len(Tail(s)) : Tail(s)[i] = s[i + 1]
  OBVIOUS
<1>2. 1 \in 1..Len(s) /\ \A i \in 1..Len(Tail(s)) : i + 1 \in 1..Len(s) /\ 1 < i + 1
  BY <1>1
<1>3. \A i, j \in 1..Len(Tail(s)) : i + 1 = j + 1 => i = j
  BY <1>1
<1>4. \A i, j \in 1..Len(Tail(s)) : i < j => i + 1 < j + 1
  BY <1>1
<1>5. Distinct(s) => Distinct(Tail(s)) /\ ~On(Tail(s), Head(s))
  BY <1>1, <1>2, <1>3 DEF Distinct, On
<1>6. AckLast(s) => AckLast(Tail(s))
  BY <1>1, <1>2, <1>4 DEF AckLast
<1>7. AckLast(s) /\ Head(s).type = "ack" => ~Said(Tail(s), Head(s).id)
  BY <1>1, <1>2 DEF AckLast, Said
<1>. QED
  BY <1>1, <1>2, <1>5, <1>6, <1>7 DEF On, Said, AckSaid

\* What is put on a link that does not have it yet.
LEMMA PutOne ==
  ASSUME NEW S, NEW s \in Seq(S), NEW e
  PROVE  /\ Distinct(s) /\ ~On(s, e) => Distinct(Append(s, e))
         /\ AckLast(s) /\ ~AckSaid(s, e.id) => AckLast(Append(s, e))
         /\ \A c : On(Append(s, e), c) => On(s, c) \/ c = e
         /\ \A c : Said(Append(s, e), c) => Said(s, c) \/ c = e.id
         /\ \A c : AckSaid(Append(s, e), c) => AckSaid(s, c) \/ (c = e.id /\ e.type = "ack")
<1>. DEFINE t == Append(s, e)
<1>1. /\ Len(s) \in Nat /\ Len(t) = Len(s) + 1 /\ t[Len(s) + 1] = e
      /\ \A i \in 1..Len(s) : t[i] = s[i]
  OBVIOUS
<1>2. \A i \in 1..Len(t) : i \in 1..Len(s) \/ i = Len(s) + 1
  BY <1>1
<1>3. \A i, j \in 1..Len(t) : i < j => i \in 1..Len(s)
  BY <1>1
<1>. HIDE DEF t
<1>4. Distinct(s) /\ ~On(s, e) => Distinct(t)
  BY <1>1, <1>2 DEF Distinct, On
<1>5. AckLast(s) /\ ~AckSaid(s, e.id) => AckLast(t)
  BY <1>1, <1>2, <1>3 DEF AckLast, AckSaid
<1>6. /\ \A c : On(t, c) => On(s, c) \/ c = e
      /\ \A c : Said(t, c) => Said(s, c) \/ c = e.id
      /\ \A c : AckSaid(t, c) => AckSaid(s, c) \/ (c = e.id /\ e.type = "ack")
  BY <1>1, <1>2 DEF On, Said, AckSaid
<1>. QED
  BY <1>4, <1>5, <1>6 DEF t

\* On an empty link there is nothing.
LEMMA NothingOn ==
  /\ Distinct(<<>>) /\ AckLast(<<>>)
  /\ \A c : ~On(<<>>, c) /\ ~Said(<<>>, c) /\ ~AckSaid(<<>>, c)
BY DEF Distinct, AckLast, On, Said, AckSaid

\* Only commands with a row are on a link.
LEMMA OnLinkCreated ==
  ASSUME StreamsOK
  PROVE  /\ \A c : On(toBroker, c) \/ On(toDevice, c) => c \in Created
         /\ \A c : Said(fromDevice, c) \/ Said(fromBroker, c) \/ AckSaid(fromBroker, c)
                     => c \in Created
         /\ \A c : AckSaid(fromBroker, c) => Said(fromBroker, c)
         /\ fromDevice # <<>> => Head(fromDevice).type = "ack"
<1>1. /\ \A i \in 1..Len(toBroker) : toBroker[i] \in Created
      /\ \A i \in 1..Len(toDevice) : toDevice[i] \in Created
  BY DEF StreamsOK
<1>2. /\ \A i \in 1..Len(fromBroker) : fromBroker[i] \in MailOf(Created)
      /\ \A i \in 1..Len(fromDevice) : fromDevice[i] \in AckOf(Created)
  BY DEF StreamsOK
<1>3. \A m \in MailOf(Created) : m.id \in Created
  BY DEF MailOf, AckOf
<1>4. \A m \in AckOf(Created) : m.id \in Created /\ m.type = "ack"
  BY DEF AckOf
<1>5. fromDevice # <<>> => Head(fromDevice) \in AckOf(Created)
  BY DEF StreamsOK
<1>. QED
  BY <1>1, <1>2, <1>3, <1>4, <1>5 DEF On, Said, AckSaid

\* Nothing was said in the beginning.
LEMMA OnceStart == Init => OnceInv
<1>1. SUFFICES ASSUME Init PROVE OnceInv
  OBVIOUS
<1>2. /\ toBroker = <<>> /\ fromBroker = <<>> /\ toDevice = <<>> /\ fromDevice = <<>>
      /\ outgoing = <<>> /\ \A c \in CmdIds : ~row[c].acked
  BY <1>1 DEF Init, NoRow
<1>. QED
  BY <1>2, NothingOn DEF OnceInv, Ordered, Places

\* One step of the pipeline, without a break of the bridge's connection.
LEMMA OnceStep ==
  ASSUME PipelineInv, OnceInv, [Next]_vars, spent'.backendDrops = 0
  PROVE  OnceInv' /\ \A c \in CmdIds : row[c].acked => row'[c].status = row[c].status
<1>. DEFINE Final == \A c \in CmdIds : row[c].acked => row'[c].status = row[c].status
<1>0. /\ StreamsOK /\ Created \subseteq CmdIds
      /\ row \in [CmdIds -> Rows \cup {NoRow}]
      /\ toBroker \in Seq(Created) /\ toDevice \in Seq(Created)
      /\ fromDevice \in Seq(AckOf(Created)) /\ fromBroker \in Seq(MailOf(Created))
  BY DEF PipelineInv, StreamsOK, Created, TypeOK, BackendTypeOK
<1>1. CASE UNCHANGED <<row, connected, outgoing, toBroker, fromBroker, toDevice, fromDevice>>
  BY <1>1 DEF OnceInv, Ordered, Places, InFlight
<1>2. ASSUME NEW c \in CmdIds, NEW k \in Keys, NEW p \in Payloads, NEW life \in Lifetimes(p),
             DispatchIr(c, k, p, life) \/ DispatchPlain(c, k, p, life)
      PROVE  OnceInv' /\ Final
  <2>1. /\ c \notin Created /\ ~row'[c].acked
        /\ \A d \in CmdIds : d # c => row'[d] = row[d]
        /\ toBroker' \in {toBroker, Append(toBroker, c)}
        /\ (~connected => outgoing' = outgoing) /\ connected' = connected
        /\ fromBroker' = fromBroker /\ toDevice' = toDevice /\ fromDevice' = fromDevice
    BY <1>0, <1>2 DEF DispatchIr, DispatchPlain, TryInsert, PublishQos1, downVars
  <2>2. /\ ~On(toBroker, c) /\ ~On(toDevice, c) /\ ~Said(fromDevice, c)
        /\ ~Said(fromBroker, c) /\ ~AckSaid(fromBroker, c)
    BY <2>1, <1>0, OnLinkCreated
  <2>3. Distinct(toBroker') /\ \A d : On(toBroker', d) => On(toBroker, d) \/ d = c
    <3>1. /\ Distinct(toBroker) /\ ~On(toBroker, c) => Distinct(Append(toBroker, c))
          /\ \A d : On(Append(toBroker, c), d) => On(toBroker, d) \/ d = c
      BY <1>0, PutOne
    <3>2. Distinct(toBroker)
      BY DEF OnceInv, Ordered
    <3>3. CASE toBroker' = toBroker
      BY <3>2, <3>3
    <3>4. CASE toBroker' = Append(toBroker, c)
      BY <3>1, <3>2, <3>4, <2>2
    <3>. QED
      BY <3>3, <3>4, <2>1
  <2>4. \A d \in CmdIds : Places(d)'
    <3>. TAKE d \in CmdIds
    <3>1. CASE d = c
      BY <3>1, <2>1, <2>2 DEF Places
    <3>2. CASE d # c
      <4>1. Places(d) /\ row'[d] = row[d] /\ (On(toBroker', d) => On(toBroker, d))
        BY <3>2, <2>1, <2>3 DEF OnceInv
      <4>. QED
        BY <4>1, <2>1 DEF Places, InFlight
    <3>. QED
      BY <3>1, <3>2
  <2>5. Ordered' /\ (~connected' => outgoing' = <<>>)
    BY <2>1, <2>3 DEF OnceInv, Ordered
  <2>6. ~row[c].acked
    BY <2>1 DEF Created, PipelineInv, TypeOK, BackendTypeOK, Rows, NoRow, Statuses, DeviceVerdicts
  <2>. QED
    BY <2>1, <2>4, <2>5, <2>6 DEF OnceInv
<1>3. CASE ReceivePuback
  <2>. DEFINE c == Head(fromBroker).id
  <2>1. /\ c \in CmdIds /\ fromBroker # <<>>
        /\ row' = [row EXCEPT ![c].status = "published"]
        /\ fromBroker' = Tail(fromBroker)
        /\ outgoing' \in {outgoing, Tail(outgoing)} /\ (outgoing = <<>> => outgoing' = outgoing)
        /\ UNCHANGED <<connected, toBroker, toDevice, fromDevice>>
    BY <1>0, <1>3, MailType DEF ReceivePuback, downVars
  <2>2. /\ Said(fromBroker, c) /\ AckLast(fromBroker')
        /\ \A d : Said(fromBroker', d) => Said(fromBroker, d)
        /\ \A d : AckSaid(fromBroker', d) => AckSaid(fromBroker, d)
    BY <1>0, <2>1, TakeOne DEF OnceInv, Ordered
  <2>. HIDE DEF c
  <2>3. ~row[c].acked /\ Places(c)
    BY <2>1, <2>2 DEF OnceInv, Places
  <2>4. \A d \in CmdIds : row'[d].acked = row[d].acked /\ (d # c => row'[d] = row[d])
    BY <1>0, <2>1 DEF Rows, NoRow
  <2>5. \A d \in CmdIds : Places(d)'
    <3>. TAKE d \in CmdIds
    <3>1. CASE d = c
      BY <3>1, <2>1, <2>2, <2>3, <2>4 DEF Places
    <3>2. CASE d # c
      <4>1. Places(d) /\ row'[d] = row[d]
        BY <3>2, <2>4 DEF OnceInv
      <4>. QED
        BY <4>1, <2>1, <2>2 DEF Places, InFlight
    <3>. QED
      BY <3>1, <3>2
  <2>. QED
    BY <2>1, <2>2, <2>3, <2>4, <2>5 DEF OnceInv, Ordered
<1>4. CASE ReceiveAck
  <2>. DEFINE c == Head(fromBroker).id
              st == Head(fromBroker).status
  <2>1. /\ c \in CmdIds /\ fromBroker # <<>> /\ st \in DeviceVerdicts
        /\ row' = [row EXCEPT ![c].status = st, ![c].acked = TRUE]
        /\ fromBroker' = Tail(fromBroker)
        /\ UNCHANGED <<connected, outgoing, toBroker, toDevice, fromDevice>>
    BY <1>0, <1>4, MailType DEF ReceiveAck, downVars
  <2>2. /\ Said(fromBroker, c) /\ AckSaid(fromBroker, c) /\ AckLast(fromBroker')
        /\ ~Said(fromBroker', c)
        /\ \A d : Said(fromBroker', d) => Said(fromBroker, d)
        /\ \A d : AckSaid(fromBroker', d) => AckSaid(fromBroker, d)
    BY <1>0, <1>4, <2>1, TakeOne DEF OnceInv, Ordered, ReceiveAck
  <2>. HIDE DEF c, st
  <2>3. ~row[c].acked /\ Places(c)
    BY <2>1, <2>2 DEF OnceInv, Places
  <2>4. \A d \in CmdIds : d # c => row'[d] = row[d]
    BY <1>0, <2>1
  <2>5. row'[c].status = st
    BY <1>0, <2>1 DEF Rows, NoRow
  <2>6. Said(fromBroker', c) \/ ~AckSaid(fromBroker', c)
    BY <2>1 DEF Said, AckSaid
  <2>7. \A d \in CmdIds : Places(d)'
    <3>. TAKE d \in CmdIds
    <3>1. CASE d = c
      <4>1. ~On(toBroker, c) /\ ~On(toDevice, c) /\ ~Said(fromDevice, c)
        BY <2>2, <2>3 DEF Places
      <4>2. ~InFlight(d)'
        BY <3>1, <2>1, <2>5 DEF InFlight, DeviceVerdicts
      <4>. QED
        BY <3>1, <4>1, <4>2, <2>1, <2>2, <2>6 DEF Places
    <3>2. CASE d # c
      <4>1. Places(d) /\ row'[d] = row[d]
        BY <3>2, <2>4 DEF OnceInv
      <4>. QED
        BY <4>1, <2>1, <2>2 DEF Places, InFlight
    <3>. QED
      BY <3>1, <3>2
  <2>. QED
    BY <2>1, <2>2, <2>3, <2>4, <2>7 DEF OnceInv, Ordered
<1>5. CASE ExpireStale
  <2>1. /\ \A d \in CmdIds : row'[d] = IF IsStale(d) THEN [row[d] EXCEPT !.status = "expired"]
                                                     ELSE row[d]
        /\ UNCHANGED <<connected, outgoing, toBroker, fromBroker, toDevice, fromDevice>>
    BY <1>5 DEF ExpireStale, upVars, downVars
  <2>2. \A d \in CmdIds : row[d].acked => ~IsStale(d)
    BY DEF OnceInv, Places, IsStale
  <2>3. \A d \in CmdIds : row'[d].acked = row[d].acked /\ (row[d].acked => row'[d] = row[d])
    BY <1>0, <2>1, <2>2 DEF Rows, NoRow
  <2>4. \A d \in CmdIds : Places(d)'
    BY <2>1, <2>3 DEF OnceInv, Places, InFlight
  <2>. QED
    BY <2>1, <2>3, <2>4 DEF OnceInv, Ordered
<1>6. CASE BackendDrop
  <2>1. spent.backendDrops \in Nat /\ spent'.backendDrops = spent.backendDrops + 1
    BY <1>6, BoundAssumption DEF BackendDrop, PipelineInv, TypeOK, BackendTypeOK
  <2>. QED
    BY <2>1
<1>7. CASE BackendReconnect \/ BackendRestart
  <2>1. /\ ~connected' => outgoing' = <<>>
        /\ toBroker' = <<>> /\ fromBroker' \in {<<>>, fromBroker}
        /\ UNCHANGED <<row, toDevice, fromDevice>>
    BY <1>7 DEF BackendReconnect, BackendRestart, OnceInv, downVars
  <2>2. /\ Distinct(toBroker') /\ AckLast(fromBroker')
        /\ \A d : ~On(toBroker', d)
        /\ \A d : Said(fromBroker', d) => Said(fromBroker, d)
        /\ \A d : AckSaid(fromBroker', d) => AckSaid(fromBroker, d)
    BY <2>1, NothingOn DEF OnceInv, Ordered
  <2>3. \A d \in CmdIds : Places(d)'
    BY <2>1, <2>2 DEF OnceInv, Places, InFlight
  <2>. QED
    BY <2>1, <2>2, <2>3 DEF OnceInv, Ordered
<1>8. CASE BrokerRoute
  <2>. DEFINE c == Head(toBroker)
  <2>1. /\ toBroker # <<>> /\ toBroker' = Tail(toBroker)
        /\ toDevice' \in {toDevice, Append(toDevice, c)}
        /\ fromBroker' \in {fromBroker, Append(fromBroker, Puback(c))}
        /\ UNCHANGED <<row, connected, outgoing, fromDevice>>
    BY <1>8 DEF BrokerRoute, backendVars
  <2>2. /\ On(toBroker, c) /\ Distinct(toBroker') /\ ~On(toBroker', c)
        /\ \A d : On(toBroker', d) => On(toBroker, d)
    BY <1>0, <2>1, TakeOne DEF OnceInv, Ordered
  <2>3. c \in CmdIds
    BY <1>0, <2>2, OnLinkCreated
  <2>. HIDE DEF c
  <2>4. /\ Places(c)
        /\ ~On(toDevice, c) /\ ~Said(fromDevice, c) /\ ~Said(fromBroker, c)
        /\ ~AckSaid(fromBroker, c) /\ ~row[c].acked
    BY <1>0, <2>2, <2>3, OnLinkCreated DEF OnceInv, Places
  <2>5. Distinct(toDevice') /\ \A d : On(toDevice', d) => On(toDevice, d) \/ d = c
    <3>1. /\ Distinct(toDevice) /\ ~On(toDevice, c) => Distinct(Append(toDevice, c))
          /\ \A d : On(Append(toDevice, c), d) => On(toDevice, d) \/ d = c
      BY <1>0, PutOne
    <3>. QED
      BY <3>1, <2>1, <2>4 DEF OnceInv, Ordered
  <2>6. /\ AckLast(fromBroker')
        /\ \A d : Said(fromBroker', d) => Said(fromBroker, d) \/ d = c
        /\ \A d : AckSaid(fromBroker', d) => AckSaid(fromBroker, d)
    <3>. DEFINE e == Puback(c)
    <3>0. e.id = c /\ e.type # "ack"
      BY DEF Puback
    <3>. HIDE DEF e
    <3>1. /\ AckLast(fromBroker) /\ ~AckSaid(fromBroker, e.id) => AckLast(Append(fromBroker, e))
          /\ \A d : Said(Append(fromBroker, e), d) => Said(fromBroker, d) \/ d = e.id
          /\ \A d : AckSaid(Append(fromBroker, e), d)
                      => AckSaid(fromBroker, d) \/ (d = e.id /\ e.type = "ack")
      BY <1>0, PutOne
    <3>2. fromBroker' \in {fromBroker, Append(fromBroker, e)}
      BY <2>1 DEF e
    <3>. QED
      BY <3>0, <3>1, <3>2, <2>4 DEF OnceInv, Ordered
  <2>7. \A d \in CmdIds : Places(d)'
    <3>. TAKE d \in CmdIds
    <3>1. CASE d = c
      BY <3>1, <2>1, <2>2, <2>4, <2>6 DEF Places, InFlight
    <3>2. CASE d # c
      <4>1. Places(d)
        BY DEF OnceInv
      <4>. QED
        BY <3>2, <4>1, <2>1, <2>2, <2>5, <2>6 DEF Places, InFlight
    <3>. QED
      BY <3>1, <3>2
  <2>. QED
    BY <2>1, <2>2, <2>5, <2>6, <2>7 DEF OnceInv, Ordered
<1>9. CASE BrokerForwardAck
  <2>. DEFINE e == Head(fromDevice)
              c == e.id
  <2>1. /\ fromDevice # <<>> /\ fromDevice' = Tail(fromDevice)
        /\ fromBroker' \in {fromBroker, Append(fromBroker, e)}
        /\ UNCHANGED <<row, connected, outgoing, toBroker, toDevice>>
    BY <1>9 DEF BrokerForwardAck, backendVars
  <2>2. e.type = "ack"
    BY <1>0, <2>1, OnLinkCreated
  <2>3. /\ Said(fromDevice, c) /\ AckLast(fromDevice') /\ ~Said(fromDevice', c)
        /\ \A d : Said(fromDevice', d) => Said(fromDevice, d)
    BY <1>0, <2>1, <2>2, TakeOne DEF OnceInv, Ordered
  <2>4. c \in CmdIds
    BY <1>0, <2>3, OnLinkCreated
  <2>. HIDE DEF e
  <2>5. /\ AckLast(fromBroker) /\ ~AckSaid(fromBroker, c) => AckLast(Append(fromBroker, e))
        /\ \A d : Said(Append(fromBroker, e), d) => Said(fromBroker, d) \/ d = c
        /\ \A d : AckSaid(Append(fromBroker, e), d) => AckSaid(fromBroker, d) \/ d = c
    BY <1>0, PutOne
  <2>. HIDE DEF c
  <2>6. /\ Places(c)
        /\ ~On(toBroker, c) /\ ~On(toDevice, c) /\ ~AckSaid(fromBroker, c) /\ ~row[c].acked
    BY <2>3, <2>4 DEF OnceInv, Places
  <2>7. /\ AckLast(fromBroker')
        /\ \A d : Said(fromBroker', d) => Said(fromBroker, d) \/ d = c
        /\ \A d : AckSaid(fromBroker', d) => AckSaid(fromBroker, d) \/ d = c
    BY <2>1, <2>5, <2>6 DEF OnceInv, Ordered
  <2>8. \A d \in CmdIds : Places(d)'
    <3>. TAKE d \in CmdIds
    <3>1. CASE d = c
      BY <3>1, <2>1, <2>3, <2>6 DEF Places, InFlight
    <3>2. CASE d # c
      <4>1. Places(d)
        BY DEF OnceInv
      <4>. QED
        BY <3>2, <4>1, <2>1, <2>3, <2>7 DEF Places, InFlight
    <3>. QED
      BY <3>1, <3>2
  <2>. QED
    BY <2>1, <2>3, <2>7, <2>8 DEF OnceInv, Ordered
<1>10. CASE Tick \/ DeviceConnect \/ ClockSync
  BY <1>1, <1>10 DEF Tick, DeviceConnect, ClockSync, backendVars, upVars, downVars
<1>11. CASE DeviceDrop \/ DeviceReboot
  <2>1. /\ toDevice' = <<>> /\ fromDevice' = <<>>
        /\ UNCHANGED <<row, connected, outgoing, toBroker, fromBroker>>
    BY <1>11 DEF DeviceDrop, DeviceReboot, backendVars, upVars
  <2>2. \A d \in CmdIds : Places(d)'
    BY <2>1, NothingOn DEF OnceInv, Places, InFlight
  <2>. QED
    BY <2>1, <2>2, NothingOn DEF OnceInv, Ordered
<1>12. ASSUME NEW short \in BOOLEAN, NEW sent \in BOOLEAN, HandleCommand(short, sent)
       PROVE  OnceInv' /\ Final
  <2>. DEFINE c == Head(toDevice)
              e == Ack(c, Verdict(c, short))
  <2>1. /\ toDevice # <<>> /\ toDevice' = Tail(toDevice)
        /\ fromDevice' \in {fromDevice, Append(fromDevice, e)}
        /\ UNCHANGED <<row, connected, outgoing, toBroker, fromBroker>>
    BY <1>12 DEF HandleCommand, backendVars, upVars
  <2>2. /\ On(toDevice, c) /\ Distinct(toDevice') /\ ~On(toDevice', c)
        /\ \A d : On(toDevice', d) => On(toDevice, d)
    BY <1>0, <2>1, TakeOne DEF OnceInv, Ordered
  <2>3. c \in CmdIds
    BY <1>0, <2>2, OnLinkCreated
  <2>4. e.id = c
    BY DEF Ack
  <2>. HIDE DEF e, c
  <2>5. /\ Places(c)
        /\ ~On(toBroker, c) /\ ~Said(fromDevice, c) /\ ~AckSaid(fromBroker, c) /\ ~row[c].acked
    BY <2>2, <2>3 DEF OnceInv, Places
  <2>6. AckLast(fromDevice') /\ \A d : Said(fromDevice', d) => Said(fromDevice, d) \/ d = c
    <3>1. /\ AckLast(fromDevice) /\ ~AckSaid(fromDevice, e.id) => AckLast(Append(fromDevice, e))
          /\ \A d : Said(Append(fromDevice, e), d) => Said(fromDevice, d) \/ d = e.id
      BY <1>0, PutOne
    <3>2. ~AckSaid(fromDevice, c)
      BY <2>5 DEF Said, AckSaid
    <3>. QED
      BY <3>1, <3>2, <2>1, <2>4 DEF OnceInv, Ordered
  <2>7. \A d \in CmdIds : Places(d)'
    <3>. TAKE d \in CmdIds
    <3>1. CASE d = c
      BY <3>1, <2>1, <2>2, <2>5 DEF Places, InFlight
    <3>2. CASE d # c
      <4>1. Places(d)
        BY DEF OnceInv
      <4>. QED
        BY <3>2, <4>1, <2>1, <2>2, <2>6 DEF Places, InFlight
    <3>. QED
      BY <3>1, <3>2
  <2>. QED
    BY <2>1, <2>2, <2>6, <2>7 DEF OnceInv, Ordered
<1>13. CASE UNCHANGED vars
  BY <1>1, <1>13 DEF vars, backendVars, upVars, downVars
<1>. QED
  BY <1>2, <1>3, <1>4, <1>5, <1>6, <1>7, <1>8, <1>9, <1>10, <1>11, <1>12, <1>13 DEF Next

\* As long as the bridge's connection does not break, nothing overwrites the
\* device's verdict in a row: no PUBACK callback, no sweep, no second ack.
\* Restarts of the backend, drops and reboots of the device may come as they like.
THEOREM VerdictsAreFinal == Spec /\ [](spent.backendDrops = 0) => VerdictIsFinal
<1>1. PipelineInv /\ OnceInv /\ [Next]_vars /\ (spent.backendDrops = 0)' => OnceInv'
  BY OnceStep
<1>2. PipelineInv /\ OnceInv /\ [Next]_vars /\ (spent.backendDrops = 0)'
        => \A c \in CmdIds : row[c].acked => row'[c].status = row[c].status
  BY OnceStep
<1>. QED
  BY <1>1, <1>2, OnceStart, Inductive, PTL DEF Spec, VerdictIsFinal
==============================================================================

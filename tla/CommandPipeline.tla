--------------------------- MODULE CommandPipeline ---------------------------
(***************************************************************************)
(* The life of a control command: the backend inserts a row and publishes  *)
(* it (mqtt_bridge.ts, db.ts), the broker carries it over two MQTT links,  *)
(* the device validates, deduplicates and emits it (command_service.cpp,   *)
(* ir_module.cpp), and the verdict travels back into the row.              *)
(*                                                                         *)
(* Both links are FIFO streams that lose everything in flight when they    *)
(* break.  The backend's MQTT client keeps every QoS 1 publish it has no   *)
(* PUBACK for and sends it again on reconnect; the device connects with a  *)
(* clean session, so nothing waits for it at the broker.                   *)
(***************************************************************************)
EXTENDS Integers, Sequences, FiniteSets

CONSTANTS
  CmdIds,            \* command_id values, one fresh id per accepted request
  Keys,              \* Idempotency-Key values of the clients and the worker
  IrCodes,           \* ir_code_id values the firmware knows and has enabled
  UnknownCodes,      \* ir_code_id values missing from the firmware table
  DisabledCodes,     \* ir_code_id values disabled in the firmware table
  PlainActions,      \* set_state / set_power / set_temperature payloads
  OutOfRange,        \* set_temperature payloads outside 16..30
  TtlRequests,       \* ttl_ms values asked of dispatchIrAction
  MaxTtl,            \* the 30 000 ms ceiling of an IR command's life
  PlainTtl,          \* the 120 000 ms life of a plain command
  Grain,             \* ticks per second: the device compares whole seconds
  RingSize,          \* CommandService::MAX_RECENT
  CacheSize,         \* IrModule::IR_EXEC_CACHE_MAX
  CacheTtl,          \* IrModule::IR_EXEC_TTL_MS
  IrMutating,        \* build flag ENABLE_IR_MUTATING_COMMANDS
  TlsNeedsClock,     \* TRUE: CA_CERT pinning, FALSE: fingerprint pinning
  MaxTime, MaxBackendDrops, MaxDeviceDrops, MaxReboots, MaxRestarts, \* bounds
  NoKey, NoPayload   \* columns of a row that does not exist

Payloads == IrCodes \cup UnknownCodes \cup DisabledCodes
              \cup PlainActions \cup OutOfRange
IrPayloads == IrCodes \cup UnknownCodes \cup DisabledCodes

ASSUME SizesAssumption ==
  /\ RingSize \in Nat \ {0}
  /\ CacheSize \in Nat \ {0}
  /\ CacheTtl \in Nat

ASSUME TimeAssumption ==
  /\ TtlRequests \subseteq Int
  /\ MaxTtl \in Nat \ {0}
  /\ PlainTtl \in Nat \ {0}
  /\ Grain \in Nat \ {0}
  /\ MaxTime \in Nat

ASSUME NullAssumption ==
  /\ NoKey \notin Keys
  /\ NoPayload \notin Payloads

ASSUME FlagAssumption ==
  /\ IrMutating \in BOOLEAN
  /\ TlsNeedsClock \in BOOLEAN

ASSUME BoundAssumption ==
  /\ MaxBackendDrops \in Nat
  /\ MaxDeviceDrops \in Nat
  /\ MaxReboots \in Nat
  /\ MaxRestarts \in Nat

VARIABLES
  now,          \* wall clock, in ticks (backend clock; device clock once synced)
  row,          \* the commands table, by command_id
  connected,    \* the bridge's MQTT connection is up and subscribed
  outgoing,     \* QoS 1 publishes without a PUBACK, oldest first
  toBroker,     \* backend -> broker stream: command ids
  fromBroker,   \* broker -> backend stream: PUBACKs and forwarded acks
  devUp,        \* the device's MQTT session is up and subscribed
  synced,       \* the device's clock has been set by NTP since boot
  toDevice,     \* broker -> device stream: command ids
  fromDevice,   \* device -> broker stream: acks
  recent,       \* _recentIds: ids recorded after this one, RingSize = gone
  cacheAge,     \* m_execCache: executions after this one, CacheSize = gone
  cacheAt,      \* m_execCache: time of the last execution
  shots,        \* history: IR emissions of the command since boot
  total,        \* history: IR emissions of the command ever
  handled,      \* history: ids recorded since boot
  mark,         \* history: "handled" just after the last emission
  spent         \* link drops, reboots and restarts used so far (bounds)

backendVars == <<row, connected, outgoing>>
upVars      == <<toBroker, fromBroker>>
downVars    == <<devUp, toDevice, fromDevice>>
dedupVars   == <<recent, cacheAge, cacheAt, shots, total, handled, mark>>
vars == <<now, backendVars, upVars, downVars, synced, dedupVars, spent>>

(***************************************************************************)
(* Rows, acks and the helpers of both tiers.                               *)
(***************************************************************************)

DeviceVerdicts ==
  {"accepted_mock", "blocked_by_ir_policy", "expired", "duplicate", "ir_executed",
   "ir_unknown_code", "ir_module_busy", "ir_execute_failed", "ir_state_disabled",
   "rejected"}
Statuses == DeviceVerdicts \cup {"pending", "published"}

NoRow == [key |-> NoKey, payload |-> NoPayload, expires |-> 0,
          status |-> "absent", acked |-> FALSE]
Rows  == [key : Keys, payload : Payloads, expires : Int,
          status : Statuses, acked : BOOLEAN]

Created == {c \in CmdIds : row[c].status # "absent"}
IsIr(c) == row[c].payload \in IrPayloads

Puback(c)     == [type |-> "puback", id |-> c, status |-> "published"]

\* Mutant: the switch of sendAck falls through to the success text.
AckOptimistic(c, s) ==
  [type |-> "ack", id |-> c, status |-> IF s = "ir_execute_failed" THEN "ir_executed" ELSE s]

Ack(c, s)     == [type |-> "ack", id |-> c, status |-> s]
Acks          == [type : {"ack"}, id : CmdIds, status : DeviceVerdicts]
Pubacks       == [type : {"puback"}, id : CmdIds, status : {"published"}]

\* The command's life in dispatchIrAction: at least one tick, at most MaxTtl.
ClampTtl(t) == IF t < 1 THEN 1 ELSE IF t > MaxTtl THEN MaxTtl ELSE t

Lifetimes(p) == IF p \in IrPayloads THEN {ClampTtl(t) : t \in TtlRequests}
                                    ELSE {PlainTtl}

\* The device clock counts whole seconds.
DeviceNow == now - (now % Grain)

\* Mutant: the comparison allows the whole 30 s ceiling on top.
IsExpiredLate(c) == synced /\ DeviceNow > row[c].expires + MaxTtl

IsExpired(c) == synced /\ DeviceNow > row[c].expires

\* Mutants: the ring scan stops one slot early; the age test is off by one.
InRingShort(c)   == recent[c] < RingSize - 1
InCacheStrict(c) == cacheAge[c] < CacheSize /\ now - cacheAt[c] < CacheTtl

InRing(c)  == recent[c] < RingSize
InCache(c) == cacheAge[c] < CacheSize /\ now - cacheAt[c] <= CacheTtl

\* Mutant: ages are not capped at the size of the ring.
PushUncapped(age, c, size) == [d \in CmdIds |-> IF d = c THEN 0 ELSE age[d] + 1]

\* Push c on a ring of the given size: everything else grows one older.
Push(age, c, size) ==
  [d \in CmdIds |-> IF d = c THEN 0
                    ELSE IF age[d] < size THEN age[d] + 1 ELSE size]

(***************************************************************************)
(* Backend.                                                                *)
(***************************************************************************)

\* Mutant: the unique index on idempotency_key is missing.
TryInsertAnyKey(c, k, p, life, status) ==
  /\ c \notin Created
  /\ row' = [row EXCEPT ![c] = [key |-> k, payload |-> p, expires |-> now + life,
                                status |-> status, acked |-> FALSE]]

\* tryInsertCommand / tryInsertIrCommand: INSERT OR IGNORE on the unique key.
\* A request whose key is taken changes nothing (replay, or 409 on a
\* different payload), so only the winning insert is a step.
TryInsert(c, k, p, life, status) ==
  /\ c \notin Created
  /\ \A d \in Created : row[d].key # k
  /\ row' = [row EXCEPT ![c] = [key |-> k, payload |-> p, expires |-> now + life,
                                status |-> status, acked |-> FALSE]]

\* publishIrAction: nothing is sent, and nothing queued, while disconnected;
\* the row then keeps its 'pending' status.
PublishQos1(c) ==
  IF connected
  THEN /\ toBroker' = Append(toBroker, c)
       /\ outgoing' = Append(outgoing, c)
  ELSE UNCHANGED <<toBroker, outgoing>>

\* dispatchIrAction behind an open kill switch and a live device: both gates
\* only decide when this step may be taken.
DispatchIr(c, k, p, life) ==
  /\ p \in IrPayloads
  /\ TryInsert(c, k, p, life, "pending")
  /\ PublishQos1(c)
  /\ UNCHANGED <<now, connected, fromBroker, downVars, synced, dedupVars, spent>>

\* dispatchCommand: QoS 0, so the publish callback marks the row as soon as
\* the bytes are written.
DispatchPlain(c, k, p, life) ==
  /\ p \in Payloads \ IrPayloads
  /\ TryInsert(c, k, p, life, IF connected THEN "published" ELSE "pending")
  /\ toBroker' = IF connected THEN Append(toBroker, c) ELSE toBroker
  /\ UNCHANGED <<now, connected, outgoing, fromBroker, downVars, synced, dedupVars, spent>>

\* The publish callback runs markCommandPublished: no look at the old status.
ReceivePuback ==
  /\ fromBroker # <<>>
  /\ Head(fromBroker).type = "puback"
  /\ LET c == Head(fromBroker).id IN
       /\ row' = [row EXCEPT ![c].status = "published"]
       /\ outgoing' = IF outgoing # <<>> /\ Head(outgoing) = c
                      THEN Tail(outgoing) ELSE outgoing
  /\ fromBroker' = Tail(fromBroker)
  /\ UNCHANGED <<now, connected, toBroker, downVars, synced, dedupVars, spent>>

\* handleMessage on commands/ack runs updateCommandAck: the last ack wins.
ReceiveAck ==
  /\ fromBroker # <<>>
  /\ Head(fromBroker).type = "ack"
  /\ LET a == Head(fromBroker) IN
       row' = [row EXCEPT ![a.id].status = a.status, ![a.id].acked = TRUE]
  /\ fromBroker' = Tail(fromBroker)
  /\ UNCHANGED <<now, connected, outgoing, toBroker, downVars, synced, dedupVars, spent>>

InFlight(c) == row[c].status \in {"pending", "published"}

\* Mutant: the sweep looks at the expiry only.
IsStaleAnyStatus(c) == c \in Created /\ IsIr(c) /\ row[c].expires <= now

IsStale(c)  == /\ c \in Created
               /\ IsIr(c)
               /\ row[c].expires <= now
               /\ InFlight(c)

\* expireStaleIrDebugCommands, run by every poll of the debug status page.
ExpireStale ==
  /\ \E c \in CmdIds : IsStale(c)
  /\ row' = [c \in CmdIds |-> IF IsStale(c) THEN [row[c] EXCEPT !.status = "expired"]
                                           ELSE row[c]]
  /\ UNCHANGED <<now, connected, outgoing, upVars, downVars, synced, dedupVars, spent>>

\* The bridge's connection breaks: both streams are gone, the rows and the
\* unacknowledged publishes stay.
BackendDrop ==
  /\ connected
  /\ spent.backendDrops < MaxBackendDrops
  /\ spent' = [spent EXCEPT !.backendDrops = @ + 1]
  /\ connected' = FALSE
  /\ toBroker' = <<>>
  /\ fromBroker' = <<>>
  /\ UNCHANGED <<now, row, outgoing, downVars, synced, dedupVars>>

\* Mutant: the connection forgets what was not acknowledged.
BackendReconnectClean ==
  /\ ~connected
  /\ connected' = TRUE
  /\ UNCHANGED <<now, row, outgoing, upVars, downVars, synced, dedupVars, spent>>

\* On 'connect' the bridge subscribes again and the MQTT client resends what
\* was never acknowledged.
BackendReconnect ==
  /\ ~connected
  /\ connected' = TRUE
  /\ toBroker' = outgoing
  /\ UNCHANGED <<now, row, outgoing, fromBroker, downVars, synced, dedupVars, spent>>

\* The process dies and starts again: only the database survives.
BackendRestart ==
  /\ spent.restarts < MaxRestarts
  /\ spent' = [spent EXCEPT !.restarts = @ + 1]
  /\ connected' = FALSE
  /\ outgoing' = <<>>
  /\ toBroker' = <<>>
  /\ fromBroker' = <<>>
  /\ UNCHANGED <<now, row, downVars, synced, dedupVars>>

(***************************************************************************)
(* Broker (external): forwards to a subscriber that is there, drops for one *)
(* that is not, and acknowledges QoS 1 publishes to their sender.          *)
(***************************************************************************)

BrokerRoute ==
  /\ toBroker # <<>>
  /\ LET c == Head(toBroker) IN
       /\ toDevice' = IF devUp THEN Append(toDevice, c) ELSE toDevice
       /\ fromBroker' = IF IsIr(c) THEN Append(fromBroker, Puback(c)) ELSE fromBroker
  /\ toBroker' = Tail(toBroker)
  /\ UNCHANGED <<now, backendVars, devUp, fromDevice, synced, dedupVars, spent>>

BrokerForwardAck ==
  /\ fromDevice # <<>>
  /\ fromBroker' = IF connected THEN Append(fromBroker, Head(fromDevice)) ELSE fromBroker
  /\ fromDevice' = Tail(fromDevice)
  /\ UNCHANGED <<now, backendVars, toBroker, devUp, toDevice, synced, dedupVars, spent>>

(***************************************************************************)
(* Device.                                                                 *)
(***************************************************************************)

\* connect(): syncTime is best effort, but CA validation fails on a clock
\* that was never set, so a CA_CERT build cannot come up without it.
DeviceConnect ==
  /\ ~devUp
  /\ devUp' = TRUE
  /\ synced' \in BOOLEAN
  /\ synced => synced'
  /\ TlsNeedsClock => synced'
  /\ UNCHANGED <<now, backendVars, upVars, toDevice, fromDevice, dedupVars, spent>>

\* SNTP keeps running in the background once configTime was called.
ClockSync ==
  /\ ~synced
  /\ synced' = TRUE
  /\ UNCHANGED <<now, backendVars, upVars, downVars, dedupVars, spent>>

DeviceDrop ==
  /\ devUp
  /\ spent.deviceDrops < MaxDeviceDrops
  /\ spent' = [spent EXCEPT !.deviceDrops = @ + 1]
  /\ devUp' = FALSE
  /\ toDevice' = <<>>
  /\ fromDevice' = <<>>
  /\ UNCHANGED <<now, backendVars, upVars, synced, dedupVars>>

\* Both dedupe structures live in RAM, and so does the clock.
DeviceReboot ==
  /\ spent.reboots < MaxReboots
  /\ spent' = [spent EXCEPT !.reboots = @ + 1]
  /\ devUp' = FALSE
  /\ toDevice' = <<>>
  /\ fromDevice' = <<>>
  /\ synced' = FALSE
  /\ recent' = [c \in CmdIds |-> RingSize]
  /\ cacheAge' = [c \in CmdIds |-> CacheSize]
  /\ cacheAt' = [c \in CmdIds |-> 0]
  /\ shots' = [c \in CmdIds |-> 0]
  /\ mark' = [c \in CmdIds |-> 0]
  /\ handled' = 0
  /\ UNCHANGED <<now, backendVars, upVars, total>>

\* validateCommand: expiry, then duplicate, then the payload and the policy.
Validate(c) ==
  LET p == row[c].payload IN
  IF IsExpired(c) THEN "expired"
  ELSE IF InRing(c) THEN "duplicate"
  ELSE IF p \in OutOfRange THEN "rejected"
  ELSE IF ~IrMutating THEN "blocked_by_ir_policy"
  ELSE IF p \in UnknownCodes THEN "ir_unknown_code"
  ELSE IF p \in DisabledCodes THEN "ir_state_disabled"
  ELSE "accepted_mock"

\* sendExternalFrameOnce: refused by the exec cache, cut short on the UART,
\* or written in full (one emission).
SendOnce(c, short) ==
  IF InCache(c) THEN "ir_module_busy"
  ELSE IF short THEN "ir_execute_failed"
  ELSE "ir_executed"

Verdict(c, short) ==
  IF Validate(c) = "accepted_mock" /\ IsIr(c) THEN SendOnce(c, short) ELSE Validate(c)

\* recordCommandId is not called for these three.
Unrecorded == {"expired", "duplicate", "rejected"}

Record(c, v) ==
  IF v \in Unrecorded
  THEN UNCHANGED <<recent, handled>>
  ELSE /\ recent' = Push(recent, c, RingSize)
       /\ handled' = handled + 1

Emit(c, v) ==
  IF v = "ir_executed"
  THEN /\ cacheAge' = Push(cacheAge, c, CacheSize)
       /\ cacheAt' = [cacheAt EXCEPT ![c] = now]
       /\ shots' = [shots EXCEPT ![c] = @ + 1]
       /\ total' = [total EXCEPT ![c] = @ + 1]
       /\ mark' = [mark EXCEPT ![c] = handled + 1]
  ELSE UNCHANGED <<cacheAge, cacheAt, shots, total, mark>>

\* handleMessage, dispatchIrAction and sendAck run to the end inside the MQTT
\* callback; the QoS 0 ack may be lost on the way out.
HandleCommand(short, sent) ==
  /\ devUp
  /\ toDevice # <<>>
  /\ LET c == Head(toDevice)
         v == Verdict(c, short)
     IN /\ Record(c, v)
        /\ Emit(c, v)
        /\ fromDevice' = IF sent THEN Append(fromDevice, Ack(c, v)) ELSE fromDevice
  /\ toDevice' = Tail(toDevice)
  /\ UNCHANGED <<now, backendVars, upVars, devUp, synced, spent>>

(***************************************************************************)
(* The specification.                                                      *)
(***************************************************************************)

Tick ==
  /\ now < MaxTime
  /\ now' = now + 1
  /\ UNCHANGED <<backendVars, upVars, downVars, synced, dedupVars, spent>>

Init ==
  /\ now = 0
  /\ row = [c \in CmdIds |-> NoRow]
  /\ connected = FALSE
  /\ outgoing = <<>>
  /\ toBroker = <<>>
  /\ fromBroker = <<>>
  /\ devUp = FALSE
  /\ synced = FALSE
  /\ toDevice = <<>>
  /\ fromDevice = <<>>
  /\ recent = [c \in CmdIds |-> RingSize]
  /\ cacheAge = [c \in CmdIds |-> CacheSize]
  /\ cacheAt = [c \in CmdIds |-> 0]
  /\ shots = [c \in CmdIds |-> 0]
  /\ total = [c \in CmdIds |-> 0]
  /\ handled = 0
  /\ mark = [c \in CmdIds |-> 0]
  /\ spent = [backendDrops |-> 0, deviceDrops |-> 0, reboots |-> 0, restarts |-> 0]

Next ==
  \/ Tick
  \/ \E c \in CmdIds, k \in Keys, p \in Payloads : \E life \in Lifetimes(p) :
       \/ DispatchIr(c, k, p, life)
       \/ DispatchPlain(c, k, p, life)
  \/ ReceivePuback
  \/ ReceiveAck
  \/ ExpireStale
  \/ BackendDrop
  \/ BackendReconnect
  \/ BackendRestart
  \/ BrokerRoute
  \/ BrokerForwardAck
  \/ DeviceConnect
  \/ ClockSync
  \/ DeviceDrop
  \/ DeviceReboot
  \/ \E short, sent \in BOOLEAN : HandleCommand(short, sent)

Spec == Init /\ [][Next]_vars

\* The MQTT client reconnects every 3 s for as long as the process runs, the
\* broker forwards what it holds, and the bridge drains its socket.
Fairness ==
  /\ WF_vars(BackendReconnect)
  /\ WF_vars(BrokerRoute)
  /\ WF_vars(BrokerForwardAck)
  /\ WF_vars(ReceivePuback \/ ReceiveAck)

FairSpec == Spec /\ Fairness

(***************************************************************************)
(* Properties.                                                             *)
(***************************************************************************)

BackendTypeOK ==
  /\ now \in 0..MaxTime
  /\ row \in [CmdIds -> Rows \cup {NoRow}]
  /\ connected \in BOOLEAN
  /\ outgoing \in Seq(CmdIds)
  /\ spent \in [backendDrops : 0..MaxBackendDrops, deviceDrops : 0..MaxDeviceDrops,
                reboots : 0..MaxReboots, restarts : 0..MaxRestarts]

StreamTypeOK ==
  /\ toBroker \in Seq(CmdIds)
  /\ fromBroker \in Seq(Acks \cup Pubacks)
  /\ toDevice \in Seq(CmdIds)
  /\ fromDevice \in Seq(Acks)

DeviceTypeOK ==
  /\ devUp \in BOOLEAN
  /\ synced \in BOOLEAN
  /\ recent \in [CmdIds -> 0..RingSize]
  /\ cacheAge \in [CmdIds -> 0..CacheSize]
  /\ cacheAt \in [CmdIds -> 0..MaxTime]
  /\ shots \in [CmdIds -> Nat]
  /\ total \in [CmdIds -> Nat]
  /\ handled \in Nat
  /\ mark \in [CmdIds -> Nat]

\* Every variable ranges over the values its code can hold: in particular a
\* verdict or a PUBACK is only ever written to a row that exists.
TypeOK == BackendTypeOK /\ StreamTypeOK /\ DeviceTypeOK

\* Between two emissions of a command within one boot the device records at
\* least RingSize other commands: whatever the links redeliver, the 32-entry
\* ring of CommandService has to be turned over once for each repetition.
EmissionBudget ==
  \A c \in CmdIds : shots[c] >= 1 => (shots[c] - 1) * (RingSize + 1) < handled

\* The promise behind a double tap, end to end: until the device has recorded
\* more ids than fill its ring and one more, a command is emitted at most once
\* per boot, and so is everything ever asked under one idempotency key.
OneEmissionPerKey ==
  handled <= RingSize + 1 =>
    /\ \A c \in CmdIds : shots[c] <= 1
    /\ \A c, d \in CmdIds :
         c # d /\ shots[c] > 0 /\ shots[d] > 0 => row[c].key # row[d].key

\* What a row says about the appliance is true: 'ir_executed' and the exec
\* cache's 'ir_module_busy' only on a command that was emitted at some time,
\* a refusal by code table or policy only on one that never was.
OutcomeTruth ==
  \A c \in Created :
    /\ row[c].status \in {"ir_executed", "ir_module_busy"} => total[c] > 0
    /\ row[c].status \in {"ir_unknown_code", "ir_state_disabled", "rejected",
                          "accepted_mock", "blocked_by_ir_policy"} => total[c] = 0

\* A device with a set clock never emits a command more than one second past
\* its expires_at, however long the command waited in the MQTT client or on a
\* link; a CA-pinned build never emits one later than that at all.
EmissionIsTimely ==
  [][\A c \in CmdIds :
       shots'[c] > shots[c] /\ (synced \/ TlsNeedsClock)
         => now < row[c].expires + Grain]_vars

\* 25 s of life and the 1 s grain of the device clock fit in the 30 s cache.
CacheOutlivesCommands == \A t \in TtlRequests : ClampTtl(t) + Grain <= CacheTtl + 1

\* With a set clock, and lives short enough for the exec cache, a second
\* emission in one boot means that both dedupe layers were turned over by
\* other commands: the expiry check covers the cache's own forgetting.
ReplayNeedsEviction ==
  [][\A c \in CmdIds :
       shots[c] > 0 /\ shots'[c] > shots[c] /\ synced /\ CacheOutlivesCommands
         => cacheAge[c] = CacheSize /\ handled - mark[c] >= RingSize]_vars

\* As long as the bridge's connection never breaks, the verdict the device
\* sent for a command is the last word in its row: the PUBACK callback and
\* the expiry sweep never overwrite it.
VerdictIsFinal ==
  [][\A c \in CmdIds : row[c].acked => row'[c].status = row[c].status]_vars

\* A command handed to a connected MQTT client does not stay 'pending': it is
\* published by a later reconnect at the latest, unless the process restarts.
PublishSettles ==
  \A c \in CmdIds :
    (\E i \in 1..Len(outgoing) : outgoing[i] = c)
      ~> (row[c].status # "pending" \/ spent.restarts > 0)

\* mqtt-protocol.md: deduplication "survives QoS 1 duplicate delivery", so a
\* command is emitted once, whatever happens to the device in between.
DuplicateDeliveryAbsorbed == \A c \in CmdIds : total[c] <= 1

\* architecture.md: a device that was offline when a command was issued
\* "will reject it on reconnect rather than actuate stale intent".
StaleIntentRejected ==
  [][\A c \in CmdIds : shots'[c] > shots[c] => now < row[c].expires + Grain]_vars

\* The command path implements the button contract.
Promise == INSTANCE ActuationContract
             WITH ledger <- {[id |-> c, key |-> row[c].key] : c \in Created},
                  fired  <- shots
Contract == Promise!Contract

==============================================================================

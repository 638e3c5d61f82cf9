--------------------------- MODULE SchedulesProofs ---------------------------
(***************************************************************************)
(* The properties of Schedules, for every number of schedules, requests,   *)
(* crashes, clock steps and edits, and every length of the day and the     *)
(* week.                                                                   *)
(*                                                                         *)
(* None of them is inductive.  What was sent is tied to the idempotency    *)
(* keys (SentOK), the keys to ids that are never handed out again          *)
(* (KeysOK), a one-shot's publications to its being switched off           *)
(* (ArmedOK), the attempts to the minute a row remembers (OrderOK), and    *)
(* the completeness of a scan to what it has still to do (WatchOK).        *)
(***************************************************************************)
EXTENDS Schedules, TLAPS

Pairs == Ids \X Minutes

\* A row's time of day and day of the week.
Falls(row, m) == row.slot = m % SlotsPerDay /\ Weekday(m) \in row.days

\* Ids are handed out in order, and between scans nothing is left of one.
IdsOK ==
  /\ \A i \in Live : i < nextId
  /\ Idle => todo = {} /\ marked = Nobody

\* A key belongs to the schedule that holds its id, and to an id handed out.
KeysOK == \A key \in keys : key \in own /\ key[1] < nextId

\* What was published has its key in the table.
SentOK == \A key \in Pairs : sent[key] = 0 \/ (sent[key] = 1 /\ key \in keys)

\* A one-shot that may still fire has not, since it was armed.
ArmedOK ==
  /\ \A i \in todo : schedules[i].enabled
  /\ marked # Nobody /\ schedules[marked].oneShot => ~schedules[marked].enabled
  /\ \A i \in Live : schedules[i].oneShot =>
       IF schedules[i].enabled \/ marked = i THEN sinceArmed[i] = 0
       ELSE sinceArmed[i] \in {0, 1}

\* While the clock has not stepped back, a row remembers its last attempt and
\* what is to be done in a scan has not been attempted in its minute.
Remembered(i, m) ==
  IF marked = i THEN m < scanMinute ELSE m <= schedules[i].lastFired
OrderOK ==
  /\ scanMinute <= minute
  /\ \A i \in Live : schedules[i].lastFired <= IF Idle THEN minute ELSE scanMinute
  /\ \A i \in todo : schedules[i].lastFired < scanMinute
  /\ marked # Nobody => schedules[marked].lastFired = scanMinute
  /\ \A i \in Ids, m \in Minutes :
       \/ attempts[<<i, m>>] = 0
       \/ /\ attempts[<<i, m>>] = 1 /\ i < nextId
          /\ i \in Live => Remembered(i, m)

\* A row that falls in this minute and is enabled.
Wanted(i) == schedules[i].enabled /\ Falls(schedules[i], minute)

\* Marked rows were attempted, unless a scan broke off in this minute; a scan
\* of this minute has what it has not marked still to do, and a completed one
\* nothing.
WatchOK ==
  /\ watch # "broken" =>
       \A i \in Live : schedules[i].lastFired = minute /\ i # marked
                         => attempts[<<i, minute>>] = 1
  /\ watch = "none" /\ scanMinute = minute =>
       \A i \in Live : Wanted(i) => i \in todo \/ schedules[i].lastFired = minute
  /\ watch = "complete" =>
       /\ todo = {} /\ marked = Nobody
       /\ \A i \in Live : Wanted(i) => schedules[i].lastFired = minute

SchedulesInv ==
  /\ SchedulesTypeOK /\ IdsOK /\ KeysOK /\ SentOK /\ ArmedOK
  /\ stepsBack = 0 => OrderOK /\ WatchOK

------------------------------------------------------------------------------
(* Rows. *)

\* Numbers that are no id and no minute.
LEMMA Nulls == Never \notin Minutes /\ Nobody \notin Ids
               /\ Never \in Int /\ \A m \in Minutes : m \in Int /\ Never < m
  BY BoundsAssumption DEF Never, Nobody, Minutes, Ids

\* A row that is due is enabled, falls in the minute, and was not marked for it.
LEMMA DueRow ==
  ASSUME NEW row, NEW m
  PROVE  Due(row, m) <=> row.enabled /\ Falls(row, m) /\ row.lastFired # m
  BY DEF Due, Falls

\* What markAcScheduleFired leaves in a row.
LEMMA FiredRow ==
  ASSUME NEW row \in Row, NEW m \in Minutes
  PROVE  /\ Fired(row, m) \in Row /\ Fired(row, m).lastFired = m
         /\ Fired(row, m).enabled = (row.enabled /\ ~row.oneShot)
         /\ Fired(row, m).oneShot = row.oneShot
         /\ \A n : Falls(Fired(row, m), n) <=> Falls(row, n)
  BY DEF Fired, Row, Falls

\* What a patch leaves in a row: it never writes last_fired_minute.
LEMMA PatchedRow ==
  ASSUME NEW old \in Row, NEW row \in Row, NEW columns \in SUBSET Columns, NEW merged,
         merged = [c \in DOMAIN old |-> IF c \in columns THEN row[c] ELSE old[c]]
  PROVE  /\ merged \in Row /\ merged.lastFired = old.lastFired
         /\ "enabled" \notin columns => merged.enabled = old.enabled
  <1>1. DOMAIN old = {"enabled", "slot", "days", "oneShot", "lastFired"}
    BY DEF Row
  <1>2. merged = [enabled |-> IF "enabled" \in columns THEN row.enabled ELSE old.enabled,
                  slot |-> IF "slot" \in columns THEN row.slot ELSE old.slot,
                  days |-> IF "days" \in columns THEN row.days ELSE old.days,
                  oneShot |-> IF "oneShot" \in columns THEN row.oneShot ELSE old.oneShot,
                  lastFired |-> old.lastFired]
    BY <1>1 DEF Columns
  <1>. QED
    BY <1>2 DEF Row

------------------------------------------------------------------------------
(* The initial state and the steps. *)

\* There is no schedule in the beginning.
LEMMA SchedulesStart == SchedulesInit => SchedulesInv
  <1> SUFFICES ASSUME SchedulesInit PROVE SchedulesInv
    OBVIOUS
  <1>1. Live = {}
    BY DEF SchedulesInit, Live
  <1>2. SchedulesTypeOK
    BY <1>1, BoundsAssumption DEF SchedulesInit, SchedulesTypeOK, Minutes
  <1>3. IdsOK /\ KeysOK /\ SentOK /\ ArmedOK
    BY <1>1 DEF SchedulesInit, IdsOK, KeysOK, SentOK, Pairs, ArmedOK
  <1>4. OrderOK
    BY <1>1 DEF SchedulesInit, OrderOK, Never
  <1>5. WatchOK
    BY <1>1 DEF SchedulesInit, WatchOK, Never
  <1>. QED
    BY <1>2, <1>3, <1>4, <1>5 DEF SchedulesInv

\* The scan takes the rows that are due in the minute it reads.
LEMMA ScanBeginStep == SchedulesInv /\ ScanBegin => SchedulesInv'
  <1> SUFFICES ASSUME SchedulesInv, ScanBegin PROVE SchedulesInv'
    OBVIOUS
  <1> USE DEF SchedulesInv
  <1>1. /\ Idle /\ scanMinute' = minute /\ todo' = DueRows
        /\ UNCHANGED <<schedules, nextId, keys, minute, marked, aborts, stepsBack, edits,
                       attempts, sent, own, sinceArmed, watch>>
    BY DEF ScanBegin, table, bounds, history
  <1>2. /\ Live' = Live /\ minute \in Minutes /\ ~Idle'
        /\ \A i \in Live : schedules[i] \in Row /\ schedules[i].lastFired \in Minutes \cup {Never}
    BY <1>1, Nulls DEF Live, SchedulesTypeOK, Row, Idle
  <1>3. \A i : i \in todo' <=> /\ i \in Live /\ schedules[i].enabled
                              /\ Falls(schedules[i], minute) /\ schedules[i].lastFired # minute
    BY <1>1, DueRow DEF DueRows
  <1>4. SchedulesTypeOK'
    BY <1>1, <1>2, <1>3 DEF SchedulesTypeOK
  <1>5. IdsOK' /\ KeysOK' /\ SentOK' /\ ArmedOK'
    BY <1>1, <1>2, <1>3 DEF IdsOK, KeysOK, SentOK, ArmedOK
  <1>6. ASSUME OrderOK, WatchOK PROVE OrderOK' /\ WatchOK'
    <2>1. marked = Nobody /\ marked' = Nobody
      BY <1>1 DEF IdsOK
    <2>2. \A i \in Live : schedules[i].lastFired <= minute /\ schedules[i].lastFired \in Int
      BY <1>1, <1>2, <1>6, Nulls DEF OrderOK
    <2>3. OrderOK'
      <3>1. scanMinute' <= minute' /\ ~Idle'
            /\ \A i \in Live' : schedules'[i].lastFired <= scanMinute'
        BY <1>1, <1>2, <2>2, Nulls
      <3>2. \A i \in todo' : schedules'[i].lastFired < scanMinute'
        <4>1. \A i \in todo' : i \in Live /\ schedules[i].lastFired # minute
          BY <1>3
        <4>. QED
          BY <4>1, <1>1, <1>2, <2>2, Nulls
      <3>3. \A i \in Ids : i # marked /\ i # marked'
        BY <2>1, Nulls
      <3>4. \A i \in Ids, m \in Minutes :
              \/ attempts'[<<i, m>>] = 0
              \/ /\ attempts'[<<i, m>>] = 1 /\ i < nextId'
                 /\ i \in Live' => Remembered(i, m)'
        BY <1>1, <1>2, <1>6, <3>3 DEF OrderOK, Remembered
      <3>. QED
        BY <3>1, <3>2, <3>4, <2>1 DEF OrderOK
    <2>4. WatchOK'
      BY <1>1, <1>2, <1>3, <1>6, <2>1 DEF WatchOK, Wanted
    <2>. QED
      BY <2>3, <2>4
  <1>. QED
    BY <1>1, <1>4, <1>5, <1>6

\* The row is marked for the minute of the scan, and a one-shot is switched off.
LEMMA MarkStep == ASSUME SchedulesInv, NEW i \in Ids, Mark(i) PROVE SchedulesInv'
  <1> USE DEF SchedulesInv
  <1>1. /\ marked = Nobody /\ i \in todo /\ todo' = todo \ {i} /\ marked' = i
        /\ schedules' = [schedules EXCEPT ![i] = Fired(@, scanMinute)]
        /\ UNCHANGED <<nextId, keys, minute, scanMinute, aborts, stepsBack, edits,
                       attempts, sent, own, sinceArmed, watch>>
    BY DEF Mark, bounds, history
  <1>2. /\ i \in Live /\ i # Nobody /\ scanMinute \in Minutes /\ ~Idle /\ minute \in Minutes
        /\ \A j \in Live : schedules[j] \in Row /\ schedules[j].lastFired \in Minutes \cup {Never}
    BY <1>1, Nulls DEF SchedulesTypeOK, IdsOK, Idle, Row
  <1>3. /\ Live' = Live /\ schedules'[i] = Fired(schedules[i], scanMinute)
        /\ \A j \in Live : j # i => schedules'[j] = schedules[j]
    BY <1>1, <1>2 DEF Live
  <1>4. /\ schedules'[i] \in Row /\ schedules'[i].lastFired = scanMinute
        /\ schedules'[i].enabled = (schedules[i].enabled /\ ~schedules[i].oneShot)
        /\ schedules'[i].oneShot = schedules[i].oneShot
        /\ \A n : Falls(schedules'[i], n) <=> Falls(schedules[i], n)
    BY <1>2, <1>3, FiredRow
  <1>5. SchedulesTypeOK'
    BY <1>1, <1>2, <1>3, <1>4 DEF SchedulesTypeOK
  <1>6. IdsOK' /\ KeysOK' /\ SentOK'
    BY <1>1, <1>2, <1>3 DEF IdsOK, KeysOK, SentOK, Idle
  <1>7. ArmedOK'
    <2>1. \A j \in todo' : schedules'[j].enabled
      BY <1>1, <1>3 DEF ArmedOK, SchedulesTypeOK
    <2>2. schedules'[i].oneShot => ~schedules'[i].enabled
      BY <1>4
    <2>3. schedules'[i].oneShot => sinceArmed'[i] = 0
      BY <1>1, <1>2, <1>4 DEF ArmedOK
    <2>4. \A j \in Live : j # i => j # marked /\ j # marked'
      BY <1>1, Nulls DEF SchedulesTypeOK
    <2>. QED
      BY <1>1, <1>3, <2>1, <2>2, <2>3, <2>4 DEF ArmedOK
  <1>8. ASSUME OrderOK, WatchOK PROVE OrderOK' /\ WatchOK'
    <2>1. OrderOK'
      <3>1. /\ scanMinute' <= minute' /\ \A j \in todo' : schedules'[j].lastFired < scanMinute'
            /\ schedules'[marked'].lastFired = scanMinute'
        BY <1>1, <1>3, <1>4, <1>8, Nulls DEF OrderOK, SchedulesTypeOK
      <3>2. ~Idle' /\ \A j \in Live' : schedules'[j].lastFired <= scanMinute'
        BY <1>1, <1>2, <1>3, <1>4, <1>8, Nulls DEF OrderOK, Idle
      <3>3. ASSUME NEW j \in Ids, NEW m \in Minutes, attempts'[<<j, m>>] # 0
            PROVE  /\ attempts'[<<j, m>>] = 1 /\ j < nextId'
                   /\ j \in Live' => Remembered(j, m)'
        <4>1. /\ attempts[<<j, m>>] = 1 /\ j < nextId
              /\ j \in Live => m <= schedules[j].lastFired
          BY <1>1, <1>2, <1>8, <3>3, Nulls DEF OrderOK, Remembered, SchedulesTypeOK
        <4>2. CASE j = i
          BY <4>1, <4>2, <1>1, <1>2, <1>8, Nulls DEF OrderOK, Remembered
        <4>3. CASE j # i
          BY <4>1, <4>3, <1>1, <1>3 DEF Remembered
        <4>. QED
          BY <4>2, <4>3
      <3>. QED
        BY <3>1, <3>2, <3>3 DEF OrderOK
    <2>2. WatchOK'
      <3>1. \A j \in Live : j # marked
        BY <1>1, Nulls DEF SchedulesTypeOK
      <3>2. watch # "complete"
        BY <1>1, <1>8 DEF WatchOK
      <3>3. watch' # "broken" => \A j \in Live' :
              schedules'[j].lastFired = minute' /\ j # marked' => attempts'[<<j, minute'>>] = 1
        BY <3>1, <1>1, <1>3, <1>8 DEF WatchOK
      <3>4. ASSUME watch' = "none", scanMinute' = minute', NEW j \in Live', Wanted(j)'
            PROVE  j \in todo' \/ schedules'[j].lastFired = minute'
        <4>1. CASE j = i
          BY <4>1, <3>4, <1>1, <1>4
        <4>2. CASE j # i
          BY <4>2, <3>4, <1>1, <1>3, <1>8 DEF WatchOK, Wanted
        <4>. QED
          BY <4>1, <4>2
      <3>. QED
        BY <3>2, <3>3, <3>4, <1>1 DEF WatchOK
    <2>. QED
      BY <2>1, <2>2
  <1>. QED
    BY <1>1, <1>5, <1>6, <1>7, <1>8

\* The marked row is dispatched, refused, or answered as a replay.
LEMMA DispatchStep == ASSUME SchedulesInv, NEW outcome \in Outcomes, Dispatch(outcome)
                      PROVE  SchedulesInv'
  <1> USE DEF SchedulesInv
  <1>. DEFINE key == <<marked, scanMinute>>
             fresh == Dispatched(outcome) /\ key \notin keys
             out == outcome = "published" /\ key \notin keys
  <1>1. /\ marked # Nobody /\ marked' = Nobody
        /\ attempts' = [attempts EXCEPT ![key] = @ + 1]
        /\ UNCHANGED <<schedules, nextId, minute, todo, scanMinute, aborts, stepsBack, edits,
                       watch>>
    BY DEF Dispatch, KeepMark, bounds
  <1>2. IF fresh THEN keys' = keys \cup {key} /\ own' = own \cup {key}
        ELSE keys' = keys /\ own' = own
    BY DEF Dispatch, Unused
  <1>3. IF out THEN /\ sent' = [sent EXCEPT ![key] = @ + 1]
                    /\ sinceArmed' = [sinceArmed EXCEPT ![marked] = @ + 1]
        ELSE sent' = sent /\ sinceArmed' = sinceArmed
    BY DEF Dispatch, Unused
  <1>4. out => fresh
    BY DEF Dispatched
  <1>5. /\ marked \in Live /\ marked \in Ids /\ scanMinute \in Minutes /\ minute \in Minutes
        /\ key \in Pairs /\ ~Idle /\ Live' = Live /\ (Idle' <=> Idle)
    BY <1>1, Nulls DEF SchedulesTypeOK, IdsOK, Idle, Pairs, Live
  <1>6. SchedulesTypeOK'
    <2>1. attempts' \in [Pairs -> Nat] /\ sent' \in [Pairs -> Nat]
          /\ sinceArmed' \in [Ids -> Nat]
      <3>1. /\ attempts \in [Pairs -> Nat] /\ sent \in [Pairs -> Nat]
            /\ sinceArmed \in [Ids -> Nat]
        BY DEF SchedulesTypeOK, Pairs
      <3>2. attempts' \in [Pairs -> Nat]
        BY <3>1, <1>1, <1>5
      <3>3. sent' \in [Pairs -> Nat] /\ sinceArmed' \in [Ids -> Nat]
        BY <3>1, <1>3, <1>5
      <3>. QED
        BY <3>2, <3>3
    <2>2. keys' \subseteq Pairs /\ own' \subseteq Pairs
      BY <1>2, <1>5 DEF SchedulesTypeOK, Pairs
    <2>. QED
      BY <2>1, <2>2, <1>1, <1>5 DEF SchedulesTypeOK, Pairs
  <1>7. IdsOK'
    BY <1>1, <1>5 DEF IdsOK
  <1>8. KeysOK'
    <2>1. key[1] < nextId
      BY <1>5 DEF IdsOK
    <2>. QED
      BY <2>1, <1>1, <1>2 DEF KeysOK
  <1>9. SentOK'
    <2>1. sent \in [Pairs -> Nat]
      BY DEF SchedulesTypeOK, Pairs
    <2>. QED
      BY <2>1, <1>2, <1>3, <1>4, <1>5 DEF SentOK
  <1>10. ArmedOK'
    <2>1. \A i \in Live : schedules[i].oneShot =>
            sinceArmed'[i] = (IF out /\ i = marked THEN 1 ELSE sinceArmed[i])
      BY <1>3, <1>5 DEF ArmedOK, SchedulesTypeOK
    <2>2. \A i \in Live : i # marked'
      BY <1>1, Nulls DEF SchedulesTypeOK
    <2>3. schedules[marked].oneShot => ~schedules[marked].enabled
      BY <1>1 DEF ArmedOK
    <2>. QED
      BY <1>1, <1>5, <2>1, <2>2, <2>3 DEF ArmedOK
  <1>11. ASSUME OrderOK, WatchOK PROVE OrderOK' /\ WatchOK'
    <2>1. /\ attempts[key] = 0 /\ attempts'[key] = 1 /\ schedules[marked].lastFired = scanMinute
          /\ \A pair \in Pairs : pair # key => attempts'[pair] = attempts[pair]
      BY <1>1, <1>5, <1>11, Nulls DEF OrderOK, Remembered, SchedulesTypeOK, Pairs
    <2>2. OrderOK'
      <3>1. ASSUME NEW i \in Ids, NEW m \in Minutes, attempts'[<<i, m>>] # 0
            PROVE  /\ attempts'[<<i, m>>] = 1 /\ i < nextId'
                   /\ i \in Live' => Remembered(i, m)'
        <4>1. i # marked'
          BY <1>1, Nulls
        <4>2. CASE <<i, m>> = key
          <5>1. i = marked /\ m = scanMinute
            BY <4>2
          <5>2. i \in Live /\ i < nextId
            BY <5>1, <1>5 DEF IdsOK
          <5>3. m <= schedules'[i].lastFired
            BY <5>1, <2>1, <1>1, <1>5, Nulls
          <5>. QED
            BY <5>2, <5>3, <4>1, <4>2, <2>1, <1>1 DEF Remembered
        <4>3. CASE <<i, m>> # key
          <5>1. /\ attempts[<<i, m>>] = 1 /\ i < nextId /\ attempts'[<<i, m>>] = 1
                /\ i \in Live => Remembered(i, m)
            BY <4>3, <3>1, <2>1, <1>11 DEF OrderOK, Pairs
          <5>2. CASE i = marked
            BY <5>1, <5>2, <4>1, <2>1, <1>1, <1>5, Nulls DEF Remembered
          <5>3. CASE i # marked
            BY <5>1, <5>3, <4>1, <1>1, <1>5 DEF Remembered
          <5>. QED
            BY <5>2, <5>3
        <4>. QED
          BY <4>2, <4>3
      <3>. QED
        BY <3>1, <1>1, <1>5, <1>11 DEF OrderOK
    <2>3. WatchOK'
      <3>1. watch # "complete"
        BY <1>1, <1>11 DEF WatchOK
      <3>2. ASSUME watch' # "broken", NEW i \in Live', schedules'[i].lastFired = minute'
            PROVE  attempts'[<<i, minute'>>] = 1
        <4>1. CASE i = marked
          BY <4>1, <3>2, <2>1, <1>1
        <4>2. CASE i # marked
          <5>1. attempts[<<i, minute>>] = 1 /\ <<i, minute>> # key /\ <<i, minute>> \in Pairs
            BY <4>2, <3>2, <1>1, <1>5, <1>11 DEF WatchOK, SchedulesTypeOK, Pairs
          <5>. QED
            BY <5>1, <2>1, <1>1
        <4>. QED
          BY <4>1, <4>2
      <3>. QED
        BY <3>1, <3>2, <1>1, <1>5, <1>11 DEF WatchOK, Wanted
    <2>. QED
      BY <2>2, <2>3
  <1>. QED
    BY <1>1, <1>6, <1>7, <1>8, <1>9, <1>10, <1>11

\* A scan that has handled all its rows ends; only one of the present minute
\* completes it.
LEMMA ScanEndStep == SchedulesInv /\ ScanEnd => SchedulesInv'
  <1> SUFFICES ASSUME SchedulesInv, ScanEnd PROVE SchedulesInv'
    OBVIOUS
  <1> USE DEF SchedulesInv
  <1>1. /\ ~Idle /\ todo = {} /\ marked = Nobody /\ scanMinute' = Never
        /\ watch' = (IF watch = "none" /\ scanMinute = minute THEN "complete" ELSE watch)
        /\ UNCHANGED <<schedules, nextId, keys, minute, todo, marked, aborts, stepsBack, edits,
                       attempts, sent, own, sinceArmed>>
    BY DEF ScanEnd, table, bounds, history
  <1>2. /\ Live' = Live /\ minute \in Minutes /\ scanMinute \in Minutes /\ Idle'
        /\ \A i \in Live : schedules[i] \in Row /\ schedules[i].lastFired \in Minutes \cup {Never}
    BY <1>1, Nulls DEF Live, SchedulesTypeOK, Row, Idle
  <1>3. SchedulesTypeOK'
    BY <1>1, <1>2 DEF SchedulesTypeOK
  <1>4. IdsOK' /\ KeysOK' /\ SentOK' /\ ArmedOK'
    BY <1>1, <1>2 DEF IdsOK, KeysOK, SentOK, ArmedOK
  <1>5. ASSUME OrderOK, WatchOK PROVE OrderOK' /\ WatchOK'
    <2>1. \A i \in Live : schedules[i].lastFired <= minute
      BY <1>1, <1>2, <1>5, Nulls DEF OrderOK
    <2>2. \A i \in Ids : i # marked
      BY <1>1, Nulls
    <2>3. OrderOK'
      BY <1>1, <1>2, <1>5, <2>1, <2>2, Nulls DEF OrderOK, Remembered
    <2>4. WatchOK'
      BY <1>1, <1>2, <1>5, Nulls DEF WatchOK, Wanted
    <2>. QED
      BY <2>3, <2>4
  <1>. QED
    BY <1>1, <1>3, <1>4, <1>5

\* What was to be done is forgotten, and so is the marked row's dispatch.
LEMMA AbortStep == SchedulesInv /\ Abort => SchedulesInv'
  <1> SUFFICES ASSUME SchedulesInv, Abort PROVE SchedulesInv'
    OBVIOUS
  <1> USE DEF SchedulesInv
  <1>1. /\ aborts < MaxAborts /\ aborts' = aborts + 1
        /\ todo' = {} /\ marked' = Nobody /\ scanMinute' = Never /\ watch' = "broken"
        /\ UNCHANGED <<schedules, nextId, keys, minute, stepsBack, edits,
                       attempts, sent, own, sinceArmed>>
    BY DEF Abort, table, history
  <1>2. /\ Live' = Live /\ minute \in Minutes /\ Idle'
        /\ scanMinute \in Minutes \cup {Never}
        /\ \A i \in Live : schedules[i] \in Row /\ schedules[i].lastFired \in Minutes \cup {Never}
    BY <1>1, Nulls DEF Live, SchedulesTypeOK, Row, Idle
  <1>3. SchedulesTypeOK'
    <2>1. aborts' \in 0..MaxAborts
      BY <1>1, BoundsAssumption DEF SchedulesTypeOK
    <2>. QED
      BY <2>1, <1>1, <1>2 DEF SchedulesTypeOK
  <1>4. IdsOK' /\ KeysOK' /\ SentOK'
    BY <1>1, <1>2 DEF IdsOK, KeysOK, SentOK
  <1>5. ArmedOK'
    <2>1. ASSUME NEW i \in Live, schedules[i].oneShot
          PROVE  IF schedules[i].enabled \/ marked' = i THEN sinceArmed[i] = 0
                 ELSE sinceArmed[i] \in {0, 1}
      <3>1. i # marked'
        BY <1>1, Nulls DEF SchedulesTypeOK
      <3>. QED
        BY <2>1, <3>1 DEF ArmedOK
    <2>. QED
      BY <2>1, <1>1, <1>2 DEF ArmedOK
  <1>6. ASSUME OrderOK, WatchOK PROVE OrderOK' /\ WatchOK'
    <2>1. \A i \in Live : schedules[i].lastFired <= minute
      BY <1>2, <1>6, Nulls DEF OrderOK
    <2>2. ASSUME NEW i \in Ids, NEW m \in Minutes, i \in Live, Remembered(i, m)
          PROVE  Remembered(i, m)'
      <3>1. marked = i => schedules[i].lastFired = scanMinute /\ i # Nobody
        BY <1>6, Nulls DEF OrderOK
      <3>2. m <= schedules[i].lastFired
        BY <2>2, <3>1, <1>2, Nulls DEF Remembered
      <3>. QED
        BY <3>2, <1>1, Nulls DEF Remembered
    <2>3. OrderOK'
      BY <1>1, <1>2, <1>6, <2>1, <2>2, Nulls DEF OrderOK
    <2>4. WatchOK'
      BY <1>1, <1>2, Nulls DEF WatchOK
    <2>. QED
      BY <2>3, <2>4
  <1>. QED
    BY <1>1, <1>3, <1>4, <1>5, <1>6

\* The next minute is one no row has been marked for.
LEMMA TickStep == SchedulesInv /\ MinutePasses => SchedulesInv'
  <1> SUFFICES ASSUME SchedulesInv, MinutePasses PROVE SchedulesInv'
    OBVIOUS
  <1> USE DEF SchedulesInv
  <1>1. /\ minute < MaxMinute /\ minute' = minute + 1 /\ watch' = "none"
        /\ UNCHANGED <<schedules, nextId, keys, todo, marked, scanMinute, aborts, stepsBack,
                       edits, attempts, sent, own, sinceArmed>>
    BY DEF MinutePasses, table, scan, bounds, history
  <1>2. /\ Live' = Live /\ minute \in Minutes /\ minute' \in Minutes /\ (Idle' <=> Idle)
        /\ scanMinute \in Minutes \cup {Never}
        /\ \A i \in Live : schedules[i] \in Row /\ schedules[i].lastFired \in Minutes \cup {Never}
    BY <1>1, BoundsAssumption DEF Live, SchedulesTypeOK, Row, Idle, Minutes
  <1>3. SchedulesTypeOK'
    BY <1>1, <1>2 DEF SchedulesTypeOK
  <1>4. IdsOK' /\ KeysOK' /\ SentOK' /\ ArmedOK'
    BY <1>1, <1>2 DEF IdsOK, KeysOK, SentOK, ArmedOK
  <1>5. ASSUME OrderOK, WatchOK PROVE OrderOK' /\ WatchOK'
    <2>1. scanMinute < minute' /\ \A i \in Live : schedules[i].lastFired < minute'
      BY <1>1, <1>2, <1>5, Nulls DEF OrderOK
    <2>2. OrderOK'
      <3>1. scanMinute' <= minute'
            /\ \A i \in Live' : schedules'[i].lastFired <= IF Idle' THEN minute' ELSE scanMinute'
        BY <1>1, <1>2, <1>5, <2>1, Nulls DEF OrderOK
      <3>2. \A i, m : Remembered(i, m)' <=> Remembered(i, m)
        BY <1>1 DEF Remembered
      <3>. QED
        BY <3>1, <3>2, <1>1, <1>2, <1>5 DEF OrderOK
    <2>3. WatchOK'
      BY <1>1, <1>2, <2>1, Nulls DEF WatchOK
    <2>. QED
      BY <2>2, <2>3
  <1>. QED
    BY <1>1, <1>3, <1>4, <1>5

\* The clock may be set back.
LEMMA StepBackStep == SchedulesInv /\ StepBack => SchedulesInv'
  <1> SUFFICES ASSUME SchedulesInv, StepBack PROVE SchedulesInv'
    OBVIOUS
  <1> USE DEF SchedulesInv
  <1>1. /\ stepsBack < MaxStepsBack /\ stepsBack' = stepsBack + 1
        /\ minute > 0 /\ minute' = minute - 1 /\ watch' = "broken"
        /\ UNCHANGED <<schedules, nextId, keys, todo, marked, scanMinute, aborts,
                       edits, attempts, sent, own, sinceArmed>>
    BY DEF StepBack, table, scan, history
  <1>2. /\ Live' = Live /\ minute' \in Minutes /\ (Idle' <=> Idle)
        /\ stepsBack' \in 0..MaxStepsBack /\ stepsBack' # 0
    BY <1>1, BoundsAssumption DEF Live, SchedulesTypeOK, Idle, Minutes
  <1>3. SchedulesTypeOK'
    BY <1>1, <1>2 DEF SchedulesTypeOK
  <1>4. IdsOK' /\ KeysOK' /\ SentOK' /\ ArmedOK'
    BY <1>1, <1>2 DEF IdsOK, KeysOK, SentOK, ArmedOK
  <1>. QED
    BY <1>2, <1>3, <1>4

\* A new row has an id no key and no attempt names.
LEMMA CreateStep == ASSUME SchedulesInv, NEW row \in Requests, Create(row) PROVE SchedulesInv'
  <1> USE DEF SchedulesInv
  <1>. DEFINE i == nextId
  <1>1. /\ Idle /\ i \in Ids /\ nextId' = nextId + 1
        /\ schedules' = [j \in Live \cup {i} |-> IF j = i THEN row ELSE schedules[j]]
        /\ own' = {key \in own : key[1] # i}
        /\ sinceArmed' = [sinceArmed EXCEPT ![i] = 0]
        /\ watch' = (IF watch = "broken" THEN "broken" ELSE "none")
        /\ UNCHANGED <<keys, minute, todo, marked, scanMinute, aborts, stepsBack, edits,
                       attempts, sent>>
    BY DEF Create, FreshId, Edited, scan, bounds
  <1>2. /\ row \in Row /\ row.lastFired = Never /\ minute \in Minutes
        /\ todo = {} /\ marked = Nobody /\ (Idle' <=> Idle) /\ scanMinute = Never
    BY <1>1, RequestsAssumption DEF IdsOK, SchedulesTypeOK, Idle
  <1>3. /\ Live' = Live \cup {i} /\ i \notin Live /\ schedules'[i] = row
        /\ \A j \in Live : j # i /\ schedules'[j] = schedules[j]
        /\ Live \subseteq Ids /\ \A j \in Ids : j \in Int
    BY <1>1, BoundsAssumption DEF IdsOK, Live, SchedulesTypeOK, Ids
  <1>4. SchedulesTypeOK'
    <2>1. nextId' \in 1..(MaxId + 1)
      BY <1>1, BoundsAssumption DEF Ids
    <2>2. own' \subseteq Ids \X Minutes /\ sinceArmed' \in [Ids -> Nat]
      BY <1>1 DEF SchedulesTypeOK
    <2>. QED
      BY <2>1, <2>2, <1>1, <1>2, <1>3 DEF SchedulesTypeOK
  <1>5. IdsOK'
    BY <1>1, <1>2, <1>3 DEF IdsOK, Ids
  <1>6. KeysOK'
    <2> SUFFICES ASSUME NEW key \in keys PROVE key \in own' /\ key[1] < nextId'
      BY <1>1 DEF KeysOK
    <2>1. key \in own /\ key[1] < i /\ key[1] \in Ids
      BY DEF KeysOK, SchedulesTypeOK
    <2>. QED
      BY <2>1, <1>1, <1>3
  <1>7. SentOK'
    BY <1>1 DEF SentOK
  <1>8. ArmedOK'
    <2>1. sinceArmed'[i] = 0 /\ \A j \in Live : sinceArmed'[j] = sinceArmed[j]
      BY <1>1, <1>3 DEF SchedulesTypeOK
    <2>. QED
      BY <2>1, <1>1, <1>2, <1>3 DEF ArmedOK
  <1>9. ASSUME OrderOK, WatchOK PROVE OrderOK' /\ WatchOK'
    <2>1. OrderOK'
      <3>1. scanMinute' <= minute'
            /\ \A j \in Live' : schedules'[j].lastFired <= IF Idle' THEN minute' ELSE scanMinute'
        BY <1>1, <1>2, <1>3, <1>9, Nulls DEF OrderOK
      <3>2. ASSUME NEW j \in Ids, NEW m \in Minutes, attempts'[<<j, m>>] # 0
            PROVE  /\ attempts'[<<j, m>>] = 1 /\ j < nextId'
                   /\ j \in Live' => Remembered(j, m)'
        <4>1. /\ attempts[<<j, m>>] = 1 /\ j < i
              /\ j \in Live => Remembered(j, m)
          BY <3>2, <1>1, <1>9 DEF OrderOK
        <4>2. j # i /\ j < nextId'
          BY <4>1, <1>1, <1>3
        <4>. QED
          BY <4>1, <4>2, <1>1, <1>3 DEF Remembered
      <3>. QED
        BY <3>1, <3>2, <1>1, <1>2 DEF OrderOK
    <2>2. WatchOK'
      BY <1>1, <1>2, <1>3, <1>9, Nulls DEF WatchOK
    <2>. QED
      BY <2>1, <2>2
  <1>. QED
    BY <1>1, <1>4, <1>5, <1>6, <1>7, <1>8, <1>9

\* A patch arms the row when it enables it or changes its kind.
LEMMA PatchStep ==
  ASSUME SchedulesInv, NEW i \in Ids, NEW row \in Requests, NEW columns \in Patches,
         Patch(i, row, columns)
  PROVE  SchedulesInv'
  <1> USE DEF SchedulesInv
  <1>. DEFINE old == schedules[i]
             merged == [c \in DOMAIN old |-> IF c \in columns THEN row[c] ELSE old[c]]
  <1>1. /\ Idle /\ i \in Live /\ edits < MaxEdits /\ edits' = edits + 1
        /\ schedules' = [schedules EXCEPT ![i] = merged]
        /\ sinceArmed' = (IF "enabled" \in columns \/ ~old.oneShot
                          THEN [sinceArmed EXCEPT ![i] = 0] ELSE sinceArmed)
        /\ watch' = (IF watch = "broken" THEN "broken" ELSE "none")
        /\ UNCHANGED <<nextId, keys, minute, todo, marked, scanMinute, aborts, stepsBack,
                       attempts, sent, own>>
    BY DEF Patch, Edited, scan
  <1>2. /\ minute \in Minutes /\ todo = {} /\ marked = Nobody /\ (Idle' <=> Idle)
        /\ scanMinute = Never /\ old \in Row
    BY <1>1 DEF IdsOK, SchedulesTypeOK, Idle
  <1>3. /\ merged \in Row /\ merged.lastFired = old.lastFired
        /\ "enabled" \notin columns => merged.enabled = old.enabled
    <2>1. row \in Row /\ columns \in SUBSET Columns
      BY RequestsAssumption
    <2>. HIDE DEF old
    <2>. QED
      BY <2>1, <1>2, PatchedRow
  <1>4. /\ Live' = Live /\ schedules'[i] = merged
        /\ \A j \in Live : j # i => schedules'[j] = schedules[j]
    <2>. HIDE DEF merged
    <2>. QED
      BY <1>1 DEF Live
  <1>. HIDE DEF merged
  <1>5. \A j \in Live : schedules'[j].lastFired = schedules[j].lastFired
                       /\ schedules'[j] \in Row
    BY <1>3, <1>4 DEF SchedulesTypeOK
  <1>6. /\ sinceArmed' \in [Ids -> Nat]
        /\ \A j \in Live : j # i => sinceArmed'[j] = sinceArmed[j]
        /\ sinceArmed'[i] = (IF "enabled" \in columns \/ ~old.oneShot THEN 0 ELSE sinceArmed[i])
    BY <1>1 DEF SchedulesTypeOK
  <1>7. SchedulesTypeOK'
    <2>1. edits' \in 0..MaxEdits
      BY <1>1, BoundsAssumption DEF SchedulesTypeOK
    <2>. QED
      BY <2>1, <1>1, <1>4, <1>5, <1>6 DEF SchedulesTypeOK
  <1>8. IdsOK' /\ KeysOK' /\ SentOK'
    BY <1>1, <1>2, <1>4 DEF IdsOK, KeysOK, SentOK
  <1>9. ArmedOK'
    <2>1. i # marked
      BY <1>2, Nulls
    <2>2. merged.oneShot =>
            IF merged.enabled THEN sinceArmed'[i] = 0 ELSE sinceArmed'[i] \in {0, 1}
      <3>1. CASE "enabled" \in columns \/ ~old.oneShot
        BY <3>1, <1>6
      <3>2. CASE ~("enabled" \in columns \/ ~old.oneShot)
        BY <3>2, <2>1, <1>1, <1>3, <1>6 DEF ArmedOK
      <3>. QED
        BY <3>1, <3>2
    <2>. QED
      BY <2>1, <2>2, <1>1, <1>2, <1>4, <1>6 DEF ArmedOK
  <1>10. ASSUME OrderOK, WatchOK PROVE OrderOK' /\ WatchOK'
    <2>1. \A j \in Live, m \in Minutes : Remembered(j, m)' <=> Remembered(j, m)
      BY <1>1, <1>5 DEF Remembered
    <2>2. OrderOK'
      BY <2>1, <1>1, <1>2, <1>4, <1>5, <1>10 DEF OrderOK
    <2>3. WatchOK'
      BY <1>1, <1>2, <1>4, <1>5, <1>10, Nulls DEF WatchOK
    <2>. QED
      BY <2>2, <2>3
  <1>. QED
    BY <1>1, <1>7, <1>8, <1>9, <1>10

\* A schedule is deleted, its keys are not.
LEMMA DeleteStep == ASSUME SchedulesInv, NEW i \in Ids, Delete(i) PROVE SchedulesInv'
  <1> USE DEF SchedulesInv
  <1>1. /\ Idle /\ schedules' = [j \in Live \ {i} |-> schedules[j]]
        /\ UNCHANGED <<nextId, keys, minute, todo, marked, scanMinute, aborts, stepsBack, edits,
                       attempts, sent, own, sinceArmed, watch>>
    BY DEF Delete, scan, bounds, history
  <1>2. /\ Live' = Live \ {i} /\ \A j \in Live' : j \in Live /\ schedules'[j] = schedules[j]
        /\ todo = {} /\ marked = Nobody /\ (Idle' <=> Idle)
    BY <1>1 DEF IdsOK, Live, Idle
  <1>3. SchedulesTypeOK'
    BY <1>1, <1>2 DEF SchedulesTypeOK
  <1>4. IdsOK' /\ KeysOK' /\ SentOK' /\ ArmedOK'
    BY <1>1, <1>2 DEF IdsOK, KeysOK, SentOK, ArmedOK
  <1>5. ASSUME OrderOK, WatchOK PROVE OrderOK' /\ WatchOK'
    <2>1. \A j \in Live', m \in Minutes : Remembered(j, m)' <=> Remembered(j, m)
      BY <1>1, <1>2 DEF Remembered
    <2>2. OrderOK'
      BY <2>1, <1>1, <1>2, <1>5 DEF OrderOK
    <2>3. WatchOK'
      BY <1>1, <1>2, <1>5 DEF WatchOK, Wanted
    <2>. QED
      BY <2>2, <2>3
  <1>. QED
    BY <1>1, <1>3, <1>4, <1>5

------------------------------------------------------------------------------
(* The theorems. *)

\* Ids, keys, publications, armed rows, remembered attempts and the progress of
\* a scan fit together in every reachable state.
THEOREM SchedulesInductive == SchedulesSpec => []SchedulesInv
  <1>1. SchedulesInv /\ [SchedulesNext]_schedulesVars => SchedulesInv'
    <2> SUFFICES ASSUME SchedulesInv, [SchedulesNext]_schedulesVars PROVE SchedulesInv'
      OBVIOUS
    <2>1. CASE UNCHANGED schedulesVars
      <3>1. /\ UNCHANGED <<schedules, nextId, keys, minute, todo, marked, scanMinute>>
            /\ UNCHANGED <<aborts, stepsBack, edits, attempts, sent, own, sinceArmed, watch>>
        BY <2>1 DEF schedulesVars, table, scan, bounds, history
      <3>2. SchedulesTypeOK' /\ IdsOK' /\ KeysOK' /\ SentOK' /\ ArmedOK'
        BY <3>1 DEF SchedulesInv, SchedulesTypeOK, IdsOK, KeysOK, SentOK, ArmedOK, Live, Idle
      <3>3. OrderOK' = OrderOK /\ WatchOK' = WatchOK
        BY <3>1 DEF OrderOK, Remembered, WatchOK, Wanted, Live, Idle
      <3>. QED
        BY <3>1, <3>2, <3>3 DEF SchedulesInv
    <2>2. CASE ScanBegin
      BY <2>2, ScanBeginStep
    <2>3. CASE \E i \in Ids : Mark(i)
      BY <2>3, MarkStep
    <2>4. CASE \E outcome \in Outcomes : Dispatch(outcome)
      BY <2>4, DispatchStep
    <2>5. CASE ScanEnd
      BY <2>5, ScanEndStep
    <2>6. CASE Abort
      BY <2>6, AbortStep
    <2>7. CASE \E row \in Requests : Create(row)
      BY <2>7, CreateStep
    <2>8. CASE \E i \in Ids, row \in Requests, columns \in Patches : Patch(i, row, columns)
      BY <2>8, PatchStep
    <2>9. CASE \E i \in Ids : Delete(i)
      BY <2>9, DeleteStep
    <2>10. CASE MinutePasses
      BY <2>10, TickStep
    <2>11. CASE StepBack
      BY <2>11, StepBackStep
    <2>. QED
      BY <2>1, <2>2, <2>3, <2>4, <2>5, <2>6, <2>7, <2>8, <2>9, <2>10, <2>11 DEF SchedulesNext
  <1>. QED
    BY SchedulesStart, <1>1, PTL DEF SchedulesSpec

\* Every variable keeps its type; a row being dispatched is a row of the table.
THEOREM SchedulesTyped == SchedulesSpec => []SchedulesTypeOK
  <1>1. SchedulesInv => SchedulesTypeOK
    BY DEF SchedulesInv
  <1>. QED
    BY SchedulesInductive, <1>1, PTL

\* The same minute of a schedule reaches the broker at most once, whatever
\* last_fired_minute has forgotten.
THEOREM MinuteOnce == SchedulesSpec => []AtMostOncePerMinute
  <1>1. SchedulesInv => AtMostOncePerMinute
    BY DEF SchedulesInv, SentOK, Pairs, AtMostOncePerMinute
  <1>. QED
    BY SchedulesInductive, <1>1, PTL

\* A refused dispatch is not tried again within its minute.
THEOREM NoStorm == SchedulesSpec => []NoRetryStorm
  <1>1. SchedulesInv => NoRetryStorm
    <2> SUFFICES ASSUME SchedulesInv, stepsBack = 0, NEW key \in Ids \X Minutes
                 PROVE  attempts[key] <= 1
      BY DEF NoRetryStorm
    <2>1. PICK i \in Ids, m \in Minutes : key = <<i, m>>
      OBVIOUS
    <2>2. attempts[<<i, m>>] \in {0, 1}
      BY DEF SchedulesInv, OrderOK
    <2>. QED
      BY <2>1, <2>2
  <1>. QED
    BY SchedulesInductive, <1>1, PTL

\* A one-shot is published at most once for each time it is armed.
THEOREM ShotOnce == SchedulesSpec => []OneShotOnce
  <1>1. SchedulesInv => OneShotOnce
    BY DEF SchedulesInv, ArmedOK, OneShotOnce
  <1>. QED
    BY SchedulesInductive, <1>1, PTL

\* A new schedule never inherits the keys of a deleted one.
THEOREM OwnKeys == SchedulesSpec => []KeysAreOwn
  <1>1. SchedulesInv => KeysAreOwn
    BY DEF SchedulesInv, KeysOK, KeysAreOwn
  <1>. QED
    BY SchedulesInductive, <1>1, PTL

\* An undisturbed scan leaves no schedule of its minute out.
THEOREM NoneMissed == SchedulesSpec => []NoMissedFiring
  <1>1. SchedulesInv => NoMissedFiring
    <2> SUFFICES ASSUME SchedulesInv, watch = "complete", stepsBack = 0,
                        NEW i \in Live, schedules[i].slot = minute % SlotsPerDay,
                        Weekday(minute) \in schedules[i].days, schedules[i].enabled
                 PROVE  attempts[<<i, minute>>] = 1
      BY DEF NoMissedFiring
    <2>1. WatchOK /\ Wanted(i)
      BY DEF SchedulesInv, Wanted, Falls
    <2>2. schedules[i].lastFired = minute /\ marked = Nobody
      BY <2>1 DEF WatchOK
    <2>3. i # marked
      BY <2>2, Nulls DEF SchedulesInv, SchedulesTypeOK
    <2>. QED
      BY <2>1, <2>2, <2>3 DEF WatchOK
  <1>. QED
    BY SchedulesInductive, <1>1, PTL

=============================================================================

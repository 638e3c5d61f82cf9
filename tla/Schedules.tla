------------------------------ MODULE Schedules ------------------------------
(***************************************************************************)
(* The timed half of the automation worker (automation.ts): scanSchedules  *)
(* runs every 10 s, picks the enabled schedules of the current minute,     *)
(* marks each as fired and then dispatches it.                             *)
(*                                                                         *)
(* The scan is one synchronous callback, so no request runs inside it; but *)
(* the process can die, or a statement throw, between any two of its       *)
(* writes, and the clock can move.  A minute is a number counted from a    *)
(* Monday 00:00 and stands for minuteKey, which names the date too.        *)
(***************************************************************************)
EXTENDS Automation

CONSTANTS
  MaxId,          \* bound on schedules ever created
  SlotsPerDay,    \* minutes of a day
  DaysPerWeek,
  Requests,       \* rows an owner may ask for
  Patches,        \* sets of columns a PATCH may write
  MaxMinute,      \* bound on the clock
  MaxAborts,      \* bound on crashes and throws
  MaxStepsBack,   \* bound on backward clock adjustments
  MaxEdits        \* bound on PATCH requests

Ids     == 1..MaxId
Minutes == 0..MaxMinute
Never   == -1
Nobody  == 0

Row == [enabled : BOOLEAN, slot : 0..(SlotsPerDay - 1),
        days : SUBSET (0..(DaysPerWeek - 1)), oneShot : BOOLEAN,
        lastFired : Minutes \cup {Never}]

Columns == {"enabled", "slot", "days", "oneShot"}

ASSUME BoundsAssumption ==
  /\ MaxId \in Nat /\ MaxMinute \in Nat
  /\ SlotsPerDay \in Nat \ {0} /\ DaysPerWeek \in Nat \ {0}
  /\ MaxAborts \in Nat /\ MaxStepsBack \in Nat /\ MaxEdits \in Nat

ASSUME RequestsAssumption ==
  /\ \A row \in Requests : row \in Row /\ row.lastFired = Never
  /\ Patches \subseteq SUBSET Columns

VARIABLES
  schedules,   \* the ac_schedules table, a function on the live ids
  nextId,      \* AUTOINCREMENT
  keys,        \* <<id, minute>> of the idempotency keys in the commands table
  minute,      \* the server's clock
  todo,        \* rows the running scan has still to handle
  marked,      \* the one it has marked and not dispatched
  scanMinute,  \* the minute it read when it began, Never between scans
  aborts, stepsBack, edits,   \* bounds
  attempts,    \* history: dispatches per <<id, minute>>, refused ones too
  sent,        \* history: publications per <<id, minute>>
  own,         \* history: keys put by the schedule that holds the id now
  sinceArmed,  \* history: publications since the owner last armed the row
  watch        \* history: this minute's scanning, "none", "complete" or "broken"

table   == <<schedules, nextId>>
scan    == <<todo, marked, scanMinute>>
bounds  == <<aborts, stepsBack, edits>>
history == <<attempts, sent, own, sinceArmed>>
schedulesVars == <<table, keys, minute, scan, bounds, history, watch>>

Live == DOMAIN schedules
Idle == scanMinute = Never

Weekday(m) == (m \div SlotsPerDay) % DaysPerWeek

\* The three tests of scanSchedules on an enabled row.
Due(row, m) ==
  /\ row.enabled
  /\ row.slot = m % SlotsPerDay
  /\ Weekday(m) \in row.days
  /\ row.lastFired # m

(***************************************************************************)
(* scanSchedules.                                                          *)
(***************************************************************************)

\* Mutant: the weekday bits start on Tuesday.
DueRowsShifted ==
  {i \in Live : Due([schedules[i] EXCEPT !.days = {d + 1 : d \in @}], minute)}

DueRows == {i \in Live : Due(schedules[i], minute)}

ScanBegin ==
  /\ Idle
  /\ scanMinute' = minute
  /\ todo' = DueRows
  /\ UNCHANGED <<table, keys, minute, marked, bounds, history, watch>>

\* Mutant: a one-shot schedule stays enabled.
FiredForever(row, m) == [row EXCEPT !.lastFired = m]

\* The one UPDATE of markAcScheduleFired.
Fired(row, m) == [row EXCEPT !.lastFired = m, !.enabled = @ /\ ~row.oneShot]

Mark(i) ==
  /\ marked = Nobody
  /\ i \in todo
  /\ todo' = todo \ {i}
  /\ marked' = i
  /\ schedules' = [schedules EXCEPT ![i] = Fired(@, scanMinute)]
  /\ UNCHANGED <<nextId, keys, minute, scanMinute, bounds, history, watch>>

\* Mutant: the key is not looked up.
UnusedAlways(key) == TRUE

Unused(key) == key \notin keys

\* Mutant: a refused dispatch gives the minute back.
RefusalUnmarks(outcome, i) ==
  schedules' = IF Dispatched(outcome) THEN schedules
               ELSE [schedules EXCEPT ![i] = [@ EXCEPT !.lastFired = Never]]

\* What dispatchForAutomation answers is ignored.
KeepMark(outcome, i) == UNCHANGED schedules

Dispatch(outcome) ==
  LET key == <<marked, scanMinute>> IN
    /\ marked # Nobody
    /\ marked' = Nobody
    /\ KeepMark(outcome, marked)
    /\ attempts' = [attempts EXCEPT ![key] = @ + 1]
    /\ IF Dispatched(outcome) /\ Unused(key)
       THEN /\ keys' = keys \cup {key}
            /\ own' = own \cup {key}
       ELSE UNCHANGED <<keys, own>>
    /\ IF outcome = "published" /\ Unused(key)
       THEN /\ sent' = [sent EXCEPT ![key] = @ + 1]
            /\ sinceArmed' = [sinceArmed EXCEPT ![marked] = @ + 1]
       ELSE UNCHANGED <<sent, sinceArmed>>
    /\ UNCHANGED <<nextId, minute, todo, scanMinute, bounds, watch>>

ScanEnd ==
  /\ ~Idle
  /\ todo = {}
  /\ marked = Nobody
  /\ scanMinute' = Never
  /\ watch' = IF watch = "none" /\ scanMinute = minute THEN "complete" ELSE watch
  /\ UNCHANGED <<table, keys, minute, todo, marked, bounds, history>>

\* The process dies and restarts, or a statement of the scan throws and the
\* timer callback catches it: what was marked is never dispatched.
Abort ==
  /\ aborts < MaxAborts
  /\ aborts' = aborts + 1
  /\ todo' = {}
  /\ marked' = Nobody
  /\ scanMinute' = Never
  /\ watch' = "broken"
  /\ UNCHANGED <<table, keys, minute, stepsBack, edits, history>>

(***************************************************************************)
(* The owner's requests, which run between scans.                          *)
(***************************************************************************)

\* Mutant: the smallest free id, as a table without AUTOINCREMENT may pick.
SmallestFreeId == CHOOSE i \in Ids \cup {MaxId + 1} :
                    i \notin Live /\ \A j \in Ids \ Live : i <= j

FreshId == nextId

\* An edit takes effect with the next scan.
Edited == watch' = IF watch = "broken" THEN "broken" ELSE "none"

Create(row) ==
  LET i == FreshId IN
    /\ Idle
    /\ nextId \in Ids
    /\ nextId' = nextId + 1
    /\ schedules' = [j \in Live \cup {i} |-> IF j = i THEN row ELSE schedules[j]]
    /\ own' = {key \in own : key[1] # i}
    /\ sinceArmed' = [sinceArmed EXCEPT ![i] = 0]
    /\ Edited
    /\ UNCHANGED <<keys, minute, scan, bounds, attempts, sent>>

\* A patch names some columns, never last_fired_minute.  It arms a schedule
\* when it enables it, or makes it one-shot.
Patch(i, row, columns) ==
  LET old    == schedules[i]
      merged == [c \in DOMAIN old |-> IF c \in columns THEN row[c] ELSE old[c]]
  IN /\ Idle
     /\ i \in Live
     /\ edits < MaxEdits
     /\ edits' = edits + 1
     /\ schedules' = [schedules EXCEPT ![i] = merged]
     /\ sinceArmed' = IF "enabled" \in columns \/ ~old.oneShot
                      THEN [sinceArmed EXCEPT ![i] = 0] ELSE sinceArmed
     /\ Edited
     /\ UNCHANGED <<nextId, keys, minute, scan, aborts, stepsBack, attempts, sent, own>>

\* Mutant: the scan lets requests in, as it would if it awaited the broker.
DeleteAnyTime(i) ==
  /\ i \in Live
  /\ schedules' = [j \in Live \ {i} |-> schedules[j]]
  /\ UNCHANGED <<nextId, keys, minute, scan, bounds, history, watch>>

Delete(i) ==
  /\ Idle
  /\ i \in Live
  /\ schedules' = [j \in Live \ {i} |-> schedules[j]]
  /\ UNCHANGED <<nextId, keys, minute, scan, bounds, history, watch>>

(***************************************************************************)
(* The clock.                                                              *)
(***************************************************************************)

MinutePasses ==
  /\ minute < MaxMinute
  /\ minute' = minute + 1
  /\ watch' = "none"
  /\ UNCHANGED <<table, keys, scan, bounds, history>>

StepBack ==
  /\ stepsBack < MaxStepsBack
  /\ minute > 0
  /\ stepsBack' = stepsBack + 1
  /\ minute' = minute - 1
  /\ watch' = "broken"
  /\ UNCHANGED <<table, keys, scan, aborts, edits, history>>

SchedulesInit ==
  /\ schedules = <<>>
  /\ nextId = 1
  /\ keys = {}
  /\ minute = 0
  /\ todo = {}
  /\ marked = Nobody
  /\ scanMinute = Never
  /\ aborts = 0 /\ stepsBack = 0 /\ edits = 0
  /\ attempts = [key \in Ids \X Minutes |-> 0]
  /\ sent = [key \in Ids \X Minutes |-> 0]
  /\ own = {}
  /\ sinceArmed = [i \in Ids |-> 0]
  /\ watch = "none"

SchedulesNext ==
  \/ ScanBegin
  \/ \E i \in Ids : Mark(i)
  \/ \E outcome \in Outcomes : Dispatch(outcome)
  \/ ScanEnd
  \/ Abort
  \/ \E row \in Requests : Create(row)
  \/ \E i \in Ids, row \in Requests, columns \in Patches : Patch(i, row, columns)
  \/ \E i \in Ids : Delete(i)
  \/ MinutePasses
  \/ StepBack

SchedulesSpec == SchedulesInit /\ [][SchedulesNext]_schedulesVars

(***************************************************************************)
(* Properties.                                                             *)
(***************************************************************************)

\* The types of all variables; a row being dispatched is a row of the table.
SchedulesTypeOK ==
  /\ Live \subseteq Ids /\ \A i \in Live : schedules[i] \in Row
  /\ nextId \in 1..(MaxId + 1)
  /\ keys \subseteq Ids \X Minutes
  /\ minute \in Minutes
  /\ todo \subseteq Live
  /\ marked \in Live \cup {Nobody}
  /\ scanMinute \in Minutes \cup {Never}
  /\ aborts \in 0..MaxAborts /\ stepsBack \in 0..MaxStepsBack /\ edits \in 0..MaxEdits
  /\ attempts \in [Ids \X Minutes -> Nat]
  /\ sent \in [Ids \X Minutes -> Nat]
  /\ own \subseteq Ids \X Minutes
  /\ sinceArmed \in [Ids -> Nat]
  /\ watch \in {"none", "complete", "broken"}

\* scheduling.md, 5: the same minute of a schedule reaches the broker at most
\* once, even when a clock stepped back and an edited row make a past minute due
\* again: last_fired_minute has forgotten it, the idempotency key has not.
AtMostOncePerMinute ==
  \A key \in Ids \X Minutes : sent[key] <= 1

\* automation.ts:120: a refused dispatch is not retried within its minute, six
\* scans long, whatever crashes or edits happen meanwhile.
NoRetryStorm ==
  stepsBack = 0 => \A key \in Ids \X Minutes : attempts[key] <= 1

\* A one-shot schedule is published at most once for each time its owner arms
\* it, whatever crashes, edits of other columns and clock steps happen.
OneShotOnce ==
  \A i \in Live : schedules[i].oneShot => sinceArmed[i] <= 1

\* The idempotency key of a live schedule was put in the commands table by that
\* schedule: one created after a deletion is never mistaken for the deleted one
\* and silently answered as a replay.
KeysAreOwn ==
  \A key \in keys : key[1] \in Live => key \in own

\* Once a scan has completed undisturbed in a minute, every schedule the table
\* then holds for that minute has been dispatched or refused in it.
NoMissedFiring ==
  watch = "complete" /\ stepsBack = 0
    => \A i \in Live : /\ schedules[i].slot = minute % SlotsPerDay
                       /\ Weekday(minute) \in schedules[i].days
                       /\ schedules[i].enabled
                       => attempts[<<i, minute>>] = 1

\* scheduling.md, 5: "Dispatch, then mark fired": between scans, a row marked for
\* a minute has been dispatched for it.
FiredMeansDispatched ==
  Idle => \A i \in Live : schedules[i].lastFired # Never
                            => attempts[<<i, schedules[i].lastFired>>] >= 1

==============================================================================

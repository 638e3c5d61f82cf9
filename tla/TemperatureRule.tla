--------------------------- MODULE TemperatureRule ---------------------------
(***************************************************************************)
(* The temperature half of the automation worker (automation.ts): every    *)
(* 10 s scanTemperatureRule takes the median of the last three telemetry   *)
(* samples, compares it with a hysteresis band, and after two agreeing     *)
(* evaluations dispatches an IR command.                                   *)
(*                                                                         *)
(* The unit of time is one scan interval.  A time stamp is kept as its age,*)
(* which stops counting at Cap, above every period the rule can hold.      *)
(***************************************************************************)
EXTENDS Automation

CONSTANTS
  Temps,           \* median-relevant temperatures
  Rules,           \* settings an owner may ask for
  ScansPerMinute,  \* scans per minuteAnchor
  Cap,             \* ages saturate here
  MaxCrashes       \* bound on process crashes

Directions == {"on", "off"}
Settings == [enabled : BOOLEAN, on : Temps, off : Temps,
             minInterval : ScansPerMinute..Cap, stale : 0..(Cap - 1), suppress : 0..Cap]

ASSUME TempsAssumption == Temps \subseteq Int
ASSUME CapAssumption == Cap \in Nat \ {0} /\ ScansPerMinute \in Nat \ {0} /\ MaxCrashes \in Nat
ASSUME RulesAssumption == Rules \subseteq Settings

VARIABLES
  rule,          \* settings of the ac_temperature_rules row
  lastAction,    \* its last_action
  actionAge,     \* age of its last_action_at
  samples,       \* the newest three telemetry rows, newest first
  sampleAge,     \* age of the newest
  manualAge,     \* age of the newest IR command automation did not request
  pendingAction, \* votes, in memory
  pendingCount,
  phase,         \* scans since minuteAnchor last changed
  usedKeys,      \* directions whose key of this minute is in the commands table
  due,           \* the interval timer has fired and the scan has not run
  crashes,       \* crashes so far (bound)
  lastVote,      \* history: what the previous evaluation asked for
  aired,         \* history: direction of the last command published
  airedAge       \* history: its age

rowVars  == <<rule, lastAction, actionAge>>
inputs   == <<samples, sampleAge, manualAge>>
votes    == <<pendingAction, pendingCount>>
clock    == <<phase, due>>
history  == <<lastVote, aired, airedAge>>
vars == <<rowVars, inputs, votes, clock, usedKeys, crashes, history>>

(***************************************************************************)
(* One evaluation.                                                         *)
(***************************************************************************)

\* Mutant: an age runs on past Cap.
OlderUncapped(age) == IF age <= Cap THEN age + 1 ELSE age

Older(age) == IF age < Cap THEN age + 1 ELSE Cap

\* Mutant: the mean, which a single outlier can drag across a threshold.
MeanOfThree(s) == (s[1] + s[2] + s[3]) \div 3

Median(s) ==
  CHOOSE m \in {s[1], s[2], s[3]} :
    /\ Cardinality({i \in 1..3 : s[i] <= m}) >= 2
    /\ Cardinality({i \in 1..3 : s[i] >= m}) >= 2

Measurable == rule.enabled /\ Len(samples) = 3 /\ sampleAge <= rule.stale

\* The direction the hysteresis band asks for, "none" inside the band and
\* without a trustworthy measurement.
Desired ==
  IF ~Measurable THEN "none"
  ELSE IF Median(samples) >= rule.on THEN "on"
  ELSE IF Median(samples) <= rule.off THEN "off"
  ELSE "none"

Wanted == Desired \notin {"none", lastAction}

Held == actionAge < rule.minInterval \/ manualAge < rule.suppress

\* Mutant: one agreeing evaluation is enough.
ConfirmedAtOnce == pendingAction = Desired \/ pendingCount = 0

Confirmed == pendingAction = Desired /\ pendingCount + 1 >= 2

\* Mutant: the votes survive what should reset them.
KeepVotes == UNCHANGED votes

ClearVotes == pendingAction' = "none" /\ pendingCount' = 0

(***************************************************************************)
(* scanTemperatureRule: one action for each way it returns.                *)
(***************************************************************************)

Scan == due /\ due' = FALSE /\ lastVote' = Desired

\* Disabled, too few samples, stale, in the band, or already there.
ScanIdle ==
  /\ Scan
  /\ ~Wanted
  /\ ClearVotes
  /\ UNCHANGED <<rowVars, inputs, phase, usedKeys, crashes, aired, airedAge>>

\* min_interval_hold and manual_suppressed return without touching the votes.
ScanHeld ==
  /\ Scan
  /\ Wanted
  /\ Held
  /\ UNCHANGED <<rowVars, inputs, votes, phase, usedKeys, crashes, aired, airedAge>>

ScanVote ==
  /\ Scan
  /\ Wanted
  /\ ~Held
  /\ ~Confirmed
  /\ pendingAction' = Desired
  /\ pendingCount' = 1
  /\ UNCHANGED <<rowVars, inputs, phase, usedKeys, crashes, aired, airedAge>>

\* Mutant: the idempotency key carries no minute anchor that stops a replay.
FreshAlways(outcome) == Dispatched(outcome)

\* tryInsertIrCommand: a key already used this minute is a replay and nothing
\* is published again.
Fresh(outcome) == Dispatched(outcome) /\ Desired \notin usedKeys

Dispatch(outcome) ==
  /\ Wanted
  /\ ~Held
  /\ Confirmed
  /\ ClearVotes
  /\ usedKeys' = IF Dispatched(outcome) THEN usedKeys \cup {Desired} ELSE usedKeys
  /\ IF Fresh(outcome) /\ outcome = "published"
     THEN aired' = Desired /\ airedAge' = 0
     ELSE UNCHANGED <<aired, airedAge>>

\* Mutant: the direction is recorded without its time.
RecordDirectionOnly(outcome) ==
  /\ lastAction' = IF Dispatched(outcome) THEN Desired ELSE lastAction
  /\ UNCHANGED actionAge

RecordAction(outcome) ==
  IF Dispatched(outcome) THEN lastAction' = Desired /\ actionAge' = 0
                         ELSE UNCHANGED <<lastAction, actionAge>>

ScanAct(outcome) ==
  /\ Scan
  /\ Dispatch(outcome)
  /\ RecordAction(outcome)
  /\ UNCHANGED <<rule, inputs, phase, crashes>>

\* The process dies after the command left and before the row was updated.
ScanCrash(outcome) ==
  /\ crashes < MaxCrashes
  /\ crashes' = crashes + 1
  /\ Scan
  /\ Dispatch(outcome)
  /\ UNCHANGED <<rowVars, inputs, phase>>

(***************************************************************************)
(* Everything around the scan.                                             *)
(***************************************************************************)

\* A restart between two scans only loses the votes.
Restart ==
  /\ crashes < MaxCrashes
  /\ crashes' = crashes + 1
  /\ ClearVotes
  /\ UNCHANGED <<rowVars, inputs, clock, usedKeys, history>>

\* The interval timer; a scan that did not run is not made up for.
Tick ==
  /\ due' = TRUE
  /\ phase' = (phase + 1) % ScansPerMinute
  /\ usedKeys' = IF phase' = 0 THEN {} ELSE usedKeys
  /\ actionAge' = Older(actionAge)
  /\ sampleAge' = Older(sampleAge)
  /\ manualAge' = Older(manualAge)
  /\ airedAge' = Older(airedAge)
  /\ UNCHANGED <<rule, lastAction, samples, votes, crashes, lastVote, aired>>

\* insertTelemetry of a real sample.
Sample(t) ==
  /\ samples' = SubSeq(<<t>> \o samples, 1, IF Len(samples) < 3 THEN Len(samples) + 1 ELSE 3)
  /\ sampleAge' = 0
  /\ UNCHANGED <<rowVars, manualAge, votes, clock, usedKeys, crashes, history>>

ManualCommand ==
  /\ manualAge' = 0
  /\ UNCHANGED <<rowVars, samples, sampleAge, votes, clock, usedKeys, crashes, history>>

\* PUT /api/ac/temperature-rule checks the merged band, not just the patch.
PutRule(r) ==
  /\ r.on > r.off
  /\ rule' = r
  /\ UNCHANGED <<lastAction, actionAge, inputs, votes, clock, usedKeys, crashes, history>>

Init ==
  /\ rule \in {r \in Rules : r.on > r.off /\ ~r.enabled}
  /\ lastAction = "none"
  /\ actionAge = Cap
  /\ samples = <<>>
  /\ sampleAge = Cap
  /\ manualAge = Cap
  /\ pendingAction = "none"
  /\ pendingCount = 0
  /\ phase = 0
  /\ usedKeys = {}
  /\ due = FALSE
  /\ crashes = 0
  /\ lastVote = "none"
  /\ aired = "none"
  /\ airedAge = Cap

AnyScan ==
  \/ ScanIdle
  \/ ScanHeld
  \/ ScanVote
  \/ \E outcome \in Outcomes : ScanAct(outcome)

Next ==
  \/ AnyScan
  \/ \E outcome \in Outcomes : ScanCrash(outcome)
  \/ Restart
  \/ Tick
  \/ \E t \in Temps : Sample(t)
  \/ ManualCommand
  \/ \E r \in Rules : PutRule(r)

Spec == Init /\ [][Next]_vars

\* The interval timer keeps firing and its callback runs: nothing in the scan
\* waits, and the worker catches what the scan throws.
FairSpec == Spec /\ WF_vars(Tick) /\ WF_vars(AnyScan)

(***************************************************************************)
(* Properties.                                                             *)
(***************************************************************************)

\* The types of all variables; the votes are always consistent.
TypeOK ==
  /\ rule \in Rules
  /\ lastAction \in Directions \cup {"none"}
  /\ actionAge \in 0..Cap
  /\ samples \in UNION {[1..n -> Temps] : n \in 0..3}
  /\ sampleAge \in 0..Cap
  /\ manualAge \in 0..Cap
  /\ pendingAction \in Directions \cup {"none"}
  /\ pendingCount = IF pendingAction = "none" THEN 0 ELSE 1
  /\ phase \in 0..(ScansPerMinute - 1)
  /\ usedKeys \subseteq Directions
  /\ due \in BOOLEAN
  /\ crashes \in 0..MaxCrashes
  /\ lastVote \in Directions \cup {"none"}
  /\ aired \in Directions \cup {"none"}
  /\ airedAge \in 0..Cap

\* A step that publishes: due and airedAge = 0 exclude each other.
Publishes == airedAge # 0 /\ airedAge' = 0

\* temperature-automation.md, 6: "the compressor cannot be cycled more than once
\* per interval".  Once the row has recorded an action, the rule never publishes
\* the opposite of its last command within min_interval_s, even when a crash
\* has lost the record of that command or a publish has failed.
NoEarlyReversal ==
  [][Publishes /\ aired' # aired /\ "none" \notin {aired, lastAction}
       => airedAge >= rule.minInterval]_vars

\* temperature-automation.md, 7: two evaluations of one minute cannot produce
\* two physical actions: the key stops the repetition of a direction a crash
\* has forgotten, the interval the opposite one.
OneCommandPerMinute ==
  [][Publishes /\ lastAction # "none" => airedAge > phase]_vars

\* "Two consecutive agreeing evaluations": once the rule has ever acted, the
\* evaluation before an action asked for the same direction, although held
\* evaluations keep the votes they found.
AgreedBefore ==
  [][Publishes /\ lastAction # "none" => lastVote = aired']_vars

\* "A single spurious reading cannot move the median": behind every command
\* stand at least two of three samples beyond the threshold.
SpikeImmune ==
  [][Publishes => Cardinality({i \in 1..3 : IF aired' = "on" THEN samples[i] >= rule.on
                                             ELSE samples[i] <= rule.off}) >= 2]_vars

\* A refused dispatch is tried again for as long as the room steadily asks for
\* one direction: the rule never gives up and never stops confirming anew.
RefusalIsRetried ==
  \A d \in Directions :
    <>[](Desired = d /\ Wanted /\ manualAge >= rule.suppress)
      => []<>(pendingCount = 1) /\ []<>(pendingCount = 0)

\* temperature-automation.md, 8: "Successful actions also write `last_action`",
\* and automation.ts:161 calls it the action last executed.
RecordedActionWasPublished ==
  [][lastAction' # lastAction => aired' = lastAction']_vars

==========================================================================

------------------------ MODULE TemperatureRuleProofs ------------------------
(***************************************************************************)
(* The safety properties of TemperatureRule, for all temperatures, rules,  *)
(* lengths of a minute and numbers of crashes.                             *)
(*                                                                         *)
(* All but the first are about the step that publishes.  What such a step  *)
(* needs from the past is in RuleInv: which direction the votes name once  *)
(* the row holds an action (VotesOK), and that the record is never older   *)
(* than the command it records, and the key not missing in the minute of   *)
(* the command (AiredOK), whichever of them a crash has lost.              *)
(***************************************************************************)
EXTENDS TemperatureRule, FiniteSetTheorems, SequenceTheorems, TLAPS

\* With an action on record only its opposite is wanted, so what the votes name
\* is what the last evaluation asked for.
VotesOK ==
  lastAction # "none" /\ pendingAction # "none"
    => pendingAction = lastVote /\ pendingAction # lastAction

\* The record and the key of the last command that was published.
AiredOK ==
  /\ aired = "none" => airedAge = Cap
  /\ aired # "none" /\ aired = lastAction => actionAge <= airedAge
  /\ aired # "none" /\ airedAge <= phase => aired \in usedKeys

\* The samples are the newest three temperatures.
SamplesOK == samples \in Seq(Temps) /\ Len(samples) <= 3

RuleInv == TypeOK /\ SamplesOK /\ VotesOK /\ AiredOK

------------------------------------------------------------------------------
(* The median. *)

\* Two members make a set of at least two.
LEMMA TwoMembers ==
  ASSUME NEW S \in SUBSET (1..3), NEW a \in S, NEW b \in S, a # b
  PROVE  Cardinality(S) >= 2
  <1>1. IsFiniteSet({a, b}) /\ Cardinality({a, b}) = 2
    <2>1. Cardinality({a}) = 1 /\ IsFiniteSet({a})
      BY FS_Singleton
    <2>2. {a, b} = {a} \cup {b} /\ b \notin {a}
      OBVIOUS
    <2>3. Cardinality({a} \cup {b}) = Cardinality({a}) + 1 /\ IsFiniteSet({a} \cup {b})
      BY <2>1, <2>2, FS_AddElement
    <2>. QED
      BY <2>1, <2>2, <2>3
  <1>2. IsFiniteSet(S)
    <2>1. IsFiniteSet({}) /\ IsFiniteSet({} \cup {1})
      BY FS_EmptySet, FS_AddElement
    <2>2. IsFiniteSet(({} \cup {1}) \cup {2})
      BY <2>1, FS_AddElement
    <2>3. IsFiniteSet((({} \cup {1}) \cup {2}) \cup {3})
      BY <2>2, FS_AddElement
    <2>4. 1..3 = (({} \cup {1}) \cup {2}) \cup {3}
      OBVIOUS
    <2>. QED
      BY <2>3, <2>4, FS_Subset
  <1>3. Cardinality({a, b}) <= Cardinality(S)
    BY <1>2, FS_Subset
  <1>. QED
    BY <1>1, <1>2, <1>3, FS_CardinalityType

\* A set that holds another of at least two has at least two.
LEMMA AtLeastTwo ==
  ASSUME NEW S \in SUBSET (1..3), NEW T \in SUBSET S, Cardinality(T) >= 2
  PROVE  Cardinality(S) >= 2
  <1>1. PICK a \in T, b \in T : a # b
    <2> SUFFICES ASSUME \A a, b \in T : a = b PROVE FALSE
      OBVIOUS
    <2>1. CASE T = {}
      BY <2>1, FS_EmptySet
    <2>2. CASE T # {}
      <3>1. PICK a \in T : T = {a}
        BY <2>2
      <3>2. Cardinality(T) = 1
        BY <3>1, FS_Singleton
      <3>. QED
        BY <3>2
    <2>. QED
      BY <2>1, <2>2
  <1>. QED
    BY <1>1, TwoMembers

\* At least two samples are at or below the median, and at least two at or above.
LEMMA MedianOfThree ==
  ASSUME NEW s, s[1] \in Int, s[2] \in Int, s[3] \in Int
  PROVE  /\ Median(s) \in {s[1], s[2], s[3]}
         /\ Cardinality({i \in 1..3 : s[i] <= Median(s)}) >= 2
         /\ Cardinality({i \in 1..3 : s[i] >= Median(s)}) >= 2
  <1>. DEFINE Middle(m) == /\ Cardinality({i \in 1..3 : s[i] <= m}) >= 2
                          /\ Cardinality({i \in 1..3 : s[i] >= m}) >= 2
  <1>1. ASSUME NEW a \in 1..3, NEW b \in 1..3, NEW c \in 1..3, a # b, b # c,
               s[a] <= s[b], s[b] <= s[c]
        PROVE  Middle(s[b])
    <2>1. s[a] \in Int /\ s[b] \in Int /\ s[c] \in Int
      OBVIOUS
    <2>2. {a, b} \subseteq {i \in 1..3 : s[i] <= s[b]}
      BY <1>1, <2>1
    <2>3. {b, c} \subseteq {i \in 1..3 : s[i] >= s[b]}
      BY <1>1, <2>1
    <2>. QED
      BY <2>2, <2>3, <1>1, TwoMembers
  <1>. HIDE DEF Middle
  <1>2. \/ Middle(s[1]) \/ Middle(s[2]) \/ Middle(s[3])
    <2>1. \/ s[1] <= s[2] /\ s[2] <= s[3]
          \/ s[3] <= s[2] /\ s[2] <= s[1]
          \/ s[2] <= s[1] /\ s[1] <= s[3]
          \/ s[3] <= s[1] /\ s[1] <= s[2]
          \/ s[1] <= s[3] /\ s[3] <= s[2]
          \/ s[2] <= s[3] /\ s[3] <= s[1]
      OBVIOUS
    <2>2. 1 \in 1..3 /\ 2 \in 1..3 /\ 3 \in 1..3 /\ 1 # 2 /\ 2 # 3 /\ 1 # 3
      OBVIOUS
    <2>. QED
      BY <2>1, <2>2, <1>1
  <1>3. \E m \in {s[1], s[2], s[3]} : Middle(m)
    BY <1>2
  <1>. QED
    BY <1>3 DEF Middle, Median

------------------------------------------------------------------------------
(* The initial state and the steps. *)

\* The directions, and what an evaluation may ask for.
LEMMA DesiredTyped == Desired \in Directions \cup {"none"}
  BY DEF Desired, Directions

\* Ages saturate.
LEMMA OlderTyped ==
  ASSUME NEW age \in 0..Cap
  PROVE  /\ Older(age) \in 0..Cap /\ Older(age) # 0
         /\ age < Cap => Older(age) = age + 1
         /\ age = Cap => Older(age) = Cap
  BY CapAssumption DEF Older

\* The phase of the minute after a tick.
LEMMA NextPhase ==
  ASSUME phase \in 0..(ScansPerMinute - 1)
  PROVE  (phase + 1) % ScansPerMinute
           = IF phase + 1 = ScansPerMinute THEN 0 ELSE phase + 1
  BY CapAssumption

\* A minute is no longer than the ages count: a rule could not hold it.
LEMMA MinuteFits ==
  ASSUME TypeOK
  PROVE  /\ ScansPerMinute \in Nat \ {0} /\ Cap \in Nat \ {0}
         /\ ScansPerMinute <= rule.minInterval /\ rule.minInterval <= Cap
         /\ rule.minInterval \in Int
  BY CapAssumption, RulesAssumption DEF TypeOK, Settings

\* The rule has seen no sample in the beginning.
LEMMA InitInv == Init => RuleInv
  <1> SUFFICES ASSUME Init PROVE RuleInv
    OBVIOUS
  <1>1. samples \in [1..0 -> Temps] /\ SamplesOK
    BY DEF Init, SamplesOK
  <1>2. TypeOK
    <2>1. samples \in UNION {[1..n -> Temps] : n \in 0..3}
      BY <1>1
    <2>2. rule \in Rules
      BY DEF Init
    <2>3. /\ phase \in 0..(ScansPerMinute - 1) /\ crashes \in 0..MaxCrashes
          /\ actionAge \in 0..Cap /\ sampleAge \in 0..Cap /\ manualAge \in 0..Cap
          /\ airedAge \in 0..Cap
      BY CapAssumption DEF Init
    <2>. QED
      BY <2>1, <2>2, <2>3 DEF Init, TypeOK
  <1>3. VotesOK /\ AiredOK
    BY DEF Init, VotesOK, AiredOK
  <1>. QED
    BY <1>1, <1>2, <1>3 DEF RuleInv

\* Evaluations that dispatch nothing: the votes name what was asked for last,
\* or are kept while only one direction can be wanted.
LEMMA QuietScan == RuleInv /\ (ScanIdle \/ ScanHeld \/ ScanVote) => RuleInv'
  <1> SUFFICES ASSUME RuleInv, ScanIdle \/ ScanHeld \/ ScanVote PROVE RuleInv'
    OBVIOUS
  <1>1. /\ UNCHANGED <<rule, lastAction, actionAge, samples, sampleAge, manualAge, phase,
                       usedKeys, crashes, aired, airedAge>>
        /\ due' = FALSE /\ lastVote' = Desired
        /\ \/ pendingAction' = "none" /\ pendingCount' = 0
           \/ Wanted /\ pendingAction' = pendingAction /\ pendingCount' = pendingCount
           \/ Wanted /\ pendingAction' = Desired /\ pendingCount' = 1
    BY DEF ScanIdle, ScanHeld, ScanVote, Scan, ClearVotes, rowVars, inputs, votes
  <1>2. Wanted => Desired \in Directions /\ Desired # "none" /\ Desired # lastAction
    BY DesiredTyped DEF Wanted, Directions
  <1>3. TypeOK'
    BY <1>1, <1>2, DesiredTyped DEF RuleInv, TypeOK, Directions
  <1>4. VotesOK'
    BY <1>1, <1>2 DEF RuleInv, TypeOK, VotesOK, Directions
  <1>5. AiredOK' /\ SamplesOK'
    BY <1>1 DEF RuleInv, AiredOK, SamplesOK
  <1>. QED
    BY <1>3, <1>4, <1>5 DEF RuleInv

\* What an evaluation that dispatches leaves, with or without the record.
Recorded(outcome) ==
  IF Dispatched(outcome) THEN lastAction' = Desired /\ actionAge' = 0
                         ELSE UNCHANGED <<lastAction, actionAge>>

\* What a scan that acts has found.
LEMMA Dispatching ==
  ASSUME RuleInv, NEW outcome, Dispatch(outcome), Scan,
         UNCHANGED <<rule, samples, sampleAge, manualAge, phase>>,
         crashes' \in 0..MaxCrashes,
         Recorded(outcome) \/ UNCHANGED <<lastAction, actionAge>>
  PROVE  RuleInv'
  <1>1. Desired \in Directions /\ Desired # "none" /\ Desired # lastAction
    BY DesiredTyped DEF Dispatch, Wanted, Directions
  <1>2. /\ pendingAction' = "none" /\ pendingCount' = 0 /\ due' = FALSE
        /\ lastVote' = Desired
        /\ usedKeys' = IF Dispatched(outcome) THEN usedKeys \cup {Desired} ELSE usedKeys
        /\ \/ Dispatched(outcome) /\ aired' = Desired /\ airedAge' = 0
           \/ aired' = aired /\ airedAge' = airedAge
    BY DEF Dispatch, ClearVotes, Scan, Fresh
  <1>3. TypeOK'
    <2>1. usedKeys' \subseteq Directions
      BY <1>1, <1>2 DEF RuleInv, TypeOK
    <2>2. lastAction' \in Directions \cup {"none"} /\ actionAge' \in 0..Cap
      <3>1. 0 \in 0..Cap
        BY CapAssumption
      <3>. QED
        BY <3>1, <1>1 DEF RuleInv, TypeOK, Recorded
    <2>3. aired' \in Directions \cup {"none"} /\ airedAge' \in 0..Cap
      <3>1. 0 \in 0..Cap
        BY CapAssumption
      <3>. QED
        BY <3>1, <1>1, <1>2 DEF RuleInv, TypeOK
    <2>. QED
      BY <2>1, <2>2, <2>3, <1>1, <1>2 DEF RuleInv, TypeOK
  <1>4. VotesOK' /\ SamplesOK'
    BY <1>2 DEF RuleInv, VotesOK, SamplesOK
  <1>5. AiredOK'
    <2>1. airedAge \in 0..Cap /\ actionAge \in 0..Cap
      BY DEF RuleInv, TypeOK
    <2>2. CASE Dispatched(outcome) /\ aired' = Desired /\ airedAge' = 0
      <3>1. lastAction' = aired' => actionAge' = 0
        BY <1>1, <2>2 DEF Recorded
      <3>. QED
        BY <3>1, <2>2, <1>1, <1>2 DEF AiredOK
    <2>3. CASE aired' = aired /\ airedAge' = airedAge
      <3>1. (lastAction' = lastAction /\ actionAge' = actionAge) \/ actionAge' = 0
        BY DEF Recorded
      <3>2. usedKeys \subseteq usedKeys'
        BY <1>2
      <3>. QED
        BY <3>1, <3>2, <2>1, <2>3 DEF RuleInv, AiredOK
    <2>. QED
      BY <2>2, <2>3, <1>2
  <1>. QED
    BY <1>3, <1>4, <1>5 DEF RuleInv

\* A scan acts and records it.
LEMMA ScanActStep == ASSUME RuleInv, NEW outcome \in Outcomes, ScanAct(outcome) PROVE RuleInv'
  <1>1. /\ Dispatch(outcome) /\ Scan /\ Recorded(outcome)
        /\ UNCHANGED <<rule, samples, sampleAge, manualAge, phase, crashes>>
    BY DEF ScanAct, RecordAction, Recorded, inputs
  <1>2. crashes' \in 0..MaxCrashes
    BY <1>1 DEF RuleInv, TypeOK
  <1>. QED
    BY <1>1, <1>2, Dispatching

\* A scan acts, and the worker dies before it is recorded.
LEMMA ScanCrashStep ==
  ASSUME RuleInv, NEW outcome \in Outcomes, ScanCrash(outcome) PROVE RuleInv'
  <1>1. /\ Dispatch(outcome) /\ Scan /\ crashes < MaxCrashes /\ crashes' = crashes + 1
        /\ UNCHANGED <<rule, lastAction, actionAge, samples, sampleAge, manualAge, phase>>
    BY DEF ScanCrash, rowVars, inputs
  <1>2. crashes' \in 0..MaxCrashes
    BY <1>1, CapAssumption DEF RuleInv, TypeOK
  <1>. QED
    BY <1>1, <1>2, Dispatching

\* The worker starts again.
LEMMA RestartStep == RuleInv /\ Restart => RuleInv'
  <1> SUFFICES ASSUME RuleInv, Restart PROVE RuleInv'
    OBVIOUS
  <1>1. /\ crashes < MaxCrashes /\ crashes' = crashes + 1
        /\ pendingAction' = "none" /\ pendingCount' = 0
        /\ UNCHANGED <<rule, lastAction, actionAge, samples, sampleAge, manualAge, phase, due,
                       usedKeys, lastVote, aired, airedAge>>
    BY DEF Restart, ClearVotes, rowVars, inputs, clock, history
  <1>2. crashes' \in 0..MaxCrashes
    BY <1>1, CapAssumption DEF RuleInv, TypeOK
  <1>3. TypeOK'
    BY <1>1, <1>2 DEF RuleInv, TypeOK
  <1>4. VotesOK' /\ AiredOK' /\ SamplesOK'
    BY <1>1 DEF RuleInv, VotesOK, AiredOK, SamplesOK
  <1>. QED
    BY <1>3, <1>4 DEF RuleInv

\* A new minute forgets the keys, but no command is as young as a minute then.
LEMMA TickStep == RuleInv /\ Tick => RuleInv'
  <1> SUFFICES ASSUME RuleInv, Tick PROVE RuleInv'
    OBVIOUS
  <1>1. /\ due' = TRUE /\ phase' = (phase + 1) % ScansPerMinute
        /\ usedKeys' = (IF phase' = 0 THEN {} ELSE usedKeys)
        /\ actionAge' = Older(actionAge) /\ sampleAge' = Older(sampleAge)
        /\ manualAge' = Older(manualAge) /\ airedAge' = Older(airedAge)
        /\ UNCHANGED <<rule, lastAction, samples, pendingAction, pendingCount, crashes,
                       lastVote, aired>>
    BY DEF Tick, votes
  <1>2. /\ phase \in 0..(ScansPerMinute - 1) /\ TypeOK
        /\ actionAge \in 0..Cap /\ sampleAge \in 0..Cap /\ manualAge \in 0..Cap
        /\ airedAge \in 0..Cap
    BY DEF RuleInv, TypeOK
  <1>3. phase' = IF phase + 1 = ScansPerMinute THEN 0 ELSE phase + 1
    BY <1>1, <1>2, NextPhase
  <1>4. /\ phase' \in 0..(ScansPerMinute - 1) /\ phase' < Cap
        /\ phase' = 0 \/ phase' = phase + 1
    BY <1>2, <1>3, MinuteFits
  <1>5. TypeOK'
    BY <1>1, <1>2, <1>4, OlderTyped DEF TypeOK
  <1>6. VotesOK' /\ SamplesOK'
    BY <1>1 DEF RuleInv, VotesOK, SamplesOK
  <1>7. AiredOK'
    <2>0. Cap \in Nat
      BY CapAssumption
    <2>1. airedAge' = Cap \/ airedAge' = airedAge + 1
      BY <1>1 DEF Older
    <2>2. actionAge <= airedAge => actionAge' <= airedAge'
      BY <2>0, <1>1, <1>2 DEF Older
    <2>3. airedAge' # 0 /\ (airedAge' <= phase' => airedAge <= phase /\ usedKeys' = usedKeys)
      BY <2>1, <1>1, <1>2, <1>4, OlderTyped, MinuteFits
    <2>4. aired = "none" => airedAge' = Cap
      BY <1>1, <1>2, OlderTyped DEF RuleInv, AiredOK
    <2>. QED
      BY <2>2, <2>3, <2>4, <1>1 DEF RuleInv, AiredOK
  <1>. QED
    BY <1>5, <1>6, <1>7 DEF RuleInv

\* The newest three.
LEMMA SampleStep == ASSUME RuleInv, NEW t \in Temps, Sample(t) PROVE RuleInv'
  <1>1. /\ sampleAge' = 0
        /\ samples' = SubSeq(<<t>> \o samples, 1, IF Len(samples) < 3 THEN Len(samples) + 1 ELSE 3)
        /\ UNCHANGED <<rule, lastAction, actionAge, manualAge, pendingAction, pendingCount,
                       phase, due, usedKeys, crashes, lastVote, aired, airedAge>>
    BY DEF Sample, rowVars, votes, clock, history
  <1>2. samples \in Seq(Temps) /\ Len(samples) \in 0..3 /\ <<t>> \in Seq(Temps) /\ Len(<<t>>) = 1
    <2>1. samples \in Seq(Temps) /\ Len(samples) <= 3
      BY DEF RuleInv, SamplesOK
    <2>2. Len(samples) \in Nat
      BY <2>1, LenProperties
    <2>3. Len(samples) \in 0..3
      <3>1. \A n \in Nat : n <= 3 => n \in 0..3
        OBVIOUS
      <3>. QED
        BY <2>1, <2>2, <3>1, Zenon
    <2>4. <<t>> \in Seq(Temps) /\ Len(<<t>>) = 1
      OBVIOUS
    <2>. QED
      BY <2>1, <2>3, <2>4
  <1>3. /\ <<t>> \o samples \in Seq(Temps)
        /\ Len(<<t>> \o samples) = 1 + Len(samples)
    BY <1>2, ConcatProperties
  <1>4. samples' \in Seq(Temps) /\ Len(samples') <= 3
    <2>. DEFINE n == IF Len(samples) < 3 THEN Len(samples) + 1 ELSE 3
    <2>1. n \in 1..3 /\ n <= Len(<<t>> \o samples)
      BY <1>2, <1>3
    <2>2. \A i \in 1..n : (<<t>> \o samples)[i] \in Temps
      BY <2>1, <1>2, <1>3, ElementOfSeq
    <2>3. /\ SubSeq(<<t>> \o samples, 1, n) \in Seq(Temps)
          /\ Len(SubSeq(<<t>> \o samples, 1, n)) = IF 1 <= n THEN n - 1 + 1 ELSE 0
      <3>. HIDE DEF n
      <3>. QED
        BY <2>1, <2>2, SubSeqProperties
    <2>. QED
      BY <2>1, <2>3, <1>1
  <1>5. samples' \in UNION {[1..n -> Temps] : n \in 0..3}
    <2>1. Len(samples') \in Nat /\ samples' \in [1..Len(samples') -> Temps]
      BY <1>4, LenProperties
    <2>2. Len(samples') \in 0..3
      BY <2>1, <1>4
    <2>. QED
      BY <2>1, <2>2
  <1>6. TypeOK'
    BY <1>1, <1>5, CapAssumption DEF RuleInv, TypeOK
  <1>7. SamplesOK' /\ VotesOK' /\ AiredOK'
    BY <1>1, <1>4 DEF RuleInv, SamplesOK, VotesOK, AiredOK
  <1>. QED
    BY <1>6, <1>7 DEF RuleInv

\* What happens outside the worker keeps the invariant.
LEMMA OutsideStep ==
  ASSUME RuleInv, ManualCommand \/ \E r \in Rules : PutRule(r)
  PROVE  RuleInv'
  <1>1. /\ rule' \in Rules /\ manualAge' \in 0..Cap
        /\ UNCHANGED <<lastAction, actionAge, samples, sampleAge, pendingAction, pendingCount,
                       phase, due, usedKeys, crashes, lastVote, aired, airedAge>>
    BY CapAssumption
       DEF RuleInv, TypeOK, ManualCommand, PutRule, rowVars, inputs, votes, clock, history
  <1>2. TypeOK'
    BY <1>1 DEF RuleInv, TypeOK
  <1>3. SamplesOK' /\ VotesOK' /\ AiredOK'
    BY <1>1 DEF RuleInv, SamplesOK, VotesOK, AiredOK
  <1>. QED
    BY <1>2, <1>3 DEF RuleInv

------------------------------------------------------------------------------
(* Theorems. *)

\* RuleInv is an inductive invariant of the rule.
THEOREM Inductive == Spec => []RuleInv
<1>1. Init => RuleInv
  BY InitInv
<1>2. RuleInv /\ [Next]_vars => RuleInv'
  <2> SUFFICES ASSUME RuleInv, [Next]_vars PROVE RuleInv'
    OBVIOUS
  <2>1. CASE UNCHANGED vars
    BY <2>1 DEF vars, rowVars, inputs, votes, clock, history,
                RuleInv, TypeOK, SamplesOK, VotesOK, AiredOK
  <2>2. CASE AnyScan
    BY <2>2, QuietScan, ScanActStep DEF AnyScan
  <2>3. CASE \E outcome \in Outcomes : ScanCrash(outcome)
    BY <2>3, ScanCrashStep
  <2>4. CASE Restart
    BY <2>4, RestartStep
  <2>5. CASE Tick
    BY <2>5, TickStep
  <2>6. CASE \E t \in Temps : Sample(t)
    BY <2>6, SampleStep
  <2>7. CASE ManualCommand \/ \E r \in Rules : PutRule(r)
    BY <2>7, OutsideStep
  <2>. QED
    BY <2>1, <2>2, <2>3, <2>4, <2>5, <2>6, <2>7 DEF Next
<1>. QED
  BY <1>1, <1>2, PTL DEF Spec

\* Every variable keeps its type, and the count of votes is that of the
\* direction they name, through every crash.
THEOREM Typing == Spec => []TypeOK
<1>1. RuleInv => TypeOK
  BY DEF RuleInv
<1>. QED
  BY <1>1, Inductive, PTL

\* A command is published by an evaluation that wants a direction, is not held,
\* finds it confirmed and its key unused; only time makes ages grow.
LEMMA Publishing ==
  ASSUME RuleInv, [Next]_vars, Publishes
  PROVE  /\ aired' = Desired /\ Desired \in Directions /\ Desired # lastAction
         /\ Desired \notin usedKeys
         /\ ~Held /\ Confirmed
  <1>1. CASE \E outcome \in Outcomes : Dispatch(outcome)
    <2>1. PICK outcome \in Outcomes : Dispatch(outcome)
      BY <1>1
    <2>2. Fresh(outcome) /\ aired' = Desired
      BY <2>1 DEF Dispatch, Publishes
    <2>. QED
      BY <2>1, <2>2, DesiredTyped DEF Dispatch, Fresh, Wanted
  <1>2. CASE Tick
    BY <1>2, OlderTyped DEF Tick, RuleInv, TypeOK, Publishes
  <1>3. CASE airedAge' = airedAge
    BY <1>3 DEF Publishes
  <1>4. \/ \E outcome \in Outcomes : Dispatch(outcome)
        \/ Tick
        \/ airedAge' = airedAge
    BY DEF Next, AnyScan, ScanIdle, ScanHeld, ScanVote, ScanAct, ScanCrash, Restart, Sample,
           ManualCommand, PutRule, vars, history
  <1>. QED
    BY <1>1, <1>2, <1>3, <1>4

\* Once the row has recorded an action, the rule never publishes the opposite of
\* its last command within min_interval_s, whatever record a crash has lost.
THEOREM NoReversal == Spec => NoEarlyReversal
<1>1. ASSUME RuleInv, [Next]_vars, Publishes, aired' # aired, aired # "none", lastAction # "none"
      PROVE  airedAge >= rule.minInterval
  <2>1. aired' = Desired /\ Desired \in Directions /\ Desired # lastAction /\ ~Held
    BY <1>1, Publishing
  <2>2. aired = lastAction
    BY <2>1, <1>1 DEF RuleInv, TypeOK, Directions
  <2>3. actionAge <= airedAge /\ actionAge \in Int /\ airedAge \in Int
    BY <2>2, <1>1, CapAssumption DEF RuleInv, AiredOK, TypeOK
  <2>4. rule.minInterval \in Int
    BY <1>1, MinuteFits DEF RuleInv
  <2>. QED
    BY <2>1, <2>3, <2>4 DEF Held
<1>2. RuleInv /\ [Next]_vars
        => (Publishes /\ aired' # aired /\ "none" \notin {aired, lastAction}
              => airedAge >= rule.minInterval)
  BY <1>1
<1>. QED
  BY <1>2, Inductive, PTL DEF Spec, NoEarlyReversal

\* Two evaluations of one minute cannot publish two commands, although a crash
\* may come between the first and its record.
THEOREM MinuteOnce == Spec => OneCommandPerMinute
<1>1. ASSUME RuleInv, [Next]_vars, Publishes, lastAction # "none"
      PROVE  airedAge > phase
  <2>1. aired' = Desired /\ Desired \in Directions /\ Desired # lastAction
        /\ Desired \notin usedKeys /\ ~Held
    BY <1>1, Publishing
  <2>2. /\ phase \in Int /\ phase < ScansPerMinute /\ actionAge \in Int /\ airedAge \in Int
        /\ ScansPerMinute \in Int /\ Cap \in Int /\ rule.minInterval \in Int
        /\ ScansPerMinute <= rule.minInterval /\ rule.minInterval <= Cap
    BY <1>1, MinuteFits DEF RuleInv, TypeOK
  <2>3. CASE aired = "none"
    BY <2>3, <2>2, <1>1 DEF RuleInv, AiredOK
  <2>4. CASE aired = lastAction
    <3>1. actionAge <= airedAge
      BY <2>4, <1>1 DEF RuleInv, AiredOK
    <3>2. actionAge >= rule.minInterval
      BY <2>1, <2>2 DEF Held
    <3>. QED
      BY <3>1, <3>2, <2>2
  <2>5. CASE aired = Desired
    <3>1. ~(airedAge <= phase)
      BY <2>5, <2>1, <1>1 DEF RuleInv, AiredOK, Directions
    <3>. QED
      BY <3>1, <2>2
  <2>6. aired = "none" \/ aired = lastAction \/ aired = Desired
    BY <2>1, <1>1 DEF RuleInv, TypeOK, Directions
  <2>. QED
    BY <2>3, <2>4, <2>5, <2>6
<1>2. RuleInv /\ [Next]_vars => (Publishes /\ lastAction # "none" => airedAge > phase)
  BY <1>1
<1>. QED
  BY <1>2, Inductive, PTL DEF Spec, OneCommandPerMinute

\* The evaluation before an action asked for the same direction, also when held
\* evaluations in between kept the votes they found.
THEOREM Agreed == Spec => AgreedBefore
<1>1. ASSUME RuleInv, [Next]_vars, Publishes, lastAction # "none"
      PROVE  lastVote = aired'
  <2>1. aired' = Desired /\ Desired \in Directions /\ Confirmed
    BY <1>1, Publishing
  <2>. QED
    BY <2>1, <1>1 DEF Confirmed, RuleInv, VotesOK, Directions
<1>2. RuleInv /\ [Next]_vars => (Publishes /\ lastAction # "none" => lastVote = aired')
  BY <1>1
<1>. QED
  BY <1>2, Inductive, PTL DEF Spec, AgreedBefore

\* Behind every command stand at least two of three samples beyond the
\* threshold: one spurious reading moves nothing.
THEOREM Spike == Spec => SpikeImmune
<1>. DEFINE Beyond == {i \in 1..3 : IF aired' = "on" THEN samples[i] >= rule.on
                                                     ELSE samples[i] <= rule.off}
<1>1. ASSUME RuleInv, [Next]_vars, Publishes
      PROVE  Cardinality(Beyond) >= 2
  <2>1. aired' = Desired /\ Desired \in Directions
    BY <1>1, Publishing
  <2>2. Len(samples) = 3 /\ samples \in Seq(Temps)
    BY <2>1, <1>1 DEF Desired, Measurable, Directions, RuleInv, SamplesOK
  <2>3. \A i \in 1..3 : samples[i] \in Int
    BY <2>2, TempsAssumption, ElementOfSeq
  <2>4. rule.on \in Int /\ rule.off \in Int
    BY <1>1, RulesAssumption, TempsAssumption DEF RuleInv, TypeOK, Settings
  <2>. DEFINE m == Median(samples)
  <2>5. /\ m \in {samples[1], samples[2], samples[3]}
        /\ Cardinality({i \in 1..3 : samples[i] <= m}) >= 2
        /\ Cardinality({i \in 1..3 : samples[i] >= m}) >= 2
    BY <2>3, MedianOfThree
  <2>6. m \in Int
    BY <2>3, <2>5
  <2>7. CASE Desired = "on"
    <3>1. m >= rule.on
      BY <2>7 DEF Desired
    <3>. HIDE DEF m
    <3>2. {i \in 1..3 : samples[i] >= m} \subseteq Beyond
      BY <3>1, <2>7, <2>1, <2>3, <2>4, <2>6
    <3>. QED
      BY <3>2, <2>5, AtLeastTwo
  <2>8. CASE Desired = "off"
    <3>1. m <= rule.off
      BY <2>8 DEF Desired
    <3>. HIDE DEF m
    <3>2. {i \in 1..3 : samples[i] <= m} \subseteq Beyond
      BY <3>1, <2>8, <2>1, <2>3, <2>4, <2>6
    <3>. QED
      BY <3>2, <2>5, AtLeastTwo
  <2>. QED
    BY <2>1, <2>7, <2>8 DEF Directions
<1>2. RuleInv /\ [Next]_vars => (Publishes => Cardinality(Beyond) >= 2)
  BY <1>1
<1>. QED
  BY <1>2, Inductive, PTL DEF Spec, SpikeImmune

=============================================================================

---------------------------- MODULE CampusProofs ----------------------------
(***************************************************************************)
(* TypeOK and LoginBudget of CloudLink for every build, every number of    *)
(* retries and attempts.                                                   *)
(*                                                                         *)
(* The two machines count separately.  What the cloud side has sent is at  *)
(* most guard.failures.  What the manager has sent is at most its share:   *)
(* the streak of a manual build, or all that is allowed once it is         *)
(* blocked; and while it logs in it is not blocked.                        *)
(***************************************************************************)
EXTENDS CloudLink, TLAPS

Retries == IF Manual THEN MaxAuthRetries ELSE 0

ManagerShare == IF blocked THEN 1 + Retries ELSE IF Manual THEN streak ELSE 0

\* Every rejected login has its place in one of the two counts.
Shared == unasked <= guard.failures + ManagerShare

\* A manager that may still log in has retries left.
RetriesLeft == ~blocked => streak <= MaxAuthRetries

\* No login of the manager begins behind its block, and none of the cloud side
\* after its last attempt.
Permitted ==
  /\ wifi = "AUTHENTICATING" => ~blocked
  /\ cloud = "CAMPUS_AUTHENTICATING" => guard.failures < MaxAuthAttempts

BudgetInv == TypeOK /\ Shared /\ RetriesLeft /\ Permitted

\* What the constants are, and that every counter may start from zero.
LEMMA Numbers ==
  /\ MaxAuthRetries \in Nat /\ Rounds \in Nat /\ 1 <= Rounds /\ CountCap \in Nat
  /\ MaxAuthAttempts \in Nat
  /\ 0 \in 0..(MaxAuthRetries + 1) /\ 0 \in 0..CountCap
  /\ NoVerify \in [round : 0..(Rounds - 1), ok : BOOLEAN]
<1>1. /\ MaxAuthRetries \in Nat /\ Rounds \in Nat /\ Rounds # 0 /\ CountCap \in Nat
      /\ MaxAuthAttempts \in Nat
  BY NumbersAssumption, AttemptsAssumption
<1>2. 1 <= Rounds /\ 0 \in 0..(Rounds - 1)
  BY <1>1
<1>3. 0 \in 0..(MaxAuthRetries + 1) /\ 0 \in 0..CountCap
  BY <1>1
<1>. QED
  BY <1>1, <1>2, <1>3 DEF NoVerify

\* UpTo stops at its cap and goes no further than what it is given.
LEMMA UpToBounds ==
  ASSUME NEW cap \in Nat, NEW n \in Nat
  PROVE  /\ UpTo(cap, n) \in 0..cap
         /\ UpTo(cap, n) <= n
         /\ n <= cap => UpTo(cap, n) = n
  BY DEF UpTo

\* The share of a build is a number, and within its retries.
LEMMA ShareBounds ==
  ASSUME BudgetInv
  PROVE  /\ Retries \in Nat /\ ManagerShare \in Nat
         /\ ManagerShare <= 1 + Retries
  BY Numbers DEF BudgetInv, TypeOK, WifiTypeOK, RetriesLeft, Retries, ManagerShare

\* Where the counts start, in every build.
LEMMA InitBudget == Init => BudgetInv
  <1> SUFFICES ASSUME Init PROVE BudgetInv
    OBVIOUS
  <1>1. TypeOK
    <2>1. wifi \in WifiStates
      BY DEF Init, WifiInit, BootState, WifiStates
    <2>2. build \in Builds /\ air \in Airs /\ cloud \in CloudStates
      BY DEF Init, WifiInit, CloudStates, Airs
    <2>3. /\ detected \in BOOLEAN /\ triggered \in BOOLEAN /\ asked \in BOOLEAN
           /\ blocked \in BOOLEAN /\ broker \in BOOLEAN
      BY Zenon DEF Init, WifiInit
    <2>4. failStreak \in 0..1 /\ verifyFails \in 0..2
      <3>1. failStreak = 0 /\ verifyFails = 0
        BY DEF Init, WifiInit
      <3>. QED
        BY <3>1
    <2>5. streak = 0 /\ unasked = 0 /\ verify = NoVerify /\ guard = NoLogins
      BY DEF Init, WifiInit
    <2>6. guard \in [failures : 0..MaxAuthAttempts, gone : BOOLEAN]
      BY <2>5, Numbers DEF NoLogins
    <2>. QED
      BY <2>1, <2>2, <2>3, <2>4, <2>5, <2>6, Numbers DEF TypeOK, WifiTypeOK
  <1>2. Shared /\ RetriesLeft /\ Permitted
    BY Numbers DEF Init, WifiInit, NoLogins, BootState, Shared, ManagerShare, Retries,
                  RetriesLeft, Permitted
  <1>. QED
    BY <1>1, <1>2 DEF BudgetInv

\* A step that counts nothing, keeps block and streak, and begins no login.
LEMMA QuietStep ==
  ASSUME BudgetInv, TypeOK',
         UNCHANGED <<build, blocked, streak, unasked, guard.failures>>,
         wifi' = "AUTHENTICATING" => wifi = "AUTHENTICATING" \/ ~blocked,
         cloud' = "CAMPUS_AUTHENTICATING" =>
           cloud = "CAMPUS_AUTHENTICATING" \/ guard.failures < MaxAuthAttempts
  PROVE  BudgetInv'
  <1>1. Shared'
    BY DEF BudgetInv, Shared, ManagerShare, Retries, Manual
  <1>2. RetriesLeft'
    BY DEF BudgetInv, RetriesLeft
  <1>3. Permitted'
    BY DEF BudgetInv, Permitted
  <1>. QED
    BY <1>1, <1>2, <1>3 DEF BudgetInv

\* The count of history goes up by one or not at all.
LEMMA CountedStep ==
  ASSUME TypeOK, NEW outcome \in Outcomes, NEW counts \in BOOLEAN,
         Counted(outcome, counts)
  PROVE  /\ unasked' \in 0..CountCap
         /\ outcome = "success" => unasked' = 0
         /\ ~counts => unasked' <= unasked
         /\ unasked' <= unasked + 1
  <1>1. unasked \in Nat /\ unasked <= CountCap
    BY Numbers DEF TypeOK, WifiTypeOK
  <1>2. More(unasked) \in 0..CountCap /\ More(unasked) <= unasked + 1
    BY <1>1, Numbers, UpToBounds DEF More
  <1>. QED
    BY <1>1, <1>2, Numbers DEF Counted

------------------------------------------------------------------------------
(* The manager. *)

\* A call of update() that neither logs in nor decides to.
LEMMA WifiQuietStep ==
  ASSUME BudgetInv, UNCHANGED cloudVars,
         \/ WifiLinkLost \/ WifiAssociate \/ WifiAssociateTimeout \/ WifiDhcpWait
         \/ WifiDetect \/ WifiProbe \/ WifiNoAuthSupport
         \/ WifiVerifyRound \/ WifiNetCheck \/ WifiBackoffOver
         \/ AirChange \/ WifiNewLease \/ CliDisconnect \/ CliConnect
  PROVE  BudgetInv'
  <1>0. TypeOK
    BY DEF BudgetInv
  <1>1. UNCHANGED <<build, blocked, streak, unasked, cloud, guard, verifyFails, broker>>
    BY DEF WifiLinkLost, WifiAssociate, WifiAssociateTimeout, WifiDhcpWait, WifiDetect,
           WifiProbe, WifiNoAuthSupport, WifiVerifyRound, WifiNetCheck, WifiBackoffOver,
           AirChange, WifiNewLease, CliDisconnect, CliConnect, login, cloudVars
  <1>2. wifi' \in WifiStates /\ (wifi' = "AUTHENTICATING" => wifi = "AUTHENTICATING")
    BY <1>0 DEF WifiLinkLost, WifiAssociate, WifiAssociateTimeout, WifiDhcpWait, WifiDetect,
           WifiProbe, WifiNoAuthSupport, WifiVerifyRound, WifiNetCheck, WifiBackoffOver,
           AirChange, WifiNewLease, CliDisconnect, CliConnect, Detect, TypeOK, WifiTypeOK,
           WifiStates
  <1>3. air' \in Airs
    BY <1>0 DEF WifiLinkLost, WifiAssociate, WifiAssociateTimeout, WifiDhcpWait, WifiDetect,
           WifiProbe, WifiNoAuthSupport, WifiVerifyRound, WifiNetCheck, WifiBackoffOver,
           AirChange, WifiNewLease, CliDisconnect, CliConnect, TypeOK, WifiTypeOK, Airs
  <1>4. detected' \in BOOLEAN /\ triggered' \in BOOLEAN /\ asked' \in BOOLEAN
    BY <1>0 DEF WifiLinkLost, WifiAssociate, WifiAssociateTimeout, WifiDhcpWait, WifiDetect,
           WifiProbe, WifiNoAuthSupport, WifiVerifyRound, WifiNetCheck, WifiBackoffOver,
           AirChange, WifiNewLease, CliDisconnect, CliConnect, Detect, login, TypeOK,
           WifiTypeOK
  <1>5. verify' \in [round : 0..(Rounds - 1), ok : BOOLEAN]
    <2>1. CASE WifiVerifyRound
      <3>1. /\ verify.round \in 0..(Rounds - 1) /\ verify.ok \in BOOLEAN
            /\ (verify.ok /\ air = "open") \in BOOLEAN
        BY <1>0 DEF TypeOK, WifiTypeOK
      <3>2. CASE verify.round + 1 < Rounds
        <4>1. verify.round + 1 \in 0..(Rounds - 1)
          BY <3>1, <3>2, Numbers
        <4>2. verify' = [round |-> verify.round + 1, ok |-> (verify.ok /\ air = "open")]
          BY <2>1, <3>2 DEF WifiVerifyRound
        <4>. QED
          BY <3>1, <4>1, <4>2
      <3>3. CASE ~(verify.round + 1 < Rounds)
        BY <2>1, <3>3, Numbers DEF WifiVerifyRound, Settled
      <3>. QED
        BY <3>2, <3>3
    <2>2. CASE ~WifiVerifyRound
      <3>1. verify' = verify \/ verify' = NoVerify
        BY <2>2 DEF WifiLinkLost, WifiAssociate, WifiAssociateTimeout, WifiDhcpWait,
               WifiDetect, WifiProbe, WifiNoAuthSupport, WifiNetCheck, WifiBackoffOver,
               AirChange, WifiNewLease, CliDisconnect, CliConnect, Settled, checks
      <3>. QED
        BY <3>1, <1>0, Numbers DEF TypeOK, WifiTypeOK
    <2>. QED
      BY <2>1, <2>2
  <1>6. failStreak' \in 0..1
    BY <1>0 DEF WifiLinkLost, WifiAssociate, WifiAssociateTimeout, WifiDhcpWait,
           WifiDetect, WifiProbe, WifiNoAuthSupport, WifiVerifyRound, WifiNetCheck,
           WifiBackoffOver, AirChange, WifiNewLease, CliDisconnect, CliConnect, Settled,
           CheckStreak, checks, TypeOK, WifiTypeOK
  <1>7. TypeOK'
    BY <1>0, <1>1, <1>2, <1>3, <1>4, <1>5, <1>6 DEF TypeOK, WifiTypeOK
  <1>. QED
    BY <1>1, <1>2, <1>7, QuietStep

\* A login begins: never behind the block.
LEMMA StartStep ==
  ASSUME BudgetInv, UNCHANGED cloudVars, WifiStartAuth
  PROVE  BudgetInv'
  <1>1. UNCHANGED <<build, air, detected, blocked, streak, verify, failStreak, unasked,
                    cloud, guard, verifyFails, broker>>
    BY DEF WifiStartAuth, checks, cloudVars
  <1>2. wifi' = "AUTHENTICATING" /\ ~blocked /\ asked' = FALSE /\ triggered' = Unattended
    BY DEF WifiStartAuth
  <1>3. TypeOK'
    BY <1>1, <1>2 DEF BudgetInv, TypeOK, WifiTypeOK, WifiStates, Unattended
  <1>. QED
    BY <1>1, <1>2, <1>3, QuietStep

\* A login ends: what it adds to the count it adds to the manager's share.
LEMMA AuthenticateStep ==
  ASSUME BudgetInv, UNCHANGED cloudVars, NEW outcome \in Outcomes,
         WifiAuthenticate(outcome)
  PROVE  BudgetInv'
  <1> DEFINE counts == outcome = "rejected" \/ (outcome = "retryable" /\ Manual)
  <1>0. TypeOK /\ ~blocked /\ wifi = "AUTHENTICATING"
    BY DEF BudgetInv, Permitted, WifiAuthenticate
  <1>1. UNCHANGED <<build, detected, triggered, verify, failStreak,
                    cloud, guard, verifyFails, broker>>
    BY DEF WifiAuthenticate, checks, cloudVars
  <1>2. /\ unasked' \in 0..CountCap
        /\ outcome = "success" => unasked' = 0
        /\ ~counts => unasked' <= unasked
        /\ unasked' <= unasked + 1
    BY <1>0, CountedStep DEF WifiAuthenticate
  <1>3. air' \in Airs
    BY <1>0 DEF WifiAuthenticate, Served, TypeOK, WifiTypeOK, Airs
  <1>4. /\ streak \in Nat /\ streak <= MaxAuthRetries /\ unasked \in Nat
        /\ guard.failures \in Nat
        /\ unasked <= guard.failures + (IF Manual THEN streak ELSE 0)
    BY <1>0, Numbers DEF BudgetInv, TypeOK, WifiTypeOK, RetriesLeft, Shared, ManagerShare
  <1>5. CASE outcome = "success"
    <2>1. LoginSucceeded
      BY <1>5 DEF WifiAuthenticate
    <2>2. /\ wifi' = "VERIFYING_INTERNET" /\ streak' = 0
          /\ asked' = asked /\ blocked' = blocked /\ ~blocked'
      BY <1>0, <2>1 DEF LoginSucceeded
    <2>3. TypeOK'
      <3>1. streak' \in 0..(MaxAuthRetries + 1) /\ wifi' \in WifiStates
        BY <2>2, Numbers DEF WifiStates
      <3>. QED
        BY <1>0, <1>1, <1>2, <1>3, <2>2, <3>1 DEF TypeOK, WifiTypeOK
    <2>4. Shared' /\ RetriesLeft' /\ Permitted'
      BY <1>1, <1>2, <1>4, <1>5, <2>2, Numbers
      DEF BudgetInv, Shared, ManagerShare, Manual, RetriesLeft, Permitted
    <2>. QED
      BY <2>3, <2>4 DEF BudgetInv
  <1>6. CASE outcome \in {"rejected", "pin"}
    <2>1. HardFailure
      BY <1>6 DEF WifiAuthenticate
    <2>2. wifi' = "BLOCKED" /\ streak' = streak /\ asked' = asked /\ blocked' = TRUE
      BY <2>1 DEF HardFailure
    <2>3. TypeOK'
      BY <1>0, <1>1, <1>2, <1>3, <2>2 DEF TypeOK, WifiTypeOK, WifiStates
    <2>4. Shared' /\ RetriesLeft' /\ Permitted'
      BY <1>1, <1>2, <1>4, <2>2, Numbers
      DEF BudgetInv, Shared, ManagerShare, Retries, Manual, RetriesLeft, Permitted
    <2>. QED
      BY <2>3, <2>4 DEF BudgetInv
  <1>7. CASE outcome = "retryable" /\ Unattended
    <2>0. ~Manual
      BY <1>7 DEF Unattended, Manual
    <2>1. RetryableFailure
      BY <1>7 DEF WifiAuthenticate
    <2>2. wifi' = "AUTH_READY" /\ UNCHANGED <<asked, blocked, streak>>
      BY <2>0, <2>1 DEF RetryableFailure
    <2>3. TypeOK'
      BY <1>0, <1>1, <1>2, <1>3, <2>2 DEF TypeOK, WifiTypeOK, WifiStates
    <2>4. Shared' /\ RetriesLeft' /\ Permitted'
      BY <1>0, <1>1, <1>2, <1>4, <1>7, <2>0, <2>2
      DEF BudgetInv, Shared, ManagerShare, Manual, RetriesLeft, Permitted
    <2>. QED
      BY <2>3, <2>4 DEF BudgetInv
  <1>8. CASE outcome = "retryable" /\ Manual
    <2>0. ~Unattended
      BY <1>8 DEF Unattended, Manual
    <2>1. RetryableFailure
      BY <1>8 DEF WifiAuthenticate
    <2>2. UpTo(MaxAuthRetries + 1, streak + 1) = streak + 1
      BY <1>4, Numbers DEF UpTo
    <2>3. /\ streak' = streak + 1
          /\ IF streak + 1 <= MaxAuthRetries
             THEN wifi' = "AUTH_READY" /\ asked' = TRUE /\ UNCHANGED blocked
             ELSE wifi' = "BLOCKED" /\ blocked' = TRUE /\ UNCHANGED asked
      BY <2>0, <2>1, <2>2 DEF RetryableFailure
    <2>4. TypeOK'
      <3>1. streak' \in 0..(MaxAuthRetries + 1)
        BY <1>4, <2>3, Numbers
      <3>2. wifi' \in WifiStates /\ asked' \in BOOLEAN /\ blocked' \in BOOLEAN
        BY <1>0, <2>3 DEF TypeOK, WifiTypeOK, WifiStates
      <3>. QED
        BY <1>0, <1>1, <1>2, <1>3, <3>1, <3>2 DEF TypeOK, WifiTypeOK
    <2>5. Shared'
      BY <1>0, <1>1, <1>2, <1>4, <1>8, <2>3, Numbers
      DEF Shared, ManagerShare, Retries, Manual
    <2>6. RetriesLeft' /\ Permitted'
      BY <1>0, <1>1, <2>3 DEF BudgetInv, RetriesLeft, Permitted
    <2>. QED
      BY <2>4, <2>5, <2>6 DEF BudgetInv
  <1>. QED
    BY <1>5, <1>6, <1>7, <1>8 DEF WifiAuthenticate, RetryableFailure, Outcomes

\* The operator's word: the count starts anew, the shares only shrink.
LEMMA OperatorStep ==
  ASSUME BudgetInv, UNCHANGED cloudVars, CliLogin \/ CliUnblock
  PROVE  BudgetInv'
  <1>0. TypeOK
    BY DEF BudgetInv
  <1>1. UNCHANGED <<build, air, detected, triggered, verify, failStreak,
                    cloud, guard, verifyFails, broker>>
    BY DEF CliLogin, CliUnblock, checks, cloudVars
  <1>2. unasked' = 0
    BY DEF CliLogin, CliUnblock, Attention
  <1>3. \/ UNCHANGED <<blocked, streak>>
        \/ blocked' = FALSE /\ streak' = 0
    BY DEF CliLogin, CliUnblock, ClearHardBlock
  <1>4. wifi' \in WifiStates /\ (wifi' = "AUTHENTICATING" => wifi = "AUTHENTICATING")
    BY <1>0 DEF CliLogin, CliUnblock, TypeOK, WifiTypeOK, WifiStates
  <1>5. asked' \in BOOLEAN
    BY <1>0 DEF CliLogin, CliUnblock, Manual, TypeOK, WifiTypeOK
  <1>6. TypeOK'
    BY <1>0, <1>1, <1>2, <1>3, <1>4, <1>5, Numbers DEF TypeOK, WifiTypeOK
  <1>7. Shared'
    BY <1>0, <1>1, <1>2, <1>3, Numbers
    DEF Shared, ManagerShare, Retries, Manual, TypeOK, WifiTypeOK
  <1>8. RetriesLeft' /\ Permitted'
    BY <1>0, <1>1, <1>3, <1>4, Numbers DEF BudgetInv, RetriesLeft, Permitted
  <1>. QED
    BY <1>6, <1>7, <1>8 DEF BudgetInv

------------------------------------------------------------------------------
(* The cloud side. *)

\* A call of tick() without a login.  The guard may forget that the portal is
\* gone, never how often it failed.
LEMMA CloudQuietStep ==
  ASSUME BudgetInv,
         \/ CloudBoot \/ CloudWifi \/ CloudDhcp \/ CloudPortal \/ CloudNoAuth
         \/ CloudInternet \/ CloudMqttConnect \/ CloudMqttTimeout \/ CloudBackoffOver
         \/ (\E due \in BOOLEAN : CloudSupervise(due)) \/ BrokerLost
  PROVE  BudgetInv'
  <1>0. /\ TypeOK
        /\ guard.failures \in 0..MaxAuthAttempts /\ guard.gone \in BOOLEAN
        /\ FailsSoFar \in 0..2
    BY UpToBounds DEF BudgetInv, TypeOK, FailsSoFar, UpTo
  <1>1. UNCHANGED <<build, air, wifi, detected, triggered, asked, blocked, streak, verify,
                    failStreak, unasked>>
    BY DEF CloudBoot, CloudWifi, CloudDhcp, CloudPortal, CloudNoAuth, CloudInternet,
           CloudMqttConnect, CloudMqttTimeout, CloudBackoffOver, CloudSupervise, BrokerLost,
           Quiet, wifiVars, login, checks
  <1>2. guard' = guard \/ guard' = [guard EXCEPT !.gone = FALSE]
    BY DEF CloudBoot, CloudWifi, CloudDhcp, CloudPortal, CloudNoAuth, CloudInternet,
           CloudMqttConnect, CloudMqttTimeout, CloudBackoffOver, CloudSupervise, BrokerLost,
           Quiet, ForceReconnect
  <1>3. /\ guard' \in [failures : 0..MaxAuthAttempts, gone : BOOLEAN]
        /\ guard'.failures = guard.failures
    BY <1>0, <1>2 DEF TypeOK
  <1>4. /\ cloud' \in CloudStates
        /\ cloud' = "CAMPUS_AUTHENTICATING" =>
             cloud = "CAMPUS_AUTHENTICATING" \/ guard.failures < MaxAuthAttempts
    BY <1>0 DEF CloudBoot, CloudWifi, CloudDhcp, CloudPortal, CloudNoAuth, CloudInternet,
           CloudMqttConnect, CloudMqttTimeout, CloudBackoffOver, CloudSupervise, BrokerLost,
           ForceReconnect, BrokerWatched, Move, CanAttemptAuth, TypeOK, CloudStates
  <1>5. verifyFails' \in 0..2
    BY <1>0 DEF CloudBoot, CloudWifi, CloudDhcp, CloudPortal, CloudNoAuth, CloudInternet,
           CloudMqttConnect, CloudMqttTimeout, CloudBackoffOver, CloudSupervise, BrokerLost,
           Quiet, ForceReconnect, TypeOK
  <1>6. broker' \in BOOLEAN
    BY <1>0 DEF CloudBoot, CloudWifi, CloudDhcp, CloudPortal, CloudNoAuth, CloudInternet,
           CloudMqttConnect, CloudMqttTimeout, CloudBackoffOver, CloudSupervise, BrokerLost,
           Quiet, TypeOK
  <1>7. TypeOK'
    BY <1>0, <1>1, <1>3, <1>4, <1>5, <1>6 DEF TypeOK, WifiTypeOK
  <1>. QED
    BY <1>1, <1>3, <1>4, <1>7, QuietStep

\* Its login: what it adds to the count it adds to its own failures.
LEMMA CloudAuthStep ==
  ASSUME BudgetInv, NEW outcome \in Outcomes, CloudAuth(outcome)
  PROVE  BudgetInv'
  <1>0. TypeOK /\ guard.failures \in Nat /\ guard.failures < MaxAuthAttempts
    BY DEF BudgetInv, TypeOK, Permitted, CloudAuth
  <1>1. UNCHANGED <<build, wifi, detected, triggered, asked, blocked, streak, verify,
                    failStreak, verifyFails, broker>>
    BY DEF CloudAuth, login, checks
  <1>2. /\ unasked' \in 0..CountCap
        /\ outcome = "success" => unasked' = 0
        /\ unasked' <= unasked + 1
    BY <1>0, CountedStep DEF CloudAuth
  <1>3. air' \in Airs
    BY <1>0 DEF CloudAuth, Served, TypeOK, WifiTypeOK, Airs
  <1>4. /\ ManagerShare \in Nat /\ ManagerShare' = ManagerShare
        /\ unasked \in Nat /\ unasked <= guard.failures + ManagerShare
    BY <1>0, <1>1, ShareBounds DEF BudgetInv, Shared, TypeOK, WifiTypeOK, ManagerShare,
                                   Retries, Manual
  <1>5. CASE outcome = "success"
    <2>1. guard' = [failures |-> 0, gone |-> TRUE] /\ cloud' = "INTERNET_READY"
      BY <1>5 DEF CloudAuth, Move
    <2>2. TypeOK'
      BY <1>0, <1>1, <1>2, <1>3, <2>1, Numbers DEF TypeOK, WifiTypeOK, CloudStates
    <2>3. Shared' /\ RetriesLeft' /\ Permitted'
      BY <1>1, <1>2, <1>4, <1>5, <2>1 DEF BudgetInv, Shared, RetriesLeft, Permitted
    <2>. QED
      BY <2>2, <2>3 DEF BudgetInv
  <1>6. CASE outcome # "success"
    <2>0. UpTo(MaxAuthAttempts, guard.failures + 1) = guard.failures + 1
      BY <1>0, Numbers DEF UpTo
    <2>1. guard' = [guard EXCEPT !.failures = guard.failures + 1] /\ cloud' = "BACKOFF"
      BY <1>6, <2>0 DEF CloudAuth, Move
    <2>2. /\ guard' \in [failures : 0..MaxAuthAttempts, gone : BOOLEAN]
          /\ guard'.failures = guard.failures + 1
      BY <1>0, <2>1, Numbers DEF TypeOK
    <2>3. TypeOK'
      BY <1>0, <1>1, <1>2, <1>3, <2>1, <2>2 DEF TypeOK, WifiTypeOK, CloudStates
    <2>4. Shared' /\ RetriesLeft' /\ Permitted'
      BY <1>0, <1>1, <1>2, <1>4, <2>1, <2>2 DEF BudgetInv, Shared, RetriesLeft, Permitted
    <2>. QED
      BY <2>3, <2>4 DEF BudgetInv
  <1>. QED
    BY <1>5, <1>6

\* A reset: both machines begin anew.
LEMMA RebootStep ==
  ASSUME BudgetInv, Reboot
  PROVE  BudgetInv'
  <1>1. TypeOK'
    <2>1. wifi' \in WifiStates
      BY DEF Reboot, WifiReboot, BootState, WifiStates
    <2>2. build' \in Builds /\ air' \in Airs /\ cloud' \in CloudStates
      BY DEF BudgetInv, TypeOK, WifiTypeOK, Reboot, WifiReboot, Move, CloudStates, Airs
    <2>3. /\ detected' \in BOOLEAN /\ triggered' \in BOOLEAN /\ asked' \in BOOLEAN
           /\ blocked' \in BOOLEAN /\ broker' \in BOOLEAN
      BY Zenon DEF Reboot, WifiReboot, ClearHardBlock
    <2>4. failStreak' \in 0..1 /\ verifyFails' \in 0..2
      <3>1. failStreak' = 0 /\ verifyFails' = 0
        BY DEF Reboot, WifiReboot, Settled
      <3>. QED
        BY <3>1
    <2>5. streak' = 0 /\ unasked' = 0 /\ verify' = NoVerify /\ guard' = NoLogins
      BY DEF Reboot, WifiReboot, ClearHardBlock, Attention, Settled
    <2>6. guard' \in [failures : 0..MaxAuthAttempts, gone : BOOLEAN]
      BY <2>5, Numbers DEF NoLogins
    <2>. QED
      BY <2>1, <2>2, <2>3, <2>4, <2>5, <2>6, Numbers DEF TypeOK, WifiTypeOK
  <1>2. Shared' /\ RetriesLeft' /\ Permitted'
    BY Numbers DEF Reboot, WifiReboot, NoLogins, BootState, ClearHardBlock, Attention, Move,
                  Shared, ManagerShare, Retries, RetriesLeft, Permitted
  <1>. QED
    BY <1>1, <1>2 DEF BudgetInv

\* Every step of the two machines, of the operator and of the surroundings.
LEMMA NextBudget == BudgetInv /\ [Next]_vars => BudgetInv'
  <1> SUFFICES ASSUME BudgetInv, [Next]_vars PROVE BudgetInv'
    OBVIOUS
  <1>1. CASE WifiUpdate /\ UNCHANGED cloudVars
    BY <1>1, WifiQuietStep, StartStep, AuthenticateStep DEF WifiUpdate
  <1>2. CASE CloudTick
    BY <1>2, CloudQuietStep, CloudAuthStep DEF CloudTick
  <1>3. CASE Disturbance
    BY <1>3, WifiQuietStep, OperatorStep, CloudQuietStep, RebootStep
    DEF Disturbance, Console, NetworkChange
  <1>4. CASE UNCHANGED vars
    BY <1>4 DEF vars, wifiVars, cloudVars, login, checks, BudgetInv, TypeOK, WifiTypeOK,
                Shared, ManagerShare, Retries, Manual, RetriesLeft, Permitted
  <1>. QED
    BY <1>1, <1>2, <1>3, <1>4 DEF Next

\* BudgetInv is an inductive invariant of the two machines.
THEOREM CampusInductive == Spec => []BudgetInv
  BY InitBudget, NextBudget, PTL DEF Spec

\* Every variable of the two machines keeps its type, in every build.
THEOREM CampusTyping == Spec => []TypeOK
<1>1. BudgetInv => TypeOK
  BY DEF BudgetInv
<1>. QED
  BY <1>1, CampusInductive, PTL

\* However many retries and attempts a build allows, between two words of the
\* operator no more logins than those are rejected.
THEOREM BudgetIsKept == Spec => []LoginBudget
<1>1. BudgetInv => LoginBudget
  <2> SUFFICES ASSUME BudgetInv PROVE LoginBudget
    OBVIOUS
  <2>1. /\ guard.failures \in Nat /\ guard.failures <= MaxAuthAttempts
        /\ unasked \in Nat /\ unasked <= guard.failures + ManagerShare
    BY Numbers DEF BudgetInv, Shared, TypeOK, WifiTypeOK
  <2>. QED
    BY <2>1, ShareBounds, Numbers DEF LoginBudget, Retries
<1>. QED
  BY <1>1, CampusInductive, PTL
==============================================================================

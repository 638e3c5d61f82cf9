----------------------------- MODULE CampusWifi -----------------------------
(***************************************************************************)
(* The Wi-Fi manager of the firmware (network/wifi_manager.cpp) with the   *)
(* two records it decides a campus login by: CampusAuthPolicy (rate limit  *)
(* and hard block) and AutoAuthEpoch (one first attempt per detection).    *)
(* An action WifiX is one call of update() that changes something, an      *)
(* action CliX one command of the serial console.                          *)
(*                                                                         *)
(* Times are not counted.  A wait, be it 500 ms or what is left of the     *)
(* hourly quota, may be over at any call and is over in the end, so the    *)
(* gate of the policy only keeps its hard block.                           *)
(***************************************************************************)
EXTENDS Naturals

CONSTANTS
  Builds,         \* compile-time switches of the images looked at
  MaxAuthRetries, \* MAX_AUTH_RETRIES of the manual build
  Rounds,         \* verification rounds before ONLINE
  CountCap        \* larger counts of history are not told apart

ASSUME BuildsAssumption ==
  Builds \subseteq [auth : {"none", "manual", "auto"}, creds : BOOLEAN, join : BOOLEAN]
ASSUME NumbersAssumption ==
  MaxAuthRetries \in Nat /\ Rounds \in Nat \ {0} /\ CountCap \in Nat

VARIABLES
  build,      \* the image that runs
  air,        \* no link (WiFi.status()), or what is behind the access point
  wifi,       \* _state; PORTAL_CHECKED is PORTAL_CHECK with _portalChecked
  detected,   \* _portalDetected
  triggered,  \* _triggered of the epoch, which the unattended build reads
  asked,      \* _authRequested, which the manual build reads
  blocked,    \* _hardBlocked of the policy
  streak,     \* its _failStreak, which only bounds the manual build's retries
  verify,     \* _verifyRound, and whether every round was ok
  failStreak, \* _failStreak of the manager's checks while online
  unasked     \* history: logins since the last command or success that were
              \* rejected, or that a manual manager started

login    == <<triggered, asked, blocked, streak>>
checks   == <<verify, failStreak>>
wifiVars == <<build, air, wifi, detected, login, checks, unasked>>

WifiStates == {"DISCONNECTED", "ASSOCIATING", "DHCP_WAIT", "PORTAL_CHECK", "PORTAL_CHECKED",
               "AUTH_READY", "AUTHENTICATING", "VERIFYING_INTERNET", "ONLINE", "BACKOFF",
               "BLOCKED"}
Airs == {"none", "dead", "captive", "open"}
Outcomes == {"success", "retryable", "rejected", "pin"}

UpTo(cap, n) == IF n < cap THEN n ELSE cap
More(n) == UpTo(CountCap, n + 1)

Manual     == build.auth = "manual"
Unattended == build.auth = "auto"

Associated == wifi \notin {"DISCONNECTED", "ASSOCIATING"}
Guarded    == Associated /\ wifi # "BLOCKED"
Link       == air # "none"
Attended   == Guarded /\ Link

\* Counters of a state are reset on the way in; here on the way out.
NoVerify == [round |-> 0, ok |-> TRUE]
Settled  == verify' = NoVerify /\ failStreak' = 0

(***************************************************************************)
(* One srun login.  "pin" is a wrong certificate or a portal host that     *)
(* does not answer, which tlsPinValid() does not tell apart; no password   *)
(* is sent then.  A successful login opens the portal.                     *)
(***************************************************************************)
Possible(outcome) ==
  outcome \in {"success", "rejected"} => air \in {"captive", "open"}

Served(outcome) == air' = IF outcome = "success" THEN "open" ELSE air

Counted(outcome, counts) ==
  unasked' = IF outcome = "success" THEN 0 ELSE IF counts THEN More(unasked) ELSE unasked

------------------------------------------------------------------------------
\* The link is gone: connect() associates again.
WifiLinkLost ==
  /\ Guarded /\ ~Link
  /\ wifi' = "ASSOCIATING"
  /\ triggered' = FALSE
  /\ Settled
  /\ UNCHANGED <<build, air, detected, asked, blocked, streak, unasked>>

WifiAssociate ==
  /\ wifi = "ASSOCIATING" /\ Link
  /\ wifi' = "DHCP_WAIT"
  /\ triggered' = FALSE
  /\ UNCHANGED <<build, air, detected, asked, blocked, streak, checks, unasked>>

WifiAssociateTimeout ==
  /\ wifi = "ASSOCIATING" /\ ~Link
  /\ wifi' = "BACKOFF"
  /\ UNCHANGED <<build, air, detected, login, checks, unasked>>

WifiDhcpWait ==
  /\ Attended /\ wifi = "DHCP_WAIT"
  /\ wifi' = "PORTAL_CHECK"
  /\ UNCHANGED <<build, air, detected, login, checks, unasked>>

\* The PORTAL_CHECK case before the detection has run.
Detect ==
  /\ detected' = (air = "captive")
  /\ wifi' = IF air = "captive" THEN "AUTH_READY" ELSE "PORTAL_CHECKED"

WifiDetect ==
  /\ Attended /\ wifi = "PORTAL_CHECK"
  /\ Detect
  /\ triggered' = (triggered /\ air # "captive")
  /\ UNCHANGED <<build, air, asked, blocked, streak, checks, unasked>>

\* A call that finds another address: it forgets the epoch's attempt and goes on
\* with the detection, unless that has just run.
WifiNewLease ==
  /\ Attended
  /\ IF wifi = "PORTAL_CHECKED" THEN UNCHANGED <<wifi, detected>> ELSE Detect
  /\ triggered' = FALSE
  /\ Settled
  /\ UNCHANGED <<build, air, asked, blocked, streak, unasked>>

\* No portal: one probe of the Internet decides.
WifiProbe ==
  /\ Attended /\ wifi = "PORTAL_CHECKED"
  /\ wifi' = IF air = "open" THEN "VERIFYING_INTERNET" ELSE "BACKOFF"
  /\ UNCHANGED <<build, air, detected, login, checks, unasked>>

\* AUTH_READY in a build without an authenticator: probe again in five minutes.
WifiNoAuthSupport ==
  /\ Attended /\ wifi = "AUTH_READY" /\ build.auth = "none"
  /\ wifi' = "BACKOFF"
  /\ UNCHANGED <<build, air, detected, login, checks, unasked>>

\* serviceAuthReady(): intent, credentials and permission of the policy.
Intent == Unattended \/ asked
MayStartAuth == Unattended => ~triggered

WifiStartAuth ==
  /\ Attended /\ wifi = "AUTH_READY" /\ build.auth # "none" /\ build.creds
  /\ Intent /\ MayStartAuth /\ ~blocked
  /\ wifi' = "AUTHENTICATING"
  /\ asked' = FALSE
  /\ triggered' = Unattended
  /\ UNCHANGED <<build, air, detected, blocked, streak, checks, unasked>>

LoginSucceeded ==
  /\ wifi' = "VERIFYING_INTERNET"
  /\ streak' = 0
  /\ UNCHANGED <<asked, blocked>>

\* Mutant: noteHardFailure is forgotten, only the state is blocked.
HardFailureUnlatched ==
  /\ wifi' = "BLOCKED"
  /\ UNCHANGED <<asked, blocked, streak>>

HardFailure ==
  /\ wifi' = "BLOCKED"
  /\ blocked' = TRUE
  /\ UNCHANGED <<asked, streak>>

RetryableFailure ==
  LET failures == UpTo(MaxAuthRetries + 1, streak + 1)
  IN  \/ /\ Unattended
         /\ wifi' = "AUTH_READY"
         /\ UNCHANGED <<asked, blocked, streak>>
      \/ /\ Manual
         /\ streak' = failures
         /\ IF failures <= MaxAuthRetries
            THEN wifi' = "AUTH_READY" /\ asked' = TRUE /\ UNCHANGED blocked
            ELSE wifi' = "BLOCKED" /\ blocked' = TRUE /\ UNCHANGED asked

\* doAuth().  The login blocks, so its outcome is part of the same call.
WifiAuthenticate(outcome) ==
  /\ Attended /\ wifi = "AUTHENTICATING" /\ Possible(outcome)
  /\ Served(outcome)
  /\ Counted(outcome, outcome = "rejected" \/ (outcome = "retryable" /\ Manual))
  /\ \/ outcome = "success" /\ LoginSucceeded
     \/ outcome \in {"rejected", "pin"} /\ HardFailure
     \/ outcome = "retryable" /\ RetryableFailure
  /\ UNCHANGED <<build, detected, triggered, checks>>

\* Only rounds that are all good lead to ONLINE.
WifiVerifyRound ==
  /\ Attended /\ wifi = "VERIFYING_INTERNET"
  /\ LET ok == verify.ok /\ air = "open" IN
       IF verify.round + 1 < Rounds
       THEN /\ verify' = [round |-> verify.round + 1, ok |-> ok]
            /\ UNCHANGED <<wifi, failStreak>>
       ELSE wifi' = (IF ok THEN "ONLINE" ELSE "BACKOFF") /\ Settled
  /\ UNCHANGED <<build, air, detected, login, unasked>>

\* Mutant: the streak is not cleared when it leads to a detection.
CheckStreakKept == IF air = "open" THEN 0 ELSE failStreak + 1

CheckStreak == IF air = "open" THEN 0 ELSE (failStreak + 1) % 2

\* Every five minutes; the second failure in a row looks for a portal again.
WifiNetCheck ==
  /\ Attended /\ wifi = "ONLINE"
  /\ failStreak' = CheckStreak
  /\ wifi' = IF air # "open" /\ failStreak = 1 THEN "PORTAL_CHECK" ELSE wifi
  /\ UNCHANGED <<build, air, detected, login, verify, unasked>>

WifiBackoffOver ==
  /\ Attended /\ wifi = "BACKOFF"
  /\ wifi' = "PORTAL_CHECK"
  /\ UNCHANGED <<build, air, detected, login, checks, unasked>>

------------------------------------------------------------------------------
\* wifi connect: begin() forgets the epoch, but neither request nor policy.
CliConnect ==
  /\ wifi' = "ASSOCIATING"
  /\ triggered' = FALSE
  /\ Settled
  /\ UNCHANGED <<build, air, detected, asked, blocked, streak, unasked>>

CliDisconnect ==
  /\ wifi' = "DISCONNECTED"
  /\ air' = "none"
  /\ Settled
  /\ UNCHANGED <<build, detected, login, unasked>>

Attention == unasked' = 0

ClearHardBlock == blocked' = FALSE /\ streak' = 0

\* campus login: a request; the manager logs in later, in AUTH_READY.
CliLogin ==
  /\ build.auth # "none" /\ build.creds /\ Associated
  /\ Attention
  /\ IF wifi = "DHCP_WAIT"
     THEN wifi' = "PORTAL_CHECK" /\ UNCHANGED <<asked, blocked, streak>>
     ELSE /\ IF blocked THEN ClearHardBlock ELSE UNCHANGED <<blocked, streak>>
          /\ wifi' = IF blocked /\ wifi = "BLOCKED" THEN "AUTH_READY" ELSE wifi
          /\ asked' = Manual
  /\ UNCHANGED <<build, air, detected, triggered, checks>>

CliUnblock ==
  /\ build.auth # "none"
  /\ Attention
  /\ ClearHardBlock
  /\ wifi' = IF wifi = "BLOCKED" THEN "PORTAL_CHECK" ELSE wifi
  /\ UNCHANGED <<build, air, detected, triggered, asked, checks>>

------------------------------------------------------------------------------
\* The link comes and goes; the campus opens and closes its portal.
AirChange ==
  /\ air' \in Airs \ {air}
  /\ UNCHANGED <<build, wifi, detected, login, checks, unasked>>

BootState == IF build.join THEN "ASSOCIATING" ELSE "DISCONNECTED"

WifiInit ==
  /\ build \in Builds
  /\ air = "none"
  /\ wifi = BootState /\ detected = FALSE
  /\ triggered = FALSE /\ asked = FALSE /\ blocked = FALSE /\ streak = 0
  /\ verify = NoVerify /\ failStreak = 0
  /\ unasked = 0

\* setup() after a reset: every member starts anew, the network does not.
WifiReboot ==
  /\ air' = "none"
  /\ wifi' = BootState /\ detected' = FALSE
  /\ triggered' = FALSE /\ asked' = FALSE
  /\ ClearHardBlock /\ Settled /\ Attention
  /\ UNCHANGED build

WifiUpdate ==
  \/ WifiLinkLost \/ WifiAssociate \/ WifiAssociateTimeout \/ WifiDhcpWait
  \/ WifiDetect \/ WifiProbe \/ WifiNoAuthSupport \/ WifiStartAuth
  \/ \E outcome \in Outcomes : WifiAuthenticate(outcome)
  \/ WifiVerifyRound \/ WifiNetCheck \/ WifiBackoffOver

Console == CliConnect \/ CliDisconnect \/ CliLogin \/ CliUnblock
NetworkChange == AirChange \/ WifiNewLease

WifiTypeOK ==
  /\ build \in Builds
  /\ air \in Airs
  /\ wifi \in WifiStates /\ detected \in BOOLEAN
  /\ triggered \in BOOLEAN /\ asked \in BOOLEAN
  /\ blocked \in BOOLEAN /\ streak \in 0..(MaxAuthRetries + 1)
  /\ verify \in [round : 0..(Rounds - 1), ok : BOOLEAN]
  /\ failStreak \in 0..1
  /\ unasked \in 0..CountCap
==============================================================================

------------------------------ MODULE CloudLink ------------------------------
(***************************************************************************)
(* The connectivity state machine of the cloud side                        *)
(* (cloud/connectivity_state_machine.cpp) on top of the Wi-Fi manager, as  *)
(* RemoteACApp.cpp joins them: its callbacks read the manager's state, and *)
(* one of them logs in to the campus network on its own.  appLoop() calls  *)
(* update() of the manager and tick() in turn; a call that changes nothing *)
(* is a stutter, and so is one before a wait is over.                      *)
(***************************************************************************)
EXTENDS CampusWifi

CONSTANT MaxAuthAttempts  \* max_auth_attempts of the guard
ASSUME AttemptsAssumption == MaxAuthAttempts \in Nat

VARIABLES
  cloud,        \* _state
  guard,        \* consecutive_failures and portal_likely_gone
  verifyFails,  \* _verifyFailStreak
  broker        \* the MQTT connection is up

cloudVars == <<cloud, guard, verifyFails, broker>>
vars == <<wifiVars, cloudVars>>

CloudStates == {"BOOT", "WIFI_CONNECTING", "WAITING_DHCP", "PORTAL_CHECKING",
                "CAMPUS_AUTHENTICATING", "INTERNET_READY", "MQTT_CONNECTING",
                "CLOUD_ONLINE", "BACKOFF"}

\* The callbacks.
WifiConnected == Associated
InternetUp    == wifi = "ONLINE"

\* The minimum interval between two logins may be over at any call.

CanAttemptAuth ==
  /\ guard.failures < MaxAuthAttempts
  /\ ~guard.gone

Move(state) == cloud' = state
Quiet == UNCHANGED <<wifiVars, guard, verifyFails, broker>>

CloudBoot == cloud = "BOOT" /\ Move("WIFI_CONNECTING") /\ Quiet

CloudWifi ==
  /\ cloud = "WIFI_CONNECTING"
  /\ Move(IF WifiConnected THEN "WAITING_DHCP" ELSE "BACKOFF")
  /\ Quiet

\* An associated manager always has an address to show.
CloudDhcp ==
  /\ cloud = "WAITING_DHCP"
  /\ Move(IF WifiConnected THEN "PORTAL_CHECKING" ELSE "BACKOFF")
  /\ Quiet

CloudPortal ==
  /\ cloud = "PORTAL_CHECKING"
  /\ \/ detected /\ CanAttemptAuth /\ Move("CAMPUS_AUTHENTICATING")
     \/ Move("INTERNET_READY")
  /\ Quiet

CloudNoAuth ==
  /\ cloud = "CAMPUS_AUTHENTICATING" /\ build.auth = "none"
  /\ Move("INTERNET_READY")
  /\ Quiet

\* executeLogin(): it asks neither the manager's state nor its policy.
CloudAuth(outcome) ==
  /\ cloud = "CAMPUS_AUTHENTICATING" /\ build.auth # "none"
  /\ build.creds => Possible(outcome)
  /\ ~build.creds => outcome = "pin"
  /\ Served(outcome) /\ Counted(outcome, outcome = "rejected")
  /\ IF outcome = "success"
     THEN /\ guard' = [failures |-> 0, gone |-> TRUE]
          /\ Move("INTERNET_READY")
     ELSE /\ guard' = [guard EXCEPT !.failures = UpTo(MaxAuthAttempts, @ + 1)]
          /\ Move("BACKOFF")
  /\ UNCHANGED <<build, wifi, detected, login, checks, verifyFails, broker>>

FailsSoFar == UpTo(2, verifyFails + 1)

CloudInternet ==
  /\ cloud = "INTERNET_READY"
  /\ IF InternetUp
     THEN Move("MQTT_CONNECTING") /\ verifyFails' = 0 /\ UNCHANGED guard
     ELSE /\ verifyFails' = FailsSoFar
          /\ IF guard.gone /\ FailsSoFar = 2
             THEN Move("PORTAL_CHECKING") /\ guard' = [guard EXCEPT !.gone = FALSE]
             ELSE Move("BACKOFF") /\ UNCHANGED guard
  /\ UNCHANGED <<wifiVars, broker>>

CloudMqttConnect ==
  /\ cloud = "MQTT_CONNECTING"
  /\ broker \/ air = "open"
  /\ broker' = TRUE
  /\ Move("CLOUD_ONLINE")
  /\ UNCHANGED <<wifiVars, guard, verifyFails>>

\* Attempts that the broker does not answer go on until the stage times out.
CloudMqttTimeout ==
  /\ cloud = "MQTT_CONNECTING" /\ ~broker
  /\ Move("BACKOFF")
  /\ Quiet

ForceReconnect ==
  /\ guard' = [guard EXCEPT !.gone = FALSE]
  /\ verifyFails' = 0
  /\ Move("WIFI_CONNECTING")

\* Mutant: the connection is trusted for as long as Wi-Fi and Internet are up.
BrokerTrusted == cloud

BrokerWatched == IF broker THEN cloud ELSE "MQTT_CONNECTING"

\* The link, the health check when it is due, the MQTT connection: in this order.
CloudSupervise(due) ==
  /\ cloud = "CLOUD_ONLINE"
  /\ IF ~WifiConnected \/ (due /\ ~InternetUp /\ FailsSoFar = 2)
     THEN ForceReconnect
     ELSE /\ verifyFails' = IF ~due THEN verifyFails ELSE IF InternetUp THEN 0 ELSE FailsSoFar
          /\ Move(BrokerWatched)
          /\ UNCHANGED guard
  /\ UNCHANGED <<wifiVars, broker>>

CloudBackoffOver == cloud = "BACKOFF" /\ Move("WIFI_CONNECTING") /\ Quiet

\* The session with the broker ends; a dead link ends it at some later moment.
BrokerLost ==
  /\ broker
  /\ broker' = FALSE
  /\ UNCHANGED <<wifiVars, cloud, guard, verifyFails>>

NoLogins == [failures |-> 0, gone |-> FALSE]

Init ==
  /\ WifiInit
  /\ cloud = "BOOT" /\ guard = NoLogins /\ verifyFails = 0 /\ broker = FALSE

Reboot ==
  /\ WifiReboot
  /\ Move("BOOT") /\ guard' = NoLogins /\ verifyFails' = 0 /\ broker' = FALSE

CloudTick ==
  \/ CloudBoot \/ CloudWifi \/ CloudDhcp \/ CloudPortal \/ CloudNoAuth
  \/ \E outcome \in Outcomes : CloudAuth(outcome)
  \/ CloudInternet \/ CloudMqttConnect \/ CloudMqttTimeout \/ CloudBackoffOver
  \/ \E due \in BOOLEAN : CloudSupervise(due)

Disturbance ==
  \/ (Console \/ NetworkChange) /\ UNCHANGED cloudVars
  \/ BrokerLost
  \/ Reboot

Next ==
  \/ WifiUpdate /\ UNCHANGED cloudVars
  \/ CloudTick
  \/ Disturbance

Spec == Init /\ [][Next]_vars

\* loop() runs for ever and calls both machines; every wait is finite, and a
\* broker that can be reached whenever it is tried accepts in the end.
FairSpec ==
  /\ Spec
  /\ WF_vars(WifiUpdate /\ UNCHANGED cloudVars)
  /\ WF_vars(CloudTick)
  /\ SF_vars(CloudMqttConnect)

(***************************************************************************)
(* Properties.                                                             *)
(***************************************************************************)

\* The types of all variables of the two machines.
TypeOK ==
  /\ WifiTypeOK
  /\ cloud \in CloudStates
  /\ guard \in [failures : 0..MaxAuthAttempts, gone : BOOLEAN]
  /\ verifyFails \in 0..2
  /\ broker \in BOOLEAN

\* wifi_manager.cpp:299, "a rejected password must never be replayed": the two
\* machines keep their own counts and neither asks the other's, yet between two
\* commands of the operator, or successes, a rejected password is sent at most
\* once by the manager and max_auth_attempts times by the cloud side, whatever
\* links, leases and `wifi connect` do; and a manual manager starts at most
\* 1 + MAX_AUTH_RETRIES logins, a stale request included.
LoginBudget == unasked <= 1 + MaxAuthAttempts + (IF Manual THEN MaxAuthRetries ELSE 0)

Calm   == <>[][~Disturbance]_vars
Online == cloud = "CLOUD_ONLINE" /\ broker

\* What only an operator or another network ends: switched off, blocked, or
\* waiting for a login.
Parked ==
  \/ wifi \in {"DISCONNECTED", "BLOCKED"}
  \/ wifi = "AUTH_READY" /\ build.auth # "none"

\* connectivity_state_machine.h:3, auto-recovery: once nothing is disturbed any
\* more and the Internet can be reached, the device comes to be connected with
\* the broker for good, or its manager waits for the operator for good.  The two
\* machines never keep sending each other back.
OnlineOrParked ==
  Calm /\ <>[](air = "open") => <>[]Online \/ <>[]Parked

\* wifi_manager.cpp:319, "Unattended build: keep trying, paced by the policy": a
\* manager that is to log in on its own and not blocked does not wait in
\* AUTH_READY for ever.
KeepsTrying ==
  Unattended /\ build.creds /\ Calm
    => []<>(wifi # "AUTH_READY") \/ <>[]blocked
==============================================================================

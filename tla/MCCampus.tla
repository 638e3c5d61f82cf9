------------------------------ MODULE MCCampus ------------------------------
(* The builds of the runs: without an authenticator, with one that waits for *)
(* a command, and with one that logs in on its own, with and without the     *)
(* credentials it needs.                                                     *)
EXTENDS CloudLink

Build(auth, creds, join) == [auth |-> auth, creds |-> creds, join |-> join]

MCUnattended == {Build("auto", TRUE, TRUE)}
MCBuilds ==
  {Build("none", FALSE, TRUE), Build("manual", TRUE, FALSE), Build("auto", FALSE, TRUE)}
    \cup MCUnattended
==============================================================================

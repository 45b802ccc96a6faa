---------------------------- MODULE MCConnection ----------------------------
(***************************************************************************)
(* Constant values for model checking ConnectionSystem.                    *)
(***************************************************************************)
EXTENDS ConnectionSystem, TLC

(* The shortest way into the loop, and more, once or twice. *)
Needed ==
  {"StartIdentification", "IdentificationAccepted", "RequestCertificate",
   "Challenge", "AuthenticationSucceeded"}

Budget(once, twice) ==
  [k \in Kinds |-> IF k \in twice THEN 2 ELSE IF k \in Needed \cup once THEN 1 ELSE 0]

Thrice(kind, budget) == [budget EXCEPT ![kind] = 3]

(* Authentication and identification with everything that may happen in    *)
(* them; EA sessions opened and closed again; dropped by the application;  *)
(* now playing and the HID remote; the application's sends.                *)
Phases ==
  {Thrice("Challenge",
     Budget({"IdentificationRejected", "AuthenticationFailed", "Stop", "Failure"}, {})),
   Budget({"Outgoing"}, {"EaStart", "EaData", "EaStop"}),
   Budget({"EaStop", "Drop", "Unlisten"}, {"EaStart", "EaData"}),
   Budget({"EaStart", "EaStop", "NowPlayingUpdate", "HidCommand", "Stop",
           "Failure"}, {}),
   Budget({"EaStart", "Outgoing", "HidCommand", "AppLaunch", "Stop", "Failure"}, {})}
=============================================================================

--------------------------- MODULE MCThreatPipeline ---------------------------
(***************************************************************************)
(* A small instance of ThreatPipeline: two accounts, windows of one and    *)
(* two seconds, a threshold of two.                                        *)
(***************************************************************************)
EXTENDS ThreatPipeline, TLC

MCTraffic ==
  {[kind |-> "auth_failure", invalid |-> FALSE, user |-> "root"],
   [kind |-> "auth_failure", invalid |-> TRUE, user |-> "guest"],
   [kind |-> "auth_success", invalid |-> FALSE, user |-> "root"]}
MCWindow == "burst_velocity" :> 1 @@ [d \in Detectors |-> 2]
MCThreshold == [d \in Detectors |-> 2]
=============================================================================

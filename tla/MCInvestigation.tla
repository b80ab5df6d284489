--------------------------- MODULE MCInvestigation ---------------------------
(***************************************************************************)
(* A small instance of Investigation: one address, which the curator may   *)
(* also type in another spelling, and one account.                         *)
(***************************************************************************)
EXTENDS Investigation, TLC

CONSTANTS i1, alt, root

MCCanon == i1 :> i1 @@ alt :> i1 @@ root :> root
MCActivity ==
  {[ip |-> i1, user |-> root, score |-> 90, alarms |-> 2],
   [ip |-> i1, user |-> None, score |-> 10, alarms |-> 0]}
MCFilings == {[severity |-> "medium", actors |-> {ActorId(i1)}]}
=============================================================================

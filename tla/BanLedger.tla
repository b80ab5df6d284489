------------------------------- MODULE BanLedger -------------------------------
(***************************************************************************)
(* What the ban table promises, whoever works on it and whatever fails: a  *)
(* ban is recorded once; only a ban recorded as active can ever be closed, *)
(* and only because its time is up or because an operator asked for its    *)
(* release; a closed ban, and one that was recorded as failed, simulated   *)
(* or pending, never comes into force again.                               *)
(***************************************************************************)
CONSTANT Ids

VARIABLES
  phase, \* phase[b]: "new", "active", "inert" or "closed"
  due,   \* bans whose time is up
  asked  \* bans some operator is releasing

Init ==
  /\ phase = [b \in Ids |-> "new"]
  /\ due = {}
  /\ asked = {}

Record(b, p) ==
  /\ phase[b] = "new" /\ p \in {"active", "inert"}
  /\ phase' = [phase EXCEPT ![b] = p]
  /\ UNCHANGED <<due, asked>>

Ask(b) ==
  /\ phase[b] \in {"active", "closed"}
  /\ asked' = asked \union {b}
  /\ UNCHANGED <<phase, due>>

Close(b) ==
  /\ phase[b] = "active" /\ b \in due \union asked
  /\ phase' = [phase EXCEPT ![b] = "closed"]
  /\ asked' \subseteq asked
  /\ UNCHANGED due

Withdraw ==
  /\ asked' \subseteq asked
  /\ UNCHANGED <<phase, due>>

Elapse ==
  /\ due \subseteq due' /\ due' \subseteq Ids
  /\ UNCHANGED <<phase, asked>>

Next ==
  \/ \E b \in Ids : Record(b, "active") \/ Record(b, "inert") \/ Ask(b) \/ Close(b)
  \/ Withdraw
  \/ Elapse

Spec == Init /\ [][Next]_<<phase, due, asked>>
=============================================================================

------------------------------- MODULE MCHost -------------------------------
EXTENDS Host

CONSTANTS attacker     \* an address, of the second family

MCAddresses == {attacker}
MCFamily == [a \in MCAddresses |-> "v6"]

Complete == [NoTable EXCEPT !.there = TRUE, !.sets = Families, !.chain = "input", !.rules = Families]
(* None, a complete one with an element from before, one that lacks a rule *)
(* and lists an element, one that was made by hand, and two whose chain    *)
(* would not filter what comes in.                                         *)
MCTables ==
  {NoTable,
   [Complete EXCEPT !.rules = {"v4"}, !.elements = {attacker}],
   [Complete EXCEPT !.chain = "other", !.elements = {attacker}],
   [Complete EXCEPT !.chain = "plain", !.rules = {}]}

NoFlags == [explicit |-> TRUE, dry_run |-> FALSE, enforce |-> FALSE, mode |-> "none",
            source |-> "none", backend |-> "none"]
(* The service unit's, and a trial run on a file, as careful as can be. *)
MCLaunches ==
  {NoFlags,
   [explicit |-> FALSE, dry_run |-> TRUE, enforce |-> TRUE, mode |-> "none",
    source |-> "file", backend |-> "mock"]}

File0(keys) == [there |-> TRUE, parses |-> TRUE, keys |-> keys]
(* No file; one with enforcement on; one that a number makes useless; one  *)
(* that is not TOML.                                                       *)
MCConfigFiles ==
  {[there |-> FALSE, parses |-> FALSE, keys |-> <<>>],
   File0([mode |-> "automatic", log_file_path |-> "ok"]),
   File0([health_check_interval |-> 0]),
   [there |-> TRUE, parses |-> FALSE, keys |-> <<>>]}
=============================================================================

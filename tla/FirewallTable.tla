---------------------------- MODULE FirewallTable ----------------------------
(***************************************************************************)
(* The kernel table `inet bastion` and the NFTablesBackend that builds and *)
(* uses it (firewall/nftables.py). A packet of a listed address is dropped *)
(* only if the set of its family, the hooked chain and the family's rule   *)
(* are all there; `initialize` has to complete whatever it finds, with a   *)
(* listing and a script that are two calls of nft. nft applies a script as *)
(* a whole or not at all.                                                  *)
(***************************************************************************)
EXTENDS Integers

CONSTANTS
  Addresses,
  Family,         \* Family[a]: "v4" or "v6"
  InitialTables   \* what the daemon may find

VARIABLES
  table,      \* the kernel's table
  init,       \* where initialize() is: [pc, listing]
  disturbed   \* history: rules or table removed by somebody since initialize() looked

tableVars == <<table, init, disturbed>>

Families == {"v4", "v6"}
(* "other" is a filter chain with another hook, "plain" one without a hook. *)
Chains == {"none", "input", "other", "plain"}
Table == [there: BOOLEAN, sets: SUBSET Families, chain: Chains, rules: SUBSET Families,
          elements: SUBSET Addresses]
NoTable == [there |-> FALSE, sets |-> {}, chain |-> "none", rules |-> {}, elements |-> {}]
Initializing == [pc: {"idle", "check", "create", "list", "script", "ready", "raised"}, listing: Table]
NotYet == [pc |-> "idle", listing |-> NoTable]

ASSUME FamilyOK ==
  /\ Family \in [Addresses -> Families]
  /\ InitialTables \subseteq Table
  /\ \A t \in InitialTables : ~t.there => t = NoTable

TableTypeOK ==
  /\ table \in Table
  /\ init \in Initializing
  /\ disturbed \in BOOLEAN

TableInit ==
  /\ table \in InitialTables
  /\ init = NotYet
  /\ disturbed = FALSE

(* What a listing shows of a chain that initialize() accepts: the words    *)
(* "hook input" or "type filter".                                          *)
Compatible(chain) == chain \in {"input", "other"}

(* The commands the listing l gives rise to: what it does not show.        *)
\* Mutant: the second rule is taken for there if the first is.
MissingOneRule(l) ==
  [sets |-> Families \ l.sets, chain |-> l.chain = "none",
   rules |-> IF l.rules = {} THEN Families ELSE {}]
Missing(l) ==
  [sets |-> Families \ l.sets, chain |-> l.chain = "none", rules |-> Families \ l.rules]
NothingMissing(m) == m.sets = {} /\ ~m.chain /\ m.rules = {}

\* Mutant: the table is deleted and built anew.
WithRebuilt(t, m) == [there |-> TRUE, sets |-> Families, chain |-> "input", rules |-> Families,
                      elements |-> {}]
(* The table after a script has added m to it. *)
With(t, m) ==
  [t EXCEPT !.there = TRUE, !.sets = @ \union m.sets, !.rules = @ \union m.rules,
            !.chain = IF m.chain /\ @ = "none" THEN "input" ELSE @]
(* nft refuses a second declaration of a chain that differs. *)
Accepts(t, m) == m.chain => t.chain \in {"none", "input"}

InitGoto(pc) == init' = [pc |-> pc, listing |-> NoTable]

StartInitialize == init.pc = "idle" /\ InitGoto("check") /\ UNCHANGED <<table, disturbed>>

(* _table_exists; it says no as well when nft fails. *)
CheckTable ==
  /\ init.pc = "check"
  /\ \/ table.there /\ InitGoto("list")
     \/ InitGoto("create")
  /\ disturbed' = FALSE
  /\ UNCHANGED table

(* A new table, in one batch. *)
Everything == [sets |-> Families, chain |-> TRUE, rules |-> Families]
CreateTable ==
  /\ init.pc = "create"
  /\ \/ /\ Accepts(table, Everything)
        /\ table' = With(table, Everything)
        /\ InitGoto("ready")
     \/ InitGoto("raised") /\ UNCHANGED table
  /\ UNCHANGED disturbed

(* _get_table_listing, and what initialize() makes of it. A listing that   *)
(* fails is empty.                                                         *)
ListTable ==
  /\ init.pc = "list"
  /\ \E l \in {table, NoTable} :
       \/ l.chain # "none" /\ ~Compatible(l.chain) /\ InitGoto("raised")
       \/ /\ l.chain = "none" \/ Compatible(l.chain)
          /\ IF NothingMissing(Missing(l)) THEN InitGoto("ready")
             ELSE init' = [pc |-> "script", listing |-> l]
  /\ disturbed' = FALSE
  /\ UNCHANGED table

(* The script has no `add table`. *)
RunScript ==
  /\ init.pc = "script"
  /\ \/ /\ table.there /\ Accepts(table, Missing(init.listing))
        /\ table' = With(table, Missing(init.listing))
        /\ InitGoto("ready")
     \/ InitGoto("raised") /\ UNCHANGED table
  /\ UNCHANGED disturbed

InitializeStep == CheckTable \/ CreateTable \/ ListTable \/ RunScript

(* block_ip. *)
CanHold(a) == table.there /\ Family[a] \in table.sets
BlockAddress(a) == CanHold(a) /\ table' = [table EXCEPT !.elements = @ \union {a}]

(* flush(): `flush table` empties the chain and leaves the sets alone. *)
FlushTable ==
  /\ table' = [table EXCEPT !.rules = {}]
  /\ disturbed' = TRUE
  /\ UNCHANGED init

(* A reboot, or `nft flush ruleset` by somebody else. *)
LoseTable ==
  /\ table.there
  /\ table' = NoTable
  /\ disturbed' = TRUE
  /\ UNCHANGED init

Dropped(a) ==
  /\ a \in table.elements
  /\ table.there /\ table.chain = "input" /\ Family[a] \in table.rules

-----------------------------------------------------------------------------
(* Once initialize() has returned, and until somebody flushes or removes   *)
(* the table, every address the sets list is dropped, whatever state the   *)
(* table was found in (nftables.py:61-131). A filter chain of that name    *)
(* with another hook is taken for compatible (106) and is the exception.   *)
InitializedMeansEnforcing ==
  init.pc = "ready" /\ ~disturbed =>
    /\ table.sets = Families
    /\ \A a \in table.elements : Dropped(a) \/ table.chain = "other"

(* initialize() reconciles "without destructive re-declarations"           *)
(* (nftables.py:90): no address is released by it.                         *)
InitializeKeepsElements ==
  [][init' # init /\ init'.pc # "idle" => table.elements \subseteq table'.elements]_tableVars
=============================================================================

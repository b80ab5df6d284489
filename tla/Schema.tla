-------------------------------- MODULE Schema --------------------------------
(***************************************************************************)
(* The database schema and its migrations (storage/migrations.py). Every   *)
(* process that opens the database, the daemon as well as each command,    *)
(* brings the schema up to date first. executescript runs in autocommit:   *)
(* each statement of a script is a transaction of its own, so a process    *)
(* may die, or find the database locked, between any two of them, while    *)
(* another runs the same script.                                           *)
(*                                                                         *)
(* Indexes are left out; they are created like the tables they follow.     *)
(***************************************************************************)
EXTENDS Integers, Sequences

CONSTANTS DbUsers       \* processes that open the database

VARIABLES
  tables,    \* the tables there are, schema_version apart
  versions,  \* the rows of schema_version
  opening    \* opening[p]: how far p is: [pc, version, line]

schemaVars == <<tables, versions, opening>>

(* The tables _apply_v1_baseline and _apply_v2_oracle create, in order. *)
Baseline == <<"events", "detections", "threat_actors", "score_history", "bans">>
Oracle ==
  <<"iocs", "incidents", "incident_events", "incident_actors", "incident_iocs",
    "timeline_entries", "response_audits">>
Script == <<Baseline, Oracle>>
CurrentVersion == 2
TablesOf(v) == {Script[v][i] : i \in 1..Len(Script[v])}
AllTables == TablesOf(1) \union TablesOf(2)

Opening == [pc: {"closed", "read", "apply", "open"}, version: 0..CurrentVersion + 1,
            line: 0..8]
Closed == [pc |-> "closed", version |-> 0, line |-> 0]

(* A new database, one of v0.1.3, which had no schema_version yet, one     *)
(* that the first migration was applied to, or a current one.              *)
SchemaInit ==
  /\ \/ tables \in {{}, TablesOf(1)} /\ versions = {}
     \/ tables = TablesOf(1) /\ versions = {1}
     \/ tables = AllTables /\ versions = {1, 2}
  /\ opening = [p \in DbUsers |-> Closed]

SchemaTypeOK ==
  /\ tables \subseteq AllTables
  /\ versions \subseteq 1..CurrentVersion
  /\ opening \in [DbUsers -> Opening]

Proceed(p, o) == opening' = [opening EXCEPT ![p] = o]

(* SQLiteStorage(): the connection is made, the journal mode set, and      *)
(* schema_version created if it is not there.                              *)
OpenDatabase(p) ==
  /\ opening[p].pc = "closed"
  /\ Proceed(p, [Closed EXCEPT !.pc = "read"])
  /\ UNCHANGED <<tables, versions>>

(* From the first statement of the migration after version v on. *)
After(v) ==
  IF v = CurrentVersion THEN [pc |-> "open", version |-> v, line |-> 0]
  ELSE [pc |-> "apply", version |-> v + 1, line |-> 1]

DatabaseVersion == IF versions = {} THEN 0 ELSE CHOOSE v \in versions : \A w \in versions : w <= v

ReadVersion(p) ==
  /\ opening[p].pc = "read"
  /\ Proceed(p, After(DatabaseVersion))
  /\ UNCHANGED <<tables, versions>>

\* Mutant: a script enters its version before it creates its tables.
RunLineVersionFirst(v, i) ==
  IF i = 1 THEN versions' = versions \union {v} /\ UNCHANGED tables
  ELSE tables' = tables \union {Script[v][i - 1]} /\ UNCHANGED versions
(* Line i of script v: CREATE TABLE IF NOT EXISTS, or after the last table *)
(* the version row, INSERT OR IGNORE.                                      *)
RunLine(v, i) ==
  IF i <= Len(Script[v]) THEN tables' = tables \union {Script[v][i]} /\ UNCHANGED versions
  ELSE versions' = versions \union {v} /\ UNCHANGED tables

\* Mutant: the script before the one that was just applied is taken for the current one.
ApplyOnlyOne(o) == IF o.line <= Len(Script[o.version]) THEN [o EXCEPT !.line = @ + 1] ELSE After(CurrentVersion)
(* What comes after a line: the next one, or the next script. *)
NextLine(o) ==
  IF o.line <= Len(Script[o.version]) THEN [o EXCEPT !.line = @ + 1] ELSE After(o.version)

ApplyStatement(p) ==
  /\ opening[p].pc = "apply"
  /\ RunLine(opening[p].version, opening[p].line)
  /\ Proceed(p, NextLine(opening[p]))

(* A statement raises ("database is locked"), or the process is killed. *)
AbortOpening(p) ==
  /\ opening[p].pc \in {"read", "apply"}
  /\ Proceed(p, Closed)
  /\ UNCHANGED <<tables, versions>>

CloseDatabase(p) ==
  /\ opening[p].pc = "open"
  /\ Proceed(p, Closed)
  /\ UNCHANGED <<tables, versions>>

-----------------------------------------------------------------------------
(* A version is entered only when its tables are all there: a migration    *)
(* that was cut off is repeated by the next start (migrations.py:31-37).   *)
VersionIsEarned == \A v \in versions : TablesOf(v) \subseteq tables

(* A process that has opened the database finds every table, whoever       *)
(* created it and whichever starts were cut off before.                    *)
SchemaReady == \A p \in DbUsers : opening[p].pc = "open" => AllTables \subseteq tables
=============================================================================

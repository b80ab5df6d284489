---------------------------- MODULE Investigation ----------------------------
(***************************************************************************)
(* Incidents and indicators of compromise, which three kinds of process    *)
(* read and write through the database, each on a connection of its own:   *)
(*                                                                         *)
(*   Daemon    correlates every event: matches it against the indicators   *)
(*             and files it with an incident (CorrelationEngine);          *)
(*   Analysts  `bastion incident create` and `bastion incident update`;    *)
(*   Curators  `bastion ioc add` and `bastion ioc delete`.                 *)
(*                                                                         *)
(* A step is one storage call and the local work up to the next one.       *)
(* `bastion monitor` builds its pipeline without a correlation engine, so  *)
(* the daemon is the only one that correlates. Left out: titles,           *)
(* summaries, techniques, timestamps (the incident seen last is any of the *)
(* active ones), confidence and tags; incident_events, to which nothing is *)
(* ever written as the pipeline passes no event_id; and the alert          *)
(* deduplication, whose verdict nobody reads.                              *)
(***************************************************************************)
EXTENDS Integers, FiniteSets

CONSTANTS
  IPs, Users,
  Daemon, Analysts, Curators,
  Activity,      \* what one event brings: [ip, user, score, alarms]
  Filings,       \* manual incidents: [severity, actors]
  Requests,      \* statuses an analyst asks for
  Spellings,     \* what a curator types; the canonical values are among them
  Canon,         \* Canon[s]: the value s normalises to, or None if it is invalid
  MaxIncidents, MaxIocs,    \* bounds: rows ever created
  MaxCommands,   \* bound: commands started
  NoRow,         \* a row never inserted
  Deleted,       \* a row inserted and deleted again
  None           \* Python's None

VARIABLES
  incidents,  \* the rows of incidents joined with incident_actors and incident_iocs
  iocs,       \* the rows of iocs
  at,         \* at[p]: where process p is and its local variables
  missed,     \* history: incidents analysts wrote since the daemon's last read
  unseen,     \* history: unseen[p]: values inserted since curator p's look-up
  filed,      \* history: [ip, iocs] of every event that was filed with an incident
  blind,      \* history: values inserted although another insertion was missed
  commands    \* commands started so far

tables == <<incidents, iocs>>
history == <<missed, unseen, filed, blind>>
vars == <<incidents, iocs, at, missed, unseen, filed, blind, commands>>

Procs == {Daemon} \union Analysts \union Curators
IncidentIds == 1..MaxIncidents
IocIds == 1..MaxIocs
IncidentStatus == {"open", "investigating", "contained", "resolved", "closed"}
Severity == {"low", "medium", "high", "critical"}
Values == {Canon[s] : s \in Spellings} \ {None}

(* An actor goes by its address or by the id of its profile. *)
ActorId(i) == <<"actor", i>>
Names == IPs \union {ActorId(i) : i \in IPs}

Incident == [status: IncidentStatus, severity: Severity, risk: 0..100, actors: SUBSET Names,
             iocs: SUBSET IocIds, automated: BOOLEAN]

ASSUME ConstantsOK ==
  /\ Activity \subseteq [ip: IPs, user: Users \union {None}, score: 0..100, alarms: Nat]
  /\ Filings \subseteq [severity: Severity, actors: SUBSET Names]
  /\ Requests \subseteq IncidentStatus
  /\ Canon \in [Spellings -> Spellings \union {None}]
  /\ \A s \in Spellings : Canon[s] # None => Canon[Canon[s]] = Canon[s]
  /\ MaxIncidents \in Nat /\ MaxIocs \in Nat /\ MaxCommands \in Nat
  /\ Daemon \notin Analysts \union Curators
  /\ Analysts \intersect Curators = {}
  /\ {None, NoRow, Deleted} \intersect (IPs \union Spellings \union Incident) = {}
  /\ NoRow # Deleted

Stage == {"idle", "match", "find", "fetch", "open", "update", "status", "add", "search", "delete"}
Frame == [pc: Stage, ip: IPs \union {None}, user: Users \union {None}, score: 0..100, alarms: Nat,
          iocs: SUBSET IocIds, id: Nat, copy: Incident \union {NoRow},
          value: Spellings \union {None}]
Idle == [pc |-> "idle", ip |-> None, user |-> None, score |-> 0, alarms |-> 0, iocs |-> {},
         id |-> 0, copy |-> NoRow, value |-> None]

(* Every variable keeps the shape its declaration gives it. *)
TypeOK ==
  /\ incidents \in [IncidentIds -> Incident \union {NoRow}]
  /\ iocs \in [IocIds -> Values \union {NoRow, Deleted}]
  /\ at \in [Procs -> Frame]
  /\ missed \subseteq IncidentIds
  /\ unseen \in [Curators -> SUBSET Values]
  /\ filed \subseteq [ip: IPs, iocs: SUBSET IocIds]
  /\ blind \subseteq Values
  /\ commands \in Nat

Init ==
  /\ incidents = [n \in IncidentIds |-> NoRow]
  /\ iocs = [k \in IocIds |-> NoRow]
  /\ at = [p \in Procs |-> Idle]
  /\ missed = {}
  /\ unseen = [p \in Curators |-> {}]
  /\ filed = {}
  /\ blind = {}
  /\ commands = 0

Become(p, frame) == at' = [at EXCEPT ![p] = frame]
Return(p) == Become(p, Idle)
-----------------------------------------------------------------------------
(* The storage calls. *)

(* The active indicators that carry a value. *)
LookupActiveIocs(v) == {k \in IocIds : iocs[k] \in Values /\ iocs[k] = v}
\* Mutant: the value is looked up as it was typed.
LookupTyped(s) == LookupActiveIocs(s)
(* What add_ioc looks up: the normalised value, whatever its status. *)
LookupExisting(s) == LookupActiveIocs(Canon[s])

\* Mutant: the links are replaced, too.
SaveIncidentOver(n, row) == incidents' = [incidents EXCEPT ![n] = row]
(* The upsert: the row is replaced, the links of the join tables are added *)
(* to those that are there.                                                *)
SaveIncident(n, row) ==
  incidents' = [incidents EXCEPT ![n] =
    IF @ = NoRow THEN row
    ELSE [row EXCEPT !.actors = @ \union incidents[n].actors,
                     !.iocs = @ \union incidents[n].iocs]]

Involves(n, i) == {i, ActorId(i)} \intersect incidents[n].actors # {}
\* Mutant: an incident under investigation is not found.
FindOpen(i) ==
  {n \in IncidentIds : incidents[n] # NoRow /\ incidents[n].status = "open" /\ Involves(n, i)}
(* The incidents of which find_active_incident_for_actor picks the latest. *)
FindActive(i) ==
  {n \in IncidentIds : /\ incidents[n] # NoRow
                       /\ incidents[n].status \in {"open", "investigating"}
                       /\ Involves(n, i)}

(* Identifiers are random and never used twice. *)
NewIncident == {n \in IncidentIds : incidents[n] = NoRow /\ \A m \in 1..(n-1) : incidents[m] # NoRow}
NewIoc == {k \in IocIds : iocs[k] = NoRow /\ \A j \in 1..(k-1) : iocs[j] # NoRow}

-----------------------------------------------------------------------------
(* The daemon: CorrelationEngine.correlate for one event.                  *)

FromScore(score) ==
  CASE score >= 85 -> "critical"
    [] score >= 70 -> "high"
    [] score >= 40 -> "medium"
    [] OTHER -> "low"

Larger(x, y) == IF x >= y THEN x ELSE y

\* Mutant: the risk score is the latest, not the highest.
MergeLatest(row, f) ==
  [row EXCEPT !.risk = f.score,
              !.severity = IF FromScore(f.score) \in {"high", "critical"} THEN FromScore(f.score)
                           ELSE @,
              !.iocs = @ \union f.iocs]
\* Mutant: the matched indicators are not merged.
MergeNoIocs(row, f) == [MergeLatest(row, f) EXCEPT !.risk = Larger(row.risk, f.score),
                                                   !.iocs = row.iocs]
\* Mutant: new activity opens the incident again.
MergeReopened(row, f) == [MergeLatest(row, f) EXCEPT !.risk = Larger(row.risk, f.score),
                                                     !.status = "open"]
\* Mutant: scores are added up.
MergeAdds(row, f) == [MergeLatest(row, f) EXCEPT !.risk = row.risk + f.score]
(* An incident after the activity of frame f has been merged into it. *)
Merge(row, f) ==
  [row EXCEPT !.risk = Larger(@, f.score),
              !.severity = IF FromScore(f.score) \in {"high", "critical"} THEN FromScore(f.score)
                           ELSE @,
              !.iocs = @ \union f.iocs]

(* Whether activity without an active incident deserves one. *)
ShouldCreate(f) == f.score >= 70 \/ f.alarms >= 2 \/ f.iocs # {}

(* match_event, first half: the source address. *)
MatchAddress ==
  /\ at[Daemon].pc = "idle"
  /\ \E a \in Activity :
       Become(Daemon, [Idle EXCEPT !.pc = "match", !.ip = a.ip, !.user = a.user,
                                   !.score = a.score, !.alarms = a.alarms,
                                   !.iocs = LookupActiveIocs(a.ip)])
  /\ UNCHANGED <<tables, history, commands>>

(* match_event, second half: the account, if the event names one. *)
MatchUser ==
  /\ at[Daemon].pc = "match"
  /\ Become(Daemon, [at[Daemon] EXCEPT !.pc = "find", !.iocs = @ \union LookupActiveIocs(at[Daemon].user)])
  /\ UNCHANGED <<tables, history, commands>>

Find ==
  LET f == at[Daemon] IN
  /\ f.pc = "find"
  /\ \/ \E n \in FindActive(f.ip) : Become(Daemon, [f EXCEPT !.pc = "fetch", !.id = n])
     \/ FindActive(f.ip) = {} /\ ShouldCreate(f) /\ Become(Daemon, [f EXCEPT !.pc = "open"])
     \/ FindActive(f.ip) = {} /\ ~ShouldCreate(f) /\ Return(Daemon)
  /\ missed' = {}
  /\ UNCHANGED <<tables, unseen, filed, blind, commands>>

(* The row and its links, and the update made to the copy. *)
Fetch ==
  LET f == at[Daemon] IN
  /\ f.pc = "fetch"
  /\ Become(Daemon, [f EXCEPT !.pc = "update", !.copy = Merge(incidents[f.id], f)])
  /\ missed' = {}
  /\ UNCHANGED <<tables, unseen, filed, blind, commands>>

(* create_incident as the correlation calls it. *)
OpenIncident ==
  LET f == at[Daemon] IN
  /\ f.pc = "open"
  /\ \E n \in NewIncident :
       /\ SaveIncident(n, [status |-> "open", severity |-> FromScore(f.score), risk |-> f.score,
                           actors |-> {f.ip}, iocs |-> f.iocs, automated |-> TRUE])
  /\ filed' = filed \union {[ip |-> f.ip, iocs |-> f.iocs]}
  /\ missed' = {}
  /\ Return(Daemon)
  /\ UNCHANGED <<iocs, unseen, blind, commands>>

UpdateIncident ==
  LET f == at[Daemon] IN
  /\ f.pc = "update"
  /\ SaveIncident(f.id, f.copy)
  /\ filed' = filed \union {[ip |-> f.ip, iocs |-> f.iocs]}
  /\ missed' = {}
  /\ Return(Daemon)
  /\ UNCHANGED <<iocs, unseen, blind, commands>>

-----------------------------------------------------------------------------
(* The analysts' commands.                                                 *)

(* An analyst writes incident n while the daemon relies on what it read. *)
DaemonMisses(n) ==
  missed' = IF at[Daemon].pc \in {"fetch", "open", "update"} THEN missed \union {n} ELSE missed

Starts(p) == at[p].pc = "idle" /\ commands < MaxCommands /\ commands' = commands + 1

CreateIncident(p) ==
  /\ Starts(p)
  /\ \E n \in NewIncident, r \in Filings :
       /\ SaveIncident(n, [status |-> "open", severity |-> r.severity, risk |-> 0,
                           actors |-> r.actors, iocs |-> {}, automated |-> FALSE])
       /\ DaemonMisses(n)
  /\ UNCHANGED <<iocs, at, unseen, filed, blind>>

(* update_status reads the incident; one that is not there ends the command. *)
ReadForStatus(p) ==
  /\ Starts(p)
  /\ \E n \in {m \in IncidentIds : incidents[m] # NoRow}, s \in Requests :
       Become(p, [Idle EXCEPT !.pc = "status", !.id = n,
                              !.copy = [incidents[n] EXCEPT !.status = s]])
  /\ UNCHANGED <<tables, history>>

WriteStatus(p) ==
  /\ at[p].pc = "status"
  /\ SaveIncident(at[p].id, at[p].copy)
  /\ DaemonMisses(at[p].id)
  /\ Return(p)
  /\ UNCHANGED <<iocs, unseen, filed, blind, commands>>

-----------------------------------------------------------------------------
(* The curators' commands. An invalid value is refused before any call.    *)

AddIoc(p) ==
  /\ Starts(p)
  /\ \E s \in {t \in Spellings : Canon[t] # None} :
       \E k \in IF LookupExisting(s) = {} THEN {0} ELSE LookupExisting(s) :
         Become(p, [Idle EXCEPT !.pc = "add", !.id = k, !.value = Canon[s]])
  /\ unseen' = [unseen EXCEPT ![p] = {}]
  /\ UNCHANGED <<tables, missed, filed, blind>>

(* The upsert: an existing row keeps its value; one that was deleted since *)
(* the look-up is inserted again under its old identifier.                 *)
SaveIoc(p) ==
  LET f == at[p] IN
  /\ f.pc = "add"
  /\ \E k \in IF f.id = 0 THEN NewIoc ELSE {f.id} :
       /\ iocs' = [iocs EXCEPT ![k] = f.value]
       /\ IF iocs[k] = f.value THEN UNCHANGED <<unseen, blind>>
          ELSE /\ unseen' = [q \in Curators |->
                              IF at[q].pc = "add" /\ q # p THEN unseen[q] \union {f.value} ELSE {}]
               /\ blind' = IF f.value \in unseen[p] THEN blind \union {f.value} ELSE blind
  /\ Return(p)
  /\ UNCHANGED <<incidents, missed, filed, commands>>

(* DELETE by identifier or by the value as typed. *)
RowsOf(s) == {k \in IocIds : iocs[k] \in Values /\ iocs[k] = s}
DeleteRows(K) == iocs' = [k \in IocIds |-> IF k \in K THEN Deleted ELSE iocs[k]]

DeleteById(p) ==
  /\ Starts(p)
  /\ \E k \in IocIds : iocs[k] \in Values /\ DeleteRows({k})
  /\ UNCHANGED <<incidents, at, history>>

DeleteByValue(p) ==
  /\ Starts(p)
  /\ \E s \in Spellings :
       IF RowsOf(s) # {} THEN DeleteRows(RowsOf(s)) /\ UNCHANGED at
       ELSE Become(p, [Idle EXCEPT !.pc = "search", !.value = s]) /\ UNCHANGED iocs
  /\ UNCHANGED <<incidents, history>>

(* Nothing deleted: rows with exactly this value, inserted meanwhile, are  *)
(* looked for and deleted by identifier until one of them was.             *)
SearchToDelete(p) ==
  LET found == RowsOf(at[p].value) IN
  /\ at[p].pc = "search"
  /\ IF found = {} THEN Return(p)
     ELSE Become(p, [at[p] EXCEPT !.pc = "delete", !.iocs = found])
  /\ UNCHANGED <<tables, history, commands>>

DeleteFound(p) ==
  LET f == at[p] IN
  /\ f.pc = "delete"
  /\ \E k \in f.iocs :
       IF iocs[k] \in Values THEN DeleteRows({k}) /\ Return(p)
       ELSE /\ UNCHANGED iocs
            /\ IF f.iocs = {k} THEN Return(p) ELSE Become(p, [f EXCEPT !.iocs = @ \ {k}])
  /\ UNCHANGED <<incidents, history, commands>>

-----------------------------------------------------------------------------
(* A call raises, or the process is killed, between two calls: the daemon  *)
(* goes on with its next event, a command is over.                         *)
BreakOff(p) ==
  /\ at[p].pc # "idle"
  /\ Return(p)
  /\ UNCHANGED <<tables, history, commands>>

Correlate == MatchAddress \/ MatchUser \/ Find \/ Fetch \/ OpenIncident \/ UpdateIncident
Analyse(p) == CreateIncident(p) \/ ReadForStatus(p) \/ WriteStatus(p)
Curate(p) ==
  \/ AddIoc(p) \/ SaveIoc(p)
  \/ DeleteById(p) \/ DeleteByValue(p) \/ SearchToDelete(p) \/ DeleteFound(p)

Next ==
  \/ Correlate
  \/ \E p \in Analysts : Analyse(p)
  \/ \E p \in Curators : Curate(p)
  \/ \E p \in Procs : BreakOff(p)

Spec == Init /\ [][Next]_vars

-----------------------------------------------------------------------------
(* Properties.                                                             *)

(* The look-up and the insertion of an incident are two transactions       *)
(* (correlation/engine.py:103, 125). When the daemon is about to open an   *)
(* incident for an address, each active one that already involves the      *)
(* address was opened or reactivated after its look-up.                    *)
OpensOnlyIfNone ==
  at[Daemon].pc = "open" =>
    \A n \in IncidentIds :
      (/\ incidents[n] # NoRow
       /\ incidents[n].status \in {"open", "investigating"}
       /\ {at[Daemon].ip, ActorId(at[Daemon].ip)} \intersect incidents[n].actors # {})
      => n \in missed

(* An analyst's decision is undone only by an overlap: correlation writes  *)
(* the whole row back (engine.py:161), and the status it writes is the     *)
(* row's, unless somebody wrote the row after the daemon fetched it.       *)
StatusIsAnalysts ==
  at[Daemon].pc = "update" =>
    \/ at[Daemon].copy.status = incidents[at[Daemon].id].status
    \/ at[Daemon].id \in missed

(* Evidence is never lost: whatever overlaps, an incident keeps the actors *)
(* and the indicators once linked to it, although every writer holds a     *)
(* copy that may be old.                                                   *)
EvidenceKept ==
  [][\A n \in IncidentIds : incidents[n] # NoRow =>
       /\ incidents'[n] # NoRow
       /\ incidents[n].actors \subseteq incidents'[n].actors
       /\ incidents[n].iocs \subseteq incidents'[n].iocs]_vars

(* Every event that was filed is found again: some incident involves its   *)
(* source and names all the indicators it matched.                         *)
FiledIsOnRecord ==
  \A f \in filed : \E n \in IncidentIds :
    /\ incidents[n] # NoRow
    /\ {f.ip, ActorId(f.ip)} \intersect incidents[n].actors # {}
    /\ f.iocs \subseteq incidents[n].iocs

(* An incident the daemon opened never claims a severity its risk score    *)
(* does not carry, whichever of its copies was written last: severity is   *)
(* the latest high one, the score the highest (engine.py:141-143).         *)
Rank == [s \in Severity |-> CASE s = "low" -> 1 [] s = "medium" -> 2
                              [] s = "high" -> 3 [] s = "critical" -> 4]
SeverityBacked ==
  \A n \in IncidentIds : incidents[n] # NoRow /\ incidents[n].automated =>
    Rank[incidents[n].severity] <= Rank[FromScore(incidents[n].risk)]

(* Two rows carry the same indicator only if somebody inserted it without  *)
(* seeing an insertion that came between its look-up and its own           *)
(* (intelligence/manager.py:45, 71), however the value was spelt.          *)
OneRowPerIndicator ==
  \A j, k \in IocIds : j # k /\ iocs[j] \in Values /\ iocs[j] = iocs[k] => iocs[j] \in blind

=============================================================================

-------------------------- MODULE InvestigationProofs --------------------------
(***************************************************************************)
(* What Investigation guarantees for every value of its constants: any     *)
(* number of analysts, curators, addresses, incidents and indicators.      *)
(***************************************************************************)
EXTENDS Investigation, TLAPS

(* No row is one of the sentinels, and no value is. *)
LEMMA Sentinels ==
  /\ NoRow \notin Incident
  /\ NoRow \notin Values /\ Deleted \notin Values
  /\ Values \subseteq Spellings
BY ConstantsOK DEF Values

LEMMA Processes ==
  /\ Daemon \in Procs /\ Analysts \subseteq Procs /\ Curators \subseteq Procs
  /\ \A p \in Analysts : p # Daemon /\ p \notin Curators
  /\ \A p \in Curators : p # Daemon
BY ConstantsOK DEF Procs

-----------------------------------------------------------------------------
(* The inductive invariant.                                                *)

(* The fields the daemon relies on at each of its steps. *)
DaemonFrame ==
  LET f == at[Daemon] IN
  /\ f.pc \in {"idle", "match", "find", "fetch", "open", "update"}
  /\ f.pc # "idle" => f.ip \in IPs
  /\ f.pc \in {"fetch", "update"} =>
       f.id \in IncidentIds /\ incidents[f.id] # NoRow /\ Involves(f.id, f.ip)
  /\ f.pc = "update" => f.copy \in Incident /\ f.iocs \subseteq f.copy.iocs

AnalystFrames ==
  \A p \in Analysts :
    /\ at[p].pc \in {"idle", "status"}
    /\ at[p].pc = "status" =>
         at[p].id \in IncidentIds /\ incidents[at[p].id] # NoRow /\ at[p].copy \in Incident

CuratorFrames ==
  \A p \in Curators :
    /\ at[p].pc \in {"idle", "add", "search", "delete"}
    /\ at[p].pc = "add" => at[p].id \in IocIds \union {0} /\ at[p].value \in Values

(* The severity of an incident, or of a copy of one, is carried by its score. *)
Backed(row) == row.automated => Rank[row.severity] <= Rank[FromScore(row.risk)]
CopiesBacked == \A p \in Procs : at[p].pc \in {"update", "status"} => Backed(at[p].copy)

(* A curator about to store a value has not seen the rows that carry it,   *)
(* but for the one it will update.                                         *)
InsertionsMissed ==
  \A p \in Curators : at[p].pc = "add" =>
    \A j \in IocIds : iocs[j] = at[p].value /\ j # at[p].id =>
      at[p].value \in unseen[p] \union blind

Frames == DaemonFrame /\ AnalystFrames /\ CuratorFrames
Base == TypeOK /\ Frames
InvestigationInv ==
  /\ Base /\ CopiesBacked /\ InsertionsMissed
  /\ OpensOnlyIfNone /\ StatusIsAnalysts /\ FiledIsOnRecord /\ SeverityBacked
  /\ OneRowPerIndicator

-----------------------------------------------------------------------------
(* Severity grows with the score.                                          *)

LEMMA ScoreSeverity == \A x \in 0..100 : FromScore(x) \in Severity
BY DEF FromScore, Severity

LEMMA SeverityGrows ==
  \A x, y \in 0..100 : x <= y => Rank[FromScore(x)] <= Rank[FromScore(y)]
BY DEF FromScore, Rank, Severity

LEMMA MergeTyping ==
  ASSUME NEW row \in Incident, NEW f \in Frame
  PROVE  /\ Merge(row, f) \in Incident
         /\ Merge(row, f).status = row.status
         /\ row.iocs \union f.iocs = Merge(row, f).iocs
         /\ Merge(row, f).automated = row.automated
         /\ Merge(row, f).risk = Larger(row.risk, f.score)
         /\ Merge(row, f).severity =
              IF FromScore(f.score) \in {"high", "critical"} THEN FromScore(f.score)
              ELSE row.severity
<1>1. f.score \in 0..100 /\ f.iocs \subseteq IocIds
  BY DEF Frame
<1>2. FromScore(f.score) \in Severity
  BY <1>1, ScoreSeverity
<1>3. Larger(row.risk, f.score) \in 0..100
  BY <1>1 DEF Larger, Incident
<1>. QED BY <1>1, <1>2, <1>3 DEF Merge, Incident

LEMMA MergeBacked ==
  ASSUME NEW row \in Incident, NEW f \in Frame, Backed(row)
  PROVE  Backed(Merge(row, f))
<1>1. f.score \in 0..100 /\ row.risk \in 0..100 /\ row.severity \in Severity
  BY DEF Frame, Incident
<1>2. Larger(row.risk, f.score) \in 0..100
      /\ row.risk <= Larger(row.risk, f.score) /\ f.score <= Larger(row.risk, f.score)
  BY <1>1 DEF Larger
<1>3. Rank[FromScore(row.risk)] <= Rank[FromScore(Larger(row.risk, f.score))]
      /\ Rank[FromScore(f.score)] <= Rank[FromScore(Larger(row.risk, f.score))]
  BY <1>1, <1>2, SeverityGrows
<1>4. FromScore(row.risk) \in Severity /\ FromScore(f.score) \in Severity
      /\ FromScore(Larger(row.risk, f.score)) \in Severity
  BY <1>1, <1>2, ScoreSeverity
<1>5. \A s \in Severity : Rank[s] \in Int
  BY DEF Rank, Severity
<1>. QED BY <1>1, <1>3, <1>4, <1>5, MergeTyping DEF Backed

-----------------------------------------------------------------------------
(* What writing an incident does.                                          *)

LEMMA SaveEffect ==
  ASSUME TypeOK, NEW n \in IncidentIds, NEW row \in Incident, SaveIncident(n, row)
  PROVE  /\ incidents' \in [IncidentIds -> Incident \union {NoRow}]
         /\ \A m \in IncidentIds : m # n => incidents'[m] = incidents[m]
         /\ incidents'[n] \in Incident
         /\ incidents'[n].status = row.status /\ incidents'[n].severity = row.severity
         /\ incidents'[n].risk = row.risk /\ incidents'[n].automated = row.automated
         /\ row.actors \subseteq incidents'[n].actors /\ row.iocs \subseteq incidents'[n].iocs
         /\ incidents[n] # NoRow =>
              /\ incidents[n].actors \subseteq incidents'[n].actors
              /\ incidents[n].iocs \subseteq incidents'[n].iocs
<1>1. CASE incidents[n] = NoRow
  <2>1. incidents' = [incidents EXCEPT ![n] = row]
    BY <1>1 DEF SaveIncident, TypeOK
  <2>. QED BY <1>1, <2>1, Sentinels DEF TypeOK
<1>2. CASE incidents[n] # NoRow
  <2>1. incidents[n] \in Incident
    BY <1>2 DEF TypeOK
  <2>2. incidents' = [incidents EXCEPT ![n] =
           [row EXCEPT !.actors = @ \union incidents[n].actors,
                       !.iocs = @ \union incidents[n].iocs]]
    BY <1>2 DEF SaveIncident, TypeOK
  <2>3. [row EXCEPT !.actors = @ \union incidents[n].actors,
                    !.iocs = @ \union incidents[n].iocs] \in Incident
    BY <2>1 DEF Incident
  <2>. QED BY <1>2, <2>1, <2>2, <2>3 DEF TypeOK, Incident
<1>. QED BY <1>1, <1>2

(* Nobody's row disappears and nobody's link does. *)
Grows ==
  \A n \in IncidentIds : incidents[n] # NoRow =>
    /\ incidents'[n] # NoRow
    /\ incidents[n].actors \subseteq incidents'[n].actors
    /\ incidents[n].iocs \subseteq incidents'[n].iocs

LEMMA SaveGrows ==
  ASSUME TypeOK, NEW n \in IncidentIds, NEW row \in Incident, SaveIncident(n, row)
  PROVE  Grows
BY SaveEffect, Sentinels DEF Grows

(* The rows the four writing actions save. *)
NewRow(f) == [status |-> "open", severity |-> FromScore(f.score), risk |-> f.score,
              actors |-> {f.ip}, iocs |-> f.iocs, automated |-> TRUE]
ManualRow(r) == [status |-> "open", severity |-> r.severity, risk |-> 0,
                 actors |-> r.actors, iocs |-> {}, automated |-> FALSE]

LEMMA NewRowTyping ==
  ASSUME Base, at[Daemon].pc = "open"
  PROVE  NewRow(at[Daemon]) \in Incident /\ Backed(NewRow(at[Daemon]))
<1>1. at[Daemon] \in Frame /\ at[Daemon].ip \in IPs
  BY Processes DEF Base, Frames, DaemonFrame, TypeOK
<1>2. at[Daemon].score \in 0..100 /\ at[Daemon].iocs \subseteq IocIds
  BY <1>1 DEF Frame
<1>3. FromScore(at[Daemon].score) \in Severity
  BY <1>2, ScoreSeverity
<1>4. {at[Daemon].ip} \subseteq Names
  BY <1>1 DEF Names
<1>5. \A s \in Severity : Rank[s] \in Int
  BY DEF Rank, Severity
<1>. QED BY <1>2, <1>3, <1>4, <1>5 DEF NewRow, Incident, IncidentStatus, Backed

LEMMA ManualRowTyping ==
  ASSUME NEW r \in Filings
  PROVE  ManualRow(r) \in Incident /\ Backed(ManualRow(r))
<1>1. r.severity \in Severity /\ r.actors \subseteq Names
  BY ConstantsOK
<1>. QED BY <1>1 DEF ManualRow, Incident, IncidentStatus, Backed

-----------------------------------------------------------------------------
(* Types and frames.                                                       *)

LEMMA IdleFrame == Idle \in Frame
BY DEF Idle, Frame, Stage

LEMMA BecomeTyping ==
  ASSUME TypeOK, NEW p \in Procs, NEW frame \in Frame, Become(p, frame)
  PROVE  /\ at' \in [Procs -> Frame]
         /\ at'[p] = frame /\ \A q \in Procs : q # p => at'[q] = at[q]
BY DEF TypeOK, Become

LEMMA ReturnTyping ==
  ASSUME TypeOK, NEW p \in Procs, Return(p)
  PROVE  /\ at' \in [Procs -> Frame]
         /\ at'[p] = Idle /\ \A q \in Procs : q # p => at'[q] = at[q]
BY BecomeTyping, IdleFrame DEF Return

LEMMA SameIncidents == ASSUME incidents' = incidents PROVE Grows
BY DEF Grows

(* A process that does not move keeps what it relies on. *)
LEMMA DaemonStays ==
  ASSUME Base, Grows, at'[Daemon] = at[Daemon]
  PROVE  DaemonFrame'
BY DEF Base, Frames, DaemonFrame, Grows, Involves

LEMMA AnalystsStay ==
  ASSUME Base, Grows, \A p \in Analysts : at'[p] = at[p] \/ at'[p] = Idle
  PROVE  AnalystFrames'
BY DEF Base, Frames, AnalystFrames, Grows, Idle

LEMMA CuratorsStay ==
  ASSUME Base, \A p \in Curators : at'[p] = at[p] \/ at'[p] = Idle
  PROVE  CuratorFrames'
BY DEF Base, Frames, CuratorFrames, Idle

LEMMA CommandTyping ==
  ASSUME TypeOK, NEW p \in Procs, Starts(p)
  PROVE  commands' \in Nat
BY DEF TypeOK, Starts

LEMMA LookupTyping == \A v : LookupActiveIocs(v) \subseteq IocIds
BY DEF LookupActiveIocs

(* The daemon. *)
LEMMA CorrelateBase ==
  ASSUME Base, Correlate
  PROVE  Base' /\ Grows
<1>. USE DEF Base, Frames
<1>1. Daemon \in Procs /\ at[Daemon] \in Frame
  BY Processes DEF TypeOK
<1>2. CASE MatchAddress
  <2>1. PICK a \in Activity :
          Become(Daemon, [Idle EXCEPT !.pc = "match", !.ip = a.ip, !.user = a.user,
                                      !.score = a.score, !.alarms = a.alarms,
                                      !.iocs = LookupActiveIocs(a.ip)])
    BY <1>2 DEF MatchAddress
  <2>2. a.ip \in IPs /\ a.user \in Users \union {None} /\ a.score \in 0..100 /\ a.alarms \in Nat
    BY ConstantsOK
  <2>3. [Idle EXCEPT !.pc = "match", !.ip = a.ip, !.user = a.user, !.score = a.score,
                     !.alarms = a.alarms, !.iocs = LookupActiveIocs(a.ip)] \in Frame
    BY <2>2, LookupTyping, IdleFrame DEF Frame, Stage
  <2>. DEFINE g == [Idle EXCEPT !.pc = "match", !.ip = a.ip, !.user = a.user, !.score = a.score,
                                !.alarms = a.alarms, !.iocs = LookupActiveIocs(a.ip)]
  <2>4. g.pc = "match" /\ g.ip = a.ip
    BY DEF Idle
  <2>5. at' \in [Procs -> Frame] /\ at'[Daemon] = g
        /\ \A q \in Procs : q # Daemon => at'[q] = at[q]
    BY <1>1, <2>1, <2>3, BecomeTyping
  <2>6. TypeOK'
    BY <1>2, <2>5 DEF TypeOK, MatchAddress, tables, history
  <2>7. DaemonFrame'
    BY <2>2, <2>4, <2>5 DEF DaemonFrame
  <2>8. AnalystFrames' /\ CuratorFrames' /\ Grows
    BY <1>2, <2>5, SameIncidents, AnalystsStay, CuratorsStay, Processes DEF MatchAddress, tables
  <2>. QED BY <2>6, <2>7, <2>8
<1>3. CASE MatchUser
  <2>1. [at[Daemon] EXCEPT !.pc = "find", !.iocs = @ \union LookupActiveIocs(at[Daemon].user)]
          \in Frame
    BY <1>1, LookupTyping DEF Frame, Stage
  <2>. DEFINE g == [at[Daemon] EXCEPT !.pc = "find",
                                      !.iocs = @ \union LookupActiveIocs(at[Daemon].user)]
  <2>2. g.pc = "find" /\ g.ip = at[Daemon].ip
    BY <1>1 DEF Frame
  <2>3. at' \in [Procs -> Frame] /\ at'[Daemon] = g
        /\ \A q \in Procs : q # Daemon => at'[q] = at[q]
    BY <1>1, <1>3, <2>1, BecomeTyping DEF MatchUser
  <2>4. TypeOK'
    BY <1>3, <2>3 DEF TypeOK, MatchUser, tables, history
  <2>5. DaemonFrame'
    BY <1>3, <2>2, <2>3 DEF DaemonFrame, MatchUser
  <2>6. AnalystFrames' /\ CuratorFrames' /\ Grows
    BY <1>3, <2>3, SameIncidents, AnalystsStay, CuratorsStay, Processes DEF MatchUser, tables
  <2>. QED BY <2>4, <2>5, <2>6
<1>4. CASE Find
  <2>. DEFINE f == at[Daemon]
  <2>1. CASE \E n \in FindActive(f.ip) : Become(Daemon, [f EXCEPT !.pc = "fetch", !.id = n])
    <3>1. PICK n \in FindActive(f.ip) : Become(Daemon, [f EXCEPT !.pc = "fetch", !.id = n])
      BY <2>1
    <3>2. n \in IncidentIds /\ n \in Nat /\ incidents[n] # NoRow /\ Involves(n, f.ip)
      BY <3>1, ConstantsOK DEF FindActive, IncidentIds
    <3>3. [f EXCEPT !.pc = "fetch", !.id = n] \in Frame
      BY <1>1, <3>2 DEF Frame, Stage
    <3>4. TypeOK' /\ at'[Daemon] = [f EXCEPT !.pc = "fetch", !.id = n]
          /\ \A q \in Procs : q # Daemon => at'[q] = at[q]
      BY <1>1, <1>4, <3>1, <3>3, BecomeTyping DEF TypeOK, Find, tables
    <3>5. at'[Daemon].pc = "fetch" /\ at'[Daemon].ip = f.ip /\ at'[Daemon].id = n /\ f.pc = "find"
      BY <1>1, <1>4, <3>4 DEF Frame, Find
    <3>6. DaemonFrame'
      BY <1>4, <3>2, <3>5 DEF DaemonFrame, Find, tables, Involves
    <3>. QED BY <1>4, <3>4, <3>6, SameIncidents, AnalystsStay, CuratorsStay, Processes
            DEF Find, tables
  <2>2. CASE Become(Daemon, [f EXCEPT !.pc = "open"])
    <3>1. [f EXCEPT !.pc = "open"] \in Frame
      BY <1>1 DEF Frame, Stage
    <3>2. TypeOK' /\ at'[Daemon] = [f EXCEPT !.pc = "open"]
          /\ \A q \in Procs : q # Daemon => at'[q] = at[q]
      BY <1>1, <1>4, <2>2, <3>1, BecomeTyping DEF TypeOK, Find, tables
    <3>3. at'[Daemon].pc = "open" /\ at'[Daemon].ip = f.ip /\ f.pc = "find"
      BY <1>1, <1>4, <3>2 DEF Frame, Find
    <3>. QED BY <1>4, <3>2, <3>3, SameIncidents, AnalystsStay, CuratorsStay, Processes
            DEF DaemonFrame, Find, tables
  <2>3. CASE Return(Daemon)
    <3>1. TypeOK' /\ at'[Daemon] = Idle /\ \A q \in Procs : q # Daemon => at'[q] = at[q]
      BY <1>1, <1>4, <2>3, ReturnTyping DEF TypeOK, Find, tables
    <3>2. at'[Daemon].pc = "idle"
      BY <3>1 DEF Idle
    <3>3. DaemonFrame'
      BY <3>2 DEF DaemonFrame
    <3>. QED BY <1>4, <3>1, <3>3, SameIncidents, AnalystsStay, CuratorsStay, Processes
            DEF Find, tables
  <2>. QED BY <1>4, <2>1, <2>2, <2>3 DEF Find
<1>5. CASE Fetch
  <2>. DEFINE f == at[Daemon]
              g == [f EXCEPT !.pc = "update", !.copy = Merge(incidents[f.id], f)]
  <2>1. incidents[f.id] \in Incident
    BY <1>5 DEF TypeOK, Fetch, DaemonFrame
  <2>2. Merge(incidents[f.id], f) \in Incident /\ f.iocs \subseteq Merge(incidents[f.id], f).iocs
    BY <1>1, <2>1, MergeTyping
  <2>3. g \in Frame
    BY <1>1, <2>2 DEF Frame, Stage
  <2>4. TypeOK' /\ at'[Daemon] = g /\ \A q \in Procs : q # Daemon => at'[q] = at[q]
    BY <1>1, <1>5, <2>3, BecomeTyping DEF TypeOK, Fetch, tables
  <2>5. g.pc = "update" /\ g.ip = f.ip /\ g.id = f.id /\ g.iocs = f.iocs
        /\ g.copy = Merge(incidents[f.id], f)
    BY <1>1 DEF Frame
  <2>6. DaemonFrame'
    BY <1>5, <2>2, <2>4, <2>5 DEF DaemonFrame, Fetch, tables, Involves
  <2>. QED BY <1>5, <2>4, <2>6, SameIncidents, AnalystsStay, CuratorsStay, Processes
          DEF Fetch, tables
<1>6. CASE OpenIncident
  <2>1. NewRow(at[Daemon]) \in Incident /\ at[Daemon].ip \in IPs
    BY <1>6, NewRowTyping DEF OpenIncident, DaemonFrame
  <2>2. PICK n \in NewIncident : SaveIncident(n, NewRow(at[Daemon]))
    BY <1>6 DEF OpenIncident, NewRow
  <2>3. n \in IncidentIds
    BY <2>2 DEF NewIncident
  <2>4. Grows /\ incidents' \in [IncidentIds -> Incident \union {NoRow}]
    BY <2>1, <2>2, <2>3, SaveGrows, SaveEffect
  <2>5. filed' \subseteq [ip: IPs, iocs: SUBSET IocIds]
    BY <1>1, <1>6, <2>1 DEF OpenIncident, TypeOK, Frame
  <2>6. TypeOK' /\ at'[Daemon] = Idle /\ \A q \in Procs : q # Daemon => at'[q] = at[q]
    BY <1>1, <1>6, <2>4, <2>5, ReturnTyping DEF TypeOK, OpenIncident
  <2>. QED BY <2>4, <2>6, AnalystsStay, CuratorsStay, Processes DEF DaemonFrame, Idle
<1>7. CASE UpdateIncident
  <2>1. at[Daemon].copy \in Incident /\ at[Daemon].ip \in IPs /\ at[Daemon].id \in IncidentIds
    BY <1>7 DEF UpdateIncident, DaemonFrame
  <2>2. Grows /\ incidents' \in [IncidentIds -> Incident \union {NoRow}]
    BY <1>7, <2>1, SaveGrows, SaveEffect DEF UpdateIncident
  <2>3. filed' \subseteq [ip: IPs, iocs: SUBSET IocIds]
    BY <1>1, <1>7, <2>1 DEF UpdateIncident, TypeOK, Frame
  <2>4. TypeOK' /\ at'[Daemon] = Idle /\ \A q \in Procs : q # Daemon => at'[q] = at[q]
    BY <1>1, <1>7, <2>2, <2>3, ReturnTyping DEF TypeOK, UpdateIncident
  <2>. QED BY <2>2, <2>4, AnalystsStay, CuratorsStay, Processes DEF DaemonFrame, Idle
<1>. QED BY <1>2, <1>3, <1>4, <1>5, <1>6, <1>7 DEF Correlate

(* An analyst. *)
LEMMA AnalystBase ==
  ASSUME Base, NEW p \in Analysts, Analyse(p)
  PROVE  Base' /\ Grows
<1>. USE DEF Base, Frames
<1>1. p \in Procs /\ at[p] \in Frame /\ p # Daemon /\ p \notin Curators
  BY Processes DEF TypeOK
<1>2. CASE CreateIncident(p)
  <2>1. PICK n \in NewIncident, r \in Filings : SaveIncident(n, ManualRow(r)) /\ DaemonMisses(n)
    BY <1>2 DEF CreateIncident, ManualRow
  <2>2. n \in IncidentIds /\ ManualRow(r) \in Incident
    BY <2>1, ManualRowTyping DEF NewIncident
  <2>3. Grows /\ incidents' \in [IncidentIds -> Incident \union {NoRow}]
    BY <2>1, <2>2, SaveGrows, SaveEffect
  <2>4. missed' \subseteq IncidentIds /\ commands' \in Nat
    BY <1>1, <1>2, <2>1, <2>2, CommandTyping DEF DaemonMisses, TypeOK, CreateIncident
  <2>5. TypeOK'
    BY <1>2, <2>3, <2>4 DEF TypeOK, CreateIncident
  <2>. QED BY <1>2, <2>3, <2>5, DaemonStays, AnalystsStay, CuratorsStay DEF CreateIncident
<1>3. CASE ReadForStatus(p)
  <2>1. PICK n \in {m \in IncidentIds : incidents[m] # NoRow}, s \in Requests :
          Become(p, [Idle EXCEPT !.pc = "status", !.id = n,
                                 !.copy = [incidents[n] EXCEPT !.status = s]])
    BY <1>3 DEF ReadForStatus
  <2>. DEFINE g == [Idle EXCEPT !.pc = "status", !.id = n,
                                !.copy = [incidents[n] EXCEPT !.status = s]]
  <2>2. n \in IncidentIds /\ n \in Nat /\ incidents[n] \in Incident /\ s \in IncidentStatus
    BY <2>1, ConstantsOK DEF IncidentIds, TypeOK
  <2>3. [incidents[n] EXCEPT !.status = s] \in Incident
    BY <2>2 DEF Incident
  <2>4. g \in Frame /\ g.pc = "status" /\ g.id = n /\ g.copy \in Incident
    BY <2>2, <2>3, IdleFrame DEF Frame, Stage, Idle
  <2>5. at' \in [Procs -> Frame] /\ at'[p] = g /\ \A q \in Procs : q # p => at'[q] = at[q]
    BY <1>1, <2>1, <2>4, BecomeTyping
  <2>6. TypeOK'
    BY <1>1, <1>3, <2>5, CommandTyping DEF TypeOK, ReadForStatus, tables, history
  <2>7. incidents' = incidents /\ Grows
    BY <1>3, SameIncidents DEF ReadForStatus, tables
  <2>8. AnalystFrames'
    BY <2>1, <2>2, <2>4, <2>5, <2>7, Processes DEF AnalystFrames
  <2>. QED BY <1>1, <2>5, <2>6, <2>7, <2>8, DaemonStays, CuratorsStay, Processes
<1>4. CASE WriteStatus(p)
  <2>1. at[p].copy \in Incident /\ at[p].id \in IncidentIds
    BY <1>4 DEF WriteStatus, AnalystFrames
  <2>2. Grows /\ incidents' \in [IncidentIds -> Incident \union {NoRow}]
    BY <1>4, <2>1, SaveGrows, SaveEffect DEF WriteStatus
  <2>3. at' \in [Procs -> Frame] /\ at'[p] = Idle /\ \A q \in Procs : q # p => at'[q] = at[q]
    BY <1>1, <1>4, ReturnTyping DEF WriteStatus
  <2>4. missed' \subseteq IncidentIds
    BY <1>4, <2>1 DEF WriteStatus, DaemonMisses, TypeOK
  <2>5. TypeOK'
    BY <1>4, <2>2, <2>3, <2>4 DEF TypeOK, WriteStatus
  <2>. QED BY <1>1, <2>2, <2>3, <2>5, DaemonStays, AnalystsStay, CuratorsStay, Processes
<1>. QED BY <1>2, <1>3, <1>4 DEF Analyse

-----------------------------------------------------------------------------
(* A curator. *)

(* What every command of a curator leaves alone. *)
LEMMA CuratorFrame ==
  ASSUME Base, NEW p \in Curators, Curate(p)
  PROVE  incidents' = incidents /\ missed' = missed /\ filed' = filed
BY DEF Curate, AddIoc, SaveIoc, DeleteById, DeleteByValue, SearchToDelete, DeleteFound,
       tables, history

(* The indicators a deletion leaves. *)
LEMMA DeleteEffect ==
  ASSUME TypeOK, NEW K, DeleteRows(K)
  PROVE  /\ iocs' \in [IocIds -> Values \union {NoRow, Deleted}]
         /\ \A j \in IocIds : iocs'[j] = iocs[j] \/ iocs'[j] = Deleted
BY DEF DeleteRows, TypeOK

LEMMA CanonValues == \A s \in Spellings : Canon[s] # None => Canon[s] \in Values
BY DEF Values

(* How a curator's command moves it, and what it does to the indicators. *)
CuratorMoves(p) ==
  /\ iocs' \in [IocIds -> Values \union {NoRow, Deleted}]
  /\ unseen' \in [Curators -> SUBSET Values]
  /\ blind' \subseteq Values /\ commands' \in Nat
  /\ at' \in [Procs -> Frame]
  /\ at'[p].pc \in {"idle", "add", "search", "delete"}
  /\ at'[p].pc = "add" => at'[p].id \in IocIds \union {0} /\ at'[p].value \in Values
  /\ \A q \in Procs : q # p => at'[q] = at[q]

LEMMA AddMoves ==
  ASSUME Base, NEW p \in Curators, AddIoc(p)
  PROVE  CuratorMoves(p)
<1>. USE DEF Base
<1>1. p \in Procs
  BY Processes
<1>2. PICK s \in {t \in Spellings : Canon[t] # None}, k \in IocIds \union {0} :
        Become(p, [Idle EXCEPT !.pc = "add", !.id = k, !.value = Canon[s]])
  BY LookupTyping DEF AddIoc, LookupExisting
<1>. DEFINE g == [Idle EXCEPT !.pc = "add", !.id = k, !.value = Canon[s]]
<1>3. Canon[s] \in Values /\ Canon[s] \in Spellings /\ k \in Nat
  BY <1>2, CanonValues, Sentinels, ConstantsOK DEF IocIds
<1>4. g \in Frame /\ g.pc = "add" /\ g.id = k /\ g.value = Canon[s]
  BY <1>3, IdleFrame DEF Frame, Stage, Idle
<1>5. at' \in [Procs -> Frame] /\ at'[p] = g /\ \A q \in Procs : q # p => at'[q] = at[q]
  BY <1>1, <1>2, <1>4, BecomeTyping
<1>6. commands' \in Nat
  BY <1>1, CommandTyping DEF AddIoc
<1>. QED BY <1>2, <1>3, <1>4, <1>5, <1>6 DEF CuratorMoves, AddIoc, TypeOK, tables

LEMMA SaveMoves ==
  ASSUME Base, NEW p \in Curators, SaveIoc(p)
  PROVE  CuratorMoves(p)
<1>. USE DEF Base, Frames
<1>. DEFINE f == at[p]
<1>1. p \in Procs /\ f.value \in Values
  BY Processes DEF SaveIoc, CuratorFrames
<1>2. PICK k \in IF f.id = 0 THEN NewIoc ELSE {f.id} :
        /\ iocs' = [iocs EXCEPT ![k] = f.value]
        /\ IF iocs[k] = f.value THEN UNCHANGED <<unseen, blind>>
           ELSE /\ unseen' = [q \in Curators |->
                               IF at[q].pc = "add" /\ q # p THEN unseen[q] \union {f.value} ELSE {}]
                /\ blind' = IF f.value \in unseen[p] THEN blind \union {f.value} ELSE blind
  BY DEF SaveIoc
<1>3. unseen' \in [Curators -> SUBSET Values] /\ blind' \subseteq Values
  BY <1>1, <1>2 DEF TypeOK
<1>4. iocs' \in [IocIds -> Values \union {NoRow, Deleted}]
  BY <1>1, <1>2 DEF TypeOK
<1>5. at' \in [Procs -> Frame] /\ at'[p] = Idle /\ \A q \in Procs : q # p => at'[q] = at[q]
  BY <1>1, ReturnTyping DEF SaveIoc
<1>6. commands' \in Nat
  BY DEF SaveIoc, TypeOK
<1>. QED BY <1>3, <1>4, <1>5, <1>6 DEF CuratorMoves, Idle

LEMMA DeleteByIdMoves ==
  ASSUME Base, NEW p \in Curators, DeleteById(p)
  PROVE  CuratorMoves(p)
<1>. USE DEF Base, Frames
<1>1. p \in Procs
  BY Processes
<1>2. iocs' \in [IocIds -> Values \union {NoRow, Deleted}]
  BY DeleteEffect DEF DeleteById
<1>3. commands' \in Nat
  BY <1>1, CommandTyping DEF DeleteById
<1>. QED BY <1>2, <1>3 DEF CuratorMoves, DeleteById, TypeOK, CuratorFrames, history

LEMMA DeleteByValueMoves ==
  ASSUME Base, NEW p \in Curators, DeleteByValue(p)
  PROVE  CuratorMoves(p)
<1>. USE DEF Base, Frames
<1>1. p \in Procs /\ commands' \in Nat
  BY Processes, CommandTyping DEF DeleteByValue
<1>2. unseen' \in [Curators -> SUBSET Values] /\ blind' \subseteq Values
  BY DEF DeleteByValue, history, TypeOK
<1>3. PICK s \in Spellings :
        IF RowsOf(s) # {} THEN DeleteRows(RowsOf(s)) /\ UNCHANGED at
        ELSE Become(p, [Idle EXCEPT !.pc = "search", !.value = s]) /\ UNCHANGED iocs
  BY DEF DeleteByValue
<1>4. CASE DeleteRows(RowsOf(s)) /\ UNCHANGED at
  BY <1>1, <1>2, <1>4, DeleteEffect DEF CuratorMoves, TypeOK, CuratorFrames
<1>5. CASE Become(p, [Idle EXCEPT !.pc = "search", !.value = s]) /\ UNCHANGED iocs
  <2>. DEFINE g == [Idle EXCEPT !.pc = "search", !.value = s]
  <2>1. g \in Frame /\ g.pc = "search"
    BY IdleFrame DEF Frame, Stage, Idle
  <2>2. at' \in [Procs -> Frame] /\ at'[p] = g /\ \A q \in Procs : q # p => at'[q] = at[q]
    BY <1>1, <1>5, <2>1, BecomeTyping
  <2>. QED BY <1>1, <1>2, <1>5, <2>1, <2>2 DEF CuratorMoves, TypeOK
<1>. QED BY <1>3, <1>4, <1>5

LEMMA SearchMoves ==
  ASSUME Base, NEW p \in Curators, SearchToDelete(p)
  PROVE  CuratorMoves(p)
<1>. USE DEF Base, Frames
<1>1. p \in Procs /\ at[p] \in Frame /\ RowsOf(at[p].value) \subseteq IocIds
  BY Processes DEF TypeOK, RowsOf
<1>. DEFINE g == [at[p] EXCEPT !.pc = "delete", !.iocs = RowsOf(at[p].value)]
<1>2. g \in Frame /\ g.pc = "delete"
  BY <1>1 DEF Frame, Stage
<1>3. Idle.pc = "idle"
  BY DEF Idle
<1>4. /\ at' \in [Procs -> Frame] /\ at'[p].pc \in {"idle", "delete"}
      /\ \A q \in Procs : q # p => at'[q] = at[q]
  BY <1>1, <1>2, <1>3, BecomeTyping, ReturnTyping DEF SearchToDelete
<1>5. UNCHANGED <<iocs, unseen, blind, commands>>
  BY DEF SearchToDelete, tables, history
<1>. QED BY <1>4, <1>5 DEF CuratorMoves, TypeOK

LEMMA DeleteFoundMoves ==
  ASSUME Base, NEW p \in Curators, DeleteFound(p)
  PROVE  CuratorMoves(p)
<1>. USE DEF Base, Frames
<1>. DEFINE f == at[p]
<1>1. p \in Procs /\ f \in Frame
  BY Processes DEF TypeOK
<1>2. PICK k \in f.iocs :
        IF iocs[k] \in Values THEN DeleteRows({k}) /\ Return(p)
        ELSE /\ UNCHANGED iocs
             /\ IF f.iocs = {k} THEN Return(p) ELSE Become(p, [f EXCEPT !.iocs = @ \ {k}])
  BY DEF DeleteFound
<1>3. [f EXCEPT !.iocs = @ \ {k}] \in Frame /\ [f EXCEPT !.iocs = @ \ {k}].pc = "delete"
  BY <1>1 DEF Frame, DeleteFound
<1>4. Idle.pc = "idle"
  BY DEF Idle
<1>5. /\ at' \in [Procs -> Frame] /\ at'[p].pc \in {"idle", "delete"}
      /\ \A q \in Procs : q # p => at'[q] = at[q]
  BY <1>1, <1>2, <1>3, <1>4, BecomeTyping, ReturnTyping
<1>6. iocs' \in [IocIds -> Values \union {NoRow, Deleted}]
  BY <1>2, DeleteEffect DEF TypeOK
<1>7. UNCHANGED <<unseen, blind, commands>>
  BY DEF DeleteFound, history
<1>. QED BY <1>5, <1>6, <1>7 DEF CuratorMoves, TypeOK

LEMMA Moves ==
  ASSUME Base, NEW p \in Curators, Curate(p)
  PROVE  CuratorMoves(p)
BY AddMoves, SaveMoves, DeleteByIdMoves, DeleteByValueMoves, SearchMoves, DeleteFoundMoves
   DEF Curate

LEMMA CuratorBase ==
  ASSUME Base, NEW p \in Curators, Curate(p)
  PROVE  Base' /\ Grows
<1>. USE DEF Base, Frames
<1>1. CuratorMoves(p) /\ UNCHANGED <<incidents, missed, filed>> /\ Grows
  BY Moves, CuratorFrame, SameIncidents
<1>2. TypeOK'
  BY <1>1 DEF TypeOK, CuratorMoves
<1>3. CuratorFrames'
  BY <1>1, Processes DEF CuratorFrames, CuratorMoves
<1>4. DaemonFrame' /\ AnalystFrames'
  BY <1>1, DaemonStays, AnalystsStay, Processes DEF CuratorMoves
<1>. QED BY <1>1, <1>2, <1>3, <1>4

-----------------------------------------------------------------------------
(* Every step keeps types and frames, and lets the incidents grow.         *)

LEMMA BreakBase ==
  ASSUME Base, NEW p \in Procs, BreakOff(p)
  PROVE  Base' /\ Grows
<1>. USE DEF Base, Frames
<1>1. at' \in [Procs -> Frame] /\ at'[p] = Idle /\ \A q \in Procs : q # p => at'[q] = at[q]
  BY ReturnTyping DEF BreakOff
<1>2. TypeOK' /\ Grows
  BY <1>1, SameIncidents DEF TypeOK, BreakOff, tables, history
<1>3. DaemonFrame'
  <2>1. CASE p = Daemon
    BY <1>1, <2>1 DEF DaemonFrame, Idle
  <2>2. CASE p # Daemon
    BY <1>1, <1>2, <2>2, DaemonStays, Processes
  <2>. QED BY <2>1, <2>2
<1>4. AnalystFrames' /\ CuratorFrames'
  BY <1>1, <1>2, AnalystsStay, CuratorsStay, Processes
<1>. QED BY <1>2, <1>3, <1>4

LEMMA StepBase ==
  ASSUME Base, [Next]_vars
  PROVE  Base' /\ Grows
<1>1. CASE UNCHANGED vars
  BY <1>1 DEF vars, Base, Frames, TypeOK, DaemonFrame, AnalystFrames, CuratorFrames, Involves,
              Grows
<1>. QED BY <1>1, CorrelateBase, AnalystBase, CuratorBase, BreakBase DEF Next

LEMMA InitBase == Init => Base
<1>. SUFFICES ASSUME Init PROVE Base
  OBVIOUS
<1>1. TypeOK
  BY IdleFrame DEF Init, TypeOK
<1>2. Frames
  BY Processes DEF Init, Idle, Frames, DaemonFrame, AnalystFrames, CuratorFrames
<1>. QED BY <1>1, <1>2 DEF Base

-----------------------------------------------------------------------------
(* What the daemon relies on while analysts write: the incidents it has    *)
(* not seen are the missed ones.                                           *)

Reliance == OpensOnlyIfNone /\ StatusIsAnalysts

LEMMA RelianceStays ==
  ASSUME Reliance, at'[Daemon] = at[Daemon], incidents' = incidents, missed' = missed
  PROVE  Reliance'
BY DEF Reliance, OpensOnlyIfNone, StatusIsAnalysts

LEMMA RelianceFree ==
  ASSUME at'[Daemon].pc \notin {"open", "update"}
  PROVE  Reliance'
BY DEF Reliance, OpensOnlyIfNone, StatusIsAnalysts

LEMMA RelianceMisses ==
  ASSUME Base, Reliance, NEW n \in IncidentIds, NEW row \in Incident,
         SaveIncident(n, row), DaemonMisses(n), at'[Daemon] = at[Daemon]
  PROVE  Reliance'
<1>1. \A m \in IncidentIds : m # n => incidents'[m] = incidents[m]
  BY SaveEffect DEF Base
<1>2. at[Daemon].pc \in {"open", "update"} => missed' = missed \union {n}
  BY DEF DaemonMisses
<1>3. at[Daemon].pc = "update" => at[Daemon].id \in IncidentIds
  BY DEF Base, Frames, DaemonFrame
<1>. QED BY <1>1, <1>2, <1>3 DEF Reliance, OpensOnlyIfNone, StatusIsAnalysts

LEMMA CorrelateReliance ==
  ASSUME Base, Reliance, Correlate
  PROVE  Reliance'
<1>. USE DEF Base
<1>1. Daemon \in Procs /\ at[Daemon] \in Frame /\ Idle.pc = "idle"
  BY Processes DEF TypeOK, Idle
<1>2. CASE MatchAddress
  <2>1. at'[Daemon].pc = "match"
    BY <1>1, <1>2 DEF MatchAddress, Become, TypeOK, Idle
  <2>. QED BY <2>1, RelianceFree
<1>3. CASE MatchUser
  <2>1. at'[Daemon].pc = "find"
    BY <1>1, <1>3 DEF MatchUser, Become, TypeOK, Frame
  <2>. QED BY <2>1, RelianceFree
<1>4. CASE Find
  <2>. DEFINE f == at[Daemon]
  <2>1. CASE FindActive(f.ip) = {} /\ Become(Daemon, [f EXCEPT !.pc = "open"])
    <3>1. at'[Daemon].pc = "open" /\ at'[Daemon].ip = f.ip
      BY <1>1, <2>1 DEF Become, TypeOK, Frame
    <3>. QED BY <1>4, <2>1, <3>1
            DEF Reliance, OpensOnlyIfNone, StatusIsAnalysts, FindActive, Involves, Find, tables
  <2>2. CASE \E n \in FindActive(f.ip) : Become(Daemon, [f EXCEPT !.pc = "fetch", !.id = n])
    <3>1. at'[Daemon].pc = "fetch"
      BY <1>1, <2>2 DEF Become, TypeOK, Frame
    <3>. QED BY <3>1, RelianceFree
  <2>3. CASE Return(Daemon)
    <3>1. at'[Daemon].pc = "idle"
      BY <1>1, <2>3, ReturnTyping
    <3>. QED BY <3>1, RelianceFree
  <2>. QED BY <1>4, <2>1, <2>2, <2>3 DEF Find
<1>5. CASE Fetch
  <2>. DEFINE f == at[Daemon]
              g == [f EXCEPT !.pc = "update", !.copy = Merge(incidents[f.id], f)]
  <2>1. incidents[f.id] \in Incident
    BY <1>5 DEF TypeOK, Fetch, Frames, DaemonFrame
  <2>2. Merge(incidents[f.id], f).status = incidents[f.id].status
    BY <1>1, <2>1, MergeTyping
  <2>3. g.pc = "update" /\ g.id = f.id /\ g.copy = Merge(incidents[f.id], f)
    BY <1>1 DEF Frame
  <2>4. at'[Daemon] = g /\ incidents' = incidents
    BY <1>1, <1>5 DEF Fetch, tables, Become, TypeOK
  <2>. QED BY <2>2, <2>3, <2>4 DEF Reliance, OpensOnlyIfNone, StatusIsAnalysts
<1>6. CASE OpenIncident \/ UpdateIncident
  <2>1. at'[Daemon].pc = "idle"
    BY <1>1, <1>6, ReturnTyping DEF OpenIncident, UpdateIncident
  <2>. QED BY <2>1, RelianceFree
<1>. QED BY <1>2, <1>3, <1>4, <1>5, <1>6 DEF Correlate

LEMMA AnalystReliance ==
  ASSUME Base, Reliance, NEW p \in Analysts, Analyse(p)
  PROVE  Reliance'
<1>. USE DEF Base
<1>1. p \in Procs /\ Daemon \in Procs /\ p # Daemon
  BY Processes
<1>2. CASE CreateIncident(p)
  <2>1. PICK n \in NewIncident, r \in Filings : SaveIncident(n, ManualRow(r)) /\ DaemonMisses(n)
    BY <1>2 DEF CreateIncident, ManualRow
  <2>2. n \in IncidentIds /\ ManualRow(r) \in Incident /\ at' = at
    BY <1>2, <2>1, ManualRowTyping DEF NewIncident, CreateIncident
  <2>. QED BY <2>1, <2>2, RelianceMisses
<1>3. CASE ReadForStatus(p)
  <2>1. at'[Daemon] = at[Daemon]
    BY <1>1, <1>3 DEF ReadForStatus, Become, TypeOK
  <2>. QED BY <1>3, <2>1, RelianceStays DEF ReadForStatus, tables, history
<1>4. CASE WriteStatus(p)
  <2>1. at[p].copy \in Incident /\ at[p].id \in IncidentIds
    BY <1>4 DEF WriteStatus, Frames, AnalystFrames
  <2>2. at'[Daemon] = at[Daemon]
    BY <1>1, <1>4, ReturnTyping DEF WriteStatus
  <2>. QED BY <1>4, <2>1, <2>2, RelianceMisses DEF WriteStatus
<1>. QED BY <1>2, <1>3, <1>4 DEF Analyse

LEMMA StepReliance ==
  ASSUME Base, Reliance, [Next]_vars
  PROVE  Reliance'
<1>1. CASE UNCHANGED vars
  BY <1>1, RelianceStays DEF vars
<1>2. ASSUME NEW p \in Curators, Curate(p) PROVE Reliance'
  BY <1>2, CuratorFrame, Moves, RelianceStays, Processes DEF CuratorMoves
<1>3. ASSUME NEW p \in Procs, BreakOff(p) PROVE Reliance'
  <2>1. at'[p] = Idle /\ (p # Daemon => at'[Daemon] = at[Daemon])
    BY <1>3, ReturnTyping, Processes DEF BreakOff, Base
  <2>2. CASE p = Daemon
    BY <2>1, <2>2, RelianceFree DEF Idle
  <2>3. CASE p # Daemon
    BY <1>3, <2>1, <2>3, RelianceStays DEF BreakOff, tables, history
  <2>. QED BY <2>2, <2>3
<1>. QED BY <1>1, <1>2, <1>3, CorrelateReliance, AnalystReliance DEF Next

-----------------------------------------------------------------------------
(* Filed events stay on record.                                            *)

LEMMA StepFiled ==
  ASSUME Base, FiledIsOnRecord, [Next]_vars
  PROVE  FiledIsOnRecord'
<1>. USE DEF Base, Frames
<1>1. Grows
  BY StepBase
<1>2. CASE filed' = filed
  BY <1>1, <1>2 DEF FiledIsOnRecord, Grows
<1>. DEFINE f == at[Daemon]
<1>3. CASE OpenIncident
  <2>1. NewRow(f) \in Incident /\ NewRow(f).actors = {f.ip} /\ NewRow(f).iocs = f.iocs
    BY <1>3, NewRowTyping DEF OpenIncident, NewRow
  <2>2. PICK n \in NewIncident : SaveIncident(n, NewRow(f))
    BY <1>3 DEF OpenIncident, NewRow
  <2>3. n \in IncidentIds
    BY <2>2 DEF NewIncident
  <2>4. incidents'[n] # NoRow /\ f.ip \in incidents'[n].actors /\ f.iocs \subseteq incidents'[n].iocs
    BY <2>1, <2>2, <2>3, SaveEffect, Sentinels
  <2>5. filed' = filed \union {[ip |-> f.ip, iocs |-> f.iocs]}
    BY <1>3 DEF OpenIncident
  <2>. QED BY <1>1, <2>3, <2>4, <2>5 DEF FiledIsOnRecord, Grows
<1>4. CASE UpdateIncident
  <2>1. f.id \in IncidentIds /\ f.copy \in Incident /\ f.iocs \subseteq f.copy.iocs
        /\ incidents[f.id] # NoRow /\ Involves(f.id, f.ip) /\ SaveIncident(f.id, f.copy)
    BY <1>4 DEF UpdateIncident, DaemonFrame
  <2>2. incidents'[f.id] # NoRow /\ f.iocs \subseteq incidents'[f.id].iocs
        /\ incidents[f.id].actors \subseteq incidents'[f.id].actors
    BY <2>1, SaveEffect, Sentinels
  <2>3. {f.ip, ActorId(f.ip)} \intersect incidents'[f.id].actors # {}
    BY <2>1, <2>2 DEF Involves
  <2>4. filed' = filed \union {[ip |-> f.ip, iocs |-> f.iocs]}
    BY <1>4 DEF UpdateIncident
  <2>. QED BY <1>1, <2>1, <2>2, <2>3, <2>4 DEF FiledIsOnRecord, Grows
<1>5. CASE UNCHANGED vars
  BY <1>2, <1>5 DEF vars
<1>6. CASE MatchAddress \/ MatchUser \/ Find \/ Fetch
  BY <1>2, <1>6 DEF MatchAddress, MatchUser, Find, Fetch, history
<1>7. ASSUME NEW p \in Analysts, Analyse(p) PROVE filed' = filed
  BY <1>7 DEF Analyse, CreateIncident, ReadForStatus, WriteStatus, history
<1>8. ASSUME NEW p \in Procs, BreakOff(p) PROVE filed' = filed
  BY <1>8 DEF BreakOff, history
<1>. QED BY <1>2, <1>3, <1>4, <1>5, <1>6, <1>7, <1>8, CuratorFrame DEF Next, Correlate

-----------------------------------------------------------------------------
(* Severity is carried by the score, in every row and every copy.          *)

RowsBacked == \A n \in IncidentIds : incidents[n] # NoRow => Backed(incidents[n])
AllBacked == RowsBacked /\ CopiesBacked

LEMMA RowsAreSeverity == RowsBacked <=> SeverityBacked
BY DEF RowsBacked, Backed, SeverityBacked

LEMMA SaveBacked ==
  ASSUME Base, RowsBacked, NEW n \in IncidentIds, NEW row \in Incident, Backed(row),
         SaveIncident(n, row)
  PROVE  RowsBacked'
BY SaveEffect DEF Base, RowsBacked, Backed

(* A step that moves one process, to a frame without a copy or with a      *)
(* backed one, keeps the copies backed.                                    *)
LEMMA CopiesStay ==
  ASSUME CopiesBacked,
         \A q \in Procs : \/ at'[q] = at[q]
                          \/ at'[q].pc \notin {"update", "status"}
                          \/ Backed(at'[q].copy)
  PROVE  CopiesBacked'
BY DEF CopiesBacked, Backed

LEMMA CorrelateBacked ==
  ASSUME Base, AllBacked, Correlate
  PROVE  AllBacked'
<1>. USE DEF Base, AllBacked
<1>1. Daemon \in Procs /\ at[Daemon] \in Frame /\ Idle.pc = "idle"
  BY Processes DEF TypeOK, Idle
<1>2. ASSUME incidents' = incidents PROVE RowsBacked'
  BY <1>2 DEF RowsBacked
<1>3. CASE MatchAddress
  <2>1. \A q \in Procs : at'[q] = at[q] \/ at'[q].pc = "match"
    BY <1>1, <1>3 DEF MatchAddress, Become, TypeOK, Idle
  <2>. QED BY <1>2, <1>3, <2>1, CopiesStay DEF MatchAddress, tables
<1>4. CASE MatchUser
  <2>1. \A q \in Procs : at'[q] = at[q] \/ at'[q].pc = "find"
    BY <1>1, <1>4 DEF MatchUser, Become, TypeOK, Frame
  <2>. QED BY <1>2, <1>4, <2>1, CopiesStay DEF MatchUser, tables
<1>5. CASE Find
  <2>1. \A q \in Procs : at'[q] = at[q] \/ at'[q].pc \in {"fetch", "open", "idle"}
    BY <1>1, <1>5 DEF Find, Become, Return, TypeOK, Frame
  <2>. QED BY <1>2, <1>5, <2>1, CopiesStay DEF Find, tables
<1>6. CASE Fetch
  <2>. DEFINE f == at[Daemon]
              g == [f EXCEPT !.pc = "update", !.copy = Merge(incidents[f.id], f)]
  <2>1. incidents[f.id] \in Incident /\ Backed(incidents[f.id])
    BY <1>6 DEF TypeOK, Fetch, Frames, DaemonFrame, RowsBacked
  <2>2. Backed(Merge(incidents[f.id], f))
    BY <1>1, <2>1, MergeBacked
  <2>3. g.copy = Merge(incidents[f.id], f)
    BY <1>1 DEF Frame
  <2>4. at'[Daemon] = g /\ \A q \in Procs : q # Daemon => at'[q] = at[q]
    BY <1>1, <1>6 DEF Fetch, Become, TypeOK
  <2>5. \A q \in Procs : at'[q] = at[q] \/ Backed(at'[q].copy)
    BY <2>2, <2>3, <2>4
  <2>. QED BY <1>2, <1>6, <2>5, CopiesStay DEF Fetch, tables
<1>7. CASE OpenIncident
  <2>1. NewRow(at[Daemon]) \in Incident /\ Backed(NewRow(at[Daemon]))
    BY <1>7, NewRowTyping DEF OpenIncident
  <2>2. PICK n \in NewIncident : SaveIncident(n, NewRow(at[Daemon]))
    BY <1>7 DEF OpenIncident, NewRow
  <2>3. RowsBacked'
    BY <2>1, <2>2, SaveBacked DEF NewIncident
  <2>4. \A q \in Procs : at'[q] = at[q] \/ at'[q].pc = "idle"
    BY <1>1, <1>7, ReturnTyping DEF OpenIncident
  <2>. QED BY <2>3, <2>4, CopiesStay
<1>8. CASE UpdateIncident
  <2>1. at[Daemon].copy \in Incident /\ at[Daemon].id \in IncidentIds /\ Backed(at[Daemon].copy)
    BY <1>1, <1>8 DEF UpdateIncident, Frames, DaemonFrame, CopiesBacked
  <2>2. RowsBacked'
    BY <1>8, <2>1, SaveBacked DEF UpdateIncident
  <2>3. \A q \in Procs : at'[q] = at[q] \/ at'[q].pc = "idle"
    BY <1>1, <1>8, ReturnTyping DEF UpdateIncident
  <2>. QED BY <2>2, <2>3, CopiesStay
<1>. QED BY <1>3, <1>4, <1>5, <1>6, <1>7, <1>8 DEF Correlate

LEMMA AnalystBacked ==
  ASSUME Base, AllBacked, NEW p \in Analysts, Analyse(p)
  PROVE  AllBacked'
<1>. USE DEF Base, AllBacked
<1>1. p \in Procs /\ Idle.pc = "idle"
  BY Processes DEF Idle
<1>2. CASE CreateIncident(p)
  <2>1. PICK n \in NewIncident, r \in Filings : SaveIncident(n, ManualRow(r))
    BY <1>2 DEF CreateIncident, ManualRow
  <2>2. n \in IncidentIds /\ ManualRow(r) \in Incident /\ Backed(ManualRow(r)) /\ at' = at
    BY <1>2, <2>1, ManualRowTyping DEF NewIncident, CreateIncident
  <2>3. RowsBacked'
    BY <2>1, <2>2, SaveBacked
  <2>. QED BY <2>2, <2>3, CopiesStay
<1>3. CASE ReadForStatus(p)
  <2>1. PICK n \in {m \in IncidentIds : incidents[m] # NoRow}, s \in Requests :
          Become(p, [Idle EXCEPT !.pc = "status", !.id = n,
                                 !.copy = [incidents[n] EXCEPT !.status = s]])
    BY <1>3 DEF ReadForStatus
  <2>. DEFINE row == [incidents[n] EXCEPT !.status = s]
  <2>2. incidents[n] \in Incident /\ Backed(incidents[n])
    BY <2>1 DEF TypeOK, RowsBacked
  <2>3. Backed(row)
    BY <2>2 DEF Incident, Backed
  <2>4. at'[p].copy = row /\ \A q \in Procs : q # p => at'[q] = at[q]
    BY <1>1, <2>1 DEF Become, TypeOK, Idle
  <2>5. \A q \in Procs : at'[q] = at[q] \/ Backed(at'[q].copy)
    BY <2>3, <2>4
  <2>6. RowsBacked'
    BY <1>3 DEF ReadForStatus, tables, RowsBacked
  <2>. QED BY <2>5, <2>6, CopiesStay
<1>4. CASE WriteStatus(p)
  <2>1. at[p].copy \in Incident /\ at[p].id \in IncidentIds /\ Backed(at[p].copy)
    BY <1>1, <1>4 DEF WriteStatus, Frames, AnalystFrames, CopiesBacked
  <2>2. RowsBacked'
    BY <1>4, <2>1, SaveBacked DEF WriteStatus
  <2>3. \A q \in Procs : at'[q] = at[q] \/ at'[q].pc = "idle"
    BY <1>1, <1>4, ReturnTyping DEF WriteStatus
  <2>. QED BY <2>2, <2>3, CopiesStay
<1>. QED BY <1>2, <1>3, <1>4 DEF Analyse

LEMMA StepBacked ==
  ASSUME Base, AllBacked, [Next]_vars
  PROVE  AllBacked'
<1>. USE DEF AllBacked
<1>1. ASSUME incidents' = incidents,
             \A q \in Procs : at'[q] = at[q] \/ at'[q].pc \notin {"update", "status"}
      PROVE  AllBacked'
  BY <1>1, CopiesStay DEF RowsBacked
<1>2. CASE UNCHANGED vars
  BY <1>1, <1>2 DEF vars
<1>3. ASSUME NEW p \in Curators, Curate(p) PROVE AllBacked'
  BY <1>1, <1>3, CuratorFrame, Moves DEF CuratorMoves
<1>4. ASSUME NEW p \in Procs, BreakOff(p) PROVE AllBacked'
  BY <1>1, <1>4, ReturnTyping DEF BreakOff, tables, Base, Idle
<1>. QED BY <1>2, <1>3, <1>4, CorrelateBacked, AnalystBacked DEF Next

-----------------------------------------------------------------------------
(* One row per indicator, but for insertions nobody could see.             *)

OneRow == OneRowPerIndicator /\ InsertionsMissed

LEMMA OneRowStays ==
  ASSUME OneRow, unseen' = unseen, blind' = blind,
         \A j \in IocIds : iocs'[j] = iocs[j] \/ iocs'[j] = Deleted,
         \A p \in Curators : at'[p] = at[p] \/ at'[p].pc # "add",
         Base
  PROVE  OneRow'
<1>1. \A p \in Curators : at[p].pc = "add" => at[p].value \in Values
  BY DEF Base, Frames, CuratorFrames
<1>. QED BY <1>1, Sentinels DEF OneRow, OneRowPerIndicator, InsertionsMissed

LEMMA AddOneRow ==
  ASSUME Base, OneRow, NEW p \in Curators, AddIoc(p)
  PROVE  OneRow'
<1>. USE DEF Base
<1>1. p \in Procs
  BY Processes
<1>2. PICK s \in {t \in Spellings : Canon[t] # None} :
        \E k \in IF LookupExisting(s) = {} THEN {0} ELSE LookupExisting(s) :
          Become(p, [Idle EXCEPT !.pc = "add", !.id = k, !.value = Canon[s]])
  BY DEF AddIoc
<1>. PICK k \in IF LookupExisting(s) = {} THEN {0} ELSE LookupExisting(s) :
       Become(p, [Idle EXCEPT !.pc = "add", !.id = k, !.value = Canon[s]])
  BY <1>2
<1>3. at'[p].id = k /\ at'[p].value = Canon[s] /\ \A q \in Procs : q # p => at'[q] = at[q]
  BY <1>1, <1>2 DEF Become, TypeOK, Idle
<1>4. Canon[s] \in Values
  BY <1>2, CanonValues
<1>5. UNCHANGED <<iocs, blind>> /\ unseen' = [unseen EXCEPT ![p] = {}]
  BY DEF AddIoc, tables
<1>6. \A j \in IocIds : iocs[j] = Canon[s] /\ j # k => Canon[s] \in blind
  <2>1. LookupExisting(s) = {j \in IocIds : iocs[j] = Canon[s]}
    BY <1>4 DEF LookupExisting, LookupActiveIocs
  <2>. QED BY <1>2, <1>4, <2>1 DEF OneRow, OneRowPerIndicator
<1>7. InsertionsMissed'
  <2>1. ASSUME NEW q \in Curators, at'[q].pc = "add", NEW j \in IocIds,
               iocs'[j] = at'[q].value, j # at'[q].id
        PROVE  at'[q].value \in unseen'[q] \union blind'
    <3>1. CASE q = p
      BY <1>3, <1>5, <1>6, <2>1, <3>1
    <3>2. CASE q # p
      BY <1>3, <1>5, <2>1, <3>2, Processes DEF OneRow, InsertionsMissed, TypeOK
    <3>. QED BY <3>1, <3>2
  <2>. QED BY <2>1 DEF InsertionsMissed
<1>8. OneRowPerIndicator'
  BY <1>5 DEF OneRow, OneRowPerIndicator
<1>. QED BY <1>7, <1>8 DEF OneRow

LEMMA SaveOneRow ==
  ASSUME Base, OneRow, NEW p \in Curators, SaveIoc(p)
  PROVE  OneRow'
<1>. USE DEF Base
<1>. DEFINE v == at[p].value
<1>1. p \in Procs /\ at[p].pc = "add" /\ v \in Values /\ at[p].id \in IocIds \union {0}
  BY Processes DEF SaveIoc, Frames, CuratorFrames
<1>2. at'[p].pc = "idle" /\ \A q \in Procs : q # p => at'[q] = at[q]
  BY <1>1, ReturnTyping DEF SaveIoc, Idle
<1>3. PICK k \in IF at[p].id = 0 THEN NewIoc ELSE {at[p].id} :
        /\ iocs' = [iocs EXCEPT ![k] = v]
        /\ IF iocs[k] = v THEN UNCHANGED <<unseen, blind>>
           ELSE /\ unseen' = [q \in Curators |->
                               IF at[q].pc = "add" /\ q # p THEN unseen[q] \union {v} ELSE {}]
                /\ blind' = IF v \in unseen[p] THEN blind \union {v} ELSE blind
  BY DEF SaveIoc
<1>4. k \in IocIds /\ at[p].id \in {0, k} /\ 0 \notin IocIds
  BY <1>1, <1>3 DEF NewIoc, IocIds
<1>5. iocs'[k] = v /\ \A j \in IocIds : j # k => iocs'[j] = iocs[j]
  BY <1>3, <1>4 DEF TypeOK
<1>6. CASE iocs[k] = v
  <2>1. \A j \in IocIds : iocs'[j] = iocs[j]
    BY <1>5, <1>6
  <2>2. UNCHANGED <<unseen, blind>>
    BY <1>3, <1>6
  <2>3. \A q \in Curators : at'[q] = at[q] \/ at'[q].pc # "add"
    BY <1>2, Processes
  <2>. QED BY <2>1, <2>2, <2>3, OneRowStays
<1>7. CASE iocs[k] # v
  <2>1. /\ unseen' = [q \in Curators |->
                       IF at[q].pc = "add" /\ q # p THEN unseen[q] \union {v} ELSE {}]
        /\ blind' = IF v \in unseen[p] THEN blind \union {v} ELSE blind
    BY <1>3, <1>7
  <2>2. \A j \in IocIds : j # k /\ iocs[j] = v => v \in blind'
    BY <1>1, <1>4, <2>1 DEF OneRow, InsertionsMissed
  <2>3. OneRowPerIndicator'
    BY <1>5, <2>1, <2>2 DEF OneRow, OneRowPerIndicator
  <2>4. ASSUME NEW q \in Curators, at'[q].pc = "add", NEW j \in IocIds,
               iocs'[j] = at'[q].value, j # at'[q].id
        PROVE  at'[q].value \in unseen'[q] \union blind'
    <3>1. q # p /\ at'[q] = at[q]
      BY <1>2, <2>4, Processes
    <3>2. unseen'[q] = unseen[q] \union {v} /\ blind \subseteq blind'
      BY <2>1, <2>4, <3>1
    <3>3. CASE j = k
      BY <1>5, <2>4, <3>2, <3>3
    <3>4. CASE j # k
      BY <1>5, <2>4, <3>1, <3>2, <3>4 DEF OneRow, InsertionsMissed
    <3>. QED BY <3>3, <3>4
  <2>. QED BY <2>3, <2>4 DEF OneRow, InsertionsMissed
<1>. QED BY <1>6, <1>7

LEMMA CurateOneRow ==
  ASSUME Base, OneRow, NEW p \in Curators, Curate(p)
  PROVE  OneRow'
<1>. USE DEF Base
<1>1. p \in Procs /\ Idle.pc = "idle"
  BY Processes DEF Idle
<1>2. ASSUME UNCHANGED <<unseen, blind>>, iocs' = iocs \/ \E K : DeleteRows(K),
             at'[p] = at[p] \/ at'[p].pc # "add"
      PROVE  OneRow'
  <2>1. \A j \in IocIds : iocs'[j] = iocs[j] \/ iocs'[j] = Deleted
    BY <1>2, DeleteEffect
  <2>2. \A q \in Curators : at'[q] = at[q] \/ at'[q].pc # "add"
    BY <1>2, Moves, Processes DEF CuratorMoves
  <2>. QED BY <1>2, <2>1, <2>2, OneRowStays
<1>3. CASE DeleteById(p)
  BY <1>2, <1>3 DEF DeleteById, history
<1>4. CASE DeleteByValue(p)
  <2>1. at'[p] = at[p] \/ at'[p].pc # "add"
    BY <1>1, <1>4 DEF DeleteByValue, Become, TypeOK, Idle
  <2>2. UNCHANGED <<unseen, blind>> /\ (iocs' = iocs \/ \E K : DeleteRows(K))
    BY <1>4 DEF DeleteByValue, history
  <2>. QED BY <1>2, <2>1, <2>2
<1>5. CASE SearchToDelete(p)
  <2>1. at[p] \in Frame
    BY <1>1 DEF TypeOK
  <2>2. at'[p].pc # "add"
    BY <1>1, <1>5, <2>1 DEF SearchToDelete, Become, Return, TypeOK, Frame
  <2>. QED BY <1>2, <1>5, <2>2 DEF SearchToDelete, tables, history
<1>6. CASE DeleteFound(p)
  <2>1. at[p] \in Frame /\ at[p].pc = "delete"
    BY <1>1, <1>6 DEF TypeOK, DeleteFound
  <2>2. at'[p].pc # "add"
    BY <1>1, <1>6, <2>1 DEF DeleteFound, Become, Return, TypeOK, Frame
  <2>3. UNCHANGED <<unseen, blind>> /\ (iocs' = iocs \/ \E K : DeleteRows(K))
    BY <1>6 DEF DeleteFound, history
  <2>. QED BY <1>2, <2>2, <2>3
<1>. QED BY <1>3, <1>4, <1>5, <1>6, AddOneRow, SaveOneRow DEF Curate

LEMMA StepOneRow ==
  ASSUME Base, OneRow, [Next]_vars
  PROVE  OneRow'
<1>1. ASSUME UNCHANGED <<iocs, unseen, blind>>,
             \A q \in Curators : at'[q] = at[q] \/ at'[q].pc # "add"
      PROVE  OneRow'
  BY <1>1, OneRowStays
<1>2. CASE UNCHANGED vars
  BY <1>1, <1>2 DEF vars
<1>3. CASE Correlate
  <2>1. \A q \in Procs : q # Daemon => at'[q] = at[q]
    BY <1>3, Processes
       DEF Correlate, MatchAddress, MatchUser, Find, Fetch, OpenIncident, UpdateIncident,
           Become, Return, Base, TypeOK
  <2>2. UNCHANGED <<iocs, unseen, blind>>
    BY <1>3 DEF Correlate, MatchAddress, MatchUser, Find, Fetch, OpenIncident, UpdateIncident,
                tables, history
  <2>. QED BY <1>1, <2>1, <2>2, Processes
<1>4. ASSUME NEW p \in Analysts, Analyse(p) PROVE OneRow'
  <2>1. p \in Procs /\ p \notin Curators
    BY Processes
  <2>2. \A q \in Procs : q # p => at'[q] = at[q]
    BY <1>4, <2>1
       DEF Analyse, CreateIncident, ReadForStatus, WriteStatus, Become, Return, Base, TypeOK
  <2>3. UNCHANGED <<iocs, unseen, blind>>
    BY <1>4 DEF Analyse, CreateIncident, ReadForStatus, WriteStatus, tables, history
  <2>. QED BY <1>1, <2>1, <2>2, <2>3, Processes
<1>5. ASSUME NEW p \in Procs, BreakOff(p) PROVE OneRow'
  <2>1. \A q \in Procs : at'[q] = at[q] \/ at'[q].pc = "idle"
    BY <1>5, ReturnTyping DEF BreakOff, Base, Idle
  <2>. QED BY <1>1, <1>5, <2>1, Processes DEF BreakOff, tables, history
<1>. QED BY <1>2, <1>3, <1>4, <1>5, CurateOneRow DEF Next

-----------------------------------------------------------------------------
(* The theorems.                                                           *)

LEMMA Initially == Init => InvestigationInv
<1>. SUFFICES ASSUME Init PROVE InvestigationInv
  OBVIOUS
<1>1. Base
  BY InitBase
<1>2. \A p \in Procs : at[p].pc = "idle"
  BY DEF Init, Idle
<1>3. \A n \in IncidentIds : incidents[n] = NoRow
  BY DEF Init
<1>4. \A k \in IocIds : iocs[k] \notin Values
  BY Sentinels DEF Init
<1>5. OpensOnlyIfNone /\ StatusIsAnalysts /\ CopiesBacked /\ InsertionsMissed
  BY <1>2, Processes DEF OpensOnlyIfNone, StatusIsAnalysts, CopiesBacked, InsertionsMissed
<1>6. FiledIsOnRecord /\ SeverityBacked /\ OneRowPerIndicator
  BY <1>3, <1>4 DEF Init, FiledIsOnRecord, SeverityBacked, OneRowPerIndicator
<1>. QED BY <1>1, <1>5, <1>6 DEF InvestigationInv

LEMMA Inductive == InvestigationInv /\ [Next]_vars => InvestigationInv'
<1>. SUFFICES ASSUME InvestigationInv, [Next]_vars PROVE InvestigationInv'
  OBVIOUS
<1>1. Base /\ Reliance /\ FiledIsOnRecord /\ AllBacked /\ OneRow
  BY RowsAreSeverity DEF InvestigationInv, Reliance, AllBacked, OneRow
<1>2. Base' /\ Reliance' /\ FiledIsOnRecord' /\ AllBacked' /\ OneRow'
  BY <1>1, StepBase, StepReliance, StepFiled, StepBacked, StepOneRow
<1>3. SeverityBacked'
  BY <1>2 DEF AllBacked, RowsBacked, Backed, SeverityBacked
<1>. QED BY <1>2, <1>3 DEF InvestigationInv, Reliance, AllBacked, OneRow

(* Whatever the daemon, the analysts and the curators do on their own      *)
(* connections, killed between any two calls, every reachable state        *)
(* satisfies the inductive invariant.                                      *)
THEOREM InvestigationInvariant == Spec => []InvestigationInv
<1>. QED BY Initially, Inductive, PTL DEF Spec

(* The rows of incidents and iocs and the locals of every command keep     *)
(* their types; a risk score stays between 0 and 100 through every merge.  *)
THEOREM TypeCorrect == Spec => []TypeOK
<1>1. InvestigationInv => TypeOK
  BY DEF InvestigationInv, Base
<1>. QED BY <1>1, InvestigationInvariant, PTL

(* The gap between find_active_incident_for_actor and create_incident is   *)
(* the only way to a second active incident for an address.                *)
THEOREM SecondIncidentOnlyByOverlap == Spec => []OpensOnlyIfNone
<1>1. InvestigationInv => OpensOnlyIfNone
  BY DEF InvestigationInv
<1>. QED BY <1>1, InvestigationInvariant, PTL

(* Correlation, which writes the whole row back, undoes an analyst's       *)
(* status only if it was written after correlation fetched the row.        *)
THEOREM StatusUndoneOnlyByOverlap == Spec => []StatusIsAnalysts
<1>1. InvestigationInv => StatusIsAnalysts
  BY DEF InvestigationInv
<1>. QED BY <1>1, InvestigationInvariant, PTL

(* Every event that correlation filed is on record for good, with its      *)
(* source and all its indicators, in some incident.                        *)
THEOREM FiledStaysOnRecord == Spec => []FiledIsOnRecord
<1>1. InvestigationInv => FiledIsOnRecord
  BY DEF InvestigationInv
<1>. QED BY <1>1, InvestigationInvariant, PTL

(* Whatever order stale copies are written in, an automated incident's     *)
(* severity is one its risk score carries.                                 *)
THEOREM SeverityIsBacked == Spec => []SeverityBacked
<1>1. InvestigationInv => SeverityBacked
  BY DEF InvestigationInv
<1>. QED BY <1>1, InvestigationInvariant, PTL

(* An indicator has two rows only if one insertion missed another between  *)
(* add_ioc's look-up and its save.                                         *)
THEOREM DuplicateOnlyByOverlap == Spec => []OneRowPerIndicator
<1>1. InvestigationInv => OneRowPerIndicator
  BY DEF InvestigationInv
<1>. QED BY <1>1, InvestigationInvariant, PTL

(* The saves of three kinds of process, each of a copy that may be old,    *)
(* never lose an actor or an indicator of an incident.                     *)
THEOREM EvidencePersists == Spec => EvidenceKept
<1>1. InvestigationInv /\ [Next]_vars =>
        [\A n \in IncidentIds : incidents[n] # NoRow =>
           /\ incidents'[n] # NoRow
           /\ incidents[n].actors \subseteq incidents'[n].actors
           /\ incidents[n].iocs \subseteq incidents'[n].iocs]_vars
  BY StepBase DEF InvestigationInv, Grows
<1>. QED BY <1>1, InvestigationInvariant, PTL DEF Spec, EvidenceKept

=============================================================================

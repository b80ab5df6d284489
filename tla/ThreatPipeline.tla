---------------------------- MODULE ThreatPipeline ----------------------------
(***************************************************************************)
(* From an authentication event to the decision to isolate its source: the *)
(* events table, the sliding windows of the four behavioural detectors,    *)
(* the risk score, the response policy and the failure counter in the      *)
(* threat_actors row.                                                      *)
(*                                                                         *)
(*   Pipelines  processes that run a SentinelPipeline: the daemon and      *)
(*              `bastion monitor`. Each has detectors of its own, in       *)
(*              memory; they share the database.                           *)
(*   Rewriters  everybody else who reads a threat_actors row and writes    *)
(*              the whole row back: the expiry sweep, `ban` and `unban`.   *)
(*                                                                         *)
(* A step is one storage call and the local work up to the next one.       *)
(***************************************************************************)
EXTENDS Integers, Sequences, FiniteSets

CONSTANTS
  IPs, Users,       \* source addresses and account names
  Pipelines, Rewriters,
  Traffic,          \* what a line may say: [kind, invalid, user]
  Times,            \* timestamps a line may carry
  Skew,             \* how far one stream's timestamps may run backwards
  Window,           \* Window[d]: seconds a detector looks back
  Threshold,        \* Threshold[d]: events (distinct accounts for password_spray)
  MaxPerUser,       \* password_spray: attempts per account at most
  IocScores,        \* what the matched IOCs of one event may add to the score
  Trusted,          \* RiskScoringConfig.trusted_ips
  Allowlisted,      \* addresses within PolicyConfig.allowlist_cidrs
  RepeatAfter,      \* failures that make a repeat offender (15 in the code)
  PermanentAfter,   \* failures a permanent ban asks for (30 in the code)
  IsolateAt,        \* PolicyConfig.isolation_threshold
  MaxEvents,        \* bound: rows of the events table
  MaxFaults,        \* bound: events abandoned and pipelines restarted, in all
  None              \* Python's None

VARIABLES
  events,   \* the events table; a row is known by its number
  window,   \* window[p][d][i]: the deque of detector d of pipeline p for i
  seen,     \* history: rows the running pipeline p has shown its detectors
  actor,    \* actor[i]: auth_failures in the threat_actors row, or NoRow
  at,       \* at[p]: where process p is and its local variables
  faults    \* faults so far

vars == <<events, window, seen, actor, at, faults>>

Detectors == {"brute_force", "password_spray", "username_enumeration", "burst_velocity"}
Kinds == {"auth_failure", "invalid_user", "auth_success", "connection"}
Procs == Pipelines \union Rewriters
NoRow == -1
Decisions == {"none", "temporary_isolation", "permanent_ban"}
Isolating == {"temporary_isolation", "permanent_ban"}

Line == [kind: Kinds, invalid: BOOLEAN, user: Users \union {None}]

ASSUME ConstantsOK ==
  /\ Traffic \subseteq Line /\ Times \subseteq Nat /\ Skew \in Nat
  /\ Window \in [Detectors -> Nat \ {0}] /\ Threshold \in [Detectors -> Nat \ {0}]
  /\ MaxPerUser \in Nat /\ IocScores \subseteq Nat
  /\ Trusted \subseteq IPs /\ Allowlisted \subseteq IPs
  /\ RepeatAfter \in Nat /\ PermanentAfter \in Nat /\ IsolateAt \in 0..100
  /\ MaxEvents \in Nat /\ MaxFaults \in Nat
  /\ Pipelines \intersect Rewriters = {}
  /\ None \notin IPs

Event == [ip: IPs, kind: Kinds, invalid: BOOLEAN, user: Users \union {None}, time: Nat]

Stage == {"idle", "match", "score", "respond", "respondWrite", "save", "rewrite"}
Frame == [pc: Stage, ip: IPs \union {None}, event: Nat, signals: SUBSET Detectors, ioc: Nat,
          decision: Decisions, failures: Nat, read: Nat \union {NoRow}]
Idle == [pc |-> "idle", ip |-> None, event |-> 0, signals |-> {}, ioc |-> 0,
         decision |-> "none", failures |-> 0, read |-> NoRow]

(* Every variable keeps the shape its declaration gives it. *)
TypeOK ==
  /\ events \in Seq(Event)
  /\ window \in [Pipelines -> [Detectors -> [IPs -> SUBSET (1..Len(events))]]]
  /\ seen \in [Pipelines -> SUBSET (1..Len(events))]
  /\ actor \in [IPs -> Nat \union {NoRow}]
  /\ at \in [Procs -> Frame]
  /\ faults \in Nat

Init ==
  /\ events = <<>>
  /\ window = [p \in Pipelines |-> [d \in Detectors |-> [i \in IPs |-> {}]]]
  /\ seen = [p \in Pipelines |-> {}]
  /\ actor = [i \in IPs |-> NoRow]
  /\ at = [p \in Procs |-> Idle]
  /\ faults = 0

Become(p, frame) == at' = [at EXCEPT ![p] = frame]

-----------------------------------------------------------------------------
(* The detectors. A deque holds events in order of arrival, each once, so  *)
(* it is the set of their row numbers, its left end the smallest of them.  *)

IsFailure(e) == events[e].kind \in {"auth_failure", "invalid_user"}

(* Which events a detector counts. *)
Counts(d, e) ==
  CASE d = "username_enumeration" -> events[e].kind = "invalid_user" \/ events[e].invalid
    [] d = "password_spray" -> IsFailure(e) /\ events[e].user # None
    [] OTHER -> IsFailure(e)

\* Mutant: nothing leaves the window.
ExpireNothing(Q, cutoff) == Q
\* Mutant: the window excludes its oldest instant.
ExpireAtCutoff(Q, cutoff) == {n \in Q : \E m \in Q : m <= n /\ events[m].time > cutoff}
(* Pops from the left while the leftmost event lies before the cutoff. *)
ExpireOld(Q, cutoff) == {n \in Q : \E m \in Q : m <= n /\ events[m].time >= cutoff}

(* The deque of d after event e of the same source. *)
Observe(d, Q, e) ==
  ExpireOld(IF Counts(d, e) THEN Q \union {e} ELSE Q, events[e].time - Window[d])

By(Q, u) == {n \in Q : events[n].user = u}
UsersOf(Q) == {events[n].user : n \in Q}

(* The verdict over a deque, taken apart by what speaks for an alarm (many *)
(* events, many accounts) and against it (too many attempts per account).  *)
Alarm(d, for, against) ==
  IF d = "password_spray"
    THEN /\ Cardinality(UsersOf(for)) >= Threshold[d]
         /\ \A u \in Users : Cardinality(By(against, u)) <= MaxPerUser
    ELSE Cardinality(for) >= Threshold[d]

-----------------------------------------------------------------------------
(* Risk score and policy. *)

Lesser(a, b) == IF a < b THEN a ELSE b
Clamp(n) == IF n < 0 THEN 0 ELSE Lesser(n, 100)
When(cond, n) == IF cond THEN n ELSE 0

\* Mutant: what the detectors report counts whether or not they triggered.
SignalScoreAll(signals) == 85
SignalScore(signals) ==
  When("brute_force" \in signals, 20) + When("password_spray" \in signals, 20)
    + When("username_enumeration" \in signals, 20) + When("burst_velocity" \in signals, 25)

(* `before` failures were on record when event e came, `after` with it. *)
ThreatScore(e, before, after, signals, ioc) ==
  Clamp(Lesser(30, 5 * after)
    + When(events[e].kind = "invalid_user" \/ events[e].invalid, 10)
    + SignalScore(signals)
    + When(before >= RepeatAfter, 15)
    + ioc
    - When(events[e].kind = "auth_success", 10))

(* Rate limiting and monitoring are advice: they change no state. *)
Decide(i, score, failures) ==
  CASE i \in Allowlisted -> "none"
    [] i \notin Allowlisted /\ score >= 100 /\ failures >= PermanentAfter -> "permanent_ban"
    [] i \notin Allowlisted /\ score >= IsolateAt
         /\ ~(score >= 100 /\ failures >= PermanentAfter) -> "temporary_isolation"
    [] OTHER -> "none"

\* Mutant: a missing row is not replaced by a fresh one.
StoredAsIs(row) == row
Stored(row) == IF row = NoRow THEN 0 ELSE row

\* Mutant: every event of the source is charged to it.
ChargeAlways(i, e, before) == before + 1
(* The failures on record once event e is counted. *)
Charge(i, e, before) == IF i \notin Trusted /\ IsFailure(e) THEN before + 1 ELSE before

-----------------------------------------------------------------------------
(* SentinelPipeline.process_raw *)

(* A line becomes an event and a row. Timestamps come from the line, or    *)
(* from the clock when it has none, so they need not arrive in order.      *)
Receive(p, i, line, t) ==
  /\ at[p].pc = "idle" /\ Len(events) < MaxEvents
  /\ \A n \in seen[p] : t >= events[n].time - Skew
  /\ events' = Append(events, [ip |-> i, kind |-> line.kind, invalid |-> line.invalid,
                               user |-> line.user, time |-> t])
  /\ Become(p, [Idle EXCEPT !.pc = "match", !.ip = i, !.event = Len(events) + 1])
  /\ UNCHANGED <<window, seen, actor, faults>>

(* The IOC look-up, then every detector. *)
Evaluate(p, ioc) ==
  LET e == at[p].event
      i == at[p].ip
      after == [d \in Detectors |-> Observe(d, window[p][d][i], e)]
  IN /\ at[p].pc = "match"
     /\ window' = [window EXCEPT ![p] = [d \in Detectors |-> [@[d] EXCEPT ![i] = after[d]]]]
     /\ seen' = [seen EXCEPT ![p] = @ \union {e}]
     /\ Become(p, [at[p] EXCEPT !.pc = "score", !.ioc = ioc,
          !.signals = {d \in Detectors : Counts(d, e) /\ Alarm(d, after[d], after[d])}])
     /\ UNCHANGED <<events, actor, faults>>

(* The row is read, scored and judged; the new profile is not stored yet. *)
Score(p) ==
  LET e == at[p].event
      i == at[p].ip
      before == Stored(actor[i])
      after == Charge(i, e, before)
      score == IF i \in Trusted THEN 0
               ELSE ThreatScore(e, before, after, at[p].signals, at[p].ioc)
      decision == Decide(i, score, after)
  IN /\ at[p].pc = "score"
     /\ Become(p, [at[p] EXCEPT !.pc = IF decision \in Isolating THEN "respond" ELSE "save",
                                !.decision = decision, !.failures = after])
     /\ UNCHANGED <<events, window, seen, actor, faults>>

(* A disabled engine, or a ban in force, leaves the row alone. *)
RespondSkips(p) ==
  /\ at[p].pc = "respond"
  /\ Become(p, [at[p] EXCEPT !.pc = "save"])
  /\ UNCHANGED <<events, window, seen, actor, faults>>

(* create_ban (module BanLifecycle) reads the row and writes it back, or *)
(* starts a row that has counted nothing.                                *)
RespondReads(p) ==
  /\ at[p].pc = "respond"
  /\ Become(p, [at[p] EXCEPT !.pc = "respondWrite", !.read = actor[at[p].ip]])
  /\ UNCHANGED <<events, window, seen, actor, faults>>

RespondWrites(p) ==
  /\ at[p].pc = "respondWrite"
  /\ actor' = [actor EXCEPT ![at[p].ip] = Stored(at[p].read)]
  /\ Become(p, [at[p] EXCEPT !.pc = "save"])
  /\ UNCHANGED <<events, window, seen, faults>>

SaveProfile(p) ==
  /\ at[p].pc = "save"
  /\ actor' = [actor EXCEPT ![at[p].ip] = at[p].failures]
  /\ Become(p, Idle)
  /\ UNCHANGED <<events, window, seen, faults>>

Fault == faults < MaxFaults /\ faults' = faults + 1

(* A call raises; the stream loop logs it and drops the event. *)
Abandon(p) ==
  /\ at[p].pc # "idle" /\ Fault
  /\ Become(p, Idle)
  /\ UNCHANGED <<events, window, seen, actor>>

(* The process dies and is started again, with empty detectors. *)
Restart(p) ==
  /\ Fault
  /\ window' = [window EXCEPT ![p] = [d \in Detectors |-> [i \in IPs |-> {}]]]
  /\ seen' = [seen EXCEPT ![p] = {}]
  /\ Become(p, Idle)
  /\ UNCHANGED <<events, actor>>

-----------------------------------------------------------------------------
(* Whole-row writes by others: unban and check_expirations rewrite a row   *)
(* that exists, create_ban makes a missing one.                            *)

RewriteReads(x, i) ==
  /\ at[x].pc = "idle"
  /\ Become(x, [Idle EXCEPT !.pc = "rewrite", !.ip = i, !.read = actor[i]])
  /\ UNCHANGED <<events, window, seen, actor, faults>>

RewriteWrites(x) ==
  /\ at[x].pc = "rewrite"
  /\ actor' = [actor EXCEPT ![at[x].ip] = Stored(at[x].read)]
  /\ Become(x, Idle)
  /\ UNCHANGED <<events, window, seen, faults>>

RewriteSkips(x) ==
  /\ at[x].pc = "rewrite" /\ at[x].read = NoRow
  /\ Become(x, Idle)
  /\ UNCHANGED <<events, window, seen, actor, faults>>

-----------------------------------------------------------------------------
PipelineStep(p) ==
  \/ \E i \in IPs, line \in Traffic, t \in Times : Receive(p, i, line, t)
  \/ \E ioc \in IocScores : Evaluate(p, ioc)
  \/ Score(p) \/ RespondSkips(p) \/ RespondReads(p) \/ RespondWrites(p) \/ SaveProfile(p)
  \/ Abandon(p) \/ Restart(p)

RewriterStep(x) ==
  (\E i \in IPs : RewriteReads(x, i)) \/ RewriteWrites(x) \/ RewriteSkips(x)

Next == (\E p \in Pipelines : PipelineStep(p)) \/ (\E x \in Rewriters : RewriterStep(x))

Spec == Init /\ [][Next]_vars

-----------------------------------------------------------------------------
(* What the detectors may be relied on for. *)

Rows == 1..Len(events)
FailuresOf(i) == {n \in Rows : IsFailure(n) /\ events[n].ip = i}
Judged(p) == at[p].pc \in {"score", "respond", "respondWrite", "save"}

(* Rows that detector d may count against event e: those of the same       *)
(* source, up to e, within the window give or take the skew.               *)
MayCount(d, e) ==
  {n \in 1..e : /\ Counts(d, n) /\ events[n].ip = events[e].ip
                /\ events[n].time >= events[e].time - Window[d] - Skew
                /\ events[n].time <= events[e].time + Skew}

(* Rows that it must count: those it was shown that no later event of the  *)
(* source has put outside the window.                                      *)
MustCount(d, p, i) ==
  {n \in seen[p] : /\ Counts(d, n) /\ events[n].ip = i
                   /\ \A m \in seen[p] : events[m].ip = i =>
                        events[n].time >= events[m].time - Window[d]}

(* No false alarm: a detector that triggers has its evidence in the events *)
(* table, whatever the order of timestamps, the restarts and the failures. *)
Sound(p) ==
  \A d \in at[p].signals : Alarm(d, MayCount(d, at[p].event), MustCount(d, p, at[p].ip))
SignalsSound == \A p \in Pipelines : Judged(p) => Sound(p)

(* No missed alarm: when the events a pipeline was shown and that are      *)
(* still in the window are enough, the detector triggers.                  *)
Complete(p) ==
  \A d \in Detectors :
    Counts(d, at[p].event) /\ Alarm(d, MustCount(d, p, at[p].ip), MayCount(d, at[p].event))
      => d \in at[p].signals
SignalsComplete == \A p \in Pipelines : Judged(p) => Complete(p)

(* Whole rows are read, held and written back by several processes, and    *)
(* updates get lost; but nobody is ever charged with more failures than    *)
(* the events table has.                                                   *)
FailuresBacked == \A i \in IPs : Stored(actor[i]) <= Cardinality(FailuresOf(i))

(* What the score can reach on failures, invalid names and history alone.  *)
WithoutSignals == 30 + 10 + 15

(* An isolation has a reason that can be looked up: an IOC match or the    *)
(* rows a detector counted; a permanent one has its failures on record;    *)
(* trusted and allowlisted sources are never isolated.                     *)
Justified(p) ==
  at[p].decision \in Isolating /\ IsolateAt > WithoutSignals =>
    /\ at[p].ip \notin Trusted \union Allowlisted
    /\ \/ at[p].ioc > 0
       \/ \E d \in Detectors :
            Alarm(d, MayCount(d, at[p].event), MustCount(d, p, at[p].ip))
    /\ at[p].decision = "permanent_ban" => PermanentAfter <= Cardinality(FailuresOf(at[p].ip))
IsolationJustified == \A p \in Pipelines : Judged(p) => Justified(p)

-----------------------------------------------------------------------------
(* Why they hold. An event that is saved but not scored yet is pending; a  *)
(* counter never exceeds the failures that are not pending, so charging    *)
(* the event of this pipeline keeps it below the failures on record. And a *)
(* deque always lies between MustCount and what was shown and counts.      *)

Pending(p) == at[p].pc \in {"match", "score"}
Scored(i) == {n \in FailuresOf(i) : \A p \in Pipelines : Pending(p) => at[p].event # n}

FrameOK(p) ==
  /\ at[p].pc # "rewrite"
  /\ at[p].pc # "idle" =>
       at[p].ip \in IPs /\ at[p].event \in Rows /\ events[at[p].event].ip = at[p].ip
  /\ Pending(p) =>
       /\ at[p].decision = "none"
       /\ \A q \in Pipelines : Pending(q) /\ at[q].event = at[p].event => q = p

StreamOK(p) ==
  /\ \A m, n \in seen[p] : m < n => events[n].time >= events[m].time - Skew
  /\ at[p].pc = "match" => \A m \in seen[p] :
       m < at[p].event /\ events[at[p].event].time >= events[m].time - Skew

WindowOK(p) ==
  \A d \in Detectors, i \in IPs :
    /\ window[p][d][i] \subseteq {n \in seen[p] : Counts(d, n) /\ events[n].ip = i}
    /\ MustCount(d, p, i) \subseteq window[p][d][i]

CounterOK ==
  /\ \A i \in IPs : Stored(actor[i]) <= Cardinality(Scored(i))
  /\ \A p \in Pipelines : at[p].pc \in {"respond", "respondWrite", "save"} =>
       at[p].failures <= Cardinality(Scored(at[p].ip))
  /\ \A x \in Procs : at[x].pc \in {"respondWrite", "rewrite"} =>
       at[x].ip \in IPs /\ Stored(at[x].read) <= Cardinality(Scored(at[x].ip))
  /\ \A x \in Rewriters : at[x].pc \in {"idle", "rewrite"}

PipelineInv ==
  /\ TypeOK
  /\ \A p \in Pipelines : FrameOK(p) /\ StreamOK(p) /\ WindowOK(p)
  /\ SignalsSound /\ SignalsComplete /\ IsolationJustified
  /\ CounterOK
=============================================================================

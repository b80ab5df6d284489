------------------------- MODULE ThreatPipelineProofs -------------------------
(***************************************************************************)
(* What ThreatPipeline guarantees for every value of its constants.        *)
(***************************************************************************)
EXTENDS ThreatPipeline, FiniteSetTheorems, TLAPS

-----------------------------------------------------------------------------
(* Finite sets of rows, and the alarm over them. *)

(* A larger finite set has no fewer elements. *)
LEMMA CardinalityGrows ==
  ASSUME NEW S, NEW T, S \subseteq T, IsFiniteSet(T)
  PROVE  /\ IsFiniteSet(S) /\ Cardinality(S) \in Nat /\ Cardinality(T) \in Nat
         /\ Cardinality(S) <= Cardinality(T)
BY FS_Subset, FS_CardinalityType

(* Every set of rows is finite, and so is the set of their accounts. *)
LEMMA RowsFinite ==
  ASSUME TypeOK, NEW S, S \subseteq Rows
  PROVE  IsFiniteSet(S) /\ IsFiniteSet(UsersOf(S))
<1>1. Len(events) \in Nat
  BY DEF TypeOK
<1>2. IsFiniteSet(Rows)
  BY <1>1, FS_Interval DEF Rows
<1>3. IsFiniteSet(S)
  BY <1>2, FS_Subset
<1>. DEFINE user == [n \in S |-> events[n].user]
<1>4. user \in Surjection(S, UsersOf(S))
  BY DEF Surjection, UsersOf
<1>. HIDE DEF user
<1>5. IsFiniteSet(UsersOf(S))
  BY <1>3, <1>4, FS_Surjection
<1>. QED BY <1>3, <1>5

(* More rows that speak for an alarm, or fewer that speak against it, do   *)
(* not silence it.                                                         *)
LEMMA AlarmMonotone ==
  ASSUME TypeOK, NEW d \in Detectors,
         NEW for1, NEW for2, for1 \subseteq for2, for2 \subseteq Rows,
         NEW against1, NEW against2, against2 \subseteq against1, against1 \subseteq Rows,
         Alarm(d, for1, against1)
  PROVE  Alarm(d, for2, against2)
<1>1. Threshold[d] \in Nat /\ MaxPerUser \in Nat
  BY ConstantsOK
<1>2. CASE d = "password_spray"
  <2>1. UsersOf(for1) \subseteq UsersOf(for2)
    BY DEF UsersOf
  <2>2. Cardinality(UsersOf(for2)) >= Threshold[d]
    BY <1>1, <1>2, <2>1, RowsFinite, CardinalityGrows DEF Alarm
  <2>3. ASSUME NEW u \in Users PROVE Cardinality(By(against2, u)) <= MaxPerUser
    <3>1. By(against2, u) \subseteq By(against1, u) /\ By(against1, u) \subseteq Rows
      BY DEF By
    <3>2. Cardinality(By(against1, u)) <= MaxPerUser
      BY <1>2 DEF Alarm
    <3>. QED BY <1>1, <3>1, <3>2, RowsFinite, CardinalityGrows
  <2>. QED BY <1>2, <2>2, <2>3 DEF Alarm
<1>3. CASE d # "password_spray"
  <2>1. Cardinality(for1) >= Threshold[d]
    BY <1>3 DEF Alarm
  <2>2. Cardinality(for2) >= Threshold[d]
    BY <1>1, <2>1, RowsFinite, CardinalityGrows
  <2>. QED BY <1>3, <2>2 DEF Alarm
<1>. QED BY <1>2, <1>3

-----------------------------------------------------------------------------
(* Rows are only ever added, so what a detector may or must count for an   *)
(* event on record does not depend on the rows that come later.            *)

RowsKept ==
  /\ events' \in Seq(Event)
  /\ Rows \subseteq Rows'
  /\ \A n \in Rows : events'[n] = events[n]

LEMMA MayKept ==
  ASSUME TypeOK, RowsKept, NEW d \in Detectors, NEW e \in Rows
  PROVE  MayCount(d, e)' = MayCount(d, e) /\ MayCount(d, e) \subseteq Rows
<1>1. 1..e \subseteq Rows
  BY DEF TypeOK, Rows
<1>2. \A n \in Rows : Counts(d, n)' <=> Counts(d, n)
  BY DEF RowsKept, Counts, IsFailure
<1>. QED BY <1>1, <1>2 DEF RowsKept, MayCount

LEMMA MustKept ==
  ASSUME TypeOK, RowsKept, NEW d \in Detectors, NEW p \in Pipelines, NEW i \in IPs,
         seen'[p] = seen[p]
  PROVE  MustCount(d, p, i)' = MustCount(d, p, i) /\ MustCount(d, p, i) \subseteq Rows
<1>1. seen[p] \subseteq Rows
  BY DEF TypeOK, Rows
<1>2. \A n \in Rows : Counts(d, n)' <=> Counts(d, n)
  BY DEF RowsKept, Counts, IsFailure
<1>. QED BY <1>1, <1>2 DEF RowsKept, MustCount

LEMMA AlarmKept ==
  ASSUME RowsKept, NEW d \in Detectors, NEW for, for \subseteq Rows,
         NEW against, against \subseteq Rows
  PROVE  Alarm(d, for, against)' <=> Alarm(d, for, against)
<1>1. UsersOf(for)' = UsersOf(for)
  BY DEF RowsKept, UsersOf
<1>2. \A u : By(against, u)' = By(against, u)
  BY DEF RowsKept, By
<1>. QED BY <1>1, <1>2 DEF Alarm

LEMMA FailuresKept ==
  ASSUME TypeOK, TypeOK', RowsKept, NEW i \in IPs
  PROVE  /\ FailuresOf(i) \subseteq FailuresOf(i)'
         /\ FailuresOf(i)' \intersect Rows = FailuresOf(i)
         /\ Cardinality(FailuresOf(i)) \in Nat /\ Cardinality(FailuresOf(i)') \in Nat
         /\ Cardinality(FailuresOf(i)) <= Cardinality(FailuresOf(i)')
<1>1. /\ FailuresOf(i) \subseteq FailuresOf(i)'
      /\ FailuresOf(i)' \intersect Rows = FailuresOf(i)
  BY DEF RowsKept, FailuresOf, IsFailure
<1>2. IsFiniteSet(FailuresOf(i)')
  <2>1. Len(events') \in Nat
    BY DEF TypeOK
  <2>2. IsFiniteSet(Rows')
    BY <2>1, FS_Interval DEF Rows
  <2>. QED BY <2>2, FS_Subset DEF FailuresOf
<1>. QED BY <1>1, <1>2, CardinalityGrows

(* Process p keeps its stream, and its frame keeps the verdict it holds. *)
StreamSame(p) == seen'[p] = seen[p] /\ window'[p] = window[p]
VerdictSame(p) ==
  /\ at'[p].ip = at[p].ip /\ at'[p].event = at[p].event /\ at'[p].signals = at[p].signals
  /\ at'[p].ioc = at[p].ioc /\ at'[p].decision = at[p].decision

LEMMA WindowKept ==
  ASSUME TypeOK, RowsKept, NEW p \in Pipelines, StreamSame(p), WindowOK(p)
  PROVE  WindowOK(p)'
<1>1. seen[p] \subseteq Rows
  BY DEF TypeOK, Rows
<1>2. ASSUME NEW d \in Detectors, NEW i \in IPs
      PROVE  /\ window'[p][d][i] \subseteq {n \in seen'[p] : Counts(d, n)' /\ events'[n].ip = i}
             /\ MustCount(d, p, i)' \subseteq window'[p][d][i]
  <2>1. \A n \in Rows : Counts(d, n)' <=> Counts(d, n)
    BY DEF RowsKept, Counts, IsFailure
  <2>2. MustCount(d, p, i)' = MustCount(d, p, i)
    BY MustKept DEF StreamSame
  <2>. QED BY <1>1, <2>1, <2>2 DEF RowsKept, StreamSame, WindowOK
<1>. QED BY <1>2 DEF WindowOK

LEMMA StreamKept ==
  ASSUME TypeOK, RowsKept, NEW p \in Pipelines, StreamSame(p), StreamOK(p), FrameOK(p),
         at'[p].pc = "match" => at[p].pc = "match" /\ at'[p].event = at[p].event
  PROVE  StreamOK(p)'
<1>1. seen[p] \subseteq Rows
  BY DEF TypeOK, Rows
<1>2. at[p].pc = "match" => at[p].event \in Rows
  BY DEF FrameOK
<1>. QED BY <1>1, <1>2 DEF RowsKept, StreamSame, StreamOK

LEMMA VerdictKept ==
  ASSUME TypeOK, TypeOK', RowsKept, NEW p \in Pipelines, StreamSame(p), VerdictSame(p),
         FrameOK(p), Judged(p), Sound(p), Complete(p), Justified(p)
  PROVE  Sound(p)' /\ Complete(p)' /\ Justified(p)'
<1>1. at[p].event \in Rows /\ at[p].ip \in IPs /\ at[p].signals \subseteq Detectors
  <2>1. at[p] \in Frame
    BY DEF TypeOK, Procs
  <2>. QED BY <2>1 DEF FrameOK, Judged, Frame
<1>. DEFINE May(d) == MayCount(d, at[p].event)
            Must(d) == MustCount(d, p, at[p].ip)
<1>2. ASSUME NEW d \in Detectors
      PROVE  /\ May(d) \subseteq Rows /\ May(d)' = May(d)
             /\ Must(d) \subseteq Rows /\ Must(d)' = Must(d)
  BY <1>1, MayKept, MustKept DEF StreamSame, VerdictSame
<1>3. ASSUME NEW d \in Detectors
      PROVE  /\ Alarm(d, May(d), Must(d))' <=> Alarm(d, May(d), Must(d))
             /\ Alarm(d, Must(d), May(d))' <=> Alarm(d, Must(d), May(d))
             /\ Counts(d, at[p].event)' <=> Counts(d, at[p].event)
  <2>1. Counts(d, at[p].event)' <=> Counts(d, at[p].event)
    BY <1>1 DEF RowsKept, VerdictSame, Counts, IsFailure
  <2>. HIDE DEF May, Must
  <2>2. Alarm(d, May(d), Must(d))' <=> Alarm(d, May(d), Must(d))
    BY <1>2, AlarmKept
  <2>3. Alarm(d, Must(d), May(d))' <=> Alarm(d, Must(d), May(d))
    BY <1>2, AlarmKept
  <2>. QED BY <2>1, <2>2, <2>3
<1>4. Sound(p)'
  BY <1>1, <1>3 DEF Sound, VerdictSame
<1>5. Complete(p)'
  BY <1>3 DEF Complete, VerdictSame
<1>6. Justified(p)'
  <2>1. /\ Cardinality(FailuresOf(at[p].ip))' \in Nat /\ Cardinality(FailuresOf(at[p].ip)) \in Nat
        /\ Cardinality(FailuresOf(at[p].ip)) <= Cardinality(FailuresOf(at[p].ip))'
    BY <1>1, FailuresKept DEF VerdictSame
  <2>2. PermanentAfter \in Nat
    BY ConstantsOK
  <2>. QED BY <1>3, <2>1, <2>2 DEF Justified, VerdictSame
<1>. QED BY <1>4, <1>5, <1>6

-----------------------------------------------------------------------------
(* A step of process x leaves the others where they are: it adds rows at   *)
(* most, and makes no row pending that was on record.                      *)

StepOf(x) ==
  /\ RowsKept
  /\ \A y \in Procs \ {x} : at'[y] = at[y]
  /\ \A p \in Pipelines \ {x} : StreamSame(p)
  /\ Pending(x)' => \/ Pending(x) /\ at'[x].event = at[x].event
                    \/ at'[x].event \notin Rows

LEMMA ScoredGrows ==
  ASSUME TypeOK, TypeOK', NEW x \in Procs, StepOf(x), NEW i \in IPs
  PROVE  /\ Scored(i) \subseteq Scored(i)'
         /\ IsFiniteSet(Scored(i)) /\ IsFiniteSet(Scored(i)')
         /\ Cardinality(Scored(i)) \in Nat /\ Cardinality(Scored(i)') \in Nat
         /\ Cardinality(Scored(i)) <= Cardinality(Scored(i)')
<1>1. Scored(i) \subseteq Scored(i)'
  <2>1. SUFFICES ASSUME NEW n \in Scored(i), NEW p \in Pipelines, Pending(p)', at'[p].event = n
                 PROVE  FALSE
    BY FailuresKept DEF Scored, StepOf
  <2>2. n \in Rows
    BY DEF Scored, FailuresOf
  <2>3. Pending(p) /\ at[p].event = n
    BY <2>1, <2>2 DEF StepOf, Pending, Procs
  <2>. QED BY <2>3 DEF Scored
<1>2. IsFiniteSet(Scored(i)')
  <2>1. Len(events') \in Nat
    BY DEF TypeOK
  <2>2. IsFiniteSet(Rows')
    BY <2>1, FS_Interval DEF Rows
  <2>. QED BY <2>2, FS_Subset DEF FailuresOf, Scored
<1>. QED BY <1>1, <1>2, CardinalityGrows

(* What a process holds never exceeds the failures already scored. *)
Holds(x) ==
  /\ x \in Pipelines /\ at[x].pc \in {"respond", "respondWrite", "save"} =>
       at[x].failures <= Cardinality(Scored(at[x].ip))
  /\ at[x].pc \in {"respondWrite", "rewrite"} =>
       at[x].ip \in IPs /\ Stored(at[x].read) <= Cardinality(Scored(at[x].ip))
  /\ x \in Rewriters => at[x].pc \in {"idle", "rewrite"}

LEMMA CounterHolds ==
  CounterOK <=> /\ \A i \in IPs : Stored(actor[i]) <= Cardinality(Scored(i))
                /\ \A x \in Procs : Holds(x)
BY DEF CounterOK, Holds, Procs

LEMMA HoldsKept ==
  ASSUME PipelineInv, TypeOK', NEW x \in Procs, StepOf(x), NEW y \in Procs, y # x
  PROVE  Holds(y)'
<1>1. Holds(y) /\ at'[y] = at[y]
  BY CounterHolds DEF PipelineInv, StepOf
<1>2. at[y] \in Frame
  BY DEF PipelineInv, TypeOK
<1>3. Stored(at[y].read) \in Nat /\ at[y].failures \in Nat
  BY <1>2 DEF Frame, Stored, NoRow
<1>4. y \in Pipelines /\ at[y].pc # "idle" => at[y].ip \in IPs
  BY DEF PipelineInv, FrameOK
<1>5. ASSUME at[y].ip \in IPs
      PROVE  /\ Cardinality(Scored(at[y].ip)) \in Nat
             /\ Cardinality(Scored(at[y].ip)') \in Nat
             /\ Cardinality(Scored(at[y].ip)) <= Cardinality(Scored(at[y].ip)')
  BY <1>1, <1>5, ScoredGrows DEF PipelineInv
<1>. QED BY <1>1, <1>3, <1>4, <1>5 DEF Holds, Stored

Verdict(p) == Judged(p) => Sound(p) /\ Complete(p) /\ Justified(p)
Own(p) == FrameOK(p) /\ StreamOK(p) /\ WindowOK(p) /\ Verdict(p)

LEMMA InvParts ==
  PipelineInv <=> TypeOK /\ CounterOK /\ \A p \in Pipelines : Own(p)
BY DEF PipelineInv, Own, Verdict, SignalsSound, SignalsComplete, IsolationJustified

LEMMA OthersKept ==
  ASSUME PipelineInv, TypeOK', NEW x \in Procs, StepOf(x), NEW p \in Pipelines, p # x
  PROVE  Own(p)'
<1>1. /\ Own(p) /\ TypeOK /\ RowsKept /\ StreamSame(p)
      /\ at'[p] = at[p]
  BY InvParts DEF StepOf, Procs
<1>2. StreamOK(p)' /\ WindowOK(p)'
  BY <1>1, StreamKept, WindowKept DEF Own
<1>3. Verdict(p)'
  <2>1. Judged(p)' <=> Judged(p)
    BY <1>1 DEF Judged
  <2>2. VerdictSame(p)
    BY <1>1 DEF VerdictSame
  <2>. QED BY <1>1, <2>1, <2>2, VerdictKept DEF Own, Verdict
<1>4. FrameOK(p)'
  <2>1. FrameOK(p) /\ (at[p].pc # "idle" => at[p].event \in Rows)
    BY <1>1 DEF Own, FrameOK
  <2>2. at[p].pc # "idle" => at[p].event \in Rows' /\ events'[at[p].event] = events[at[p].event]
    BY <1>1, <2>1 DEF RowsKept
  <2>3. ASSUME Pending(p)', NEW q \in Pipelines, Pending(q)', at'[q].event = at'[p].event
        PROVE  q = p
    <3>1. Pending(p) /\ at[p].event \in Rows
      BY <1>1, <2>1, <2>3 DEF Pending
    <3>2. Pending(q) /\ at[q].event = at[p].event
      BY <1>1, <2>3, <3>1 DEF StepOf, Procs, Pending
    <3>. QED BY <2>1, <3>1, <3>2 DEF FrameOK
  <2>. QED BY <1>1, <2>1, <2>2, <2>3 DEF FrameOK, Pending
<1>. QED BY <1>2, <1>3, <1>4 DEF Own

(* So an action need only account for the process that takes it. *)
LEMMA StepPreserves ==
  ASSUME PipelineInv, TypeOK', NEW x \in Procs, StepOf(x), Holds(x)',
         x \in Pipelines => Own(x)',
         \A i \in IPs : actor'[i] # actor[i] => Stored(actor'[i]) <= Cardinality(Scored(i))
  PROVE  PipelineInv'
<1>1. \A p \in Pipelines : Own(p)'
  BY OthersKept
<1>2. \A y \in Procs : Holds(y)'
  BY HoldsKept
<1>3. ASSUME NEW i \in IPs PROVE Stored(actor'[i]) <= Cardinality(Scored(i)')
  <2>1. Stored(actor[i]) <= Cardinality(Scored(i))
    BY DEF PipelineInv, CounterOK
  <2>2. Stored(actor'[i]) <= Cardinality(Scored(i))
    BY <2>1
  <2>3. Stored(actor'[i]) \in Nat
    BY DEF TypeOK, Stored, NoRow
  <2>. QED BY <2>2, <2>3, ScoredGrows DEF PipelineInv
<1>4. CounterOK'
  BY <1>2, <1>3, CounterHolds DEF Stored, CounterOK, Holds, Procs
<1>. QED BY <1>1, <1>4, InvParts DEF PipelineInv, Own, Verdict, SignalsSound, SignalsComplete, IsolationJustified

-----------------------------------------------------------------------------
(* Typing of frames, and steps that touch nothing but one frame. *)

LEMMA IdleFrame == Idle \in Frame
BY DEF Idle, Frame, Stage, Decisions, NoRow

LEMMA BecomeFrame ==
  ASSUME TypeOK, NEW x \in Procs, NEW frame \in Frame, Become(x, frame)
  PROVE  at' \in [Procs -> Frame] /\ at'[x] = frame /\ \A y \in Procs \ {x} : at'[y] = at[y]
BY DEF TypeOK, Become

LEMMA Unchanged ==
  ASSUME TypeOK, UNCHANGED events
  PROVE  RowsKept
BY DEF TypeOK, RowsKept, Rows

(* A pipeline that neither receives nor evaluates keeps its stream; its    *)
(* frame keeps the verdict, or is no longer under judgement.               *)
LEMMA QuietStep ==
  ASSUME PipelineInv, NEW p \in Pipelines, NEW frame \in Frame, Become(p, frame),
         UNCHANGED <<events, window, seen>>, faults' \in Nat,
         actor' \in [IPs -> Nat \union {NoRow}],
         frame.pc \in {"idle", "respond", "respondWrite", "save"},
         frame.pc # "idle" => /\ Judged(p) /\ VerdictSame(p)
  PROVE  TypeOK' /\ StepOf(p) /\ Own(p)'
<1>1. p \in Procs /\ TypeOK
  BY DEF Procs, PipelineInv
<1>2. /\ at' \in [Procs -> Frame] /\ at'[p] = frame
      /\ \A y \in Procs \ {p} : at'[y] = at[y]
  BY <1>1, BecomeFrame
<1>3. TypeOK'
  BY <1>1, <1>2 DEF TypeOK
<1>4. RowsKept /\ \A q \in Pipelines : StreamSame(q)
  BY <1>1, Unchanged DEF StreamSame
<1>5. StepOf(p)
  BY <1>2, <1>4 DEF StepOf, Pending
<1>6. Own(p)
  BY InvParts
<1>7. FrameOK(p)'
  BY <1>2, <1>6 DEF Own, FrameOK, Pending, Judged, VerdictSame, Rows
<1>8. StreamOK(p)' /\ WindowOK(p)'
  BY <1>1, <1>2, <1>4, <1>6, StreamKept, WindowKept DEF Own
<1>9. Verdict(p)'
  BY <1>1, <1>2, <1>3, <1>4, <1>6, VerdictKept DEF Own, Verdict, Judged
<1>. QED BY <1>3, <1>5, <1>7, <1>8, <1>9 DEF Own

LEMMA RespondSkipsPreserves ==
  ASSUME PipelineInv, NEW p \in Pipelines, RespondSkips(p)
  PROVE  PipelineInv'
<1>. DEFINE frame == [at[p] EXCEPT !.pc = "save"]
<1>1. p \in Procs /\ TypeOK /\ at[p] \in Frame /\ at[p].pc = "respond" /\ Holds(p)
  BY CounterHolds DEF PipelineInv, Procs, TypeOK, RespondSkips
<1>2. frame \in Frame
  BY <1>1 DEF Frame, Stage
<1>3. at'[p] = frame
  BY <1>1 DEF TypeOK, RespondSkips, Become
<1>4. TypeOK' /\ StepOf(p) /\ Own(p)'
  <2>1. Judged(p) /\ VerdictSame(p)
    BY <1>1, <1>3 DEF Judged, VerdictSame, Frame
  <2>2. actor' \in [IPs -> Nat \union {NoRow}] /\ faults' \in Nat
    BY <1>1 DEF TypeOK, RespondSkips
  <2>. QED BY <1>1, <1>2, <2>1, <2>2, QuietStep DEF RespondSkips, Frame
<1>5. Holds(p)'
  <2>1. at[p].ip \in IPs
    BY <1>1 DEF PipelineInv, FrameOK
  <2>2. at[p].failures \in Nat
    BY <1>1 DEF Frame
  <2>3. at'[p].failures = at[p].failures /\ at'[p].ip = at[p].ip /\ at'[p].pc = "save"
    BY <1>1, <1>3 DEF Frame
  <2>4. /\ Cardinality(Scored(at[p].ip)) \in Nat /\ Cardinality(Scored(at[p].ip)') \in Nat
        /\ Cardinality(Scored(at[p].ip)) <= Cardinality(Scored(at[p].ip)')
    BY <1>1, <1>4, <2>1, <2>3, ScoredGrows
  <2>. QED BY <1>1, <2>2, <2>3, <2>4, ConstantsOK DEF Holds
<1>. QED BY <1>1, <1>4, <1>5, StepPreserves DEF RespondSkips

LEMMA RespondReadsPreserves ==
  ASSUME PipelineInv, NEW p \in Pipelines, RespondReads(p)
  PROVE  PipelineInv'
<1>. DEFINE frame == [at[p] EXCEPT !.pc = "respondWrite", !.read = actor[at[p].ip]]
<1>1. p \in Procs /\ TypeOK /\ at[p] \in Frame /\ at[p].pc = "respond" /\ Holds(p)
  BY CounterHolds DEF PipelineInv, Procs, TypeOK, RespondReads
<1>2. at[p].ip \in IPs /\ actor[at[p].ip] \in Nat \union {NoRow}
  BY <1>1 DEF PipelineInv, FrameOK, TypeOK
<1>3. frame \in Frame
  BY <1>1, <1>2 DEF Frame, Stage
<1>4. at'[p] = frame
  BY <1>1 DEF TypeOK, RespondReads, Become
<1>5. TypeOK' /\ StepOf(p) /\ Own(p)'
  <2>1. Judged(p) /\ VerdictSame(p)
    BY <1>1, <1>4 DEF Judged, VerdictSame, Frame
  <2>2. actor' \in [IPs -> Nat \union {NoRow}] /\ faults' \in Nat
    BY <1>1 DEF TypeOK, RespondReads
  <2>. QED BY <1>1, <1>3, <2>1, <2>2, QuietStep DEF RespondReads, Frame
<1>6. Holds(p)'
  <2>1. at[p].failures \in Nat /\ Stored(actor[at[p].ip]) \in Nat
    BY <1>1, <1>2 DEF Frame, Stored, NoRow
  <2>2. /\ at'[p].failures = at[p].failures /\ at'[p].ip = at[p].ip
        /\ at'[p].pc = "respondWrite" /\ at'[p].read = actor[at[p].ip]
    BY <1>1, <1>4 DEF Frame
  <2>3. /\ Cardinality(Scored(at[p].ip)) \in Nat /\ Cardinality(Scored(at[p].ip)') \in Nat
        /\ Cardinality(Scored(at[p].ip)) <= Cardinality(Scored(at[p].ip)')
    BY <1>1, <1>2, <1>5, <2>2, ScoredGrows
  <2>4. Stored(actor[at[p].ip]) <= Cardinality(Scored(at[p].ip))
    BY <1>2 DEF PipelineInv, CounterOK
  <2>. QED BY <1>1, <1>2, <2>1, <2>2, <2>3, <2>4, ConstantsOK DEF Holds, Stored
<1>. QED BY <1>1, <1>5, <1>6, StepPreserves DEF RespondReads

LEMMA RespondWritesPreserves ==
  ASSUME PipelineInv, NEW p \in Pipelines, RespondWrites(p)
  PROVE  PipelineInv'
<1>. DEFINE frame == [at[p] EXCEPT !.pc = "save"]
<1>1. /\ p \in Procs /\ TypeOK /\ at[p] \in Frame /\ at[p].pc = "respondWrite" /\ Holds(p)
      /\ at[p].ip \in IPs
  BY CounterHolds DEF PipelineInv, Procs, TypeOK, RespondWrites, FrameOK
<1>2. frame \in Frame
  BY <1>1 DEF Frame, Stage
<1>3. at'[p] = frame
  BY <1>1 DEF TypeOK, RespondWrites, Become
<1>4. Stored(at[p].read) \in Nat /\ Stored(at[p].read) <= Cardinality(Scored(at[p].ip))
  BY <1>1 DEF Holds, Frame, Stored, NoRow
<1>5. TypeOK' /\ StepOf(p) /\ Own(p)'
  <2>1. Judged(p) /\ VerdictSame(p)
    BY <1>1, <1>3 DEF Judged, VerdictSame, Frame
  <2>2. actor' \in [IPs -> Nat \union {NoRow}] /\ faults' \in Nat
    BY <1>1, <1>4 DEF TypeOK, RespondWrites
  <2>. QED BY <1>1, <1>2, <2>1, <2>2, QuietStep DEF RespondWrites, Frame
<1>6. Holds(p)'
  <2>1. at[p].failures \in Nat
    BY <1>1 DEF Frame
  <2>2. at'[p].failures = at[p].failures /\ at'[p].ip = at[p].ip /\ at'[p].pc = "save"
    BY <1>1, <1>3 DEF Frame
  <2>3. /\ Cardinality(Scored(at[p].ip)) \in Nat /\ Cardinality(Scored(at[p].ip)') \in Nat
        /\ Cardinality(Scored(at[p].ip)) <= Cardinality(Scored(at[p].ip)')
    BY <1>1, <1>5, <2>2, ScoredGrows
  <2>. QED BY <1>1, <2>1, <2>2, <2>3, ConstantsOK DEF Holds
<1>7. ASSUME NEW i \in IPs, actor'[i] # actor[i]
      PROVE  Stored(actor'[i]) <= Cardinality(Scored(i))
  BY <1>1, <1>4, <1>7 DEF TypeOK, RespondWrites, Stored, NoRow
<1>. QED BY <1>1, <1>5, <1>6, <1>7, StepPreserves

LEMMA SaveProfilePreserves ==
  ASSUME PipelineInv, NEW p \in Pipelines, SaveProfile(p)
  PROVE  PipelineInv'
<1>1. /\ p \in Procs /\ TypeOK /\ at[p] \in Frame /\ at[p].pc = "save" /\ Holds(p)
      /\ at[p].ip \in IPs
  BY CounterHolds DEF PipelineInv, Procs, TypeOK, SaveProfile, FrameOK
<1>2. at[p].failures \in Nat /\ at[p].failures <= Cardinality(Scored(at[p].ip))
  BY <1>1 DEF Holds, Frame
<1>3. at'[p] = Idle
  BY <1>1 DEF TypeOK, SaveProfile, Become
<1>4. TypeOK' /\ StepOf(p) /\ Own(p)'
  <2>1. actor' \in [IPs -> Nat \union {NoRow}] /\ faults' \in Nat
    BY <1>1, <1>2 DEF TypeOK, SaveProfile
  <2>. QED BY <1>1, <2>1, IdleFrame, QuietStep DEF SaveProfile, Idle
<1>5. Holds(p)'
  BY <1>3, ConstantsOK DEF Holds, Idle
<1>6. ASSUME NEW i \in IPs, actor'[i] # actor[i]
      PROVE  Stored(actor'[i]) <= Cardinality(Scored(i))
  BY <1>1, <1>2, <1>6 DEF TypeOK, SaveProfile, Stored, NoRow
<1>. QED BY <1>1, <1>4, <1>5, <1>6, StepPreserves

LEMMA AbandonPreserves ==
  ASSUME PipelineInv, NEW p \in Pipelines, Abandon(p)
  PROVE  PipelineInv'
<1>1. p \in Procs /\ TypeOK
  BY DEF PipelineInv, Procs
<1>2. at'[p] = Idle
  BY <1>1 DEF TypeOK, Abandon, Become
<1>3. TypeOK' /\ StepOf(p) /\ Own(p)'
  <2>1. actor' \in [IPs -> Nat \union {NoRow}] /\ faults' \in Nat
    BY <1>1 DEF TypeOK, Abandon, Fault
  <2>. QED BY <1>1, <2>1, IdleFrame, QuietStep DEF Abandon, Idle
<1>4. Holds(p)'
  BY <1>2, ConstantsOK DEF Holds, Idle
<1>. QED BY <1>1, <1>3, <1>4, StepPreserves DEF Abandon

(* A rewriter changes its own frame and one row of threat_actors. *)
LEMMA RewriterStepShape ==
  ASSUME PipelineInv, NEW x \in Rewriters, NEW frame \in Frame, Become(x, frame),
         UNCHANGED <<events, window, seen, faults>>, frame.pc \in {"idle", "rewrite"},
         actor' \in [IPs -> Nat \union {NoRow}]
  PROVE  TypeOK' /\ StepOf(x) /\ at'[x] = frame
<1>1. x \in Procs /\ TypeOK
  BY DEF Procs, PipelineInv
<1>2. /\ at' \in [Procs -> Frame] /\ at'[x] = frame
      /\ \A y \in Procs \ {x} : at'[y] = at[y]
  BY <1>1, BecomeFrame
<1>3. TypeOK'
  BY <1>1, <1>2 DEF TypeOK
<1>4. RowsKept /\ \A q \in Pipelines : StreamSame(q)
  BY <1>1, Unchanged DEF StreamSame
<1>. QED BY <1>2, <1>3, <1>4 DEF StepOf, Pending

LEMMA RewriterPreserves ==
  ASSUME PipelineInv, NEW x \in Rewriters, RewriterStep(x)
  PROVE  PipelineInv'
<1>1. x \in Procs /\ x \notin Pipelines /\ TypeOK /\ at[x] \in Frame /\ Holds(x)
  BY CounterHolds, ConstantsOK DEF PipelineInv, Procs, TypeOK
<1>2. ASSUME NEW i \in IPs, RewriteReads(x, i) PROVE PipelineInv'
  <2>. DEFINE frame == [Idle EXCEPT !.pc = "rewrite", !.ip = i, !.read = actor[i]]
  <2>1. actor[i] \in Nat \union {NoRow}
    BY <1>1 DEF TypeOK
  <2>2. frame \in Frame
    BY <2>1, IdleFrame DEF Frame, Stage
  <2>3. frame.pc = "rewrite" /\ frame.ip = i /\ frame.read = actor[i]
    BY DEF Idle
  <2>4. TypeOK' /\ StepOf(x) /\ at'[x] = frame
    BY <1>1, <1>2, <2>2, <2>3, RewriterStepShape DEF RewriteReads, TypeOK
  <2>5. Holds(x)'
    <3>1. Stored(actor[i]) \in Nat /\ Stored(actor[i]) <= Cardinality(Scored(i))
      BY <2>1 DEF PipelineInv, CounterOK, Stored, NoRow
    <3>2. /\ Cardinality(Scored(i)) \in Nat /\ Cardinality(Scored(i)') \in Nat
          /\ Cardinality(Scored(i)) <= Cardinality(Scored(i)')
      BY <1>1, <2>4, ScoredGrows
    <3>. QED BY <1>1, <2>3, <2>4, <3>1, <3>2 DEF Holds, Stored
  <2>. QED BY <1>1, <1>2, <2>4, <2>5, StepPreserves DEF RewriteReads
<1>3. ASSUME RewriteWrites(x) PROVE PipelineInv'
  <2>1. /\ at[x].ip \in IPs /\ Stored(at[x].read) \in Nat
        /\ Stored(at[x].read) <= Cardinality(Scored(at[x].ip))
    BY <1>1, <1>3 DEF RewriteWrites, Holds, Frame, Stored, NoRow
  <2>2. actor' \in [IPs -> Nat \union {NoRow}]
    BY <1>1, <1>3, <2>1 DEF TypeOK, RewriteWrites
  <2>3. TypeOK' /\ StepOf(x) /\ at'[x] = Idle
    BY <1>3, <2>2, IdleFrame, RewriterStepShape DEF RewriteWrites, Idle
  <2>4. Holds(x)'
    BY <1>1, <2>3 DEF Holds, Idle
  <2>5. ASSUME NEW i \in IPs, actor'[i] # actor[i]
        PROVE  Stored(actor'[i]) <= Cardinality(Scored(i))
    BY <1>1, <1>3, <2>1, <2>5 DEF TypeOK, RewriteWrites, Stored, NoRow
  <2>. QED BY <1>1, <2>3, <2>4, <2>5, StepPreserves
<1>4. ASSUME RewriteSkips(x) PROVE PipelineInv'
  <2>1. TypeOK' /\ StepOf(x) /\ at'[x] = Idle
    BY <1>1, <1>4, IdleFrame, RewriterStepShape DEF RewriteSkips, Idle, TypeOK
  <2>2. Holds(x)'
    BY <1>1, <2>1 DEF Holds, Idle
  <2>. QED BY <1>1, <1>4, <2>1, <2>2, StepPreserves DEF RewriteSkips
<1>. QED BY <1>2, <1>3, <1>4 DEF RewriterStep

LEMMA RestartPreserves ==
  ASSUME PipelineInv, NEW p \in Pipelines, Restart(p)
  PROVE  PipelineInv'
<1>1. p \in Procs /\ TypeOK
  BY DEF PipelineInv, Procs
<1>2. /\ at' \in [Procs -> Frame] /\ at'[p] = Idle
      /\ \A y \in Procs \ {p} : at'[y] = at[y]
  BY <1>1, IdleFrame, BecomeFrame DEF Restart
<1>3. /\ seen'[p] = {} /\ \A d \in Detectors, i \in IPs : window'[p][d][i] = {}
      /\ \A q \in Pipelines \ {p} : StreamSame(q)
  BY <1>1 DEF TypeOK, Restart, StreamSame
<1>4. TypeOK'
  <2>1. window' \in [Pipelines -> [Detectors -> [IPs -> SUBSET (1..Len(events))]]]
    BY <1>1 DEF TypeOK, Restart
  <2>2. seen' \in [Pipelines -> SUBSET (1..Len(events))]
    BY <1>1 DEF TypeOK, Restart
  <2>. QED BY <1>1, <1>2, <2>1, <2>2 DEF TypeOK, Restart, Fault
<1>5. StepOf(p)
  BY <1>1, <1>2, <1>3, Unchanged DEF StepOf, Pending, Idle, Restart
<1>6. Own(p)'
  BY <1>2, <1>3 DEF Own, FrameOK, StreamOK, WindowOK, Verdict, Judged, MustCount, Pending, Idle
<1>7. Holds(p)'
  BY <1>2, ConstantsOK DEF Holds, Idle
<1>. QED BY <1>1, <1>4, <1>5, <1>6, <1>7, StepPreserves DEF Restart

(* A new row is pending for the pipeline that received it, and nobody else. *)
LEMMA ReceivePreserves ==
  ASSUME PipelineInv, NEW p \in Pipelines, NEW i \in IPs, NEW line \in Traffic, NEW t \in Times,
         Receive(p, i, line, t)
  PROVE  PipelineInv'
<1>. DEFINE row == [ip |-> i, kind |-> line.kind, invalid |-> line.invalid,
                    user |-> line.user, time |-> t]
            frame == [Idle EXCEPT !.pc = "match", !.ip = i, !.event = Len(events) + 1]
<1>1. p \in Procs /\ TypeOK /\ Own(p)
  BY InvParts DEF PipelineInv, Procs
<1>2. row \in Event /\ events' = Append(events, row) /\ Len(events) \in Nat
  BY <1>1, ConstantsOK DEF Receive, Event, Line, TypeOK
<1>3. /\ events' \in Seq(Event) /\ Len(events') = Len(events) + 1
      /\ events'[Len(events) + 1] = row
      /\ \A n \in Rows : events'[n] = events[n]
  <2>. HIDE DEF row
  <2>. QED BY <1>1, <1>2 DEF TypeOK, Rows
<1>4. RowsKept
  BY <1>2, <1>3 DEF RowsKept, Rows
<1>5. frame \in Frame
  <2>1. Len(events) + 1 \in Nat
    BY <1>2
  <2>. QED BY <2>1, IdleFrame DEF Frame, Stage
<1>6. /\ at' \in [Procs -> Frame] /\ at'[p] = frame
      /\ \A y \in Procs \ {p} : at'[y] = at[y]
  BY <1>1, <1>5, BecomeFrame DEF Receive
<1>7. frame.pc = "match" /\ frame.ip = i /\ frame.event = Len(events) + 1 /\ frame.decision = "none"
  BY DEF Idle
<1>8. TypeOK'
  <2>1. 1..Len(events) \subseteq 1..Len(events')
    BY <1>2, <1>3
  <2>2. /\ window' \in [Pipelines -> [Detectors -> [IPs -> SUBSET (1..Len(events'))]]]
        /\ seen' \in [Pipelines -> SUBSET (1..Len(events'))]
    BY <1>1, <2>1 DEF TypeOK, Receive
  <2>. QED BY <1>1, <1>3, <1>6, <2>2 DEF TypeOK, Receive
<1>9. Len(events) + 1 \notin Rows /\ Len(events) + 1 \in Rows'
  BY <1>2, <1>3 DEF Rows
<1>10. StepOf(p)
  BY <1>4, <1>6, <1>7, <1>9 DEF StepOf, StreamSame, Receive
<1>11. FrameOK(p)'
  <2>1. ASSUME NEW q \in Pipelines, Pending(q)', at'[q].event = Len(events) + 1
        PROVE  q = p
    <3>1. SUFFICES ASSUME q # p PROVE FALSE
      OBVIOUS
    <3>2. Pending(q) /\ at[q].event = Len(events) + 1
      BY <1>6, <2>1, <3>1 DEF Pending, Procs
    <3>. QED BY <1>9, <3>2 DEF PipelineInv, FrameOK, Pending
  <2>. QED BY <1>3, <1>6, <1>7, <1>9, <2>1 DEF FrameOK
<1>12. StreamOK(p)'
  <2>1. seen[p] \subseteq Rows /\ seen'[p] = seen[p]
    BY <1>1 DEF TypeOK, Rows, Receive
  <2>2. \A m \in seen[p] : m < Len(events) + 1
    BY <1>2, <2>1 DEF Rows
  <2>3. \A m \in seen[p] : t >= events[m].time - Skew
    BY DEF Receive
  <2>. QED BY <1>1, <1>3, <1>6, <1>7, <2>1, <2>2, <2>3 DEF Own, StreamOK
<1>13. WindowOK(p)' /\ Verdict(p)'
  BY <1>1, <1>4, <1>6, <1>7, WindowKept DEF Own, Verdict, Judged, StreamSame, Receive
<1>14. Holds(p)'
  BY <1>6, <1>7, ConstantsOK DEF Holds
<1>. QED BY <1>1, <1>8, <1>10, <1>11, <1>12, <1>13, <1>14, StepPreserves DEF Own, Receive

-----------------------------------------------------------------------------
(* A detector that has seen an event holds at least what it must and at    *)
(* most what it may count, although timestamps run backwards within Skew.  *)
LEMMA ObserveBounds ==
  ASSUME TypeOK, NEW p \in Pipelines, at[p].pc = "match", at[p].event \in Rows,
         StreamOK(p), WindowOK(p), NEW d \in Detectors, NEW i \in IPs,
         events[at[p].event].ip = i,
         NEW after, after = Observe(d, window[p][d][i], at[p].event)
  PROVE  /\ after \subseteq {n \in seen[p] \union {at[p].event} :
                               Counts(d, n) /\ events[n].ip = i}
         /\ after \subseteq MayCount(d, at[p].event)
         /\ {n \in seen[p] \union {at[p].event} :
               /\ Counts(d, n) /\ events[n].ip = i
               /\ \A m \in seen[p] \union {at[p].event} : events[m].ip = i =>
                    events[n].time >= events[m].time - Window[d]} \subseteq after
<1>. DEFINE e == at[p].event
            base == IF Counts(d, e) THEN window[p][d][i] \union {e} ELSE window[p][d][i]
            cutoff == events[e].time - Window[d]
<1>1. e \in Rows /\ seen[p] \subseteq Rows /\ \A n \in Rows : n \in Nat
  BY DEF TypeOK, Rows
<1>2. \A n \in Rows : events[n].time \in Nat
  <2>1. \A n \in Rows : events[n] \in Event
    BY DEF TypeOK, Rows
  <2>. QED BY <2>1 DEF Event
<1>3. Window[d] \in Nat /\ Skew \in Nat
  BY ConstantsOK
<1>4. after = {n \in base : \E m \in base : m <= n /\ events[m].time >= cutoff}
  BY DEF Observe, ExpireOld
<1>5. base \subseteq {n \in seen[p] \union {e} : Counts(d, n) /\ events[n].ip = i}
  BY DEF WindowOK
<1>6. \A m, n \in seen[p] \union {e} : m < n => events[n].time >= events[m].time - Skew
  <2>1. \A m \in seen[p] : m < e /\ events[e].time >= events[m].time - Skew
    BY DEF StreamOK
  <2>2. \A m \in seen[p] : m \in Nat
    BY <1>1
  <2>3. e \in Nat
    BY <1>1
  <2>. HIDE DEF e
  <2>. QED BY <2>1, <2>2, <2>3 DEF StreamOK
<1>. HIDE DEF base, e
<1>7. ASSUME NEW n \in after
      PROVE  n \in MayCount(d, e)
  <2>1. n \in base
    BY <1>4
  <2>2. PICK m \in base : m <= n /\ events[m].time >= cutoff
    BY <1>4
  <2>3. n \in Rows /\ m \in Rows /\ n <= e
    <3>1. n \in seen[p] \union {e} /\ m \in seen[p] \union {e}
      BY <1>5, <2>1
    <3>2. n = e \/ n < e
      BY <3>1 DEF StreamOK, e
    <3>. QED BY <1>1, <3>1, <3>2
  <2>4. events[n].time >= events[m].time - Skew
    <3>1. n = m \/ m < n
      BY <1>1, <2>2, <2>3
    <3>. QED BY <1>2, <1>3, <1>5, <1>6, <2>1, <2>2, <2>3, <3>1
  <2>5. events[n].time <= events[e].time + Skew
    <3>1. n \in Nat /\ e \in Nat /\ (n = e \/ n < e)
      BY <1>1, <2>3
    <3>2. n \in seen[p] \union {e}
      BY <1>5, <2>1
    <3>3. n < e => events[e].time >= events[n].time - Skew
      BY <1>6, <3>2
    <3>. QED BY <1>1, <1>2, <1>3, <2>3, <3>1, <3>3
  <2>6. events[n].time >= events[e].time - Window[d] - Skew
    BY <1>1, <1>2, <1>3, <2>2, <2>3, <2>4
  <2>7. Counts(d, n) /\ events[n].ip = i /\ n \in 1..e
    BY <1>1, <1>5, <2>1, <2>3 DEF Rows
  <2>. QED BY <2>5, <2>6, <2>7 DEF MayCount, e
<1>8. ASSUME NEW n \in seen[p] \union {e}, Counts(d, n), events[n].ip = i,
             \A m \in seen[p] \union {e} : events[m].ip = i =>
               events[n].time >= events[m].time - Window[d]
      PROVE  n \in after
  <2>1. events[n].time >= cutoff
    BY <1>8 DEF e
  <2>2. n \in base
    <3>1. CASE n = e
      BY <1>8, <3>1 DEF base, e
    <3>2. CASE n \in seen[p]
      <4>1. n \in MustCount(d, p, i)
        BY <1>8, <3>2 DEF MustCount
      <4>. QED BY <4>1 DEF base, WindowOK
    <3>. QED BY <3>1, <3>2
  <2>3. n \in Nat /\ n <= n
    BY <1>1
  <2>. QED BY <1>4, <2>1, <2>2, <2>3
<1>9. after \subseteq base
  BY <1>4
<1>. QED BY <1>5, <1>7, <1>8, <1>9 DEF e

LEMMA EvaluatePreserves ==
  ASSUME PipelineInv, NEW p \in Pipelines, NEW ioc \in IocScores, Evaluate(p, ioc)
  PROVE  PipelineInv'
<1>. DEFINE e == at[p].event
            i == at[p].ip
            after(d) == Observe(d, window[p][d][i], e)
            found == {d \in Detectors : Counts(d, e) /\ Alarm(d, after(d), after(d))}
            frame == [at[p] EXCEPT !.pc = "score", !.ioc = ioc, !.signals = found]
<1>1. /\ p \in Procs /\ TypeOK /\ Own(p) /\ at[p] \in Frame /\ at[p].pc = "match"
  BY InvParts DEF PipelineInv, Procs, Evaluate, TypeOK
<1>2. i \in IPs /\ e \in Rows /\ events[e].ip = i /\ at[p].decision = "none"
  BY <1>1 DEF Own, FrameOK, Pending
<1>3. ASSUME NEW d \in Detectors
      PROVE  /\ after(d) \subseteq {n \in seen[p] \union {e} : Counts(d, n) /\ events[n].ip = i}
             /\ after(d) \subseteq MayCount(d, e)
             /\ {n \in seen[p] \union {e} :
                   /\ Counts(d, n) /\ events[n].ip = i
                   /\ \A m \in seen[p] \union {e} : events[m].ip = i =>
                        events[n].time >= events[m].time - Window[d]} \subseteq after(d)
  BY <1>1, <1>2, ObserveBounds DEF Own
<1>4. /\ events' = events /\ actor' = actor /\ faults' = faults
      /\ seen' = [seen EXCEPT ![p] = @ \union {e}]
      /\ window' = [window EXCEPT ![p] = [d \in Detectors |-> [@[d] EXCEPT ![i] = after(d)]]]
      /\ Become(p, frame)
  BY DEF Evaluate
<1>5. frame \in Frame
  <2>1. ioc \in Nat /\ found \subseteq Detectors
    BY ConstantsOK
  <2>. HIDE DEF found
  <2>. QED BY <1>1, <2>1 DEF Frame, Stage
<1>6. /\ at' \in [Procs -> Frame] /\ at'[p] = frame
      /\ \A y \in Procs \ {p} : at'[y] = at[y]
  BY <1>1, <1>4, <1>5, BecomeFrame
<1>7. /\ frame.pc = "score" /\ frame.ip = i /\ frame.event = e /\ frame.signals = found
      /\ frame.decision = "none"
  <2>. HIDE DEF found
  <2>. QED BY <1>1, <1>2 DEF Frame
<1>. HIDE DEF after, found, frame
<1>8. seen'[p] = seen[p] \union {e} /\ seen[p] \subseteq Rows
  BY <1>1, <1>4 DEF TypeOK, Rows
<1>9. \A d \in Detectors, j \in IPs :
        window'[p][d][j] = IF j = i THEN after(d) ELSE window[p][d][j]
  BY <1>1, <1>2, <1>4 DEF TypeOK
<1>10. TypeOK'
  <2>1. seen' \in [Pipelines -> SUBSET (1..Len(events))]
    BY <1>1, <1>2, <1>4 DEF TypeOK, Rows
  <2>2. \A d \in Detectors : after(d) \subseteq 1..Len(events)
    BY <1>2, <1>3, <1>8 DEF Rows
  <2>3. window' \in [Pipelines -> [Detectors -> [IPs -> SUBSET (1..Len(events))]]]
    BY <1>1, <1>2, <1>4, <2>2 DEF TypeOK
  <2>. QED BY <1>1, <1>4, <1>6, <2>1, <2>3 DEF TypeOK
<1>11. StepOf(p)
  <2>1. RowsKept
    BY <1>1, <1>4, Unchanged
  <2>2. \A q \in Pipelines \ {p} : StreamSame(q)
    BY <1>1, <1>4 DEF TypeOK, StreamSame
  <2>. QED BY <1>1, <1>6, <1>7, <2>1, <2>2 DEF StepOf, Pending
<1>12. FrameOK(p)'
  <2>1. ASSUME NEW q \in Pipelines, Pending(q)', at'[q].event = e
        PROVE  q = p
    <3>1. SUFFICES ASSUME q # p PROVE FALSE
      OBVIOUS
    <3>2. Pending(q) /\ at[q].event = e
      BY <1>6, <2>1, <3>1 DEF Pending, Procs
    <3>. QED BY <1>1, <3>1, <3>2 DEF Own, FrameOK, Pending
  <2>. QED BY <1>2, <1>4, <1>6, <1>7, <2>1 DEF FrameOK, Rows
<1>13. StreamOK(p)'
  <2>1. \A m \in seen[p] : m < e /\ events[e].time >= events[m].time - Skew
    BY <1>1 DEF Own, StreamOK
  <2>2. \A m \in seen[p] \union {e}, n \in seen[p] \union {e} :
          m < n => events[n].time >= events[m].time - Skew
    <3>1. e \in Nat /\ seen[p] \subseteq Nat
      BY <1>1, <1>2, <1>8 DEF TypeOK, Rows
    <3>. QED BY <1>1, <2>1, <3>1 DEF Own, StreamOK
  <2>. QED BY <1>4, <1>6, <1>7, <1>8, <2>2 DEF StreamOK
<1>14. ASSUME NEW d \in Detectors
       PROVE  /\ MayCount(d, e)' = MayCount(d, e)
              /\ MustCount(d, p, i)' \subseteq after(d)
              /\ \A j \in IPs : j # i => MustCount(d, p, j)' \subseteq MustCount(d, p, j)
              /\ \A n : Counts(d, n)' <=> Counts(d, n)
  <2>1. \A n : Counts(d, n)' <=> Counts(d, n)
    BY <1>4 DEF Counts, IsFailure
  <2>2. MayCount(d, e)' = MayCount(d, e)
    BY <1>2, <1>4, <1>6, <1>7, <2>1 DEF MayCount
  <2>3. MustCount(d, p, i)' \subseteq after(d)
    BY <1>3, <1>4, <1>6, <1>7, <1>8, <2>1 DEF MustCount
  <2>4. \A j \in IPs : j # i => MustCount(d, p, j)' \subseteq MustCount(d, p, j)
    BY <1>2, <1>4, <1>8, <2>1 DEF MustCount
  <2>. QED BY <2>1, <2>2, <2>3, <2>4
<1>15. WindowOK(p)'
  <2>1. ASSUME NEW d \in Detectors, NEW j \in IPs
        PROVE  /\ window'[p][d][j] \subseteq
                    {n \in seen'[p] : Counts(d, n)' /\ events'[n].ip = j}
               /\ MustCount(d, p, j)' \subseteq window'[p][d][j]
    <3>1. CASE j = i
      BY <1>3, <1>4, <1>6, <1>7, <1>8, <1>9, <1>14, <3>1
    <3>2. CASE j # i
      BY <1>1, <1>4, <1>8, <1>9, <1>14, <3>2 DEF Own, WindowOK
    <3>. QED BY <3>1, <3>2
  <2>. QED BY <2>1 DEF WindowOK
<1>16. Verdict(p)'
  <2>1. ASSUME NEW d \in Detectors
        PROVE  /\ MustCount(d, p, at[p].ip)' \subseteq after(d)
               /\ after(d) \subseteq MayCount(d, at[p].event)'
               /\ MayCount(d, at[p].event)' \subseteq Rows /\ after(d) \subseteq Rows
    <3>1. MayCount(d, e) \subseteq Rows
      BY <1>1, <1>2 DEF TypeOK, MayCount, Rows
    <3>. QED BY <1>3, <1>6, <1>7, <1>14, <3>1
  <2>2. ASSUME NEW d \in Detectors, NEW F, NEW A
        PROVE  Alarm(d, F, A)' <=> Alarm(d, F, A)
    BY <1>4 DEF Alarm, By, UsersOf
  <2>3. Sound(p)'
    <3>1. SUFFICES ASSUME NEW d \in found
                   PROVE  Alarm(d, MayCount(d, at[p].event), MustCount(d, p, at[p].ip))'
      BY <1>6, <1>7 DEF Sound
    <3>2. d \in Detectors /\ Alarm(d, after(d), after(d))
      BY DEF found
    <3>3. Alarm(d, MayCount(d, at[p].event)', MustCount(d, p, at[p].ip)')
      BY <1>1, <2>1, <3>2, AlarmMonotone
    <3>. QED BY <2>2, <3>2, <3>3
  <2>4. Complete(p)'
    <3>1. SUFFICES ASSUME NEW d \in Detectors, Counts(d, e),
                          Alarm(d, MustCount(d, p, at[p].ip), MayCount(d, at[p].event))'
                   PROVE  d \in found
      BY <1>6, <1>7, <1>14 DEF Complete
    <3>2. Alarm(d, MustCount(d, p, at[p].ip)', MayCount(d, at[p].event)')
      BY <2>2, <3>1
    <3>3. Alarm(d, after(d), after(d))
      BY <1>1, <2>1, <3>2, AlarmMonotone
    <3>. QED BY <3>1, <3>3 DEF found
  <2>5. Justified(p)'
    BY <1>6, <1>7 DEF Justified, Isolating
  <2>. QED BY <2>3, <2>4, <2>5 DEF Verdict
<1>17. Holds(p)'
  BY <1>6, <1>7, ConstantsOK DEF Holds
<1>. QED BY <1>1, <1>4, <1>10, <1>11, <1>12, <1>13, <1>15, <1>16, <1>17, StepPreserves DEF Own

-----------------------------------------------------------------------------
(* Scoring. *)

(* What an event scores on its own: without an IOC and without a detector  *)
(* it stays within WithoutSignals, and a trusted source scores nothing.    *)
LEMMA ScoreWithoutSignals ==
  ASSUME NEW e, NEW before \in Nat, NEW after \in Nat
  PROVE  ThreatScore(e, before, after, {}, 0) <= WithoutSignals
<1>1. SignalScore({}) = 0
  BY DEF SignalScore, When
<1>. QED BY <1>1 DEF ThreatScore, Clamp, Lesser, When, WithoutSignals

LEMMA ScoringIsDeserved ==
  ASSUME TypeOK, NEW p \in Pipelines, Score(p), at[p] \in Frame, at[p].ip \in IPs,
         NEW before \in Nat, before = Stored(actor[at[p].ip]),
         NEW after \in Nat, after = Charge(at[p].ip, at[p].event, before),
         NEW decision,
         decision = Decide(at[p].ip,
                           IF at[p].ip \in Trusted THEN 0
                           ELSE ThreatScore(at[p].event, before, after, at[p].signals, at[p].ioc),
                           after),
         decision \in Isolating, IsolateAt > WithoutSignals
  PROVE  /\ at[p].ip \notin Trusted \union Allowlisted
         /\ at[p].ioc > 0 \/ at[p].signals # {}
         /\ decision = "permanent_ban" => PermanentAfter <= after
<1>. DEFINE score == IF at[p].ip \in Trusted THEN 0
                     ELSE ThreatScore(at[p].event, before, after, at[p].signals, at[p].ioc)
<1>1. IsolateAt \in 0..100 /\ PermanentAfter \in Nat
  BY ConstantsOK
<1>2. score \in Int
  <2>1. at[p].ioc \in Nat
    BY DEF Frame
  <2>2. after * 5 \in Nat /\ SignalScore(at[p].signals) \in Nat
    BY DEF SignalScore, When
  <2>. QED BY <2>1, <2>2 DEF ThreatScore, Clamp, Lesser, When
<1>. HIDE DEF score
<1>3. decision = Decide(at[p].ip, score, after)
  BY DEF score
<1>4. /\ at[p].ip \notin Allowlisted /\ score >= IsolateAt
      /\ decision = "permanent_ban" => PermanentAfter <= after
  BY <1>1, <1>2, <1>3 DEF Decide, Isolating
<1>5. score > WithoutSignals
  BY <1>1, <1>2, <1>4 DEF WithoutSignals
<1>6. at[p].ip \notin Trusted
  BY <1>5 DEF score, WithoutSignals
<1>7. at[p].ioc > 0 \/ at[p].signals # {}
  <2>1. SUFFICES ASSUME at[p].signals = {}, ~(at[p].ioc > 0) PROVE FALSE
    OBVIOUS
  <2>2. at[p].ioc = 0
    BY <2>1 DEF Frame
  <2>3. score = ThreatScore(at[p].event, before, after, {}, 0)
    BY <1>6, <2>1, <2>2 DEF score
  <2>. QED BY <1>2, <1>5, <2>3, ScoreWithoutSignals DEF WithoutSignals
<1>. QED BY <1>4, <1>6, <1>7

LEMMA ScorePreserves ==
  ASSUME PipelineInv, NEW p \in Pipelines, Score(p)
  PROVE  PipelineInv'
<1>. DEFINE e == at[p].event
            i == at[p].ip
            before == Stored(actor[i])
            after == Charge(i, e, before)
            score == IF i \in Trusted THEN 0
                     ELSE ThreatScore(e, before, after, at[p].signals, at[p].ioc)
            decision == Decide(i, score, after)
            frame == [at[p] EXCEPT !.pc = IF decision \in Isolating THEN "respond" ELSE "save",
                                   !.decision = decision, !.failures = after]
<1>1. p \in Procs /\ TypeOK /\ Own(p) /\ at[p] \in Frame /\ at[p].pc = "score"
  BY InvParts DEF PipelineInv, Procs, Score, TypeOK
<1>2. i \in IPs /\ e \in Rows /\ events[e].ip = i
  BY <1>1 DEF Own, FrameOK
<1>3. before \in Nat /\ after \in Nat
  BY <1>1, <1>2 DEF TypeOK, Stored, NoRow, Charge
<1>4. decision \in Decisions
  BY DEF Decide, Decisions
<1>5. Become(p, frame) /\ UNCHANGED <<events, window, seen, actor, faults>>
  BY DEF Score
<1>6. decision \in Isolating /\ IsolateAt > WithoutSignals =>
        /\ i \notin Trusted \union Allowlisted
        /\ at[p].ioc > 0 \/ at[p].signals # {}
        /\ decision = "permanent_ban" => PermanentAfter <= after
  BY <1>1, <1>2, <1>3, ScoringIsDeserved
<1>7. before <= Cardinality(Scored(i))
  BY <1>2 DEF PipelineInv, CounterOK
<1>8. after = IF i \notin Trusted /\ IsFailure(e) THEN before + 1 ELSE before
  BY DEF Charge
<1>. HIDE DEF before, after, score, decision
<1>9. frame \in Frame
  BY <1>1, <1>3, <1>4 DEF Frame, Stage
<1>10. /\ frame.pc \in {"respond", "save"} /\ frame.ip = i /\ frame.event = e
       /\ frame.signals = at[p].signals /\ frame.ioc = at[p].ioc
       /\ frame.decision = decision /\ frame.failures = after
  BY <1>1 DEF Frame
<1>. HIDE DEF frame
<1>11. /\ at' \in [Procs -> Frame] /\ at'[p] = frame
       /\ \A y \in Procs \ {p} : at'[y] = at[y]
  BY <1>1, <1>5, <1>9, BecomeFrame
<1>12. TypeOK'
  BY <1>1, <1>5, <1>11 DEF TypeOK
<1>13. RowsKept /\ \A q \in Pipelines : StreamSame(q)
  BY <1>1, <1>5, Unchanged DEF StreamSame
<1>14. StepOf(p)
  BY <1>10, <1>11, <1>13 DEF StepOf, Pending
<1>15. FrameOK(p)'
  BY <1>2, <1>5, <1>10, <1>11 DEF FrameOK, Pending, Rows
<1>16. StreamOK(p)' /\ WindowOK(p)'
  BY <1>1, <1>10, <1>11, <1>13, StreamKept, WindowKept DEF Own
(* The event that was pending is scored now. *)
<1>17. after <= Cardinality(Scored(i)')
  <2>1. /\ Scored(i) \subseteq Scored(i)' /\ IsFiniteSet(Scored(i)) /\ IsFiniteSet(Scored(i)')
        /\ Cardinality(Scored(i)) \in Nat /\ Cardinality(Scored(i)') \in Nat
        /\ Cardinality(Scored(i)) <= Cardinality(Scored(i)')
    BY <1>1, <1>2, <1>10, <1>11, <1>12, <1>14, ScoredGrows
  <2>2. CASE i \notin Trusted /\ IsFailure(e)
    <3>1. e \notin Scored(i)
      BY <1>1 DEF Scored, Pending
    <3>2. e \in Scored(i)'
      <4>1. e \in FailuresOf(i)'
        BY <1>2, <1>5, <1>10, <1>11, <2>2 DEF FailuresOf, IsFailure, Rows
      <4>2. ASSUME NEW q \in Pipelines, Pending(q)' PROVE at'[q].event # e
        <5>1. q # p
          BY <1>10, <1>11, <4>2 DEF Pending
        <5>2. Pending(q) /\ at'[q] = at[q]
          BY <1>11, <4>2, <5>1 DEF Pending, Procs
        <5>. QED BY <1>1, <5>1, <5>2 DEF Own, FrameOK, Pending
      <4>. QED BY <4>1, <4>2 DEF Scored
    <3>3. Cardinality(Scored(i) \union {e}) = Cardinality(Scored(i)) + 1
      BY <2>1, <3>1, FS_AddElement
    <3>4. Cardinality(Scored(i) \union {e}) <= Cardinality(Scored(i)')
      BY <2>1, <3>2, CardinalityGrows
    <3>. QED BY <1>3, <1>7, <1>8, <2>1, <2>2, <3>3, <3>4
  <2>. QED BY <1>3, <1>7, <1>8, <2>1, <2>2
<1>18. FailuresOf(i)' \subseteq Rows' /\ IsFiniteSet(FailuresOf(i)')
  <2>1. Len(events') \in Nat
    BY <1>12 DEF TypeOK
  <2>2. IsFiniteSet(Rows')
    BY <2>1, FS_Interval DEF Rows
  <2>. QED BY <2>2, FS_Subset DEF FailuresOf
<1>19. Verdict(p)'
  <2>1. Sound(p) /\ Complete(p)
    BY <1>1 DEF Own, Verdict, Judged
  <2>2. ASSUME NEW d \in Detectors, NEW F, NEW A
        PROVE  Alarm(d, F, A)' <=> Alarm(d, F, A)
    BY <1>5 DEF Alarm, By, UsersOf
  <2>3. ASSUME NEW d \in Detectors
        PROVE  /\ MayCount(d, at[p].event)' = MayCount(d, e)
               /\ MustCount(d, p, at[p].ip)' = MustCount(d, p, i)
               /\ Counts(d, at[p].event)' <=> Counts(d, e)
    BY <1>5, <1>10, <1>11 DEF MayCount, MustCount, Counts, IsFailure
  <2>4. Sound(p)'
    <3>1. at[p].signals \subseteq Detectors
      BY <1>1 DEF Frame
    <3>. QED BY <1>10, <1>11, <2>1, <2>2, <2>3, <3>1 DEF Sound
  <2>5. Complete(p)'
    BY <1>10, <1>11, <2>1, <2>2, <2>3 DEF Complete
  <2>6. Justified(p)'
    <3>1. after <= Cardinality(FailuresOf(i)')
      <4>1. Scored(i)' \subseteq FailuresOf(i)'
        BY DEF Scored
      <4>. QED BY <1>3, <1>17, <1>18, <4>1, CardinalityGrows
    <3>2. \E d \in Detectors : at[p].signals # {} => d \in at[p].signals
      BY <1>1 DEF Frame, Detectors
    <3>3. at[p].signals # {} =>
            \E d \in Detectors :
              Alarm(d, MayCount(d, at[p].event), MustCount(d, p, at[p].ip))'
      BY <2>1, <2>2, <2>3, <3>2 DEF Sound
    <3>4. Cardinality(FailuresOf(i)') \in Nat /\ PermanentAfter \in Nat
      BY <1>18, FS_CardinalityType, ConstantsOK
    <3>. QED BY <1>3, <1>6, <1>10, <1>11, <3>1, <3>3, <3>4 DEF Justified
  <2>. QED BY <2>4, <2>5, <2>6 DEF Verdict
<1>20. Holds(p)'
  BY <1>10, <1>11, <1>17, ConstantsOK DEF Holds
<1>. QED BY <1>1, <1>5, <1>12, <1>14, <1>15, <1>16, <1>19, <1>20, StepPreserves DEF Own

-----------------------------------------------------------------------------
(* The theorems. *)

LEMMA InitEstablishes ==
  ASSUME Init
  PROVE  PipelineInv
<1>1. Len(events) = 0 /\ events \in Seq(Event)
  BY DEF Init
<1>2. TypeOK
  BY <1>1, IdleFrame DEF TypeOK, Init
<1>3. \A p \in Pipelines : Own(p)
  BY DEF Init, Own, FrameOK, StreamOK, WindowOK, MustCount, Verdict, Judged, Pending, Procs, Idle
<1>4. CounterOK
  <2>1. \A i \in IPs : Scored(i) = {}
    BY <1>1 DEF Scored, FailuresOf, Rows
  <2>2. \A i \in IPs : Stored(actor[i]) = 0 /\ Cardinality(Scored(i)) = 0
    BY <2>1, FS_EmptySet DEF Init, Stored
  <2>3. \A x \in Procs : at[x].pc = "idle"
    BY DEF Init, Idle
  <2>. QED BY <2>2, <2>3 DEF CounterOK, Procs
<1>. QED BY <1>2, <1>3, <1>4, InvParts

(* Whatever the order of lines, timestamps and whole-row writes, and       *)
(* wherever process_raw is abandoned or restarted: the deques hold what    *)
(* they must and may, and no counter exceeds the failures scored.          *)
THEOREM PipelineInvariant == Spec => []PipelineInv
<1>1. PipelineInv /\ [Next]_vars => PipelineInv'
  <2>1. SUFFICES ASSUME PipelineInv, [Next]_vars
                 PROVE  PipelineInv'
    OBVIOUS
  <2>2. CASE UNCHANGED vars
    <3>1. /\ events' = events /\ window' = window /\ seen' = seen
          /\ actor' = actor /\ at' = at /\ faults' = faults
      BY <2>2 DEF vars
    <3>2. TypeOK /\ TypeOK' /\ RowsKept /\ CounterOK
      BY <2>1, <3>1, Unchanged DEF PipelineInv, TypeOK
    <3>3. ASSUME NEW p \in Pipelines PROVE Own(p)'
      <4>1. Own(p) /\ StreamSame(p) /\ VerdictSame(p)
        BY <2>1, <3>1, InvParts DEF StreamSame, VerdictSame
      <4>2. FrameOK(p)'
        BY <3>1, <4>1 DEF Own, FrameOK, Pending, Rows
      <4>3. StreamOK(p)' /\ WindowOK(p)'
        BY <3>1, <3>2, <4>1, StreamKept, WindowKept DEF Own
      <4>4. Verdict(p)'
        BY <3>1, <3>2, <4>1, VerdictKept DEF Own, Verdict, Judged
      <4>. QED BY <4>2, <4>3, <4>4 DEF Own
    <3>4. \A i : Scored(i)' = Scored(i)
      BY <3>1 DEF Scored, FailuresOf, Rows, IsFailure, Pending
    <3>5. CounterOK'
      BY <3>1, <3>2, <3>4 DEF CounterOK
    <3>. QED BY <3>2, <3>3, <3>5 DEF PipelineInv, Own, Verdict, SignalsSound, SignalsComplete,
           IsolationJustified
  <2>3. CASE \E p \in Pipelines : PipelineStep(p)
    <3>1. PICK p \in Pipelines : PipelineStep(p)
      BY <2>3
    <3>2. CASE \E i \in IPs, line \in Traffic, t \in Times : Receive(p, i, line, t)
      BY <2>1, <3>2, ReceivePreserves
    <3>3. CASE \E ioc \in IocScores : Evaluate(p, ioc)
      BY <2>1, <3>3, EvaluatePreserves
    <3>4. CASE Score(p)
      BY <2>1, <3>4, ScorePreserves
    <3>5. CASE RespondSkips(p)
      BY <2>1, <3>5, RespondSkipsPreserves
    <3>6. CASE RespondReads(p)
      BY <2>1, <3>6, RespondReadsPreserves
    <3>7. CASE RespondWrites(p)
      BY <2>1, <3>7, RespondWritesPreserves
    <3>8. CASE SaveProfile(p)
      BY <2>1, <3>8, SaveProfilePreserves
    <3>9. CASE Abandon(p)
      BY <2>1, <3>9, AbandonPreserves
    <3>10. CASE Restart(p)
      BY <2>1, <3>10, RestartPreserves
    <3>. QED BY <3>1, <3>2, <3>3, <3>4, <3>5, <3>6, <3>7, <3>8, <3>9, <3>10 DEF PipelineStep
  <2>4. CASE \E x \in Rewriters : RewriterStep(x)
    BY <2>1, <2>4, RewriterPreserves
  <2>. QED BY <2>1, <2>2, <2>3, <2>4 DEF Next
<1>. QED BY <1>1, InitEstablishes, PTL DEF Spec

(* Every variable keeps its shape. *)
THEOREM PipelineTypeCorrect == Spec => []TypeOK
<1>1. PipelineInv => TypeOK
  BY DEF PipelineInv
<1>. QED BY <1>1, PipelineInvariant, PTL

(* A detector that triggers has its evidence in the events table. *)
THEOREM NoFalseAlarm == Spec => []SignalsSound
<1>1. PipelineInv => SignalsSound
  BY DEF PipelineInv
<1>. QED BY <1>1, PipelineInvariant, PTL

(* Enough events that are still in the window make the detector trigger. *)
THEOREM NoMissedAlarm == Spec => []SignalsComplete
<1>1. PipelineInv => SignalsComplete
  BY DEF PipelineInv
<1>. QED BY <1>1, PipelineInvariant, PTL

(* An isolation rests on an IOC match or on the rows a detector counted,   *)
(* and spares the trusted and the allowlisted.                             *)
THEOREM IsolationHasCause == Spec => []IsolationJustified
<1>1. PipelineInv => IsolationJustified
  BY DEF PipelineInv
<1>. QED BY <1>1, PipelineInvariant, PTL

(* No source is ever charged with more failures than the events table has. *)
THEOREM FailuresAreOnRecord == Spec => []FailuresBacked
<1>1. PipelineInv => FailuresBacked
  <2>1. SUFFICES ASSUME PipelineInv, NEW i \in IPs
                 PROVE  Stored(actor[i]) <= Cardinality(FailuresOf(i))
    BY DEF FailuresBacked
  <2>2. Scored(i) \subseteq FailuresOf(i) /\ FailuresOf(i) \subseteq Rows
    BY DEF Scored, FailuresOf
  <2>3. IsFiniteSet(FailuresOf(i))
    BY <2>1, <2>2, RowsFinite DEF PipelineInv
  <2>4. /\ Cardinality(Scored(i)) \in Nat /\ Cardinality(FailuresOf(i)) \in Nat
        /\ Cardinality(Scored(i)) <= Cardinality(FailuresOf(i))
    BY <2>2, <2>3, CardinalityGrows
  <2>5. Stored(actor[i]) \in Nat /\ Stored(actor[i]) <= Cardinality(Scored(i))
    BY <2>1 DEF PipelineInv, CounterOK, TypeOK, Stored, NoRow
  <2>. QED BY <2>4, <2>5
<1>. QED BY <1>1, PipelineInvariant, PTL

=============================================================================

-------------------------- MODULE BanLifecycleProofs --------------------------
(***************************************************************************)
(* What BanLifecycle guarantees for every value of its constants.          *)
(***************************************************************************)
EXTENDS BanLifecycle, TLAPS

(* The idle frame is a frame, and every frame keeps its type when one of   *)
(* the fields the actions assign changes.                                  *)
LEMMA IdleFrame == Idle \in Frame
BY ConstantsOK DEF Idle, Frame, Stage, Job

LEMMA ProcTyping == Main \in Procs /\ Worker \in Procs /\ Operators \subseteq Procs
BY DEF Procs

(* Times and durations stay natural numbers. *)
LEMMA ExpiryTyping ==
  ASSUME clock \in Nat, NEW secs \in Nat
  PROVE  Expiry(secs) \in Nat /\ clock + secs * Resolution \in Nat
<1>1. secs * Resolution \in Nat
  BY ConstantsOK
<1>. QED BY <1>1 DEF Expiry, Never

LEMMA RemainingTyping ==
  ASSUME TypeOK, NEW b \in BanId, NEW now \in Nat
  PROVE  /\ Remaining(b, now) \in Nat
         /\ Remaining(b, now) = 0 <=> bans[b].expires = Never
<1>1. bans[b].expires \in Nat
  BY DEF TypeOK, BanRecord
<1>2. (bans[b].expires - now) \div Resolution \in Int
  BY <1>1, ConstantsOK
<1>. QED BY <1>1, <1>2 DEF Remaining, AtLeast, Never

(* The steps that several processes share. *)
LEMMA OpenTyping ==
  ASSUME TypeOK, NEW p \in Procs, NEW frame \in Frame, NEW i \in IPs,
         NEW want \in BanStatus, NEW secs \in Nat, Open(p, frame, i, want, secs)
  PROVE  /\ bans' \in [BanId -> BanRecord] /\ last' \in 0..MaxBans
         /\ at' \in [Procs -> Frame]
<1>1. last + 1 \in BanId
  BY ConstantsOK DEF TypeOK, Open, BanId
<1>2. clock + secs * Resolution \in Nat
  BY ExpiryTyping DEF TypeOK
<1>3. bans' \in [BanId -> BanRecord]
  BY <1>1, <1>2 DEF TypeOK, Open, BanRecord, Never
<1>4. [frame EXCEPT !.pc = IF want = "active" THEN "enforce" ELSE "save",
                    !.ip = i, !.ban = last + 1, !.want = want, !.rec = want] \in Frame
  BY <1>1 DEF Frame, Stage
<1>5. at' \in [Procs -> Frame]
  BY <1>4 DEF TypeOK, Open, Become
<1>. QED BY <1>1, <1>3, <1>5, ConstantsOK DEF TypeOK, Open, BanId

LEMMA BlockTyping ==
  ASSUME TypeOK, NEW i \in IPs, NEW secs \in Nat, BlockIp(i, secs)
  PROVE  rule' \in [IPs -> Nat \union {NoRule}]
BY ExpiryTyping DEF TypeOK, BlockIp

LEMMA FaultTyping ==
  ASSUME TypeOK, NEW kind, Fault(kind)
  PROVE  clock' \in Nat /\ available' \in BOOLEAN /\ faults' \in Nat /\ loss' \in Losses
<1>1. clock' \in Nat /\ available' \in BOOLEAN /\ faults' \in Nat
  BY DEF TypeOK, Fault
<1>2. loss' = "new" \/ loss' = loss
  BY DEF Fault
<1>. QED BY <1>1, <1>2 DEF TypeOK, Losses

LEMMA UnblockTyping ==
  ASSUME TypeOK, NEW i \in IPs, UnblockIp(i)
  PROVE  /\ rule' \in [IPs -> Nat \union {NoRule}]
         /\ clock' \in Nat /\ available' \in BOOLEAN /\ faults' \in Nat /\ loss' \in Losses
BY FaultTyping DEF TypeOK, UnblockIp, world, host

LEMMA RaiseTyping ==
  ASSUME TypeOK, NEW p \in Procs, at[p].ip \in IPs, at[p].ban \in BanId, Raise(p)
  PROVE  /\ bans' \in [BanId -> BanRecord] /\ last' \in 0..MaxBans
         /\ at' \in [Procs -> Frame]
<1>1. at[p] \in Frame /\ bans[at[p].ban].secs \in Nat
  BY DEF TypeOK, BanRecord
<1>2. CASE p = Main /\ at[p].want = "active"
  <2>1. Open(p, at[p], at[p].ip, "failed", bans[at[p].ban].secs)
    BY <1>2 DEF Raise
  <2>2. "failed" \in BanStatus
    BY DEF BanStatus
  <2>. QED BY <1>1, <2>1, <2>2, OpenTyping
<1>3. CASE ~(p = Main /\ at[p].want = "active")
  BY <1>3, IdleFrame DEF Raise, TypeOK, Become, ledger
<1>. QED BY <1>2, <1>3

-----------------------------------------------------------------------------
(* How a step of one process may change the ban table, the frames and the  *)
(* kernel set without disturbing CauseInv.                                 *)

Scenery ==
  /\ clock \in Nat /\ available \in BOOLEAN /\ faults \in Nat
  /\ actor \in [IPs -> ActorState \union {"absent"}]
  /\ daemon \in {"down", "starting", "up"} /\ beat \in Nat
  /\ response \in ResponseMode /\ reconciler \in BOOLEAN /\ loss \in Losses

LedgerStep(p) ==
  /\ bans' \in [BanId -> BanRecord]
  /\ last' \in 0..MaxBans /\ last <= last'
  /\ TableOK'
  /\ \A b \in 1..last : bans'[b].ip = bans[b].ip /\ bans'[b].secs = bans[b].secs
  /\ \A b \in 1..last : bans'[b].status # bans[b].status =>
       \/ Settled(b) /\ Settled(b)'
       \/ at[p].pc = "save" /\ at[p].ban = b /\ bans'[b].status = at[p].rec

ProcStep(p) ==
  /\ at' \in [Procs -> Frame]
  /\ \A q \in Procs : q # p => at'[q] = at[q]
  /\ FrameOK(p, at[p])'
  /\ at'[p].pc \in Creating =>
       at'[p].ban > last \/ (at'[p].ban = at[p].ban /\ at[p].pc = "enforce")

RuleStep ==
  /\ rule' \in [IPs -> Nat \union {NoRule}]
  /\ \A i \in IPs : rule'[i] # NoRule =>
       \/ rule'[i] = rule[i]
       \/ \E b \in 1..last :
            bans[b].ip = i /\ Explains(b)' /\ (rule'[i] = Never => bans[b].secs = 0)

LEMMA SettledStays ==
  ASSUME NEW p \in Procs, CauseInv, LedgerStep(p), NEW b \in 1..last, Settled(b)
  PROVE  Settled(b)'
<1>1. at[p].pc = "save" => bans[at[p].ban].status = "absent"
  BY DEF CauseInv, FrameOK, Creating
<1>. QED BY <1>1 DEF LedgerStep, Settled

LEMMA ExplainsStays ==
  ASSUME CauseInv, NEW p \in Procs, ProcStep(p), LedgerStep(p), NEW b \in 1..last, Explains(b)
  PROVE  Explains(b)'
<1>. last \in Nat
  BY ConstantsOK DEF CauseInv, TypeOK
<1>1. CASE Settled(b)
  BY <1>1, SettledStays DEF Explains
<1>2. CASE ~Settled(b) /\ bans'[b].status # bans[b].status
  <2>1. at[p].pc = "save" /\ at[p].ban = b /\ bans'[b].status = at[p].rec
    BY <1>2 DEF LedgerStep
  <2>2. at[p].rec = "active"
    BY <1>2, <2>1 DEF Explains, Creating
  <2>. QED BY <2>1, <2>2 DEF Explains, Settled
<1>3. CASE ~Settled(b) /\ bans'[b].status = bans[b].status
  <2>1. bans[b].status = "absent"
    BY <1>3 DEF Explains
  <2>2. ASSUME NEW q \in Procs, at'[q].pc \in Creating, at'[q].ban = b
        PROVE  at'[q].pc = "save" /\ at'[q].rec = "active"
    <3>1. CASE q # p
      BY <1>3, <2>1, <2>2, <3>1 DEF Explains, ProcStep
    <3>2. CASE q = p
      <4>1. at[p].ban = b /\ at[p].pc = "enforce"
        BY <2>2, <3>2 DEF ProcStep
      <4>. QED BY <1>3, <4>1 DEF Explains, Creating
    <3>. QED BY <3>1, <3>2
  <2>. QED BY <1>3, <2>1, <2>2 DEF Explains
<1>. QED BY <1>1, <1>2, <1>3

LEMMA OtherFrames ==
  ASSUME CauseInv, NEW p \in Procs, LedgerStep(p), NEW q \in Procs, q # p, at'[q] = at[q]
  PROVE  FrameOK(q, at[q])'
<1>1. FrameOK(q, at[q]) /\ at[q] \in Frame
  BY DEF CauseInv, TypeOK
<1>2. \A b \in 1..last : Settled(b) => Settled(b)'
  BY SettledStays
<1>3. at[q].pc \in Creating => bans'[at[q].ban].status = "absent"
  <2>1. ASSUME at[q].pc \in Creating PROVE bans'[at[q].ban].status = bans[at[q].ban].status
    <3>1. at[q].ban \in 1..last /\ bans[at[q].ban].status = "absent"
      BY <1>1, <2>1 DEF FrameOK
    <3>2. ~(at[p].pc = "save" /\ at[p].ban = at[q].ban)
      BY <2>1 DEF CauseInv, OneCreator, Creating
    <3>. QED BY <3>1, <3>2 DEF LedgerStep, Settled
  <2>. QED BY <1>1, <2>1 DEF FrameOK
<1>4. \A b \in at[q].todo : b \in 1..last
  BY <1>1 DEF FrameOK, Frame, BanId
<1>5. last \in Nat /\ last' \in Nat /\ last <= last'
  BY ConstantsOK DEF LedgerStep, CauseInv, TypeOK
<1>6. (\A b \in at[q].todo : b <= last /\ Settled(b))'
  BY <1>1, <1>2, <1>4, <1>5 DEF FrameOK
<1>7. \A b \in 1..last : b \in 1..last' /\ bans'[b].ip = bans[b].ip
  BY <1>5 DEF LedgerStep
<1>. QED BY <1>1, <1>2, <1>3, <1>6, <1>7 DEF FrameOK

LEMMA StepPreserves ==
  ASSUME CauseInv, NEW p \in Procs, ProcStep(p), LedgerStep(p), RuleStep, Scenery'
  PROVE  CauseInv'
<1>. last \in Nat /\ last' \in Nat /\ last <= last'
  BY ConstantsOK DEF CauseInv, TypeOK, LedgerStep
<1>2. TypeOK'
  BY DEF ProcStep, LedgerStep, RuleStep, Scenery, TypeOK
<1>3. \A q \in Procs : FrameOK(q, at[q])'
  <2>1. ASSUME NEW q \in Procs, q # p PROVE FrameOK(q, at[q])'
    <3>1. at'[q] = at[q]
      BY <2>1 DEF ProcStep
    <3>. QED BY <2>1, <3>1, OtherFrames
  <2>. QED BY <2>1 DEF ProcStep
<1>4. OneCreator'
  <2>1. ASSUME NEW q \in Procs, q # p, at'[p].pc \in Creating, at[q].pc \in Creating,
               at'[p].ban = at[q].ban
        PROVE  FALSE
    <3>1. at[q].ban \in 1..last
      BY <2>1 DEF CauseInv, FrameOK
    <3>2. at'[p].ban = at[p].ban /\ at[p].pc \in Creating
      BY <2>1, <3>1 DEF ProcStep, Creating
    <3>. QED BY <2>1, <3>2 DEF CauseInv, OneCreator
  <2>. QED BY <2>1 DEF CauseInv, OneCreator, ProcStep
<1>5. RulesExplained'
  <2>. SUFFICES ASSUME NEW i \in IPs, Blocked(i)'
                PROVE  (\E b \in 1..last : bans[b].ip = i /\ Explains(b)
                                           /\ (rule[i] = Never => bans[b].secs = 0))'
    BY DEF RulesExplained
  <2>1. PICK b \in 1..last :
          bans[b].ip = i /\ Explains(b)' /\ (rule'[i] = Never => bans[b].secs = 0)
    <3>1. CASE rule'[i] = rule[i]
      BY <3>1, ExplainsStays DEF CauseInv, RulesExplained, Blocked
    <3>. QED BY <3>1 DEF RuleStep, Blocked
  <2>2. b \in 1..last' /\ bans'[b].ip = bans[b].ip /\ bans'[b].secs = bans[b].secs
    BY DEF LedgerStep
  <2>. QED BY <2>1, <2>2
<1>. QED BY <1>2, <1>3, <1>4, <1>5 DEF LedgerStep, CauseInv

-----------------------------------------------------------------------------
(* The four ways an action treats the ban table. *)

LEMMA LedgerKept ==
  ASSUME CauseInv, NEW p \in Procs, UNCHANGED ledger
  PROVE  LedgerStep(p)
<1>1. last \in Nat
  BY ConstantsOK DEF CauseInv, TypeOK
<1>. QED BY <1>1 DEF CauseInv, TypeOK, LedgerStep, TableOK, ledger

LEMMA LedgerClosed ==
  ASSUME CauseInv, NEW p \in Procs, NEW b \in 1..last, Settled(b),
         NEW s \in {"expired", "unbanned"}, SetStatus(b, s), last' = last
  PROVE  LedgerStep(p)
<1>1. last \in 0..MaxBans /\ MaxBans \in Nat /\ b \in BanId
  BY ConstantsOK DEF CauseInv, TypeOK, BanId
<1>2. bans' = [bans EXCEPT ![b].status = s] /\ bans \in [BanId -> BanRecord]
  BY DEF SetStatus, CauseInv, TypeOK
<1>3. \A c \in 1..last : c \in BanId
  BY <1>1 DEF BanId
<1>4. TableOK'
  BY <1>1, <1>2, <1>3 DEF CauseInv, TableOK
<1>5. bans' \in [BanId -> BanRecord]
  BY <1>2 DEF BanRecord, BanStatus
<1>6. \A c \in 1..last : /\ bans'[c].ip = bans[c].ip /\ bans'[c].secs = bans[c].secs
                         /\ bans'[c].status # bans[c].status => Settled(c) /\ Settled(c)'
  BY <1>2, <1>3 DEF Settled
<1>. QED BY <1>1, <1>4, <1>5, <1>6 DEF LedgerStep

LEMMA LedgerSaved ==
  ASSUME CauseInv, NEW p \in Procs, at[p].pc = "save",
         SetStatus(at[p].ban, at[p].rec), last' = last
  PROVE  LedgerStep(p)
<1>1. last \in 0..MaxBans /\ MaxBans \in Nat
  BY ConstantsOK DEF CauseInv, TypeOK
<1>2. at[p].ban \in 1..last /\ at[p].rec \in BanStatus
  BY DEF CauseInv, FrameOK, Creating
<1>3. bans' = [bans EXCEPT ![at[p].ban].status = at[p].rec] /\ bans \in [BanId -> BanRecord]
  BY DEF SetStatus, CauseInv, TypeOK
<1>4. \A c \in 1..last : c \in BanId
  BY <1>1 DEF BanId
<1>5. TableOK'
  BY <1>1, <1>2, <1>3, <1>4 DEF CauseInv, TableOK
<1>6. bans' \in [BanId -> BanRecord]
  BY <1>2, <1>3, <1>4 DEF BanRecord
<1>7. \A c \in 1..last : bans'[c].ip = bans[c].ip /\ bans'[c].secs = bans[c].secs
  BY <1>2, <1>3, <1>4
<1>8. \A c \in 1..last : bans'[c].status # bans[c].status =>
        at[p].pc = "save" /\ at[p].ban = c /\ bans'[c].status = at[p].rec
  BY <1>2, <1>3, <1>4
<1>. QED BY <1>1, <1>5, <1>6, <1>7, <1>8 DEF LedgerStep

(* Opening a record also gives the frame of its creator. *)
LEMMA Opened ==
  ASSUME CauseInv, NEW p \in Procs, NEW frame \in Frame, NEW i \in IPs,
         NEW want \in BanStatus, NEW secs \in Nat,
         \A b \in frame.todo : b <= last /\ Settled(b),
         p = Main => frame.risk \in ActorState,
         Open(p, frame, i, want, secs), RuleStep, Scenery'
  PROVE  CauseInv'
<1>1. last \in 0..MaxBans /\ MaxBans \in Nat /\ last + 1 \in BanId /\ last' = last + 1 /\ last < MaxBans
  BY ConstantsOK DEF CauseInv, TypeOK, BanId, Open
<1>2. bans' \in [BanId -> BanRecord] /\ last' \in 0..MaxBans
  BY OpenTyping DEF CauseInv
<1>3. secs > 0 => clock + secs * Resolution > 0
  <2>1. clock \in Nat /\ Resolution \in Nat \ {0}
    BY ConstantsOK DEF CauseInv, TypeOK
  <2>2. secs > 0 => secs * Resolution > 0
    BY <2>1
  <2>3. secs * Resolution \in Nat
    BY <2>1
  <2>. QED BY <2>1, <2>2, <2>3
<1>. DEFINE row == [ip |-> i, secs |-> secs, status |-> "absent",
                    expires |-> IF secs > 0 THEN clock + secs * Resolution ELSE Never]
<1>4. bans' = [bans EXCEPT ![last + 1] = row]
  BY DEF Open
<1>5. LedgerStep(p)
  <2>1. \A b \in BanId : b # last + 1 => bans'[b] = bans[b]
    BY <1>4 DEF CauseInv, TypeOK
  <2>2. bans'[last + 1] = row
    BY <1>1, <1>4 DEF CauseInv, TypeOK
  <2>3. row.secs = 0 <=> row.expires = Never
    BY <1>3 DEF Never
  <2>4. \A b \in 1..last : b \in BanId /\ b # last + 1
    BY <1>1 DEF BanId
  <2>5. \A b \in 1..last' : b \in 1..last \/ b = last + 1
    BY <1>1
  <2>6. \A b \in 1..last' : bans'[b].ip \in IPs /\ (bans'[b].secs = 0 <=> bans'[b].expires = Never)
    BY <2>1, <2>2, <2>3, <2>4, <2>5 DEF CauseInv, TableOK
  <2>7. \A b \in BanId : b > last' => bans'[b] = Unallocated
    <3>1. \A b \in BanId : b > last' => b > last /\ b # last + 1
      BY <1>1 DEF BanId
    <3>. QED BY <2>1, <3>1 DEF CauseInv, TableOK
  <2>8. TableOK'
    BY <2>6, <2>7 DEF TableOK, BanId, Unallocated, Never
  <2>. QED BY <1>1, <1>2, <2>1, <2>4, <2>8 DEF LedgerStep
<1>6. ProcStep(p)
  <2>1. bans'[last + 1] = row /\ last + 1 \in 1..last'
    BY <1>1, <1>4 DEF CauseInv, TypeOK
  <2>2. at' = [at EXCEPT ![p] = [frame EXCEPT
                 !.pc = IF want = "active" THEN "enforce" ELSE "save",
                 !.ip = i, !.ban = last + 1, !.want = want, !.rec = want]]
    BY DEF Open, Become
  <2>3. at' \in [Procs -> Frame] /\ \A q \in Procs : q # p => at'[q] = at[q]
    BY <2>2, OpenTyping DEF CauseInv, TypeOK
  <2>4. /\ at'[p].todo = frame.todo /\ at'[p].ban = last + 1 /\ at'[p].ip = i
        /\ at'[p].want = want /\ at'[p].rec = want /\ at'[p].risk = frame.risk
        /\ at'[p].pc \in Creating /\ (at'[p].pc = "enforce" => want = "active")
    BY <2>2 DEF CauseInv, TypeOK, Frame, Creating
  <2>5. (\A b \in at[p].todo : b <= last /\ Settled(b))'
    <3>1. \A b \in frame.todo : b \in 1..last
      BY DEF Frame, BanId
    <3>. QED BY <1>1, <1>5, <2>4, <3>1, SettledStays
  <2>6. FrameOK(p, at[p])'
    BY <2>1, <2>4, <2>5 DEF FrameOK, Creating
  <2>. QED BY <1>1, <2>3, <2>4, <2>6 DEF ProcStep
<1>. HIDE DEF row
<1>. QED BY <1>5, <1>6, StepPreserves

LEMMA RuleKept ==
  ASSUME CauseInv, UNCHANGED rule
  PROVE  RuleStep
BY DEF CauseInv, TypeOK, RuleStep

LEMMA RuleRemoved ==
  ASSUME CauseInv, NEW i \in IPs, UnblockIp(i)
  PROVE  RuleStep /\ clock' \in Nat /\ available' \in BOOLEAN /\ faults' \in Nat /\ loss' \in Losses
BY UnblockTyping DEF CauseInv, TypeOK, RuleStep, UnblockIp

(* A rule put in place for a settled ban. *)
LEMMA RuleBlocked ==
  ASSUME CauseInv, NEW b \in 1..last, NEW secs \in Nat, BlockIp(bans[b].ip, secs),
         Explains(b)', secs = 0 <=> bans[b].secs = 0
  PROVE  RuleStep
<1>1. bans[b].ip \in IPs
  BY DEF CauseInv, TableOK
<1>2. rule' \in [IPs -> Nat \union {NoRule}]
  BY <1>1, BlockTyping DEF CauseInv
<1>3. Expiry(secs) = Never => secs = 0
  <2>1. secs > 0 => secs * Resolution > 0 /\ secs * Resolution \in Nat
    BY ConstantsOK
  <2>2. clock \in Nat
    BY DEF CauseInv, TypeOK
  <2>. QED BY <2>1, <2>2 DEF Expiry, Never
<1>4. ASSUME NEW i \in IPs, rule'[i] # NoRule, rule'[i] # rule[i]
      PROVE  \E c \in 1..last :
               bans[c].ip = i /\ Explains(c)' /\ (rule'[i] = Never => bans[c].secs = 0)
  <2>1. i = bans[b].ip /\ rule'[i] = Expiry(secs)
    BY <1>1, <1>4 DEF BlockIp, CauseInv, TypeOK
  <2>. QED BY <1>3, <2>1
<1>. QED BY <1>2, <1>4 DEF RuleStep

LEMMA Retired ==
  ASSUME CauseInv, NEW p \in Procs, Become(p, Idle)
  PROVE  ProcStep(p)
<1>1. at' = [at EXCEPT ![p] = Idle] /\ at \in [Procs -> Frame] /\ Idle \in Frame
  BY IdleFrame DEF Become, CauseInv, TypeOK
<1>2. at'[p] = Idle
  BY <1>1
<1>3. FrameOK(p, at[p])'
  BY <1>2 DEF FrameOK, Idle, Creating
<1>. QED BY <1>1, <1>2, <1>3 DEF ProcStep, Idle, Creating

-----------------------------------------------------------------------------
(* create_ban, whoever calls it. *)

LEMMA RaisePreserves ==
  ASSUME CauseInv, NEW p \in Procs, Raise(p), RuleStep, Scenery',
         at[p].pc \in Creating \union {"writeActor", "profile"}
  PROVE  CauseInv'
<1>1. FrameOK(p, at[p]) /\ at[p] \in Frame
  BY DEF CauseInv, TypeOK
<1>2. CASE p = Main /\ at[p].want = "active"
  <2>1. Open(p, at[p], at[p].ip, "failed", bans[at[p].ban].secs)
    BY <1>2 DEF Raise
  <2>2. at[p].pc # "profile"
    BY <1>1, <1>2, ConstantsOK DEF FrameOK, BanStatus
  <2>3. at[p].ip \in IPs /\ at[p].ban \in 1..last /\ at[p].risk \in ActorState
    BY <1>1, <1>2, <2>2 DEF FrameOK
  <2>4. bans[at[p].ban].secs \in Nat
    BY <2>3, ConstantsOK DEF CauseInv, TypeOK, BanRecord, BanId
  <2>5. \A b \in at[p].todo : b <= last /\ Settled(b)
    BY <1>1 DEF FrameOK
  <2>6. "failed" \in BanStatus
    BY DEF BanStatus
  <2>. QED BY <1>1, <1>2, <2>1, <2>3, <2>4, <2>5, <2>6, Opened
<1>3. CASE ~(p = Main /\ at[p].want = "active")
  BY <1>3, Retired, LedgerKept, StepPreserves DEF Raise
<1>. QED BY <1>2, <1>3

LEMMA CreatePreserves ==
  ASSUME CauseInv, NEW p \in Procs, CreateStep(p)
  PROVE  CauseInv'
<1>. FrameOK(p, at[p]) /\ at[p] \in Frame /\ at \in [Procs -> Frame]
  BY DEF CauseInv, TypeOK
<1>1. CASE EnforceBlocks(p)
  <2>1. at' = [at EXCEPT ![p].pc = "save"] /\ LedgerStep(p)
    BY <1>1, LedgerKept DEF EnforceBlocks, Goto
  <2>2. ProcStep(p)
    BY <1>1, <2>1 DEF EnforceBlocks, ProcStep, FrameOK, Creating, Frame, Stage, ledger, Settled
  <2>. PICK b \in 1..last : b = at[p].ban /\ bans[b].ip = at[p].ip
    BY <1>1 DEF EnforceBlocks, FrameOK, Creating
  <2>3. Explains(b)'
    BY <1>1, <2>1 DEF EnforceBlocks, Explains, FrameOK, Creating, CauseInv, OneCreator, ledger
  <2>4. RuleStep
    <3>1. bans[b].secs \in Nat
      BY ConstantsOK DEF CauseInv, TypeOK, BanRecord, BanId
    <3>. QED BY <1>1, <2>3, <3>1, RuleBlocked DEF EnforceBlocks
  <2>5. Scenery'
    BY <1>1 DEF EnforceBlocks, Scenery, CauseInv, TypeOK, world, host, mode
  <2>. QED BY <2>1, <2>2, <2>4, <2>5, StepPreserves
<1>2. CASE EnforceRefused(p)
  <2>1. at' = [at EXCEPT ![p] = [at[p] EXCEPT !.pc = "save", !.rec = "failed"]] /\ LedgerStep(p) /\ RuleStep
    BY <1>2, LedgerKept, RuleKept DEF EnforceRefused, Become
  <2>2. ProcStep(p)
    BY <1>2, <2>1 DEF EnforceRefused, ProcStep, FrameOK, Creating, Frame, Stage, BanStatus, ledger, Settled
  <2>3. Scenery'
    BY <1>2 DEF EnforceRefused, Scenery, CauseInv, TypeOK, world, host, mode
  <2>. QED BY <2>1, <2>2, <2>3, StepPreserves
<1>3. CASE SaveBan(p)
  <2>1. at' = [at EXCEPT ![p].pc = "readActor"] /\ LedgerStep(p) /\ RuleStep
    BY <1>3, LedgerSaved, RuleKept DEF SaveBan, Goto
  <2>2. \A b \in at[p].todo : b <= last' /\ Settled(b)'
    BY <1>3, <2>1, SettledStays DEF FrameOK, SaveBan, Frame, BanId
  <2>3. ProcStep(p)
    BY <1>3, <2>1, <2>2 DEF SaveBan, ProcStep, FrameOK, Creating, Frame, Stage, LedgerStep
  <2>4. Scenery'
    BY <1>3 DEF SaveBan, Scenery, CauseInv, TypeOK, world, host, mode
  <2>. QED BY <2>1, <2>3, <2>4, StepPreserves
<1>4. CASE ReadActor(p)
  <2>1. /\ at' = [at EXCEPT ![p] = [at[p] EXCEPT !.pc = "writeActor", !.profile = ProfileAfter(p)]]
        /\ LedgerStep(p) /\ RuleStep
    BY <1>4, LedgerKept, RuleKept DEF ReadActor, Become
  <2>2. ProfileAfter(p) \in ActorState
    BY <1>4 DEF ProfileAfter, ReadActor, FrameOK, ActorState, CauseInv, TypeOK
  <2>3. ProcStep(p)
    BY <1>4, <2>1, <2>2 DEF ReadActor, ProcStep, FrameOK, Creating, Frame, Stage, ledger, Settled
  <2>4. Scenery'
    BY <1>4 DEF ReadActor, Scenery, CauseInv, TypeOK, world, host, mode
  <2>. QED BY <2>1, <2>3, <2>4, StepPreserves
<1>5. CASE WriteActor(p)
  <2>1. LedgerStep(p) /\ RuleStep
    BY <1>5, LedgerKept, RuleKept DEF WriteActor
  <2>2. ProcStep(p)
    <3>1. CASE p = Main
      <4>1. at' = [at EXCEPT ![p] = [Idle EXCEPT !.pc = "profile", !.ip = at[p].ip, !.risk = at[p].risk]]
        BY <1>5, <3>1 DEF WriteActor, Become
      <4>2. [Idle EXCEPT !.pc = "profile", !.ip = at[p].ip, !.risk = at[p].risk] \in Frame
        BY IdleFrame DEF Frame, Stage
      <4>. QED BY <1>5, <3>1, <4>1, <4>2 DEF WriteActor, ProcStep, FrameOK, Creating, Idle
    <3>. QED BY <1>5, <3>1, Retired DEF WriteActor
  <2>3. Scenery'
    BY <1>5 DEF WriteActor, FrameOK, Creating, Scenery, CauseInv, TypeOK, world, host, mode
  <2>. QED BY <2>1, <2>2, <2>3, StepPreserves
<1>6. CASE EnforceRaises(p)
  <2>1. Scenery'
    BY <1>6 DEF EnforceRaises, Fault, Scenery, CauseInv, TypeOK, mode
  <2>. QED BY <1>6, <2>1, RuleKept, RaisePreserves DEF EnforceRaises, Creating
<1>7. CASE SaveRaises(p)
  <2>1. Scenery'
    BY <1>7 DEF SaveRaises, Fault, Scenery, CauseInv, TypeOK, mode
  <2>. QED BY <1>7, <2>1, RuleKept, RaisePreserves DEF SaveRaises, Creating
<1>. QED BY <1>1, <1>2, <1>3, <1>4, <1>5, <1>6, <1>7 DEF CreateStep

-----------------------------------------------------------------------------
(* Events and commands. *)

LEMMA ArrivalPreserves ==
  ASSUME CauseInv, Arrivals
  PROVE  CauseInv'
<1>. Main \in Procs /\ Operators \subseteq Procs /\ at \in [Procs -> Frame]
  BY ProcTyping DEF CauseInv, TypeOK
<1>r. RiskStates \subseteq ActorState /\ Durations \subseteq Nat
  BY ConstantsOK DEF ActorState
<1>1. ASSUME NEW i \in IPs, NEW r \in RiskStates, EventPasses(i, r)
      PROVE  CauseInv'
  <2>1. at' = [at EXCEPT ![Main] = [Idle EXCEPT !.pc = "profile", !.ip = i, !.risk = r]]
    BY <1>1 DEF EventPasses, Become
  <2>2. [Idle EXCEPT !.pc = "profile", !.ip = i, !.risk = r] \in Frame
    BY IdleFrame, <1>r DEF Frame, Stage
  <2>3. ProcStep(Main)
    BY <1>r, <2>1, <2>2 DEF ProcStep, FrameOK, Creating, Idle
  <2>4. Scenery'
    BY <1>1 DEF EventPasses, Scenery, CauseInv, TypeOK, world, host, mode
  <2>. QED BY <1>1, <2>3, <2>4, LedgerKept, RuleKept, StepPreserves DEF EventPasses
<1>2. ASSUME NEW i \in IPs, NEW r \in RiskStates, NEW d \in Durations, EventIsolates(i, r, d)
      PROVE  CauseInv'
  <2>1. Open(Main, [Idle EXCEPT !.risk = r], i, ResponseStatus, d) /\ RuleStep
    BY <1>2, RuleKept DEF EventIsolates
  <2>2. [Idle EXCEPT !.risk = r] \in Frame
    BY IdleFrame, <1>r DEF Frame
  <2>3. ResponseStatus \in BanStatus
    BY DEF ResponseStatus, BanStatus
  <2>4. Scenery'
    BY <1>2 DEF EventIsolates, Scenery, CauseInv, TypeOK, world, host, mode
  <2>. QED BY <1>r, <2>1, <2>2, <2>3, <2>4, Opened DEF Idle
<1>3. ASSUME NEW o \in Operators, NEW i \in IPs, UnbanCommand(o, i)
      PROVE  CauseInv'
  <2>1. at' = [at EXCEPT ![o] = [Idle EXCEPT !.pc = "unbanFind", !.ip = i]]
    BY <1>3 DEF UnbanCommand, Become
  <2>2. [Idle EXCEPT !.pc = "unbanFind", !.ip = i] \in Frame
    BY IdleFrame DEF Frame, Stage
  <2>3. ProcStep(o)
    BY <2>1, <2>2 DEF ProcStep, FrameOK, Creating, Idle
  <2>4. RuleStep /\ Scenery'
    BY <1>3, RuleRemoved DEF UnbanCommand, Scenery, CauseInv, TypeOK, mode
  <2>. QED BY <1>3, <2>3, <2>4, LedgerKept, StepPreserves DEF UnbanCommand
<1>4. ASSUME NEW o \in Operators, NEW i \in IPs, NEW d \in Durations, BanCommand(o, i, d)
      PROVE  CauseInv'
  <2>1. Open(o, Idle, i, "active", d) /\ RuleStep /\ "active" \in BanStatus
    BY <1>4, RuleKept DEF BanCommand, BanStatus
  <2>2. Scenery'
    BY <1>4 DEF BanCommand, Scenery, CauseInv, TypeOK, world, host, mode
  <2>3. o # Main /\ Idle.todo = {}
    BY ConstantsOK DEF Idle
  <2>. QED BY <1>r, <2>1, <2>2, <2>3, IdleFrame, Opened
<1>. QED BY <1>1, <1>2, <1>3, <1>4 DEF Arrivals

LEMMA SaveProfilePreserves ==
  ASSUME CauseInv, SaveProfile
  PROVE  CauseInv'
<1>1. Main \in Procs /\ FrameOK(Main, at[Main])
  BY ProcTyping DEF CauseInv
<1>2. Scenery'
  BY <1>1 DEF SaveProfile, FrameOK, Scenery, CauseInv, TypeOK, world, host, mode
<1>. QED BY <1>1, <1>2, Retired, LedgerKept, RuleKept, StepPreserves DEF SaveProfile

LEMMA UnbanPreserves ==
  ASSUME CauseInv, NEW o \in Operators,
         UnbanFinds(o) \/ UnbanFindsNothing(o) \/ MarkUnbanned(o) \/ ReleaseActor(o)
  PROVE  CauseInv'
<1>. o \in Procs /\ FrameOK(o, at[o]) /\ at[o] \in Frame /\ at \in [Procs -> Frame]
  BY ProcTyping DEF CauseInv, TypeOK
<1>1. CASE UnbanFinds(o)
  <2>1. PICK b \in Latest(ActiveFor(at[o].ip)) :
          at' = [at EXCEPT ![o] = [at[o] EXCEPT !.pc = "unbanMark", !.ban = b]]
    BY <1>1 DEF UnbanFinds, Become
  <2>2. b \in BanId /\ bans[b].status = "active" /\ bans[b] # Unallocated
    BY <2>1 DEF Latest, ActiveFor, Active, Unallocated
  <2>3. b \in 1..last
    BY <2>2, ConstantsOK DEF CauseInv, TableOK, TypeOK, BanId
  <2>4. ProcStep(o)
    BY <1>1, <2>1, <2>2, <2>3 DEF UnbanFinds, ProcStep, FrameOK, Creating, Frame, Stage, Settled, ledger
  <2>5. Scenery'
    BY <1>1 DEF UnbanFinds, Scenery, CauseInv, TypeOK, world, host, mode
  <2>. QED BY <1>1, <2>4, <2>5, LedgerKept, RuleKept, StepPreserves DEF UnbanFinds
<1>2. CASE UnbanFindsNothing(o)
  <2>1. ProcStep(o)
    BY <1>2 DEF UnbanFindsNothing, Goto, ProcStep, FrameOK, Creating, Frame, Stage, Settled, ledger
  <2>2. Scenery'
    BY <1>2 DEF UnbanFindsNothing, Scenery, CauseInv, TypeOK, world, host, mode
  <2>. QED BY <1>2, <2>1, <2>2, LedgerKept, RuleKept, StepPreserves DEF UnbanFindsNothing
<1>3. CASE MarkUnbanned(o)
  <2>. PICK b \in 1..last : b = at[o].ban /\ Settled(b) /\ at[o].ip \in IPs
    BY <1>3 DEF MarkUnbanned, FrameOK
  <2>1. LedgerStep(o)
    BY <1>3, LedgerClosed DEF MarkUnbanned
  <2>2. \A c \in at[o].todo : c <= last' /\ Settled(c)'
    BY <1>3, <2>1, SettledStays DEF FrameOK, MarkUnbanned, Frame, BanId
  <2>3. ProcStep(o)
    BY <1>3, <2>2 DEF MarkUnbanned, Goto, ProcStep, FrameOK, Creating, Frame, Stage
  <2>4. Scenery'
    BY <1>3 DEF MarkUnbanned, Scenery, CauseInv, TypeOK, world, host, mode
  <2>. QED BY <1>3, <2>1, <2>3, <2>4, RuleKept, StepPreserves DEF MarkUnbanned
<1>4. CASE ReleaseActor(o)
  <2>1. Scenery'
    BY <1>4 DEF ReleaseActor, MoveActor, ActorState, Scenery, CauseInv, TypeOK, world, host, mode
  <2>. QED BY <1>4, <2>1, Retired, LedgerKept, RuleKept, StepPreserves DEF ReleaseActor
<1>. QED BY <1>1, <1>2, <1>3, <1>4

-----------------------------------------------------------------------------
(* Startup, sweeps and reconciliations work on rows that are settled.      *)

LEMMA ActiveRows ==
  ASSUME CauseInv
  PROVE  /\ \A b \in Active : b <= last /\ b \in 1..last /\ Settled(b)
         /\ Active \subseteq BanId
<1>1. \A b \in Active : b \in BanId /\ bans[b] # Unallocated /\ Settled(b)
  BY DEF Active, Unallocated, Settled
<1>2. last \in 0..MaxBans /\ MaxBans \in Nat
  BY ConstantsOK DEF CauseInv, TypeOK
<1>. QED BY <1>1, <1>2 DEF CauseInv, TableOK, BanId

LEMMA TodoRows ==
  ASSUME CauseInv, NEW p \in Procs, NEW b \in at[p].todo
  PROVE  b \in 1..last /\ b \in BanId /\ Settled(b)
BY DEF CauseInv, TypeOK, Frame, FrameOK, BanId

(* A frame that only walks on through its snapshot, or takes a new one. *)
LEMMA Walk ==
  ASSUME CauseInv, NEW p \in Procs, at' = [at EXCEPT ![p] = at'[p]], at'[p] \in Frame,
         LedgerStep(p),
         \A b \in at'[p].todo : b \in at[p].todo \/ b \in Active,
         at'[p].pc \in {"idle", "sync", "sweep", "reconcile", "list", "expect", "restore"}
  PROVE  ProcStep(p)
<1>1. \A b \in at'[p].todo : b \in 1..last /\ Settled(b)
  BY ActiveRows, TodoRows
<1>2. \A b \in at'[p].todo : b <= last' /\ Settled(b)'
  BY <1>1, SettledStays, ConstantsOK DEF LedgerStep, CauseInv, TypeOK
<1>3. FrameOK(p, at[p])'
  BY <1>2 DEF FrameOK, Creating
<1>. QED BY <1>3 DEF ProcStep, Creating, CauseInv, TypeOK

(* Putting back the rule of a row in a snapshot. *)
LEMMA RestorePreserves ==
  ASSUME CauseInv, NEW p \in Procs, NEW b \in at[p].todo, UNCHANGED ledger,
         BlockIp(bans[b].ip, Remaining(b, at[p].t0))
  PROVE  RuleStep
<1>1. b \in 1..last /\ b \in BanId /\ Settled(b)
  BY TodoRows
<1>2. at[p].t0 \in Nat
  BY DEF CauseInv, TypeOK, Frame
<1>3. Remaining(b, at[p].t0) \in Nat /\ (Remaining(b, at[p].t0) = 0 <=> bans[b].secs = 0)
  BY <1>1, <1>2, RemainingTyping DEF CauseInv, TableOK
<1>4. Explains(b)'
  BY <1>1 DEF Explains, Settled, ledger
<1>. QED BY <1>1, <1>3, <1>4, RuleBlocked

LEMMA SyncPreserves ==
  ASSUME CauseInv, StartDaemon \/ SyncStep
  PROVE  CauseInv'
<1>. Main \in Procs /\ at[Main] \in Frame /\ at \in [Procs -> Frame] /\ clock \in Nat
  BY ProcTyping DEF CauseInv, TypeOK
<1>1. CASE StartDaemon
  <2>1. at' = [at EXCEPT ![Main] = [Idle EXCEPT !.pc = "sync", !.job = "sync",
                                               !.todo = Active, !.t0 = clock]]
    BY <1>1 DEF StartDaemon, Looks, Become
  <2>2. [Idle EXCEPT !.pc = "sync", !.job = "sync", !.todo = Active, !.t0 = clock] \in Frame
    BY ActiveRows, ConstantsOK DEF Idle, Frame, Stage, Job
  <2>3. LedgerStep(Main) /\ RuleStep
    BY <1>1, LedgerKept, RuleKept DEF StartDaemon, Looks
  <2>4. ProcStep(Main)
    BY <2>1, <2>2, <2>3, Walk DEF Idle
  <2>5. Scenery'
    BY <1>1, ConstantsOK DEF StartDaemon, Looks, Scenery, CauseInv, TypeOK, world, host, Losses
  <2>. QED BY <2>3, <2>4, <2>5, StepPreserves
<1>2. CASE SyncExpires
  <2>. PICK b \in at[Main].todo : SetStatus(b, "expired")
                                  /\ at' = [at EXCEPT ![Main] = [at[Main] EXCEPT !.todo = @ \ {b}]]
    BY <1>2 DEF SyncExpires, Become, Latest
  <2>1. LedgerStep(Main) /\ RuleStep
    BY <1>2, TodoRows, LedgerClosed, RuleKept DEF SyncExpires
  <2>2. ProcStep(Main)
    BY <1>2, <2>1, Walk DEF SyncExpires, Frame
  <2>3. Scenery'
    BY <1>2 DEF SyncExpires, Scenery, CauseInv, TypeOK, world, host, mode
  <2>. QED BY <2>1, <2>2, <2>3, StepPreserves
<1>3. CASE SyncBlocks
  <2>. PICK b \in at[Main].todo : BlockIp(bans[b].ip, Remaining(b, at[Main].t0))
                                  /\ at' = [at EXCEPT ![Main] = [at[Main] EXCEPT !.todo = @ \ {b}]]
    BY <1>3 DEF SyncBlocks, Become, Latest
  <2>1. LedgerStep(Main) /\ RuleStep
    BY <1>3, LedgerKept, RestorePreserves DEF SyncBlocks
  <2>2. ProcStep(Main)
    BY <1>3, <2>1, Walk DEF SyncBlocks, Frame
  <2>3. Scenery'
    BY <1>3 DEF SyncBlocks, Scenery, CauseInv, TypeOK, world, host, mode
  <2>. QED BY <2>1, <2>2, <2>3, StepPreserves
<1>4. CASE SyncFails
  <2>1. Scenery'
    BY <1>4 DEF SyncFails, Fault, Scenery, CauseInv, TypeOK, world, host
  <2>. QED BY <1>4, <2>1, Retired, LedgerKept, RuleKept, StepPreserves DEF SyncFails
<1>5. CASE SyncDone
  <2>1. at' = [at EXCEPT ![Main] = [Idle EXCEPT !.pc = "reconcile", !.job = "reconcile"]]
    BY <1>5 DEF SyncDone, MakesUp, Become
  <2>2. [Idle EXCEPT !.pc = "reconcile", !.job = "reconcile"] \in Frame
    BY IdleFrame DEF Frame, Stage, Job
  <2>3. LedgerStep(Main) /\ RuleStep
    BY <1>5, LedgerKept, RuleKept DEF SyncDone, MakesUp
  <2>4. ProcStep(Main)
    BY <2>1, <2>2, <2>3, Walk DEF Idle
  <2>5. Scenery'
    BY <1>5 DEF SyncDone, MakesUp, Scenery, CauseInv, TypeOK, world, host, Losses
  <2>. QED BY <2>3, <2>4, <2>5, StepPreserves
<1>. QED BY <1>1, <1>2, <1>3, <1>4, <1>5 DEF SyncStep

LEMMA EndReconcilePreserves ==
  ASSUME CauseInv, NEW p \in Procs, EndReconcile(p), UNCHANGED <<rule, ledger, actor>>,
         clock' \in Nat, available' \in BOOLEAN, faults' \in Nat, loss' \in Losses
  PROVE  CauseInv'
<1>1. ProcStep(p) /\ LedgerStep(p) /\ RuleStep
  BY Retired, LedgerKept, RuleKept DEF EndReconcile
<1>2. Scenery'
  BY DEF EndReconcile, Scenery, CauseInv, TypeOK
<1>. QED BY <1>1, <1>2, StepPreserves

(* The sweep, on its own or inside a reconciliation. *)
LEMMA SweepPreserves ==
  ASSUME CauseInv, NEW p \in Procs,
         \/ SweepSkips(p) \/ SweepUnblocks(p) \/ MarkExpired(p) \/ ExpireActor(p)
         \/ SweepRaises(p) \/ SweepDone(p)
  PROVE  CauseInv'
<1>. FrameOK(p, at[p]) /\ at[p] \in Frame /\ at \in [Procs -> Frame]
  BY DEF CauseInv, TypeOK
<1>1. CASE SweepSkips(p)
  <2>. PICK b \in at[p].todo : at' = [at EXCEPT ![p] = [at[p] EXCEPT !.todo = @ \ {b}]]
    BY <1>1 DEF SweepSkips, Become, Latest
  <2>1. LedgerStep(p) /\ RuleStep
    BY <1>1, LedgerKept, RuleKept DEF SweepSkips
  <2>2. ProcStep(p)
    BY <1>1, <2>1, Walk DEF SweepSkips, Frame
  <2>3. Scenery'
    BY <1>1 DEF SweepSkips, Scenery, CauseInv, TypeOK, world, host, mode
  <2>. QED BY <2>1, <2>2, <2>3, StepPreserves
<1>2. CASE SweepUnblocks(p)
  <2>. PICK b \in at[p].todo :
         /\ UnblockIp(bans[b].ip)
         /\ at' = [at EXCEPT ![p] = [at[p] EXCEPT !.pc = "markExpired", !.ban = b]]
    BY <1>2 DEF SweepUnblocks, Become, Latest
  <2>1. b \in 1..last /\ b \in BanId /\ Settled(b) /\ bans[b].ip \in IPs
    BY TodoRows DEF CauseInv, TableOK
  <2>2. LedgerStep(p) /\ RuleStep
    BY <1>2, <2>1, LedgerKept, RuleRemoved DEF SweepUnblocks
  <2>3. ProcStep(p)
    <3>1. [at[p] EXCEPT !.pc = "markExpired", !.ban = b] \in Frame
      BY <2>1 DEF Frame, Stage
    <3>2. last' = last /\ bans' = bans
      BY <1>2 DEF SweepUnblocks, ledger
    <3>. QED BY <2>1, <3>1, <3>2 DEF ProcStep, FrameOK, Creating, Frame, Settled
  <2>4. Scenery'
    BY <1>2, <2>1, RuleRemoved DEF SweepUnblocks, Scenery, CauseInv, TypeOK, mode
  <2>. QED BY <2>2, <2>3, <2>4, StepPreserves
<1>3. CASE MarkExpired(p)
  <2>. PICK b \in 1..last : b = at[p].ban /\ Settled(b)
    BY <1>3 DEF MarkExpired, FrameOK
  <2>1. LedgerStep(p) /\ RuleStep
    BY <1>3, LedgerClosed, RuleKept DEF MarkExpired
  <2>2. \A c \in at[p].todo : c <= last' /\ Settled(c)'
    BY <1>3, <2>1, SettledStays, TodoRows DEF MarkExpired, FrameOK
  <2>3. b \in 1..last' /\ Settled(b)'
    BY <1>3, <2>1, SettledStays DEF MarkExpired
  <2>4. ProcStep(p)
    BY <1>3, <2>2, <2>3 DEF MarkExpired, Goto, ProcStep, FrameOK, Creating, Frame, Stage
  <2>5. Scenery'
    BY <1>3 DEF MarkExpired, Scenery, CauseInv, TypeOK, world, host, mode
  <2>. QED BY <2>1, <2>4, <2>5, StepPreserves
<1>4. CASE ExpireActor(p)
  <2>1. at' = [at EXCEPT ![p] = [at[p] EXCEPT !.pc = "sweep", !.ban = 0, !.todo = @ \ {at[p].ban}]]
    BY <1>4 DEF ExpireActor, Become
  <2>2. LedgerStep(p) /\ RuleStep
    BY <1>4, LedgerKept, RuleKept DEF ExpireActor
  <2>3. ProcStep(p)
    BY <1>4, <2>1, <2>2, Walk DEF ExpireActor, Frame, Stage
  <2>4. Scenery'
    BY <1>4 DEF ExpireActor, MoveActor, ActorState, Scenery, CauseInv, TypeOK, world, host, mode
  <2>. QED BY <2>2, <2>3, <2>4, StepPreserves
<1>5. CASE SweepRaises(p)
  <2>1. LedgerStep(p) /\ RuleStep
    BY <1>5, LedgerKept, RuleKept DEF SweepRaises
  <2>2. clock' \in Nat /\ available' \in BOOLEAN /\ faults' \in Nat /\ loss' \in Losses
    BY <1>5 DEF SweepRaises, Fault, CauseInv, TypeOK
  <2>3. CASE at[p].job = "reconcile"
    BY <1>5, <2>2, <2>3, EndReconcilePreserves DEF SweepRaises
  <2>4. CASE at[p].job # "reconcile"
    <3>1. Become(p, [Idle EXCEPT !.pc = "reconcile"]) \/ Become(p, Idle)
      BY <1>5, <2>4 DEF SweepRaises
    <3>2. UNCHANGED mode /\ UNCHANGED actor
      BY <1>5, <2>4 DEF SweepRaises
    <3>3. ProcStep(p)
      <4>1. [Idle EXCEPT !.pc = "reconcile"] \in Frame
        BY IdleFrame DEF Frame, Stage
      <4>. QED BY <2>1, <3>1, <4>1, Retired, Walk DEF Become, Idle
    <3>4. Scenery'
      BY <2>2, <3>2 DEF Scenery, CauseInv, TypeOK, mode
    <3>. QED BY <2>1, <3>3, <3>4, StepPreserves
  <2>. QED BY <2>3, <2>4
<1>6. CASE SweepDone(p)
  <2>1. LedgerStep(p) /\ RuleStep
    BY <1>6, LedgerKept, RuleKept DEF SweepDone
  <2>2. Scenery'
    BY <1>6 DEF SweepDone, Scenery, CauseInv, TypeOK, world, host, mode
  <2>3. ProcStep(p)
    <3>1. \/ Become(p, [Idle EXCEPT !.pc = "reconcile"])
          \/ Become(p, [at[p] EXCEPT !.pc = "list"])
          \/ Become(p, Idle)
      BY <1>6 DEF SweepDone, Goto, Become
    <3>2. [Idle EXCEPT !.pc = "reconcile"] \in Frame
      BY IdleFrame DEF Frame, Stage
    <3>3. CASE Become(p, [at[p] EXCEPT !.pc = "list"])
      BY <2>1, <3>3, Walk DEF Become, Frame, Stage
    <3>. QED BY <2>1, <3>1, <3>2, <3>3, Retired, Walk DEF Become, Idle
  <2>. QED BY <2>1, <2>2, <2>3, StepPreserves
<1>. QED BY <1>1, <1>2, <1>3, <1>4, <1>5, <1>6

LEMMA WorkerTurnPreserves ==
  ASSUME CauseInv, WorkerTurn
  PROVE  CauseInv'
<1>. Worker \in Procs /\ at \in [Procs -> Frame] /\ at[Worker] \in Frame
  BY ProcTyping DEF CauseInv, TypeOK
<1>1. LedgerStep(Worker) /\ RuleStep
  BY LedgerKept, RuleKept DEF WorkerTurn
<1>2. Scenery'
  BY DEF WorkerTurn, Scenery, CauseInv, TypeOK, world, host
<1>3. \/ StartSweep(Worker, "sweepThenReconcile", 0)
      \/ StartSweep(Worker, "sweep", 0)
      \/ Become(Worker, [Idle EXCEPT !.pc = "reconcile"])
      \/ UNCHANGED at
  BY DEF WorkerTurn
<1>4. ASSUME NEW job \in {"sweepThenReconcile", "sweep"}, StartSweep(Worker, job, 0)
      PROVE  ProcStep(Worker)
  <2>1. [Idle EXCEPT !.pc = "sweep", !.job = job, !.todo = Active, !.t0 = 0] \in Frame
    BY ActiveRows, ConstantsOK DEF Idle, Frame, Stage, Job
  <2>. QED BY <1>1, <1>4, <2>1, Walk DEF StartSweep, Become, Idle
<1>5. CASE Become(Worker, [Idle EXCEPT !.pc = "reconcile"])
  <2>1. [Idle EXCEPT !.pc = "reconcile"] \in Frame
    BY IdleFrame DEF Frame, Stage
  <2>. QED BY <1>1, <1>2, <1>5, <2>1, Walk, StepPreserves DEF Become, Idle
<1>6. CASE UNCHANGED at
  <2>1. at[Worker].pc = "idle" /\ FrameOK(Worker, at[Worker])
    BY DEF WorkerTurn, CauseInv
  <2>2. ProcStep(Worker)
    BY <1>1, <1>6, <2>1, Walk
  <2>. QED BY <1>1, <1>2, <2>2, StepPreserves
<1>. QED BY <1>1, <1>2, <1>3, <1>4, <1>5, <1>6, StepPreserves

LEMMA ReconcilePreserves ==
  ASSUME CauseInv, NEW p \in Procs, ReconcileStep(p)
  PROVE  CauseInv'
<1>. at[p] \in Frame /\ at \in [Procs -> Frame] /\ clock \in Nat
  BY DEF CauseInv, TypeOK
<1>1. CASE ReconcileBegins(p)
  <2>1. [Idle EXCEPT !.pc = "sweep", !.job = "reconcile", !.todo = Active, !.t0 = clock] \in Frame
    BY ActiveRows, ConstantsOK DEF Idle, Frame, Stage, Job
  <2>2. LedgerStep(p) /\ RuleStep
    BY <1>1, LedgerKept, RuleKept DEF ReconcileBegins
  <2>3. ProcStep(p)
    BY <1>1, <2>1, <2>2, Walk DEF ReconcileBegins, StartSweep, Become, Idle
  <2>4. Scenery'
    BY <1>1 DEF ReconcileBegins, Scenery, CauseInv, TypeOK, world, host, mode
  <2>. QED BY <2>2, <2>3, <2>4, StepPreserves
<1>2. CASE ReconcileSkipped(p)
  BY <1>2, EndReconcilePreserves DEF ReconcileSkipped, CauseInv, TypeOK, world, host
<1>3. CASE ListRules(p)
  <2>1. LedgerStep(p) /\ RuleStep
    BY <1>3, LedgerKept, RuleKept DEF ListRules, Looks
  <2>2. ProcStep(p)
    BY <1>3, <2>1, Walk DEF ListRules, Looks, Become, Frame, Stage
  <2>3. Scenery'
    BY <1>3 DEF ListRules, Looks, Scenery, CauseInv, TypeOK, world, host, mode, Losses
  <2>. QED BY <2>1, <2>2, <2>3, StepPreserves
<1>4. CASE ExpectBans(p)
  <2>1. LedgerStep(p) /\ RuleStep
    BY <1>4, LedgerKept, RuleKept DEF ExpectBans
  <2>2. {b \in Expected : bans[b].ip \notin at[p].seen} \subseteq Active
    BY DEF Expected
  <2>3. ProcStep(p)
    BY <1>4, <2>1, <2>2, ActiveRows, Walk DEF ExpectBans, Become, Frame, Stage
  <2>4. Scenery'
    BY <1>4 DEF ExpectBans, Scenery, CauseInv, TypeOK, world, host, mode
  <2>. QED BY <2>1, <2>3, <2>4, StepPreserves
<1>5. CASE RestoreBlocks(p)
  <2>. PICK b \in at[p].todo :
         /\ BlockIp(bans[b].ip, Remaining(b, at[p].t0))
         /\ at' = [at EXCEPT ![p] = [at[p] EXCEPT !.todo = @ \ {b}]]
    BY <1>5 DEF RestoreBlocks, Become, Latest
  <2>1. LedgerStep(p) /\ RuleStep
    BY <1>5, LedgerKept, RestorePreserves DEF RestoreBlocks
  <2>2. ProcStep(p)
    BY <1>5, <2>1, Walk DEF RestoreBlocks, Frame
  <2>3. Scenery'
    BY <1>5 DEF RestoreBlocks, Scenery, CauseInv, TypeOK, world, host, mode
  <2>. QED BY <2>1, <2>2, <2>3, StepPreserves
<1>6. CASE RestoreEnds(p)
  <2>1. clock' \in Nat /\ available' \in BOOLEAN /\ faults' \in Nat /\ loss' \in Losses
    BY <1>6 DEF RestoreEnds, MakesUp, Fault, world, host, CauseInv, TypeOK, Losses
  <2>. QED BY <1>6, <2>1, EndReconcilePreserves DEF RestoreEnds, MakesUp
<1>. QED BY <1>1, <1>2, <1>3, <1>4, <1>5, <1>6, SweepPreserves DEF ReconcileStep

-----------------------------------------------------------------------------
(* Time, faults and deaths only take rules and processes away. *)

LEMMA WithdrawPreserves ==
  ASSUME CauseInv, UNCHANGED ledger, UNCHANGED actor,
         at' \in [Procs -> Frame], \A p \in Procs : at'[p] = at[p] \/ at'[p] = Idle,
         rule' \in [IPs -> Nat \union {NoRule}],
         \A i \in IPs : rule'[i] = rule[i] \/ rule'[i] = NoRule,
         Scenery'
  PROVE  CauseInv'
<1>1. TypeOK' /\ TableOK'
  BY DEF CauseInv, TypeOK, TableOK, Scenery, ledger
<1>2. \A p \in Procs : FrameOK(p, at[p])'
  BY DEF CauseInv, FrameOK, ledger, Settled, Idle, Creating
<1>3. OneCreator'
  BY DEF CauseInv, OneCreator, Idle, Creating
<1>4. \A b \in 1..last : Explains(b) => Explains(b)'
  BY DEF Explains, Settled, ledger, Idle, Creating
<1>5. RulesExplained'
  <2>1. last' = last /\ bans' = bans
    BY DEF ledger
  <2>2. ASSUME NEW i \in IPs, Blocked(i)'
        PROVE  (\E b \in 1..last : bans[b].ip = i /\ Explains(b)
                                   /\ (rule[i] = Never => bans[b].secs = 0))'
    <3>1. rule'[i] = rule[i] /\ Blocked(i)
      BY <2>2 DEF Blocked
    <3>2. PICK b \in 1..last : bans[b].ip = i /\ Explains(b) /\ (rule[i] = Never => bans[b].secs = 0)
      BY <3>1 DEF CauseInv, RulesExplained
    <3>. QED BY <1>4, <2>1, <3>1, <3>2
  <2>. QED BY <2>2 DEF RulesExplained
<1>. QED BY <1>1, <1>2, <1>3, <1>5 DEF CauseInv

LEMMA EnvironmentPreserves ==
  ASSUME CauseInv, Environment
  PROVE  CauseInv'
<1>. /\ Idle \in Frame /\ at \in [Procs -> Frame] /\ rule \in [IPs -> Nat \union {NoRule}]
     /\ Main \in Procs /\ Worker \in Procs /\ Operators \subseteq Procs
  BY IdleFrame, ProcTyping DEF CauseInv, TypeOK
<1>1. CASE Tick
  BY <1>1, WithdrawPreserves DEF Tick, CauseInv, TypeOK, Scenery, mode
<1>2. CASE Crash
  <2>1. at' \in [Procs -> Frame] /\ \A p \in Procs : at'[p] = at[p] \/ at'[p] = Idle
    BY <1>2 DEF Crash, StopDaemon
  <2>2. UNCHANGED ledger /\ UNCHANGED actor /\ Scenery'
    <3>1. clock' \in Nat /\ available' \in BOOLEAN /\ faults' \in Nat /\ loss' \in Losses
      BY <1>2, FaultTyping DEF Crash, StopDaemon, CauseInv
    <3>2. UNCHANGED ledger /\ UNCHANGED actor /\ daemon' = "down" /\ beat' = 0
      BY <1>2 DEF Crash, StopDaemon
    <3>3. reconciler' \in BOOLEAN /\ response' \in ResponseMode
      BY <1>2 DEF Crash, StopDaemon, ResponseMode
    <3>. QED BY <3>1, <3>2, <3>3 DEF CauseInv, TypeOK, Scenery
  <2>3. rule' \in [IPs -> Nat \union {NoRule}] /\ \A i \in IPs : rule'[i] = rule[i] \/ rule'[i] = NoRule
    BY <1>2 DEF Crash, StopDaemon
  <2>. QED BY <2>1, <2>2, <2>3, WithdrawPreserves
<1>3. CASE Reboot
  <2>1. at' \in [Procs -> Frame] /\ \A p \in Procs : at'[p] = at[p] \/ at'[p] = Idle
    BY <1>3 DEF Reboot
  <2>2. UNCHANGED ledger /\ UNCHANGED actor /\ Scenery'
    <3>1. clock' \in Nat /\ available' \in BOOLEAN /\ faults' \in Nat /\ loss' \in Losses
      BY <1>3, FaultTyping DEF Reboot, CauseInv
    <3>2. UNCHANGED ledger /\ UNCHANGED actor /\ daemon' = "down" /\ beat' = 0
      BY <1>3 DEF Reboot
    <3>3. reconciler' \in BOOLEAN /\ response' \in ResponseMode
      BY <1>3 DEF Reboot, ResponseMode
    <3>. QED BY <3>1, <3>2, <3>3 DEF CauseInv, TypeOK, Scenery
  <2>3. rule' \in [IPs -> Nat \union {NoRule}] /\ \A i \in IPs : rule'[i] = rule[i] \/ rule'[i] = NoRule
    BY <1>3 DEF Reboot
  <2>. QED BY <2>1, <2>2, <2>3, WithdrawPreserves
<1>4. CASE RulesLost
  <2>1. UNCHANGED ledger /\ UNCHANGED actor /\ Scenery'
    BY <1>4 DEF RulesLost, Fault, CauseInv, TypeOK, Scenery, mode, Losses
  <2>2. rule' \in [IPs -> Nat \union {NoRule}] /\ \A i \in IPs : rule'[i] = rule[i] \/ rule'[i] = NoRule
    BY <1>4 DEF RulesLost
  <2>3. at' = at
    BY <1>4 DEF RulesLost
  <2>. QED BY <2>1, <2>2, <2>3, WithdrawPreserves
<1>5. CASE FirewallGoes
  <2>1. available' \in BOOLEAN
    BY <1>5 DEF FirewallGoes
  <2>2. UNCHANGED <<clock, rule, ledger, actor, mode, at>> /\ faults' \in Nat /\ loss' \in Losses
    BY <1>5 DEF FirewallGoes, CauseInv, TypeOK
  <2>. QED BY <2>1, <2>2, WithdrawPreserves DEF CauseInv, TypeOK, Scenery, mode
<1>6. CASE FirewallReturns
  BY <1>6, WithdrawPreserves DEF FirewallReturns, CauseInv, TypeOK, Scenery, mode
<1>7. ASSUME NEW o \in Operators, CommandKilled(o) PROVE CauseInv'
  <2>1. at' \in [Procs -> Frame] /\ \A p \in Procs : at'[p] = at[p] \/ at'[p] = Idle
    BY <1>7 DEF CommandKilled, Become
  <2>2. UNCHANGED ledger /\ UNCHANGED actor /\ Scenery'
    BY <1>7 DEF CommandKilled, Fault, CauseInv, TypeOK, Scenery, mode
  <2>3. rule' \in [IPs -> Nat \union {NoRule}] /\ \A i \in IPs : rule'[i] = rule[i] \/ rule'[i] = NoRule
    BY <1>7 DEF CommandKilled
  <2>. QED BY <2>1, <2>2, <2>3, WithdrawPreserves
<1>. QED BY <1>1, <1>2, <1>3, <1>4, <1>5, <1>6, <1>7 DEF Environment

-----------------------------------------------------------------------------
(* CauseInv is inductive, and it implies what the runs check. *)

LEMMA InitCause == Init => CauseInv
<1>. SUFFICES ASSUME Init PROVE CauseInv
  OBVIOUS
<1>. Idle \in Frame
  BY IdleFrame
<1>1. TypeOK
  <2>1. Unallocated \in BanRecord
    BY DEF Unallocated, BanRecord
  <2>2. bans \in [BanId -> BanRecord] /\ at \in [Procs -> Frame]
    BY <2>1 DEF Init
  <2>3. last \in 0..MaxBans /\ rule \in [IPs -> Nat \union {NoRule}]
    BY ConstantsOK DEF Init
  <2>4. clock \in Nat /\ available \in BOOLEAN /\ reconciler \in BOOLEAN /\ beat \in Nat /\ faults \in Nat
    BY DEF Init
  <2>. QED BY <2>2, <2>3, <2>4 DEF Init, TypeOK, ResponseMode, Losses
<1>2. TableOK
  BY ConstantsOK DEF Init, TableOK, BanId
<1>3. \A p \in Procs : FrameOK(p, at[p])
  BY DEF Init, FrameOK, Idle, Creating
<1>4. OneCreator /\ RulesExplained
  BY DEF Init, OneCreator, RulesExplained, Blocked, Idle, Creating
<1>. QED BY <1>1, <1>2, <1>3, <1>4 DEF CauseInv

LEMMA NextPreserves == CauseInv /\ [Next]_vars => CauseInv'
<1>. SUFFICES ASSUME CauseInv, [Next]_vars PROVE CauseInv'
  OBVIOUS
<1>1. CASE UNCHANGED vars
  BY <1>1, WithdrawPreserves DEF vars, CauseInv, TypeOK, Scenery, ledger
<1>2. CASE MainStep
  BY <1>2, ProcTyping, CreatePreserves, SaveProfilePreserves, SyncPreserves, ReconcilePreserves
  DEF MainStep
<1>3. CASE WorkerStep \/ StartDaemon
  BY <1>3, ProcTyping, WorkerTurnPreserves, ReconcilePreserves, SyncPreserves DEF WorkerStep
<1>4. ASSUME NEW o \in Operators, OperatorStep(o) PROVE CauseInv'
  BY <1>4, ProcTyping, CreatePreserves, UnbanPreserves DEF OperatorStep
<1>. QED BY <1>1, <1>2, <1>3, <1>4, ArrivalPreserves, EnvironmentPreserves DEF Next

(* Every row, frame and kernel rule stays consistent with the others,      *)
(* whichever daemon, commands and faults interleave, for any number of     *)
(* addresses, commands, bans and faults.                                   *)
THEOREM CauseInvariant == Spec => []CauseInv
BY InitCause, NextPreserves, PTL DEF Spec

(* The state never leaves its types. *)
THEOREM TypeCorrect == Spec => []TypeOK
<1>1. CauseInv => TypeOK
  BY DEF CauseInv
<1>. QED BY <1>1, CauseInvariant, PTL

(* No rule without a ban that put it there, and no rule without a timeout  *)
(* without a permanent one, whatever the durations, the resolution of the  *)
(* clock and the order of steps.                                           *)
THEOREM RulesHaveCauses == Spec => []RuleHasCause
<1>1. CauseInv => RuleHasCause
  BY DEF CauseInv, RulesExplained, RuleHasCause, Explains, Settled
<1>. QED BY <1>1, CauseInvariant, PTL

-----------------------------------------------------------------------------
(* The response engine looks for a ban in force in one transaction and     *)
(* opens its own in another (engine.py:51-84). With no command running     *)
(* the look-up stays true for as long as the creation lasts: the worker    *)
(* never creates, and what it does to a row only closes it.                *)

LookedUp ==
  at[Main].pc \in Creating /\ at[Main].rec = "active" => ActiveFor(at[Main].ip) = {}
AloneInv ==
  /\ AtMostOneActiveBan
  /\ LookedUp
  /\ at[Worker].pc \notin Creating

LEMMA Distinct == Main # Worker
BY DEF Main, Worker

(* A step that stores no active row keeps AloneInv if the frames do. *)
NothingNew == Active' \subseteq Active /\ \A b \in Active : bans'[b].ip = bans[b].ip

LEMMA AloneKept ==
  ASSUME AloneInv, NothingNew, at'[Worker].pc \notin Creating,
         \/ at'[Main].pc \notin Creating \/ at'[Main].rec # "active"
         \/ at[Main].pc \in Creating /\ at'[Main].ip = at[Main].ip /\ at[Main].rec = "active"
  PROVE  AloneInv'
<1>1. AtMostOneActiveBan'
  BY DEF AloneInv, AtMostOneActiveBan, NothingNew
<1>2. ActiveFor(at[Main].ip) = {} /\ at'[Main].ip = at[Main].ip => ActiveFor(at[Main].ip)' = {}
  BY DEF ActiveFor, NothingNew
<1>3. LookedUp'
  BY <1>2 DEF AloneInv, LookedUp
<1>. QED BY <1>1, <1>3 DEF AloneInv

LEMMA LedgerQuiet ==
  ASSUME UNCHANGED ledger
  PROVE  NothingNew
BY DEF NothingNew, Active, ledger

LEMMA MarkQuiet ==
  ASSUME CauseInv, NEW b \in BanId, NEW s, s # "active", SetStatus(b, s)
  PROVE  NothingNew
BY DEF NothingNew, Active, SetStatus, CauseInv, TypeOK, BanRecord

LEMMA OpenQuiet ==
  ASSUME CauseInv, NEW p \in Procs, NEW frame, NEW i, NEW want, NEW secs,
         Open(p, frame, i, want, secs)
  PROVE  NothingNew
<1>1. last + 1 \in BanId /\ last + 1 > last
  BY ConstantsOK DEF CauseInv, TypeOK, BanId, Open
<1>2. bans[last + 1].status = "absent"
  BY <1>1 DEF CauseInv, TableOK, Unallocated
<1>3. \A b \in BanId : b # last + 1 => bans'[b] = bans[b]
  BY DEF Open, CauseInv, TypeOK
<1>4. bans'[last + 1].status = "absent"
  BY <1>1 DEF Open, CauseInv, TypeOK
<1>. QED BY <1>2, <1>3, <1>4 DEF NothingNew, Active

(* What Open leaves in the frames of the two threads. *)
LEMMA OpenFrame ==
  ASSUME CauseInv, NEW frame \in Frame, NEW i, NEW want, NEW secs,
         Open(Main, frame, i, want, secs)
  PROVE  /\ at'[Worker] = at[Worker]
         /\ at'[Main].rec = want /\ at'[Main].ip = i
BY ProcTyping, Distinct DEF Open, Become, CauseInv, TypeOK, Frame

LEMMA AloneQuiet ==
  ASSUME AloneInv, NothingNew,
         \A q \in {Main, Worker} : at'[q] = at[q] \/ at'[q].pc \notin Creating
  PROVE  AloneInv'
<1>1. at'[Worker].pc \notin Creating
  BY DEF AloneInv
<1>. QED BY <1>1, AloneKept

(* A thread that ends its step outside create_ban, the other standing still. *)
Outside(p, frame) == at' = [at EXCEPT ![p] = frame] /\ frame.pc \notin Creating

LEMMA OutsideKeeps ==
  ASSUME CauseInv, AloneInv, NothingNew, NEW p \in {Main, Worker}, NEW frame, Outside(p, frame)
  PROVE  AloneInv'
<1>1. \A q \in {Main, Worker} : at'[q] = at[q] \/ at'[q].pc \notin Creating
  BY ProcTyping DEF Outside, CauseInv, TypeOK
<1>. QED BY <1>1, AloneQuiet

LEMMA SaveAlone ==
  ASSUME CauseInv, AloneInv, SaveBan(Main)
  PROVE  AloneInv'
<1>. DEFINE b == at[Main].ban
<1>1. b \in BanId /\ bans[b].ip = at[Main].ip /\ at[Main].rec \in BanStatus
  <2>1. at[Main].pc = "save" /\ FrameOK(Main, at[Main])
    BY ProcTyping DEF SaveBan, CauseInv
  <2>2. last \in 0..MaxBans
    BY DEF CauseInv, TypeOK
  <2>. QED BY <2>1, <2>2, ConstantsOK DEF FrameOK, Creating, BanId
<1>2. bans' = [bans EXCEPT ![b].status = at[Main].rec] /\ bans \in [BanId -> BanRecord]
  BY DEF SaveBan, SetStatus, CauseInv, TypeOK
<1>3. at'[Main].pc = "readActor" /\ at'[Worker] = at[Worker]
  BY ProcTyping, Distinct DEF SaveBan, Goto, CauseInv, TypeOK, Frame
<1>4. CASE at[Main].rec # "active"
  <2>1. NothingNew
    BY <1>1, <1>4, MarkQuiet DEF SaveBan
  <2>. QED BY <1>3, <2>1, AloneQuiet DEF Creating
<1>5. CASE at[Main].rec = "active"
  <2>1. ActiveFor(at[Main].ip) = {}
    BY <1>5 DEF SaveBan, AloneInv, LookedUp, Creating
  <2>2. Active' = Active \union {b}
    BY <1>1, <1>2, <1>5 DEF Active, BanRecord
  <2>3. \A c \in BanId : bans'[c].ip = bans[c].ip
    BY <1>1, <1>2 DEF BanRecord
  <2>4. \A c \in Active : c \in BanId /\ bans[c].ip # at[Main].ip
    BY <2>1 DEF ActiveFor, Active
  <2>5. AtMostOneActiveBan'
    BY <1>1, <2>2, <2>3, <2>4 DEF AloneInv, AtMostOneActiveBan
  <2>. QED BY <1>3, <2>5 DEF AloneInv, LookedUp, Creating
<1>. QED BY <1>4, <1>5

LEMMA RaiseAlone ==
  ASSUME CauseInv, AloneInv, Raise(Main)
  PROVE  AloneInv'
<1>1. CASE at[Main].want = "active"
  <2>1. Open(Main, at[Main], at[Main].ip, "failed", bans[at[Main].ban].secs)
    BY <1>1 DEF Raise
  <2>2. NothingNew
    BY <2>1, ProcTyping, OpenQuiet
  <2>3. at'[Worker] = at[Worker] /\ at'[Main].rec = "failed"
    BY <2>1, ProcTyping, OpenFrame DEF CauseInv, TypeOK
  <2>. QED BY <2>2, <2>3, AloneKept DEF AloneInv
<1>2. CASE at[Main].want # "active"
  <2>1. Outside(Main, Idle) /\ UNCHANGED ledger
    BY <1>2 DEF Raise, Become, Outside, Idle, Creating
  <2>. QED BY <2>1, LedgerQuiet, OutsideKeeps
<1>. QED BY <1>1, <1>2

LEMMA CreateAlone ==
  ASSUME CauseInv, AloneInv, CreateStep(Main)
  PROVE  AloneInv'
<1>. at \in [Procs -> Frame] /\ FrameOK(Main, at[Main])
  BY ProcTyping DEF CauseInv, TypeOK
<1>1. CASE EnforceBlocks(Main)
  <2>1. at[Main].pc \in Creating /\ at[Main].rec = "active"
    BY <1>1 DEF EnforceBlocks, FrameOK, Creating
  <2>2. at'[Main].ip = at[Main].ip /\ at'[Worker] = at[Worker]
    BY <1>1, ProcTyping, Distinct DEF EnforceBlocks, Goto, Frame
  <2>3. NothingNew
    BY <1>1, LedgerQuiet DEF EnforceBlocks
  <2>. QED BY <2>1, <2>2, <2>3, AloneKept DEF AloneInv
<1>2. CASE EnforceRefused(Main)
  <2>1. at'[Main].rec = "failed" /\ at'[Worker] = at[Worker]
    BY <1>2, ProcTyping, Distinct DEF EnforceRefused, Become, Frame
  <2>2. NothingNew
    BY <1>2, LedgerQuiet DEF EnforceRefused
  <2>. QED BY <2>1, <2>2, AloneKept DEF AloneInv
<1>3. CASE ReadActor(Main)
  <2>1. Outside(Main, [at[Main] EXCEPT !.pc = "writeActor", !.profile = ProfileAfter(Main)])
    BY <1>3, ProcTyping DEF ReadActor, Become, Outside, Creating, Frame
  <2>. QED BY <1>3, <2>1, LedgerQuiet, OutsideKeeps DEF ReadActor
<1>4. CASE WriteActor(Main)
  <2>1. Outside(Main, [Idle EXCEPT !.pc = "profile", !.ip = at[Main].ip, !.risk = at[Main].risk])
    BY <1>4 DEF WriteActor, Become, Outside, Creating, Idle
  <2>. QED BY <1>4, <2>1, LedgerQuiet, OutsideKeeps DEF WriteActor
<1>5. CASE EnforceRaises(Main) \/ SaveRaises(Main)
  BY <1>5, RaiseAlone DEF EnforceRaises, SaveRaises
<1>. QED BY <1>1, <1>2, <1>3, <1>4, <1>5, SaveAlone DEF CreateStep

LEMMA SyncAlone ==
  ASSUME CauseInv, AloneInv, SaveProfile \/ StartDaemon \/ SyncStep
  PROVE  AloneInv'
<1>. at[Main] \in Frame
  BY ProcTyping DEF CauseInv, TypeOK
<1>1. CASE SaveProfile
  <2>1. Outside(Main, Idle)
    BY <1>1 DEF SaveProfile, Become, Outside, Idle, Creating
  <2>. QED BY <1>1, <2>1, LedgerQuiet, OutsideKeeps DEF SaveProfile
<1>2. CASE StartDaemon
  <2>1. Outside(Main, [Idle EXCEPT !.pc = "sync", !.job = "sync", !.todo = Active, !.t0 = clock])
    BY <1>2 DEF StartDaemon, Looks, Become, Outside, Idle, Creating
  <2>. QED BY <1>2, <2>1, LedgerQuiet, OutsideKeeps DEF StartDaemon, Looks
<1>3. CASE SyncExpires
  <2>. PICK b \in at[Main].todo :
         SetStatus(b, "expired") /\ Become(Main, [at[Main] EXCEPT !.todo = @ \ {b}])
    BY <1>3 DEF SyncExpires, Latest
  <2>1. NothingNew
    BY MarkQuiet DEF Frame
  <2>2. Outside(Main, [at[Main] EXCEPT !.todo = @ \ {b}])
    BY <1>3 DEF SyncExpires, Become, Outside, Creating, Frame
  <2>. QED BY <2>1, <2>2, OutsideKeeps
<1>4. CASE SyncBlocks
  <2>. PICK b \in at[Main].todo : Become(Main, [at[Main] EXCEPT !.todo = @ \ {b}])
    BY <1>4 DEF SyncBlocks, Latest
  <2>1. Outside(Main, [at[Main] EXCEPT !.todo = @ \ {b}])
    BY <1>4 DEF SyncBlocks, Become, Outside, Creating, Frame
  <2>. QED BY <1>4, <2>1, LedgerQuiet, OutsideKeeps DEF SyncBlocks
<1>5. CASE SyncFails
  <2>1. Outside(Main, Idle)
    BY <1>5 DEF SyncFails, Become, Outside, Idle, Creating
  <2>. QED BY <1>5, <2>1, LedgerQuiet, OutsideKeeps DEF SyncFails
<1>6. CASE SyncDone
  <2>1. Outside(Main, [Idle EXCEPT !.pc = "reconcile", !.job = "reconcile"])
    BY <1>6 DEF SyncDone, MakesUp, Become, Outside, Idle, Creating
  <2>. QED BY <1>6, <2>1, LedgerQuiet, OutsideKeeps DEF SyncDone, MakesUp
<1>. QED BY <1>1, <1>2, <1>3, <1>4, <1>5, <1>6 DEF SyncStep

LEMMA EndAlone ==
  ASSUME CauseInv, AloneInv, NEW p \in {Main, Worker}, EndReconcile(p), UNCHANGED ledger
  PROVE  AloneInv'
<1>1. Outside(p, Idle)
  BY DEF EndReconcile, Become, Outside, Idle, Creating
<1>. QED BY <1>1, LedgerQuiet, OutsideKeeps

LEMMA SweepAlone ==
  ASSUME CauseInv, AloneInv, NEW p \in {Main, Worker},
         \/ SweepSkips(p) \/ SweepUnblocks(p) \/ MarkExpired(p) \/ ExpireActor(p)
         \/ SweepRaises(p) \/ SweepDone(p)
  PROVE  AloneInv'
<1>. at[p] \in Frame /\ FrameOK(p, at[p])
  BY ProcTyping DEF CauseInv, TypeOK
<1>1. CASE SweepSkips(p)
  <2>. PICK b : Become(p, [at[p] EXCEPT !.todo = @ \ {b}])
    BY <1>1 DEF SweepSkips
  <2>1. Outside(p, [at[p] EXCEPT !.todo = @ \ {b}])
    BY <1>1 DEF SweepSkips, Become, Outside, Creating, Frame
  <2>. QED BY <1>1, <2>1, LedgerQuiet, OutsideKeeps DEF SweepSkips
<1>2. CASE SweepUnblocks(p)
  <2>1. \E frame : Outside(p, frame)
    <3>. PICK b \in at[p].todo :
           at' = [at EXCEPT ![p] = [at[p] EXCEPT !.pc = "markExpired", !.ban = b]]
      BY <1>2 DEF SweepUnblocks, Become, Latest
    <3>1. [at[p] EXCEPT !.pc = "markExpired", !.ban = b].pc \notin Creating
      BY DEF Creating, Frame
    <3>. QED BY <3>1 DEF Outside
  <2>2. UNCHANGED ledger
    BY <1>2 DEF SweepUnblocks
  <2>. QED BY <2>1, <2>2, LedgerQuiet, OutsideKeeps
<1>3. CASE MarkExpired(p)
  <2>1. at[p].ban \in BanId
    <3>1. at[p].ban \in 1..last /\ last \in 0..MaxBans
      BY <1>3 DEF MarkExpired, FrameOK, CauseInv, TypeOK
    <3>. QED BY <3>1, ConstantsOK DEF BanId
  <2>2. NothingNew
    BY <1>3, <2>1, MarkQuiet DEF MarkExpired
  <2>3. Outside(p, [at[p] EXCEPT !.pc = "expireActor"])
    BY <1>3 DEF MarkExpired, Goto, Outside, Creating, Frame
  <2>. QED BY <2>2, <2>3, OutsideKeeps
<1>4. CASE ExpireActor(p)
  <2>1. Outside(p, [at[p] EXCEPT !.pc = "sweep", !.ban = 0, !.todo = @ \ {at[p].ban}])
    BY <1>4 DEF ExpireActor, Become, Outside, Creating, Frame
  <2>. QED BY <1>4, <2>1, LedgerQuiet, OutsideKeeps DEF ExpireActor
<1>5. CASE SweepRaises(p)
  <2>1. UNCHANGED ledger
    BY <1>5 DEF SweepRaises
  <2>2. CASE at[p].job = "sweepThenReconcile"
    <3>1. Outside(p, [Idle EXCEPT !.pc = "reconcile"])
      BY <1>5, <2>2 DEF SweepRaises, Become, Outside, Idle, Creating
    <3>. QED BY <2>1, <3>1, LedgerQuiet, OutsideKeeps
  <2>3. CASE at[p].job = "reconcile"
    BY <1>5, <2>1, <2>3, EndAlone DEF SweepRaises
  <2>4. CASE at[p].job \notin {"sweepThenReconcile", "reconcile"}
    <3>1. Outside(p, Idle)
      BY <1>5, <2>4 DEF SweepRaises, Become, Outside, Idle, Creating
    <3>. QED BY <2>1, <3>1, LedgerQuiet, OutsideKeeps
  <2>. QED BY <2>2, <2>3, <2>4
<1>6. CASE SweepDone(p)
  <2>1. \E frame : Outside(p, frame)
    <3>1. CASE at[p].job = "sweepThenReconcile"
      <4>1. Outside(p, [Idle EXCEPT !.pc = "reconcile"])
        BY <1>6, <3>1 DEF SweepDone, Become, Outside, Idle, Creating
      <4>. QED BY <4>1
    <3>2. CASE at[p].job = "reconcile"
      <4>1. Outside(p, [at[p] EXCEPT !.pc = "list"])
        BY <1>6, <3>2 DEF SweepDone, Goto, Outside, Creating, Frame
      <4>. QED BY <4>1
    <3>3. CASE at[p].job \notin {"sweepThenReconcile", "reconcile"}
      <4>1. Outside(p, Idle)
        BY <1>6, <3>3 DEF SweepDone, Become, Outside, Idle, Creating
      <4>. QED BY <4>1
    <3>. QED BY <3>1, <3>2, <3>3
  <2>. QED BY <1>6, <2>1, LedgerQuiet, OutsideKeeps DEF SweepDone
<1>. QED BY <1>1, <1>2, <1>3, <1>4, <1>5, <1>6

LEMMA ReconcileAlone ==
  ASSUME CauseInv, AloneInv, NEW p \in {Main, Worker}, ReconcileStep(p)
  PROVE  AloneInv'
<1>. at[p] \in Frame
  BY ProcTyping DEF CauseInv, TypeOK
<1>1. CASE ReconcileBegins(p)
  <2>1. Outside(p, [Idle EXCEPT !.pc = "sweep", !.job = "reconcile", !.todo = Active, !.t0 = clock])
    BY <1>1 DEF ReconcileBegins, StartSweep, Become, Outside, Idle, Creating
  <2>. QED BY <1>1, <2>1, LedgerQuiet, OutsideKeeps DEF ReconcileBegins
<1>2. CASE ReconcileSkipped(p) \/ RestoreEnds(p)
  BY <1>2, EndAlone DEF ReconcileSkipped, RestoreEnds, MakesUp
<1>3. CASE ListRules(p)
  <2>. DEFINE listed == IF available THEN {i \in IPs : rule[i] # NoRule} ELSE {}
  <2>1. Outside(p, [at[p] EXCEPT !.pc = "expect", !.seen = listed])
    BY <1>3 DEF ListRules, Looks, Become, Outside, Creating, Frame
  <2>. QED BY <1>3, <2>1, LedgerQuiet, OutsideKeeps DEF ListRules, Looks
<1>4. CASE ExpectBans(p)
  <2>. DEFINE missing == {b \in Expected : bans[b].ip \notin at[p].seen}
  <2>1. Outside(p, [at[p] EXCEPT !.pc = "restore", !.todo = missing])
    BY <1>4 DEF ExpectBans, Become, Outside, Creating, Frame
  <2>. QED BY <1>4, <2>1, LedgerQuiet, OutsideKeeps DEF ExpectBans
<1>5. CASE RestoreBlocks(p)
  <2>. PICK b : Become(p, [at[p] EXCEPT !.todo = @ \ {b}])
    BY <1>5 DEF RestoreBlocks
  <2>1. Outside(p, [at[p] EXCEPT !.todo = @ \ {b}])
    BY <1>5 DEF RestoreBlocks, Become, Outside, Creating, Frame
  <2>. QED BY <1>5, <2>1, LedgerQuiet, OutsideKeeps DEF RestoreBlocks
<1>. QED BY <1>1, <1>2, <1>3, <1>4, <1>5, SweepAlone DEF ReconcileStep

LEMMA WorkerTurnAlone ==
  ASSUME CauseInv, AloneInv, WorkerTurn
  PROVE  AloneInv'
<1>. DEFINE n == beat + 1
            sweeps == n % SweepEvery = 0
            reconciles == n >= ReconcileEvery
            job == IF reconciles THEN "sweepThenReconcile" ELSE "sweep"
<1>1. UNCHANGED ledger
  BY DEF WorkerTurn
<1>2. CASE sweeps
  <2>1. Outside(Worker, [Idle EXCEPT !.pc = "sweep", !.job = job, !.todo = Active, !.t0 = 0])
    BY <1>2 DEF WorkerTurn, StartSweep, Become, Outside, Idle, Creating
  <2>. QED BY <1>1, <2>1, LedgerQuiet, OutsideKeeps
<1>3. CASE ~sweeps /\ reconciles
  <2>1. Outside(Worker, [Idle EXCEPT !.pc = "reconcile"])
    BY <1>3 DEF WorkerTurn, Become, Outside, Idle, Creating
  <2>. QED BY <1>1, <2>1, LedgerQuiet, OutsideKeeps
<1>4. CASE ~sweeps /\ ~reconciles
  <2>1. at' = at
    BY <1>4 DEF WorkerTurn
  <2>. QED BY <1>1, <2>1, LedgerQuiet, AloneQuiet
<1>. QED BY <1>2, <1>3, <1>4

LEMMA EventAlone ==
  ASSUME CauseInv, AloneInv, NEW i \in IPs, NEW r \in RiskStates,
         EventPasses(i, r) \/ \E d \in Durations : EventIsolates(i, r, d)
  PROVE  AloneInv'
<1>1. CASE EventPasses(i, r)
  <2>1. Outside(Main, [Idle EXCEPT !.pc = "profile", !.ip = i, !.risk = r])
    BY <1>1 DEF EventPasses, Become, Outside, Idle, Creating
  <2>. QED BY <1>1, <2>1, LedgerQuiet, OutsideKeeps DEF EventPasses
<1>2. ASSUME NEW d \in Durations, EventIsolates(i, r, d) PROVE AloneInv'
  <2>1. Open(Main, [Idle EXCEPT !.risk = r], i, ResponseStatus, d) /\ ActiveFor(i) = {}
    BY <1>2 DEF EventIsolates
  <2>2. [Idle EXCEPT !.risk = r] \in Frame
    BY IdleFrame, ConstantsOK DEF Frame, ActorState
  <2>3. at'[Worker] = at[Worker] /\ at'[Main].ip = i
    BY <2>1, <2>2, OpenFrame
  <2>4. NothingNew
    BY <2>1, ProcTyping, OpenQuiet
  <2>5. ActiveFor(i)' = {}
    BY <2>1, <2>4 DEF ActiveFor, NothingNew
  <2>. QED BY <2>3, <2>4, <2>5 DEF AloneInv, AtMostOneActiveBan, LookedUp, NothingNew
<1>. QED BY <1>1, <1>2

LEMMA EnvironmentAlone ==
  ASSUME CauseInv, AloneInv, Operators = {}, Environment
  PROVE  AloneInv'
<1>1. UNCHANGED ledger
  BY DEF Environment, Tick, Crash, Reboot, RulesLost, FirewallGoes, FirewallReturns
<1>2. \A q \in {Main, Worker} : at'[q] = at[q] \/ at'[q] = Idle
  BY ProcTyping DEF Environment, Tick, Crash, StopDaemon, Reboot, RulesLost, FirewallGoes,
     FirewallReturns, CauseInv, TypeOK, mode
<1>3. Idle.pc \notin Creating
  BY DEF Idle, Creating
<1>. QED BY <1>1, <1>2, <1>3, LedgerQuiet, AloneQuiet

LEMMA NextAlone ==
  ASSUME CauseInv, AloneInv, Operators = {}, [Next]_vars
  PROVE  AloneInv'
<1>1. CASE UNCHANGED vars
  BY <1>1, LedgerQuiet, AloneQuiet DEF vars, ledger
<1>2. CASE MainStep
  BY <1>2, CreateAlone, SyncAlone, ReconcileAlone DEF MainStep
<1>3. CASE WorkerStep \/ StartDaemon
  BY <1>3, WorkerTurnAlone, ReconcileAlone, SyncAlone DEF WorkerStep
<1>4. CASE Arrivals
  BY <1>4, EventAlone DEF Arrivals
<1>. QED BY <1>1, <1>2, <1>3, <1>4, EnvironmentAlone DEF Next

(* A daemon that has the database to itself never gives an address two     *)
(* active bans, whichever calls fail, however often it crashes and however *)
(* the worker's sweeps fall into its creations (engine.py:51-84).          *)
THEOREM OneBanAtATime ==
  ASSUME Operators = {}
  PROVE  Spec => []AtMostOneActiveBan
<1>1. Init => AloneInv
  BY ProcTyping DEF Init, AloneInv, AtMostOneActiveBan, LookedUp, Active, Unallocated, Idle, Creating
<1>2. CauseInv /\ AloneInv /\ [Next]_vars => AloneInv'
  BY NextAlone
<1>3. AloneInv => AtMostOneActiveBan
  BY DEF AloneInv
<1>. QED BY <1>1, <1>2, <1>3, CauseInvariant, PTL DEF Spec

-----------------------------------------------------------------------------
(* A sweep unblocks by address, for rows it read some steps ago            *)
(* (ban_manager.py:100-106). What makes that safe for a daemon alone is    *)
(* that a snapshot stays true until the sweep itself closes its rows:      *)
(* startup is over when the worker begins, so nobody else closes any.      *)

Sweeps == {"sweep", "markExpired", "expireActor"}
Upkeep == Sweeps \union {"sync", "reconcile", "list", "expect", "restore"}
Pending(f) == IF f.pc = "sweep" THEN f.todo ELSE f.todo \ {f.ban}

OneKeeper ==
  /\ daemon # "up" => at[Worker].pc = "idle"
  /\ at[Main].pc \in Upkeep => daemon = "starting"
SweepInv ==
  /\ OneKeeper
  /\ \A p \in {Main, Worker} : at[p].pc \in Sweeps => Pending(at[p]) \subseteq Active

(* A step of one thread, and what it must respect. *)
Turn(p) ==
  /\ \A q \in Procs : q # p => at'[q] = at[q]
  /\ OneKeeper'
  /\ Active \subseteq Active' \/ at[p].pc \in Upkeep
  /\ at'[p].pc \in Sweeps => Pending(at'[p]) \subseteq Active'
  /\ at'[p].pc = "markExpired" =>
       at[p].pc = "sweep" /\ at'[p].ban \in at[p].todo /\ IsExpired(at'[p].ban)

(* check_expirations never takes the rule of a ban that still runs. *)
ReleaseStep ==
  \A p \in {Main, Worker} : at[p].pc # "markExpired" /\ at'[p].pc = "markExpired" =>
    \A c \in ActiveFor(bans[at'[p].ban].ip) : IsExpired(c)

LEMMA TurnKeeps ==
  ASSUME SweepInv, AtMostOneActiveBan, NEW p \in {Main, Worker}, Turn(p)
  PROVE  SweepInv' /\ ReleaseStep
<1>1. SweepInv'
  <2>1. ASSUME NEW q \in {Main, Worker}, at'[q].pc \in Sweeps
        PROVE  Pending(at'[q]) \subseteq Active'
    <3>1. CASE q = p
      BY <2>1, <3>1 DEF Turn
    <3>2. CASE q # p
      <4>1. at'[q] = at[q]
        BY <3>2, ProcTyping DEF Turn
      <4>2. at[p].pc \notin Upkeep
        BY <2>1, <3>2, <4>1 DEF SweepInv, OneKeeper, Sweeps, Upkeep
      <4>. QED BY <2>1, <4>1, <4>2 DEF Turn, SweepInv
    <3>. QED BY <3>1, <3>2
  <2>. QED BY <2>1 DEF SweepInv, Turn
<1>2. ASSUME NEW q \in {Main, Worker}, at[q].pc # "markExpired", at'[q].pc = "markExpired"
      PROVE  \A c \in ActiveFor(bans[at'[q].ban].ip) : IsExpired(c)
  <2>1. q = p
    BY <1>2, ProcTyping DEF Turn
  <2>2. at'[p].ban \in Active /\ IsExpired(at'[p].ban)
    BY <1>2, <2>1 DEF Turn, SweepInv, Sweeps, Pending
  <2>. QED BY <2>1, <2>2 DEF ActiveFor, AtMostOneActiveBan
<1>. QED BY <1>1, <1>2 DEF ReleaseStep

(* No daemon state changes, and the thread was at work already. *)
LEMMA KeeperStays ==
  ASSUME CauseInv, SweepInv, NEW p \in {Main, Worker}, NEW frame,
         at' = [at EXCEPT ![p] = frame], daemon' = daemon,
         p = Worker => at[p].pc # "idle" \/ daemon = "up",
         p = Main /\ frame.pc \in Upkeep => at[p].pc \in Upkeep
  PROVE  OneKeeper'
BY ProcTyping, Distinct DEF CauseInv, TypeOK, SweepInv, OneKeeper

(* The end of startup, or of a turn of the worker. *)
LEMMA KeeperEnds ==
  ASSUME CauseInv, SweepInv, NEW p \in {Main, Worker}, at[p].pc \in Upkeep,
         at' = [at EXCEPT ![p] = Idle], daemon' = "up"
  PROVE  OneKeeper'
<1>1. p = Worker => at[Main].pc \notin Upkeep
  BY DEF SweepInv, OneKeeper, Upkeep, Sweeps
<1>2. Idle.pc \notin Upkeep
  BY DEF Idle, Upkeep, Sweeps
<1>. QED BY <1>1, <1>2, ProcTyping, Distinct DEF CauseInv, TypeOK, OneKeeper

(* A step that starts or goes on with no sweep. *)
LEMMA TurnAside ==
  ASSUME CauseInv, NEW p \in {Main, Worker}, NEW frame, at' = [at EXCEPT ![p] = frame],
         frame.pc \notin Sweeps, OneKeeper',
         Active \subseteq Active' \/ at[p].pc \in Upkeep
  PROVE  Turn(p)
<1>1. at'[p] = frame /\ \A q \in Procs : q # p => at'[q] = at[q]
  BY ProcTyping DEF CauseInv, TypeOK
<1>. QED BY <1>1 DEF Turn, Sweeps

LEMMA LedgerSame ==
  ASSUME UNCHANGED ledger
  PROVE  Active' = Active
BY DEF Active, ledger

LEMMA SaveGrows ==
  ASSUME CauseInv, SaveBan(Main)
  PROVE  Active \subseteq Active'
<1>1. bans[at[Main].ban].status = "absent"
  BY ProcTyping DEF SaveBan, CauseInv, FrameOK, Creating
<1>. QED BY <1>1 DEF SaveBan, SetStatus, Active, CauseInv, TypeOK

LEMMA OpenGrows ==
  ASSUME CauseInv, NEW p, NEW frame, NEW i, NEW want, NEW secs, Open(p, frame, i, want, secs)
  PROVE  Active \subseteq Active'
<1>1. last + 1 \in BanId /\ last + 1 > last
  BY ConstantsOK DEF CauseInv, TypeOK, BanId, Open
<1>2. bans[last + 1].status = "absent"
  BY <1>1 DEF CauseInv, TableOK, Unallocated
<1>3. \A b \in BanId : b # last + 1 => bans'[b] = bans[b]
  BY DEF Open, CauseInv, TypeOK
<1>. QED BY <1>2, <1>3 DEF Active

LEMMA OpenTurn ==
  ASSUME CauseInv, SweepInv, NEW frame \in Frame, NEW i, NEW want, NEW secs,
         Open(Main, frame, i, want, secs), daemon' = daemon
  PROVE  Turn(Main)
<1>. DEFINE creator == [frame EXCEPT !.pc = IF want = "active" THEN "enforce" ELSE "save",
                                     !.ip = i, !.ban = last + 1, !.want = want, !.rec = want]
<1>1. at' = [at EXCEPT ![Main] = creator]
  BY DEF Open, Become
<1>2. creator.pc \notin Upkeep /\ creator.pc \notin Sweeps
  BY DEF Upkeep, Sweeps, Frame
<1>. HIDE DEF creator
<1>3. OneKeeper'
  BY <1>1, <1>2, KeeperStays, Distinct
<1>. QED BY <1>1, <1>2, <1>3, OpenGrows, TurnAside

(* A step of the main thread outside upkeep that keeps the active rows. *)
LEMMA TurnOutside ==
  ASSUME CauseInv, SweepInv, NEW frame, at' = [at EXCEPT ![Main] = frame],
         frame.pc \notin Upkeep, daemon' = daemon, Active \subseteq Active'
  PROVE  Turn(Main)
<1>1. frame.pc \notin Sweeps
  BY DEF Upkeep
<1>2. OneKeeper'
  BY KeeperStays, Distinct
<1>. QED BY <1>1, <1>2, TurnAside

LEMMA CreateTurn ==
  ASSUME CauseInv, SweepInv, CreateStep(Main) \/ SaveProfile
  PROVE  Turn(Main)
<1>. at[Main] \in Frame
  BY ProcTyping DEF CauseInv, TypeOK
<1>1. CASE EnforceBlocks(Main)
  <2>1. at' = [at EXCEPT ![Main] = [at[Main] EXCEPT !.pc = "save"]]
    BY <1>1 DEF EnforceBlocks, Goto
  <2>2. [at[Main] EXCEPT !.pc = "save"].pc \notin Upkeep
    BY DEF Upkeep, Sweeps, Frame
  <2>3. daemon' = daemon /\ Active' = Active
    BY <1>1, LedgerSame DEF EnforceBlocks, mode
  <2>. QED BY <2>1, <2>2, <2>3, TurnOutside
<1>2. CASE EnforceRefused(Main)
  <2>1. at' = [at EXCEPT ![Main] = [at[Main] EXCEPT !.pc = "save", !.rec = "failed"]]
    BY <1>2 DEF EnforceRefused, Become
  <2>2. [at[Main] EXCEPT !.pc = "save", !.rec = "failed"].pc \notin Upkeep
    BY DEF Upkeep, Sweeps, Frame
  <2>3. daemon' = daemon /\ Active' = Active
    BY <1>2, LedgerSame DEF EnforceRefused, mode
  <2>. QED BY <2>1, <2>2, <2>3, TurnOutside
<1>3. CASE SaveBan(Main)
  <2>1. at' = [at EXCEPT ![Main] = [at[Main] EXCEPT !.pc = "readActor"]]
    BY <1>3 DEF SaveBan, Goto
  <2>2. [at[Main] EXCEPT !.pc = "readActor"].pc \notin Upkeep
    BY DEF Upkeep, Sweeps, Frame
  <2>3. daemon' = daemon
    BY <1>3 DEF SaveBan, mode
  <2>. QED BY <1>3, <2>1, <2>2, <2>3, SaveGrows, TurnOutside
<1>4. CASE ReadActor(Main)
  <2>. DEFINE frame == [at[Main] EXCEPT !.pc = "writeActor", !.profile = ProfileAfter(Main)]
  <2>1. at' = [at EXCEPT ![Main] = frame]
    BY <1>4 DEF ReadActor, Become
  <2>2. frame.pc \notin Upkeep
    BY DEF Upkeep, Sweeps, Frame
  <2>3. daemon' = daemon /\ Active' = Active
    BY <1>4, LedgerSame DEF ReadActor, mode
  <2>. QED BY <2>1, <2>2, <2>3, TurnOutside
<1>5. CASE WriteActor(Main)
  <2>. DEFINE frame == [Idle EXCEPT !.pc = "profile", !.ip = at[Main].ip, !.risk = at[Main].risk]
  <2>1. at' = [at EXCEPT ![Main] = frame]
    BY <1>5 DEF WriteActor, Become
  <2>2. frame.pc \notin Upkeep
    BY DEF Upkeep, Sweeps, Idle
  <2>3. daemon' = daemon /\ Active' = Active
    BY <1>5, LedgerSame DEF WriteActor, mode
  <2>. QED BY <2>1, <2>2, <2>3, TurnOutside
<1>6. CASE EnforceRaises(Main) \/ SaveRaises(Main)
  <2>1. Raise(Main) /\ daemon' = daemon
    BY <1>6 DEF EnforceRaises, SaveRaises, mode
  <2>2. CASE at[Main].want = "active"
    BY <2>1, <2>2, OpenTurn DEF Raise
  <2>3. CASE at[Main].want # "active"
    <3>1. at' = [at EXCEPT ![Main] = Idle] /\ Active' = Active
      BY <2>1, <2>3, LedgerSame DEF Raise, Become
    <3>2. Idle.pc \notin Upkeep
      BY DEF Idle, Upkeep, Sweeps
    <3>. QED BY <2>1, <3>1, <3>2, TurnOutside
  <2>. QED BY <2>2, <2>3
<1>7. CASE SaveProfile
  <2>1. at' = [at EXCEPT ![Main] = Idle] /\ daemon' = daemon /\ Active' = Active
    BY <1>7, LedgerSame DEF SaveProfile, Become, mode
  <2>2. Idle.pc \notin Upkeep
    BY DEF Idle, Upkeep, Sweeps
  <2>. QED BY <2>1, <2>2, TurnOutside
<1>. QED BY <1>1, <1>2, <1>3, <1>4, <1>5, <1>6, <1>7 DEF CreateStep

LEMMA EventTurn ==
  ASSUME CauseInv, SweepInv, NEW i \in IPs, NEW r \in RiskStates,
         EventPasses(i, r) \/ \E d \in Durations : EventIsolates(i, r, d)
  PROVE  Turn(Main)
<1>1. CASE EventPasses(i, r)
  <2>. DEFINE frame == [Idle EXCEPT !.pc = "profile", !.ip = i, !.risk = r]
  <2>1. at' = [at EXCEPT ![Main] = frame] /\ daemon' = daemon /\ Active' = Active
    BY <1>1, LedgerSame DEF EventPasses, Become, mode
  <2>2. frame.pc \notin Upkeep
    BY DEF Idle, Upkeep, Sweeps
  <2>. QED BY <2>1, <2>2, TurnOutside
<1>2. ASSUME NEW d \in Durations, EventIsolates(i, r, d) PROVE Turn(Main)
  <2>1. Open(Main, [Idle EXCEPT !.risk = r], i, ResponseStatus, d) /\ daemon' = daemon
    BY <1>2 DEF EventIsolates, mode
  <2>2. [Idle EXCEPT !.risk = r] \in Frame
    BY IdleFrame, ConstantsOK DEF Frame, ActorState
  <2>. QED BY <2>1, <2>2, OpenTurn
<1>. QED BY <1>1, <1>2

(* A step of upkeep that the daemon's state does not notice, first one     *)
(* outside a sweep and then one that goes on with it or begins it.         *)
LEMMA TurnUpkeep ==
  ASSUME CauseInv, SweepInv, NEW p \in {Main, Worker}, NEW frame, at[p].pc \in Upkeep,
         at' = [at EXCEPT ![p] = frame], daemon' = daemon, frame.pc \notin Sweeps
  PROVE  Turn(p)
<1>1. at[p].pc # "idle"
  BY DEF Upkeep, Sweeps
<1>2. OneKeeper'
  BY <1>1, KeeperStays
<1>. QED BY <1>2, TurnAside

LEMMA TurnSweep ==
  ASSUME CauseInv, SweepInv, NEW p \in {Main, Worker}, NEW frame, at[p].pc \in Upkeep,
         at' = [at EXCEPT ![p] = frame], daemon' = daemon, frame.pc # "markExpired",
         Pending(frame) \subseteq Active'
  PROVE  Turn(p)
<1>1. at[p].pc # "idle"
  BY DEF Upkeep, Sweeps
<1>2. OneKeeper'
  BY <1>1, KeeperStays
<1>3. at'[p] = frame /\ \A q \in Procs : q # p => at'[q] = at[q]
  BY ProcTyping DEF CauseInv, TypeOK
<1>. QED BY <1>2, <1>3 DEF Turn

LEMMA TurnEnds ==
  ASSUME CauseInv, SweepInv, NEW p \in {Main, Worker}, at[p].pc \in Upkeep,
         at' = [at EXCEPT ![p] = Idle], daemon' = "up"
  PROVE  Turn(p)
<1>1. Idle.pc \notin Sweeps
  BY DEF Idle, Sweeps
<1>. QED BY <1>1, KeeperEnds, TurnAside

LEMMA SyncTurn ==
  ASSUME CauseInv, SweepInv, StartDaemon \/ SyncStep
  PROVE  Turn(Main)
<1>. at[Main] \in Frame
  BY ProcTyping DEF CauseInv, TypeOK
<1>1. CASE StartDaemon
  <2>. DEFINE frame == [Idle EXCEPT !.pc = "sync", !.job = "sync", !.todo = Active, !.t0 = clock]
  <2>1. at' = [at EXCEPT ![Main] = frame] /\ daemon = "down" /\ daemon' = "starting"
    BY <1>1 DEF StartDaemon, Looks, Become
  <2>2. Active' = Active
    BY <1>1, LedgerSame DEF StartDaemon, Looks
  <2>3. frame.pc \notin Sweeps
    BY DEF Sweeps, Idle
  <2>4. OneKeeper'
    BY <2>1, ProcTyping, Distinct DEF CauseInv, TypeOK, SweepInv, OneKeeper
  <2>. QED BY <2>1, <2>2, <2>3, <2>4, TurnAside
<1>2. CASE SyncExpires \/ SyncBlocks
  <2>1. \E frame : at' = [at EXCEPT ![Main] = frame] /\ frame.pc \notin Sweeps
    <3>. PICK b : at' = [at EXCEPT ![Main] = [at[Main] EXCEPT !.todo = @ \ {b}]]
      BY <1>2 DEF SyncExpires, SyncBlocks, Become
    <3>1. [at[Main] EXCEPT !.todo = @ \ {b}].pc \notin Sweeps
      BY <1>2 DEF SyncExpires, SyncBlocks, Sweeps, Frame
    <3>. QED BY <3>1
  <2>2. at[Main].pc \in Upkeep /\ daemon' = daemon
    BY <1>2 DEF SyncExpires, SyncBlocks, Upkeep, mode
  <2>. QED BY <2>1, <2>2, TurnUpkeep
<1>3. CASE SyncFails
  <2>1. at[Main].pc \in Upkeep /\ daemon' = "up" /\ at' = [at EXCEPT ![Main] = Idle]
    BY <1>3 DEF SyncFails, Upkeep, Become
  <2>. QED BY <2>1, TurnEnds
<1>4. CASE SyncDone
  <2>. DEFINE frame == [Idle EXCEPT !.pc = "reconcile", !.job = "reconcile"]
  <2>1. at[Main].pc \in Upkeep /\ daemon' = daemon /\ at' = [at EXCEPT ![Main] = frame]
    BY <1>4 DEF SyncDone, MakesUp, Upkeep, Become
  <2>2. frame.pc \notin Sweeps
    BY DEF Sweeps, Idle
  <2>. QED BY <2>1, <2>2, TurnUpkeep
<1>. QED BY <1>1, <1>2, <1>3, <1>4 DEF SyncStep

LEMMA SweepTurn ==
  ASSUME CauseInv, SweepInv, NEW p \in {Main, Worker},
         \/ SweepSkips(p) \/ SweepUnblocks(p) \/ MarkExpired(p) \/ ExpireActor(p)
         \/ SweepRaises(p) \/ SweepDone(p)
  PROVE  Turn(p)
<1>. at[p] \in Frame
  BY ProcTyping DEF CauseInv, TypeOK
<1>0. at[p].pc \in Upkeep /\ (at[p].pc \in Sweeps => Pending(at[p]) \subseteq Active)
  BY DEF SweepInv, Upkeep, Sweeps, SweepSkips, SweepUnblocks, MarkExpired, ExpireActor,
     SweepRaises, SweepDone
<1>1. CASE SweepSkips(p)
  <2>1. \E frame : at' = [at EXCEPT ![p] = frame] /\ frame.pc = "sweep" /\ frame.todo \subseteq at[p].todo
    <3>. PICK b : at' = [at EXCEPT ![p] = [at[p] EXCEPT !.todo = @ \ {b}]]
      BY <1>1 DEF SweepSkips, Become
    <3>1. /\ [at[p] EXCEPT !.todo = @ \ {b}].pc = "sweep"
          /\ [at[p] EXCEPT !.todo = @ \ {b}].todo \subseteq at[p].todo
      BY <1>1 DEF SweepSkips, Frame
    <3>. QED BY <3>1
  <2>2. daemon' = daemon /\ Active' = Active /\ at[p].pc = "sweep"
    BY <1>1, LedgerSame DEF SweepSkips, mode
  <2>3. at[p].todo \subseteq Active'
    BY <1>0, <2>2 DEF Sweeps, Pending
  <2>. QED BY <1>0, <2>1, <2>2, <2>3, TurnSweep DEF Pending
<1>2. CASE SweepUnblocks(p)
  <2>1. \E b \in at[p].todo : IsExpired(b) /\
          at' = [at EXCEPT ![p] = [at[p] EXCEPT !.pc = "markExpired", !.ban = b]]
    BY <1>2 DEF SweepUnblocks, Become, Latest
  <2>2. \E b \in at[p].todo : /\ IsExpired(b) /\ at'[p].pc = "markExpired" /\ at'[p].ban = b
                             /\ at'[p].todo = at[p].todo
    BY <2>1, ProcTyping DEF CauseInv, TypeOK, Frame
  <2>3. \A q \in Procs : q # p => at'[q] = at[q]
    BY <2>1 DEF CauseInv, TypeOK
  <2>4. UNCHANGED ledger /\ UNCHANGED mode /\ at[p].pc = "sweep"
    BY <1>2 DEF SweepUnblocks
  <2>5. daemon' = daemon /\ Active' = Active
    BY <2>4, LedgerSame DEF mode
  <2>6. OneKeeper'
    <3>1. at[p].pc # "idle"
      BY <2>4
    <3>2. PICK frame : at' = [at EXCEPT ![p] = frame]
      BY <2>1
    <3>. QED BY <1>0, <2>5, <3>1, <3>2, KeeperStays
  <2>7. Pending(at'[p]) \subseteq Active'
    BY <1>0, <2>2, <2>4, <2>5 DEF Pending, Sweeps
  <2>. QED BY <2>2, <2>3, <2>4, <2>5, <2>6, <2>7 DEF Turn
<1>3. CASE MarkExpired(p)
  <2>. DEFINE frame == [at[p] EXCEPT !.pc = "expireActor"]
  <2>1. at' = [at EXCEPT ![p] = frame] /\ daemon' = daemon /\ at[p].pc = "markExpired"
    BY <1>3 DEF MarkExpired, Goto, mode
  <2>2. frame.pc = "expireActor" /\ frame.todo = at[p].todo /\ frame.ban = at[p].ban
    BY DEF Frame
  <2>3. Active \ {at[p].ban} \subseteq Active'
    BY <1>3 DEF MarkExpired, SetStatus, Active, CauseInv, TypeOK
  <2>4. Pending(frame) \subseteq Active'
    BY <1>0, <2>1, <2>2, <2>3 DEF Pending, Sweeps
  <2>. HIDE DEF frame
  <2>. QED BY <1>0, <2>1, <2>2, <2>4, TurnSweep
<1>4. CASE ExpireActor(p)
  <2>. DEFINE frame == [at[p] EXCEPT !.pc = "sweep", !.ban = 0, !.todo = @ \ {at[p].ban}]
  <2>1. at' = [at EXCEPT ![p] = frame] /\ at[p].pc = "expireActor"
    BY <1>4 DEF ExpireActor, Become
  <2>2. daemon' = daemon /\ Active' = Active
    BY <1>4, LedgerSame DEF ExpireActor, mode
  <2>3. frame.pc = "sweep" /\ frame.todo = at[p].todo \ {at[p].ban}
    BY DEF Frame
  <2>4. Pending(frame) \subseteq Active'
    BY <1>0, <2>1, <2>2, <2>3 DEF Pending, Sweeps
  <2>. HIDE DEF frame
  <2>. QED BY <1>0, <2>1, <2>2, <2>3, <2>4, TurnSweep
<1>5. CASE SweepRaises(p)
  <2>1. CASE at[p].job = "sweepThenReconcile"
    <3>1. at' = [at EXCEPT ![p] = [Idle EXCEPT !.pc = "reconcile"]] /\ daemon' = daemon
      BY <1>5, <2>1 DEF SweepRaises, Become, mode
    <3>2. [Idle EXCEPT !.pc = "reconcile"].pc \notin Sweeps
      BY DEF Idle, Sweeps
    <3>. QED BY <1>0, <3>1, <3>2, TurnUpkeep
  <2>2. CASE at[p].job = "reconcile"
    <3>1. at' = [at EXCEPT ![p] = Idle] /\ daemon' = "up"
      BY <1>5, <2>2 DEF SweepRaises, EndReconcile, Become
    <3>. QED BY <1>0, <3>1, TurnEnds
  <2>3. CASE at[p].job \notin {"sweepThenReconcile", "reconcile"}
    <3>1. at' = [at EXCEPT ![p] = Idle] /\ daemon' = daemon
      BY <1>5, <2>3 DEF SweepRaises, Become, mode
    <3>2. Idle.pc \notin Sweeps
      BY DEF Idle, Sweeps
    <3>. QED BY <1>0, <3>1, <3>2, TurnUpkeep
  <2>. QED BY <2>1, <2>2, <2>3
<1>6. CASE SweepDone(p)
  <2>1. daemon' = daemon
    BY <1>6 DEF SweepDone, mode
  <2>2. \E frame : at' = [at EXCEPT ![p] = frame] /\ frame.pc \notin Sweeps
    <3>1. CASE at[p].job = "sweepThenReconcile"
      <4>1. at' = [at EXCEPT ![p] = [Idle EXCEPT !.pc = "reconcile"]]
        BY <1>6, <3>1 DEF SweepDone, Become
      <4>2. [Idle EXCEPT !.pc = "reconcile"].pc \notin Sweeps
        BY DEF Idle, Sweeps
      <4>. QED BY <4>1, <4>2
    <3>2. CASE at[p].job = "reconcile"
      <4>1. at' = [at EXCEPT ![p] = [at[p] EXCEPT !.pc = "list"]]
        BY <1>6, <3>2 DEF SweepDone, Goto
      <4>2. [at[p] EXCEPT !.pc = "list"].pc \notin Sweeps
        BY DEF Frame, Sweeps
      <4>. QED BY <4>1, <4>2
    <3>3. CASE at[p].job \notin {"sweepThenReconcile", "reconcile"}
      <4>1. at' = [at EXCEPT ![p] = Idle]
        BY <1>6, <3>3 DEF SweepDone, Become
      <4>2. Idle.pc \notin Sweeps
        BY DEF Idle, Sweeps
      <4>. QED BY <4>1, <4>2
    <3>. QED BY <3>1, <3>2, <3>3
  <2>. QED BY <1>0, <2>1, <2>2, TurnUpkeep
<1>. QED BY <1>1, <1>2, <1>3, <1>4, <1>5, <1>6

LEMMA ReconcileTurn ==
  ASSUME CauseInv, SweepInv, NEW p \in {Main, Worker}, ReconcileStep(p)
  PROVE  Turn(p)
<1>. at[p] \in Frame
  BY ProcTyping DEF CauseInv, TypeOK
<1>1. CASE ReconcileBegins(p)
  <2>. DEFINE frame == [Idle EXCEPT !.pc = "sweep", !.job = "reconcile", !.todo = Active, !.t0 = clock]
  <2>1. at' = [at EXCEPT ![p] = frame] /\ at[p].pc \in Upkeep
    BY <1>1 DEF ReconcileBegins, StartSweep, Become, Upkeep
  <2>2. daemon' = daemon /\ Active' = Active
    BY <1>1, LedgerSame DEF ReconcileBegins, mode
  <2>3. frame.pc # "markExpired" /\ Pending(frame) \subseteq Active'
    BY <2>2 DEF Pending, Idle
  <2>. HIDE DEF frame
  <2>. QED BY <2>1, <2>2, <2>3, TurnSweep
<1>2. CASE ReconcileSkipped(p) \/ RestoreEnds(p)
  <2>1. at[p].pc \in Upkeep /\ EndReconcile(p)
    BY <1>2 DEF ReconcileSkipped, RestoreEnds, MakesUp, Upkeep
  <2>. QED BY <2>1, TurnEnds DEF EndReconcile, Become
<1>3. CASE ListRules(p)
  <2>. DEFINE listed == IF available THEN {i \in IPs : rule[i] # NoRule} ELSE {}
              frame == [at[p] EXCEPT !.pc = "expect", !.seen = listed]
  <2>1. at' = [at EXCEPT ![p] = frame] /\ at[p].pc \in Upkeep /\ daemon' = daemon
    BY <1>3 DEF ListRules, Looks, Become, Upkeep, mode
  <2>2. frame.pc \notin Sweeps
    BY DEF Frame, Sweeps
  <2>. HIDE DEF frame
  <2>. QED BY <2>1, <2>2, TurnUpkeep
<1>4. CASE ExpectBans(p)
  <2>. DEFINE missing == {b \in Expected : bans[b].ip \notin at[p].seen}
              frame == [at[p] EXCEPT !.pc = "restore", !.todo = missing]
  <2>1. at' = [at EXCEPT ![p] = frame] /\ at[p].pc \in Upkeep /\ daemon' = daemon
    BY <1>4 DEF ExpectBans, Become, Upkeep, mode
  <2>2. frame.pc \notin Sweeps
    BY DEF Frame, Sweeps
  <2>. HIDE DEF frame
  <2>. QED BY <2>1, <2>2, TurnUpkeep
<1>5. CASE RestoreBlocks(p)
  <2>1. \E frame : at' = [at EXCEPT ![p] = frame] /\ frame.pc \notin Sweeps
    <3>. PICK b : at' = [at EXCEPT ![p] = [at[p] EXCEPT !.todo = @ \ {b}]]
      BY <1>5 DEF RestoreBlocks, Become
    <3>1. [at[p] EXCEPT !.todo = @ \ {b}].pc \notin Sweeps
      BY <1>5 DEF RestoreBlocks, Sweeps, Frame
    <3>. QED BY <3>1
  <2>2. at[p].pc \in Upkeep /\ daemon' = daemon
    BY <1>5 DEF RestoreBlocks, Upkeep, mode
  <2>. QED BY <2>1, <2>2, TurnUpkeep
<1>. QED BY <1>1, <1>2, <1>3, <1>4, <1>5, SweepTurn DEF ReconcileStep

LEMMA WorkerBegins ==
  ASSUME CauseInv, SweepInv, WorkerTurn
  PROVE  Turn(Worker)
<1>. DEFINE n == beat + 1
            sweeps == n % SweepEvery = 0
            reconciles == n >= ReconcileEvery
            job == IF reconciles THEN "sweepThenReconcile" ELSE "sweep"
<1>1. daemon = "up" /\ daemon' = daemon /\ Active' = Active /\ at[Worker].pc = "idle"
  BY LedgerSame DEF WorkerTurn
<1>2. ASSUME NEW frame, at' = [at EXCEPT ![Worker] = frame], frame.pc # "markExpired",
             frame.pc \in Sweeps => Pending(frame) \subseteq Active
      PROVE  Turn(Worker)
  <2>1. OneKeeper'
    BY <1>1, <1>2, KeeperStays, Distinct
  <2>2. at'[Worker] = frame /\ \A q \in Procs : q # Worker => at'[q] = at[q]
    BY <1>2, ProcTyping DEF CauseInv, TypeOK
  <2>. QED BY <1>1, <1>2, <2>1, <2>2 DEF Turn
<1>3. CASE sweeps
  <2>. DEFINE frame == [Idle EXCEPT !.pc = "sweep", !.job = job, !.todo = Active, !.t0 = 0]
  <2>1. at' = [at EXCEPT ![Worker] = frame]
    BY <1>3 DEF WorkerTurn, StartSweep, Become
  <2>2. frame.pc # "markExpired" /\ Pending(frame) \subseteq Active
    BY DEF Pending, Idle
  <2>. HIDE DEF frame
  <2>. QED BY <1>2, <2>1, <2>2
<1>4. CASE ~sweeps /\ reconciles
  <2>. DEFINE frame == [Idle EXCEPT !.pc = "reconcile"]
  <2>1. at' = [at EXCEPT ![Worker] = frame]
    BY <1>4 DEF WorkerTurn, Become
  <2>2. frame.pc \notin Sweeps /\ frame.pc # "markExpired"
    BY DEF Sweeps, Idle
  <2>. HIDE DEF frame
  <2>. QED BY <1>2, <2>1, <2>2
<1>5. CASE ~sweeps /\ ~reconciles
  <2>1. at' = at
    BY <1>5 DEF WorkerTurn
  <2>. QED BY <1>1, <2>1 DEF Turn, SweepInv, OneKeeper, Sweeps
<1>. QED BY <1>3, <1>4, <1>5

(* Standing still, and dying. *)
LEMMA Withdrawn ==
  ASSUME SweepInv, UNCHANGED ledger,
         \/ at' = at /\ daemon' = daemon
         \/ at'[Main] = Idle /\ at'[Worker] = Idle /\ daemon' = "down"
  PROVE  SweepInv' /\ ReleaseStep
<1>1. Active' = Active
  BY LedgerSame
<1>2. Idle.pc = "idle"
  BY DEF Idle
<1>. QED BY <1>1, <1>2 DEF SweepInv, OneKeeper, ReleaseStep, Upkeep, Sweeps, Pending

LEMMA NextReleases ==
  ASSUME CauseInv, SweepInv, AtMostOneActiveBan, Operators = {}, [Next]_vars
  PROVE  SweepInv' /\ ReleaseStep
<1>1. CASE UNCHANGED vars
  BY <1>1, Withdrawn DEF vars, ledger
<1>2. CASE MainStep
  BY <1>2, CreateTurn, SyncTurn, ReconcileTurn, TurnKeeps DEF MainStep
<1>3. CASE WorkerStep
  BY <1>3, WorkerBegins, ReconcileTurn, TurnKeeps DEF WorkerStep
<1>4. CASE StartDaemon
  BY <1>4, SyncTurn, TurnKeeps
<1>5. CASE Arrivals
  BY <1>5, EventTurn, TurnKeeps DEF Arrivals
<1>6. CASE Environment
  <2>1. UNCHANGED ledger
    BY <1>6 DEF Environment, Tick, Crash, Reboot, RulesLost, FirewallGoes, FirewallReturns
  <2>2. CASE Crash \/ Reboot
    <3>1. at'[Main] = Idle /\ at'[Worker] = Idle /\ daemon' = "down"
      BY <2>2, ProcTyping, Distinct DEF Crash, StopDaemon, Reboot, CauseInv, TypeOK
    <3>. QED BY <2>1, <3>1, Withdrawn
  <2>3. CASE Tick \/ RulesLost \/ FirewallGoes \/ FirewallReturns
    <3>1. at' = at /\ daemon' = daemon
      BY <2>3 DEF Tick, RulesLost, FirewallGoes, FirewallReturns, mode
    <3>. QED BY <2>1, <3>1, Withdrawn
  <2>. QED BY <1>6, <2>2, <2>3 DEF Environment
<1>. QED BY <1>1, <1>2, <1>3, <1>4, <1>5, <1>6 DEF Next

(* A daemon that has the database to itself never unblocks an address      *)
(* whose ban still runs, although it decides on rows it read some steps    *)
(* ago and unblocks by address (ban_manager.py:100-106).                   *)
THEOREM OnlyExpiredReleased ==
  ASSUME Operators = {}
  PROVE  Spec => ReleasesOnlyExpired
<1>1. Init => SweepInv
  BY ProcTyping DEF Init, SweepInv, OneKeeper, Upkeep, Sweeps, Idle
<1>2. CauseInv /\ SweepInv /\ AtMostOneActiveBan /\ [Next]_vars => SweepInv' /\ [ReleaseStep]_vars
  BY NextReleases
<1>3. Spec => []AtMostOneActiveBan
  BY OneBanAtATime
<1>4. Spec => [][ReleaseStep]_vars
  BY <1>1, <1>2, <1>3, CauseInvariant, PTL DEF Spec
<1>5. [ReleaseStep]_vars =>
        [\A p \in {Main, Worker} : at[p].pc # "markExpired" /\ at'[p].pc = "markExpired" =>
           \A c \in ActiveFor(bans[at'[p].ban].ip) : IsExpired(c)]_vars
  BY DEF ReleaseStep
<1>. QED BY <1>4, <1>5, PTL DEF ReleasesOnlyExpired
=============================================================================

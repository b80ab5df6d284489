---------------------------- MODULE BanLedgerProofs ----------------------------
(***************************************************************************)
(* BanLifecycle implements BanLedger, for every value of its constants.    *)
(***************************************************************************)
EXTENDS BanLifecycleProofs

Phases == [b \in BanId |-> Phase(bans[b].status)]
Due == {b \in BanId : IsExpired(b)}
Asked == {b \in BanId : \E o \in Operators : at[o].pc = "unbanMark" /\ at[o].ban = b}
Refines == [Ledger!Next]_<<Phases, Due, Asked>>

(* What CauseInv does not say of the frames: a row about to be marked as   *)
(* expired has expired, and a row about to be stored is not closed yet.    *)
Recorded == {"active", "failed", "dry_run", "pending_approval"}
Ready(f) ==
  /\ f.pc = "markExpired" => IsExpired(f.ban)
  /\ f.pc \in Creating => f.rec \in Recorded
AllReady == \A p \in Procs : Ready(at[p])

-----------------------------------------------------------------------------
(* The kinds of step. *)

LEMMA WithdrawRefines ==
  ASSUME Phases' = Phases, Due' = Due, Asked' \subseteq Asked
  PROVE  Refines
BY DEF Refines, Ledger!Next, Ledger!Withdraw, Phases, Due, Asked

LEMMA SameRows ==
  ASSUME UNCHANGED <<bans, clock>>
  PROVE  Phases' = Phases /\ Due' = Due /\ \A b \in BanId : IsExpired(b)' = IsExpired(b)
BY DEF Phases, Due, IsExpired, Phase

(* A frame that is left alone, or moves to where nothing is promised. *)
Calm(p) ==
  \/ at'[p] = at[p]
  \/ /\ at'[p].pc \notin {"markExpired", "unbanMark"}
     /\ at'[p].pc \in Creating => at'[p].rec \in Recorded

LEMMA CalmAsked ==
  ASSUME \A p \in Procs : Calm(p)
  PROVE  Asked' \subseteq Asked
BY ProcTyping DEF Asked, Calm, BanId

LEMMA CalmReady ==
  ASSUME CauseInv, AllReady, \A p \in Procs : Calm(p),
         \A b \in 1..last : IsExpired(b) => IsExpired(b)'
  PROVE  AllReady'
<1>. SUFFICES ASSUME NEW p \in Procs PROVE Ready(at[p])'
  BY DEF AllReady
<1>1. CASE at'[p] = at[p]
  <2>1. Ready(at[p]) /\ FrameOK(p, at[p])
    BY DEF AllReady, CauseInv
  <2>. QED BY <1>1, <2>1 DEF Ready, FrameOK
<1>2. CASE at'[p] # at[p]
  BY <1>2 DEF Ready, Calm
<1>. QED BY <1>1, <1>2

LEMMA CalmRefines ==
  ASSUME CauseInv, AllReady, UNCHANGED <<bans, clock>>, \A p \in Procs : Calm(p)
  PROVE  AllReady' /\ Refines
<1>1. \A b \in 1..last : IsExpired(b) => IsExpired(b)'
  BY DEF IsExpired
<1>. QED BY <1>1, SameRows, CalmAsked, CalmReady, WithdrawRefines

(* One process moves. *)
LEMMA OneMoves ==
  ASSUME CauseInv, NEW p \in Procs, NEW f, at' = [at EXCEPT ![p] = f],
         f.pc \notin {"markExpired", "unbanMark"}, f.pc \in Creating => f.rec \in Recorded
  PROVE  \A q \in Procs : Calm(q)
BY DEF CauseInv, TypeOK, Calm

LEMMA MoveRefines ==
  ASSUME CauseInv, AllReady, NEW p \in Procs, NEW f, at' = [at EXCEPT ![p] = f],
         f.pc \notin {"markExpired", "unbanMark"}, f.pc \in Creating => f.rec \in Recorded,
         UNCHANGED <<bans, clock>>
  PROVE  AllReady' /\ Refines
BY OneMoves, CalmRefines

LEMMA IdleRefines ==
  ASSUME CauseInv, AllReady, NEW p \in Procs, Become(p, Idle), UNCHANGED <<bans, clock>>
  PROVE  AllReady' /\ Refines
BY MoveRefines DEF Become, Idle, Creating

(* A row is allocated: it is new in the ledger as before, and not due. *)
LEMMA OpenRefines ==
  ASSUME CauseInv, AllReady, NEW p \in Procs, NEW frame \in Frame, NEW i, NEW want \in Recorded,
         NEW secs \in Nat, Open(p, frame, i, want, secs), clock' = clock
  PROVE  AllReady' /\ Refines
<1>. PICK n \in BanId : n = last + 1
  BY ConstantsOK DEF Open, CauseInv, TypeOK, BanId
<1>. clock \in Nat /\ bans \in [BanId -> BanRecord]
  BY DEF CauseInv, TypeOK
<1>1. bans[n] = Unallocated
  BY DEF CauseInv, TableOK, BanId, TypeOK
<1>2. bans'[n].status = "absent" /\ ~IsExpired(n) /\ ~IsExpired(n)'
  <2>1. secs > 0 => clock + secs * Resolution > clock
    BY ConstantsOK
  <2>2. bans'[n].status = "absent" /\ (bans'[n].expires = Never \/ bans'[n].expires > clock)
    BY <2>1 DEF Open
  <2>3. ~IsExpired(n)
    BY <1>1 DEF IsExpired, Unallocated, Never
  <2>4. bans'[n].expires = Never \/ ~(clock >= bans'[n].expires)
    <3>1. bans'[n].expires \in Nat
      BY ExpiryTyping, clock + secs * Resolution \in Nat DEF Open, Never
    <3>. QED BY <2>2, <3>1
  <2>. QED BY <2>2, <2>3, <2>4 DEF IsExpired
<1>3. \A b \in BanId : b # n => bans'[b] = bans[b]
  BY DEF Open
<1>4. Phases' = Phases /\ Due' = Due /\ \A b \in 1..last : IsExpired(b) => IsExpired(b)'
  <2>1. \A b \in BanId : bans'[b].status = bans[b].status
    <3>1. bans'[n].status = bans[n].status
      BY <1>1, <1>2 DEF Unallocated
    <3>. QED BY <3>1, <1>3
  <2>2. \A b \in BanId : IsExpired(b)' <=> IsExpired(b)
    <3>1. ASSUME NEW b \in BanId, b # n PROVE IsExpired(b)' <=> IsExpired(b)
      BY <1>3, <3>1 DEF IsExpired
    <3>. QED BY <1>2, <3>1
  <2>3. 1..last \subseteq BanId
    BY ConstantsOK DEF CauseInv, TypeOK, BanId
  <2>. QED BY <2>1, <2>2, <2>3 DEF Phases, Due
<1>5. \A q \in Procs : Calm(q)
  <2>. DEFINE f == [frame EXCEPT !.pc = IF want = "active" THEN "enforce" ELSE "save",
                                 !.ip = i, !.ban = n, !.want = want, !.rec = want]
  <2>1. f.pc \in Creating /\ f.rec = want
    BY DEF Frame, Creating
  <2>2. at' = [at EXCEPT ![p] = f]
    BY DEF Open, Become
  <2>. QED BY <2>1, <2>2, OneMoves DEF Creating
<1>. QED BY <1>4, <1>5, CalmAsked, CalmReady, WithdrawRefines

(* A settled row is closed, because it is due or because it was asked for. *)
LEMMA CloseRefines ==
  ASSUME CauseInv, AllReady, NEW p \in Procs, NEW f, at' = [at EXCEPT ![p] = f],
         f.pc \notin {"markExpired", "unbanMark"} \union Creating,
         NEW b \in BanId, Settled(b), IsExpired(b) \/ b \in Asked,
         NEW s \in {"expired", "unbanned"}, SetStatus(b, s), clock' = clock
  PROVE  AllReady' /\ Refines
<1>. bans \in [BanId -> BanRecord]
  BY DEF CauseInv, TypeOK
<1>1. /\ \A c \in BanId : bans'[c].expires = bans[c].expires
      /\ \A c \in BanId : c # b => bans'[c] = bans[c]
      /\ bans'[b].status = s
  BY DEF SetStatus, BanRecord
<1>2. \A c \in BanId : IsExpired(c)' = IsExpired(c)
  BY <1>1 DEF IsExpired
<1>3. \A q \in Procs : Calm(q)
  BY OneMoves
<1>4. AllReady'
  <2>1. 1..last \subseteq BanId
    BY ConstantsOK DEF CauseInv, TypeOK, BanId
  <2>. QED BY <1>2, <1>3, <2>1, CalmReady
<1>5. Due' = Due /\ Asked' \subseteq Asked
  BY <1>2, <1>3, CalmAsked DEF Due
<1>6. CASE bans[b].status = "active"
  <2>1. Phases' = [Phases EXCEPT ![b] = "closed"] /\ Phases[b] = "active"
    BY <1>1, <1>6 DEF Phases, Phase
  <2>2. b \in Due \union Asked
    BY DEF Due
  <2>. QED BY <1>4, <1>5, <2>1, <2>2 DEF Refines, Ledger!Next, Ledger!Close, Phases, Due, Asked
<1>7. CASE bans[b].status # "active"
  <2>1. Phases' = Phases
    BY <1>1, <1>7 DEF Phases, Phase, Settled
  <2>. QED BY <1>4, <1>5, <2>1, WithdrawRefines
<1>. QED BY <1>6, <1>7

-----------------------------------------------------------------------------
(* create_ban. *)

LEMMA SaveBanRefines ==
  ASSUME CauseInv, AllReady, NEW p \in Procs, SaveBan(p)
  PROVE  AllReady' /\ Refines
<1>. at[p] \in Frame /\ bans \in [BanId -> BanRecord] /\ 1..last \subseteq BanId
  BY ConstantsOK DEF CauseInv, TypeOK, BanId
<1>. PICK b \in BanId : b = at[p].ban /\ bans[b].status = "absent"
  BY DEF CauseInv, FrameOK, SaveBan, Creating
<1>. PICK r \in Recorded : r = at[p].rec
  BY DEF AllReady, Ready, SaveBan, Creating
<1>1. /\ \A c \in BanId : bans'[c].expires = bans[c].expires
      /\ \A c \in BanId : c # b => bans'[c] = bans[c]
      /\ bans'[b].status = r /\ clock' = clock
  BY DEF SaveBan, SetStatus, BanRecord, world, host
<1>2. \A c \in BanId : IsExpired(c)' = IsExpired(c)
  BY <1>1 DEF IsExpired
<1>3. \A q \in Procs : Calm(q)
  <2>1. at' = [at EXCEPT ![p] = [at[p] EXCEPT !.pc = "readActor"]]
    BY DEF SaveBan, Goto, CauseInv, TypeOK
  <2>2. [at[p] EXCEPT !.pc = "readActor"].pc = "readActor"
    BY DEF Frame
  <2>. QED BY <2>1, <2>2, OneMoves DEF Creating
<1>4. AllReady'
  BY <1>2, <1>3, CalmReady
<1>5. Due' = Due
  BY <1>2 DEF Due
<1>6. Asked' = Asked
  BY ProcTyping DEF Asked, SaveBan, Goto, CauseInv, TypeOK, Frame
<1>7. \E x \in {"active", "inert"} : Phases' = [Phases EXCEPT ![b] = x] /\ Phases[b] = "new"
  <2>1. Phase(r) \in {"active", "inert"}
    BY DEF Phase, Recorded
  <2>2. Phases' = [Phases EXCEPT ![b] = Phase(r)]
    BY <1>1 DEF Phases
  <2>3. Phases[b] = "new"
    BY DEF Phases, Phase
  <2>. QED BY <2>1, <2>2, <2>3
<1>. QED BY <1>4, <1>5, <1>6, <1>7 DEF Refines, Ledger!Next, Ledger!Record, Phases, Due, Asked

LEMMA RaiseRefines ==
  ASSUME CauseInv, AllReady, NEW p \in Procs, Raise(p), clock' = clock,
         at[p].pc \in Creating \union {"writeActor", "profile"}
  PROVE  AllReady' /\ Refines
<1>1. FrameOK(p, at[p]) /\ at[p] \in Frame
  BY DEF CauseInv, TypeOK
<1>2. CASE p = Main /\ at[p].want = "active"
  <2>1. at[p].pc # "profile"
    BY <1>1, <1>2, ConstantsOK DEF FrameOK, BanStatus
  <2>2. bans[at[p].ban].secs \in Nat
    BY <1>1, <2>1, ConstantsOK DEF FrameOK, CauseInv, TypeOK, BanRecord, BanId
  <2>3. "failed" \in Recorded
    BY DEF Recorded
  <2>. QED BY <1>1, <1>2, <2>2, <2>3, OpenRefines DEF Raise
<1>3. CASE ~(p = Main /\ at[p].want = "active")
  BY <1>3, IdleRefines DEF Raise, ledger
<1>. QED BY <1>2, <1>3

LEMMA CreateRefines ==
  ASSUME CauseInv, AllReady, NEW p \in Procs, CreateStep(p)
  PROVE  AllReady' /\ Refines
<1>. Ready(at[p]) /\ at[p] \in Frame /\ at \in [Procs -> Frame]
  BY DEF AllReady, CauseInv, TypeOK
<1>1. CASE EnforceBlocks(p) \/ EnforceRefused(p)
  <2>1. PICK f : /\ at' = [at EXCEPT ![p] = f] /\ f.pc = "save" /\ f.rec \in Recorded
    <3>1. CASE EnforceBlocks(p)
      <4>. DEFINE f == [at[p] EXCEPT !.pc = "save"]
      <4>1. at' = [at EXCEPT ![p] = f] /\ f.pc = "save" /\ f.rec = at[p].rec
        BY <3>1 DEF EnforceBlocks, Goto, Frame
      <4>. QED BY <3>1, <4>1 DEF EnforceBlocks, Ready, Creating
    <3>2. CASE EnforceRefused(p)
      <4>. DEFINE f == [at[p] EXCEPT !.pc = "save", !.rec = "failed"]
      <4>1. at' = [at EXCEPT ![p] = f] /\ f.pc = "save" /\ f.rec = "failed"
        BY <3>2 DEF EnforceRefused, Become, Frame
      <4>. QED BY <4>1 DEF Recorded
    <3>. QED BY <1>1, <3>1, <3>2
  <2>2. UNCHANGED <<bans, clock>>
    BY <1>1 DEF EnforceBlocks, EnforceRefused, world, host, ledger
  <2>. QED BY <2>1, <2>2, MoveRefines
<1>2. CASE ReadActor(p)
  <2>. DEFINE f == [at[p] EXCEPT !.pc = "writeActor", !.profile = ProfileAfter(p)]
  <2>1. at' = [at EXCEPT ![p] = f] /\ f.pc = "writeActor" /\ UNCHANGED <<bans, clock>>
    BY <1>2 DEF ReadActor, Become, Frame, world, host, ledger
  <2>. QED BY <2>1, MoveRefines DEF Creating
<1>3. CASE WriteActor(p)
  <2>1. UNCHANGED <<bans, clock>>
    BY <1>3 DEF WriteActor, world, host, ledger
  <2>2. CASE p = Main
    <3>. DEFINE f == [Idle EXCEPT !.pc = "profile", !.ip = at[p].ip, !.risk = at[p].risk]
    <3>1. at' = [at EXCEPT ![p] = f] /\ f.pc = "profile"
      BY <1>3, <2>2 DEF WriteActor, Become, Idle
    <3>. QED BY <2>1, <3>1, MoveRefines DEF Creating
  <2>. QED BY <1>3, <2>1, <2>2, IdleRefines DEF WriteActor
<1>4. CASE EnforceRaises(p) \/ SaveRaises(p)
  BY <1>4, RaiseRefines DEF EnforceRaises, SaveRaises, Fault, Creating
<1>. QED BY <1>1, <1>2, <1>3, <1>4, SaveBanRefines DEF CreateStep

-----------------------------------------------------------------------------
(* Events and commands. *)

LEMMA ArrivalRefines ==
  ASSUME CauseInv, AllReady, Arrivals
  PROVE  AllReady' /\ Refines
<1>. Idle \in Frame /\ at \in [Procs -> Frame]
  BY IdleFrame DEF CauseInv, TypeOK
<1>1. ASSUME NEW i \in IPs, NEW r \in RiskStates, EventPasses(i, r) PROVE AllReady' /\ Refines
  <2>. DEFINE f == [Idle EXCEPT !.pc = "profile", !.ip = i, !.risk = r]
  <2>1. at' = [at EXCEPT ![Main] = f] /\ f.pc = "profile" /\ UNCHANGED <<bans, clock>>
    BY <1>1 DEF EventPasses, Become, Idle, world, host, ledger
  <2>. QED BY <2>1, MoveRefines, ProcTyping DEF Creating
<1>2. ASSUME NEW i \in IPs, NEW r \in RiskStates, NEW d \in Durations, EventIsolates(i, r, d)
      PROVE  AllReady' /\ Refines
  <2>1. ResponseStatus \in Recorded
    BY DEF ResponseStatus, Recorded
  <2>2. [Idle EXCEPT !.risk = r] \in Frame /\ d \in Nat
    <3>1. r \in ActorState
      BY ConstantsOK DEF ActorState
    <3>. QED BY <3>1, ConstantsOK DEF Frame
  <2>. QED BY <1>2, <2>1, <2>2, ProcTyping, OpenRefines DEF EventIsolates, world, host
<1>3. ASSUME NEW o \in Operators, NEW i \in IPs, UnbanCommand(o, i) PROVE AllReady' /\ Refines
  <2>. DEFINE f == [Idle EXCEPT !.pc = "unbanFind", !.ip = i]
  <2>1. at' = [at EXCEPT ![o] = f] /\ f.pc = "unbanFind" /\ UNCHANGED <<bans, clock>>
    BY <1>3 DEF UnbanCommand, Become, Idle, ledger, UnblockIp, Fault, world, host
  <2>. QED BY <2>1, MoveRefines, ProcTyping DEF Creating
<1>4. ASSUME NEW o \in Operators, NEW i \in IPs, NEW d \in Durations, BanCommand(o, i, d)
      PROVE  AllReady' /\ Refines
  <2>1. "active" \in Recorded /\ d \in Nat
    BY ConstantsOK DEF Recorded
  <2>. QED BY <1>4, <2>1, ProcTyping, OpenRefines DEF BanCommand, world, host
<1>. QED BY <1>1, <1>2, <1>3, <1>4 DEF Arrivals

(* The only step that adds to what operators are releasing. *)
LEMMA AskRefines ==
  ASSUME CauseInv, AllReady, NEW o \in Operators, UnbanFinds(o)
  PROVE  AllReady' /\ Refines
<1>. at \in [Procs -> Frame] /\ o \in Procs
  BY ProcTyping DEF CauseInv, TypeOK
<1>. PICK b \in BanId : /\ bans[b].status = "active" /\ at[o].pc = "unbanFind"
                        /\ at' = [at EXCEPT ![o] = [at[o] EXCEPT !.pc = "unbanMark", !.ban = b]]
  BY DEF UnbanFinds, Latest, ActiveFor, Active, Become
<1>1. UNCHANGED <<bans, clock>>
  BY DEF UnbanFinds, world, host, ledger
<1>2. at'[o].pc = "unbanMark" /\ at'[o].ban = b /\ \A q \in Procs : q # o => at'[q] = at[q]
  BY DEF Frame
<1>3. Asked' = Asked \union {b}
  BY <1>2, ProcTyping DEF Asked
<1>4. Phases[b] = "active"
  BY DEF Phases, Phase
<1>5. AllReady'
  BY <1>1, <1>2 DEF AllReady, Ready, IsExpired, Creating
<1>. QED BY <1>1, <1>3, <1>4, <1>5, SameRows DEF Refines, Ledger!Next, Ledger!Ask, Phases, Due, Asked

LEMMA OperatorRefines ==
  ASSUME CauseInv, AllReady, NEW o \in Operators, OperatorStep(o)
  PROVE  AllReady' /\ Refines
<1>. at[o] \in Frame /\ at \in [Procs -> Frame] /\ o \in Procs
  BY ProcTyping DEF CauseInv, TypeOK
<1>1. CASE UnbanFindsNothing(o)
  <2>. DEFINE f == [at[o] EXCEPT !.pc = "unbanActor"]
  <2>1. at' = [at EXCEPT ![o] = f] /\ f.pc = "unbanActor" /\ UNCHANGED <<bans, clock>>
    BY <1>1 DEF UnbanFindsNothing, Goto, Frame, world, host, ledger
  <2>. QED BY <2>1, MoveRefines DEF Creating
<1>2. CASE MarkUnbanned(o)
  <2>. DEFINE f == [at[o] EXCEPT !.pc = "unbanActor"]
  <2>1. at' = [at EXCEPT ![o] = f] /\ f.pc = "unbanActor" /\ clock' = clock
    BY <1>2 DEF MarkUnbanned, Goto, Frame, world, host
  <2>2. at[o].ban \in BanId /\ Settled(at[o].ban) /\ at[o].ban \in Asked
    <3>1. at[o].ban \in 1..last /\ Settled(at[o].ban)
      BY <1>2 DEF MarkUnbanned, CauseInv, FrameOK
    <3>2. at[o].ban \in BanId
      BY <3>1, ConstantsOK DEF CauseInv, TypeOK, BanId
    <3>. QED BY <1>2, <3>1, <3>2 DEF MarkUnbanned, Asked
  <2>. QED BY <1>2, <2>1, <2>2, CloseRefines DEF MarkUnbanned, Creating
<1>3. CASE ReleaseActor(o)
  BY <1>3, IdleRefines DEF ReleaseActor, world, host, ledger
<1>. QED BY <1>1, <1>2, <1>3, CreateRefines, AskRefines DEF OperatorStep

-----------------------------------------------------------------------------
(* Startup, sweep and reconciliation. *)

(* Rows of a snapshot are rows of the table, and settled. *)
LEMMA SnapshotRows ==
  ASSUME CauseInv, NEW p \in Procs, NEW b \in at[p].todo
  PROVE  b \in BanId /\ b \in 1..last /\ Settled(b)
<1>1. at[p] \in Frame /\ FrameOK(p, at[p])
  BY DEF CauseInv, TypeOK
<1>2. b \in BanId /\ b <= last /\ Settled(b)
  BY <1>1 DEF Frame, FrameOK
<1>. QED BY <1>2, ConstantsOK DEF BanId, CauseInv, TypeOK

LEMMA WithoutMoves ==
  ASSUME CauseInv, AllReady, NEW p \in Procs, NEW b,
         at' = [at EXCEPT ![p] = [at[p] EXCEPT !.todo = @ \ {b}]],
         at[p].pc \in {"sync", "sweep", "restore"}, UNCHANGED <<bans, clock>>
  PROVE  AllReady' /\ Refines
<1>. DEFINE f == [at[p] EXCEPT !.todo = @ \ {b}]
<1>1. f.pc = at[p].pc
  BY DEF CauseInv, TypeOK, Frame
<1>. HIDE DEF f
<1>2. at' = [at EXCEPT ![p] = f]
  BY DEF f
<1>. QED BY <1>1, <1>2, MoveRefines DEF Creating

LEMMA SyncRefines ==
  ASSUME CauseInv, AllReady, StartDaemon \/ SyncStep
  PROVE  AllReady' /\ Refines
<1>. Main \in Procs /\ at[Main] \in Frame /\ at \in [Procs -> Frame]
  BY ProcTyping DEF CauseInv, TypeOK
<1>1. CASE StartDaemon
  <2>. DEFINE f == [Idle EXCEPT !.pc = "sync", !.job = "sync", !.todo = Active, !.t0 = clock]
  <2>1. at' = [at EXCEPT ![Main] = f] /\ f.pc = "sync" /\ UNCHANGED <<bans, clock>>
    BY <1>1 DEF StartDaemon, Looks, Become, Idle, world, host, ledger
  <2>. QED BY <2>1, MoveRefines DEF Creating
<1>2. CASE SyncExpires
  <2>1. PICK b \in at[Main].todo :
          /\ IsExpired(b) /\ SetStatus(b, "expired")
          /\ at' = [at EXCEPT ![Main] = [at[Main] EXCEPT !.todo = @ \ {b}]]
    BY <1>2 DEF SyncExpires, Latest, Become
  <2>. DEFINE f == [at[Main] EXCEPT !.todo = @ \ {b}]
  <2>2. f.pc = "sync" /\ clock' = clock
    BY <1>2 DEF SyncExpires, Frame, world, host
  <2>. HIDE DEF f
  <2>3. at' = [at EXCEPT ![Main] = f]
    BY <2>1 DEF f
  <2>. QED BY <2>1, <2>2, <2>3, SnapshotRows, CloseRefines DEF Creating
<1>3. CASE SyncBlocks
  <2>1. UNCHANGED <<bans, clock>> /\ at[Main].pc = "sync"
    BY <1>3 DEF SyncBlocks, world, host, ledger
  <2>2. PICK b : at' = [at EXCEPT ![Main] = [at[Main] EXCEPT !.todo = @ \ {b}]]
    BY <1>3 DEF SyncBlocks, Become
  <2>. QED BY <2>1, <2>2, WithoutMoves
<1>4. CASE SyncFails
  BY <1>4, IdleRefines DEF SyncFails, Fault, world, host, ledger
<1>5. CASE SyncDone
  <2>. DEFINE f == [Idle EXCEPT !.pc = "reconcile", !.job = "reconcile"]
  <2>1. at' = [at EXCEPT ![Main] = f] /\ f.pc = "reconcile" /\ UNCHANGED <<bans, clock>>
    BY <1>5 DEF SyncDone, MakesUp, Become, Idle, world, host, ledger
  <2>. QED BY <2>1, MoveRefines DEF Creating
<1>. QED BY <1>1, <1>2, <1>3, <1>4, <1>5 DEF SyncStep

LEMMA StartSweepRefines ==
  ASSUME CauseInv, AllReady, NEW p \in Procs, NEW job, NEW now, StartSweep(p, job, now),
         UNCHANGED <<bans, clock>>
  PROVE  AllReady' /\ Refines
<1>. DEFINE f == [Idle EXCEPT !.pc = "sweep", !.job = job, !.todo = Active, !.t0 = now]
<1>1. at' = [at EXCEPT ![p] = f] /\ f.pc = "sweep"
  BY DEF StartSweep, Become, Idle
<1>. QED BY <1>1, MoveRefines DEF Creating

LEMMA ToReconcileRefines ==
  ASSUME CauseInv, AllReady, NEW p \in Procs, Become(p, [Idle EXCEPT !.pc = "reconcile"]),
         UNCHANGED <<bans, clock>>
  PROVE  AllReady' /\ Refines
<1>. DEFINE f == [Idle EXCEPT !.pc = "reconcile"]
<1>1. at' = [at EXCEPT ![p] = f] /\ f.pc = "reconcile"
  BY DEF Become, Idle
<1>. QED BY <1>1, MoveRefines DEF Creating

(* The sweep unblocks a row that has expired, and it will still have when  *)
(* the row is marked.                                                      *)
LEMMA SweepUnblocksRefines ==
  ASSUME CauseInv, AllReady, NEW p \in Procs, SweepUnblocks(p)
  PROVE  AllReady' /\ Refines
<1>. at \in [Procs -> Frame] /\ at[p] \in Frame
  BY DEF CauseInv, TypeOK
<1>1. PICK b : IsExpired(b) /\ at' = [at EXCEPT ![p] = [at[p] EXCEPT !.pc = "markExpired", !.ban = b]]
  BY DEF SweepUnblocks, Become
<1>2. UNCHANGED <<bans, clock>>
  BY DEF SweepUnblocks, UnblockIp, Fault, world, host, ledger
<1>3. at'[p].pc = "markExpired" /\ at'[p].ban = b /\ \A q \in Procs : q # p => at'[q] = at[q]
  BY <1>1 DEF Frame
<1>4. AllReady'
  BY <1>1, <1>2, <1>3 DEF AllReady, Ready, IsExpired, Creating
<1>5. Asked' \subseteq Asked
  BY <1>3, ProcTyping DEF Asked
<1>. QED BY <1>2, <1>4, <1>5, SameRows, WithdrawRefines

LEMMA SweepRefines ==
  ASSUME CauseInv, AllReady, NEW p \in Procs,
         \/ SweepSkips(p) \/ SweepUnblocks(p) \/ MarkExpired(p) \/ ExpireActor(p)
         \/ SweepRaises(p) \/ SweepDone(p)
  PROVE  AllReady' /\ Refines
<1>. at[p] \in Frame /\ at \in [Procs -> Frame]
  BY DEF CauseInv, TypeOK
<1>1. CASE SweepSkips(p)
  <2>1. UNCHANGED <<bans, clock>> /\ at[p].pc = "sweep"
    BY <1>1 DEF SweepSkips, world, host, ledger
  <2>2. PICK b : at' = [at EXCEPT ![p] = [at[p] EXCEPT !.todo = @ \ {b}]]
    BY <1>1 DEF SweepSkips, Become
  <2>. QED BY <2>1, <2>2, WithoutMoves
<1>2. CASE MarkExpired(p)
  <2>. DEFINE f == [at[p] EXCEPT !.pc = "expireActor"]
  <2>1. at' = [at EXCEPT ![p] = f] /\ f.pc = "expireActor" /\ clock' = clock
    BY <1>2 DEF MarkExpired, Goto, Frame, world, host
  <2>2. at[p].ban \in BanId /\ Settled(at[p].ban)
    <3>1. at[p].ban \in 1..last /\ Settled(at[p].ban)
      BY <1>2 DEF MarkExpired, CauseInv, FrameOK
    <3>. QED BY <3>1, ConstantsOK DEF CauseInv, TypeOK, BanId
  <2>3. IsExpired(at[p].ban)
    BY <1>2 DEF MarkExpired, AllReady, Ready
  <2>. QED BY <1>2, <2>1, <2>2, <2>3, CloseRefines DEF MarkExpired, Creating
<1>3. CASE ExpireActor(p)
  <2>. DEFINE f == [at[p] EXCEPT !.pc = "sweep", !.ban = 0, !.todo = @ \ {at[p].ban}]
  <2>1. f.pc = "sweep" /\ UNCHANGED <<bans, clock>>
    BY <1>3 DEF ExpireActor, Frame, world, host, ledger
  <2>. HIDE DEF f
  <2>2. at' = [at EXCEPT ![p] = f]
    BY <1>3 DEF ExpireActor, Become, f
  <2>. QED BY <2>1, <2>2, MoveRefines DEF Creating
<1>4. CASE SweepRaises(p)
  <2>1. UNCHANGED <<bans, clock>>
    BY <1>4 DEF SweepRaises, Fault, ledger
  <2>2. Become(p, Idle) \/ Become(p, [Idle EXCEPT !.pc = "reconcile"])
    BY <1>4 DEF SweepRaises, EndReconcile
  <2>. QED BY <2>1, <2>2, IdleRefines, ToReconcileRefines
<1>5. CASE SweepDone(p)
  <2>1. UNCHANGED <<bans, clock>>
    BY <1>5 DEF SweepDone, world, host, ledger
  <2>2. Become(p, Idle) \/ Become(p, [Idle EXCEPT !.pc = "reconcile"]) \/ Goto(p, "list")
    BY <1>5 DEF SweepDone
  <2>3. CASE Goto(p, "list")
    <3>. DEFINE f == [at[p] EXCEPT !.pc = "list"]
    <3>1. at' = [at EXCEPT ![p] = f] /\ f.pc = "list"
      BY <2>3 DEF Goto, Frame
    <3>. QED BY <2>1, <3>1, MoveRefines DEF Creating
  <2>. QED BY <2>1, <2>2, <2>3, IdleRefines, ToReconcileRefines
<1>. QED BY <1>1, <1>2, <1>3, <1>4, <1>5, SweepUnblocksRefines

LEMMA ReconcileRefines ==
  ASSUME CauseInv, AllReady, NEW p \in Procs, ReconcileStep(p)
  PROVE  AllReady' /\ Refines
<1>. at[p] \in Frame /\ at \in [Procs -> Frame]
  BY DEF CauseInv, TypeOK
<1>1. CASE ReconcileBegins(p)
  BY <1>1, StartSweepRefines DEF ReconcileBegins, world, host, ledger
<1>2. CASE ReconcileSkipped(p) \/ RestoreEnds(p)
  <2>1. Become(p, Idle) /\ UNCHANGED <<bans, clock>>
    BY <1>2 DEF ReconcileSkipped, RestoreEnds, MakesUp, EndReconcile, Fault, world, host, ledger
  <2>. QED BY <2>1, IdleRefines
<1>3. CASE ListRules(p)
  <2>. DEFINE f == [at[p] EXCEPT !.pc = "expect",
                      !.seen = IF available THEN {i \in IPs : rule[i] # NoRule} ELSE {}]
  <2>1. at' = [at EXCEPT ![p] = f] /\ f.pc = "expect" /\ UNCHANGED <<bans, clock>>
    BY <1>3 DEF ListRules, Looks, Become, Frame, world, host, ledger
  <2>. QED BY <2>1, MoveRefines DEF Creating
<1>4. CASE ExpectBans(p)
  <2>. DEFINE f == [at[p] EXCEPT !.pc = "restore",
                      !.todo = {b \in Expected : bans[b].ip \notin at[p].seen}]
  <2>1. at' = [at EXCEPT ![p] = f] /\ f.pc = "restore" /\ UNCHANGED <<bans, clock>>
    BY <1>4 DEF ExpectBans, Become, Frame, world, host, ledger
  <2>. QED BY <2>1, MoveRefines DEF Creating
<1>5. CASE RestoreBlocks(p)
  <2>1. UNCHANGED <<bans, clock>> /\ at[p].pc = "restore"
    BY <1>5 DEF RestoreBlocks, world, host, ledger
  <2>2. PICK b : at' = [at EXCEPT ![p] = [at[p] EXCEPT !.todo = @ \ {b}]]
    BY <1>5 DEF RestoreBlocks, Become
  <2>. QED BY <2>1, <2>2, WithoutMoves
<1>. QED BY <1>1, <1>2, <1>3, <1>4, <1>5, SweepRefines DEF ReconcileStep

LEMMA WorkerTurnRefines ==
  ASSUME CauseInv, AllReady, WorkerTurn
  PROVE  AllReady' /\ Refines
<1>1. UNCHANGED <<bans, clock>> /\ Worker \in Procs
  BY ProcTyping DEF WorkerTurn, world, host, ledger
<1>2. \/ StartSweep(Worker, "sweepThenReconcile", 0) \/ StartSweep(Worker, "sweep", 0)
      \/ Become(Worker, [Idle EXCEPT !.pc = "reconcile"])
      \/ UNCHANGED at
  BY DEF WorkerTurn
<1>3. CASE UNCHANGED at
  BY <1>1, <1>3, CalmRefines DEF Calm
<1>. QED BY <1>1, <1>2, <1>3, StartSweepRefines, ToReconcileRefines

-----------------------------------------------------------------------------
(* Time and faults. *)

LEMMA TickRefines ==
  ASSUME CauseInv, AllReady, Tick
  PROVE  AllReady' /\ Refines
<1>1. UNCHANGED <<bans, at>> /\ clock' = clock + 1 /\ clock \in Nat
  BY DEF Tick, ledger, CauseInv, TypeOK
<1>2. \A b \in BanId : bans[b].expires \in Nat
  BY DEF CauseInv, TypeOK, BanRecord
<1>3. \A b \in BanId : IsExpired(b) => IsExpired(b)'
  BY <1>1, <1>2 DEF IsExpired
<1>4. AllReady'
  <2>1. 1..last \subseteq BanId
    BY ConstantsOK DEF CauseInv, TypeOK, BanId
  <2>. QED BY <1>1, <1>3, <2>1, CalmReady DEF Calm
<1>5. Phases' = Phases /\ Asked' = Asked /\ Due \subseteq Due' /\ Due' \subseteq BanId
  BY <1>1, <1>3 DEF Phases, Asked, Due, Phase
<1>. QED BY <1>4, <1>5 DEF Refines, Ledger!Next, Ledger!Elapse, Phases, Due, Asked

LEMMA EnvironmentRefines ==
  ASSUME CauseInv, AllReady, Environment
  PROVE  AllReady' /\ Refines
<1>. at \in [Procs -> Frame]
  BY DEF CauseInv, TypeOK
<1>1. CASE Crash
  <2>1. at' = [at EXCEPT ![Main] = Idle, ![Worker] = Idle] /\ UNCHANGED <<bans, clock>>
    BY <1>1 DEF Crash, StopDaemon, Fault, ledger
  <2>2. \A p \in Procs : at'[p] = at[p] \/ at'[p] = Idle
    BY <2>1
  <2>. QED BY <2>1, <2>2, CalmRefines DEF Calm, Idle, Creating
<1>2. CASE Reboot
  BY <1>2, CalmRefines DEF Reboot, Fault, ledger, Calm, Idle, Creating
<1>3. CASE RulesLost \/ FirewallGoes \/ FirewallReturns
  BY <1>3, CalmRefines DEF RulesLost, FirewallGoes, FirewallReturns, Fault, ledger, Calm
<1>4. ASSUME NEW o \in Operators, CommandKilled(o) PROVE AllReady' /\ Refines
  BY <1>4, ProcTyping, IdleRefines DEF CommandKilled, Fault, ledger
<1>. QED BY <1>1, <1>2, <1>3, <1>4, TickRefines DEF Environment

-----------------------------------------------------------------------------
(* Every step is a step of the ledger, or none. *)

LEMMA InitRefines == Init => AllReady /\ Ledger!Init
<1>. SUFFICES ASSUME Init PROVE AllReady /\ Ledger!Init
  OBVIOUS
<1>1. AllReady
  BY DEF Init, AllReady, Ready, Idle, Creating
<1>2. \A b \in BanId : bans[b].status = "absent" /\ ~IsExpired(b)
  BY DEF Init, Unallocated, IsExpired, Never
<1>3. \A o \in Operators : at[o].pc # "unbanMark"
  BY ProcTyping DEF Init, Idle
<1>. QED BY <1>1, <1>2, <1>3 DEF Ledger!Init, Phase

LEMMA NextRefines == CauseInv /\ AllReady /\ [Next]_vars => AllReady' /\ Refines
<1>. SUFFICES ASSUME CauseInv, AllReady, [Next]_vars PROVE AllReady' /\ Refines
  OBVIOUS
<1>1. CASE UNCHANGED vars
  BY <1>1, CalmRefines DEF vars, Calm
<1>2. CASE MainStep
  <2>1. CASE SaveProfile
    BY <2>1, ProcTyping, IdleRefines DEF SaveProfile, world, host, ledger
  <2>. QED BY <1>2, <2>1, ProcTyping, CreateRefines, SyncRefines, ReconcileRefines DEF MainStep
<1>3. CASE WorkerStep \/ StartDaemon
  BY <1>3, ProcTyping, WorkerTurnRefines, ReconcileRefines, SyncRefines DEF WorkerStep
<1>4. ASSUME NEW o \in Operators, OperatorStep(o) PROVE AllReady' /\ Refines
  BY <1>4, OperatorRefines
<1>. QED BY <1>1, <1>2, <1>3, <1>4, ArrivalRefines, EnvironmentRefines DEF Next

(* The ban table keeps the promises of BanLedger, whoever races whom and   *)
(* whatever fails: a ban is recorded once, closed only when it is due or   *)
(* while an operator releases it, and never comes back.                    *)
THEOREM LedgerImplemented == Spec => ImplementsLedger
<1>1. Init => CauseInv /\ AllReady /\ Ledger!Init
  BY InitCause, InitRefines
<1>2. CauseInv /\ AllReady /\ [Next]_vars => CauseInv' /\ AllReady' /\ Refines
  BY NextPreserves, NextRefines
<1>. QED BY <1>1, <1>2, PTL
  DEF Spec, ImplementsLedger, Ledger!Spec, Refines, Phases, Due, Asked

=============================================================================

-------------------------- MODULE EnforcementProofs --------------------------
(***************************************************************************)
(* A ban in force is enforced: what the daemon guarantees when it has the  *)
(* ban table to itself, for every value of the other constants, whichever  *)
(* commands and database calls fail, however often the daemon crashes, the *)
(* host restarts or somebody empties the drop set.                         *)
(***************************************************************************)
EXTENDS BanLifecycleProofs

Undisturbed ==
  /\ Operators = {}
  /\ ReAddRefreshes = TRUE

(* A ban needs its rule from the moment its record is about to be stored   *)
(* as active (block_ip has returned, save_ban comes next).                 *)
Recording(b) == at[Main].pc = "save" /\ at[Main].rec = "active" /\ at[Main].ban = b
Guarded(b) == InForce(b) \/ Recording(b)

(* Rules are put back for rows of a snapshot, with the seconds that were   *)
(* left at some earlier time.                                              *)
Restoring == {"sync", "restore"}
SnapshotOK(f) == f.t0 <= clock /\ (f.pc \in Restoring => f.todo \subseteq Active)
ClockInv ==
  /\ \A b \in 1..last : bans[b].expires <= clock + bans[b].secs * Resolution
  /\ \A p \in {Main, Worker} : SnapshotOK(at[p])

(* A ban lacks its rule only after the set was emptied, and then altogether. *)
(* From the moment a startup or a reconciliation has looked, the row is    *)
(* stored, and any that is under way still has it before it: as an address *)
(* it has not seen in the set, or as a row it has yet to put back.         *)
Lacking(b) == Guarded(b) /\ ~Enforced(b)
Owing == {"sync", "expect", "restore"}
Owed(f, b) ==
  /\ f.pc \in Restoring => b \in f.todo
  /\ f.pc = "expect" => bans[b].ip \notin f.seen
EnforceInv ==
  /\ ClockInv
  /\ \A b \in BanId : Lacking(b) => ~Blocked(bans[b].ip)
  /\ loss = "none" => \A b \in BanId : ~Lacking(b)
  /\ loss # "new" => \A b \in BanId : Lacking(b) =>
       ~Recording(b) /\ \A p \in {Main, Worker} : Owed(at[p], b)

-----------------------------------------------------------------------------
(* Rows keep what they were opened with, whichever step changes the table. *)

RowsKept ==
  /\ last' \in 0..MaxBans /\ last <= last'
  /\ \A b \in 1..last : /\ bans'[b].ip = bans[b].ip
                        /\ bans'[b].secs = bans[b].secs /\ bans'[b].expires = bans[b].expires
                        /\ bans'[b].status = "absent" => bans[b].status = "absent"
  /\ \A b \in (last + 1)..last' : bans'[b].expires <= clock + bans'[b].secs * Resolution

LEMMA LastTyping ==
  ASSUME CauseInv
  PROVE  last \in 0..MaxBans /\ last \in Nat /\ \A b \in 1..last : b \in BanId
BY ConstantsOK DEF CauseInv, TypeOK, BanId

LEMMA RowsSame ==
  ASSUME CauseInv, UNCHANGED ledger
  PROVE  RowsKept
BY LastTyping DEF RowsKept, ledger

LEMMA RowsMarked ==
  ASSUME CauseInv, NEW b, NEW s, s # "absent", SetStatus(b, s), last' = last
  PROVE  RowsKept
<1>1. bans' = [bans EXCEPT ![b].status = s] /\ bans \in [BanId -> BanRecord]
  BY DEF SetStatus, CauseInv, TypeOK
<1>2. \A c \in 1..last : /\ bans'[c].ip = bans[c].ip
                         /\ bans'[c].secs = bans[c].secs /\ bans'[c].expires = bans[c].expires
                         /\ bans'[c].status = "absent" => bans[c].status = "absent"
  BY <1>1, LastTyping DEF BanRecord
<1>. QED BY <1>2, LastTyping DEF RowsKept

LEMMA RowsOpened ==
  ASSUME CauseInv, NEW p, NEW frame, NEW i, NEW want, NEW secs \in Nat,
         Open(p, frame, i, want, secs)
  PROVE  RowsKept
<1>. DEFINE row == [ip |-> i, secs |-> secs, status |-> "absent",
                    expires |-> IF secs > 0 THEN clock + secs * Resolution ELSE Never]
<1>1. last + 1 \in BanId /\ last' = last + 1 /\ bans' = [bans EXCEPT ![last + 1] = row]
  BY LastTyping, ConstantsOK DEF Open, BanId
<1>2. bans'[last + 1] = row /\ \A b \in BanId : b # last + 1 => bans'[b] = bans[b]
  BY <1>1 DEF CauseInv, TypeOK
<1>3. row.expires <= clock + row.secs * Resolution
  <2>1. secs * Resolution \in Nat /\ clock \in Nat
    BY ConstantsOK DEF CauseInv, TypeOK
  <2>. QED BY <2>1 DEF Never
<1>4. \A b \in 1..last : b \in BanId /\ b # last + 1
  BY LastTyping
<1>5. \A b \in (last + 1)..last' : b = last + 1
  BY <1>1, LastTyping
<1>6. last' \in 0..MaxBans /\ last <= last'
  BY <1>1, LastTyping, ConstantsOK DEF BanId
<1>. HIDE DEF row
<1>7. \A b \in 1..last : bans'[b] = bans[b]
  BY <1>2, <1>4
<1>8. \A b \in (last + 1)..last' : bans'[b].expires <= clock + bans'[b].secs * Resolution
  BY <1>2, <1>3, <1>5
<1>. QED BY <1>6, <1>7, <1>8 DEF RowsKept

LEMMA GuardedRows ==
  ASSUME CauseInv, NEW b \in BanId, Guarded(b)
  PROVE  b \in 1..last /\ (InForce(b) => b \in Active)
<1>1. CASE InForce(b)
  BY <1>1, ActiveRows DEF InForce
<1>2. CASE Recording(b)
  BY <1>2, ProcTyping DEF Recording, CauseInv, FrameOK, Creating, InForce
<1>. QED BY <1>1, <1>2 DEF Guarded

-----------------------------------------------------------------------------
(* What every step of a thread respects. The other thread's frame is left  *)
(* alone, and its snapshot stays true, by Turn.                            *)

Shielding ==
  \A b \in BanId : Lacking(b)' => Lacking(b) /\ rule'[bans[b].ip] = rule[bans[b].ip]
Careful(p) == clock' = clock /\ RowsKept /\ SnapshotOK(at[p])' /\ Shielding
Watch(p) == Careful(p) /\ loss' = loss /\ at'[p].pc \notin Owing

LEMMA CarefulKeeps ==
  ASSUME CauseInv, CauseInv', SweepInv, ClockInv, NEW p \in {Main, Worker}, Turn(p), Careful(p)
  PROVE  ClockInv'
<1>1. \A b \in 1..last' : bans'[b].expires <= clock + bans'[b].secs * Resolution
  <2>1. \A b \in 1..last' : b \in 1..last \/ b \in (last + 1)..last'
    BY LastTyping DEF Careful, RowsKept
  <2>. QED BY <2>1 DEF ClockInv, Careful, RowsKept
<1>2. ASSUME NEW q \in {Main, Worker} PROVE SnapshotOK(at[q])'
  <2>1. CASE q # p /\ at[q].pc \in Restoring
    <3>1. at'[q] = at[q]
      BY <2>1, ProcTyping DEF Turn
    <3>2. at[p].pc \notin Upkeep
      BY <2>1 DEF SweepInv, OneKeeper, Sweeps, Upkeep, Restoring
    <3>. QED BY <2>1, <3>1, <3>2 DEF Turn, Careful, ClockInv, SnapshotOK
  <2>2. CASE q # p /\ at[q].pc \notin Restoring
    <3>1. at'[q] = at[q]
      BY <2>2, ProcTyping DEF Turn
    <3>. QED BY <2>2, <3>1 DEF Careful, ClockInv, SnapshotOK
  <2>. QED BY <2>1, <2>2 DEF Careful
<1>. QED BY <1>1, <1>2 DEF ClockInv, Careful

LEMMA LackingKept ==
  ASSUME CauseInv, CauseInv', NEW p, Careful(p), NEW b \in BanId, Lacking(b)'
  PROVE  /\ Lacking(b) /\ bans'[b].ip = bans[b].ip
         /\ Blocked(bans[b].ip)' => Blocked(bans[b].ip)
         /\ Recording(b)' => Recording(b)
<1>1. Lacking(b) /\ rule'[bans[b].ip] = rule[bans[b].ip]
  BY DEF Careful, Shielding
<1>2. b \in 1..last
  BY <1>1, GuardedRows DEF Lacking
<1>3. /\ bans'[b].ip = bans[b].ip
      /\ bans'[b].status = "absent" => bans[b].status = "absent"
  BY <1>2 DEF Careful, RowsKept
<1>4. Recording(b)' => bans'[b].status = "absent"
  BY ProcTyping DEF Recording, CauseInv, FrameOK, Creating
<1>5. InForce(b) => bans[b].status = "active"
  BY DEF InForce, Active
<1>. QED BY <1>1, <1>3, <1>4, <1>5 DEF Lacking, Guarded, Blocked

(* What is left to show of a careful step.                                 *)
LEMMA CarefulEnforces ==
  ASSUME CauseInv, CauseInv', SweepInv, EnforceInv,
         NEW p \in {Main, Worker}, Turn(p), Careful(p),
         loss' = "none" => \A b \in BanId : ~Lacking(b)',
         loss' # "new" => \A b \in BanId : Lacking(b)' =>
           ~Recording(b)' /\ \A q \in {Main, Worker} : Owed(at[q], b)'
  PROVE  EnforceInv'
<1>1. ClockInv'
  BY CarefulKeeps DEF EnforceInv
<1>2. ASSUME NEW b \in BanId, Lacking(b)' PROVE ~Blocked(bans[b].ip)'
  BY <1>2, LackingKept DEF EnforceInv
<1>. QED BY <1>1, <1>2 DEF EnforceInv

LEMMA WatchKeeps ==
  ASSUME CauseInv, CauseInv', SweepInv, EnforceInv, NEW p \in {Main, Worker}, Turn(p), Watch(p)
  PROVE  EnforceInv'
<1>1. Careful(p) /\ loss' = loss
  BY DEF Watch
<1>2. loss' = "none" => \A b \in BanId : ~Lacking(b)'
  BY <1>1, LackingKept DEF EnforceInv
<1>3. ASSUME loss' # "new", NEW b \in BanId, Lacking(b)'
      PROVE  ~Recording(b)' /\ \A q \in {Main, Worker} : Owed(at[q], b)'
  <2>1. /\ ~Recording(b) /\ \A q \in {Main, Worker} : Owed(at[q], b)
        /\ bans'[b].ip = bans[b].ip /\ ~Recording(b)'
    BY <1>1, <1>3, LackingKept DEF EnforceInv
  <2>2. ASSUME NEW q \in {Main, Worker} PROVE Owed(at[q], b)'
    <3>1. CASE q = p
      BY <3>1 DEF Watch, Owing, Owed, Restoring
    <3>2. CASE q # p
      <4>1. at'[q] = at[q]
        BY <3>2, ProcTyping DEF Turn
      <4>. QED BY <2>1, <4>1 DEF Owed
    <3>. QED BY <3>1, <3>2
  <2>. QED BY <2>1, <2>2
<1>. QED BY <1>1, <1>2, <1>3, CarefulEnforces

(* Startup and reconciliation run one at a time.                           *)
LEMMA OnePass ==
  ASSUME CauseInv, SweepInv, NEW p \in {Main, Worker}, Turn(p),
         at[p].pc \in Upkeep \/ daemon = "down", NEW q \in {Main, Worker}, q # p, NEW b
  PROVE  Owed(at[q], b)'
<1>1. at'[q] = at[q]
  BY ProcTyping DEF Turn
<1>2. at[q].pc \notin Upkeep
  BY DEF SweepInv, OneKeeper, Upkeep, Sweeps
<1>. QED BY <1>1, <1>2 DEF Owed, Restoring, Upkeep

LEMMA PassGoesOn ==
  ASSUME CauseInv, CauseInv', SweepInv, EnforceInv,
         NEW p \in {Main, Worker}, Turn(p), Careful(p), loss' = loss, at[p].pc \in Upkeep,
         loss # "new" => \A b \in BanId : Lacking(b)' => Owed(at[p], b)'
  PROVE  EnforceInv'
<1>1. loss' = "none" => \A b \in BanId : ~Lacking(b)'
  BY LackingKept DEF EnforceInv
<1>2. ASSUME loss' # "new", NEW b \in BanId, Lacking(b)'
      PROVE  ~Recording(b)' /\ \A q \in {Main, Worker} : Owed(at[q], b)'
  <2>1. ~Recording(b)'
    BY <1>2, LackingKept DEF EnforceInv
  <2>2. ASSUME NEW q \in {Main, Worker} PROVE Owed(at[q], b)'
    BY <1>2, OnePass
  <2>. QED BY <2>1, <2>2
<1>. QED BY <1>1, <1>2, CarefulEnforces

(* The last row is back: nothing that was missing when the pass began to   *)
(* look is missing any more.                                               *)
LEMMA PassEnds ==
  ASSUME CauseInv, CauseInv', SweepInv, EnforceInv,
         NEW p \in {Main, Worker}, Turn(p), Careful(p), MakesUp,
         at[p].pc \in Restoring, at[p].todo = {}
  PROVE  EnforceInv'
<1>1. loss # "new" => \A b \in BanId : ~Lacking(b)'
  BY LackingKept DEF EnforceInv, Owed
<1>2. loss' # "new" => loss # "new"
  BY DEF MakesUp
<1>. QED BY <1>1, <1>2, CarefulEnforces

(* A pass looks: what is missing is before it, unless a ban is just being  *)
(* recorded.                                                               *)
LEMMA PassLooks ==
  ASSUME CauseInv, CauseInv', SweepInv, EnforceInv,
         NEW p \in {Main, Worker}, Turn(p), Careful(p), Looks,
         at[p].pc \in Upkeep \/ daemon = "down",
         \A b \in BanId : Lacking(b)' => Owed(at[p], b)'
  PROVE  EnforceInv'
<1>1. loss' = "none" => \A b \in BanId : ~Lacking(b)'
  BY LackingKept DEF EnforceInv, Looks
<1>2. ASSUME loss' # "new", NEW b \in BanId, Lacking(b)'
      PROVE  ~Recording(b)' /\ \A q \in {Main, Worker} : Owed(at[q], b)'
  <2>1. ~Recording(b)'
    <3>1. CASE loss = "new"
      BY <1>2, <3>1, LackingKept, ProcTyping DEF Looks, Recording
    <3>2. CASE loss # "new"
      BY <1>2, <3>2, LackingKept DEF EnforceInv
    <3>. QED BY <3>1, <3>2
  <2>2. ASSUME NEW q \in {Main, Worker} PROVE Owed(at[q], b)'
    BY <1>2, OnePass
  <2>. QED BY <2>1, <2>2
<1>. QED BY <1>1, <1>2, CarefulEnforces

(* The kernel set is not touched, and no more bans need a rule than did.   *)
LEMMA CalmGuard ==
  ASSUME CauseInv, clock' = clock, RowsKept,
         NEW b \in BanId, Guarded(b), Enforced(b), rule'[bans[b].ip] = rule[bans[b].ip]
  PROVE  Enforced(b)'
<1>1. b \in 1..last
  BY GuardedRows
<1>2. bans'[b].ip = bans[b].ip /\ bans'[b].expires = bans[b].expires
  BY <1>1 DEF RowsKept
<1>. QED BY <1>1, <1>2 DEF Enforced

LEMMA CarefulCalm ==
  ASSUME CauseInv, ClockInv, NEW p \in {Main, Worker}, NEW frame,
         UNCHANGED <<clock, rule>>, RowsKept, at' = [at EXCEPT ![p] = frame],
         frame.t0 <= clock, frame.pc \in Restoring => frame.todo \subseteq Active',
         \A b \in BanId : Guarded(b)' => Guarded(b)
  PROVE  Careful(p)
<1>1. SnapshotOK(at[p])'
  BY ProcTyping DEF CauseInv, TypeOK, SnapshotOK
<1>2. Shielding
  BY CalmGuard DEF Shielding, Lacking
<1>. QED BY <1>1, <1>2 DEF Careful

LEMMA CarefulWatch ==
  ASSUME CauseInv, NEW p \in {Main, Worker}, NEW frame, at' = [at EXCEPT ![p] = frame],
         Careful(p), loss' = loss, frame.pc \notin Owing
  PROVE  Watch(p)
BY ProcTyping DEF CauseInv, TypeOK, Watch

(* No active row is added, and Main is not about to store one.             *)
LEMMA FewerGuarded ==
  ASSUME CauseInv, NEW p \in {Main, Worker}, NEW frame, at' = [at EXCEPT ![p] = frame],
         NothingNew, RowsKept, clock' = clock,
         p = Main => ~(frame.pc = "save" /\ frame.rec = "active")
  PROVE  \A b \in BanId : Guarded(b)' => Guarded(b)
<1>1. \A b \in BanId : Recording(b)' => Recording(b)
  BY ProcTyping, Distinct DEF Recording, CauseInv, TypeOK
<1>2. \A b \in BanId : InForce(b)' => InForce(b)
  <2>1. \A b \in Active : bans'[b].expires = bans[b].expires
    BY ActiveRows DEF RowsKept
  <2>. QED BY <2>1 DEF InForce, IsExpired, NothingNew
<1>. QED BY <1>1, <1>2 DEF Guarded

LEMMA CarefulQuiet ==
  ASSUME CauseInv, ClockInv, NEW p \in {Main, Worker}, NEW frame,
         UNCHANGED <<clock, rule>>, RowsKept, NothingNew,
         at' = [at EXCEPT ![p] = frame],
         frame.t0 <= clock, frame.pc \in Restoring => frame.todo \subseteq Active',
         p = Main => ~(frame.pc = "save" /\ frame.rec = "active")
  PROVE  Careful(p)
BY FewerGuarded, CarefulCalm

LEMMA WatchQuiet ==
  ASSUME CauseInv, ClockInv, NEW p \in {Main, Worker}, NEW frame,
         UNCHANGED <<clock, rule, loss>>, RowsKept, NothingNew,
         at' = [at EXCEPT ![p] = frame], frame.pc \notin Owing,
         frame.t0 <= clock, frame.pc \in Restoring => frame.todo \subseteq Active',
         p = Main => ~(frame.pc = "save" /\ frame.rec = "active")
  PROVE  Watch(p)
<1>1. Careful(p)
  BY CarefulQuiet
<1>. QED BY <1>1, CarefulWatch

(* The same for a step that does not touch the table either and does not   *)
(* begin to restore.                                                       *)
LEMMA WatchStill ==
  ASSUME CauseInv, ClockInv, NEW p \in {Main, Worker}, NEW frame,
         UNCHANGED <<clock, rule, loss>>, UNCHANGED ledger,
         at' = [at EXCEPT ![p] = frame], frame.pc \notin Owing, frame.t0 <= clock,
         p = Main => ~(frame.pc = "save" /\ frame.rec = "active")
  PROVE  Watch(p)
<1>1. RowsKept /\ NothingNew
  BY RowsSame, LedgerQuiet
<1>. QED BY <1>1, WatchQuiet DEF Owing, Restoring

(* A rule is taken away from an address none of whose bans is in force.    *)
LEMMA UnblockGuard ==
  ASSUME CauseInv, NEW i \in IPs, UnblockIp(i), RowsKept,
         NEW b \in BanId, Guarded(b), bans[b].ip # i
  PROVE  /\ rule'[bans[b].ip] = rule[bans[b].ip]
         /\ Enforced(b) => Enforced(b)'
<1>1. bans[b].ip \in IPs
  BY GuardedRows DEF CauseInv, TableOK
<1>2. clock' = clock
  BY DEF UnblockIp, Fault, world, host
<1>3. rule'[bans[b].ip] = rule[bans[b].ip]
  BY <1>1 DEF UnblockIp, CauseInv, TypeOK
<1>. QED BY <1>2, <1>3, CalmGuard

(* The seconds recomputed from expires_at are rounded down, but by less    *)
(* than a second, and the clock may only have gone on since they were.     *)
LEMMA RemainingIsEnough ==
  ASSUME CauseInv, NEW b \in BanId, NEW now \in Nat, now <= clock,
         bans[b].expires # Never
  PROVE  /\ Remaining(b, now) > 0
         /\ Expiry(Remaining(b, now)) > bans[b].expires - Resolution
<1>. DEFINE left == (bans[b].expires - now) \div Resolution
<1>1. bans[b].expires \in Nat /\ clock \in Nat /\ Resolution \in Nat \ {0}
  BY ConstantsOK DEF CauseInv, TypeOK, BanRecord
<1>2. left \in Int /\ left * Resolution > bans[b].expires - now - Resolution
  BY <1>1
<1>3. Remaining(b, now) = AtLeast(1, left)
  BY DEF Remaining
<1>. HIDE DEF left
<1>4. Remaining(b, now) \in Nat /\ Remaining(b, now) >= 1 /\ Remaining(b, now) >= left
  BY <1>2, <1>3 DEF AtLeast
<1>5. Remaining(b, now) * Resolution >= left * Resolution
  BY <1>1, <1>2, <1>4
<1>6. Remaining(b, now) * Resolution \in Int /\ left * Resolution \in Int
  BY <1>1, <1>2, <1>4
<1>7. Expiry(Remaining(b, now)) = clock + Remaining(b, now) * Resolution
  BY <1>4 DEF Expiry
<1>. QED BY <1>1, <1>2, <1>4, <1>5, <1>6, <1>7

LEMMA RestoredIsEnforced ==
  ASSUME CauseInv, AtMostOneActiveBan, LookedUp, ReAddRefreshes = TRUE,
         NEW b \in Active, NEW now \in Nat, now <= clock,
         BlockIp(bans[b].ip, Remaining(b, now)), clock' = clock, UNCHANGED ledger,
         NEW c \in BanId, Guarded(c)
  PROVE  Enforced(c)' \/ (c # b /\ rule'[bans[c].ip] = rule[bans[c].ip])
<1>1. RowsKept /\ b \in BanId /\ bans[b].ip \in IPs /\ bans' = bans
  BY RowsSame, ActiveRows DEF CauseInv, TableOK, ledger
<1>2. rule' = [rule EXCEPT ![bans[b].ip] = Expiry(Remaining(b, now))]
  BY DEF BlockIp
<1>3. CASE bans[c].ip # bans[b].ip
  <2>1. bans[c].ip \in IPs
    BY GuardedRows DEF CauseInv, TableOK
  <2>2. rule'[bans[c].ip] = rule[bans[c].ip]
    BY <1>2, <1>3, <2>1 DEF CauseInv, TypeOK
  <2>. QED BY <1>3, <2>2
<1>4. CASE bans[c].ip = bans[b].ip
  <2>1. c = b
    <3>1. ~Recording(c)
      <4>1. Recording(c) => at[Main].pc \in Creating /\ bans[c].ip = at[Main].ip
        BY ProcTyping DEF Recording, Creating, CauseInv, FrameOK
      <4>. QED BY <1>4, <4>1 DEF LookedUp, ActiveFor, Recording
    <3>2. c \in Active
      BY <3>1 DEF Guarded, InForce
    <3>. QED BY <1>4, <3>2 DEF AtMostOneActiveBan
  <2>2. rule'[bans[b].ip] = Expiry(Remaining(b, now))
    BY <1>1, <1>2 DEF CauseInv, TypeOK
  <2>3. CASE bans[b].expires = Never
    <3>1. Remaining(b, now) = 0
      BY <2>3 DEF Remaining
    <3>. QED BY <1>1, <2>1, <2>2, <3>1 DEF Enforced, Expiry
  <2>4. CASE bans[b].expires # Never
    BY <1>1, <2>1, <2>2, <2>4, RemainingIsEnough DEF Enforced
  <2>. QED BY <2>3, <2>4
<1>. QED BY <1>3, <1>4

-----------------------------------------------------------------------------
(* The main thread: events and the creation of a ban.                      *)

LEMMA MainFrame ==
  ASSUME CauseInv, ClockInv, NEW p \in {Main, Worker}
  PROVE  /\ at[p] \in Frame /\ FrameOK(p, at[p])
         /\ at[p].t0 \in Nat /\ at[p].t0 <= clock /\ clock \in Nat
         /\ at[p].pc \in Restoring => at[p].todo \subseteq Active
BY ProcTyping DEF CauseInv, TypeOK, Frame, ClockInv, SnapshotOK

(* block_ip has returned: from here on the ban has its rule.               *)
LEMMA EnforceWatch ==
  ASSUME CauseInv, AloneInv, ClockInv, ReAddRefreshes = TRUE, EnforceBlocks(Main)
  PROVE  Watch(Main)
<1>. DEFINE frame == [at[Main] EXCEPT !.pc = "save"]
<1>0. PICK b \in 1..last : b = at[Main].ban
  BY MainFrame DEF EnforceBlocks, FrameOK, Creating
<1>1. /\ b \in BanId /\ bans[b].ip = at[Main].ip /\ at[Main].ip \in IPs
      /\ at[Main].rec = "active" /\ at[Main].pc = "enforce"
  BY <1>0, MainFrame, LastTyping DEF EnforceBlocks, FrameOK, Creating
<1>2. UNCHANGED <<clock, loss>> /\ UNCHANGED ledger /\ bans' = bans /\ at' = [at EXCEPT ![Main] = frame]
  BY DEF EnforceBlocks, Goto, world, host, ledger
<1>3. rule' = [rule EXCEPT ![at[Main].ip] = Expiry(bans[b].secs)]
  BY <1>0 DEF EnforceBlocks, BlockIp
<1>4. RowsKept /\ Active' = Active
  BY <1>2, RowsSame, LedgerSame
<1>5. at'[Main] = frame /\ frame.pc = "save" /\ frame.t0 = at[Main].t0 /\ frame.ban = b
  BY <1>0, <1>2, MainFrame, ProcTyping DEF CauseInv, TypeOK, Frame
<1>6. SnapshotOK(at[Main])'
  BY <1>2, <1>5, MainFrame DEF SnapshotOK, Restoring
<1>7. Enforced(b)'
  <2>1. bans[b].secs \in Nat /\ bans[b].expires \in Nat /\ clock \in Nat /\ Resolution \in Nat \ {0}
    BY <1>1, ConstantsOK DEF CauseInv, TypeOK, BanRecord
  <2>2. bans[b].secs = 0 <=> bans[b].expires = Never
    BY <1>1 DEF CauseInv, TableOK
  <2>3. bans[b].expires <= clock + bans[b].secs * Resolution
    BY <1>1 DEF ClockInv
  <2>4. rule'[bans[b].ip] = Expiry(bans[b].secs)
    BY <1>1, <1>3 DEF CauseInv, TypeOK
  <2>5. CASE bans[b].secs = 0
    BY <1>2, <2>4, <2>5 DEF Enforced, Expiry
  <2>6. CASE bans[b].secs # 0
    <3>1. Expiry(bans[b].secs) = clock + bans[b].secs * Resolution
      BY <2>1, <2>6 DEF Expiry
    <3>2. bans[b].secs * Resolution \in Nat
      BY <2>1
    <3>. QED BY <1>2, <2>1, <2>2, <2>3, <2>4, <2>6, <3>1, <3>2 DEF Enforced
  <2>. QED BY <2>5, <2>6
<1>8. ASSUME NEW c \in BanId, Lacking(c)'
      PROVE  Lacking(c) /\ rule'[bans[c].ip] = rule[bans[c].ip]
  <2>1. InForce(c)
    BY <1>2, <1>4, <1>5, <1>7, <1>8 DEF Lacking, Guarded, InForce, IsExpired, Recording
  <2>2. bans[c].ip # at[Main].ip /\ bans[c].ip \in IPs
    <3>1. ActiveFor(at[Main].ip) = {}
      BY <1>1 DEF AloneInv, LookedUp, Creating
    <3>. QED BY <2>1, <3>1, GuardedRows DEF InForce, ActiveFor, Guarded, CauseInv, TableOK
  <2>3. rule'[bans[c].ip] = rule[bans[c].ip]
    BY <1>3, <2>2 DEF CauseInv, TypeOK
  <2>. QED BY <1>2, <1>4, <1>8, <2>1, <2>3, CalmGuard DEF Lacking, Guarded
<1>. HIDE DEF frame
<1>9. Careful(Main)
  BY <1>2, <1>4, <1>6, <1>8 DEF Careful, Shielding
<1>. QED BY <1>2, <1>5, <1>9 DEF Watch, Owing

LEMMA SaveWatch ==
  ASSUME CauseInv, ClockInv, SaveBan(Main)
  PROVE  Watch(Main)
<1>. DEFINE b == at[Main].ban
            frame == [at[Main] EXCEPT !.pc = "readActor"]
<1>1. /\ UNCHANGED <<clock, rule, loss>> /\ at' = [at EXCEPT ![Main] = frame]
      /\ SetStatus(b, at[Main].rec) /\ last' = last /\ at[Main].pc = "save"
  BY DEF SaveBan, Goto, world, host
<1>2. RowsKept
  <2>1. at[Main].rec # "absent"
    BY <1>1, MainFrame DEF FrameOK, Creating, BanStatus
  <2>. QED BY <1>1, <2>1, RowsMarked
<1>3. frame.pc = "readActor" /\ frame.t0 = at[Main].t0
  BY MainFrame DEF Frame
<1>4. frame.t0 <= clock /\ frame.pc \notin Restoring
  BY <1>1, <1>3, MainFrame DEF Restoring
<1>5. ASSUME NEW c \in BanId, Guarded(c)' PROVE Guarded(c)
  <2>1. InForce(c)'
    BY <1>1, <1>3, <1>5, ProcTyping DEF Guarded, Recording, CauseInv, TypeOK
  <2>2. CASE c \in Active
    BY <1>1, <1>2, <2>1, <2>2, ActiveRows DEF Guarded, InForce, IsExpired, RowsKept
  <2>3. CASE c \notin Active
    <3>1. c = b /\ at[Main].rec = "active"
      BY <1>1, <2>1, <2>3 DEF InForce, Active, SetStatus, CauseInv, TypeOK, BanRecord
    <3>. QED BY <1>1, <3>1 DEF Guarded, Recording
  <2>. QED BY <2>2, <2>3
<1>. HIDE DEF b, frame
<1>6. Careful(Main)
  BY <1>1, <1>2, <1>4, <1>5, CarefulCalm
<1>. QED BY <1>1, <1>3, <1>6, CarefulWatch DEF Owing

LEMMA OpenWatch ==
  ASSUME CauseInv, ClockInv, NEW frame \in Frame, frame.t0 <= clock,
         NEW i, NEW want \in BanStatus, NEW secs \in Nat,
         Open(Main, frame, i, want, secs), UNCHANGED <<clock, rule, loss>>
  PROVE  Watch(Main)
<1>. DEFINE creator == [frame EXCEPT !.pc = IF want = "active" THEN "enforce" ELSE "save",
                                     !.ip = i, !.ban = last + 1, !.want = want, !.rec = want]
<1>1. at' = [at EXCEPT ![Main] = creator]
  BY DEF Open, Become
<1>2. /\ creator.pc \notin Owing /\ creator.t0 = frame.t0
      /\ ~(creator.pc = "save" /\ creator.rec = "active")
  BY DEF Frame, Owing
<1>3. RowsKept /\ NothingNew
  BY RowsOpened, OpenQuiet, ProcTyping
<1>. HIDE DEF creator
<1>. QED BY <1>1, <1>2, <1>3, WatchQuiet DEF Owing, Restoring

LEMMA IdleStill ==
  ASSUME CauseInv
  PROVE  /\ Idle.pc \notin Owing /\ Idle.pc \notin Restoring
         /\ Idle.pc # "save" /\ Idle.t0 <= clock
BY DEF Idle, Owing, Restoring, CauseInv, TypeOK

LEMMA RaiseWatch ==
  ASSUME CauseInv, ClockInv, Raise(Main), UNCHANGED <<clock, rule, loss>>,
         at[Main].pc \in Creating \union {"writeActor", "profile"}
  PROVE  Watch(Main)
<1>1. CASE at[Main].want = "active"
  <2>1. Open(Main, at[Main], at[Main].ip, "failed", bans[at[Main].ban].secs)
    BY <1>1 DEF Raise
  <2>2. at[Main].pc # "profile"
    BY <1>1, MainFrame, ConstantsOK DEF FrameOK, BanStatus
  <2>3. bans[at[Main].ban].secs \in Nat
    BY <2>2, MainFrame, LastTyping DEF FrameOK, CauseInv, TypeOK, BanRecord
  <2>. QED BY <2>1, <2>3, MainFrame, OpenWatch DEF BanStatus
<1>2. CASE at[Main].want # "active"
  <2>1. at' = [at EXCEPT ![Main] = Idle] /\ UNCHANGED ledger
    BY <1>2 DEF Raise, Become
  <2>. QED BY <2>1, IdleStill, WatchStill
<1>. QED BY <1>1, <1>2

LEMMA CreateWatch ==
  ASSUME CauseInv, AloneInv, ClockInv, ReAddRefreshes = TRUE, CreateStep(Main) \/ SaveProfile
  PROVE  Watch(Main)
<1>1. CASE EnforceRefused(Main)
  <2>. DEFINE frame == [at[Main] EXCEPT !.pc = "save", !.rec = "failed"]
  <2>1. at' = [at EXCEPT ![Main] = frame] /\ UNCHANGED <<clock, rule, loss>> /\ UNCHANGED ledger
    BY <1>1 DEF EnforceRefused, Become, world, host
  <2>2. frame.pc \notin Owing /\ frame.rec # "active" /\ frame.t0 <= clock
    BY MainFrame DEF Frame, Owing
  <2>. HIDE DEF frame
  <2>. QED BY <2>1, <2>2, WatchStill DEF Owing
<1>2. CASE ReadActor(Main)
  <2>. DEFINE frame == [at[Main] EXCEPT !.pc = "writeActor", !.profile = ProfileAfter(Main)]
  <2>1. at' = [at EXCEPT ![Main] = frame] /\ UNCHANGED <<clock, rule, loss>> /\ UNCHANGED ledger
    BY <1>2 DEF ReadActor, Become, world, host
  <2>2. frame.pc \notin Owing /\ frame.pc # "save" /\ frame.t0 <= clock
    BY MainFrame DEF Frame, Owing
  <2>. HIDE DEF frame
  <2>. QED BY <2>1, <2>2, WatchStill DEF Owing
<1>3. CASE WriteActor(Main)
  <2>. DEFINE frame == [Idle EXCEPT !.pc = "profile", !.ip = at[Main].ip, !.risk = at[Main].risk]
  <2>1. at' = [at EXCEPT ![Main] = frame] /\ UNCHANGED <<clock, rule, loss>> /\ UNCHANGED ledger
    BY <1>3 DEF WriteActor, Become, world, host
  <2>2. frame.pc \notin Owing /\ frame.pc # "save" /\ frame.t0 <= clock
    BY DEF Idle, Owing, CauseInv, TypeOK
  <2>. HIDE DEF frame
  <2>. QED BY <2>1, <2>2, WatchStill
<1>4. CASE EnforceRaises(Main) \/ SaveRaises(Main)
  <2>1. Raise(Main) /\ UNCHANGED <<clock, rule, loss>>
    BY <1>4 DEF EnforceRaises, SaveRaises, Fault
  <2>2. at[Main].pc \in Creating \union {"writeActor", "profile"}
    BY <1>4 DEF EnforceRaises, SaveRaises, Creating
  <2>. QED BY <2>1, <2>2, RaiseWatch
<1>5. CASE SaveProfile
  <2>1. at' = [at EXCEPT ![Main] = Idle] /\ UNCHANGED <<clock, rule, loss>> /\ UNCHANGED ledger
    BY <1>5 DEF SaveProfile, Become, world, host
  <2>. QED BY <2>1, IdleStill, WatchStill
<1>. QED BY <1>1, <1>2, <1>3, <1>4, <1>5, EnforceWatch, SaveWatch DEF CreateStep

LEMMA EventWatch ==
  ASSUME CauseInv, ClockInv, NEW i \in IPs, NEW r \in RiskStates,
         EventPasses(i, r) \/ \E d \in Durations : EventIsolates(i, r, d)
  PROVE  Watch(Main)
<1>1. CASE EventPasses(i, r)
  <2>. DEFINE frame == [Idle EXCEPT !.pc = "profile", !.ip = i, !.risk = r]
  <2>1. at' = [at EXCEPT ![Main] = frame] /\ UNCHANGED <<clock, rule, loss>> /\ UNCHANGED ledger
    BY <1>1 DEF EventPasses, Become, world, host
  <2>2. frame.pc \notin Owing /\ frame.pc # "save" /\ frame.t0 <= clock
    BY DEF Idle, Owing, CauseInv, TypeOK
  <2>. HIDE DEF frame
  <2>. QED BY <2>1, <2>2, WatchStill
<1>2. ASSUME NEW d \in Durations, EventIsolates(i, r, d) PROVE Watch(Main)
  <2>1. Open(Main, [Idle EXCEPT !.risk = r], i, ResponseStatus, d) /\ UNCHANGED <<clock, rule, loss>>
    BY <1>2 DEF EventIsolates, world, host
  <2>2. [Idle EXCEPT !.risk = r] \in Frame /\ [Idle EXCEPT !.risk = r].t0 = 0
    BY IdleFrame, ConstantsOK DEF Frame, ActorState, Idle
  <2>3. ResponseStatus \in BanStatus /\ d \in Nat
    BY ConstantsOK DEF ResponseStatus, BanStatus
  <2>4. [Idle EXCEPT !.risk = r].t0 <= clock
    BY <2>2 DEF CauseInv, TypeOK
  <2>. QED BY <2>1, <2>2, <2>3, <2>4, OpenWatch
<1>. QED BY <1>1, <1>2
-----------------------------------------------------------------------------
(* Startup: the rows of the snapshot are put back one after another. The   *)
(* rows stay active meanwhile, and no two of them have the same address.   *)

LEMMA Walked ==
  ASSUME CauseInv, NEW p \in {Main, Worker}, NEW b
  PROVE  LET frame == [at[p] EXCEPT !.todo = @ \ {b}]
         IN  frame.pc = at[p].pc /\ frame.todo = at[p].todo \ {b} /\ frame.t0 = at[p].t0
BY ProcTyping DEF CauseInv, TypeOK, Frame

LEMMA WalkWatch ==
  ASSUME CauseInv, ClockInv, NEW p \in {Main, Worker}, NEW b,
         Become(p, [at[p] EXCEPT !.todo = @ \ {b}]),
         UNCHANGED <<clock, rule, loss>>, UNCHANGED ledger, at[p].pc = "sweep"
  PROVE  Watch(p)
<1>. DEFINE frame == [at[p] EXCEPT !.todo = @ \ {b}]
<1>1. frame.pc = at[p].pc /\ frame.todo \subseteq at[p].todo /\ frame.t0 <= clock
  BY Walked, MainFrame
<1>2. Active' = Active /\ RowsKept /\ NothingNew
  BY LedgerSame, RowsSame, LedgerQuiet
<1>3. frame.pc \in Restoring => frame.todo \subseteq Active'
  BY <1>1, <1>2, MainFrame
<1>4. at' = [at EXCEPT ![p] = frame]
  BY DEF Become
<1>5. frame.pc \notin Owing
  BY <1>1 DEF Owing
<1>. HIDE DEF frame
<1>. QED BY <1>1, <1>2, <1>3, <1>4, <1>5, WatchQuiet

LEMMA RestoreCareful ==
  ASSUME CauseInv, AloneInv, ClockInv, ReAddRefreshes = TRUE,
         NEW p \in {Main, Worker}, at[p].pc \in Restoring, NEW b \in at[p].todo,
         BlockIp(bans[b].ip, Remaining(b, at[p].t0)), clock' = clock, UNCHANGED ledger,
         Become(p, [at[p] EXCEPT !.todo = @ \ {b}])
  PROVE  /\ Careful(p)
         /\ ~Lacking(b)'
         /\ at'[p].pc = at[p].pc /\ at'[p].todo = at[p].todo \ {b}
<1>. DEFINE frame == [at[p] EXCEPT !.todo = @ \ {b}]
<1>1. /\ at' = [at EXCEPT ![p] = frame] /\ frame.pc = at[p].pc
      /\ frame.todo = at[p].todo \ {b} /\ frame.t0 = at[p].t0
  BY Walked DEF Become
<1>2. Active' = Active /\ RowsKept /\ NothingNew
  BY LedgerSame, RowsSame, LedgerQuiet
<1>3. b \in Active /\ at[p].todo \subseteq Active /\ at[p].t0 \in Nat /\ at[p].t0 <= clock
  BY MainFrame
<1>. HIDE DEF frame
<1>4. at'[p] = frame /\ SnapshotOK(at[p])'
  <2>1. at'[p] = frame
    BY <1>1, ProcTyping DEF CauseInv, TypeOK
  <2>. QED BY <1>1, <1>2, <1>3, <2>1 DEF SnapshotOK
<1>5. p = Main => ~(frame.pc = "save" /\ frame.rec = "active")
  BY <1>1 DEF Restoring
<1>6. ASSUME NEW c \in BanId, Lacking(c)'
      PROVE  c # b /\ Lacking(c) /\ rule'[bans[c].ip] = rule[bans[c].ip]
  <2>1. Guarded(c)
    BY <1>1, <1>2, <1>5, <1>6, FewerGuarded DEF Lacking
  <2>2. c # b /\ rule'[bans[c].ip] = rule[bans[c].ip]
    BY <1>3, <1>6, <2>1, RestoredIsEnforced DEF AloneInv, Lacking
  <2>. QED BY <1>2, <1>6, <2>1, <2>2, CalmGuard DEF Lacking
<1>7. b \in BanId
  BY <1>3, ActiveRows
<1>. QED BY <1>1, <1>2, <1>4, <1>6, <1>7 DEF Careful, Shielding

LEMMA StartEnforces ==
  ASSUME CauseInv, CauseInv', SweepInv, EnforceInv, StartDaemon
  PROVE  EnforceInv'
<1>. DEFINE frame == [Idle EXCEPT !.pc = "sync", !.job = "sync", !.todo = Active, !.t0 = clock]
<1>1. /\ at' = [at EXCEPT ![Main] = frame] /\ UNCHANGED <<clock, rule>> /\ UNCHANGED ledger
      /\ daemon = "down" /\ Looks
  BY DEF StartDaemon, Become, host
<1>2. RowsKept /\ NothingNew /\ Active' = Active
  BY <1>1, RowsSame, LedgerQuiet, LedgerSame
<1>3. frame.pc = "sync" /\ frame.t0 <= clock /\ frame.todo = Active'
  BY <1>2 DEF Idle, CauseInv, TypeOK
<1>. HIDE DEF frame
<1>4. Careful(Main)
  BY <1>1, <1>2, <1>3, CarefulQuiet DEF EnforceInv
<1>5. at'[Main] = frame
  BY <1>1, ProcTyping DEF CauseInv, TypeOK
<1>6. \A b \in BanId : Guarded(b)' => Owed(at[Main], b)'
  BY <1>3, <1>5 DEF Guarded, Recording, InForce, Owed
<1>7. Turn(Main)
  BY SyncTurn
<1>. QED BY <1>1, <1>4, <1>6, <1>7, PassLooks DEF Lacking

LEMMA SyncExpiresEnforces ==
  ASSUME CauseInv, CauseInv', SweepInv, EnforceInv, SyncExpires
  PROVE  EnforceInv'
<1>1. PICK b \in at[Main].todo : /\ SetStatus(b, "expired")
                                 /\ at' = [at EXCEPT ![Main] = [at[Main] EXCEPT !.todo = @ \ {b}]]
  BY DEF SyncExpires, Latest, Become
<1>. DEFINE frame == [at[Main] EXCEPT !.todo = @ \ {b}]
<1>2. /\ at[Main].pc = "sync" /\ frame.pc = "sync"
      /\ frame.t0 <= clock /\ frame.todo = at[Main].todo \ {b}
      /\ at[Main].todo \subseteq Active
  BY Walked, MainFrame DEF SyncExpires, Restoring, EnforceInv
<1>3. b \in BanId
  BY <1>2, ActiveRows
<1>4. RowsKept /\ NothingNew
  BY <1>1, <1>3, RowsMarked, MarkQuiet DEF SyncExpires
<1>5. b \notin Active' /\ Active \ {b} \subseteq Active'
  BY <1>1, <1>3 DEF SetStatus, Active, CauseInv, TypeOK, BanRecord
<1>6. at' = [at EXCEPT ![Main] = frame] /\ UNCHANGED <<clock, rule, loss>>
  BY <1>1 DEF SyncExpires, world, host
<1>. HIDE DEF frame
<1>7. Careful(Main)
  BY <1>2, <1>4, <1>5, <1>6, CarefulQuiet DEF EnforceInv
<1>8. at'[Main] = frame
  BY <1>6, ProcTyping DEF CauseInv, TypeOK
<1>9. ASSUME loss # "new", NEW c \in BanId, Lacking(c)' PROVE Owed(at[Main], c)'
  <2>1. c # b
    BY <1>2, <1>5, <1>8, <1>9 DEF Lacking, Guarded, Recording, InForce
  <2>2. Owed(at[Main], c)
    BY <1>7, <1>9, LackingKept DEF EnforceInv
  <2>. QED BY <1>2, <1>8, <2>1, <2>2 DEF Owed, Restoring
<1>10. Turn(Main)
  BY SyncTurn DEF SyncStep
<1>. QED BY <1>2, <1>6, <1>7, <1>9, <1>10, PassGoesOn DEF Upkeep

(* Startup and reconciliation put back one row after another.              *)
LEMMA PutBack ==
  ASSUME CauseInv, CauseInv', AloneInv, SweepInv, EnforceInv, ReAddRefreshes = TRUE,
         NEW p \in {Main, Worker}, Turn(p), at[p].pc \in Restoring, NEW b \in at[p].todo,
         BlockIp(bans[b].ip, Remaining(b, at[p].t0)), UNCHANGED world, UNCHANGED ledger,
         Become(p, [at[p] EXCEPT !.todo = @ \ {b}])
  PROVE  EnforceInv'
<1>1. UNCHANGED <<clock, loss>>
  BY DEF world, host
<1>2. /\ Careful(p) /\ ~Lacking(b)'
      /\ at'[p].pc = at[p].pc /\ at'[p].todo = at[p].todo \ {b}
  BY <1>1, RestoreCareful DEF EnforceInv
<1>3. ASSUME loss # "new", NEW c \in BanId, Lacking(c)' PROVE Owed(at[p], c)'
  <2>1. Owed(at[p], c) /\ c # b
    BY <1>2, <1>3, LackingKept DEF EnforceInv
  <2>. QED BY <1>2, <2>1 DEF Owed, Restoring
<1>. QED BY <1>1, <1>2, <1>3, PassGoesOn DEF Restoring, Upkeep

LEMMA SyncDoneEnforces ==
  ASSUME CauseInv, CauseInv', SweepInv, EnforceInv, SyncDone
  PROVE  EnforceInv'
<1>. DEFINE frame == [Idle EXCEPT !.pc = "reconcile", !.job = "reconcile"]
<1>1. /\ at' = [at EXCEPT ![Main] = frame] /\ UNCHANGED <<clock, rule>> /\ UNCHANGED ledger
      /\ at[Main].pc = "sync" /\ at[Main].todo = {} /\ MakesUp
  BY DEF SyncDone, Become, host
<1>2. RowsKept /\ NothingNew
  BY <1>1, RowsSame, LedgerQuiet
<1>3. frame.pc = "reconcile" /\ frame.t0 <= clock
  BY DEF Idle, CauseInv, TypeOK
<1>. HIDE DEF frame
<1>4. Careful(Main)
  BY <1>1, <1>2, <1>3, CarefulQuiet DEF Restoring, EnforceInv
<1>5. Turn(Main)
  BY SyncTurn DEF SyncStep
<1>. QED BY <1>1, <1>4, <1>5, PassEnds DEF Restoring

LEMMA SyncEnforces ==
  ASSUME CauseInv, CauseInv', AloneInv, SweepInv, EnforceInv, ReAddRefreshes = TRUE,
         StartDaemon \/ SyncStep
  PROVE  EnforceInv'
<1>1. CASE SyncFails
  <2>1. at' = [at EXCEPT ![Main] = Idle] /\ UNCHANGED <<clock, rule, loss>> /\ UNCHANGED ledger
    BY <1>1 DEF SyncFails, Become, Fault, world, host
  <2>2. Watch(Main)
    BY <2>1, IdleStill, WatchStill DEF EnforceInv
  <2>3. Turn(Main)
    BY <1>1, SyncTurn DEF SyncStep
  <2>. QED BY <2>2, <2>3, WatchKeeps
<1>2. CASE SyncBlocks
  <2>1. PICK b \in at[Main].todo : /\ BlockIp(bans[b].ip, Remaining(b, at[Main].t0))
                                   /\ Become(Main, [at[Main] EXCEPT !.todo = @ \ {b}])
    BY <1>2 DEF SyncBlocks, Latest
  <2>2. at[Main].pc \in Restoring /\ UNCHANGED world /\ UNCHANGED ledger /\ Turn(Main)
    BY <1>2, SyncTurn DEF SyncBlocks, SyncStep, Restoring
  <2>. QED BY <2>1, <2>2, PutBack
<1>. QED
  BY <1>1, <1>2, StartEnforces, SyncExpiresEnforces, SyncDoneEnforces DEF SyncStep
-----------------------------------------------------------------------------
(* The sweep takes the rule of an address whose one active ban is over.    *)

LEMMA UnblockWatch ==
  ASSUME CauseInv, AloneInv, SweepInv, ClockInv, NEW p \in {Main, Worker}, SweepUnblocks(p)
  PROVE  Watch(p)
<1>1. PICK b \in at[p].todo : /\ IsExpired(b) /\ UnblockIp(bans[b].ip)
                              /\ at' = [at EXCEPT ![p] = [at[p] EXCEPT !.pc = "markExpired", !.ban = b]]
  BY DEF SweepUnblocks, Latest, Become
<1>. DEFINE frame == [at[p] EXCEPT !.pc = "markExpired", !.ban = b]
<1>2. frame.pc = "markExpired" /\ frame.t0 = at[p].t0
  BY MainFrame DEF Frame
<1>3. at' = [at EXCEPT ![p] = frame] /\ UNCHANGED ledger /\ UNCHANGED <<clock, loss>>
  BY <1>1 DEF SweepUnblocks, UnblockIp, Fault, world, host
<1>4. b \in Active /\ b \in BanId /\ bans[b].ip \in IPs
  <2>1. at[p].todo \subseteq Active
    BY DEF SweepUnblocks, SweepInv, Sweeps, Pending
  <2>. QED BY <2>1, ActiveRows DEF CauseInv, TableOK
<1>5. RowsKept /\ NothingNew
  BY <1>3, RowsSame, LedgerQuiet
<1>. HIDE DEF frame
<1>6. SnapshotOK(at[p])'
  <2>1. at'[p] = frame
    BY <1>3, ProcTyping DEF CauseInv, TypeOK
  <2>. QED BY <1>2, <1>3, <2>1, MainFrame DEF SnapshotOK, Restoring
<1>7. ASSUME NEW c \in BanId, Lacking(c)'
      PROVE  Lacking(c) /\ rule'[bans[c].ip] = rule[bans[c].ip]
  <2>1. Guarded(c)
    BY <1>2, <1>3, <1>5, <1>7, FewerGuarded DEF Lacking
  <2>2. bans[c].ip # bans[b].ip
    <3>1. CASE InForce(c)
      <4>1. c \in Active /\ c # b
        BY <1>1, <3>1 DEF InForce
      <4>. QED BY <1>4, <4>1 DEF AloneInv, AtMostOneActiveBan
    <3>2. CASE Recording(c)
      <4>1. bans[c].ip = at[Main].ip /\ at[Main].pc \in Creating /\ at[Main].rec = "active"
        BY <3>2, ProcTyping DEF Recording, Creating, CauseInv, FrameOK
      <4>2. ActiveFor(at[Main].ip) = {}
        BY <4>1 DEF AloneInv, LookedUp
      <4>. QED BY <1>4, <4>1, <4>2 DEF ActiveFor
    <3>. QED BY <2>1, <3>1, <3>2 DEF Guarded
  <2>. QED BY <1>1, <1>4, <1>5, <1>7, <2>1, <2>2, UnblockGuard DEF Lacking
<1>8. Careful(p)
  BY <1>3, <1>5, <1>6, <1>7 DEF Careful, Shielding
<1>. QED BY <1>2, <1>3, <1>8, CarefulWatch DEF Owing

LEMMA SweepWatch ==
  ASSUME CauseInv, AloneInv, SweepInv, ClockInv, NEW p \in {Main, Worker},
         \/ SweepSkips(p) \/ SweepUnblocks(p) \/ MarkExpired(p) \/ ExpireActor(p)
         \/ SweepRaises(p) \/ SweepDone(p)
  PROVE  Watch(p)
<1>1. CASE SweepSkips(p)
  <2>1. PICK b : Become(p, [at[p] EXCEPT !.todo = @ \ {b}])
    BY <1>1 DEF SweepSkips
  <2>2. at[p].pc = "sweep" /\ UNCHANGED <<clock, rule, loss>> /\ UNCHANGED ledger
    BY <1>1 DEF SweepSkips, world, host
  <2>. QED BY <2>1, <2>2, WalkWatch
<1>2. CASE MarkExpired(p)
  <2>. DEFINE frame == [at[p] EXCEPT !.pc = "expireActor"]
  <2>1. at' = [at EXCEPT ![p] = frame] /\ UNCHANGED <<clock, rule, loss>>
    BY <1>2 DEF MarkExpired, Goto, world, host
  <2>2. frame.pc = "expireActor" /\ frame.t0 <= clock
    BY MainFrame DEF Frame
  <2>3. at[p].ban \in BanId
    BY <1>2, MainFrame, LastTyping DEF MarkExpired, FrameOK
  <2>4. RowsKept /\ NothingNew
    BY <1>2, <2>3, RowsMarked, MarkQuiet DEF MarkExpired
  <2>. HIDE DEF frame
  <2>. QED BY <2>1, <2>2, <2>4, WatchQuiet DEF Owing, Restoring
<1>3. CASE ExpireActor(p)
  <2>. DEFINE frame == [at[p] EXCEPT !.pc = "sweep", !.ban = 0, !.todo = @ \ {at[p].ban}]
  <2>1. at' = [at EXCEPT ![p] = frame] /\ UNCHANGED <<clock, rule, loss>> /\ UNCHANGED ledger
    BY <1>3 DEF ExpireActor, Become, world, host
  <2>2. frame.pc = "sweep" /\ frame.t0 <= clock
    BY MainFrame DEF Frame
  <2>. HIDE DEF frame
  <2>. QED BY <2>1, <2>2, WatchStill DEF Owing
<1>4. CASE SweepRaises(p)
  <2>1. UNCHANGED <<clock, rule, loss>> /\ UNCHANGED ledger
    BY <1>4 DEF SweepRaises, Fault
  <2>2. CASE at[p].job = "sweepThenReconcile"
    <3>1. at' = [at EXCEPT ![p] = [Idle EXCEPT !.pc = "reconcile"]]
      BY <1>4, <2>2 DEF SweepRaises, Become
    <3>2. [Idle EXCEPT !.pc = "reconcile"].pc \notin Owing
          /\ [Idle EXCEPT !.pc = "reconcile"].pc # "save" /\ [Idle EXCEPT !.pc = "reconcile"].t0 <= clock
      BY DEF Idle, Owing, CauseInv, TypeOK
    <3>. QED BY <2>1, <3>1, <3>2, WatchStill
  <2>3. CASE at[p].job # "sweepThenReconcile"
    <3>1. at' = [at EXCEPT ![p] = Idle]
      BY <1>4, <2>3 DEF SweepRaises, EndReconcile, Become
    <3>. QED BY <2>1, <3>1, IdleStill, WatchStill
  <2>. QED BY <2>2, <2>3
<1>5. CASE SweepDone(p)
  <2>1. UNCHANGED <<clock, rule, loss>> /\ UNCHANGED ledger
    BY <1>5 DEF SweepDone, world, host
  <2>2. \E frame : /\ at' = [at EXCEPT ![p] = frame]
                   /\ frame.pc \notin Owing /\ frame.pc # "save" /\ frame.t0 <= clock
    <3>1. CASE at[p].job = "sweepThenReconcile"
      <4>1. at' = [at EXCEPT ![p] = [Idle EXCEPT !.pc = "reconcile"]]
        BY <1>5, <3>1 DEF SweepDone, Become
      <4>2. [Idle EXCEPT !.pc = "reconcile"].pc = "reconcile" /\ [Idle EXCEPT !.pc = "reconcile"].t0 <= clock
        BY DEF Idle, CauseInv, TypeOK
      <4>. QED BY <4>1, <4>2 DEF Owing
    <3>2. CASE at[p].job = "reconcile"
      <4>1. at' = [at EXCEPT ![p] = [at[p] EXCEPT !.pc = "list"]]
        BY <1>5, <3>2 DEF SweepDone, Goto
      <4>2. [at[p] EXCEPT !.pc = "list"].pc = "list" /\ [at[p] EXCEPT !.pc = "list"].t0 <= clock
        BY MainFrame DEF Frame
      <4>. QED BY <4>1, <4>2 DEF Owing
    <3>3. CASE at[p].job \notin {"sweepThenReconcile", "reconcile"}
      <4>1. at' = [at EXCEPT ![p] = Idle]
        BY <1>5, <3>3 DEF SweepDone, Become
      <4>. QED BY <4>1, IdleStill
    <3>. QED BY <3>1, <3>2, <3>3
  <2>. QED BY <2>1, <2>2, WatchStill
<1>. QED BY <1>1, <1>2, <1>3, <1>4, <1>5, UnblockWatch

-----------------------------------------------------------------------------
(* Reconciliation puts back the missing rules of the live rows.            *)

LEMMA ListEnforces ==
  ASSUME CauseInv, CauseInv', SweepInv, EnforceInv,
         NEW p \in {Main, Worker}, Turn(p), ListRules(p)
  PROVE  EnforceInv'
<1>. DEFINE listed == IF available THEN {i \in IPs : rule[i] # NoRule} ELSE {}
            frame == [at[p] EXCEPT !.pc = "expect", !.seen = listed]
<1>1. /\ at' = [at EXCEPT ![p] = frame] /\ UNCHANGED <<clock, rule>> /\ UNCHANGED ledger
      /\ at[p].pc = "list" /\ Looks
  BY DEF ListRules, Become, host
<1>2. frame.pc = "expect" /\ frame.t0 <= clock /\ frame.seen = listed
  BY MainFrame DEF EnforceInv, Frame
<1>3. RowsKept /\ NothingNew
  BY <1>1, RowsSame, LedgerQuiet
<1>4. \A i \in listed : Blocked(i)
  BY DEF Blocked
<1>. HIDE DEF frame, listed
<1>5. Careful(p)
  BY <1>1, <1>2, <1>3, CarefulQuiet DEF Restoring, EnforceInv
<1>6. at'[p] = frame
  BY <1>1, ProcTyping DEF CauseInv, TypeOK
<1>7. ASSUME NEW b \in BanId, Lacking(b)' PROVE Owed(at[p], b)'
  <2>1. ~Blocked(bans[b].ip) /\ bans'[b].ip = bans[b].ip
    BY <1>5, <1>7, LackingKept DEF EnforceInv
  <2>. QED BY <1>2, <1>4, <1>6, <2>1 DEF Owed, Restoring
<1>. QED BY <1>1, <1>5, <1>7, PassLooks DEF Upkeep

(* Of an active ban that still runs there is one row, and it is expected.  *)
LEMMA ExpectEnforces ==
  ASSUME CauseInv, CauseInv', AloneInv, SweepInv, EnforceInv,
         NEW p \in {Main, Worker}, Turn(p), ExpectBans(p)
  PROVE  EnforceInv'
<1>. DEFINE missing == {b \in Expected : bans[b].ip \notin at[p].seen}
            frame == [at[p] EXCEPT !.pc = "restore", !.todo = missing]
<1>1. /\ at' = [at EXCEPT ![p] = frame] /\ UNCHANGED <<clock, rule, loss>> /\ UNCHANGED ledger
      /\ at[p].pc = "expect"
  BY DEF ExpectBans, Become, world, host
<1>2. Active' = Active /\ RowsKept /\ NothingNew
  BY <1>1, LedgerSame, RowsSame, LedgerQuiet
<1>3. missing \subseteq Active
  BY DEF Expected
<1>4. ASSUME NEW b \in BanId, InForce(b), bans[b].ip \notin at[p].seen PROVE b \in missing
  <2>1. \A c \in Active : bans[c].ip = bans[b].ip => c = b
    BY <1>4 DEF InForce, AloneInv, AtMostOneActiveBan
  <2>2. b <= b
    BY ConstantsOK DEF BanId
  <2>3. b \in Expected
    BY <1>4, <2>1, <2>2 DEF InForce, Expected
  <2>. QED BY <1>4, <2>3
<1>. HIDE DEF missing
<1>5. frame.pc = "restore" /\ frame.t0 <= clock /\ frame.todo = missing
  BY MainFrame DEF EnforceInv, Frame
<1>. HIDE DEF frame
<1>6. Careful(p)
  BY <1>1, <1>2, <1>3, <1>5, CarefulQuiet DEF EnforceInv
<1>7. at'[p] = frame
  BY <1>1, ProcTyping DEF CauseInv, TypeOK
<1>8. ASSUME loss # "new", NEW b \in BanId, Lacking(b)' PROVE Owed(at[p], b)'
  <2>1. Lacking(b) /\ ~Recording(b) /\ Owed(at[p], b)
    BY <1>6, <1>8, LackingKept DEF EnforceInv
  <2>2. b \in missing
    BY <1>1, <1>4, <2>1 DEF Lacking, Guarded, Owed
  <2>. QED BY <1>5, <1>7, <2>2 DEF Owed
<1>. QED BY <1>1, <1>6, <1>8, PassGoesOn DEF Upkeep

LEMMA EndsEnforces ==
  ASSUME CauseInv, CauseInv', SweepInv, EnforceInv,
         NEW p \in {Main, Worker}, Turn(p), RestoreEnds(p)
  PROVE  EnforceInv'
<1>1. at' = [at EXCEPT ![p] = Idle] /\ UNCHANGED <<clock, rule>> /\ UNCHANGED ledger
  BY DEF RestoreEnds, EndReconcile, Become, Fault, world, host
<1>2. CASE at[p].todo = {}
  <2>1. MakesUp /\ at[p].pc \in Restoring
    BY <1>2 DEF RestoreEnds, Restoring
  <2>2. RowsKept /\ NothingNew
    BY <1>1, RowsSame, LedgerQuiet
  <2>3. Careful(p)
    BY <1>1, <2>2, IdleStill, CarefulQuiet DEF EnforceInv
  <2>. QED BY <1>2, <2>1, <2>3, PassEnds
<1>3. CASE at[p].todo # {}
  <2>1. loss' = loss
    BY <1>3 DEF RestoreEnds, Fault, world
  <2>2. Watch(p)
    BY <1>1, <2>1, IdleStill, WatchStill DEF EnforceInv
  <2>. QED BY <2>2, WatchKeeps
<1>. QED BY <1>2, <1>3

LEMMA ReconcileEnforces ==
  ASSUME CauseInv, CauseInv', AloneInv, SweepInv, EnforceInv, ReAddRefreshes = TRUE,
         NEW p \in {Main, Worker}, ReconcileStep(p)
  PROVE  EnforceInv'
<1>. Turn(p) /\ ClockInv
  BY ReconcileTurn DEF EnforceInv
<1>1. CASE ReconcileBegins(p)
  <2>. DEFINE frame == [Idle EXCEPT !.pc = "sweep", !.job = "reconcile", !.todo = Active, !.t0 = clock]
  <2>1. at' = [at EXCEPT ![p] = frame] /\ UNCHANGED <<clock, rule, loss>> /\ UNCHANGED ledger
    BY <1>1 DEF ReconcileBegins, StartSweep, Become, world, host
  <2>2. frame.pc = "sweep" /\ frame.t0 <= clock
    BY DEF Idle, CauseInv, TypeOK
  <2>. HIDE DEF frame
  <2>3. Watch(p)
    BY <2>1, <2>2, WatchStill DEF Owing
  <2>. QED BY <2>3, WatchKeeps
<1>2. CASE ReconcileSkipped(p)
  <2>1. at' = [at EXCEPT ![p] = Idle] /\ UNCHANGED <<clock, rule, loss>> /\ UNCHANGED ledger
    BY <1>2 DEF ReconcileSkipped, EndReconcile, Become, world, host
  <2>2. Watch(p)
    BY <2>1, IdleStill, WatchStill
  <2>. QED BY <2>2, WatchKeeps
<1>3. CASE RestoreBlocks(p)
  <2>1. PICK b \in at[p].todo : /\ BlockIp(bans[b].ip, Remaining(b, at[p].t0))
                                /\ Become(p, [at[p] EXCEPT !.todo = @ \ {b}])
    BY <1>3 DEF RestoreBlocks, Latest
  <2>2. at[p].pc \in Restoring /\ UNCHANGED world /\ UNCHANGED ledger
    BY <1>3 DEF RestoreBlocks, Restoring
  <2>. QED BY <2>1, <2>2, PutBack
<1>4. CASE \/ SweepSkips(p) \/ SweepUnblocks(p) \/ MarkExpired(p) \/ ExpireActor(p)
           \/ SweepRaises(p) \/ SweepDone(p)
  BY <1>4, SweepWatch, WatchKeeps
<1>. QED
  BY <1>1, <1>2, <1>3, <1>4, ListEnforces, ExpectEnforces, EndsEnforces DEF ReconcileStep

LEMMA WorkerWatch ==
  ASSUME CauseInv, ClockInv, WorkerTurn
  PROVE  Watch(Worker)
<1>. DEFINE n == beat + 1
            sweeps == n % SweepEvery = 0
            reconciles == n >= ReconcileEvery
            job == IF reconciles THEN "sweepThenReconcile" ELSE "sweep"
<1>1. UNCHANGED <<clock, rule, loss>> /\ UNCHANGED ledger
  BY DEF WorkerTurn, world, host
<1>2. CASE sweeps
  <2>. DEFINE frame == [Idle EXCEPT !.pc = "sweep", !.job = job, !.todo = Active, !.t0 = 0]
  <2>1. at' = [at EXCEPT ![Worker] = frame]
    BY <1>2 DEF WorkerTurn, StartSweep, Become
  <2>2. frame.pc = "sweep" /\ frame.t0 <= clock
    BY DEF Idle, CauseInv, TypeOK
  <2>. HIDE DEF frame
  <2>. QED BY <1>1, <2>1, <2>2, Distinct, WatchStill DEF Owing
<1>3. CASE ~sweeps /\ reconciles
  <2>. DEFINE frame == [Idle EXCEPT !.pc = "reconcile"]
  <2>1. at' = [at EXCEPT ![Worker] = frame]
    BY <1>3 DEF WorkerTurn, Become
  <2>2. frame.pc = "reconcile" /\ frame.t0 <= clock
    BY DEF Idle, CauseInv, TypeOK
  <2>. HIDE DEF frame
  <2>. QED BY <1>1, <2>1, <2>2, Distinct, WatchStill DEF Owing
<1>4. CASE ~sweeps /\ ~reconciles
  <2>1. at' = at
    BY <1>4 DEF WorkerTurn
  <2>2. RowsKept /\ Active' = Active
    BY <1>1, RowsSame, LedgerSame
  <2>3. SnapshotOK(at[Worker])'
    BY <1>1, <2>1, <2>2, MainFrame DEF SnapshotOK
  <2>4. \A c \in BanId : Guarded(c)' => Guarded(c)
    BY <1>1, <2>1, <2>2 DEF Guarded, InForce, IsExpired, Recording, ledger
  <2>5. Careful(Worker)
    BY <1>1, <2>2, <2>3, <2>4, CalmGuard DEF Careful, Shielding, Lacking
  <2>6. at'[Worker].pc \notin Owing
    BY <2>1 DEF WorkerTurn, Owing
  <2>. QED BY <1>1, <2>5, <2>6 DEF Watch
<1>. QED BY <1>2, <1>3, <1>4
-----------------------------------------------------------------------------
(* Time, faults and the environment. *)

(* A step that leaves the table and the kernel set as they are, and the    *)
(* threads where they are or dead.                                         *)
LEMMA StandingKeeps ==
  ASSUME CauseInv, EnforceInv, UNCHANGED <<clock, rule, loss>>, UNCHANGED ledger,
         \/ at' = at
         \/ at'[Main] = Idle /\ at'[Worker] = Idle
  PROVE  EnforceInv'
<1>1. Active' = Active /\ RowsKept /\ bans' = bans /\ last' = last
  BY LedgerSame, RowsSame DEF ledger
<1>2. \A p \in {Main, Worker} : SnapshotOK(at[p])'
  BY <1>1, IdleStill DEF EnforceInv, ClockInv, SnapshotOK
<1>3. \A b \in BanId : Guarded(b)' => Guarded(b)
  BY <1>1, IdleStill DEF Guarded, InForce, IsExpired, Recording
<1>4. ClockInv'
  BY <1>1, <1>2 DEF EnforceInv, ClockInv
<1>5. ASSUME NEW b \in BanId, Lacking(b)'
      PROVE  Lacking(b) /\ (Recording(b)' => Recording(b))
  BY <1>1, <1>3, <1>5, IdleStill, CalmGuard DEF Lacking, Recording
<1>6. ASSUME NEW b \in BanId, NEW p \in {Main, Worker}, Owed(at[p], b) PROVE Owed(at[p], b)'
  BY <1>1, <1>6, IdleStill DEF Owed, Owing
<1>7. \A b \in BanId : Blocked(bans[b].ip)' <=> Blocked(bans[b].ip)
  BY <1>1 DEF Blocked
<1>. QED BY <1>4, <1>5, <1>6, <1>7 DEF EnforceInv

(* The set is emptied: nothing is promised until a pass has looked, except *)
(* that no rule which is there is too short.                               *)
LEMMA EmptiedKeeps ==
  ASSUME CauseInv, EnforceInv, Reboot \/ RulesLost
  PROVE  EnforceInv'
<1>1. /\ loss' = "new" /\ clock' = clock /\ bans' = bans /\ last' = last /\ Active' = Active
      /\ rule' = [i \in IPs |-> NoRule]
      /\ \/ at' = at
         \/ at'[Main] = Idle /\ at'[Worker] = Idle
  BY ProcTyping DEF Reboot, RulesLost, Fault, ledger, Active
<1>2. \A p \in {Main, Worker} : SnapshotOK(at[p])'
  BY <1>1, IdleStill DEF EnforceInv, ClockInv, SnapshotOK
<1>3. ClockInv'
  BY <1>1, <1>2 DEF EnforceInv, ClockInv
<1>4. ASSUME NEW b \in BanId, Guarded(b)' PROVE ~Blocked(bans[b].ip)'
  <2>1. Guarded(b)
    BY <1>1, <1>4, IdleStill DEF Guarded, InForce, IsExpired, Recording
  <2>2. bans[b].ip \in IPs
    BY <2>1, GuardedRows DEF CauseInv, TableOK
  <2>. QED BY <1>1, <2>2 DEF Blocked
<1>. QED BY <1>1, <1>3, <1>4 DEF EnforceInv, Lacking

(* The kernel drops an element when its timeout elapses: the ban it stands *)
(* for is then in its last second, or over.                                *)
LEMMA TickGuard ==
  ASSUME CauseInv, Tick, NEW b \in BanId, Guarded(b), Enforced(b)
  PROVE  Enforced(b)'
<1>1. /\ clock' = clock + 1 /\ clock \in Nat /\ Resolution \in Nat \ {0}
      /\ bans' = bans /\ b \in 1..last /\ bans[b].ip \in IPs /\ bans[b].expires \in Nat
  BY GuardedRows, ConstantsOK DEF Tick, ledger, CauseInv, TypeOK, TableOK, BanRecord
<1>. DEFINE i == bans[b].ip
<1>2. rule[i] \in Nat \union {NoRule}
  BY <1>1 DEF CauseInv, TypeOK
<1>3. rule'[i] = IF rule[i] > 0 /\ rule[i] <= clock + 1 THEN NoRule ELSE rule[i]
  BY <1>1 DEF Tick
<1>4. CASE rule[i] = Never
  BY <1>1, <1>3, <1>4 DEF Enforced, Never
<1>5. CASE rule[i] # Never /\ rule'[i] = rule[i]
  BY <1>1, <1>5 DEF Enforced
<1>6. CASE rule'[i] # rule[i]
  <2>1. rule[i] > 0 /\ rule[i] <= clock'
    BY <1>1, <1>3, <1>6
  <2>2. bans[b].expires # Never
    BY <2>1 DEF Enforced, Never
  <2>3. rule[i] > bans[b].expires - Resolution \/ clock > bans[b].expires - Resolution
    BY <2>1 DEF Enforced, Never
  <2>4. clock' > bans[b].expires - Resolution
    BY <1>1, <1>2, <2>1, <2>3 DEF NoRule
  <2>. QED BY <1>1, <2>2, <2>4 DEF Enforced
<1>. QED BY <1>4, <1>5, <1>6

LEMMA TickKeeps ==
  ASSUME CauseInv, EnforceInv, Tick
  PROVE  EnforceInv'
<1>1. /\ clock' = clock + 1 /\ clock \in Nat /\ Resolution \in Nat
      /\ bans' = bans /\ last' = last /\ at' = at /\ Active' = Active /\ loss' = loss
  BY LedgerSame, ConstantsOK DEF Tick, ledger, CauseInv, TypeOK
<1>2. \A b \in 1..last : bans[b].expires \in Nat /\ bans[b].secs * Resolution \in Nat
  BY <1>1, LastTyping, ConstantsOK DEF CauseInv, TypeOK, BanRecord
<1>3. \A b \in 1..last' : bans'[b].expires <= clock' + bans'[b].secs * Resolution
  BY <1>1, <1>2 DEF EnforceInv, ClockInv
<1>4. \A p \in {Main, Worker} : SnapshotOK(at[p])'
  BY <1>1, MainFrame DEF EnforceInv, SnapshotOK
<1>5. ASSUME NEW b \in BanId, Guarded(b)' PROVE Guarded(b)
  <2>1. bans[b].expires \in Nat
    BY DEF CauseInv, TypeOK, BanRecord
  <2>. QED BY <1>1, <1>5, <2>1 DEF Guarded, InForce, IsExpired, Recording
<1>6. ASSUME NEW b \in BanId, Lacking(b)'
      PROVE  Lacking(b) /\ ~Blocked(bans[b].ip)'
  <2>1. Lacking(b)
    BY <1>5, <1>6, TickGuard DEF Lacking
  <2>2. ~Blocked(bans[b].ip) /\ bans[b].ip \in IPs
    BY <2>1, GuardedRows DEF EnforceInv, Lacking, CauseInv, TableOK
  <2>3. rule'[bans[b].ip] = NoRule
    BY <2>2 DEF Tick, Blocked
  <2>. QED BY <1>1, <2>1, <2>3 DEF Blocked
<1>7. ClockInv'
  BY <1>3, <1>4 DEF ClockInv
<1>8. \A b \in BanId : /\ Recording(b)' => Recording(b)
                      /\ \A p \in {Main, Worker} : Owed(at[p], b) => Owed(at[p], b)'
  BY <1>1 DEF Recording, Owed
<1>. QED BY <1>1, <1>6, <1>7, <1>8 DEF EnforceInv

LEMMA EnvironmentKeeps ==
  ASSUME Undisturbed, CauseInv, EnforceInv, Environment
  PROVE  EnforceInv'
<1>1. CASE Crash
  <2>1. UNCHANGED <<clock, rule, loss>> /\ UNCHANGED ledger
    BY <1>1 DEF Crash, Fault
  <2>2. at'[Main] = Idle /\ at'[Worker] = Idle
    BY <1>1, ProcTyping, Distinct DEF Crash, StopDaemon, CauseInv, TypeOK
  <2>. QED BY <2>1, <2>2, StandingKeeps
<1>2. CASE FirewallGoes \/ FirewallReturns
  BY <1>2, StandingKeeps DEF FirewallGoes, FirewallReturns
<1>3. ~ \E o \in Operators : CommandKilled(o)
  BY DEF Undisturbed
<1>. QED BY <1>1, <1>2, <1>3, EmptiedKeeps, TickKeeps DEF Environment

LEMMA NextEnforces ==
  ASSUME Undisturbed, CauseInv, CauseInv', AloneInv, SweepInv, EnforceInv, [Next]_vars
  PROVE  EnforceInv'
<1>. ClockInv
  BY DEF EnforceInv
<1>1. CASE UNCHANGED vars
  BY <1>1, StandingKeeps DEF vars, ledger
<1>2. CASE CreateStep(Main) \/ SaveProfile
  BY <1>2, CreateWatch, CreateTurn, WatchKeeps DEF Undisturbed
<1>3. CASE ReconcileStep(Main) \/ ReconcileStep(Worker)
  BY <1>3, ReconcileEnforces DEF Undisturbed
<1>6. CASE WorkerTurn
  BY <1>6, WorkerWatch, WorkerBegins, WatchKeeps
<1>4. CASE StartDaemon \/ SyncStep
  BY <1>4, SyncEnforces DEF Undisturbed
<1>5. CASE Arrivals
  <2>1. PICK i \in IPs, r \in RiskStates :
          EventPasses(i, r) \/ \E d \in Durations : EventIsolates(i, r, d)
    BY <1>5 DEF Arrivals, Undisturbed
  <2>. QED BY <2>1, EventWatch, EventTurn, WatchKeeps
<1>. QED
  BY <1>1, <1>2, <1>3, <1>4, <1>5, <1>6, EnvironmentKeeps
  DEF Next, MainStep, WorkerStep, Undisturbed

(* Whenever a ban in force, or one about to be recorded, lacks its rule,   *)
(* the address is not blocked at all, the set has been emptied since       *)
(* somebody last made good for it, and every startup or reconciliation     *)
(* that looked later still has that row before it (ban_manager.py          *)
(* sync_on_startup, reconciliation.py reconcile).                          *)
THEOREM EnforcementInvariant ==
  ASSUME Undisturbed
  PROVE  Spec => []EnforceInv
<1>. Operators = {}
  BY DEF Undisturbed
<1>1. Init => AloneInv /\ SweepInv
  BY ProcTyping DEF Init, AloneInv, AtMostOneActiveBan, LookedUp, Active, Unallocated, Idle,
     Creating, SweepInv, OneKeeper, Upkeep, Sweeps
<1>2. Init => EnforceInv
  <2>1. Init => \A b \in BanId : ~Guarded(b)
    BY ProcTyping DEF Init, Guarded, InForce, Active, Recording, Unallocated, Idle
  <2>2. Init => \A p \in {Main, Worker} : SnapshotOK(at[p])
    BY ProcTyping DEF Init, SnapshotOK, Restoring, Idle
  <2>3. Init => 1..last = {}
    BY DEF Init
  <2>. QED BY <2>1, <2>2, <2>3 DEF EnforceInv, ClockInv, Lacking
<1>3. CauseInv /\ AloneInv /\ [Next]_vars => AloneInv'
  BY NextAlone
<1>4. CauseInv /\ AloneInv /\ SweepInv /\ [Next]_vars => SweepInv'
  BY NextReleases DEF AloneInv
<1>5. CauseInv /\ CauseInv' /\ AloneInv /\ SweepInv /\ EnforceInv /\ [Next]_vars => EnforceInv'
  BY NextEnforces
<1>. QED BY <1>1, <1>2, <1>3, <1>4, <1>5, CauseInvariant, PTL DEF Spec

(* A ban in force has its kernel rule until the last second of its life,   *)
(* whichever nft commands and database calls fail, however often the       *)
(* daemon crashes and starts again, and however the worker's sweeps and    *)
(* reconciliations fall into the creations of bans (engine.py). When a     *)
(* reboot or another program empties the set, the next startup             *)
(* (ban_manager.py sync_on_startup) or reconciliation (reconciliation.py)  *)
(* that gets through all of its rows makes it true again, wherever earlier *)
(* ones broke off, unless it looked between a block_ip and its save_ban:   *)
(* then it is the one after. The daemon must have the table to itself, and *)
(* an element that is added again must get its new timeout.                *)
THEOREM BansAreEnforced ==
  ASSUME Undisturbed
  PROVE  Spec => []ActiveBanIsEnforced
<1>1. EnforceInv => ActiveBanIsEnforced
  BY DEF EnforceInv, ActiveBanIsEnforced, Lacking, Guarded
<1>. QED BY <1>1, EnforcementInvariant, PTL

(* At any time, also after a loss, a rule that is in the kernel for a ban  *)
(* in force is there for the rest of its term: reconciliation, startup and *)
(* the creation of bans never leave a shorter one behind (nftables.py      *)
(* block_ip, reconciliation.py, ban_manager.py).                           *)
THEOREM RulesOutlastBans ==
  ASSUME Undisturbed
  PROVE  Spec => []RuleOutlastsBan
<1>1. EnforceInv => RuleOutlastsBan
  BY DEF EnforceInv, RuleOutlastsBan, Lacking, Guarded
<1>. QED BY <1>1, EnforcementInvariant, PTL
=============================================================================

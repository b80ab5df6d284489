----------------------------- MODULE BanLifecycle -----------------------------
(***************************************************************************)
(* The life of a ban: the SQLite ban table, the kernel drop set and the    *)
(* threat-actor state, and the three kinds of process that change them:    *)
(*                                                                         *)
(*   Main      the daemon's main thread: startup synchronisation, then the *)
(*             event pipeline and its response engine;                     *)
(*   Worker    the daemon's maintenance thread: expiry sweeps and          *)
(*             firewall reconciliation;                                    *)
(*   Operators one command-line invocation each (`ban`, `unban`), separate *)
(*             processes that share the database and the kernel.           *)
(*                                                                         *)
(* Every storage call is a transaction of its own and every firewall call  *)
(* a command of its own, so each is one step and anything may run between. *)
(* A step also performs the purely local work up to the next call.         *)
(***************************************************************************)
EXTENDS Integers, FiniteSets

CONSTANTS
  IPs,            \* source addresses
  Operators,      \* command-line processes
  Durations,      \* requested ban lengths in seconds; 0 asks for a permanent ban
  Resolution,     \* clock ticks per second
  MaxTime,        \* bound: last clock value explored
  MaxBans,        \* bound: ban records ever allocated
  FaultKinds,     \* which faults may happen
  MaxFaults,      \* bound: how many faults happen in all
  Modes,          \* response modes the daemon may be configured with when it starts
  ReAddRefreshes, \* does adding an element the set holds already renew its timeout?
  RiskStates,     \* actor states the risk engine may compute
  SweepEvery,     \* worker iterations between expiry sweeps
  ReconcileEvery, \* worker iterations between reconciliations
  None            \* stands for Python's None

VARIABLES
  clock,      \* now, in ticks
  rule,       \* rule[i]: kernel element for i (NoRule, Never, or its expiry)
  available,  \* FirewallBackend.is_available()
  bans,       \* bans[b]: the record allocated as b, rows ordered by created_at
  last,       \* number of records allocated so far
  actor,      \* actor[i]: state column of the threat_actors row of i
  daemon,     \* "down", "starting" (initialize) or "up"
  response,   \* response mode of the running daemon's engine
  reconciler, \* has the running daemon built its FirewallReconciler?
  beat,       \* reconcile_counter of the maintenance worker
  at,         \* at[p]: where process p is and its local variables
  faults,     \* faults so far
  loss        \* history: "none", or the set was emptied ("new"), or it was and a startup
              \* or reconciliation has looked at it since ("known")

vars == <<clock, rule, available, bans, last, actor, daemon, response, reconciler, beat, at, faults, loss>>
host == <<clock, available, faults>>
world == <<host, loss>>
ledger == <<bans, last>>
mode == <<daemon, response, reconciler, beat>>

Main == "main"
Worker == "worker"
Procs == {Main, Worker} \union Operators

NoRule == -1
Never == 0

BanStatus == {"active", "expired", "unbanned", "pending_approval", "dry_run", "failed"}
ResponseMode == {"disabled", "dry_run", "manual", "automatic"}
Losses == {"none", "new", "known"}
FaultNames == {"nft", "db", "avail", "rules", "crash", "reboot", "cli"}

ASSUME ConstantsOK ==
  /\ Resolution \in Nat \ {0} /\ MaxTime \in Nat /\ MaxBans \in Nat /\ MaxFaults \in Nat
  /\ SweepEvery \in Nat \ {0} /\ ReconcileEvery \in Nat \ {0}
  /\ Durations \subseteq Nat
  /\ FaultKinds \subseteq FaultNames
  /\ Modes \subseteq ResponseMode
  /\ ReAddRefreshes \in BOOLEAN
  /\ RiskStates \subseteq {"trusted", "neutral", "probing", "suspicious", "active_threat"}
  /\ Main \notin Operators /\ Worker \notin Operators
  /\ None \notin IPs \union BanStatus

ActorState == {"trusted", "neutral", "probing", "suspicious", "active_threat",
               "isolated", "expired", "released"}
BanId == 1..MaxBans

BanRecord == [ip: IPs \union {None}, secs: Nat, expires: Nat,
              status: BanStatus \union {"absent"}]
Unallocated == [ip |-> None, secs |-> 0, expires |-> 0, status |-> "absent"]

Stage == {"idle", "enforce", "save", "readActor", "writeActor", "profile",
          "unbanFind", "unbanMark", "unbanActor", "sync",
          "sweep", "markExpired", "expireActor", "reconcile", "list", "expect", "restore"}
Job == {None, "sync", "sweep", "sweepThenReconcile", "reconcile"}

Frame == [pc: Stage, job: Job, ip: IPs \union {None}, ban: BanId \union {0},
          want: BanStatus \union {None}, rec: BanStatus \union {None},
          profile: ActorState \union {None}, risk: ActorState \union {None},
          todo: SUBSET BanId, seen: SUBSET IPs, t0: Nat]
Idle == [pc |-> "idle", job |-> None, ip |-> None, ban |-> 0, want |-> None, rec |-> None,
         profile |-> None, risk |-> None, todo |-> {}, seen |-> {}, t0 |-> 0]

(* Every variable keeps the shape its declaration gives it. *)
TypeOK ==
  /\ clock \in Nat
  /\ rule \in [IPs -> Nat \union {NoRule}]
  /\ available \in BOOLEAN
  /\ bans \in [BanId -> BanRecord]
  /\ last \in 0..MaxBans
  /\ actor \in [IPs -> ActorState \union {"absent"}]
  /\ daemon \in {"down", "starting", "up"}
  /\ response \in ResponseMode
  /\ reconciler \in BOOLEAN
  /\ beat \in Nat
  /\ at \in [Procs -> Frame]
  /\ faults \in Nat
  /\ loss \in Losses

Init ==
  /\ clock = 0
  /\ rule = [i \in IPs |-> NoRule]
  /\ available = TRUE
  /\ bans = [b \in BanId |-> Unallocated]
  /\ last = 0
  /\ actor = [i \in IPs |-> "absent"]
  /\ daemon = "down" /\ response = "disabled" /\ reconciler = FALSE /\ beat = 0
  /\ at = [p \in Procs |-> Idle]
  /\ faults = 0
  /\ loss = "none"

-----------------------------------------------------------------------------
(* Queries of the ban table and primitive effects. *)

\* Mutant: every row that has not been closed counts as active.
ActiveUnlessClosed == {b \in BanId : bans[b].status \notin {"absent", "expired", "unbanned", "failed"}}
Active == {b \in BanId : bans[b].status = "active"}
ActiveFor(i) == {b \in Active : bans[b].ip = i}
Latest(S) == {b \in S : \A c \in S : c <= b}
IsExpired(b) == bans[b].expires # Never /\ clock >= bans[b].expires

SetStatus(b, s) == bans' = [bans EXCEPT ![b].status = s]
Become(p, frame) == at' = [at EXCEPT ![p] = frame]
Goto(p, stage) == at' = [at EXCEPT ![p].pc = stage]

(* block_ip: an element without a positive duration never times out. *)
Expiry(secs) == IF secs > 0 THEN clock + secs * Resolution ELSE Never
BlockIp(i, secs) ==
  IF rule[i] = NoRule \/ ReAddRefreshes
    THEN rule' = [rule EXCEPT ![i] = Expiry(secs)]
    ELSE UNCHANGED rule


(* The duration recomputed from expires_at for a rule that is put back. *)
\* Mutant: the remaining seconds are not kept above zero.
AtLeastUnclamped(lo, n) == n
AtLeast(lo, n) == IF n < lo THEN lo ELSE n
Remaining(b, now) ==
  IF bans[b].expires = Never THEN 0 ELSE AtLeast(1, (bans[b].expires - now) \div Resolution)

Fault(kind) ==
  /\ kind \in FaultKinds /\ faults < MaxFaults
  /\ faults' = faults + 1
  /\ loss' = IF kind \in {"reboot", "rules"} THEN "new" ELSE loss
  /\ UNCHANGED <<clock, available>>

(* unblock_ip: an error, or an nft that is gone, only makes it return False. *)
UnblockIp(i) ==
  \/ available /\ rule' = [rule EXCEPT ![i] = NoRule] /\ UNCHANGED world
  \/ ~available /\ UNCHANGED <<rule, world>>
  \/ available /\ Fault("nft") /\ UNCHANGED rule

(* History: who looks while nobody is between block_ip and save_ban sees   *)
(* whatever is missing; who then puts all of it back makes up for the loss. *)
Looks == loss' = IF loss = "new" /\ (\A p \in Procs : at[p].pc # "save") THEN "known" ELSE loss
MakesUp == loss' = IF loss = "known" THEN "none" ELSE loss

-----------------------------------------------------------------------------
(* BanManager.create_ban, from the response engine or the command line. *)

(* Entering create_ban: the record gets its creation and expiry times. *)
Open(p, frame, i, want, secs) ==
  /\ last < MaxBans
  /\ last' = last + 1
  /\ bans' = [bans EXCEPT ![last + 1] =
       [ip |-> i, secs |-> secs, status |-> "absent",
        expires |-> IF secs > 0 THEN clock + secs * Resolution ELSE Never]]
  /\ Become(p, [frame EXCEPT !.pc = IF want = "active" THEN "enforce" ELSE "save",
                             !.ip = i, !.ban = last + 1, !.want = want, !.rec = want])

EnforceBlocks(p) ==
  /\ at[p].pc = "enforce" /\ available
  /\ BlockIp(at[p].ip, bans[at[p].ban].secs)
  /\ Goto(p, "save")
  /\ UNCHANGED <<world, ledger, actor, mode>>

\* Mutant: the refusal is not recorded.
EnforceRefusedSilently(p) ==
  /\ at[p].pc = "enforce" /\ ~available
  /\ Goto(p, "save")
  /\ UNCHANGED <<world, rule, ledger, actor, mode>>

EnforceRefused(p) ==
  /\ at[p].pc = "enforce" /\ ~available
  /\ Become(p, [at[p] EXCEPT !.pc = "save", !.rec = "failed"])
  /\ UNCHANGED <<world, rule, ledger, actor, mode>>

SaveBan(p) ==
  /\ at[p].pc = "save"
  /\ SetStatus(at[p].ban, at[p].rec)
  /\ Goto(p, "readActor")
  /\ UNCHANGED <<world, rule, last, actor, mode>>

(* The profile create_ban is going to write, computed from the row it reads. *)
ProfileAfter(p) ==
  LET old == actor[at[p].ip] IN
  IF old = "absent" THEN IF at[p].want = "active" THEN "isolated" ELSE "neutral"
  ELSE IF at[p].rec = "active" THEN "isolated" ELSE old

ReadActor(p) ==
  /\ at[p].pc = "readActor"
  /\ Become(p, [at[p] EXCEPT !.pc = "writeActor", !.profile = ProfileAfter(p)])
  /\ UNCHANGED <<world, rule, ledger, actor, mode>>

WriteActor(p) ==
  /\ at[p].pc = "writeActor"
  /\ actor' = [actor EXCEPT ![at[p].ip] = at[p].profile]
  /\ IF p = Main THEN Become(p, [Idle EXCEPT !.pc = "profile", !.ip = at[p].ip, !.risk = at[p].risk])
                 ELSE Become(p, Idle)
  /\ UNCHANGED <<world, rule, ledger, mode>>

(* An exception leaves create_ban: the response engine records a FAILED ban *)
(* in its place, once; anywhere else the event or the command is given up.  *)
Raise(p) ==
  IF p = Main /\ at[p].want = "active"
    THEN Open(p, at[p], at[p].ip, "failed", bans[at[p].ban].secs)
    ELSE Become(p, Idle) /\ UNCHANGED ledger

EnforceRaises(p) ==
  /\ at[p].pc = "enforce" /\ available
  /\ Fault("nft")
  /\ Raise(p)
  /\ UNCHANGED <<rule, actor, mode>>

SaveRaises(p) ==
  /\ at[p].pc \in {"save", "writeActor", "profile"}
  /\ Fault("db")
  /\ Raise(p)
  /\ UNCHANGED <<rule, actor, mode>>

-----------------------------------------------------------------------------
(* The event pipeline of the daemon. *)

\* Mutant: the response mode is taken for the status.
ResponseStatusIsMode == response

ResponseStatus ==
  CASE response = "automatic" -> IF available THEN "active" ELSE "failed"
    [] response = "dry_run" -> "dry_run"
    [] OTHER -> "pending_approval"

\* Mutant: no look-up of the ban in force.
EventIsolatesUnchecked(i, risk, secs) ==
  /\ daemon = "up" /\ at[Main].pc = "idle" /\ response # "disabled"
  /\ Open(Main, [Idle EXCEPT !.risk = risk], i, ResponseStatus, secs)
  /\ UNCHANGED <<world, rule, actor, mode>>

(* An event whose profile the policy answers with an isolation. *)
EventIsolates(i, risk, secs) ==
  /\ daemon = "up" /\ at[Main].pc = "idle" /\ response # "disabled"
  /\ ActiveFor(i) = {}
  /\ Open(Main, [Idle EXCEPT !.risk = risk], i, ResponseStatus, secs)
  /\ UNCHANGED <<world, rule, actor, mode>>

(* An event that leads to no new ban: a lesser action, or a ban in force. *)
EventPasses(i, risk) ==
  /\ daemon = "up" /\ at[Main].pc = "idle"
  /\ Become(Main, [Idle EXCEPT !.pc = "profile", !.ip = i, !.risk = risk])
  /\ UNCHANGED <<world, rule, ledger, actor, mode>>

(* The pipeline saves the profile it computed before the response ran. *)
SaveProfile ==
  /\ at[Main].pc = "profile"
  /\ actor' = [actor EXCEPT ![at[Main].ip] = at[Main].risk]
  /\ Become(Main, Idle)
  /\ UNCHANGED <<world, rule, ledger, mode>>

-----------------------------------------------------------------------------
(* The command line: DefenseAppService.ban_ip and unban_ip. *)

BanCommand(o, i, secs) ==
  /\ at[o].pc = "idle"
  /\ ActiveFor(i) = {}
  /\ Open(o, Idle, i, "active", secs)
  /\ UNCHANGED <<world, rule, actor, mode>>

UnbanCommand(o, i) ==
  /\ at[o].pc = "idle"
  /\ UnblockIp(i)
  /\ Become(o, [Idle EXCEPT !.pc = "unbanFind", !.ip = i])
  /\ UNCHANGED <<ledger, actor, mode>>

UnbanFinds(o) ==
  /\ at[o].pc = "unbanFind"
  /\ \E b \in Latest(ActiveFor(at[o].ip)) :
       Become(o, [at[o] EXCEPT !.pc = "unbanMark", !.ban = b])
  /\ UNCHANGED <<world, rule, ledger, actor, mode>>

UnbanFindsNothing(o) ==
  /\ at[o].pc = "unbanFind"
  /\ ActiveFor(at[o].ip) = {}
  /\ Goto(o, "unbanActor")
  /\ UNCHANGED <<world, rule, ledger, actor, mode>>

MarkUnbanned(o) ==
  /\ at[o].pc = "unbanMark"
  /\ SetStatus(at[o].ban, "unbanned")
  /\ Goto(o, "unbanActor")
  /\ UNCHANGED <<world, rule, last, actor, mode>>

(* Rows are never deleted and the state written does not depend on the one *)
(* read, so reading the profile and saving it are one step here.           *)
MoveActor(i, s) ==
  actor' = IF actor[i] = "absent" THEN actor ELSE [actor EXCEPT ![i] = s]

ReleaseActor(o) ==
  /\ at[o].pc = "unbanActor"
  /\ MoveActor(at[o].ip, "released")
  /\ Become(o, Idle)
  /\ UNCHANGED <<world, rule, ledger, mode>>

-----------------------------------------------------------------------------
(* Startup: BanManager.sync_on_startup, then one reconciliation. *)

StartDaemon ==
  /\ daemon = "down"
  /\ daemon' = "starting" /\ response' \in Modes /\ reconciler' = FALSE /\ beat' = 0
  /\ Become(Main, [Idle EXCEPT !.pc = "sync", !.job = "sync", !.todo = Active, !.t0 = clock])
  /\ Looks
  /\ UNCHANGED <<host, rule, ledger, actor>>

SyncExpires ==
  /\ at[Main].pc = "sync"
  /\ \E b \in Latest(at[Main].todo) :
       /\ IsExpired(b)
       /\ SetStatus(b, "expired")
       /\ Become(Main, [at[Main] EXCEPT !.todo = @ \ {b}])
  /\ UNCHANGED <<world, rule, last, actor, mode>>

SyncBlocks ==
  /\ at[Main].pc = "sync" /\ available
  /\ \E b \in Latest(at[Main].todo) :
       /\ ~IsExpired(b)
       /\ BlockIp(bans[b].ip, Remaining(b, at[Main].t0))
       /\ Become(Main, [at[Main] EXCEPT !.todo = @ \ {b}])
  /\ UNCHANGED <<world, ledger, actor, mode>>

(* The exception skips the construction of the reconciler; the daemon runs. *)
SyncFails ==
  /\ at[Main].pc = "sync" /\ at[Main].todo # {}
  /\ \/ ~available /\ (\E b \in Latest(at[Main].todo) : ~IsExpired(b)) /\ UNCHANGED world
     \/ available /\ (\E b \in Latest(at[Main].todo) : ~IsExpired(b)) /\ Fault("nft")
     \/ (\E b \in Latest(at[Main].todo) : IsExpired(b)) /\ Fault("db")
  /\ daemon' = "up"
  /\ Become(Main, Idle)
  /\ UNCHANGED <<rule, ledger, actor, response, reconciler, beat>>

SyncDone ==
  /\ at[Main].pc = "sync" /\ at[Main].todo = {}
  /\ reconciler' = TRUE /\ MakesUp
  /\ Become(Main, [Idle EXCEPT !.pc = "reconcile", !.job = "reconcile"])
  /\ UNCHANGED <<host, rule, ledger, actor, daemon, response, beat>>

-----------------------------------------------------------------------------
(* BanManager.check_expirations: the stage "sweep" over a snapshot of rows. *)

StartSweep(p, job, now) ==
  Become(p, [Idle EXCEPT !.pc = "sweep", !.job = job, !.todo = Active, !.t0 = now])

(* One turn of the worker's loop; both jobs may fall due in the same turn. *)
WorkerTurn ==
  LET n == beat + 1
      sweeps == n % SweepEvery = 0
      reconciles == n >= ReconcileEvery
  IN /\ daemon = "up" /\ at[Worker].pc = "idle"
     /\ beat' = IF reconciles THEN 0 ELSE n
     /\ CASE sweeps -> StartSweep(Worker, IF reconciles THEN "sweepThenReconcile" ELSE "sweep", 0)
          [] ~sweeps /\ reconciles -> Become(Worker, [Idle EXCEPT !.pc = "reconcile"])
          [] OTHER -> UNCHANGED at
     /\ UNCHANGED <<world, rule, ledger, actor, daemon, response, reconciler>>

SweepSkips(p) ==
  /\ at[p].pc = "sweep"
  /\ \E b \in Latest(at[p].todo) :
       /\ ~IsExpired(b)
       /\ Become(p, [at[p] EXCEPT !.todo = @ \ {b}])
  /\ UNCHANGED <<world, rule, ledger, actor, mode>>

\* Mutant: the sweep does not look at expires_at.
SweepUnblocksAll(p) ==
  /\ at[p].pc = "sweep"
  /\ \E b \in Latest(at[p].todo) :
       /\ UnblockIp(bans[b].ip)
       /\ Become(p, [at[p] EXCEPT !.pc = "markExpired", !.ban = b])
  /\ UNCHANGED <<ledger, actor, mode>>

SweepUnblocks(p) ==
  /\ at[p].pc = "sweep"
  /\ \E b \in Latest(at[p].todo) :
       /\ IsExpired(b)
       /\ UnblockIp(bans[b].ip)
       /\ Become(p, [at[p] EXCEPT !.pc = "markExpired", !.ban = b])
  /\ UNCHANGED <<ledger, actor, mode>>

\* Mutant: the new status is not saved.
MarkExpiredUnsaved(p) ==
  /\ at[p].pc = "markExpired"
  /\ Goto(p, "expireActor")
  /\ UNCHANGED <<world, rule, ledger, actor, mode>>

MarkExpired(p) ==
  /\ at[p].pc = "markExpired"
  /\ SetStatus(at[p].ban, "expired")
  /\ Goto(p, "expireActor")
  /\ UNCHANGED <<world, rule, last, actor, mode>>

ExpireActor(p) ==
  /\ at[p].pc = "expireActor"
  /\ MoveActor(bans[at[p].ban].ip, "expired")
  /\ Become(p, [at[p] EXCEPT !.pc = "sweep", !.ban = 0, !.todo = @ \ {at[p].ban}])
  /\ UNCHANGED <<world, rule, ledger, mode>>

(* The end of reconcile, normal or not: startup is over, or the turn is. *)
EndReconcile(p) ==
  /\ daemon' = "up"
  /\ Become(p, Idle)
  /\ UNCHANGED <<response, reconciler, beat>>

(* An error ends the sweep. The worker goes on to a reconciliation that is *)
(* due; inside a reconciliation the error becomes an unhealthy report.     *)
SweepRaises(p) ==
  /\ at[p].pc \in {"markExpired", "expireActor"}
  /\ Fault("db")
  /\ CASE at[p].job = "sweepThenReconcile" ->
            Become(p, [Idle EXCEPT !.pc = "reconcile"]) /\ UNCHANGED mode
       [] at[p].job = "reconcile" -> EndReconcile(p)
       [] OTHER -> Become(p, Idle) /\ UNCHANGED mode
  /\ UNCHANGED <<rule, ledger, actor>>

SweepDone(p) ==
  /\ at[p].pc = "sweep" /\ at[p].todo = {}
  /\ CASE at[p].job = "sweepThenReconcile" -> Become(p, [Idle EXCEPT !.pc = "reconcile"])
       [] at[p].job = "reconcile" -> Goto(p, "list")
       [] OTHER -> Become(p, Idle)
  /\ UNCHANGED <<world, rule, ledger, actor, mode>>

-----------------------------------------------------------------------------
(* FirewallReconciler.reconcile, run by the worker and once at startup. *)

ReconcileBegins(p) ==
  /\ at[p].pc = "reconcile"
  /\ available /\ reconciler
  /\ StartSweep(p, "reconcile", clock)
  /\ UNCHANGED <<world, rule, ledger, actor, mode>>

ReconcileSkipped(p) ==
  /\ at[p].pc = "reconcile"
  /\ ~(available /\ reconciler)
  /\ EndReconcile(p)
  /\ UNCHANGED <<world, rule, ledger, actor>>

(* list_blocked_ips: an element set that cannot be listed counts as empty. *)
ListRules(p) ==
  /\ at[p].pc = "list"
  /\ Become(p, [at[p] EXCEPT !.pc = "expect",
       !.seen = IF available THEN {i \in IPs : rule[i] # NoRule} ELSE {}])
  /\ Looks
  /\ UNCHANGED <<host, rule, ledger, actor, mode>>

(* The dictionary keyed by address keeps, of several rows, the oldest. *)
Expected ==
  LET live == {b \in Active : ~IsExpired(b)} IN
  {b \in live : \A c \in live : bans[c].ip = bans[b].ip => b <= c}

\* Mutant: the rules that are there are put back, not those that are missing.
ExpectBansInverted(p) ==
  /\ at[p].pc = "expect"
  /\ Become(p, [at[p] EXCEPT !.pc = "restore",
       !.todo = {b \in Expected : bans[b].ip \in at[p].seen}])
  /\ UNCHANGED <<world, rule, ledger, actor, mode>>

ExpectBans(p) ==
  /\ at[p].pc = "expect"
  /\ Become(p, [at[p] EXCEPT !.pc = "restore",
       !.todo = {b \in Expected : bans[b].ip \notin at[p].seen}])
  /\ UNCHANGED <<world, rule, ledger, actor, mode>>

RestoreBlocks(p) ==
  /\ at[p].pc = "restore" /\ available
  /\ \E b \in Latest(at[p].todo) :
       /\ BlockIp(bans[b].ip, Remaining(b, at[p].t0))
       /\ Become(p, [at[p] EXCEPT !.todo = @ \ {b}])
  /\ UNCHANGED <<world, ledger, actor, mode>>

(* The last rule is back, or a command fails and the report is unhealthy; *)
(* rules the set holds beyond the expected ones are counted and kept.     *)
RestoreEnds(p) ==
  /\ at[p].pc = "restore"
  /\ \/ at[p].todo = {} /\ MakesUp /\ UNCHANGED host
     \/ at[p].todo # {} /\ ~available /\ UNCHANGED world
     \/ at[p].todo # {} /\ available /\ Fault("nft")
  /\ EndReconcile(p)
  /\ UNCHANGED <<rule, ledger, actor>>

-----------------------------------------------------------------------------
(* Time, faults and the environment. *)

(* The kernel drops an element when its timeout elapses. *)
Tick ==
  /\ clock < MaxTime
  /\ clock' = clock + 1
  /\ rule' = [i \in IPs |-> IF rule[i] > 0 /\ rule[i] <= clock + 1 THEN NoRule ELSE rule[i]]
  /\ UNCHANGED <<available, ledger, actor, mode, at, faults, loss>>

StopDaemon ==
  /\ daemon' = "down" /\ response' = "disabled" /\ reconciler' = FALSE /\ beat' = 0
  /\ at' = [at EXCEPT ![Main] = Idle, ![Worker] = Idle]

(* The daemon dies, or stops on SIGTERM, between two of its calls. *)
Crash ==
  /\ daemon # "down" /\ Fault("crash")
  /\ StopDaemon
  /\ UNCHANGED <<rule, ledger, actor>>

(* The host restarts: its drop set starts empty. *)
Reboot ==
  /\ Fault("reboot")
  /\ rule' = [i \in IPs |-> NoRule]
  /\ daemon' = "down" /\ response' = "disabled" /\ reconciler' = FALSE /\ beat' = 0
  /\ at' = [p \in Procs |-> Idle]
  /\ UNCHANGED <<ledger, actor>>

(* Somebody else empties the set (an administrator's own nft command). *)
RulesLost ==
  /\ Fault("rules")
  /\ rule' = [i \in IPs |-> NoRule]
  /\ UNCHANGED <<ledger, actor, mode, at>>

FirewallGoes ==
  /\ available /\ "avail" \in FaultKinds /\ faults < MaxFaults
  /\ faults' = faults + 1 /\ available' = FALSE
  /\ UNCHANGED <<clock, rule, ledger, actor, mode, at, loss>>

FirewallReturns ==
  /\ ~available /\ available' = TRUE
  /\ UNCHANGED <<clock, faults, rule, ledger, actor, mode, at, loss>>

(* A command is killed before it finishes. *)
CommandKilled(o) ==
  /\ at[o].pc # "idle" /\ Fault("cli")
  /\ Become(o, Idle)
  /\ UNCHANGED <<rule, ledger, actor, mode>>

-----------------------------------------------------------------------------
CreateStep(p) ==
  \/ EnforceBlocks(p) \/ EnforceRefused(p) \/ SaveBan(p)
  \/ ReadActor(p) \/ WriteActor(p)
  \/ EnforceRaises(p) \/ SaveRaises(p)

SyncStep == SyncExpires \/ SyncBlocks \/ SyncFails \/ SyncDone

ReconcileStep(p) ==
  \/ SweepSkips(p) \/ SweepUnblocks(p) \/ MarkExpired(p) \/ ExpireActor(p)
  \/ SweepRaises(p) \/ SweepDone(p)
  \/ ReconcileBegins(p) \/ ReconcileSkipped(p)
  \/ ListRules(p) \/ ExpectBans(p) \/ RestoreBlocks(p) \/ RestoreEnds(p)

MainStep == CreateStep(Main) \/ SaveProfile \/ SyncStep \/ ReconcileStep(Main)
WorkerStep == WorkerTurn \/ ReconcileStep(Worker)
OperatorStep(o) ==
  \/ CreateStep(o)
  \/ UnbanFinds(o) \/ UnbanFindsNothing(o) \/ MarkUnbanned(o) \/ ReleaseActor(o)

Arrivals ==
  \/ \E i \in IPs, r \in RiskStates : EventPasses(i, r) \/ \E d \in Durations : EventIsolates(i, r, d)
  \/ \E o \in Operators, i \in IPs : UnbanCommand(o, i) \/ \E d \in Durations : BanCommand(o, i, d)

Environment ==
  \/ Tick \/ Crash \/ Reboot \/ RulesLost \/ FirewallGoes \/ FirewallReturns
  \/ \E o \in Operators : CommandKilled(o)

Next ==
  \/ MainStep \/ WorkerStep \/ StartDaemon
  \/ \E o \in Operators : OperatorStep(o)
  \/ Arrivals
  \/ Environment

(* Threads that are running keep running, systemd restarts the daemon      *)
(* (Restart=on-failure), nft comes back. Nothing makes events, commands or *)
(* the clock happen.                                                       *)
Fairness ==
  /\ WF_vars(MainStep) /\ WF_vars(WorkerStep)
  /\ \A o \in Operators : WF_vars(OperatorStep(o))
  /\ WF_vars(StartDaemon) /\ WF_vars(FirewallReturns)

Spec == Init /\ [][Next]_vars
FairSpec == Spec /\ Fairness

-----------------------------------------------------------------------------
(* The abstract ban table this specification implements. *)

Phase(status) ==
  CASE status = "absent" -> "new"
    [] status = "active" -> "active"
    [] status \in {"expired", "unbanned"} -> "closed"
    [] OTHER -> "inert"

Ledger == INSTANCE BanLedger WITH
  Ids <- BanId,
  phase <- [b \in BanId |-> Phase(bans[b].status)],
  due <- {b \in BanId : IsExpired(b)},
  asked <- {b \in BanId : \E o \in Operators : at[o].pc = "unbanMark" /\ at[o].ban = b}

(* Whoever races whom, the ban table keeps the promises of BanLedger: no   *)
(* ban comes back into force, and none is closed before its time unless an *)
(* operator is releasing it.                                               *)
ImplementsLedger == Ledger!Spec

-----------------------------------------------------------------------------
Blocked(i) == rule[i] # NoRule
InForce(b) == b \in Active /\ ~IsExpired(b)

(* A kernel rule never comes from nowhere. Whatever blocks an address was   *)
(* put there for a ban of that address that was not refused, simulated or  *)
(* pending; and a rule without a timeout was put there for a permanent ban, *)
(* although startup and reconciliation recompute the seconds from          *)
(* expires_at, where rounding down to 0 would ask nft for "no timeout".    *)
RuleHasCause ==
  \A i \in IPs : Blocked(i) =>
    \E b \in 1..last :
      /\ bans[b].ip = i
      /\ bans[b].status \in {"absent", "active", "expired", "unbanned"}
      /\ rule[i] = Never => bans[b].secs = 0

(* Why RuleHasCause holds. A row, once active, stays settled: active or     *)
(* closed. A process inside create_ban owns a row nobody else creates and  *)
(* that is not stored yet; the rows in a snapshot, and the row a sweep or  *)
(* an unban is about to close, are settled. A row explains a kernel rule   *)
(* if it is settled, or if it is not stored and was not refused.           *)
Settled(b) == bans[b].status \in {"active", "expired", "unbanned"}
Creating == {"enforce", "save"}
Explains(b) ==
  \/ Settled(b)
  \/ /\ bans[b].status = "absent"
     /\ \A p \in Procs : at[p].pc \in Creating /\ at[p].ban = b =>
          at[p].pc = "save" /\ at[p].rec = "active"

TableOK ==
  /\ \A b \in 1..last : bans[b].ip \in IPs /\ (bans[b].secs = 0 <=> bans[b].expires = Never)
  /\ \A b \in BanId : b > last => bans[b] = Unallocated

FrameOK(p, f) ==
  /\ \A b \in f.todo : b <= last /\ Settled(b)
  /\ f.pc \in Creating \union {"readActor", "writeActor"} =>
       /\ f.ip \in IPs /\ f.ban \in 1..last /\ bans[f.ban].ip = f.ip
       /\ f.want \in BanStatus /\ f.rec \in BanStatus
       /\ p = Main => f.risk \in ActorState
  /\ f.pc \in Creating => bans[f.ban].status = "absent"
  /\ f.pc = "enforce" => f.rec = "active"
  /\ f.pc = "writeActor" => f.profile \in ActorState
  /\ f.pc = "profile" => f.ip \in IPs /\ f.risk \in ActorState /\ f.want = None
  /\ f.pc \in {"unbanFind", "unbanMark", "unbanActor"} => f.ip \in IPs
  /\ f.pc \in {"unbanMark", "markExpired", "expireActor"} => f.ban \in 1..last /\ Settled(f.ban)

OneCreator ==
  \A p, q \in Procs :
    at[p].pc \in Creating /\ at[q].pc \in Creating /\ at[p].ban = at[q].ban => p = q

RulesExplained ==
  \A i \in IPs : Blocked(i) =>
    \E b \in 1..last : bans[b].ip = i /\ Explains(b) /\ (rule[i] = Never => bans[b].secs = 0)

CauseInv ==
  /\ TypeOK /\ TableOK
  /\ \A p \in Procs : FrameOK(p, at[p])
  /\ OneCreator
  /\ RulesExplained

(* The response engine asks for an active ban before it creates one, but   *)
(* not in one transaction. With the daemon alone on the database that is   *)
(* enough: an address never has two active bans.                           *)
AtMostOneActiveBan ==
  \A b, c \in Active : bans[b].ip = bans[c].ip => b = c

(* A ban in force is enforced in the kernel, through crashes, restarts and *)
(* failing commands, until the last second of its life, which the rounding *)
(* of the remaining time may cut off. When the set is emptied, by a reboot *)
(* or by somebody else, it holds again once a startup or a reconciliation  *)
(* has looked at the set and put back everything that was missing.         *)
Enforced(b) ==
  \/ rule[bans[b].ip] = Never
  \/ /\ bans[b].expires # Never
     /\ \/ rule[bans[b].ip] > bans[b].expires - Resolution
        \/ clock > bans[b].expires - Resolution
ActiveBanIsEnforced == loss = "none" => \A b \in BanId : InForce(b) => Enforced(b)

(* A rule that is there lasts: whoever put it back last, after whatever    *)
(* has been lost, it does not run out before the last second of the ban.   *)
RuleOutlastsBan ==
  \A b \in BanId : InForce(b) /\ Blocked(bans[b].ip) => Enforced(b)

(* check_expirations works on rows it read some steps ago and unblocks by  *)
(* address. It must not take down the rule of a ban that still runs.       *)
ReleasesOnlyExpired ==
  [][\A p \in {Main, Worker} : at[p].pc # "markExpired" /\ at'[p].pc = "markExpired" =>
       \A c \in ActiveFor(bans[at'[p].ban].ip) : IsExpired(c)]_vars

(* A ban whose time is up does not stay active, whichever calls fail.      *)
ExpiredBanEventuallyClosed ==
  \A b \in BanId : (b \in Active /\ IsExpired(b)) ~> (b \notin Active)

(* When the kernel loses the rule of a ban in force (a reboot, a crash, an *)
(* emptied set), startup or reconciliation puts it back.                   *)
MissingRuleRestored ==
  \A b \in BanId : (InForce(b) /\ ~Blocked(bans[b].ip)) ~> (~InForce(b) \/ Blocked(bans[b].ip))

(* A permanent rule that no active ban explains is taken out again.        *)
LingeringRuleCleared ==
  \A i \in IPs : (rule[i] = Never /\ ActiveFor(i) = {}) ~> (rule[i] = NoRule \/ ActiveFor(i) # {})
=============================================================================

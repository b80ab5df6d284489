--------------------------------- MODULE Host ---------------------------------
(***************************************************************************)
(* One host: the daemon's life from the command line to its last snapshot, *)
(* over and over, with crashes and reboots, on the database, the kernel    *)
(* table, the configuration file and the health file it shares with the    *)
(* commands an administrator runs. The parts are the modules Schema,       *)
(* FirewallTable, HealthState and Configuration; here is the order in      *)
(* which BastionDaemon drives them.                                        *)
(*                                                                         *)
(* main is the main thread of the daemon (BastionDaemon.initialize, run,   *)
(* stop); worker its maintenance thread, of which only what it does to the *)
(* health state matters here: BanLifecycle has its sweeps and              *)
(* reconciliations, DaemonLifecycle the streaming loops and signals.       *)
(***************************************************************************)
EXTENDS Schema, FirewallTable, HealthState, Configuration

CONSTANTS
  ConfigFiles,   \* what the configuration file may hold when it is read: [there, parses, keys]
  Launches,      \* command lines of the daemon: [explicit, dry_run, enforce, mode, source, backend]
  MaxOccasions   \* bound: crashes, reboots, commands, nft

VARIABLES
  main,      \* where the main thread is
  worker,    \* where the maintenance worker is
  launch,    \* the command line of the last start
  config,    \* BastionDaemon.config
  mode,      \* ResponseEngine.default_mode
  backend,   \* BastionDaemon.firewall
  collector, \* BastionDaemon.collector
  restores,  \* there is a reconciler
  inSync,    \* history: the last that was heard from the firewall was good
  late,      \* history: the main thread has stopped waiting for a worker that goes on
  ending,    \* history: how the last daemon ended
  occasions  \* crashes, reboots and what others do, so far

threadVars == <<main, worker>>
configVars == <<launch, config>>
engineVars == <<mode, backend, collector, restores>>
history == <<inSync, late, ending, occasions>>
vars == <<schemaVars, tableVars, healthVars, threadVars, configVars, engineVars, history>>

Daemon == "daemon"
Command == "command"

ASSUME HostConstants ==
  /\ MaxOccasions \in Nat
  /\ DbUsers = {Daemon, Command}
  /\ \A f \in ConfigFiles :
       f.there \in BOOLEAN /\ f.parses \in BOOLEAN /\ NumbersAreNumbers(f.keys)
  /\ \A l \in Launches : l.explicit \in BOOLEAN /\ l.dry_run \in BOOLEAN /\ l.enforce \in BOOLEAN

MainLabel ==
  {"off", "database", "firewall", "nft", "sync", "restore", "assemble", "export", "exporting",
   "running", "join", "close", "final", "leaving"}
WorkerLabel == {"none", "waiting", "turn", "export", "ended"}

NotLaunched == [explicit |-> FALSE, dry_run |-> FALSE, enforce |-> FALSE, mode |-> "none",
                source |-> "none", backend |-> "none"]

(* Every variable keeps the shape its declaration gives it. *)
TypeOK ==
  /\ SchemaTypeOK /\ TableTypeOK /\ HealthTypeOK
  /\ main \in MainLabel /\ worker \in WorkerLabel
  /\ launch \in Launches \union {NotLaunched}
  /\ mode \in Modes \union {"none"} /\ backend \in {"none", "mock", "nftables"}
  /\ collector \in {"none", "journald", "file", "stdin"}
  /\ restores \in BOOLEAN /\ inSync \in BOOLEAN /\ late \in BOOLEAN
  /\ ending \in {"none", "clean", "unsaved", "late", "crash", "raised"}
  /\ occasions \in 0..MaxOccasions

Init ==
  /\ SchemaInit /\ TableInit /\ HealthInit
  /\ main = "off" /\ worker = "none"
  /\ launch = NotLaunched  /\ config = <<>>
  /\ mode = "none" /\ backend = "none" /\ collector = "none" /\ restores = FALSE
  /\ inSync = FALSE /\ late = FALSE /\ ending = "none" /\ occasions = 0

Goto(from, to) == main = from /\ main' = to /\ UNCHANGED worker
Automatic == Value(config, "mode") = "automatic"

-----------------------------------------------------------------------------
(* The start: BastionDaemon() and initialize(). *)

\* Mutant: the values of the flags are not validated, only the file's.
AcceptsFileOnly(l, f) == Loads(l.explicit, f) /\ Valid(Loaded(f))
(* What cannot be loaded or is not valid starts nothing. *)
Accepted(l, f) == Loads(l.explicit, f) /\ Valid(WithFlags(l, Loaded(f)))
StartDaemon ==
  /\ Goto("off", "database")
  /\ \E l \in Launches, f \in ConfigFiles :
       Accepted(l, f) /\ launch' = l /\ config' = WithFlags(l, Loaded(f))
  /\ NewTracker("INITIALIZING")
  /\ ending' = "none"
  /\ UNCHANGED <<schemaVars, tableVars, fileVars, engineVars, inSync, late, occasions>>

(* SQLiteStorage(), with its migrations. *)
OpenStorage ==
  /\ main = "database"
  /\ OpenDatabase(Daemon) \/ ReadVersion(Daemon) \/ ApplyStatement(Daemon)
  /\ UNCHANGED <<tableVars, healthVars, threadVars, configVars, engineVars, history>>

(* A command that is still applying the same scripts is let go first:      *)
(* all it has left to do is repeat what the daemon has done.               *)
StorageReady ==
  /\ Goto("database", "firewall")
  /\ opening[Daemon].pc = "open" /\ opening[Command].pc # "apply"
  /\ SetSubsystemHealth("Database", "HEALTHY")
  /\ UNCHANGED <<schemaVars, tableVars, service, fileVars, configVars, engineVars, history>>

\* Mutant: a status the enumeration does not have.
FirewallStatusText(ok) == IF ok THEN "READY" ELSE IF Automatic THEN "FAILED" ELSE "DEGRADED"
(* What is noted of the firewall, and what is true of it. *)
FirewallStatus(ok) == IF ok THEN "HEALTHY" ELSE IF Automatic THEN "FAILED" ELSE "DEGRADED"
FirewallIs(ok) == inSync' = ok /\ UNCHANGED <<late, ending, occasions>>

(* Asked for, or for want of nft in PATH. *)
ChooseMock ==
  /\ Goto("firewall", "sync")
  /\ backend' = "mock"
  /\ SetSubsystemHealth("Firewall", FirewallStatus(TRUE)) /\ FirewallIs(TRUE)
  /\ UNCHANGED <<schemaVars, tableVars, service, fileVars, configVars, mode, collector, restores>>

ChooseNftables ==
  /\ Value(config, "backend") # "mock"
  /\ Goto("firewall", "nft")
  /\ StartInitialize
  /\ backend' = "nftables"
  /\ UNCHANGED <<schemaVars, healthVars, configVars, mode, collector, restores, history>>

(* nft has gone since it was found. *)
NftablesUnavailable ==
  /\ Value(config, "backend") # "mock"
  /\ Goto("firewall", "sync")
  /\ backend' = "nftables"
  /\ status' = [status EXCEPT !["Firewall"] = FirewallStatus(FALSE),
                              !["Response"] = IF Automatic THEN "DEGRADED" ELSE @]
  /\ FirewallIs(FALSE)
  /\ UNCHANGED <<schemaVars, tableVars, service, fileVars, configVars, mode, collector, restores>>

(* NFTablesBackend.initialize(), for initialize() and sync_on_startup(). *)
InitializeTable ==
  /\ main \in {"nft", "restore"}
  /\ InitializeStep
  /\ UNCHANGED <<schemaVars, healthVars, threadVars, configVars, engineVars, history>>

InitializeReturns ==
  /\ Goto("nft", "sync")
  /\ init.pc \in {"ready", "raised"}
  /\ SetSubsystemHealth("Firewall", FirewallStatus(init.pc = "ready")) /\ FirewallIs(init.pc = "ready")
  /\ UNCHANGED <<schemaVars, tableVars, service, fileVars, configVars, engineVars>>

(* sync_on_startup() initializes once more, its errors ignored. *)
SyncBegins ==
  /\ Goto("sync", "restore")
  /\ init' = IF backend = "nftables" THEN [NotYet EXCEPT !.pc = "check"] ELSE init
  /\ UNCHANGED <<schemaVars, table, disturbed, healthVars, configVars, engineVars, history>>

(* The bans in force are blocked again. *)
SyncBlocks(a) ==
  /\ main = "restore" /\ init.pc \in {"ready", "raised"}
  /\ BlockAddress(a)
  /\ UNCHANGED <<schemaVars, init, disturbed, healthVars, threadVars, configVars, engineVars, history>>

(* A ban that cannot be blocked ends it, and there is no reconciler. *)
SyncEnds ==
  /\ Goto("restore", "assemble")
  /\ init.pc \in {"idle", "ready", "raised"}
  /\ restores' \in BOOLEAN
  /\ UNCHANGED <<schemaVars, tableVars, healthVars, configVars, mode, backend, collector, history>>

(* Detectors, correlation, response engine, pipeline and collector. *)
TelemetryStatus == IF Collector(config) = "journald" THEN {"HEALTHY", "DEGRADED"} ELSE {"HEALTHY"}
Assemble ==
  /\ Goto("assemble", "export")
  /\ mode' = Value(config, "mode") /\ collector' = Collector(config)
  /\ \E t \in TelemetryStatus :
       status' = [status EXCEPT !["Detection"] = "HEALTHY", !["Threat Intel"] = "HEALTHY",
                                !["Response"] = "HEALTHY", !["Telemetry"] = t]
  /\ UNCHANGED <<schemaVars, tableVars, service, fileVars, configVars, backend, restores, history>>

(* _export_health_snapshot, by the main thread. *)
BeginExport ==
  /\ \/ Goto("export", "exporting") /\ UNCHANGED ending
     \/ Goto("final", "leaving") /\ ending' = "none"
  /\ BeginSave("main")
  /\ UNCHANGED <<schemaVars, tableVars, trackerVars, configVars, engineVars, inSync, late, occasions>>

-----------------------------------------------------------------------------
(* run(). *)

(* The worker is started. *)
Run ==
  /\ main = "exporting" /\ saving["main"].pc = "idle"
  /\ main' = "running" /\ worker' = "waiting"
  /\ SetServiceState("RUNNING")
  /\ UNCHANGED <<schemaVars, tableVars, status, fileVars, configVars, engineVars, history>>

(* An isolation. What is released again does not matter here. *)
EventBlocks(a) ==
  /\ main = "running" /\ backend = "nftables" /\ mode = "automatic"
  /\ BlockAddress(a)
  /\ UNCHANGED <<schemaVars, init, disturbed, healthVars, threadVars, configVars, engineVars, history>>

(* An event that cannot be processed; journalctl that fails, for good      *)
(* after max_collector_retries; its next attempt.                          *)
EventFails ==
  /\ main = "running"
  /\ RecordSubsystemError("Detection")
  /\ UNCHANGED <<schemaVars, tableVars, service, fileVars, threadVars, configVars, engineVars, history>>
CollectorFails ==
  /\ main = "running" /\ collector = "journald"
  /\ \/ RecordSubsystemError("Telemetry")
     \/ SetSubsystemHealth("Telemetry", "DEGRADED")
  /\ UNCHANGED <<schemaVars, tableVars, service, fileVars, threadVars, configVars, engineVars, history>>
CollectorReconnects ==
  /\ main = "running" /\ collector = "journald"
  /\ SetSubsystemHealth("Telemetry", "HEALTHY")
  /\ UNCHANGED <<schemaVars, tableVars, service, fileVars, threadVars, configVars, engineVars, history>>

\* Mutant: assigned first, validated afterwards.
ReloadedUnchecked(f) == IF Loads(launch.explicit, f) THEN Loaded(f) ELSE config
(* The configuration after SIGHUP: the file's, without the flags the       *)
(* daemon was started with, or the old one.                                *)
Reloaded(f) == IF Loads(launch.explicit, f) /\ Valid(Loaded(f)) THEN Loaded(f) ELSE config
\* Mutant: "apply live updates" includes the mode.
ReloadWithMode ==
  /\ main = "running"
  /\ \E f \in ConfigFiles : config' = Reloaded(f) /\ mode' = Value(Reloaded(f), "mode")
  /\ UNCHANGED <<schemaVars, tableVars, healthVars, threadVars, launch, backend, collector, restores, history>>
ReloadConfig ==
  /\ main = "running"
  /\ \E f \in ConfigFiles : config' = Reloaded(f)
  /\ UNCHANGED <<schemaVars, tableVars, healthVars, threadVars, launch, engineVars, history>>

(* The maintenance worker: a reconciliation, an export, or neither. It     *)
(* looks at the stop event between turns only.                             *)
Stopping == main \in {"join", "close", "final", "leaving"}
WorkerGoto(from, to) == worker = from /\ worker' = to /\ UNCHANGED main
WorkerWakes ==
  /\ IF Stopping THEN WorkerGoto("waiting", "ended") ELSE WorkerGoto("waiting", "turn")
  /\ UNCHANGED <<schemaVars, tableVars, healthVars, configVars, engineVars, history>>
(* nft may fail, and the database is closed under a worker that is late. *)
WorkerReconciles ==
  /\ worker = "turn" /\ restores
  /\ \/ SetSubsystemHealth("Firewall", "HEALTHY") /\ FirewallIs(TRUE)
     \/ /\ backend = "nftables" \/ main \in {"final", "leaving"}
        /\ SetSubsystemHealth("Firewall", "DEGRADED") /\ FirewallIs(FALSE)
  /\ UNCHANGED <<schemaVars, tableVars, service, fileVars, threadVars, configVars, engineVars>>
WorkerSkipsExport ==
  /\ WorkerGoto("turn", "waiting")
  /\ UNCHANGED <<schemaVars, tableVars, healthVars, configVars, engineVars, history>>
WorkerExports ==
  /\ WorkerGoto("turn", "export")
  /\ BeginSave("worker")
  /\ UNCHANGED <<schemaVars, tableVars, trackerVars, configVars, engineVars, history>>
WorkerTurnEnds ==
  /\ WorkerGoto("export", "waiting") /\ saving["worker"].pc = "idle"
  /\ UNCHANGED <<schemaVars, tableVars, healthVars, configVars, engineVars, history>>

(* save_to_file by either thread. *)
SaveSnapshot(t) ==
  /\ SaveStep(t)
  /\ UNCHANGED <<schemaVars, tableVars, trackerVars, threadVars, configVars, engineVars, history>>
SnapshotLost(t) ==
  /\ SaveFails(t)
  /\ ending' = IF t = "main" THEN "unsaved" ELSE ending
  /\ UNCHANGED <<schemaVars, tableVars, trackerVars, threadVars, configVars, engineVars, inSync, late, occasions>>

-----------------------------------------------------------------------------
(* stop(), on a signal or at the end of the stream. *)

StopDaemon ==
  /\ Goto("running", "join")
  /\ SetServiceState("STOPPING")
  /\ UNCHANGED <<schemaVars, tableVars, status, fileVars, configVars, engineVars, history>>

\* Mutant: the worker is not waited for.
JoinNobody ==
  /\ Goto("join", "close")
  /\ UNCHANGED <<schemaVars, tableVars, healthVars, configVars, engineVars, history>>
(* For two seconds. *)
Join ==
  /\ Goto("join", "close")
  /\ late' = (worker # "ended")
  /\ UNCHANGED <<schemaVars, tableVars, healthVars, configVars, engineVars, inSync, ending, occasions>>

\* Mutant: the state is set after the snapshot is taken.
CloseStorageAsStopping ==
  /\ Goto("close", "final")
  /\ CloseDatabase(Daemon)
  /\ UNCHANGED <<tableVars, healthVars, configVars, engineVars, history>>
CloseStorage ==
  /\ Goto("close", "final")
  /\ CloseDatabase(Daemon)
  /\ SetServiceState("STOPPED")
  /\ UNCHANGED <<tableVars, status, fileVars, configVars, engineVars, history>>

(* The process and what it holds are gone; its temporary file keeps the    *)
(* name of a process that will not come back.                              *)
ProcessEnds ==
  /\ main' = "off" /\ worker' = "none"
  /\ mode' = "none" /\ backend' = "none" /\ collector' = "none" /\ restores' = FALSE
  /\ init' = NotYet
  /\ launch' = NotLaunched /\ config' = <<>>
  /\ NewTracker("STARTING")
  /\ tmpFile' = "none" /\ saving' = [t \in Threads |-> Idle]
  /\ inSync' = FALSE /\ late' = FALSE
  /\ UNCHANGED published

Exit ==
  /\ main = "leaving" /\ saving["main"].pc = "idle"
  /\ ProcessEnds
  /\ ending' = IF late THEN "late" ELSE IF ending = "unsaved" THEN "unsaved" ELSE "clean"
  /\ UNCHANGED <<schemaVars, table, disturbed, occasions>>

(* initialize() raises: the process ends without stop(). *)
StorageFails ==
  /\ main = "database"
  /\ AbortOpening(Daemon)
  /\ ProcessEnds
  /\ ending' = "raised"
  /\ UNCHANGED <<table, disturbed, occasions>>

-----------------------------------------------------------------------------
(* What else happens on the host. *)

Occasion == occasions < MaxOccasions /\ occasions' = occasions + 1

(* SIGKILL; also a SIGTERM or SIGHUP before the handlers are set. *)
Crash ==
  /\ main # "off" /\ Occasion
  /\ ProcessEnds
  /\ ending' = "crash"
  /\ opening' = [opening EXCEPT ![Daemon] = Closed]
  /\ UNCHANGED <<tables, versions, table, disturbed>>

(* Every process ends, the kernel's table with them. *)
Reboot ==
  /\ Occasion
  /\ IF main = "off" THEN UNCHANGED <<healthVars, threadVars, configVars, engineVars, init, ending, inSync, late>>
     ELSE ProcessEnds /\ ending' = "crash"
  /\ table' = NoTable /\ disturbed' = TRUE
  /\ opening' = [p \in DbUsers |-> Closed]
  /\ UNCHANGED <<tables, versions>>

(* Somebody else's `nft flush ruleset`. *)
RulesetFlushed ==
  /\ Occasion
  /\ LoseTable
  /\ UNCHANGED <<schemaVars, healthVars, threadVars, configVars, engineVars, inSync, late, ending>>

(* A command opens the database, and may be killed while it does. *)
CommandBegins ==
  /\ Occasion
  /\ OpenDatabase(Command)
  /\ UNCHANGED <<tableVars, healthVars, threadVars, configVars, engineVars, inSync, late, ending>>
CommandGoesOn ==
  /\ \/ ReadVersion(Command) \/ ApplyStatement(Command)
     \/ AbortOpening(Command) \/ CloseDatabase(Command)
  /\ UNCHANGED <<tableVars, healthVars, threadVars, configVars, engineVars, history>>
(* `bastion firewall flush`. *)
CommandFlushes ==
  /\ CloseDatabase(Command)
  /\ FlushTable
  /\ UNCHANGED <<healthVars, threadVars, configVars, engineVars, history>>

StartNext ==
  \/ StartDaemon \/ OpenStorage \/ StorageReady \/ StorageFails
  \/ ChooseMock \/ ChooseNftables \/ NftablesUnavailable \/ InitializeTable \/ InitializeReturns
  \/ SyncBegins \/ SyncEnds \/ (\E a \in Addresses : SyncBlocks(a)) \/ Assemble \/ BeginExport
RunNext ==
  \/ Run \/ EventFails \/ CollectorFails \/ CollectorReconnects \/ ReloadConfig
  \/ (\E a \in Addresses : EventBlocks(a))
  \/ \E t \in Threads : SaveSnapshot(t) \/ SnapshotLost(t)
WorkerNext ==
  WorkerWakes \/ WorkerReconciles \/ WorkerSkipsExport \/ WorkerExports \/ WorkerTurnEnds
StopNext == StopDaemon \/ Join \/ CloseStorage \/ Exit
HostNext ==
  \/ Crash \/ Reboot \/ RulesetFlushed
  \/ CommandBegins \/ CommandGoesOn \/ CommandFlushes
Next == StartNext \/ RunNext \/ WorkerNext \/ StopNext \/ HostNext

Spec == Init /\ [][Next]_vars

-----------------------------------------------------------------------------
(* Whatever the file holds and the flags say, and whatever SIGHUP finds    *)
(* later, a daemon runs with a configuration its threads can work with:    *)
(* the worker does not divide by zero (runner.py:454), an attempt to open  *)
(* the journal is followed by a pause (589), a ban lasts (policy.py:88).   *)
UsableInForce == main # "off" => Usable(config)

(* A daemon that was started with --dry-run blocks nothing, also after     *)
(* SIGHUP has read a file that says otherwise (runner.py:308, 593).        *)
DryRunHolds == launch.dry_run => mode \in {"none", "dry_run"}

(* The published snapshot is a whole one (state.py:299-303), unless the    *)
(* worker has outlived the two seconds stop() waits for it.                *)
PublishedIsWhole == [][published' # published /\ ~Readable(published') => late]_vars

(* A daemon that was stopped, waited for its worker and could write leaves *)
(* a snapshot that says so: the worker's last export does not outlive the  *)
(* main thread's (runner.py:630-642).                                      *)
LastWordIsStopped ==
  main = "off" /\ ending = "clean" => published = "STOPPED"

(* HEALTHY is only said of a daemon that is set up, that has heard nothing *)
(* bad from the firewall when it last asked, and whose database is open    *)
(* until stop() closes it (state.py:244-257).                              *)
HealthyIsBacked ==
  main # "off" /\ Overall(service, status) = "HEALTHY" =>
    /\ mode # "none" /\ inSync
    /\ main \notin {"close", "final", "leaving"} => opening[Daemon].pc = "open"
=============================================================================

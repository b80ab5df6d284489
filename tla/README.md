# A verification of B.A.S.T.I.O.N.

B.A.S.T.I.O.N. is a host-based intrusion response daemon. It follows the
journal of `sshd`, turns lines into security events, detects attacks, scores
their sources, and blocks them in the kernel with `nftables`. This directory
holds TLA+ specifications of its core, the configurations that model-check
them with TLC, and theorems about them that TLAPS checks. `PROJECT.json` lists
components, runs, theorems, findings and hazards, and maps every definition to
the lines it models. Paths below are relative to `src/src/bastion/`.

## 1. The system

### Components

| component | state | operations |
|---|---|---|
| **Runner** `daemon/runner.py` | `_running`, `_stop_event`, error counter, the worker thread and its counter, the reconciler (or `None`) | `initialize`, `run`, `stop`, the journal loop, signal handlers, `reload_config`, the worker's turn |
| **Collectors** `infrastructure/telemetry/` | the `journalctl` child and the lock that guards it | `stream`, `read`, `stop` |
| **Normalisation** `.../adapters/` | none | a line becomes a `SecurityEvent`, or nothing |
| **Detectors** `detection/` | one deque per source address and detector, in memory | `evaluate`, `reset` |
| **Risk engine** `risk/scorer.py` | none: old profile in, new profile out | `evaluate` |
| **Policy** `response/policy.py` | none | `evaluate` |
| **Response engine** `response/engine.py` | none | `process` |
| **Ban manager** `response/ban_manager.py` | none of its own | `create_ban`, `unban`, `check_expirations`, `sync_on_startup` |
| **Reconciler** `daemon/reconciliation.py` | none of its own | `reconcile` |
| **Storage** `storage/sqlite.py` | the tables `events`, `threat_actors`, `bans`, `iocs`, `incidents`, `response_audits`, ... | one transaction per method |
| **Firewall** `firewall/` | the kernel's table, chain, rules and sets | `initialize`, `block_ip`, `unblock_ip`, `list_blocked_ips`, `flush` |
| **Health** `daemon/state.py` | service state, subsystem states, counters, a JSON file | setters, `save_to_file` |
| **Migrations** `storage/migrations.py` | the tables there are, the rows of `schema_version` | two scripts, run by whoever opens the database |
| **Configuration** `config.py` | the file, the flags, the configuration in force | `load_config`, `validate_config`, overrides |
| **Correlation, incidents, intelligence** `correlation/`, `incidents/`, `intelligence/` | the deduplication cache; rows of the database | `correlate`, create and update incidents, add, match and delete indicators |
| **Audit, experimental actions** `response/` | rows of `response_audits` | `block_ip`, `contain_account`, `terminate_session` |
| **CLI** `cli.py`, `services/` | none: each invocation is a process | `daemon`, `monitor`, `ban`, `unban`, `incident`, `ioc`, `db init`, `firewall flush`, queries |

### Interaction

The daemon has two threads. The *main thread* initialises, then reads lines
and sends each through `SentinelPipeline.process_raw`: save the event, match
indicators, run the detectors, read the profile, score it, let the response
engine decide and ban, write the profile back, correlate. The *maintenance
worker* wakes every second, sweeps expired bans every fifth turn, and
reconciles database and kernel every `reconciliation_interval_seconds`. Each
`bastion ban` or `unban` is a *process* of its own, and `bastion monitor` is a
second pipeline, without a correlation engine. Analysts and curators change
incidents and indicators from the command line. All of them share the SQLite
file and the kernel, and the daemon publishes a health file that the commands
read; nothing else is shared, and no lock spans two calls. Whoever opens the
database migrates it first. SIGHUP makes the daemon read its configuration
file again. Signal handlers run on the main thread, on top of
whatever it does.

### What is hard

* Several steps of several processes on shared rows: look up, then create; read
  a whole row, then write it; take a snapshot, then act on it by address.
* Two stores, database and kernel, with no transaction over both, and a crash,
  a failing command or a failing statement between any two calls.
* Time: bans run out in the database and, independently, in the kernel;
  remaining times are rounded; timestamps of events come from log lines.
* A handler that re-enters the code it interrupted.
* Retries, reconnections and restarts, and the memory that they lose.

The list with lines is under `hazards` in `PROJECT.json`.

### What makes each component correct

* *Bans*: a rule in the kernel has a cause; a ban in force is enforced; one
  active ban per address; nothing released before its time; what has run out
  gets closed; what the kernel lost comes back.
* *Pipeline*: no alarm without the events for it, no attack missed; no failure
  charged that was not observed; no isolation without a cause.
* *Runner and collector*: the process ends when told to, only after a complete
  shutdown, leaving no child; every failure of the stream leads to a new one.
* *Incidents and indicators*: no evidence is lost; an analyst's status is not
  undone, an address has one active incident and an indicator one row, unless
  two commands overlap; severity and score of an incident agree.
* *Schema*: a version is entered when its tables are there, and whoever has opened
  the database finds them all.
* *Kernel table*: after `initialize()`, an address that is listed is dropped.
* *Configuration*: what is in force can be worked with, and a dry run stays one.
* *Health*: a published snapshot is whole, the last one says STOPPED, and HEALTHY has
  a reason.

## 2. Modules

| module | models | composed with |
|---|---|---|
| `BanLifecycle` | bans: database, kernel, main thread, worker, CLI processes | refines `BanLedger` |
| `BanLedger` | what the ban table promises, abstractly | |
| `BanLifecycleProofs` | theorems about `BanLifecycle` | |
| `EnforcementProofs` | a ban in force is enforced | extends `BanLifecycleProofs` |
| `BanLedgerProofs` | `BanLifecycle` implements `BanLedger` | extends `BanLifecycleProofs` |
| `ThreatPipeline` | events, detectors, score, policy, profile | |
| `ThreatPipelineProofs` | theorems about `ThreatPipeline` | |
| `DaemonLifecycle` | main thread as a stack of frames, signals, `journalctl` | |
| `DaemonLifecycleProofs` | theorems about `DaemonLifecycle` | |
| `Investigation` | incidents and indicators: daemon, analysts, curators | |
| `InvestigationProofs` | theorems about `Investigation` | |
| `Schema` | tables, versions, processes that migrate | part of `Host` |
| `FirewallTable` | the `nft` table and `initialize()` | part of `Host` |
| `HealthState` | subsystem states, the snapshot file and its two writers | part of `Host` |
| `Configuration` | defaults, validation, overrides, what is computed from them | part of `Host` |
| `Host` | the daemon from command line to exit, over and over, driving the four | extends them |
| `HostProofs` | theorems about `Host` and its parts | |
| `MC*` | constants and small values for TLC | |

**One step is one call.** A storage method commits when it returns, and an `nft`
command is atomic, so in `BanLifecycle` and `ThreatPipeline` a step is one such
call and the local work up to the next. `at[p]` holds where process `p` is and
its local variables.

### BanLifecycle

`rule[i]` is the kernel element of address `i`: none, permanent, or until a
clock value; `Tick` removes it in time, as the kernel does. `bans[b]` are the
rows, `actor[i]` the state column of the profile. `create_ban` is four steps:
`EnforceBlocks` (or `EnforceRefused`), `SaveBan`, `ReadActor`, `WriteActor`;
`EnforceRaises` and `SaveRaises` are the response engine's exception path,
which records a second, failed ban. The sweep, the reconciliation and the startup
synchronisation read once (`StartSweep`, `ExpectBans`, `StartDaemon`) and then
work through `todo`, one call a step. `beat` is the worker's counter. Operators
are command-line processes. `ReAddRefreshes` leaves open whether the kernel
renews the timeout of an element that is added again. Faults are a failing
`nft` or SQLite call, `nft` disappearing, rules lost, crash, reboot, and a
command killed; `FaultKinds` selects which. `loss` is history: the kernel set has been emptied, by a reboot
or by somebody else (`new`); a startup or a reconciliation has looked since, while nobody was between
`block_ip` and `save_ban` (`Looks`, `known`); one has then got through all it had to put back (`MakesUp`, `none`).

### ThreatPipeline

`events` is the table; a row is known by its number. `window[p][d][i]` is the
deque of a detector, as a set of row numbers; `ExpireOld` drops old entries as the
code does, from the left while they are outside the window. `Charge`, `SignalScore` and `Decide` are the score and
the policy, with the code's weights. `Rewriters` stand for everybody else who
writes whole rows of `threat_actors` (sweep, `ban`, `unban`); `Restart` empties
the deques; `Abandon` is an exception contained by the loop. `seen` is history.

### DaemonLifecycle

`stack` holds the frames of the main thread: `run()` with the generator of
`stream()` inlined, and a `stop()` on top for the `finally` clause and every
signal. Only the top frame moves. `lock` is the depth of the frame that holds the
collector's lock; a frame above that wants it never goes on, which is how Python's `threading.Lock`
behaves. `missed` and `inARow` are history. The locks inside `threading.Event`
and `logging` are not modelled.

### Investigation

`incidents[n]` is a row joined with its links, `iocs[k]` the value of an indicator.
The daemon's event goes through `MatchAddress`, `MatchUser`, `Find`, then
`OpenIncident`, or `Fetch` and `UpdateIncident`; `SaveIncident` is the upsert, which
replaces the row and only ever adds links. `Canon` is the normalisation of values.
`BreakOff` is an exception or a kill between two calls. History variables note
overlaps: `missed`, the incidents analysts wrote since the daemon last read;
`unseen` and `blind`, the values inserted behind a curator's back. The properties
say that *nothing but* such an overlap opens a second incident, undoes a status or
duplicates an indicator: the overlaps are real, as no transaction spans look-up and save.

### Host and its parts

`Schema`: `opening[p]` is how far process `p` is with the scripts; a step is one
statement, as `executescript` runs in autocommit. `FirewallTable`: sets, chain,
rules and elements, and the steps of `initialize()` between `nft` calls, each of
which may fail. `HealthState`: `saving[t]` is thread `t` in `save_to_file`, with
the file its handle refers to, which changes when the file is renamed under it; a
snapshot is reduced to its service state. `Configuration`: a configuration is a
function from the keys that differ from the defaults. Its numbers are integers: TOML also has
fractions, infinities and `nan`, and of these `nan` passes every `<= 0` of `validate_config`.

`Host` runs `StartDaemon`, `OpenStorage`, `ChooseMock` or `ChooseNftables`, the two
initialisations of the table, `Assemble`, `Run`, then `StopDaemon`, `Join`,
`CloseStorage`, `Exit`, beside a worker that reconciles and exports, a command on the
same database, and crashes, reboots and foreign flushes. What the
configuration file holds is chosen whenever it is read. Simplifications: from its third
error a subsystem is degraded, by a count that is left open; a command still applying scripts
when the daemon is done is let finish or break off first (`StorageReady`), as it can only repeat what is
there; releases of addresses are in `BanLifecycle`; `probe_live_health` only reads.

## 3. Runs

| run | asks | instance |
|---|---|---|
| `ban_daemon` | the daemon alone: `TypeOK`, `RuleHasCause`, `AtMostOneActiveBan`, `ActiveBanIsEnforced`, `RuleOutlastsBan`, `ReleasesOnlyExpired` | 1 address, 2 bans, half-second ticks to 2.5 s, 2 faults, reboots and lost rules among them |
| `ban_operator` | daemon and a command: `CauseInv`, and `ImplementsLedger` | 1 address, 1 operator, 2 bans, 1 s, 1 killed command, two modes |
| `ban_recovery` | after any one fault: `ExpiredBanEventuallyClosed`, `MissingRuleRestored` | 1 address, 2 bans, 1.5 s, all faults of the daemon, kernel keeps old timeouts |
| `ban_sweep_race` | refutes `ReleasesOnlyExpired` with an operator | no fault |
| `ban_lingering` | refutes `LingeringRuleCleared` | no fault, permanent bans only |
| `ban_startup` | refutes `MissingRuleRestored` | one failing `nft`, one reboot |
| `threat_pipeline` | `TypeOK`, `SignalsSound`, `SignalsComplete`, `FailuresBacked`, `IsolationJustified` | 2 sources, 3 events, 4 detectors with windows of 1 and 2 s and thresholds of 2, timestamps back by 1 s, 1 rewriter, 1 fault |
| `daemon_lifecycle` | `TypeOK`, `ExitIsClean`, `NoWorkAfterClose`, `CleanSignalExits`, `Reconnects` | both kinds of source, 2 signals |
| `investigation` | `TypeOK`, `OpensOnlyIfNone`, `StatusIsAnalysts`, `FiledIsOnRecord`, `SeverityBacked`, `OneRowPerIndicator`, `EvidenceKept` | 1 address in 2 spellings, 1 account, 1 analyst, 2 curators, 2 incidents, 2 indicators, 4 commands |
| `host` | `TypeOK`, `VersionIsEarned`, `SchemaReady`, `InitializedMeansEnforcing`, `InitializeKeepsElements`, `UsableInForce`, `DryRunHolds`, `PublishedIsWhole`, `LastWordIsStopped`, `HealthyIsBacked` | 4 initial schemas, 4 tables, 4 configuration files, 2 command lines, 1 address, 1 occasion |
| `daemon_shutdown` | refutes `SignalExits` | 1 signal |
| `daemon_backoff` | refutes `BackoffIsExponential` | failures counted to 3 |

**Why the bounds are enough.** Addresses interact only through the order in
which one process works on them, never through shared rows, so one address with
two bans shows every race of the ban table; the
proofs cover any number. Two ticks a second make the rounding of the remaining
time visible, and 2.5 s lets a 1 s ban be created, run out and be followed by
another. Two faults reach an exception inside an exception path and a crash
after a failing call. Three events are one more than the thresholds and let the
middle one be old, future or abandoned. Two signals are enough for one stop() to
interrupt another, and for both to meet the `finally` clause; a third frame on top does nothing a
second could not.

In `investigation` two curators and an analyst beside the daemon
give every pair of writers of a row; a third could only repeat what one of the two does, and the proofs
cover any number. Two incidents and two indicators are the least with which a duplicate
exists; two events, one strong and one weak, make severity and score part.
In `host` an *occasion* is a crash, a reboot, a foreign flush or a command. With one
per behaviour each of them meets every state of the daemon, which itself starts and stops without
bound; two crashes in a row lead to states that one of them reaches from another initial schema or table,
which is why those are chosen incomplete.

**Deadlock** is checked wherever the system goes on for ever. `DaemonLifecycle`
turns it off: the process exits.

### Fairness

`BanLifecycle`: threads that can move do (`WF` for main thread, worker and each
operator), systemd restarts the daemon (`Restart=on-failure` in the unit file),
and `nft` comes back. Time, events, commands and faults are never promised, and
faults are bounded, so the liveness properties say what holds once faults end.
`DaemonLifecycle`: the main thread is scheduled; what a dead `journalctl` left in
the pipe is finite (`SF` on `JournalEnds`); `journalctl` can be started sooner or
later (`SF` on `OpenStream`, needed by `Reconnects` alone). No line is ever promised:
a quiet host logs nothing, and that is what makes the window between `Popen` and
registration matter.

`Investigation` and `Host` state no fairness: all they promise is safety.

### What the violations show

* `ban_sweep_race`: the sweep unblocks by address from a stale snapshot; a ban
  created meanwhile loses its rule, which only a later reconciliation restores.
* `ban_lingering`: an unban between reconcile's reads and its `block_ip` is undone
  at the kernel. Lingering rules are counted, never removed, and a permanent
  one stays.
* `ban_startup`: sync and reconciler share one `try`; one failing command at
  startup leaves no reconciler for the whole run.
* `daemon_shutdown`: a signal inside the collector's lock waits for its own
  thread. The same happens when a second SIGTERM or Ctrl-C comes in the up to
  three seconds in which `JournaldCollector.stop` waits for its child with the lock held.
  `Deaf` lists all such windows, also the one before `_stop_event.clear()`.
* `daemon_backoff`: the counter is reset by every attempt, so every wait is the
  first one.

## 4. Proofs

TLAPS proves, for all values of the constants that satisfy `ConstantsOK`:

**`BanLifecycleProofs`**: `CauseInvariant`, `TypeCorrect`, `RulesHaveCauses`, `OneBanAtATime`,
`OnlyExpiredReleased`.
`RuleHasCause` is not inductive: a process about to call `block_ip` must
already own a row that will explain the rule, and a process about to re-block
from a snapshot must hold rows that were active once. `CauseInv` says so. Rows
once active stay *settled* (active, expired or unbanned), every `todo` holds
settled rows (`FrameOK`), a row being created belongs to one process
(`OneCreator`) and is not stored yet, and every rule is explained by such a row
(`RulesExplained`); seconds and expiry of a row agree (`TableOK`), which with
the clamp to 1 s keeps a temporary ban from becoming a permanent rule. There is
one lemma per action. The last two assume `Operators = {}`, as they are about a daemon that has the
database to itself (with a command running, `ban_sweep_race` refutes the second). `AloneInv` adds that the answer of the response engine's look-up is still true
while its ban is being created (`LookedUp`) and that the worker never creates; every other step
leaves at most the active rows there were (`NothingNew`). `SweepInv` adds that startup is over before the
worker begins (`OneKeeper`), so that the rows of a snapshot not yet treated are still active: only the
sweep that took it closes any. An expired row of the snapshot is then the only active one of its address.

**`EnforcementProofs`**: `EnforcementInvariant`, from which `BansAreEnforced` and `RulesOutlastBans` follow, on
top of `CauseInv`, `AloneInv` and `SweepInv`, for any number of addresses, bans, failing calls, crashes, reboots
and times somebody empties the set. The assumption `Undisturbed` names what they rest on: no commands
(`ban_sweep_race` shows why), and a kernel that renews the timeout of an element added again (in
`ban_recovery` it need not, and a rule may then run out too early).
`ActiveBanIsEnforced` is not inductive, and `EnforceInv` adds what it leans on. The rule
comes before the row, so a ban needs its rule already while it is about to be stored (`Recording`).
Rules are put back for a duration computed at an earlier time, from a clock that has only gone on, for rows
that are still active (`SnapshotOK`); rounding down to seconds loses less than one second
(`RemainingIsEnough`), and a term never exceeds the requested seconds counted from now (`ClockInv`). A ban
that lacks its rule (`Lacking`) lacks it altogether, never for a part of its term: this is `RuleOutlastsBan`.
After the set was emptied, every pass that looks takes on all that is missing, and until its end each
ban that lacks its rule is still before it (`Owed`): not in the set it has listed, or
among the rows it has yet to put back; an empty `todo` then means there is none. A step of a
thread shields what was enforced (`Shielding`, `Careful`); the two that overwrite or remove a rule, putting
one back and sweeping one away, do so for an address whose one active ban (`AtMostOneActiveBan`,
`LookedUp`) is that very row, or has expired.

One condition of `Looks` came out of the failed proof without it, and TLC confirmed the trace: if the set
is emptied after `block_ip` (`ban_manager.py:58`) and before `save_ban`, a reconciliation that reads the table
in between does not see the new ban, ends as healthy, and leaves it without its rule until the next one.

**`BanLedgerProofs`**: `LedgerImplemented`. The refinement maps a row to its
phase (active, closed, ...), to whether its term is over and to whether an
operator has asked for its release; each action is then a step of the ledger or
a stutter. It needs `CauseInv` and one invariant more, `AllReady`: a row a process
is about to mark expired has expired (the check was made in an earlier step,
and time only helps), and a row about to be stored is not closed. It covers
crashes and restarts of the daemon, which the `ban_operator` run leaves out.

**`ThreatPipelineProofs`**: `PipelineInvariant`, from which follow
`PipelineTypeCorrect`, `NoFalseAlarm`, `NoMissedAlarm`, `IsolationHasCause` and
`FailuresAreOnRecord`. The deque of a detector lies between `MustCount` (events
shown that no later one has put outside the window) and the shown
events that count; the bounded skew of the stream places them within `MayCount`. For
the counters, an event that is saved but not scored is *pending*: no counter, stored
or held by a process, exceeds the failures that are not pending, so
charging the pending event keeps it below the failures on record, and whoever
writes back an old row writes a number that was below them already. The table only grows.

**`InvestigationProofs`**: `InvestigationInvariant`, from which follow `TypeCorrect`,
`SecondIncidentOnlyByOverlap`, `StatusUndoneOnlyByOverlap`, `FiledStaysOnRecord`,
`SeverityIsBacked`, `DuplicateOnlyByOverlap` and `EvidencePersists`. The properties speak of
rows; what keeps them true is in the locals of the processes. `DaemonFrame` says that the incident
the daemon has found still involves the address and that its copy holds the matched indicators;
`CopiesBacked` that an old copy of a row, written back at any time, carries its severity;
`InsertionsMissed` that a row a curator does not know of is one whose insertion it missed. `Grows`, that rows and
links are never lost, is proved for every step and used by the others. There is a lemma per process and part of the invariant, with a
step per action.

**`DaemonLifecycleProofs`**: `LifecycleInvariant`, from which follow `LifecycleTypes`, `ExitsCleanly` and
`NoLateWork`, for any number of signals. `StackInv` ties the lock to labels: the frame at depth `k` is at a label that holds
the lock exactly when `lock = k`, so a frame that is blocked stays blocked and nobody
else releases the lock. `CloseInv` says what a `stop()` that has come so far has done,
which is what makes the innermost one speak for those it interrupted; `StopInv`, that what undoes it
(`_running = True` and the cleared event) happens only before, or is noted in `missed`. The proof has one step
shape for `run()`, alone on the stack, and one for `stop()` at the top; each action is shown to be one of them.

**`HostProofs`**: `HostInvariant`, a conjunction of one part per component, from which
follow `TypeCorrect`, `VersionEarned`, `SchemaIsReady`, `InitializedEnforces`, `ElementsKept`,
`DryRunStays`, `ConfigurationUsable`, `WholeSnapshots`, `LastWord` and `HealthyHasReason`. For each part a *classes* lemma says
which of the host's many actions touch it, and another that those keep it.
`SchemaInv`: a process in the middle of a script has the earlier scripts' tables and those of the lines
behind it, and nobody takes tables away, so two processes that run the same script help each
other. `TableInv`: what `initialize()` has listed is still there unless somebody disturbed the
table. `ModeInv`: the flag is in the configuration until `Assemble` has taken the mode from it, and SIGHUP reaches the configuration but not the
mode. It also says that the configuration in force is valid and holds numbers where numbers are compared
(`NumbersAreNumbers`, assumed of every file, kept by the flags), and `ValidIsUsable` that a valid configuration is
usable: the checks of `validate_config` are enough for the worker's division, the exponential pauses and the order of
the ban durations. `HealthInv`: each HEALTHY status has its reason. `FileInv`: the two threads never
save at the same time while the worker is not late, so a temporary file being written is this thread's own,
and the main thread's last snapshot is taken after the worker has ended. The assumption on
tables (`FamilyOK`) only says that a table that is not there is empty.

The runs check the invariants (`CauseInv` in `ban_operator`), so the proofs and TLC speak of
the same formulas.

**Only model-checked**: the liveness properties (`ExpiredBanEventuallyClosed`, `MissingRuleRestored`,
`CleanSignalExits`, `Reconnects`), as liveness under fairness is beyond the prover. Every invariant and every action
property of the runs is proved.

## 5. Not modelled

* *Text*: the regular expressions and dates of the adapters, TOML syntax, validation of
  spellings of addresses and domains (`Canon` is a constant), alerts, reports, logs, tables.
* *What is written and never read back to decide*: timeline entries, score history, the lists of user names
  and services in a profile, `related_incidents`, the alert deduplication
  (its verdict is not used), confidence and expiry dates of indicators, event counters of the
  health file. `probe_live_health` and the other queries only read.
* *What nothing calls*: `ExperimentalResponseCoordinator` and the audit rows it writes; the
  legacy `collector/` package and `pipeline.py`.
* *The journal itself*: which lines `journalctl -n 10` replays after a reconnection and
  which it skips. To the modules behind the collector a replayed line is one more event, as
  it is to the code.
* *Installer and unit file*: shell scripts that copy files; a stop timeout or a restart of systemd is a
  crash and a start.

### Noticed on the way

No property is about these, as none needs more than one line to see:

* `NFTablesBackend.flush` says "Flush elements from both blacklist sets"; the elements stay, only the rules go.
* A detector that is switched off in the configuration is handed over as `None`, and
  `DetectionEngine` puts a default one in its place (`detection/engine.py:25-28`).
* `bastion incident inspect` reads `actor_ids` and `ioc_ids`, which `Incident` has not
  (`cli.py:857-860`); `bastion attack <id>` reads `mitre_url` where the registry has `url`.
* The thresholds and weights under `[risk]` are validated and never handed to `RiskEngine`.
* Flags of the command line are forgotten at the first SIGHUP; the mode is not, as nobody reads it again.
* Only the daemon validates its configuration; the other commands use what they load.

## 6. Plan

Done: all modules of section 2 and their proofs. Left, in this order:

1. `JournalStream`: the journal, the position of `journalctl`, replay and loss on
   reconnection, in front of the windows of `ThreatPipeline`.

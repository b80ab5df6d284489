--------------------------- MODULE DaemonLifecycle ---------------------------
(***************************************************************************)
(* One run of `bastion daemon`, from initialize() to the end of the        *)
(* process: the main thread, the journalctl it reads from, and the signal  *)
(* handlers that stop it.                                                  *)
(*                                                                         *)
(* Python runs a signal handler on the main thread, on top of whatever     *)
(* that thread is doing, also while it blocks in a read, a wait or the     *)
(* acquisition of a lock. So the thread is a stack: run() at the bottom,   *)
(* with the stream generator inlined, and a stop() on top of it for the    *)
(* `finally` clause and for every signal. Only the top frame moves. The    *)
(* collector's lock is a threading.Lock: a frame that finds it taken by a  *)
(* frame below waits for ever.                                             *)
(*                                                                         *)
(* The maintenance worker is the business of BanLifecycle; stop() waits    *)
(* for it two seconds at most, and goes on.                                *)
(***************************************************************************)
EXTENDS Integers, Sequences

CONSTANTS
  Sources,      \* config.telemetry.source: "journald", or "stream" (stdin and files)
  MaxSignals,   \* bound: SIGTERMs and SIGINTs
  MaxRow,       \* bound: failures in a row that are counted
  RetryAfter    \* config.daemon.journal_retry_backoff_seconds

VARIABLES
  stack,        \* the frames of the main thread, the running one last
  source,       \* where the telemetry comes from
  state,        \* HealthTracker.service_state
  running,      \* BastionDaemon._running
  stopEvent,    \* BastionDaemon._stop_event
  storage,      \* the SQLite connection
  child,        \* the journalctl of the current stream: "none", "alive" or "dead"
  active,       \* JournaldCollector._active_proc is that process
  lock,         \* depth of the frame that holds JournaldCollector._lock, or 0
  raised,       \* the generator is being left by an exception
  errors,       \* BastionDaemon._consecutive_collector_errors
  inARow,       \* history: streams that failed since one delivered a line
  signals,      \* signals received
  missed,       \* history: a signal came when it could not be acted upon
  exited        \* the process is gone

process == <<source, exited>>
flags == <<state, running, stopEvent, storage>>
journal == <<child, active, lock, raised>>
counters == <<errors, inARow>>
history == <<signals, missed>>
vars == <<stack, process, flags, journal, counters, history>>

ASSUME ConstantsOK ==
  /\ Sources \subseteq {"journald", "stream"}
  /\ MaxSignals \in Nat /\ MaxRow \in Nat \ {0} /\ RetryAfter \in Nat \ {0}

ServiceState == {"STARTING", "INITIALIZING", "RUNNING", "STOPPING", "STOPPED"}
RunLabel == {"init", "mark", "clear", "announce", "loop", "open", "register", "registered",
             "read", "item", "reap", "unregister", "unregistered", "terminate", "except",
             "backoff", "exit"}
StopLabel == {"stop", "stopLock", "stopTerm", "stopJoin", "stopClose", "stopDone"}

(* Every variable keeps the shape its declaration gives it. *)
TypeOK ==
  /\ stack \in Seq(RunLabel \union StopLabel) /\ Len(stack) \in 1..(MaxSignals + 2)
  /\ source \in Sources
  /\ state \in ServiceState
  /\ running \in BOOLEAN /\ stopEvent \in BOOLEAN
  /\ storage \in {"none", "open", "closed"}
  /\ child \in {"none", "alive", "dead"}
  /\ active \in BOOLEAN /\ lock \in 0..Len(stack) /\ raised \in BOOLEAN
  /\ errors \in 0..MaxRow /\ inARow \in 0..MaxRow
  /\ signals \in 0..MaxSignals /\ missed \in BOOLEAN /\ exited \in BOOLEAN

Init ==
  /\ stack = <<"init">> /\ source \in Sources
  /\ state = "STARTING" /\ running = FALSE /\ stopEvent = FALSE /\ storage = "none"
  /\ child = "none" /\ active = FALSE /\ lock = 0 /\ raised = FALSE
  /\ errors = 0 /\ inARow = 0 /\ signals = 0 /\ missed = FALSE /\ exited = FALSE

Top == stack[Len(stack)]
At(label) == ~exited /\ Top = label
Goto(label) == stack' = [stack EXCEPT ![Len(stack)] = label]
(* The frame below goes on where it was. *)
Return == stack' = SubSeq(stack, 1, Len(stack) - 1)

Acquire == lock = 0 /\ lock' = Len(stack)
Release == lock' = 0
Stopping == stopEvent \/ ~running

-----------------------------------------------------------------------------
(* run(), before the first line is read. *)

(* initialize() and _setup_signal_handlers(). *)
Initialize ==
  /\ At("init") /\ Goto("mark")
  /\ state' = "INITIALIZING" /\ storage' = "open"
  /\ UNCHANGED <<process, running, stopEvent, journal, counters, history>>

MarkRunning ==
  /\ At("mark") /\ Goto("clear")
  /\ running' = TRUE
  /\ UNCHANGED <<process, state, stopEvent, storage, journal, counters, history>>

\* Mutant: the daemon is marked as running after the event is cleared.
ClearThenMark ==
  /\ At("clear") /\ Goto("announce")
  /\ stopEvent' = FALSE /\ running' = TRUE
  /\ UNCHANGED <<process, state, storage, journal, counters, history>>
ClearStopEvent ==
  /\ At("clear") /\ Goto("announce")
  /\ stopEvent' = FALSE
  /\ UNCHANGED <<process, state, running, storage, journal, counters, history>>

(* The worker thread is started here, too. *)
Announce ==
  /\ At("announce") /\ Goto(IF source = "journald" THEN "loop" ELSE "read")
  /\ state' = "RUNNING"
  /\ UNCHANGED <<process, running, stopEvent, storage, journal, counters, history>>

(* The `finally` clause of run(). *)
Finally == stack' = <<"exit", "stop">>

Exit ==
  /\ At("exit")
  /\ exited' = TRUE
  /\ UNCHANGED <<stack, source, flags, journal, counters, history>>

-----------------------------------------------------------------------------
(* _run_journal_stream_loop() with JournaldCollector.stream(). *)

LoopEnds ==
  /\ At("loop") /\ Stopping
  /\ Finally
  /\ UNCHANGED <<process, flags, journal, counters, history>>

(* Every attempt resets the error counter. *)
LoopAgain ==
  /\ At("loop") /\ ~Stopping
  /\ Goto("open")
  /\ errors' = 0 /\ raised' = FALSE
  /\ UNCHANGED <<process, flags, child, active, lock, inARow, history>>

OpenStream ==
  /\ At("open") /\ Goto("register")
  /\ child' = "alive"
  /\ UNCHANGED <<process, flags, active, lock, raised, counters, history>>

(* journalctl is not there, or cannot be started. *)
OpenFails ==
  /\ At("open")
  /\ Goto("except") \/ Goto("unregister")
  /\ raised' = TRUE
  /\ UNCHANGED <<process, flags, child, active, lock, counters, history>>

Register ==
  /\ At("register") /\ Goto("registered")
  /\ Acquire
  /\ UNCHANGED <<process, flags, child, active, raised, counters, history>>

Registered ==
  /\ At("registered") /\ Goto("read")
  /\ active' = TRUE /\ Release
  /\ UNCHANGED <<process, flags, child, raised, counters, history>>

(* A line arrives; a journalctl that has ended may have left some in the pipe. *)
ReadLine ==
  /\ At("read") /\ Goto("item")
  /\ inARow' = 0
  /\ UNCHANGED <<process, flags, journal, errors, history>>

(* What the line holds is processed; whatever that raises is contained. *)
ProcessItem ==
  /\ At("item") /\ ~Stopping
  /\ Goto("read")
  /\ UNCHANGED <<process, flags, journal, counters, history>>

(* The loop over the stream is left, and the generator closed. *)
BreakOff ==
  /\ At("item") /\ Stopping
  /\ IF source = "journald" THEN Goto("unregister") ELSE Finally
  /\ UNCHANGED <<process, flags, journal, counters, history>>

JournalEnds ==
  /\ At("read") /\ source = "journald" /\ child = "dead"
  /\ Goto("unregister")
  /\ UNCHANGED <<process, flags, journal, counters, history>>

(* A file ends where it ends, standard input whenever its writer closes it. *)
InputEnds ==
  /\ At("read") /\ source # "journald"
  /\ Finally
  /\ UNCHANGED <<process, flags, journal, counters, history>>

(* Reading raises (a line that is not UTF-8): journalctl is terminated. *)
ReadFails ==
  /\ At("read") /\ source = "journald"
  /\ Goto("reap")
  /\ raised' = TRUE
  /\ UNCHANGED <<process, flags, child, active, lock, counters, history>>

Reap ==
  /\ At("reap") /\ Goto("unregister")
  /\ child' = "dead"
  /\ UNCHANGED <<process, flags, active, lock, raised, counters, history>>

Unregister ==
  /\ At("unregister") /\ Goto("unregistered")
  /\ Acquire
  /\ UNCHANGED <<process, flags, child, active, raised, counters, history>>

Unregistered ==
  /\ At("unregistered") /\ Goto("terminate")
  /\ active' = FALSE /\ Release
  /\ UNCHANGED <<process, flags, child, raised, counters, history>>

\* Mutant: the finally clause of the generator leaves the process alone.
TerminateNothing ==
  /\ At("terminate") /\ Goto(IF raised THEN "except" ELSE "loop")
  /\ UNCHANGED <<process, flags, journal, counters, history>>
Terminate ==
  /\ At("terminate") /\ Goto(IF raised THEN "except" ELSE "loop")
  /\ child' = "none"
  /\ UNCHANGED <<process, flags, active, lock, raised, counters, history>>

Lesser(a, b) == IF a < b THEN a ELSE b

CountError ==
  /\ At("except") /\ ~Stopping
  /\ Goto("backoff")
  /\ errors' = Lesser(errors + 1, MaxRow) /\ inARow' = Lesser(inARow + 1, MaxRow)
  /\ UNCHANGED <<process, flags, journal, history>>

GiveUp ==
  /\ At("except") /\ Stopping
  /\ Finally
  /\ UNCHANGED <<process, flags, journal, counters, history>>

\* Mutant: a failed stream is not retried.
BackOffEnds ==
  /\ At("backoff") /\ Finally
  /\ UNCHANGED <<process, flags, journal, counters, history>>
(* The wait ends after Delay(errors) seconds or with the stop event. *)
BackOff ==
  /\ At("backoff") /\ Goto("loop")
  /\ UNCHANGED <<process, flags, journal, counters, history>>

Delay(n) == Lesser(60, RetryAfter * 2 ^ Lesser(n - 1, 4))

-----------------------------------------------------------------------------
(* stop(), with JournaldCollector.stop(). *)

\* Mutant: stop() does not look at the service state.
StopReturnsIfNotRunning ==
  /\ At("stop") /\ ~running
  /\ Return
  /\ UNCHANGED <<process, flags, journal, counters, history>>
StopReturns ==
  /\ At("stop") /\ ~running /\ state = "STOPPED"
  /\ Return
  /\ UNCHANGED <<process, flags, journal, counters, history>>

StopBegins ==
  /\ At("stop") /\ ~(~running /\ state = "STOPPED")
  /\ Goto(IF source = "journald" THEN "stopLock" ELSE "stopJoin")
  /\ running' = FALSE /\ stopEvent' = TRUE /\ state' = "STOPPING"
  /\ UNCHANGED <<process, storage, journal, counters, history>>

StopLocks ==
  /\ At("stopLock") /\ Goto("stopTerm")
  /\ Acquire
  /\ UNCHANGED <<process, flags, child, active, raised, counters, history>>

\* Mutant: the process is forgotten, not terminated.
StopForgets ==
  /\ At("stopTerm") /\ Goto("stopJoin")
  /\ active' = FALSE /\ Release
  /\ UNCHANGED <<process, flags, child, raised, counters, history>>
\* Mutant: the lock is not released.
StopKeepsLock ==
  /\ At("stopTerm") /\ Goto("stopJoin")
  /\ child' = IF active /\ child = "alive" THEN "dead" ELSE child
  /\ active' = IF active /\ child = "alive" THEN FALSE ELSE active
  /\ UNCHANGED <<process, flags, lock, raised, counters, history>>
StopTerminates ==
  /\ At("stopTerm") /\ Goto("stopJoin")
  /\ child' = IF active /\ child = "alive" THEN "dead" ELSE child
  /\ active' = IF active /\ child = "alive" THEN FALSE ELSE active
  /\ Release
  /\ UNCHANGED <<process, flags, raised, counters, history>>

StopJoins ==
  /\ At("stopJoin") /\ Goto("stopClose")
  /\ UNCHANGED <<process, flags, journal, counters, history>>

StopCloses ==
  /\ At("stopClose") /\ Goto("stopDone")
  /\ storage' = "closed"
  /\ UNCHANGED <<process, state, running, stopEvent, journal, counters, history>>

StopEnds ==
  /\ At("stopDone") /\ Return
  /\ state' = "STOPPED"
  /\ UNCHANGED <<process, running, stopEvent, storage, journal, counters, history>>

-----------------------------------------------------------------------------
(* Signals and journalctl. *)

(* Where a signal finds the daemon unable to act upon it: before           *)
(* `_running = True` and `_stop_event.clear()` undo what stop() did; when  *)
(* journalctl is about to run but stop() cannot find it yet; and while the *)
(* lock is held below.                                                     *)
Deaf == {"mark", "open", "register", "registered", "unregistered", "stopTerm"}

Signal ==
  /\ ~exited /\ Top # "init" /\ signals < MaxSignals
  /\ stack' = Append(stack, "stop")
  /\ signals' = signals + 1
  /\ missed' = (missed \/ Top \in Deaf)
  /\ UNCHANGED <<process, flags, journal, counters>>

JournalctlDies ==
  /\ child = "alive"
  /\ child' = "dead"
  /\ UNCHANGED <<stack, process, flags, active, lock, raised, counters, history>>

-----------------------------------------------------------------------------
(* What the main thread does of its own accord, without waiting for a line. *)
Main ==
  \/ Initialize \/ MarkRunning \/ ClearStopEvent \/ Announce
  \/ LoopEnds \/ LoopAgain \/ OpenStream \/ Register \/ Registered
  \/ ProcessItem \/ BreakOff \/ JournalEnds \/ Reap
  \/ Unregister \/ Unregistered \/ Terminate \/ CountError \/ GiveUp \/ BackOff
  \/ StopReturns \/ StopBegins \/ StopLocks \/ StopTerminates \/ StopJoins \/ StopCloses
  \/ StopEnds \/ Exit

Next ==
  \/ Main
  \/ ReadLine \/ InputEnds \/ OpenFails \/ ReadFails
  \/ JournalctlDies \/ Signal

Spec == Init /\ [][Next]_vars

(* The thread is scheduled. What a dead journalctl left in the pipe is      *)
(* finite, so its end is read; and journalctl can be started sooner or      *)
(* later, an assumption about the machine that only Reconnects rests on.    *)
(* No line is ever promised: a quiet host logs nothing.                     *)
FairSpec == Spec /\ WF_vars(Main) /\ SF_vars(JournalEnds) /\ SF_vars(OpenStream)

-----------------------------------------------------------------------------
(* Properties. *)

Between == {"loop", "open", "except", "backoff", "exit"}

(* run() does not return before stop() has run to its end (STOPPED, the     *)
(* storage closed), however many signals interrupted one another; and no    *)
(* journalctl outlives its stream, not even one that a stop() had missed:   *)
(* there is none when the next one is opened, and none after the exit.      *)
ExitIsClean ==
  /\ exited => state = "STOPPED" /\ storage = "closed"
  /\ stack[1] \in Between => child # "alive"

(* No line is handed to the pipeline once stop() has closed the storage,    *)
(* unless the signal came in a window that daemon_shutdown shows.           *)
NoWorkAfterClose ==
  Top = "item" /\ ~Stopping => storage = "open" \/ missed

(* A signal that stop() can act upon ends a daemon that follows the         *)
(* journal, even if no line ever arrives again: stop() kills the journalctl *)
(* the main thread is blocked on, and no retry or reconnection follows.     *)
CleanSignalExits == (signals > 0 /\ ~missed /\ source = "journald") ~> (exited \/ missed)

(* The daemon gets over every failure of the journal: a stream that ended,  *)
(* failed or could not be opened is replaced, until it is told to stop.     *)
Reconnects == (source = "journald" /\ child # "alive") ~> (child = "alive" \/ signals > 0)

(* Refuted. Any SIGTERM or SIGINT ends a daemon that follows the journal. *)
SignalExits == (signals > 0 /\ source = "journald") ~> exited

(* Refuted. The wait before a reconnection grows with the failures in a row. *)
BackoffIsExponential == At("backoff") => Delay(errors) = Delay(inARow)

=============================================================================

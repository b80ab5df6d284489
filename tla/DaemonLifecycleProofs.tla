------------------------- MODULE DaemonLifecycleProofs -------------------------
(***************************************************************************)
(* What DaemonLifecycle guarantees for any number of signals, whichever of *)
(* them interrupts which stop(): its types, that the process ends only     *)
(* after a complete shutdown and leaves no journalctl, and that no line is *)
(* processed on a closed storage unless a signal came in a window that     *)
(* undoes what its stop() did.                                             *)
(***************************************************************************)
EXTENDS DaemonLifecycle, TLAPS

Holder == {"registered", "unregistered", "stopTerm"}
Early == {"init", "mark", "clear", "announce"}
Streaming ==
  {"register", "registered", "read", "item", "reap", "unregister", "unregistered", "terminate"}
Label == RunLabel \union StopLabel

(* run() is at the bottom, stop() above it, once for each signal and once  *)
(* for the `finally` clause; and the lock is where the labels say.         *)
StackInv ==
  /\ stack \in Seq(Label) /\ Len(stack) >= 1
  /\ stack[1] \in RunLabel
  /\ \A k \in 2..Len(stack) : stack[k] \in StopLabel
  /\ Len(stack) <= signals + (IF stack[1] = "exit" THEN 2 ELSE 1)
  /\ lock \in 0..Len(stack)
  /\ \A k \in 1..Len(stack) : stack[k] \in Holder <=> lock = k

ScalarTypes ==
  /\ source \in Sources /\ state \in ServiceState
  /\ running \in BOOLEAN /\ stopEvent \in BOOLEAN
  /\ storage \in {"none", "open", "closed"} /\ child \in {"none", "alive", "dead"}
  /\ active \in BOOLEAN /\ raised \in BOOLEAN
  /\ errors \in 0..MaxRow /\ inARow \in 0..MaxRow
  /\ signals \in 0..MaxSignals /\ missed \in BOOLEAN /\ exited \in BOOLEAN

(* A journalctl that runs belongs to a stream that is open. *)
ChildInv ==
  /\ child = "alive" => source = "journald" /\ stack[1] \in Streaming
  /\ source # "journald" => stack[1] \in Early \union {"read", "item", "exit"}

(* What a stop() that has come so far has done. *)
CloseInv ==
  /\ storage = "none" => stack[1] = "init"
  /\ \A k \in 2..Len(stack) : stack[k] = "stopDone" => storage = "closed"
  /\ state = "STOPPED" => storage = "closed"
  /\ Len(stack) = 1 /\ stack[1] = "exit" => state = "STOPPED"
  /\ exited => state = "STOPPED"

(* What undoes it has been noted. *)
StopInv ==
  ~missed =>
    /\ Len(stack) > 1 => stack[1] \notin {"init", "mark"}
    /\ \A k \in 2..Len(stack) : stack[k] # "stop" => ~running
    /\ storage = "closed" => ~running /\ stack[1] \notin {"init", "mark"}


-----------------------------------------------------------------------------
(* The stack.                                                              *)

LEMMA Labels ==
  /\ RunLabel \intersect StopLabel = {} /\ Holder \subseteq Label
  /\ {"exit"} \union Early \union Streaming \union {"loop", "open", "except", "backoff"} = RunLabel
  /\ Early \intersect Streaming = {} /\ "exit" \notin Streaming /\ "exit" \notin Early
BY DEF RunLabel, StopLabel, Holder, Label, Early, Streaming

LEMMA Depths == \A n \in Nat \ {0} : (n = 1 \/ n > 1) /\ (n > 1 => n \in 2..n)
OBVIOUS

LEMMA TopOf ==
  ASSUME StackInv
  PROVE  /\ Len(stack) \in Nat \ {0} /\ Top \in Label
         /\ Top \in RunLabel => Len(stack) = 1 /\ Top = stack[1]
         /\ Top \in StopLabel => Len(stack) > 1
         /\ \A k \in 1..Len(stack) : stack[k] \in Label
<1>1. Len(stack) \in Nat \ {0} /\ \A k \in 1..Len(stack) : stack[k] \in Label
  BY DEF StackInv
<1>2. Top \in Label /\ Top = stack[Len(stack)]
  BY <1>1 DEF Top
<1>3. stack[1] \in RunLabel /\ \A k \in 2..Len(stack) : stack[k] \in StopLabel
  BY DEF StackInv
<1>4. CASE Len(stack) = 1
  BY <1>1, <1>2, <1>3, <1>4, Labels
<1>5. CASE Len(stack) # 1
  <2>1. Len(stack) \in 2..Len(stack) /\ Len(stack) > 1
    <3>1. Len(stack) \in Nat \ {0}
      BY <1>1
    <3>. QED BY <1>5, <3>1, Depths
  <2>2. Top \in StopLabel /\ Top \notin RunLabel
    BY <1>2, <1>3, <2>1, Labels
  <2>. QED BY <1>1, <1>2, <1>5, <2>1, <2>2
<1>. QED BY <1>4, <1>5

LEMMA GotoShape ==
  ASSUME StackInv, NEW b \in Label, Goto(b)
  PROVE  /\ stack' \in Seq(Label) /\ Len(stack') = Len(stack)
         /\ stack'[Len(stack)] = b
         /\ \A k \in 1..Len(stack) : k # Len(stack) => stack'[k] = stack[k]
BY TopOf DEF StackInv, Goto

LEMMA ReturnShape ==
  ASSUME StackInv, Top \in StopLabel, Return
  PROVE  /\ stack' \in Seq(Label) /\ Len(stack') = Len(stack) - 1
         /\ \A k \in 1..(Len(stack) - 1) : stack'[k] = stack[k]
BY TopOf DEF StackInv, Return

LEMMA PushShape ==
  ASSUME StackInv, stack' = Append(stack, "stop")
  PROVE  /\ stack' \in Seq(Label) /\ Len(stack') = Len(stack) + 1
         /\ stack'[Len(stack) + 1] = "stop"
         /\ \A k \in 1..Len(stack) : stack'[k] = stack[k]
BY TopOf, Labels DEF StackInv, Label, StopLabel

(* The frame that moves takes the lock, leaves it, or has nothing to do    *)
(* with it.                                                                *)
LEMMA StackGoto ==
  ASSUME StackInv, NEW b, Goto(b), b # "exit", Top # "exit", UNCHANGED signals,
         (Top \in RunLabel /\ b \in RunLabel) \/ (Top \in StopLabel /\ b \in StopLabel),
         \/ Top \notin Holder /\ b \notin Holder /\ lock' = lock
         \/ Top \in Holder /\ b \notin Holder /\ lock' = 0
         \/ Top \notin Holder /\ b \in Holder /\ lock = 0 /\ lock' = Len(stack)
  PROVE  StackInv'
<1>. DEFINE n == Len(stack)
<1>1. b \in Label /\ n \in Nat \ {0} /\ Top = stack[n]
  BY TopOf DEF Label, Top
<1>2. /\ stack' \in Seq(Label) /\ Len(stack') = n /\ stack'[n] = b
      /\ \A k \in 1..n : k # n => stack'[k] = stack[k]
  BY <1>1, GotoShape
<1>3. stack'[1] \in RunLabel /\ \A k \in 2..n : stack'[k] \in StopLabel
  BY <1>1, <1>2, TopOf DEF StackInv
<1>4. n <= signals + (IF stack'[1] = "exit" THEN 2 ELSE 1)
  <2>1. stack'[1] # "exit" <=> stack[1] # "exit"
    BY <1>1, <1>2
  <2>. QED BY <2>1 DEF StackInv
<1>5. lock' \in 0..n
  BY <1>1 DEF StackInv
<1>6. \A k \in 1..n : stack'[k] \in Holder <=> lock' = k
  <2>. SUFFICES ASSUME NEW k \in 1..n PROVE stack'[k] \in Holder <=> lock' = k
    OBVIOUS
  <2>1. stack[k] \in Holder <=> lock = k
    BY DEF StackInv
  <2>2. stack[n] \in Holder <=> lock = n
    BY <1>1 DEF StackInv
  <2>3. CASE k = n
    BY <1>1, <1>2, <2>2, <2>3
  <2>4. CASE k # n
    BY <1>1, <1>2, <2>1, <2>2, <2>4
  <2>. QED BY <2>3, <2>4
<1>. QED BY <1>2, <1>3, <1>4, <1>5, <1>6 DEF StackInv

LEMMA StackReturn ==
  ASSUME StackInv, Top \in StopLabel, Top \notin Holder, Return, UNCHANGED <<signals, lock>>,
         signals \in Nat
  PROVE  StackInv'
<1>. DEFINE n == Len(stack)
<1>1. n \in Nat /\ n > 1 /\ Top = stack[n]
  BY TopOf DEF Top
<1>2. /\ stack' \in Seq(Label) /\ Len(stack') = n - 1
      /\ \A k \in 1..(n - 1) : stack'[k] = stack[k]
  BY ReturnShape
<1>3. lock # n /\ lock \in 0..n
  BY <1>1 DEF StackInv
<1>. QED BY <1>1, <1>2, <1>3 DEF StackInv

LEMMA StackFinally ==
  ASSUME StackInv, Top \in RunLabel, Top # "exit", Top \notin Holder, Finally,
         UNCHANGED <<signals, lock>>, ScalarTypes
  PROVE  StackInv'
<1>1. Len(stack) = 1 /\ lock = 0
  BY TopOf DEF StackInv
<1>2. /\ Len(stack') = 2 /\ stack'[1] = "exit" /\ stack'[2] = "stop"
      /\ stack' \in Seq(Label)
  BY DEF Finally, Label, RunLabel, StopLabel
<1>3. signals \in Nat
  BY ConstantsOK DEF ScalarTypes
<1>. QED BY <1>1, <1>2, <1>3 DEF StackInv, Holder, RunLabel, StopLabel

LEMMA StackPush ==
  ASSUME StackInv, ScalarTypes, Signal
  PROVE  StackInv'
<1>. DEFINE n == Len(stack)
<1>1. n \in Nat \ {0} /\ signals \in Nat
  BY TopOf, ConstantsOK DEF ScalarTypes
<1>2. /\ stack' \in Seq(Label) /\ Len(stack') = n + 1 /\ stack'[n + 1] = "stop"
      /\ \A k \in 1..n : stack'[k] = stack[k]
  BY PushShape DEF Signal
<1>3. signals' = signals + 1 /\ lock' = lock
  BY DEF Signal, journal
<1>4. "stop" \in StopLabel /\ "stop" \notin Holder
  BY DEF StopLabel, Holder
<1>5. \A k \in 1..(n + 1) : stack'[k] \in Holder <=> lock' = k
  BY <1>1, <1>2, <1>3, <1>4 DEF StackInv
<1>6. \A k \in 2..(n + 1) : stack'[k] \in StopLabel
  BY <1>1, <1>2, <1>4 DEF StackInv
<1>. QED BY <1>1, <1>2, <1>3, <1>5, <1>6 DEF StackInv

-----------------------------------------------------------------------------
(* The types of everything else.                                           *)

LEMMA LesserRange ==
  ASSUME NEW n \in 0..MaxRow
  PROVE  Lesser(n + 1, MaxRow) \in 0..MaxRow
BY ConstantsOK DEF Lesser

LEMMA ScalarsPreserved == ASSUME StackInv, ScalarTypes, [Next]_vars PROVE ScalarTypes'
<1>. USE DEF ScalarTypes, process, flags, journal, counters, history, ServiceState
<1>1. CASE UNCHANGED vars
  BY <1>1 DEF vars
<1>2. CASE Initialize \/ MarkRunning \/ ClearStopEvent \/ Announce
  BY <1>2 DEF Initialize, MarkRunning, ClearStopEvent, Announce
<1>0. 0 \in 0..MaxRow
  BY ConstantsOK
<1>3. CASE LoopEnds \/ LoopAgain \/ OpenStream \/ OpenFails
  BY <1>0, <1>3 DEF LoopEnds, LoopAgain, OpenStream, OpenFails
<1>4. CASE Register \/ Registered \/ ReadLine \/ ProcessItem \/ BreakOff
  BY <1>0, <1>4 DEF Register, Registered, ReadLine, ProcessItem, BreakOff
<1>5. CASE JournalEnds \/ InputEnds \/ ReadFails \/ Reap \/ Unregister \/ Unregistered
  BY <1>5 DEF JournalEnds, InputEnds, ReadFails, Reap, Unregister, Unregistered
<1>6. CASE Terminate \/ GiveUp \/ BackOff \/ Exit
  BY <1>6 DEF Terminate, GiveUp, BackOff, Exit
<1>7. CASE CountError
  BY <1>7, LesserRange DEF CountError
<1>8. CASE StopReturns \/ StopBegins \/ StopLocks \/ StopJoins \/ StopCloses \/ StopEnds
  BY <1>8 DEF StopReturns, StopBegins, StopLocks, StopJoins, StopCloses, StopEnds
<1>9. CASE StopTerminates
  BY <1>9 DEF StopTerminates
<1>10. CASE Signal
  <2>1. signals' \in 0..MaxSignals /\ missed' \in BOOLEAN
    BY <1>10, ConstantsOK DEF Signal
  <2>. QED BY <1>10, <2>1 DEF Signal
<1>11. CASE JournalctlDies
  BY <1>11 DEF JournalctlDies
<1>. QED BY <1>1, <1>2, <1>3, <1>4, <1>5, <1>6, <1>7, <1>8, <1>9, <1>10, <1>11 DEF Next, Main

-----------------------------------------------------------------------------
(* run(), alone on the stack.                                              *)

RestInv == ChildInv /\ CloseInv /\ StopInv
LifeInv == StackInv /\ ScalarTypes /\ RestInv

(* run() goes from a to b. *)
RunStep(a, b) ==
  /\ At(a) /\ Goto(b) /\ UNCHANGED <<source, exited, signals, missed>>
  /\ a # "exit" /\ b \notin {"exit", "init"}
  /\ \/ a \notin Holder /\ b \notin Holder /\ lock' = lock
     \/ a \in Holder /\ b \notin Holder /\ lock' = 0
     \/ a \notin Holder /\ b \in Holder /\ Acquire
  /\ child' = "alive" => source = "journald" /\ b \in Streaming
  /\ source # "journald" => b \in Early \union {"read", "item"}
  /\ storage' # "none"
  /\ state' = "STOPPED" => storage' = "closed"
  /\ ~missed /\ storage' = "closed" => ~running' /\ b # "mark"

LEMMA RunGoes ==
  ASSUME LifeInv, NEW a \in RunLabel, NEW b \in RunLabel, RunStep(a, b)
  PROVE  StackInv' /\ RestInv'
<1>. USE DEF LifeInv
<1>1. Top = a /\ Len(stack) = 1 /\ stack[1] = a /\ ~exited
  BY TopOf DEF RunStep, At
<1>2. Len(stack') = 1 /\ stack'[1] = b
  BY <1>1, GotoShape DEF RunStep, Label
<1>3. StackInv'
  BY <1>1, StackGoto DEF RunStep, Acquire
<1>4. ChildInv'
  BY <1>2 DEF RunStep, ChildInv
<1>5. CloseInv'
  BY <1>1, <1>2 DEF RunStep, CloseInv
<1>6. StopInv'
  BY <1>2 DEF RunStep, StopInv
<1>. QED BY <1>3, <1>4, <1>5, <1>6 DEF RestInv

(* What is known when run() is at a. *)
LEMMA RunAt ==
  ASSUME LifeInv, NEW a \in RunLabel, At(a)
  PROVE  /\ Len(stack) = 1 /\ stack[1] = a /\ ~exited
         /\ child = "alive" => source = "journald" /\ a \in Streaming
         /\ source # "journald" => a \in Early \union {"read", "item", "exit"}
         /\ storage = "none" => a = "init"
         /\ state = "STOPPED" => storage = "closed"
         /\ ~missed /\ storage = "closed" => ~running /\ a \notin {"init", "mark"}
<1>1. Top = a /\ Len(stack) = 1 /\ stack[1] = a /\ ~exited
  BY TopOf DEF At, LifeInv
<1>. QED BY <1>1 DEF LifeInv, RestInv, ChildInv, CloseInv, StopInv

LEMMA RunStarts ==
  ASSUME LifeInv, Initialize \/ MarkRunning \/ ClearStopEvent \/ Announce
  PROVE  StackInv' /\ RestInv'
<1>. USE DEF process, flags, journal, counters, history, RunStep, Holder, Early, Streaming, RunLabel
<1>1. CASE Initialize
  <2>1. RunStep("init", "mark")
    BY <1>1, RunAt DEF Initialize
  <2>. QED BY <2>1, RunGoes
<1>2. CASE MarkRunning
  <2>1. RunStep("mark", "clear")
    BY <1>2, RunAt DEF MarkRunning
  <2>. QED BY <2>1, RunGoes
<1>3. CASE ClearStopEvent
  <2>1. RunStep("clear", "announce")
    BY <1>3, RunAt DEF ClearStopEvent
  <2>. QED BY <2>1, RunGoes
<1>4. CASE Announce
  <2>1. RunStep("announce", IF source = "journald" THEN "loop" ELSE "read")
    BY <1>4, RunAt DEF Announce
  <2>. QED BY <2>1, RunGoes
<1>. QED BY <1>1, <1>2, <1>3, <1>4
LEMMA StreamOpens ==
  ASSUME LifeInv, LoopAgain \/ OpenStream \/ Register \/ Registered \/ ReadLine \/ ProcessItem
  PROVE  StackInv' /\ RestInv'
<1>. USE DEF process, flags, journal, counters, history, RunStep, Holder, Early, Streaming, RunLabel
<1>1. CASE LoopAgain
  <2>1. RunStep("loop", "open")
    BY <1>1, RunAt DEF LoopAgain
  <2>. QED BY <2>1, RunGoes
<1>2. CASE OpenStream
  <2>1. RunStep("open", "register")
    BY <1>2, RunAt DEF OpenStream
  <2>. QED BY <2>1, RunGoes
<1>3. CASE Register
  <2>1. RunStep("register", "registered")
    BY <1>3, RunAt DEF Register
  <2>. QED BY <2>1, RunGoes
<1>4. CASE Registered
  <2>1. RunStep("registered", "read")
    BY <1>4, RunAt DEF Registered
  <2>. QED BY <2>1, RunGoes
<1>5. CASE ReadLine
  <2>1. RunStep("read", "item")
    BY <1>5, RunAt DEF ReadLine
  <2>. QED BY <2>1, RunGoes
<1>6. CASE ProcessItem
  <2>1. RunStep("item", "read")
    BY <1>6, RunAt DEF ProcessItem
  <2>. QED BY <2>1, RunGoes
<1>. QED BY <1>1, <1>2, <1>3, <1>4, <1>5, <1>6

LEMMA StreamCloses ==
  ASSUME LifeInv, JournalEnds \/ ReadFails \/ Reap \/ Unregister \/ Unregistered \/ Terminate \/ CountError \/ BackOff
  PROVE  StackInv' /\ RestInv'
<1>. USE DEF process, flags, journal, counters, history, RunStep, Holder, Early, Streaming, RunLabel
<1>1. CASE JournalEnds
  <2>1. RunStep("read", "unregister")
    BY <1>1, RunAt DEF JournalEnds
  <2>. QED BY <2>1, RunGoes
<1>2. CASE ReadFails
  <2>1. RunStep("read", "reap")
    BY <1>2, RunAt DEF ReadFails
  <2>. QED BY <2>1, RunGoes
<1>3. CASE Reap
  <2>1. RunStep("reap", "unregister")
    BY <1>3, RunAt DEF Reap
  <2>. QED BY <2>1, RunGoes
<1>4. CASE Unregister
  <2>1. RunStep("unregister", "unregistered")
    BY <1>4, RunAt DEF Unregister
  <2>. QED BY <2>1, RunGoes
<1>5. CASE Unregistered
  <2>1. RunStep("unregistered", "terminate")
    BY <1>5, RunAt DEF Unregistered
  <2>. QED BY <2>1, RunGoes
<1>6. CASE Terminate
  <2>1. RunStep("terminate", IF raised THEN "except" ELSE "loop")
    BY <1>6, RunAt DEF Terminate
  <2>. QED BY <2>1, RunGoes
<1>7. CASE CountError
  <2>1. RunStep("except", "backoff")
    BY <1>7, RunAt DEF CountError
  <2>. QED BY <2>1, RunGoes
<1>8. CASE BackOff
  <2>1. RunStep("backoff", "loop")
    BY <1>8, RunAt DEF BackOff
  <2>. QED BY <2>1, RunGoes
<1>. QED BY <1>1, <1>2, <1>3, <1>4, <1>5, <1>6, <1>7, <1>8

LEMMA OpenFailing == ASSUME LifeInv, OpenFails PROVE StackInv' /\ RestInv'
<1>. USE DEF process, flags, journal, counters, history, RunStep, Holder, Early, Streaming, RunLabel
<1>1. RunStep("open", "except") \/ RunStep("open", "unregister")
  BY RunAt DEF OpenFails
<1>. QED BY <1>1, RunGoes

(* run() is left for its `finally` clause.                                 *)
LEMMA FinallyBegins ==
  ASSUME LifeInv, NEW a \in RunLabel, At(a), a \notin {"init", "mark", "exit"}, a \notin Holder,
         Finally, UNCHANGED <<source, exited, flags, journal, history>>,
         child = "alive" => source # "journald"
  PROVE  StackInv' /\ RestInv'
<1>. USE DEF flags, journal, history
<1>1. Len(stack') = 2 /\ stack'[1] = "exit" /\ stack'[2] = "stop"
  BY DEF Finally
<1>2. StackInv'
  BY StackFinally DEF LifeInv, At
<1>3. ChildInv'
  BY <1>1, RunAt DEF ChildInv
<1>4. CloseInv'
  BY <1>1, RunAt DEF CloseInv
<1>5. StopInv'
  BY <1>1, RunAt DEF StopInv
<1>. QED BY <1>2, <1>3, <1>4, <1>5 DEF RestInv

LEMMA RunEnds ==
  ASSUME LifeInv, LoopEnds \/ BreakOff \/ InputEnds \/ GiveUp
  PROVE  StackInv' /\ RestInv'
<1>. USE DEF process, flags, journal, counters, history, Holder, Streaming, RunLabel
<1>1. CASE LoopEnds
  BY <1>1, RunAt, FinallyBegins DEF LoopEnds
<1>2. CASE BreakOff /\ source = "journald"
  <2>1. RunStep("item", "unregister")
    BY <1>2, RunAt DEF BreakOff, RunStep, Early
  <2>. QED BY <2>1, RunGoes
<1>3. CASE BreakOff /\ source # "journald"
  BY <1>3, RunAt, FinallyBegins DEF BreakOff
<1>4. CASE InputEnds
  BY <1>4, RunAt, FinallyBegins DEF InputEnds
<1>5. CASE GiveUp
  BY <1>5, RunAt, FinallyBegins DEF GiveUp
<1>. QED BY <1>1, <1>2, <1>3, <1>4, <1>5

LEMMA ProcessExits == ASSUME LifeInv, Exit PROVE StackInv' /\ RestInv'
<1>. USE DEF process, flags, journal, counters, history
<1>1. Len(stack) = 1 /\ stack[1] = "exit" /\ state = "STOPPED"
  BY RunAt, Labels DEF Exit, LifeInv, RestInv, CloseInv
<1>. QED BY <1>1 DEF Exit, LifeInv, StackInv, RestInv, ChildInv, CloseInv, StopInv

-----------------------------------------------------------------------------
(* stop(), on top of run() or of another stop().                           *)

(* stop() goes from a to b. *)
StopStep(a, b) ==
  /\ At(a) /\ Goto(b) /\ UNCHANGED <<source, exited, signals, missed>>
  /\ b # "stop"
  /\ \/ a \notin Holder /\ b \notin Holder /\ lock' = lock
     \/ a \in Holder /\ b \notin Holder /\ lock' = 0
     \/ a \notin Holder /\ b \in Holder /\ Acquire
  /\ child' = "alive" => child = "alive"
  /\ storage' \in {storage, "closed"} /\ (b = "stopDone" => storage' = "closed")
  /\ state' = "STOPPED" => state = "STOPPED"
  /\ IF a = "stop" THEN ~running' ELSE running' = running

LEMMA StopGoes ==
  ASSUME LifeInv, NEW a \in StopLabel, NEW b \in StopLabel, StopStep(a, b)
  PROVE  StackInv' /\ RestInv'
<1>. USE DEF LifeInv
<1>. DEFINE n == Len(stack)
<1>1. Top = a /\ n \in Nat /\ n > 1 /\ stack[n] = a /\ ~exited
  BY TopOf DEF StopStep, At, Top
<1>2. /\ Len(stack') = n /\ stack'[n] = b
      /\ \A k \in 1..n : k # n => stack'[k] = stack[k]
  BY <1>1, GotoShape DEF StopStep, Label
<1>3. stack'[1] = stack[1]
  BY <1>1, <1>2
<1>4. StackInv'
  <2>1. a # "exit" /\ b # "exit"
    BY DEF StopLabel
  <2>. QED BY <1>1, <2>1, StackGoto DEF StopStep, Acquire
<1>5. ChildInv'
  BY <1>3 DEF StopStep, ChildInv, RestInv
<1>6. CloseInv'
  <2>1. storage = "closed" => storage' = "closed"
    BY DEF StopStep
  <2>2. ASSUME NEW k \in 2..n, stack'[k] = "stopDone" PROVE storage' = "closed"
    <3>1. CASE k = n
      BY <1>2, <2>2, <3>1 DEF StopStep
    <3>2. CASE k # n
      BY <1>1, <1>2, <2>1, <2>2, <3>2 DEF RestInv, CloseInv
    <3>. QED BY <3>1, <3>2
  <2>. QED BY <1>1, <1>2, <1>3, <2>1, <2>2 DEF StopStep, CloseInv, RestInv
<1>7. StopInv'
  <2>. SUFFICES ASSUME ~missed' PROVE StopInv'
    BY DEF StopInv
  <2>1. ~missed
    BY DEF StopStep
  <2>2. stack[1] \notin {"init", "mark"}
    BY <1>1, <2>1 DEF RestInv, StopInv
  <2>3. ~running'
    <3>1. CASE a = "stop"
      BY <3>1 DEF StopStep
    <3>2. CASE a # "stop"
      <4>1. ~running
        BY <1>1, <2>1, <3>2 DEF RestInv, StopInv
      <4>. QED BY <3>2, <4>1 DEF StopStep
    <3>. QED BY <3>1, <3>2
  <2>. QED BY <1>3, <2>2, <2>3 DEF StopInv
<1>. QED BY <1>4, <1>5, <1>6, <1>7 DEF RestInv

LEMMA StopWorks ==
  ASSUME LifeInv,
         StopBegins \/ StopLocks \/ StopTerminates \/ StopJoins \/ StopCloses
  PROVE  StackInv' /\ RestInv'
<1>. USE DEF process, flags, journal, counters, history, StopStep, Holder, StopLabel
<1>1. CASE StopBegins
  <2>1. StopStep("stop", IF source = "journald" THEN "stopLock" ELSE "stopJoin")
    BY <1>1 DEF StopBegins
  <2>. QED BY <2>1, StopGoes
<1>2. CASE StopLocks
  <2>1. StopStep("stopLock", "stopTerm")
    BY <1>2 DEF StopLocks
  <2>. QED BY <2>1, StopGoes
<1>3. CASE StopTerminates
  <2>1. StopStep("stopTerm", "stopJoin")
    BY <1>3 DEF StopTerminates, Release
  <2>. QED BY <2>1, StopGoes
<1>4. CASE StopJoins
  <2>1. StopStep("stopJoin", "stopClose")
    BY <1>4 DEF StopJoins
  <2>. QED BY <2>1, StopGoes
<1>5. CASE StopCloses
  <2>1. StopStep("stopClose", "stopDone")
    BY <1>5 DEF StopCloses
  <2>. QED BY <2>1, StopGoes
<1>. QED BY <1>1, <1>2, <1>3, <1>4, <1>5

(* The frame below goes on; if it is run(), that is its end.               *)
LEMMA StopReturning ==
  ASSUME LifeInv, StopReturns \/ StopEnds
  PROVE  StackInv' /\ RestInv'
<1>. USE DEF LifeInv, process, flags, journal, counters, history
<1>. DEFINE n == Len(stack)
<1>1. Top \in StopLabel /\ Top \notin Holder /\ Top \in {"stop", "stopDone"}
      /\ Return /\ ~exited
  BY DEF StopReturns, StopEnds, At, StopLabel, Holder
<1>2. UNCHANGED <<source, exited, running, storage, child, lock, signals, missed>>
      /\ state' = "STOPPED"
  BY DEF StopReturns, StopEnds
<1>3. n \in Nat /\ n > 1 /\ Top = stack[n]
  BY <1>1, TopOf DEF Top
<1>4. Len(stack') = n - 1 /\ \A k \in 1..(n - 1) : stack'[k] = stack[k]
  BY <1>1, ReturnShape
<1>5. stack'[1] = stack[1]
  BY <1>3, <1>4
<1>6. StackInv'
  <2>1. signals \in Nat
    BY ConstantsOK DEF ScalarTypes
  <2>. QED BY <1>1, <1>2, <2>1, StackReturn
<1>7. ChildInv'
  BY <1>2, <1>5 DEF ChildInv, RestInv
<1>8. storage = "closed"
  <2>1. CASE StopReturns
    BY <2>1 DEF StopReturns, RestInv, CloseInv
  <2>2. CASE StopEnds
    <3>1. Top = "stopDone"
      BY <2>2 DEF StopEnds, At
    <3>2. n \in 2..n
      BY <1>3, Depths
    <3>. QED BY <1>3, <3>1, <3>2 DEF RestInv, CloseInv
  <2>. QED BY <2>1, <2>2
<1>9. CloseInv'
  BY <1>1, <1>2, <1>8 DEF CloseInv
<1>10. StopInv'
  BY <1>2, <1>3, <1>4, <1>5, <1>8 DEF StopInv, RestInv
<1>. QED BY <1>6, <1>7, <1>9, <1>10 DEF RestInv

-----------------------------------------------------------------------------
(* Signals. A stop() begins on top of whatever the thread does.            *)

LEMMA SignalComes == ASSUME LifeInv, Signal PROVE StackInv' /\ RestInv'
<1>. USE DEF LifeInv, process, flags, journal, counters
<1>. DEFINE n == Len(stack)
<1>1. UNCHANGED <<source, exited, running, storage, state, child>>
      /\ (~missed' => ~missed /\ Top \notin Deaf) /\ Top # "init" /\ ~exited
  BY DEF Signal
<1>2. n \in Nat \ {0} /\ Top = stack[n]
  BY TopOf DEF Top
<1>3. Len(stack') = n + 1 /\ stack'[n + 1] = "stop" /\ \A k \in 1..n : stack'[k] = stack[k]
  BY PushShape DEF Signal
<1>4. stack'[1] = stack[1]
  BY <1>2, <1>3
<1>5. StackInv'
  BY StackPush
<1>6. ChildInv'
  BY <1>1, <1>4 DEF ChildInv, RestInv
<1>7. CloseInv'
  BY <1>1, <1>2, <1>3, <1>4 DEF CloseInv, RestInv
<1>8. StopInv'
  <2>. SUFFICES ASSUME ~missed' PROVE StopInv'
    BY DEF StopInv
  <2>1. stack[1] \notin {"init", "mark"}
    <3>1. CASE n = 1
      BY <1>1, <1>2, <3>1 DEF Deaf
    <3>2. CASE n > 1
      BY <1>1, <3>2 DEF RestInv, StopInv
    <3>3. n = 1 \/ n > 1
      BY <1>2, Depths
    <3>. QED BY <3>1, <3>2, <3>3
  <2>2. \A k \in 2..(n + 1) : stack'[k] # "stop" => ~running
    BY <1>1, <1>2, <1>3 DEF RestInv, StopInv
  <2>3. storage = "closed" => ~running
    BY <1>1 DEF RestInv, StopInv
  <2>. QED BY <1>1, <1>3, <1>4, <2>1, <2>2, <2>3 DEF StopInv
<1>. QED BY <1>5, <1>6, <1>7, <1>8 DEF RestInv

-----------------------------------------------------------------------------
(* The process.                                                            *)

LEMMA LifeInitially == ASSUME Init PROVE LifeInv
<1>1. stack \in Seq(Label) /\ Len(stack) = 1 /\ stack[1] = "init"
  BY DEF Init, Label, RunLabel
<1>2. StackInv
  BY <1>1 DEF Init, StackInv, RunLabel, Holder
<1>3. ScalarTypes
  <2>1. 0 \in 0..MaxRow /\ 0 \in 0..MaxSignals
    BY ConstantsOK
  <2>. QED BY <2>1 DEF Init, ScalarTypes, ServiceState
<1>4. RestInv
  BY <1>1 DEF Init, RestInv, ChildInv, CloseInv, StopInv, Early
<1>. QED BY <1>2, <1>3, <1>4 DEF LifeInv

LEMMA LifePreserved == ASSUME LifeInv, [Next]_vars PROVE LifeInv'
<1>1. ScalarTypes'
  BY ScalarsPreserved DEF LifeInv
<1>2. CASE UNCHANGED vars
  BY <1>1, <1>2 DEF vars, process, flags, journal, counters, history, LifeInv, StackInv, RestInv,
     ChildInv, CloseInv, StopInv
<1>3. CASE JournalctlDies
  BY <1>1, <1>3 DEF JournalctlDies, process, flags, counters, history, LifeInv, StackInv, RestInv,
     ChildInv, CloseInv, StopInv
<1>4. CASE Next /\ ~JournalctlDies
  <2>1. StackInv' /\ RestInv'
    BY <1>4, RunStarts, StreamOpens, StreamCloses, OpenFailing, RunEnds, ProcessExits, StopWorks,
       StopReturning, SignalComes DEF Next, Main
  <2>. QED BY <1>1, <2>1 DEF LifeInv
<1>. QED BY <1>2, <1>3, <1>4

(* The labels, the lock, the child and what each stop() has done fit       *)
(* together in every state, whichever signals interrupt which frame.       *)
THEOREM LifecycleInvariant == Spec => []LifeInv
<1>. QED BY LifeInitially, LifePreserved, PTL DEF Spec

(* Every variable keeps its shape; the stack is never deeper than one      *)
(* stop() for each signal and one for the `finally` clause.                *)
THEOREM LifecycleTypes == Spec => []TypeOK
<1>1. LifeInv => TypeOK
  <2>. SUFFICES ASSUME LifeInv PROVE TypeOK
    OBVIOUS
  <2>1. Len(stack) \in 1..(MaxSignals + 2)
    BY ConstantsOK, TopOf DEF LifeInv, StackInv, ScalarTypes
  <2>. QED BY <2>1 DEF LifeInv, StackInv, ScalarTypes, TypeOK, Label
<1>. QED BY <1>1, LifecycleInvariant, PTL

(* The process ends with the storage closed and STOPPED said, and no       *)
(* journalctl is left behind between two streams (runner.py:484-511).      *)
THEOREM ExitsCleanly == Spec => []ExitIsClean
<1>1. LifeInv => ExitIsClean
  <2>1. Between \intersect Streaming = {}
    BY DEF Between, Streaming
  <2>. QED BY <2>1 DEF LifeInv, RestInv, ChildInv, CloseInv, ExitIsClean
<1>. QED BY <1>1, LifecycleInvariant, PTL

(* A storage that stop() has closed is not worked on, unless a signal came *)
(* where what stop() did is undone (runner.py:488-489).                    *)
THEOREM NoLateWork == Spec => []NoWorkAfterClose
<1>1. LifeInv => NoWorkAfterClose
  <2>. SUFFICES ASSUME LifeInv, Top = "item", ~Stopping, ~missed PROVE storage = "open"
    BY DEF NoWorkAfterClose
  <2>1. stack[1] = "item"
    BY TopOf DEF LifeInv, RunLabel
  <2>2. running
    BY DEF Stopping
  <2>. QED BY <2>1, <2>2 DEF LifeInv, ScalarTypes, RestInv, CloseInv, StopInv
<1>. QED BY <1>1, LifecycleInvariant, PTL
=============================================================================

------------------------------ MODULE HostProofs ------------------------------
(***************************************************************************)
(* What Host guarantees for every value of its constants: any addresses,   *)
(* any tables the daemon may find, any configuration files and command     *)
(* lines, any number of crashes, reboots and commands.                     *)
(*                                                                         *)
(* The invariant has one part for each module Host is made of. For each    *)
(* part, a lemma says what a step of the host is to that part, and the     *)
(* next one that such a step keeps it.                                     *)
(***************************************************************************)
EXTENDS Host, TLAPS

-----------------------------------------------------------------------------
(* The schema.                                                             *)

(* What a process knows of the tables T, by how far it is. *)
Underway(o, T) ==
  /\ o.pc = "apply" =>
       /\ o.version \in 1..CurrentVersion /\ o.line \in 1..(Len(Script[o.version]) + 1)
       /\ \A w \in 1..(o.version - 1) : TablesOf(w) \subseteq T
       /\ \A i \in 1..(o.line - 1) : Script[o.version][i] \in T
  /\ o.pc = "open" => AllTables \subseteq T

SchemaInv ==
  /\ SchemaTypeOK
  /\ \A v \in versions : \A w \in 1..v : TablesOf(w) \subseteq tables
  /\ \A p \in DbUsers : Underway(opening[p], tables)

LEMMA Scripts ==
  /\ CurrentVersion = 2
  /\ Len(Script[1]) = 5 /\ Len(Script[2]) = 7
  /\ TablesOf(1) = {Script[1][i] : i \in 1..5} /\ TablesOf(2) = {Script[2][i] : i \in 1..7}
  /\ AllTables = TablesOf(1) \union TablesOf(2)
<1>1. CurrentVersion = 2
  BY DEF CurrentVersion
<1>2. Script[1] = Baseline /\ Script[2] = Oracle
  BY DEF Script
<1>3. Len(Baseline) = 5 /\ Len(Oracle) = 7
  BY DEF Baseline, Oracle
<1>. QED BY <1>1, <1>2, <1>3 DEF TablesOf, AllTables

LEMMA VersionRead ==
  ASSUME SchemaInv
  PROVE  /\ DatabaseVersion \in 0..CurrentVersion
         /\ \A w \in 1..DatabaseVersion : TablesOf(w) \subseteq tables
<1>1. CASE versions = {}
  BY <1>1, Scripts DEF DatabaseVersion
<1>2. CASE versions # {}
  <2>1. versions \subseteq {1, 2}
    BY Scripts DEF SchemaInv, SchemaTypeOK
  <2>2. \E v \in versions : \A w \in versions : w <= v
    <3>1. CASE 2 \in versions
      <4>1. \A w \in versions : w <= 2
        BY <2>1
      <4>. QED BY <3>1, <4>1
    <3>2. CASE 2 \notin versions
      <4>1. versions = {1}
        BY <1>2, <2>1, <3>2
      <4>. QED BY <4>1
    <3>. QED BY <3>1, <3>2
  <2>3. DatabaseVersion \in versions
    BY <1>2, <2>2 DEF DatabaseVersion
  <2>4. DatabaseVersion \in 0..CurrentVersion
    BY <2>1, <2>3, Scripts
  <2>5. \A w \in 1..DatabaseVersion : TablesOf(w) \subseteq tables
    BY <2>3 DEF SchemaInv
  <2>. QED BY <2>4, <2>5
<1>. QED BY <1>1, <1>2

(* A process that knows something goes on knowing it. *)
LEMMA UnderwayStays ==
  ASSUME NEW o, NEW T, NEW U, Underway(o, T), T \subseteq U
  PROVE  Underway(o, U)
BY DEF Underway

SchemaSteps ==
  \/ UNCHANGED schemaVars
  \/ \E p \in DbUsers : \/ OpenDatabase(p) \/ ReadVersion(p) \/ ApplyStatement(p)
                        \/ AbortOpening(p) \/ CloseDatabase(p)
  \/ /\ UNCHANGED <<tables, versions>>
     /\ \/ opening' = [opening EXCEPT ![Daemon] = Closed]
        \/ opening' = [p \in DbUsers |-> Closed]

LEMMA SchemaClasses == ASSUME [Next]_vars PROVE SchemaSteps
<1>. USE HostConstants DEF SchemaSteps
<1>1. CASE UNCHANGED vars
  BY <1>1 DEF vars
<1>2. CASE StartNext
  BY <1>2 DEF StartNext, StartDaemon, OpenStorage, StorageReady, StorageFails, ChooseMock,
     ChooseNftables, NftablesUnavailable, InitializeTable, InitializeReturns, SyncBegins, SyncEnds,
     SyncBlocks, Assemble, BeginExport
<1>3. CASE RunNext
  BY <1>3 DEF RunNext, Run, EventFails, CollectorFails, CollectorReconnects, ReloadConfig,
     EventBlocks, SaveSnapshot, SnapshotLost
<1>4. CASE WorkerNext
  BY <1>4 DEF WorkerNext, WorkerWakes, WorkerReconciles, WorkerSkipsExport, WorkerExports,
     WorkerTurnEnds
<1>5. CASE StopNext
  BY <1>5 DEF StopNext, StopDaemon, Join, CloseStorage, Exit
<1>6. CASE HostNext
  BY <1>6 DEF HostNext, Crash, Reboot, RulesetFlushed, CommandBegins, CommandGoesOn, CommandFlushes
<1>. QED BY <1>1, <1>2, <1>3, <1>4, <1>5, <1>6 DEF Next

LEMMA ReadSchema ==
  ASSUME SchemaInv, NEW p \in DbUsers, ReadVersion(p)
  PROVE  SchemaInv'
<1>1. UNCHANGED <<tables, versions>> /\ opening' = [opening EXCEPT ![p] = After(DatabaseVersion)]
  BY DEF ReadVersion, Proceed
<1>2. After(DatabaseVersion) \in Opening /\ Underway(After(DatabaseVersion), tables)
  <2>1. DatabaseVersion \in 0..2 /\ \A w \in 1..DatabaseVersion : TablesOf(w) \subseteq tables
    BY VersionRead, Scripts
  <2>2. CASE DatabaseVersion = 2
    <3>1. After(DatabaseVersion) = [pc |-> "open", version |-> 2, line |-> 0]
      BY <2>2, Scripts DEF After
    <3>2. AllTables \subseteq tables
      BY <2>1, <2>2, Scripts
    <3>. QED BY <3>1, <3>2, Scripts DEF Opening, Underway
  <2>3. CASE DatabaseVersion \in 0..1
    <3>. DEFINE v == DatabaseVersion + 1
    <3>1. After(DatabaseVersion) = [pc |-> "apply", version |-> v, line |-> 1]
      BY <2>3, Scripts DEF After
    <3>2. v \in 1..2 /\ 1 \in 1..(Len(Script[v]) + 1) /\ v - 1 = DatabaseVersion
      BY <2>3, Scripts
    <3>3. [pc |-> "apply", version |-> v, line |-> 1] \in Opening
      BY <3>2, Scripts DEF Opening
    <3>4. Underway([pc |-> "apply", version |-> v, line |-> 1], tables)
      BY <2>1, <3>2, Scripts DEF Underway
    <3>. QED BY <3>1, <3>3, <3>4
  <2>. QED BY <2>1, <2>2, <2>3
<1>3. \A q \in DbUsers : Underway(opening'[q], tables)
  BY <1>1, <1>2 DEF SchemaInv, SchemaTypeOK
<1>. QED BY <1>1, <1>2, <1>3 DEF SchemaInv, SchemaTypeOK, Underway

LEMMA ApplySchema ==
  ASSUME SchemaInv, NEW p \in DbUsers, ApplyStatement(p)
  PROVE  SchemaInv'
<1>. DEFINE o == opening[p]
            v == o.version
            i == o.line
<1>1. o \in Opening /\ o.pc = "apply" /\ v \in 1..2 /\ i \in 1..(Len(Script[v]) + 1)
      /\ (\A w \in 1..(v - 1) : TablesOf(w) \subseteq tables)
      /\ (\A j \in 1..(i - 1) : Script[v][j] \in tables)
  BY Scripts DEF ApplyStatement, SchemaInv, SchemaTypeOK, Underway
<1>2. Len(Script[v]) \in {5, 7} /\ TablesOf(v) = {Script[v][j] : j \in 1..Len(Script[v])}
  BY <1>1, Scripts DEF TablesOf
<1>3. RunLine(v, i) /\ opening' = [opening EXCEPT ![p] = NextLine(o)]
  BY DEF ApplyStatement, Proceed
<1>4. CASE i <= Len(Script[v])
  <2>1. tables' = tables \union {Script[v][i]} /\ versions' = versions
    BY <1>3, <1>4 DEF RunLine
  <2>2. NextLine(o) = [o EXCEPT !.line = i + 1]
    BY <1>4 DEF NextLine
  <2>3. NextLine(o) \in Opening
    <3>. DEFINE n == Len(Script[v])
    <3>. HIDE DEF n
    <3>1. n \in 0..7 /\ i \in 1..(n + 1) /\ i <= n
      BY <1>1, <1>2, <1>4 DEF n
    <3>2. i + 1 \in 0..8
      BY <3>1
    <3>. QED BY <1>1, <2>2, <3>2 DEF Opening
  <2>4. Script[v][i] \in AllTables
    <3>1. i \in 1..Len(Script[v])
      BY <1>1, <1>2, <1>4
    <3>2. TablesOf(v) \subseteq AllTables
      BY <1>1, Scripts
    <3>. QED BY <1>2, <3>1, <3>2
  <2>5. Underway(NextLine(o), tables')
    <3>1. NextLine(o).pc = "apply" /\ NextLine(o).version = v /\ NextLine(o).line = i + 1
      BY <1>1, <2>2 DEF Opening
    <3>2. i + 1 \in 1..(Len(Script[v]) + 1) /\ \A j \in 1..i : Script[v][j] \in tables'
      BY <1>1, <1>2, <1>4, <2>1
    <3>. QED BY <1>1, <1>2, <2>1, <3>1, <3>2, Scripts DEF Underway
  <2>6. \A q \in DbUsers : Underway(opening'[q], tables')
    BY <1>3, <2>1, <2>5, UnderwayStays DEF SchemaInv, SchemaTypeOK
  <2>. QED BY <1>3, <2>1, <2>3, <2>4, <2>6 DEF SchemaInv, SchemaTypeOK
<1>5. CASE i = Len(Script[v]) + 1
  <2>1. versions' = versions \union {v} /\ tables' = tables
    BY <1>2, <1>3, <1>5 DEF RunLine
  <2>2. NextLine(o) = After(v)
    BY <1>2, <1>5 DEF NextLine
  <2>3. \A w \in 1..v : TablesOf(w) \subseteq tables
    BY <1>1, <1>2, <1>5
  <2>4. After(v) \in Opening /\ Underway(After(v), tables)
    <3>1. CASE v = 2
      <4>1. After(v) = [pc |-> "open", version |-> 2, line |-> 0]
        BY <3>1, Scripts DEF After
      <4>2. AllTables \subseteq tables
        BY <2>3, <3>1, Scripts
      <4>. QED BY <4>1, <4>2, Scripts DEF Opening, Underway
    <3>2. CASE v = 1
      <4>1. After(v) = [pc |-> "apply", version |-> 2, line |-> 1]
        BY <3>2, Scripts DEF After
      <4>2. 1 \in 1..(Len(Script[2]) + 1) /\ \A w \in 1..1 : TablesOf(w) \subseteq tables
        BY <2>3, <3>2, Scripts
      <4>. QED BY <4>1, <4>2, Scripts DEF Opening, Underway
    <3>. QED BY <1>1, <3>1, <3>2
  <2>5. \A q \in DbUsers : Underway(opening'[q], tables')
    BY <1>3, <2>1, <2>2, <2>4, UnderwayStays DEF SchemaInv, SchemaTypeOK, Underway
  <2>6. versions' \subseteq 1..CurrentVersion /\ opening' \in [DbUsers -> Opening]
    BY <1>1, <1>3, <2>1, <2>2, <2>4, Scripts DEF SchemaInv, SchemaTypeOK
  <2>. QED BY <2>1, <2>3, <2>5, <2>6 DEF SchemaInv, SchemaTypeOK
<1>. QED BY <1>1, <1>2, <1>4, <1>5

LEMMA SchemaPreserved == ASSUME SchemaInv, SchemaSteps PROVE SchemaInv'
<1>. USE DEF SchemaInv, SchemaTypeOK
<1>1. Closed \in Opening /\ Underway(Closed, tables) /\ Closed.pc = "closed"
  BY Scripts DEF Closed, Opening, Underway
<1>2. CASE UNCHANGED schemaVars
  BY <1>2 DEF schemaVars, Underway
<1>3. ASSUME UNCHANGED <<tables, versions>>,
             opening' \in [DbUsers -> Opening], \A q \in DbUsers : Underway(opening'[q], tables)
      PROVE  SchemaInv'
  BY <1>3 DEF Underway
<1>4. ASSUME NEW p \in DbUsers, OpenDatabase(p) PROVE SchemaInv'
  <2>1. [Closed EXCEPT !.pc = "read"] \in Opening /\ Underway([Closed EXCEPT !.pc = "read"], tables)
    BY Scripts DEF Closed, Opening, Underway
  <2>2. UNCHANGED <<tables, versions>> /\ opening' = [opening EXCEPT ![p] = [Closed EXCEPT !.pc = "read"]]
    BY <1>4 DEF OpenDatabase, Proceed
  <2>. QED BY <1>3, <2>1, <2>2
<1>5. ASSUME NEW p \in DbUsers, AbortOpening(p) \/ CloseDatabase(p) PROVE SchemaInv'
  <2>1. UNCHANGED <<tables, versions>> /\ opening' = [opening EXCEPT ![p] = Closed]
    BY <1>5 DEF AbortOpening, CloseDatabase, Proceed
  <2>. QED BY <1>1, <1>3, <2>1
<1>6. CASE /\ UNCHANGED <<tables, versions>>
           /\ \/ opening' = [opening EXCEPT ![Daemon] = Closed]
              \/ opening' = [p \in DbUsers |-> Closed]
  BY <1>1, <1>3, <1>6
<1>. QED BY <1>2, <1>4, <1>5, <1>6, ReadSchema, ApplySchema DEF SchemaSteps

LEMMA SchemaInitially == ASSUME Init PROVE SchemaInv
<1>1. SchemaInit
  BY DEF Init
<1>2. Closed \in Opening /\ Underway(Closed, tables)
  BY Scripts DEF Closed, Opening, Underway
<1>3. tables \subseteq AllTables /\ versions \subseteq 1..CurrentVersion
  BY <1>1, Scripts DEF SchemaInit
<1>4. \A v \in versions : \A w \in 1..v : TablesOf(w) \subseteq tables
  BY <1>1, Scripts DEF SchemaInit
<1>. QED BY <1>1, <1>2, <1>3, <1>4 DEF SchemaInit, SchemaInv, SchemaTypeOK

-----------------------------------------------------------------------------
(* The kernel table.                                                       *)

(* What initialize() has seen is still true of the table, or somebody has  *)
(* taken something away since.                                             *)
TableInv ==
  /\ TableTypeOK
  /\ ~table.there => table = NoTable
  /\ init.pc = "script" /\ ~disturbed =>
       /\ init.listing.sets \subseteq table.sets /\ init.listing.rules \subseteq table.rules
       /\ init.listing.chain = "none" \/ init.listing.chain = table.chain
       /\ init.listing.chain = "none" \/ Compatible(init.listing.chain)
  /\ init.pc = "ready" /\ ~disturbed =>
       /\ table.there /\ table.sets = Families /\ table.rules = Families
       /\ Compatible(table.chain)

TableSteps ==
  \/ UNCHANGED tableVars
  \/ InitializeStep \/ StartInitialize \/ FlushTable \/ LoseTable
  \/ \E a \in Addresses : BlockAddress(a) /\ UNCHANGED <<init, disturbed>>
  \/ init' \in {NotYet, [NotYet EXCEPT !.pc = "check"]} /\ UNCHANGED <<table, disturbed>>
  \/ table' = NoTable /\ disturbed' = TRUE /\ init' \in {init, NotYet}

LEMMA TableClasses == ASSUME [Next]_vars PROVE TableSteps
<1>. USE DEF TableSteps
<1>1. CASE UNCHANGED vars
  BY <1>1 DEF vars
<1>2. CASE StartNext
  BY <1>2 DEF StartNext, StartDaemon, OpenStorage, StorageReady, StorageFails, ChooseMock,
     ChooseNftables, NftablesUnavailable, InitializeTable, InitializeReturns, SyncBegins, SyncEnds,
     SyncBlocks, Assemble, BeginExport, ProcessEnds, tableVars
<1>3. CASE RunNext
  BY <1>3 DEF RunNext, Run, EventFails, CollectorFails, CollectorReconnects, ReloadConfig,
     EventBlocks, SaveSnapshot, SnapshotLost
<1>4. CASE WorkerNext
  BY <1>4 DEF WorkerNext, WorkerWakes, WorkerReconciles, WorkerSkipsExport, WorkerExports,
     WorkerTurnEnds
<1>5. CASE StopNext
  BY <1>5 DEF StopNext, StopDaemon, Join, CloseStorage, Exit, ProcessEnds, tableVars
<1>6. CASE HostNext
  BY <1>6 DEF HostNext, Crash, Reboot, RulesetFlushed, CommandBegins, CommandGoesOn, CommandFlushes,
     ProcessEnds, tableVars
<1>. QED BY <1>1, <1>2, <1>3, <1>4, <1>5, <1>6 DEF Next

LEMMA NoTableOK == NoTable \in Table /\ NotYet \in Initializing /\ NotYet.pc = "idle"
                   /\ NoTable.there = FALSE /\ NoTable.sets = {} /\ NoTable.rules = {}
                   /\ NoTable.chain = "none" /\ NoTable.elements = {}
BY DEF NoTable, Table, Chains, NotYet, Initializing

(* A table that a script has added something to. *)
LEMMA WithTyping ==
  ASSUME NEW t \in Table, NEW m, m.sets \subseteq Families, m.rules \subseteq Families,
         m.chain \in BOOLEAN
  PROVE  /\ With(t, m) \in Table /\ With(t, m).there
         /\ With(t, m).sets = t.sets \union m.sets /\ With(t, m).rules = t.rules \union m.rules
         /\ With(t, m).chain = IF m.chain /\ t.chain = "none" THEN "input" ELSE t.chain
         /\ With(t, m).elements = t.elements
BY DEF With, Table, Chains

LEMMA MissingTyping ==
  ASSUME NEW l \in Table
  PROVE  /\ Missing(l).sets = Families \ l.sets /\ Missing(l).rules = Families \ l.rules
         /\ Missing(l).chain \in BOOLEAN /\ (Missing(l).chain <=> l.chain = "none")
BY DEF Missing

LEMMA InitializeTyping ==
  ASSUME NEW pc \in {"idle", "check", "create", "list", "script", "ready", "raised"}, InitGoto(pc)
  PROVE  init' \in Initializing /\ init'.pc = pc
BY NoTableOK DEF InitGoto, Initializing

LEMMA WithEverything ==
  ASSUME NEW t \in Table
  PROVE  /\ Everything.chain = TRUE
         /\ With(t, Everything) \in Table /\ With(t, Everything).there
         /\ With(t, Everything).sets = Families /\ With(t, Everything).rules = Families
         /\ With(t, Everything).chain = IF t.chain = "none" THEN "input" ELSE t.chain
         /\ With(t, Everything).elements = t.elements
<1>1. Everything.sets = Families /\ Everything.rules = Families /\ Everything.chain = TRUE
  BY DEF Everything
<1>2. t.sets \subseteq Families /\ t.rules \subseteq Families
  BY DEF Table
<1>3. Everything.sets \subseteq Families /\ Everything.rules \subseteq Families
      /\ Everything.chain \in BOOLEAN
  BY <1>1
<1>4. /\ With(t, Everything) \in Table /\ With(t, Everything).there
      /\ With(t, Everything).sets = t.sets \union Everything.sets
      /\ With(t, Everything).rules = t.rules \union Everything.rules
      /\ With(t, Everything).chain
           = IF Everything.chain /\ t.chain = "none" THEN "input" ELSE t.chain
      /\ With(t, Everything).elements = t.elements
  BY <1>3, WithTyping
<1>. QED BY <1>1, <1>2, <1>4

LEMMA CreatePreserves == ASSUME TableInv, CreateTable PROVE TableInv'
<1>. USE DEF TableInv, TableTypeOK
<1>1. CASE Accepts(table, Everything) /\ table' = With(table, Everything) /\ InitGoto("ready")
  <2>2. table' \in Table /\ table'.there /\ table'.sets = Families /\ table'.rules = Families
        /\ table'.chain = IF table.chain = "none" THEN "input" ELSE table.chain
    BY <1>1, WithEverything
  <2>3. table.chain \in {"none", "input"}
    BY <1>1, WithEverything DEF Accepts
  <2>4. init' \in Initializing /\ init'.pc = "ready"
    BY <1>1, InitializeTyping
  <2>. QED BY <2>2, <2>3, <2>4 DEF CreateTable, Compatible
<1>2. CASE InitGoto("raised") /\ UNCHANGED table
  BY <1>2, InitializeTyping DEF CreateTable
<1>. QED BY <1>1, <1>2 DEF CreateTable

LEMMA ListPreserves == ASSUME TableInv, ListTable PROVE TableInv'
<1>. USE DEF TableInv, TableTypeOK
<1>1. PICK l \in {table, NoTable} :
        \/ l.chain # "none" /\ ~Compatible(l.chain) /\ InitGoto("raised")
        \/ /\ l.chain = "none" \/ Compatible(l.chain)
           /\ IF NothingMissing(Missing(l)) THEN InitGoto("ready")
              ELSE init' = [pc |-> "script", listing |-> l]
  BY DEF ListTable
<1>2. l \in Table /\ l.sets \subseteq table.sets /\ l.rules \subseteq table.rules
      /\ (l.chain = "none" \/ l.chain = table.chain)
  BY NoTableOK DEF Table
<1>3. table' = table /\ disturbed' = FALSE
  BY DEF ListTable
<1>4. CASE InitGoto("raised")
  BY <1>3, <1>4, InitializeTyping
<1>5. CASE Compatible(l.chain) /\ NothingMissing(Missing(l)) /\ InitGoto("ready")
  <2>1. l.sets = Families /\ l.rules = Families /\ l.chain # "none"
    BY <1>2, <1>5, MissingTyping DEF NothingMissing, Table
  <2>2. l = table /\ table.there
    BY <2>1, NoTableOK DEF TableInv
  <2>3. init' \in Initializing /\ init'.pc = "ready"
    BY <1>5, InitializeTyping
  <2>. QED BY <1>3, <1>5, <2>1, <2>2, <2>3
<1>6. CASE init' = [pc |-> "script", listing |-> l] /\ (l.chain = "none" \/ Compatible(l.chain))
  <2>1. init' \in Initializing /\ init'.pc = "script" /\ init'.listing = l
    BY <1>2, <1>6 DEF Initializing
  <2>. QED BY <1>2, <1>3, <1>6, <2>1
<1>7. NothingMissing(Missing(l)) => l.chain # "none"
  BY <1>2, MissingTyping DEF NothingMissing
<1>. QED BY <1>1, <1>4, <1>5, <1>6, <1>7

LEMMA ScriptPreserves == ASSUME TableInv, RunScript PROVE TableInv'
<1>. USE DEF TableInv, TableTypeOK
<1>. DEFINE l == init.listing
<1>1. l \in Table /\ init.pc = "script"
  BY DEF RunScript, Initializing
<1>2. CASE /\ Accepts(table, Missing(l)) /\ table' = With(table, Missing(l))
           /\ InitGoto("ready")
  <2>1. table' \in Table /\ table'.there
        /\ table'.sets = table.sets \union (Families \ l.sets)
        /\ table'.rules = table.rules \union (Families \ l.rules)
        /\ table'.chain = IF l.chain = "none" /\ table.chain = "none" THEN "input" ELSE table.chain
    BY <1>1, <1>2, WithTyping, MissingTyping
  <2>2. l.chain = "none" => table.chain \in {"none", "input"}
    BY <1>1, <1>2, MissingTyping DEF Accepts
  <2>3. init' \in Initializing /\ init'.pc = "ready"
    BY <1>2, InitializeTyping
  <2>4. disturbed' = disturbed
    BY DEF RunScript
  <2>5. ASSUME ~disturbed
        PROVE  table'.sets = Families /\ table'.rules = Families /\ Compatible(table'.chain)
    <3>1. l.sets \subseteq table.sets /\ l.rules \subseteq table.rules
          /\ (l.chain = "none" \/ l.chain = table.chain)
          /\ (l.chain = "none" \/ Compatible(l.chain))
      BY <1>1, <2>5
    <3>2. table.sets \subseteq Families /\ table.rules \subseteq Families
      BY DEF Table
    <3>. QED BY <2>1, <2>2, <3>1, <3>2 DEF Compatible
  <2>. QED BY <2>1, <2>3, <2>4, <2>5
<1>3. CASE InitGoto("raised") /\ UNCHANGED table
  BY <1>3, InitializeTyping DEF RunScript
<1>. QED BY <1>2, <1>3 DEF RunScript

LEMMA TablePreserved == ASSUME TableInv, TableSteps PROVE TableInv'
<1>. USE DEF TableInv, TableTypeOK
<1>1. CASE UNCHANGED tableVars
  BY <1>1 DEF tableVars
<1>2. CASE CheckTable
  BY <1>2, InitializeTyping DEF CheckTable
<1>3. CASE StartInitialize
  BY <1>3, InitializeTyping DEF StartInitialize
<1>4. CASE FlushTable
  <2>1. table' \in Table /\ table'.there = table.there /\ (~table.there => table' = table)
    BY <1>4, NoTableOK DEF FlushTable, Table, NoTable
  <2>. QED BY <1>4, <2>1 DEF FlushTable
<1>5. CASE LoseTable
  BY <1>5, NoTableOK DEF LoseTable
<1>6. ASSUME NEW a \in Addresses, BlockAddress(a), UNCHANGED <<init, disturbed>> PROVE TableInv'
  <2>1. table' \in Table /\ table'.there = table.there /\ table'.sets = table.sets
        /\ table'.rules = table.rules /\ table'.chain = table.chain /\ table.there
    BY <1>6 DEF BlockAddress, CanHold, Table
  <2>. QED BY <1>6, <2>1
<1>7. CASE init' \in {NotYet, [NotYet EXCEPT !.pc = "check"]} /\ UNCHANGED <<table, disturbed>>
  <2>1. init' \in Initializing /\ init'.pc \in {"idle", "check"}
    BY <1>7, NoTableOK DEF NotYet, Initializing
  <2>. QED BY <1>7, <2>1
<1>8. CASE table' = NoTable /\ disturbed' = TRUE /\ init' \in {init, NotYet}
  BY <1>8, NoTableOK
<1>. QED BY <1>1, <1>2, <1>3, <1>4, <1>5, <1>6, <1>7, <1>8, CreatePreserves, ListPreserves,
            ScriptPreserves DEF TableSteps, InitializeStep

LEMMA TableInitially == ASSUME Init PROVE TableInv
<1>. QED BY FamilyOK, NoTableOK DEF Init, TableInit, TableInv, TableTypeOK

LEMMA TableEnforces == ASSUME TableInv PROVE InitializedMeansEnforcing
<1>. SUFFICES ASSUME init.pc = "ready", ~disturbed, NEW a \in table.elements
              PROVE  Dropped(a) \/ table.chain = "other"
  BY DEF TableInv, InitializedMeansEnforcing
<1>1. a \in Addresses /\ Family[a] \in Families
  BY FamilyOK DEF TableInv, TableTypeOK, Table
<1>. QED BY <1>1 DEF TableInv, Dropped, Compatible

LEMMA TableKeepsElements ==
  ASSUME TableInv, TableSteps, init' # init, init'.pc # "idle"
  PROVE  table.elements \subseteq table'.elements
<1>. USE DEF TableInv, TableTypeOK
<1>1. CASE CreateTable
  BY <1>1, WithEverything DEF CreateTable
<1>2. CASE RunScript
  <2>1. init.listing \in Table
    BY DEF Initializing
  <2>. QED BY <1>2, <2>1, WithTyping, MissingTyping DEF RunScript
<1>3. CASE CheckTable \/ ListTable \/ StartInitialize
  BY <1>3 DEF CheckTable, ListTable, StartInitialize
<1>. QED BY <1>1, <1>2, <1>3, NoTableOK
         DEF TableSteps, InitializeStep, tableVars, FlushTable, LoseTable

-----------------------------------------------------------------------------
(* The threads, the configuration and the mode.                            *)

Starting == {"database", "firewall", "nft", "sync", "restore", "assemble"}

HostTypes ==
  /\ main \in MainLabel /\ worker \in WorkerLabel
  /\ launch \in Launches \union {NotLaunched}
  /\ mode \in Modes \union {"none"} /\ backend \in {"none", "mock", "nftables"}
  /\ collector \in {"none", "journald", "file", "stdin"}
  /\ restores \in BOOLEAN /\ inSync \in BOOLEAN /\ late \in BOOLEAN
  /\ ending \in {"none", "clean", "unsaved", "late", "crash", "raised"}
  /\ occasions \in 0..MaxOccasions

(* A daemon runs on a valid configuration, and one started for a dry run   *)
(* on one that says so until its mode is taken from it.                    *)
ModeInv ==
  /\ HostTypes
  /\ main # "off" => Valid(config) /\ NumbersAreNumbers(config)
  /\ main = "off" => mode = "none"
  /\ launch.dry_run /\ main \in Starting => Value(config, "mode") = "dry_run"
  /\ launch.dry_run => mode \in {"none", "dry_run"}

LEMMA DryRunFlag ==
  ASSUME NEW l, l.dry_run, NEW c
  PROVE  Value(WithFlags(l, c), "mode") = "dry_run"
<1>. DEFINE d == WithCommonFlags(l, c)
            e == Override("mode", "dry_run", d)
<1>1. LaunchMode(l) = "dry_run"
  BY DEF LaunchMode
<1>2. WithFlags(l, c) = Override("source", l.source, e)
  BY <1>1 DEF WithFlags
<1>3. "mode" \in DOMAIN e /\ e["mode"] = "dry_run"
  BY DEF Override
<1>. HIDE DEF e
<1>4. Value(Override("source", l.source, e), "mode") = "dry_run"
  BY <1>3 DEF Override, Value
<1>. QED BY <1>2, <1>4

LEMMA ValidMode == ASSUME NEW c, Valid(c) PROVE Value(c, "mode") \in Modes
BY DEF Valid, ResponseValid

(* A valid configuration is one the daemon's threads can work with.        *)
Timings ==
  {"health_check_interval", "reconciliation_interval", "journal_retry_backoff",
   "default_ban_duration", "repeat_offender_ban_duration", "max_ban_duration"}

LEMMA DefaultTimings ==
  /\ Default("health_check_interval") \in Int /\ Default("reconciliation_interval") \in Int
  /\ Default("journal_retry_backoff") \in Int /\ Default("default_ban_duration") \in Int
  /\ Default("repeat_offender_ban_duration") \in Int /\ Default("max_ban_duration") \in Int
BY DEF Default, DetectorsConfig, RiskThresholds, RiskWeights, ResponseConfig, TelemetryConfig,
   DaemonIntervals, DaemonLogging

LEMMA TimingsAreNumbers ==
  ASSUME NEW c, NumbersAreNumbers(c), NEW k \in Timings
  PROVE  Value(c, k) \in Int
<1>1. k \in Numbers
  BY DEF Timings, Numbers, DaemonIntervals
<1>2. Default(k) \in Int
  BY DefaultTimings DEF Timings
<1>. QED BY <1>1, <1>2 DEF NumbersAreNumbers, Value

LEMMA BackoffPauses ==
  ASSUME NEW c, Value(c, "journal_retry_backoff") \in Int, Value(c, "journal_retry_backoff") > 0,
         NEW n \in 1..6
  PROVE  Backoff(c, n) > 0
<1>. DEFINE b == Value(c, "journal_retry_backoff")
            m == Least(n - 1, 4)
<1>1. m \in {0, 1, 2, 3, 4}
  BY DEF Least
<1>2. 2^0 = 1 /\ 2^1 = 2 /\ 2^2 = 4 /\ 2^3 = 8 /\ 2^4 = 16
  OBVIOUS
<1>3. 2^m \in {1, 2, 4, 8, 16}
  BY <1>1, <1>2
<1>4. Backoff(c, n) = Least(60, b * 2^m)
  BY DEF Backoff
<1>. HIDE DEF b, m
<1>5. b \in Int /\ b > 0
  BY DEF b
<1>6. b * 2^m > 0 /\ b * 2^m \in Int
  BY <1>3, <1>5
<1>. QED BY <1>4, <1>6 DEF Least

LEMMA ValidIsUsable ==
  ASSUME NEW c, NumbersAreNumbers(c), Valid(c)
  PROVE  Usable(c)
<1>1. DaemonValid(c) /\ ResponseValid(c) /\ TelemetryValid(c)
  BY DEF Valid
<1>2. /\ Value(c, "health_check_interval") > 0 /\ Value(c, "reconciliation_interval") > 0
      /\ Value(c, "journal_retry_backoff") > 0
  BY <1>1 DEF DaemonValid, DaemonIntervals
<1>3. \A n \in 1..6 : Backoff(c, n) > 0
  <2>1. Value(c, "journal_retry_backoff") \in Int
    BY TimingsAreNumbers DEF Timings
  <2>. QED BY <1>2, <2>1, BackoffPauses
<1>4. \A failures \in {0, 14, 15} : BanDuration(c, failures) \in 1..Value(c, "max_ban_duration")
  <2>1. \A k \in {"default_ban_duration", "repeat_offender_ban_duration", "max_ban_duration"} :
          Value(c, k) \in Int
    BY TimingsAreNumbers DEF Timings
  <2>. QED BY <1>1, <2>1 DEF ResponseValid, BanDuration, Least
<1>5. ReadOnce(c) <=> Collector(c) # "journald"
  BY <1>1 DEF TelemetryValid, Sources, ReadOnce, Collector
<1>. QED BY <1>1, <1>2, <1>3, <1>4, <1>5, ValidMode DEF Usable

(* Neither a flag nor a file puts anything but a number where one belongs. *)
LEMMA LoadedNumbers ==
  ASSUME NEW f \in ConfigFiles
  PROVE  NumbersAreNumbers(Loaded(f))
BY HostConstants DEF Loaded, NumbersAreNumbers

LEMMA FlagsKeepNumbers ==
  ASSUME NEW c, NumbersAreNumbers(c), NEW l
  PROVE  NumbersAreNumbers(WithFlags(l, c))
<1>1. ASSUME NEW k, k \notin Numbers, NEW v, NEW d, NumbersAreNumbers(d)
      PROVE  NumbersAreNumbers(Override(k, v, d))
  BY <1>1 DEF NumbersAreNumbers, Override
<1>2. "backend" \notin Numbers /\ "mode" \notin Numbers /\ "source" \notin Numbers
  BY DEF Numbers, DetectorsConfig, RiskThresholds, RiskWeights, DaemonIntervals
<1>. QED BY <1>1, <1>2 DEF WithFlags, WithCommonFlags

ModeSteps ==
  \/ /\ UNCHANGED <<launch, config, mode>>
     /\ main' \in Starting => main \in Starting
     /\ main' = "off" <=> main = "off"
  \/ StartDaemon \/ Assemble \/ ReloadConfig \/ ProcessEnds

LEMMA ModeClasses == ASSUME ModeInv, [Next]_vars PROVE ModeSteps
<1>. USE DEF ModeSteps, Starting, configVars, engineVars, threadVars, Goto
<1>1. CASE UNCHANGED vars
  BY <1>1 DEF vars
<1>2. CASE StartNext
  BY <1>2 DEF StartNext, OpenStorage, StorageReady, StorageFails, ChooseMock,
     ChooseNftables, NftablesUnavailable, InitializeTable, InitializeReturns, SyncBegins, SyncEnds,
     SyncBlocks, BeginExport
<1>3. CASE RunNext
  BY <1>3 DEF RunNext, Run, EventFails, CollectorFails, CollectorReconnects, EventBlocks,
     SaveSnapshot, SnapshotLost
<1>4. CASE WorkerNext
  BY <1>4 DEF WorkerNext, WorkerWakes, WorkerReconciles, WorkerSkipsExport, WorkerExports,
     WorkerTurnEnds, WorkerGoto
<1>5. CASE StopNext
  BY <1>5 DEF StopNext, StopDaemon, Join, CloseStorage, Exit
<1>6. CASE HostNext
  BY <1>6 DEF HostNext, Crash, Reboot, RulesetFlushed, CommandBegins, CommandGoesOn, CommandFlushes
<1>. QED BY <1>1, <1>2, <1>3, <1>4, <1>5, <1>6 DEF Next

LEMMA TypesPreserved == ASSUME ModeInv, [Next]_vars PROVE HostTypes'
<1>. USE DEF ModeInv, HostTypes, MainLabel, WorkerLabel, configVars, engineVars, threadVars,
             history, Goto, FirewallIs
<1>1. CASE UNCHANGED vars
  BY <1>1 DEF vars
<1>2. CASE StartDaemon
  BY <1>2 DEF StartDaemon
<1>3. ASSUME ProcessEnds, ending' \in {"none", "clean", "unsaved", "late", "crash", "raised"},
             occasions' \in 0..MaxOccasions
      PROVE  HostTypes'
  BY <1>3 DEF ProcessEnds
<1>4. CASE OpenStorage \/ StorageReady \/ ChooseMock \/ ChooseNftables \/ NftablesUnavailable
  BY <1>4 DEF OpenStorage, StorageReady, ChooseMock, ChooseNftables, NftablesUnavailable
<1>5. CASE InitializeTable \/ InitializeReturns \/ SyncBegins \/ SyncEnds
           \/ \E a \in Addresses : SyncBlocks(a)
  BY <1>5 DEF InitializeTable, InitializeReturns, SyncBegins, SyncEnds, SyncBlocks
<1>6. CASE Assemble
  <2>1. mode' \in Modes
    BY <1>6, ValidMode DEF Assemble
  <2>2. collector' \in {"journald", "file", "stdin"}
    BY <1>6 DEF Assemble, Collector
  <2>3. main' = "export" /\ UNCHANGED <<worker, launch, backend, restores, inSync, late, ending, occasions>>
    BY <1>6 DEF Assemble
  <2>. QED BY <2>1, <2>2, <2>3
<1>7. CASE BeginExport
  BY <1>7 DEF BeginExport
<1>8. CASE RunNext
  BY <1>8 DEF RunNext, Run, EventFails, CollectorFails, CollectorReconnects, EventBlocks,
     ReloadConfig, SaveSnapshot, SnapshotLost
<1>9. CASE WorkerNext
  BY <1>9 DEF WorkerNext, WorkerWakes, WorkerReconciles, WorkerSkipsExport, WorkerExports,
     WorkerTurnEnds, WorkerGoto
<1>10. CASE StopDaemon \/ Join \/ CloseStorage
  BY <1>10 DEF StopDaemon, Join, CloseStorage
<1>11. CASE StorageFails \/ Exit \/ Crash
  BY <1>3, <1>11, HostConstants DEF StorageFails, Exit, Crash, Occasion
<1>12. CASE Reboot
  BY <1>3, <1>12, HostConstants DEF Reboot, Occasion
<1>13. CASE RulesetFlushed \/ CommandBegins \/ CommandGoesOn \/ CommandFlushes
  BY <1>13, HostConstants DEF RulesetFlushed, CommandBegins, CommandGoesOn, CommandFlushes, Occasion
<1>. QED BY <1>1, <1>2, <1>4, <1>5, <1>6, <1>7, <1>8, <1>9, <1>10, <1>11, <1>12, <1>13
         DEF Next, StartNext, StopNext, HostNext

LEMMA ModePreserved == ASSUME ModeInv, [Next]_vars PROVE ModeInv'
<1>. USE DEF ModeInv, Goto
<1>1. HostTypes'
  BY TypesPreserved
<1>2. CASE /\ UNCHANGED <<launch, config, mode>>
           /\ main' \in Starting => main \in Starting
           /\ main' = "off" <=> main = "off"
  BY <1>1, <1>2
<1>3. CASE StartDaemon
  <2>1. PICK l \in Launches, f \in ConfigFiles :
          Accepted(l, f) /\ launch' = l /\ config' = WithFlags(l, Loaded(f))
    BY <1>3 DEF StartDaemon
  <2>2. Valid(config)' /\ NumbersAreNumbers(config)'
    BY <2>1, LoadedNumbers, FlagsKeepNumbers DEF Accepted
  <2>3. main' = "database" /\ mode' = "none"
    BY <1>3 DEF StartDaemon, engineVars
  <2>. QED BY <1>1, <2>1, <2>2, <2>3, DryRunFlag DEF HostTypes
<1>4. CASE Assemble
  BY <1>1, <1>4, ValidMode DEF Assemble, configVars, Starting
<1>5. CASE ReloadConfig
  <2>1. PICK f \in ConfigFiles : config' = Reloaded(f)
    BY <1>5 DEF ReloadConfig
  <2>2. main = "running" /\ main' = "running" /\ UNCHANGED <<launch, mode>>
    BY <1>5 DEF ReloadConfig, threadVars, engineVars
  <2>3. Valid(config)' /\ NumbersAreNumbers(config)'
    BY <2>1, <2>2, LoadedNumbers DEF Reloaded
  <2>. QED BY <1>1, <2>2, <2>3 DEF Starting
<1>6. CASE ProcessEnds
  BY <1>1, <1>6 DEF ProcessEnds, NotLaunched, Starting
<1>. QED BY <1>2, <1>3, <1>4, <1>5, <1>6, ModeClasses DEF ModeSteps

LEMMA ModeInitially == ASSUME Init PROVE ModeInv
<1>1. launch = NotLaunched /\ NotLaunched.dry_run = FALSE
  BY DEF Init, NotLaunched
<1>2. occasions \in 0..MaxOccasions
  BY HostConstants DEF Init
<1>3. HostTypes
  BY <1>1, <1>2 DEF Init, HostTypes, MainLabel, WorkerLabel
<1>. QED BY <1>1, <1>3 DEF Init, ModeInv

-----------------------------------------------------------------------------
(* What the daemon says of itself.                                         *)

Operating ==
  {"firewall", "nft", "sync", "restore", "assemble", "export", "exporting", "running", "join",
   "close"}

(* A status that says HEALTHY has something behind it.                     *)
HealthInv ==
  /\ status \in [Subsystem -> HealthStatus]
  /\ main # "off" => /\ status["Firewall"] = "HEALTHY" => inSync
                     /\ status["Detection"] = "HEALTHY" => mode # "none"
  /\ main = "database" => status["Database"] # "HEALTHY"
  /\ main \in Operating => opening[Daemon].pc = "open"

LEMMA SubsystemSet ==
  ASSUME HealthInv, NEW s \in Subsystem, NEW v \in HealthStatus
  PROVE  /\ [status EXCEPT ![s] = v] \in [Subsystem -> HealthStatus]
         /\ [status EXCEPT ![s] = v][s] = v
         /\ \A r \in Subsystem \ {s} : [status EXCEPT ![s] = v][r] = status[r]
BY DEF HealthInv

LEMMA Subsystems ==
  /\ {"Telemetry", "Detection", "Threat Intel", "Database", "Firewall", "Response"} = Subsystem
  /\ {"HEALTHY", "DEGRADED", "FAILED", "UNKNOWN"} = HealthStatus
  /\ UnknownStatus \in [Subsystem -> HealthStatus]
  /\ \A s \in Subsystem : UnknownStatus[s] = "UNKNOWN"
  /\ \A s \in HealthStatus : Degraded(s) \in HealthStatus /\ Degraded(s) # "HEALTHY"
BY DEF Subsystem, HealthStatus, UnknownStatus, Degraded

LEMMA FirewallSays ==
  ASSUME NEW ok \in BOOLEAN
  PROVE  FirewallStatus(ok) \in HealthStatus /\ (FirewallStatus(ok) = "HEALTHY" => ok)
BY DEF FirewallStatus, HealthStatus

(* The daemon's connection is its own: what commands do leaves it alone.   *)
LEMMA OthersConnection ==
  ASSUME SchemaInv,
         \/ OpenDatabase(Command) \/ ReadVersion(Command) \/ ApplyStatement(Command)
         \/ AbortOpening(Command) \/ CloseDatabase(Command)
  PROVE  opening'[Daemon] = opening[Daemon]
BY HostConstants DEF SchemaInv, SchemaTypeOK, OpenDatabase, ReadVersion, ApplyStatement, AbortOpening,
   CloseDatabase, Proceed, Daemon, Command

LEMMA HealthStart == ASSUME SchemaInv, ModeInv, HealthInv, StartNext PROVE HealthInv'
<1>. USE Subsystems DEF HealthInv, Operating, Goto
<1>1. CASE StartDaemon
  BY <1>1 DEF StartDaemon, NewTracker
<1>2. CASE OpenStorage
  BY <1>2 DEF OpenStorage, healthVars, threadVars, engineVars, history
<1>3. CASE StorageReady
  <2>1. status' = [status EXCEPT !["Database"] = "HEALTHY"] /\ UNCHANGED <<opening, inSync, mode>>
        /\ main' = "firewall" /\ opening[Daemon].pc = "open" /\ main = "database"
    BY <1>3 DEF StorageReady, SetSubsystemHealth, schemaVars, engineVars, history
  <2>. QED BY <2>1, SubsystemSet
<1>4. CASE StorageFails
  BY <1>4 DEF StorageFails, ProcessEnds, NewTracker
<1>5. CASE ChooseMock
  <2>1. status' = [status EXCEPT !["Firewall"] = FirewallStatus(TRUE)] /\ inSync' = TRUE
        /\ UNCHANGED <<opening, mode>> /\ main' = "sync" /\ main = "firewall"
    BY <1>5 DEF ChooseMock, SetSubsystemHealth, schemaVars, FirewallIs
  <2>. QED BY <2>1, SubsystemSet, FirewallSays
<1>6. CASE ChooseNftables
  BY <1>6 DEF ChooseNftables, schemaVars, healthVars, history
<1>7. CASE NftablesUnavailable
  <2>. DEFINE f == [status EXCEPT !["Firewall"] = FirewallStatus(FALSE)]
  <2>1. status' = [f EXCEPT !["Response"] = IF Automatic THEN "DEGRADED" ELSE @]
        /\ UNCHANGED <<opening, mode>> /\ main' = "sync" /\ main = "firewall"
    BY <1>7 DEF NftablesUnavailable, schemaVars
  <2>2. f \in [Subsystem -> HealthStatus] /\ f["Firewall"] # "HEALTHY"
        /\ f["Detection"] = status["Detection"]
    BY SubsystemSet, FirewallSays
  <2>. HIDE DEF f
  <2>3. status' \in [Subsystem -> HealthStatus] /\ status'["Firewall"] = f["Firewall"]
        /\ status'["Detection"] = f["Detection"]
    BY <2>1, <2>2
  <2>. QED BY <2>1, <2>2, <2>3
<1>8. CASE InitializeTable
  BY <1>8 DEF InitializeTable, schemaVars, healthVars, threadVars, engineVars, history
<1>9. CASE InitializeReturns
  <2>. DEFINE ok == init.pc = "ready"
  <2>1. status' = [status EXCEPT !["Firewall"] = FirewallStatus(ok)] /\ inSync' = ok
        /\ UNCHANGED <<opening, mode>> /\ main' = "sync" /\ main = "nft" /\ ok \in BOOLEAN
    BY <1>9 DEF InitializeReturns, SetSubsystemHealth, schemaVars, engineVars, FirewallIs
  <2>. HIDE DEF ok
  <2>2. PICK v \in HealthStatus : v = FirewallStatus(ok) /\ (v = "HEALTHY" => ok)
    BY <2>1, FirewallSays
  <2>3. /\ status' \in [Subsystem -> HealthStatus]
        /\ status'["Firewall"] = v /\ status'["Detection"] = status["Detection"]
    <3>1. status' = [status EXCEPT !["Firewall"] = v]
      BY <2>1, <2>2
    <3>2. "Firewall" \in Subsystem /\ "Detection" \in Subsystem
      BY Subsystems
    <3>. QED BY <3>1, <3>2, SubsystemSet
  <2>4. status'["Firewall"] = "HEALTHY" => inSync'
    BY <2>1, <2>2, <2>3
  <2>. QED BY <2>1, <2>3, <2>4
<1>10. CASE SyncBegins \/ SyncEnds \/ \E a \in Addresses : SyncBlocks(a)
  BY <1>10 DEF SyncBegins, SyncEnds, SyncBlocks, schemaVars, healthVars, threadVars, engineVars,
     history
<1>11. CASE Assemble
  <2>1. PICK t \in {"HEALTHY", "DEGRADED"} :
          status' = [status EXCEPT !["Detection"] = "HEALTHY", !["Threat Intel"] = "HEALTHY",
                                   !["Response"] = "HEALTHY", !["Telemetry"] = t]
    BY <1>11 DEF Assemble, TelemetryStatus
  <2>2. status' \in [Subsystem -> HealthStatus] /\ status'["Firewall"] = status["Firewall"]
    BY <2>1
  <2>3. mode' # "none"
    BY <1>11, ValidMode DEF Assemble, ModeInv, Modes
  <2>4. UNCHANGED <<opening, inSync>> /\ main' = "export" /\ main = "assemble"
    BY <1>11 DEF Assemble, schemaVars, history
  <2>. QED BY <2>2, <2>3, <2>4
<1>12. CASE BeginExport
  BY <1>12 DEF BeginExport, schemaVars, trackerVars, engineVars
<1>. QED BY <1>1, <1>2, <1>3, <1>4, <1>5, <1>6, <1>7, <1>8, <1>9, <1>10, <1>11, <1>12
         DEF StartNext

LEMMA HealthWhileRunning ==
  ASSUME HealthInv, RunNext \/ WorkerNext
  PROVE  HealthInv'
<1>. USE Subsystems DEF HealthInv, Operating, Goto
<1>1. ASSUME NEW s \in Subsystem, NEW v \in HealthStatus,
             status' = [status EXCEPT ![s] = v], UNCHANGED <<opening, mode, main>>,
             main # "database", s # "Detection" \/ v # "HEALTHY",
             s # "Firewall" /\ inSync => inSync', s = "Firewall" /\ v = "HEALTHY" => inSync'
      PROVE  HealthInv'
  <2>1. status' \in [Subsystem -> HealthStatus] /\ status'[s] = v
        /\ \A r \in Subsystem \ {s} : status'[r] = status[r]
    BY <1>1, SubsystemSet
  <2>2. main' # "off" /\ status'["Firewall"] = "HEALTHY" => inSync'
    <3>1. CASE s = "Firewall"
      BY <1>1, <2>1, <3>1
    <3>2. CASE s # "Firewall"
      BY <1>1, <2>1, <3>2
    <3>. QED BY <3>1, <3>2
  <2>3. main' # "off" /\ status'["Detection"] = "HEALTHY" => mode' # "none"
    <3>1. CASE s = "Detection"
      BY <1>1, <2>1, <3>1
    <3>2. CASE s # "Detection"
      BY <1>1, <2>1, <3>2
    <3>. QED BY <3>1, <3>2
  <2>. QED BY <1>1, <2>1, <2>2, <2>3
<1>2. ASSUME UNCHANGED <<status, opening, mode, inSync>>, main' = main \/ main = "exporting",
             main = "exporting" => main' \in {"exporting", "running"}
      PROVE  HealthInv'
  BY <1>2
<1>3. CASE Run
  BY <1>2, <1>3 DEF Run, schemaVars, engineVars, history
<1>4. ASSUME NEW s \in {"Detection", "Telemetry"}, RecordSubsystemError(s), main = "running",
             UNCHANGED <<opening, mode, main, inSync>>
      PROVE  HealthInv'
  <2>1. s \in Subsystem /\ Degraded(status[s]) \in HealthStatus
        /\ Degraded(status[s]) # "HEALTHY"
    OBVIOUS
  <2>. QED BY <1>1, <1>2, <1>4, <2>1 DEF RecordSubsystemError
<1>5. CASE EventFails
  BY <1>4, <1>5 DEF EventFails, schemaVars, engineVars, threadVars, history
<1>6. CASE CollectorFails
  <2>1. main = "running" /\ UNCHANGED <<opening, mode, main, inSync>>
    BY <1>6 DEF CollectorFails, schemaVars, engineVars, threadVars, history
  <2>2. RecordSubsystemError("Telemetry") \/ status' = [status EXCEPT !["Telemetry"] = "DEGRADED"]
    BY <1>6 DEF CollectorFails, SetSubsystemHealth
  <2>. QED BY <1>1, <1>4, <2>1, <2>2
<1>7. CASE CollectorReconnects
  <2>1. main = "running" /\ UNCHANGED <<opening, mode, main, inSync>>
        /\ status' = [status EXCEPT !["Telemetry"] = "HEALTHY"]
    BY <1>7 DEF CollectorReconnects, SetSubsystemHealth, schemaVars, engineVars, threadVars, history
  <2>. QED BY <1>1, <2>1
<1>8. CASE WorkerReconciles
  <2>1. UNCHANGED <<opening, mode, main>>
    BY <1>8 DEF WorkerReconciles, schemaVars, engineVars, threadVars
  <2>2. \/ status' = [status EXCEPT !["Firewall"] = "HEALTHY"] /\ inSync' = TRUE
        \/ status' = [status EXCEPT !["Firewall"] = "DEGRADED"] /\ inSync' = FALSE
    BY <1>8 DEF WorkerReconciles, SetSubsystemHealth, FirewallIs
  <2>3. PICK v \in HealthStatus : status' = [status EXCEPT !["Firewall"] = v]
    BY <2>2
  <2>4. status' \in [Subsystem -> HealthStatus]
        /\ status'["Detection"] = status["Detection"] /\ status'["Database"] = status["Database"]
    BY <2>3, SubsystemSet
  <2>5. status'["Firewall"] = "HEALTHY" => inSync'
    BY <2>2
  <2>. QED BY <2>1, <2>4, <2>5
<1>9. CASE WorkerWakes \/ WorkerSkipsExport \/ WorkerExports \/ WorkerTurnEnds
  BY <1>2, <1>9 DEF WorkerWakes, WorkerSkipsExport, WorkerExports, WorkerTurnEnds, WorkerGoto,
     schemaVars, healthVars, trackerVars, engineVars, history
<1>10. CASE \/ ReloadConfig \/ \E a \in Addresses : EventBlocks(a)
            \/ \E t \in Threads : SaveSnapshot(t) \/ SnapshotLost(t)
  BY <1>2, <1>10 DEF ReloadConfig, EventBlocks, SaveSnapshot, SnapshotLost,
     schemaVars, healthVars, trackerVars, engineVars, threadVars, history
<1>. QED BY <1>3, <1>5, <1>6, <1>7, <1>8, <1>9, <1>10 DEF RunNext, WorkerNext

LEMMA HealthAtTheEnd ==
  ASSUME SchemaInv, HealthInv, StopNext \/ HostNext
  PROVE  HealthInv'
<1>. USE Subsystems DEF HealthInv, Operating, Goto
<1>1. ASSUME ProcessEnds PROVE HealthInv'
  BY <1>1 DEF ProcessEnds, NewTracker
<1>2. ASSUME UNCHANGED <<status, main, mode, inSync>>, opening'[Daemon] = opening[Daemon]
      PROVE  HealthInv'
  BY <1>2
<1>3. CASE StopDaemon \/ Join
  BY <1>3 DEF StopDaemon, Join, schemaVars, healthVars, engineVars, history
<1>4. CASE CloseStorage
  BY <1>4 DEF CloseStorage, engineVars, history
<1>5. CASE Exit \/ Crash
  BY <1>1, <1>5 DEF Exit, Crash
<1>6. CASE Reboot
  BY <1>1, <1>6 DEF Reboot, healthVars, threadVars, engineVars
<1>7. CASE RulesetFlushed
  BY <1>2, <1>7 DEF RulesetFlushed, schemaVars, healthVars, threadVars, engineVars
<1>8. CASE CommandBegins \/ CommandGoesOn \/ CommandFlushes
  BY <1>2, <1>8, OthersConnection DEF CommandBegins, CommandGoesOn, CommandFlushes, healthVars,
     threadVars, engineVars, history
<1>. QED BY <1>3, <1>4, <1>5, <1>6, <1>7, <1>8 DEF StopNext, HostNext

LEMMA HealthPreserved ==
  ASSUME SchemaInv, ModeInv, HealthInv, [Next]_vars
  PROVE  HealthInv'
<1>1. CASE UNCHANGED vars
  BY <1>1 DEF vars, HealthInv, schemaVars, healthVars, threadVars, engineVars, history
<1>. QED BY <1>1, HealthStart, HealthWhileRunning, HealthAtTheEnd DEF Next

LEMMA HealthInitially == ASSUME Init PROVE HealthInv
BY Subsystems DEF Init, HealthInit, HealthInv, Operating

LEMMA HealthBacked ==
  ASSUME HealthInv, main \in MainLabel
  PROVE  HealthyIsBacked
<1>. SUFFICES ASSUME main # "off", Overall(service, status) = "HEALTHY"
              PROVE  /\ mode # "none" /\ inSync
                     /\ main \notin {"close", "final", "leaving"} => opening[Daemon].pc = "open"
  BY DEF HealthyIsBacked
<1>1. {status[s] : s \in Subsystem} = {"HEALTHY"}
  BY DEF Overall
<1>2. status["Firewall"] = "HEALTHY" /\ status["Detection"] = "HEALTHY"
      /\ status["Database"] = "HEALTHY"
  BY <1>1, Subsystems
<1>. QED BY <1>2 DEF HealthInv, Operating, MainLabel

-----------------------------------------------------------------------------
(* The snapshot file.                                                      *)

(* How far one thread's save_to_file is, while the other one's rests.      *)
Orderly(s, content) ==
  /\ s.pc = "idle" => s = Idle
  /\ s.pc # "idle" => s.snapshot \in ServiceState
  /\ s.pc = "write" => s.handle = "tmp" /\ content = "empty"
  /\ s.pc = "publish" => content = s.snapshot

FileTypes ==
  /\ service \in ServiceState
  /\ published \in Content /\ tmpFile \in Content /\ saving \in [Threads -> Saving]

(* The two threads do not save at the same time unless the worker is late, *)
(* and the main thread's last snapshot is taken when all else is over.     *)
FileInv ==
  /\ FileTypes
  /\ saving["main"].pc # "idle" => main \in {"exporting", "leaving"}
  /\ saving["worker"].pc # "idle" => worker = "export"
  /\ worker # "none" => main \in {"running", "join", "close", "final", "leaving"}
  /\ late => main \in {"close", "final", "leaving"}
  /\ main \in {"close", "final", "leaving"} /\ ~late => worker = "ended"
  /\ ~late => \A t \in Threads : Orderly(saving[t], tmpFile)
  /\ main \in {"final", "leaving"} => service = "STOPPED"
  /\ main = "leaving" /\ ~late /\ ending # "unsaved" =>
       IF saving["main"].pc = "idle" THEN published = "STOPPED"
       ELSE saving["main"].snapshot = "STOPPED"
  /\ main = "off" /\ ending = "clean" => published = "STOPPED"

LEMMA Contents ==
  /\ Threads = {"main", "worker"} /\ Idle \in Saving /\ Idle.pc = "idle"
  /\ ServiceState \subseteq Content /\ {"none", "empty", "garbled"} \subseteq Content
  /\ {"STARTING", "INITIALIZING", "RUNNING", "STOPPING", "STOPPED"} \subseteq ServiceState
  /\ {"none", "empty", "garbled"} \intersect ServiceState = {}
BY DEF Threads, Idle, Saving, ServiceState, Content, Torn

LEMMA OneAtATime ==
  ASSUME FileInv, ~late, NEW t \in Threads, saving[t].pc # "idle"
  PROVE  \A r \in Threads \ {t} : saving[r] = Idle
BY Contents DEF FileInv, Orderly

LEMMA MovedShape ==
  ASSUME FileTypes, NEW to \in {"gone", "published"}
  PROVE  /\ Moved("tmp", to) \in [Threads -> Saving]
         /\ \A r \in Threads : /\ Moved("tmp", to)[r].pc = saving[r].pc
                               /\ Moved("tmp", to)[r].snapshot = saving[r].snapshot
                               /\ saving[r] = Idle => Moved("tmp", to)[r] = Idle
BY DEF FileTypes, Moved, Saving, Idle

LEMMA WrittenContent ==
  ASSUME NEW c \in Content, NEW s \in ServiceState \union {"none"}
  PROVE  Written(c, s) \subseteq Content
BY Contents DEF Written

(* Whatever a thread does to its own save, it does not begin another one,  *)
(* and takes no other snapshot.                                            *)
LEMMA SaveShape ==
  ASSUME FileTypes, NEW t \in Threads, SaveStep(t) \/ SaveFails(t)
  PROVE  /\ published' \in Content /\ tmpFile' \in Content /\ saving' \in [Threads -> Saving]
         /\ saving[t].pc # "idle"
         /\ \A r \in Threads : saving'[r].pc # "idle" =>
              saving[r].pc # "idle" /\ saving'[r].snapshot = saving[r].snapshot
<1>. USE Contents DEF FileTypes
<1>1. CASE OpenTmp(t)
  <2>1. [saving[t] EXCEPT !.pc = "write", !.handle = "tmp"] \in Saving
    BY DEF Saving
  <2>. QED BY <1>1, <2>1 DEF OpenTmp, Save, Saving
<1>2. CASE WriteTmp(t)
  <2>1. [saving[t] EXCEPT !.pc = "publish", !.handle = "gone"] \in Saving
    BY DEF Saving
  <2>2. saving' = [saving EXCEPT ![t] = [saving[t] EXCEPT !.pc = "publish", !.handle = "gone"]]
    BY <1>2 DEF WriteTmp, Save
  <2>3. saving[t].snapshot \in ServiceState \union {"none"}
        /\ saving[t].handle \in {"tmp", "published", "gone"}
    BY DEF Saving
  <2>4. published' \in Content /\ tmpFile' \in Content
    BY <1>2, <2>3, WrittenContent DEF WriteTmp
  <2>. QED BY <1>2, <2>1, <2>2, <2>4 DEF WriteTmp, Saving
<1>3. CASE Publish(t)
  <2>1. CASE tmpFile = "none"
    BY <1>3, <2>1 DEF Publish, Save
  <2>2. CASE tmpFile # "none"
    BY <1>3, <2>2, MovedShape DEF Publish
  <2>. QED BY <2>1, <2>2
<1>4. CASE SaveFails(t)
  <2>1. saving' = [Moved("tmp", "gone") EXCEPT ![t] = Idle] /\ published' \in {published, "garbled"}
        /\ tmpFile' = "none" /\ saving[t].pc # "idle"
    BY <1>4 DEF SaveFails
  <2>. QED BY <2>1, MovedShape
<1>. QED BY <1>1, <1>2, <1>3, <1>4 DEF SaveStep

LEMMA SaveOrFail ==
  ASSUME FileTypes, NEW t \in Threads, SaveStep(t)
  PROVE  ~SaveFails(t)
<1>1. ASSUME SaveFails(t) PROVE saving[t].pc = "write" /\ saving'[t].pc = "idle"
  BY <1>1, Contents, MovedShape DEF SaveFails
<1>2. ASSUME WriteTmp(t) PROVE saving'[t].pc = "publish"
  <2>1. saving' = [saving EXCEPT ![t] = [saving[t] EXCEPT !.pc = "publish", !.handle = "gone"]]
    BY <1>2 DEF WriteTmp, Save
  <2>. QED BY <2>1 DEF FileTypes, Saving
<1>. QED BY <1>1, <1>2 DEF SaveStep, OpenTmp, Publish

LEMMA SaveOrderly ==
  ASSUME FileInv, ~late, NEW t \in Threads, SaveStep(t) \/ SaveFails(t)
  PROVE  /\ \A r \in Threads : Orderly(saving'[r], tmpFile')
         /\ saving'[t].pc # "idle" \/ SaveFails(t) => published' = published
         /\ saving'[t].pc = "idle" /\ ~SaveFails(t) => published' = saving[t].snapshot
         /\ published' \in {published, saving[t].snapshot}
         /\ saving[t].snapshot \in ServiceState
<1>. USE Contents
<1>1. FileTypes /\ Orderly(saving[t], tmpFile) /\ saving[t].pc # "idle" /\ saving[t] \in Saving
  BY SaveShape DEF FileInv, FileTypes
<1>2. \A r \in Threads \ {t} : saving[r] = Idle
  BY <1>1, OneAtATime
<1>3. saving[t].snapshot \in ServiceState
  BY <1>1 DEF Orderly
<1>4. \A c : Orderly(Idle, c)
  BY DEF Orderly
<1>5. CASE OpenTmp(t)
  <2>. DEFINE s == [saving[t] EXCEPT !.pc = "write", !.handle = "tmp"]
  <2>1. saving' = [saving EXCEPT ![t] = s] /\ tmpFile' = "empty" /\ published' = published
    BY <1>5 DEF OpenTmp, Save
  <2>2. Orderly(s, "empty") /\ s.pc = "write"
    BY <1>1, <1>3 DEF Orderly, Saving
  <2>3. saving'[t] = s /\ \A r \in Threads \ {t} : saving'[r] = Idle
    BY <1>1, <1>2, <2>1 DEF FileTypes
  <2>4. \A r \in Threads : Orderly(saving'[r], tmpFile')
    BY <1>4, <2>1, <2>2, <2>3
  <2>. QED BY <1>3, <2>1, <2>2, <2>3, <2>4
<1>6. CASE WriteTmp(t)
  <2>. DEFINE s == [saving[t] EXCEPT !.pc = "publish", !.handle = "gone"]
  <2>1. saving' = [saving EXCEPT ![t] = s] /\ saving[t].handle = "tmp" /\ tmpFile = "empty"
    BY <1>1, <1>6 DEF WriteTmp, Save, Orderly
  <2>2. tmpFile' = saving[t].snapshot /\ published' = published
    BY <1>6, <2>1 DEF WriteTmp, Written
  <2>3. Orderly(s, saving[t].snapshot) /\ s.pc = "publish"
    BY <1>1, <1>3 DEF Orderly, Saving
  <2>4. saving'[t] = s /\ \A r \in Threads \ {t} : saving'[r] = Idle
    BY <1>1, <1>2, <2>1 DEF FileTypes
  <2>5. \A r \in Threads : Orderly(saving'[r], tmpFile')
    BY <1>4, <2>2, <2>3, <2>4
  <2>. QED BY <1>3, <2>2, <2>3, <2>4, <2>5
<1>7. CASE Publish(t)
  <2>1. tmpFile = saving[t].snapshot /\ tmpFile # "none"
    BY <1>1, <1>3, <1>7 DEF Publish, Orderly
  <2>2. saving' = [Moved("tmp", "published") EXCEPT ![t] = Idle] /\ published' = tmpFile
    BY <1>7, <2>1 DEF Publish
  <2>3. \A r \in Threads : saving'[r] = Idle
    BY <1>1, <1>2, <2>2, MovedShape
  <2>4. ~SaveFails(t)
    BY <1>7 DEF Publish, SaveFails
  <2>. QED BY <1>3, <1>4, <2>1, <2>2, <2>3, <2>4
<1>8. CASE SaveFails(t)
  <2>1. saving[t].handle = "tmp"
    BY <1>1, <1>8 DEF SaveFails, Orderly
  <2>2. saving' = [Moved("tmp", "gone") EXCEPT ![t] = Idle] /\ published' = published
    BY <1>8, <2>1 DEF SaveFails
  <2>3. \A r \in Threads : saving'[r] = Idle
    BY <1>1, <1>2, <2>2, MovedShape
  <2>. QED BY <1>3, <1>4, <1>8, <2>2, <2>3
<1>. QED BY <1>5, <1>6, <1>7, <1>8 DEF SaveStep

(* A process that ends takes its temporary file and its threads along.     *)
LEMMA FileAfterEnd ==
  ASSUME FileInv, ProcessEnds, ending' = "clean" => published = "STOPPED"
  PROVE  FileInv'
<1>. USE Contents DEF FileInv, FileTypes
<1>1. saving' = [t \in Threads |-> Idle] /\ tmpFile' = "none" /\ service' = "STARTING"
      /\ main' = "off" /\ worker' = "none" /\ ~late' /\ published' = published
  BY DEF ProcessEnds, NewTracker
<1>2. \A t \in Threads : saving'[t] = Idle
  BY <1>1
<1>. QED BY <1>1, <1>2 DEF Orderly

LEMMA FileBegins ==
  ASSUME FileInv, NEW t \in Threads, BeginSave(t)
  PROVE  /\ UNCHANGED <<published, tmpFile>> /\ saving' \in [Threads -> Saving]
         /\ saving'[t].pc # "idle" /\ saving'[t].snapshot = service
         /\ \A r \in Threads \ {t} : saving'[r] = saving[r]
         /\ Orderly(saving'[t], tmpFile)
<1>. USE Contents DEF FileInv, FileTypes
<1>. DEFINE s == [Idle EXCEPT !.pc = "open", !.snapshot = service]
<1>1. saving' = [saving EXCEPT ![t] = s] /\ UNCHANGED <<published, tmpFile>>
  BY DEF BeginSave, Save
<1>2. s \in Saving /\ s.pc = "open" /\ s.snapshot = service
  BY DEF Saving, Idle
<1>. QED BY <1>1, <1>2 DEF Orderly

LEMMA FileStart == ASSUME FileInv, StartNext PROVE FileInv'
<1>. USE Contents DEF FileInv, FileTypes, Goto
<1>. DEFINE Early == {"database", "firewall", "nft", "sync", "restore", "assemble", "export"}
<1>1. CASE StartDaemon
  BY <1>1 DEF StartDaemon, fileVars, NewTracker, Orderly
<1>2. ASSUME UNCHANGED <<service, published, tmpFile, saving, worker, late, ending>>,
             main \in Early, main' \in Early
      PROVE  FileInv'
  BY <1>2
<1>3. CASE OpenStorage \/ StorageReady
  BY <1>2, <1>3 DEF OpenStorage, StorageReady, healthVars, fileVars, threadVars, history
<1>4. CASE StorageFails
  BY <1>4, FileAfterEnd DEF StorageFails
<1>5. CASE ChooseMock \/ ChooseNftables \/ NftablesUnavailable
  BY <1>2, <1>5 DEF ChooseMock, ChooseNftables, NftablesUnavailable, healthVars, fileVars,
     FirewallIs, history
<1>6. CASE InitializeTable \/ InitializeReturns \/ SyncBegins \/ SyncEnds \/ Assemble
           \/ \E a \in Addresses : SyncBlocks(a)
  BY <1>2, <1>6 DEF InitializeTable, InitializeReturns, SyncBegins, SyncEnds, Assemble,
     SyncBlocks, healthVars, fileVars, threadVars, FirewallIs, history
<1>7. CASE BeginExport
  <2>1. "main" \in Threads /\ BeginSave("main") /\ UNCHANGED <<service, worker, late>>
    BY <1>7 DEF BeginExport, trackerVars
  <2>2. UNCHANGED <<published, tmpFile>> /\ saving' \in [Threads -> Saving]
        /\ saving'["main"].pc # "idle" /\ saving'["main"].snapshot = service
        /\ saving'["worker"] = saving["worker"] /\ Orderly(saving'["main"], tmpFile)
    BY <2>1, FileBegins
  <2>3. ~late => \A t \in Threads : Orderly(saving'[t], tmpFile')
    BY <2>2
  <2>4. (main = "export" /\ main' = "exporting") \/ (main = "final" /\ main' = "leaving")
    BY <1>7 DEF BeginExport
  <2>. QED BY <2>1, <2>2, <2>3, <2>4
<1>. QED BY <1>1, <1>3, <1>4, <1>5, <1>6, <1>7 DEF StartNext

LEMMA FileSave ==
  ASSUME FileInv, NEW t \in Threads, SaveSnapshot(t) \/ SnapshotLost(t)
  PROVE  FileInv'
<1>. USE Contents DEF FileInv
<1>1. UNCHANGED <<service, main, worker, late>> /\ (SaveStep(t) \/ SaveFails(t))
      /\ (ending' = ending \/ ending' = "unsaved")
      /\ (t = "main" /\ ending' # "unsaved" => SaveStep(t))
  BY DEF SaveSnapshot, SnapshotLost, trackerVars, threadVars, history
<1>2. FileTypes' /\ saving[t].pc # "idle"
      /\ \A r \in Threads : saving'[r].pc # "idle" =>
           saving[r].pc # "idle" /\ saving'[r].snapshot = saving[r].snapshot
  BY <1>1, SaveShape DEF FileTypes
<1>3. ~late => \A r \in Threads : Orderly(saving'[r], tmpFile')
  BY <1>1, SaveOrderly
<1>4. ASSUME main = "leaving", ~late, ending' # "unsaved"
      PROVE  IF saving'["main"].pc = "idle" THEN published' = "STOPPED"
             ELSE saving'["main"].snapshot = "STOPPED"
  <2>1. t = "main" /\ ending # "unsaved" /\ ~SaveFails(t)
    BY <1>1, <1>2, <1>4, SaveOrFail
  <2>2. saving["main"].snapshot = "STOPPED"
    BY <1>2, <1>4, <2>1
  <2>. QED BY <1>1, <1>2, <1>4, <2>1, <2>2, SaveOrderly
<1>5. main # "off"
  BY <1>2
<1>. QED BY <1>1, <1>2, <1>3, <1>4, <1>5

LEMMA FileRun == ASSUME FileInv, RunNext PROVE FileInv'
<1>. USE Contents DEF FileInv, FileTypes
<1>1. CASE Run
  BY <1>1 DEF Run, SetServiceState, fileVars, history
<1>2. ASSUME UNCHANGED <<service, published, tmpFile, saving, main, worker, late, ending>>
      PROVE  FileInv'
  BY <1>2
<1>3. CASE EventFails \/ CollectorFails \/ CollectorReconnects \/ ReloadConfig
           \/ \E a \in Addresses : EventBlocks(a)
  BY <1>2, <1>3 DEF EventFails, CollectorFails, CollectorReconnects, ReloadConfig, EventBlocks,
     healthVars, fileVars, threadVars, history
<1>. QED BY <1>1, <1>3, FileSave DEF RunNext

LEMMA FileWorker == ASSUME FileInv, WorkerNext PROVE FileInv'
<1>. USE Contents DEF FileInv, FileTypes, WorkerGoto
<1>1. CASE WorkerWakes
  BY <1>1 DEF WorkerWakes, Stopping, healthVars, history
<1>2. CASE WorkerReconciles
  BY <1>2 DEF WorkerReconciles, fileVars, threadVars, FirewallIs
<1>3. CASE WorkerSkipsExport \/ WorkerTurnEnds
  BY <1>3 DEF WorkerSkipsExport, WorkerTurnEnds, healthVars, history
<1>4. CASE WorkerExports
  <2>1. "worker" \in Threads /\ BeginSave("worker") /\ UNCHANGED <<service, main, late, ending>>
        /\ worker = "turn" /\ worker' = "export"
    BY <1>4 DEF WorkerExports, trackerVars, history
  <2>2. UNCHANGED <<published, tmpFile>> /\ saving' \in [Threads -> Saving]
        /\ saving'["main"] = saving["main"] /\ Orderly(saving'["worker"], tmpFile)
    BY <2>1, FileBegins
  <2>3. ~late => \A t \in Threads : Orderly(saving'[t], tmpFile')
    BY <2>2
  <2>. QED BY <2>1, <2>2, <2>3
<1>. QED BY <1>1, <1>2, <1>3, <1>4 DEF WorkerNext

LEMMA FileAtTheEnd == ASSUME FileInv, StopNext \/ HostNext PROVE FileInv'
<1>. USE Contents DEF FileInv, FileTypes, Goto
<1>1. CASE StopDaemon
  BY <1>1 DEF StopDaemon, SetServiceState, fileVars, history
<1>2. CASE Join
  <2>1. late' <=> worker # "ended"
    BY <1>2 DEF Join
  <2>2. UNCHANGED <<service, published, tmpFile, saving, worker, ending>>
        /\ main = "join" /\ main' = "close"
    BY <1>2 DEF Join, healthVars
  <2>3. \A t \in Threads : Orderly(saving[t], tmpFile)
    BY <2>2
  <2>4. \A t \in Threads : Orderly(saving'[t], tmpFile')
    BY <2>2, <2>3
  <2>. QED BY <2>1, <2>2, <2>4
<1>3. CASE CloseStorage
  BY <1>3 DEF CloseStorage, SetServiceState, fileVars, history
<1>4. CASE Exit
  BY <1>4, FileAfterEnd DEF Exit
<1>5. CASE Crash
  BY <1>5, FileAfterEnd DEF Crash
<1>6. ASSUME UNCHANGED <<service, published, tmpFile, saving, main, worker, late, ending>>
      PROVE  FileInv'
  BY <1>6
<1>7. CASE Reboot
  BY <1>6, <1>7, FileAfterEnd DEF Reboot, healthVars, threadVars
<1>8. CASE RulesetFlushed \/ CommandBegins \/ CommandGoesOn \/ CommandFlushes
  BY <1>6, <1>8 DEF RulesetFlushed, CommandBegins, CommandGoesOn, CommandFlushes, healthVars,
     threadVars, history
<1>. QED BY <1>1, <1>2, <1>3, <1>4, <1>5, <1>7, <1>8 DEF StopNext, HostNext

LEMMA FilePreserved == ASSUME FileInv, [Next]_vars PROVE FileInv'
<1>1. CASE UNCHANGED vars
  BY <1>1 DEF vars, FileInv, FileTypes, healthVars, threadVars, history
<1>. QED BY <1>1, FileStart, FileRun, FileWorker, FileAtTheEnd DEF Next

LEMMA FileInitially == ASSUME Init PROVE FileInv
<1>1. saving = [t \in Threads |-> Idle] /\ tmpFile = "none" /\ published = "none"
      /\ service = "STARTING" /\ main = "off" /\ worker = "none" /\ ending = "none" /\ ~late
  BY DEF Init, HealthInit
<1>2. \A t \in Threads : saving[t] = Idle
  BY <1>1
<1>. QED BY <1>1, <1>2, Contents DEF FileInv, FileTypes, Orderly

(* The published snapshot changes only when a thread publishes.            *)
LEMMA PublishedChanges ==
  ASSUME [Next]_vars, published' # published
  PROVE  \E t \in Threads : SaveStep(t) \/ SaveFails(t)
<1>. USE DEF healthVars, fileVars, BeginSave, ProcessEnds
<1>1. ~UNCHANGED vars
  BY DEF vars
<1>2. ~StartNext
  BY DEF StartNext, StartDaemon, OpenStorage, StorageReady, StorageFails, ChooseMock,
     ChooseNftables, NftablesUnavailable, InitializeTable, InitializeReturns, SyncBegins, SyncEnds,
     SyncBlocks, Assemble, BeginExport
<1>3. CASE RunNext
  BY <1>3 DEF RunNext, Run, EventFails, CollectorFails, CollectorReconnects, ReloadConfig,
     EventBlocks, SaveSnapshot, SnapshotLost
<1>4. ~WorkerNext
  BY DEF WorkerNext, WorkerWakes, WorkerReconciles, WorkerSkipsExport, WorkerExports,
     WorkerTurnEnds
<1>5. ~StopNext
  BY DEF StopNext, StopDaemon, Join, CloseStorage, Exit
<1>6. ~HostNext
  BY DEF HostNext, Crash, Reboot, RulesetFlushed, CommandBegins, CommandGoesOn, CommandFlushes
<1>. QED BY <1>1, <1>2, <1>3, <1>4, <1>5, <1>6 DEF Next

-----------------------------------------------------------------------------
(* The host.                                                               *)

HostInv == SchemaInv /\ TableInv /\ ModeInv /\ HealthInv /\ FileInv

(* The five parts hold in every state: between any two steps of the        *)
(* daemon's threads, of the commands and of whatever else happens on the   *)
(* host, at every point of a start that is cut off (runner.py:73-290).     *)
THEOREM HostInvariant == Spec => []HostInv
<1>1. Init => HostInv
  BY SchemaInitially, TableInitially, ModeInitially, HealthInitially, FileInitially DEF HostInv
<1>2. HostInv /\ [Next]_vars => HostInv'
  <2>. SUFFICES ASSUME HostInv, [Next]_vars PROVE HostInv'
    OBVIOUS
  <2>1. SchemaInv' /\ TableInv'
    BY SchemaClasses, SchemaPreserved, TableClasses, TablePreserved DEF HostInv
  <2>2. ModeInv' /\ HealthInv' /\ FileInv'
    BY ModePreserved, HealthPreserved, FilePreserved DEF HostInv
  <2>. QED BY <2>1, <2>2 DEF HostInv
<1>. QED BY <1>1, <1>2, PTL DEF Spec

(* Every variable of the host keeps the shape its declaration gives it.    *)
THEOREM TypeCorrect == Spec => []TypeOK
<1>1. HostInv => TypeOK
  BY DEF HostInv, SchemaInv, TableInv, ModeInv, HealthInv, FileInv, HostTypes, FileTypes,
     HealthTypeOK, TypeOK
<1>. QED BY <1>1, HostInvariant, PTL

(* However often a start is cut off, and whoever else migrates at the same *)
(* time, a version is entered only when its tables are there               *)
(* (migrations.py:31-37).                                                  *)
THEOREM VersionEarned == Spec => []VersionIsEarned
<1>1. HostInv => VersionIsEarned
  <2>. SUFFICES ASSUME HostInv, NEW v \in versions PROVE TablesOf(v) \subseteq tables
    BY DEF VersionIsEarned
  <2>1. v \in 1..v
    BY Scripts DEF HostInv, SchemaInv, SchemaTypeOK
  <2>. QED BY <2>1 DEF HostInv, SchemaInv
<1>. QED BY <1>1, HostInvariant, PTL

(* A process whose SQLiteStorage() has returned finds every table          *)
(* (migrations.py:221-260).                                                *)
THEOREM SchemaIsReady == Spec => []SchemaReady
<1>1. HostInv => SchemaReady
  BY DEF HostInv, SchemaInv, Underway, SchemaReady
<1>. QED BY <1>1, HostInvariant, PTL

(* An initialize() that returns and is not disturbed leaves a table in     *)
(* which what is listed is dropped, whatever it found.                     *)
THEOREM InitializedEnforces == Spec => []InitializedMeansEnforcing
<1>1. HostInv => InitializedMeansEnforcing
  BY TableEnforces DEF HostInv
<1>. QED BY <1>1, HostInvariant, PTL

(* initialize() takes no address out of the table it finds.                *)
THEOREM ElementsKept == Spec => InitializeKeepsElements
<1>1. HostInv /\ [Next]_vars
        => (init' # init /\ init'.pc # "idle" => table.elements \subseteq table'.elements)
  BY TableClasses, TableKeepsElements DEF HostInv
<1>. QED BY <1>1, HostInvariant, PTL DEF Spec, InitializeKeepsElements

(* Whatever the file and the flags say, and whatever SIGHUP reads, the     *)
(* worker never divides by zero (runner.py:454), an attempt to open the    *)
(* journal is followed by a pause (589), a ban lasts, but no longer than   *)
(* the maximum (policy.py:88), and only the journal is read by the loop    *)
(* that reconnects (502): validate_config checks enough for its users.     *)
THEOREM ConfigurationUsable == Spec => []UsableInForce
<1>1. HostInv => UsableInForce
  BY ValidIsUsable DEF HostInv, ModeInv, UsableInForce
<1>. QED BY <1>1, HostInvariant, PTL

(* A daemon that was started with --dry-run does not begin to enforce,     *)
(* whatever the files say that SIGHUP reads (runner.py:308, 593).          *)
THEOREM DryRunStays == Spec => []DryRunHolds
<1>1. HostInv => DryRunHolds
  BY DEF HostInv, ModeInv, DryRunHolds
<1>. QED BY <1>1, HostInvariant, PTL

(* The snapshot that is published is whole unless the worker is late.      *)
THEOREM WholeSnapshots == Spec => PublishedIsWhole
<1>1. HostInv /\ [Next]_vars
        => [published' # published /\ ~Readable(published') => late]_vars
  <2>. SUFFICES ASSUME HostInv, [Next]_vars, published' # published, ~late
                PROVE  Readable(published')
    OBVIOUS
  <2>1. PICK t \in Threads : SaveStep(t) \/ SaveFails(t)
    BY PublishedChanges
  <2>. QED BY <2>1, SaveOrderly DEF HostInv, Readable
<1>. QED BY <1>1, HostInvariant, PTL DEF Spec, PublishedIsWhole

(* A daemon that was stopped, whose worker ended in time and whose last    *)
(* write succeeded leaves STOPPED behind (runner.py:630-642).              *)
THEOREM LastWord == Spec => []LastWordIsStopped
<1>1. HostInv => LastWordIsStopped
  BY DEF HostInv, FileInv, LastWordIsStopped
<1>. QED BY <1>1, HostInvariant, PTL

(* HEALTHY is said of a daemon whose firewall was in order when it last    *)
(* looked, that has a mode, and that has its database (state.py:244-257).  *)
THEOREM HealthyHasReason == Spec => []HealthyIsBacked
<1>1. HostInv => HealthyIsBacked
  BY HealthBacked DEF HostInv, ModeInv, HostTypes
<1>. QED BY <1>1, HostInvariant, PTL
=============================================================================

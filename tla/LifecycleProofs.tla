--------------------------- MODULE LifecycleProofs ---------------------------
(***************************************************************************)
(* The migration is lossless and keeps the live cache for any number of    *)
(* rows, crashes and downgrades.  For any number of processes, kills,      *)
(* requests and old builds: what the migration promises holds in every     *)
(* process's life, no tunnel outlives a process that was not killed, and   *)
(* requests find the store open.                                           *)
(***************************************************************************)
EXTENDS Lifecycle, TLAPS

-----------------------------------------------------------------------------
(* The migration by itself *)

(* What appending a table does to the tables there are. *)
LEMMA AppendTable ==
  ASSUME NEW tables \in Seq(SUBSET Nat), NEW rows \in SUBSET Nat
  PROVE  LET new == Len(tables) + 1 IN
         /\ Append(tables, rows) \in Seq(SUBSET Nat)
         /\ DOMAIN Append(tables, rows) = DOMAIN tables \cup {new}
         /\ new # NoTable /\ new \notin DOMAIN tables
         /\ Append(tables, rows)[new] = rows
         /\ \A t \in DOMAIN tables : Append(tables, rows)[t] = tables[t]
<1>1. /\ Len(tables) \in Nat /\ DOMAIN tables = 1..Len(tables)
      /\ DOMAIN Append(tables, rows) = 1..(Len(tables) + 1)
  OBVIOUS
<1>2. \A t \in 1..Len(tables) : Append(tables, rows)[t] = tables[t]
  OBVIOUS
<1>3. Append(tables, rows)[Len(tables) + 1] = rows
  OBVIOUS
<1>4. Append(tables, rows) \in Seq(SUBSET Nat)
  OBVIOUS
<1>. QED
  BY <1>1, <1>2, <1>3, <1>4 DEF NoTable

(* What adding a row to an existing table does. *)
LEMMA InsertRow ==
  ASSUME NEW tables \in Seq(SUBSET Nat), NEW t \in DOMAIN tables, NEW r \in Nat
  PROVE  LET after == [tables EXCEPT ![t] = @ \cup {r}] IN
         /\ after \in Seq(SUBSET Nat)
         /\ DOMAIN after = DOMAIN tables
         /\ after[t] = tables[t] \cup {r}
         /\ \A u \in DOMAIN tables : u # t => after[u] = tables[u]
<1>1. tables[t] \cup {r} \in SUBSET Nat
  <2>1. tables[t] \in SUBSET Nat
    OBVIOUS
  <2>. QED
    BY <2>1
<1>. QED
  BY <1>1

(* What pruning a table does: none is there or goes that was not. *)
LEMMA PruneRows ==
  ASSUME NEW tables \in Seq(SUBSET Nat), NEW t \in DOMAIN tables, NEW pruned \in SUBSET tables[t]
  PROVE  LET after == [tables EXCEPT ![t] = @ \ pruned] IN
         /\ after \in Seq(SUBSET Nat)
         /\ DOMAIN after = DOMAIN tables /\ Len(after) = Len(tables)
         /\ pruned \subseteq Nat /\ tables[t] \in SUBSET Nat
         /\ \A u \in DOMAIN tables : tables[u] \ pruned \subseteq after[u]
         /\ \A u \in DOMAIN tables : u # t => after[u] = tables[u]
<1>1. tables[t] \in SUBSET Nat
  OBVIOUS
<1>2. tables[t] \ pruned \in SUBSET Nat /\ pruned \subseteq Nat
  BY <1>1
<1>3. [tables EXCEPT ![t] = @ \ pruned][t] = tables[t] \ pruned
  OBVIOUS
<1>4. /\ [tables EXCEPT ![t] = @ \ pruned] \in Seq(SUBSET Nat)
      /\ DOMAIN [tables EXCEPT ![t] = @ \ pruned] = DOMAIN tables
      /\ Len([tables EXCEPT ![t] = @ \ pruned]) = Len(tables)
      /\ \A u \in DOMAIN tables : u # t => [tables EXCEPT ![t] = @ \ pruned][u] = tables[u]
  BY <1>2
<1>. QED
  BY <1>1, <1>2, <1>3, <1>4

(* What emptying a table does. *)
LEMMA EmptyTable ==
  ASSUME contents \in Seq(SUBSET Nat), NEW t \in Tables
  PROVE  LET after == [contents EXCEPT ![t] = {}] IN
         /\ after \in Seq(SUBSET Nat)
         /\ DOMAIN after = Tables
         /\ after[t] = {} /\ contents[t] \subseteq Nat
         /\ \A u \in Tables : u # t => after[u] = contents[u]
<1>1. {} \in SUBSET Nat
  OBVIOUS
<1>2. contents[t] \in SUBSET Nat
  BY DEF Tables
<1>. QED
  BY <1>1, <1>2 DEF Tables

Inv == TypeOK /\ Lossless /\ LiveInv

LEMMA InvInit == Init => Inv
<1> SUFFICES ASSUME Init PROVE Inv
  OBVIOUS
<1> USE DEF NoTable
<1>1. CASE contents = <<>> /\ current = 0 /\ legacy = 0 /\ indexOn = 0 /\ live = {}
  <2>1. contents \in Seq(SUBSET Nat) /\ Tables = {} /\ written = 0
    BY <1>1 DEF Init, Tables
  <2>. QED
    BY <1>1, <2>1 DEF Init, Inv, TypeOK, Lossless, LiveInv, PC, Named
<1>2. CASE contents = <<{1}>> /\ live = {1} /\ indexOn \in {0, 1}
           /\ ((current = 1 /\ legacy = 0) \/ (current = 0 /\ legacy = 1))
  <2>1. /\ contents \in Seq(SUBSET Nat) /\ Tables = {1} /\ written = 1
        /\ contents[1] = {1}
    BY <1>2 DEF Init, Tables
  <2>. QED
    BY <1>2, <2>1 DEF Init, Inv, TypeOK, Lossless, LiveInv, PC, Named
<1>3. CASE contents = <<{1}, {2}>> /\ live = {2} /\ indexOn = 1 /\ current = 1
           /\ legacy = 2
  <2>1. /\ contents \in Seq(SUBSET Nat) /\ Tables = {1, 2} /\ written = 2
        /\ contents[1] = {1} /\ contents[2] = {2}
    BY <1>3 DEF Init, Tables
  <2>. QED
    BY <1>3, <2>1 DEF Init, Inv, TypeOK, Lossless, LiveInv, PC, Named
<1>4. \/ contents = <<>> /\ current = 0 /\ legacy = 0 /\ indexOn = 0 /\ live = {}
      \/ /\ contents = <<{1}>> /\ live = {1} /\ indexOn \in {0, 1}
         /\ (current = 1 /\ legacy = 0) \/ (current = 0 /\ legacy = 1)
      \/ contents = <<{1}, {2}>> /\ live = {2} /\ indexOn = 1 /\ current = 1 /\ legacy = 2
  BY DEF Init
<1>. QED
  BY <1>1, <1>2, <1>3, <1>4

LEMMA InvStep == Inv /\ [Next]_vars => Inv'
<1> SUFFICES ASSUME Inv, [Next]_vars PROVE Inv'
  OBVIOUS
<1> USE DEF Inv, schema, history
<1>1. CASE Start
  BY <1>1 DEF Start, TypeOK, Lossless, LiveInv, PC, Named, Tables
<1>2. CASE Inspect
  BY <1>2 DEF Inspect, TypeOK, Lossless, LiveInv, PC, Named, Tables
<1>3. CASE Archive
  BY <1>3 DEF Archive, TypeOK, Lossless, LiveInv, PC, Named, Tables, NoTable
<1>4. CASE Adopt
  BY <1>4 DEF Adopt, TypeOK, Lossless, LiveInv, PC, Named, Tables, NoTable
<1>5. CASE DropIndex
  BY <1>5 DEF DropIndex, TypeOK, Lossless, LiveInv, PC, Named, Tables
<1>6. CASE CreateTable
  <2>1. CASE current = NoTable
    <3>1. contents' = Append(contents, {}) /\ current' = NewTable
      BY <1>6, <2>1 DEF CreateTable
    <3>2. legacy' = NoTable /\ live' = {}
      BY <1>6, <2>1 DEF CreateTable, LiveInv
    <3>3. contents \in Seq(SUBSET Nat) /\ {} \in SUBSET Nat
      BY DEF TypeOK
    <3>4. /\ contents' \in Seq(SUBSET Nat)
          /\ Tables' = Tables \cup {NewTable}
          /\ NewTable \notin Tables /\ NewTable # NoTable
          /\ \A t \in Tables : contents'[t] = contents[t]
      BY <3>1, <3>3, AppendTable DEF Tables, NewTable
    <3>5. /\ pc' = "createIndex" /\ written' = written /\ archived' = archived
          /\ removed' = removed /\ indexOn' = indexOn /\ crashes' = crashes /\ oldRuns' = oldRuns
      BY <1>6 DEF CreateTable
    <3>6. TypeOK'
      BY <3>1, <3>2, <3>4, <3>5 DEF TypeOK, PC
    <3>7. Named \subseteq Tables /\ Named' = Named \cup {NewTable}
      BY <1>6, <2>1, <3>1, <3>2, <3>4, <3>5 DEF CreateTable, TypeOK, Named
    <3>8. Lossless'
      BY <2>1, <3>1, <3>2, <3>4, <3>5, <3>7 DEF TypeOK, Lossless
    <3>9. LiveInv'
      BY <1>6, <2>1, <3>1, <3>2, AppendTable
         DEF CreateTable, TypeOK, LiveInv, PC, Named, Tables, NewTable
    <3>. QED
      BY <3>6, <3>8, <3>9
  <2>2. CASE current # NoTable
    BY <1>6, <2>2 DEF CreateTable, TypeOK, Lossless, LiveInv, PC, Named, Tables
  <2>. QED
    BY <2>1, <2>2
<1>7. CASE CreateIndex
  BY <1>7 DEF CreateIndex, TypeOK, Lossless, LiveInv, PC, Named, Tables
<1>8. CASE Write
  <2>1. current \in Tables /\ current # NoTable /\ legacy = NoTable
    BY <1>8 DEF Write, TypeOK, LiveInv
  <2>2. written + 1 \in Nat
    BY DEF TypeOK
  <2>3. /\ contents' \in Seq(SUBSET Nat) /\ Tables' = Tables
        /\ contents'[current] = contents[current] \cup {written + 1}
        /\ \A u \in Tables : u # current => contents'[u] = contents[u]
    BY <1>8, <2>1, <2>2, InsertRow DEF Write, TypeOK, Tables
  <2>4. \A r \in 1..written' : r \in 1..written \/ r = written + 1
    BY <1>8 DEF Write, TypeOK
  <2>5. UNCHANGED <<schema, pc, crashes, oldRuns, removed>> /\ live' = live \cup {written + 1}
        /\ written' = written + 1 /\ pc = "running"
    BY <1>8 DEF Write
  <2>6. TypeOK'
    BY <2>2, <2>3, <2>5 DEF TypeOK
  <2>7. Lossless'
    <3>1. \A t \in Tables : contents[t] \subseteq contents'[t]
      BY <2>1, <2>3
    <3>2. Named' = Named /\ Named \subseteq Tables /\ current \in Named
      BY <2>1, <2>5 DEF Named, TypeOK
    <3>. QED
      BY <2>3, <2>4, <2>5, <3>1, <3>2 DEF Lossless
  <2>8. LiveInv'
    BY <2>1, <2>3, <2>5 DEF LiveInv
  <2>. QED
    BY <2>6, <2>7, <2>8
<1>12. CASE Clear
  <2>1. current \in Tables /\ current # NoTable /\ legacy = NoTable
    BY <1>12 DEF Clear, TypeOK, LiveInv
  <2>2. /\ contents' \in Seq(SUBSET Nat) /\ Tables' = Tables
        /\ contents'[current] = {} /\ contents[current] \subseteq Nat
        /\ \A u \in Tables : u # current => contents'[u] = contents[u]
    BY <1>12, <2>1, EmptyTable DEF Clear, TypeOK, Tables
  <2>3. /\ UNCHANGED <<schema, pc, crashes, oldRuns, written>> /\ live' = {}
        /\ removed' = removed \cup contents[current] /\ pc = "running"
    BY <1>12 DEF Clear
  <2>4. TypeOK'
    BY <2>2, <2>3 DEF TypeOK
  <2>5. Lossless'
    <3>1. Named' = Named /\ Named \subseteq Tables
      BY <2>3 DEF Named, TypeOK
    <3>2. ASSUME NEW r \in (1..written) \ removed' PROVE \E t \in Named : r \in contents'[t]
      <4>1. r \in (1..written) \ removed /\ r \notin contents[current]
        BY <2>3
      <4>2. PICK t \in Named : r \in contents[t]
        BY <4>1 DEF Lossless
      <4>. QED
        BY <2>2, <3>1, <4>1, <4>2
    <3>. QED
      BY <2>3, <3>1, <3>2 DEF Lossless
  <2>6. LiveInv'
    BY <2>1, <2>2, <2>3 DEF LiveInv
  <2>. QED
    BY <2>4, <2>5, <2>6
<1>9. CASE Stop \/ Crash
  <2>1. UNCHANGED <<schema, contents, oldRuns, written, live, removed>>
        /\ crashes' \in Nat /\ pc' = "down"
    BY <1>9 DEF Stop, Crash, TypeOK
  <2>. QED
    BY <2>1 DEF TypeOK, Lossless, LiveInv, PC, Named, Tables
<1>10. CASE OldBuild
  <2>1. current \in Tables /\ current # NoTable /\ written + 1 \in Nat /\ {written + 1} \in SUBSET Nat
    BY <1>10 DEF OldBuild, TypeOK
  <2>2. written' = written + 1 /\ \A r \in 1..written' : r \in 1..written \/ r = written + 1
    <3>1. written' = written + 1 /\ written \in Nat
      BY <1>10 DEF OldBuild, TypeOK
    <3>. QED
      BY <3>1
  <2> DEFINE Capped(pruned) == [contents EXCEPT ![current] = @ \ pruned]
  <2>3. PICK pruned \in SUBSET contents[current] :
          /\ removed' = removed \cup pruned
          /\ IF legacy = NoTable
             THEN /\ legacy' = NewTable
                  /\ contents' = Append(Capped(pruned), {written + 1})
                  /\ live' = {written + 1}
             ELSE /\ contents' = [Capped(pruned) EXCEPT ![legacy] = @ \cup {written + 1}]
                  /\ live' = contents[legacy] \cup {written + 1}
                  /\ legacy' = legacy
    BY <1>10 DEF OldBuild
  <2> DEFINE capped == Capped(pruned)
  <2>4. /\ capped \in Seq(SUBSET Nat) /\ DOMAIN capped = Tables /\ Len(capped) = Len(contents)
        /\ pruned \subseteq Nat
        /\ \A u \in Tables : contents[u] \ pruned \subseteq capped[u]
        /\ \A u \in Tables : u # current => capped[u] = contents[u]
    BY <2>1, PruneRows DEF TypeOK, Tables
  <2>5. /\ UNCHANGED <<current, archived, pc, crashes>> /\ pc = "down"
        /\ oldRuns' = oldRuns + 1 /\ indexOn' \in {indexOn, current}
    BY <1>10 DEF OldBuild
  <2> HIDE DEF capped, Capped
  <2>6. CASE legacy = NoTable
    <3>1. contents' = Append(capped, {written + 1}) /\ legacy' = NewTable /\ live' = {written + 1}
      BY <2>3, <2>6 DEF capped
    <3>2. /\ contents' \in Seq(SUBSET Nat) /\ Tables \subseteq Tables'
          /\ legacy' \in Tables' /\ legacy' # NoTable /\ legacy' \notin Tables
          /\ contents'[legacy'] = {written + 1}
          /\ \A t \in Tables : contents[t] \ pruned \subseteq contents'[t]
      BY <2>1, <2>4, <3>1, AppendTable DEF Tables, NewTable
    <3>3. TypeOK'
      BY <2>1, <2>2, <2>3, <2>4, <2>5, <3>1, <3>2 DEF TypeOK
    <3>4. Lossless'
      <4>1. Named \subseteq Named' /\ Named \subseteq Tables /\ legacy' \in Named'
        BY <2>5, <2>6, <3>2 DEF Named, TypeOK
      <4>2. legacy' \notin archived' /\ current' # legacy'
        BY <2>1, <2>5, <3>2 DEF TypeOK
      <4>. QED
        BY <2>2, <2>3, <2>5, <3>2, <4>1, <4>2 DEF Lossless
    <3>5. LiveInv'
      BY <2>5, <3>1, <3>2 DEF LiveInv
    <3>. QED
      BY <3>3, <3>4, <3>5
  <2>7. CASE legacy # NoTable
    <3>1. legacy \in Tables /\ legacy # current
      BY <2>1, <2>7 DEF TypeOK, Lossless
    <3>2. /\ contents' = [capped EXCEPT ![legacy] = @ \cup {written + 1}]
          /\ live' = contents[legacy] \cup {written + 1} /\ legacy' = legacy
      BY <2>3, <2>7 DEF capped
    <3>3. /\ contents' \in Seq(SUBSET Nat) /\ Tables' = Tables
          /\ contents'[legacy] = contents[legacy] \cup {written + 1}
          /\ \A t \in Tables : contents[t] \ pruned \subseteq contents'[t]
      BY <2>1, <2>4, <3>1, <3>2, InsertRow DEF Tables
    <3>4. TypeOK'
      <4>1. live' \subseteq Nat
        BY <2>1, <3>1, <3>2 DEF TypeOK, Tables
      <4>. QED
        BY <2>1, <2>2, <2>3, <2>4, <2>5, <3>2, <3>3, <4>1 DEF TypeOK
    <3>5. Lossless'
      <4>1. Named' = Named /\ Named \subseteq Tables /\ legacy \in Named
        BY <2>5, <2>7, <3>2 DEF Named, TypeOK
      <4>. QED
        BY <2>2, <2>3, <2>5, <3>2, <3>3, <4>1 DEF Lossless
    <3>6. LiveInv'
      BY <2>5, <2>7, <3>2, <3>3 DEF LiveInv
    <3>. QED
      BY <3>4, <3>5, <3>6
  <2>. QED
    BY <2>6, <2>7
<1>11. CASE UNCHANGED vars
  BY <1>11 DEF vars, TypeOK, Lossless, LiveInv, PC, Named, Tables
<1>. QED
  BY <1>1, <1>2, <1>3, <1>4, <1>5, <1>6, <1>7, <1>8, <1>9, <1>10, <1>11,
     <1>12 DEF Next

(* Every state of the database is one of its type.                           *)
THEOREM MigrationTyped == Spec => []TypeOK
<1>1. Inv => TypeOK
  BY DEF Inv
<1>. QED
  BY <1>1, InvInit, InvStep, PTL DEF Spec

(* Openings that nothing interrupts leave the index on the active table,     *)
(* whatever older builds have done in between.                               *)
THEOREM MigrationIndexes == Spec => []IndexUnlessInterrupted
<1>1. Init => IndexInv
  BY DEF Init, IndexInv
<1>2. Inv /\ IndexInv /\ [Next]_vars => IndexInv'
  <2> SUFFICES ASSUME Inv, IndexInv, [Next]_vars PROVE IndexInv'
    OBVIOUS
  <2> USE DEF schema, history, NoTable
  <2>1. CASE Start
    BY <2>1 DEF Start, IndexInv
  <2>2. CASE Inspect
    BY <2>2 DEF Inspect, IndexInv
  <2>3. CASE Archive
    BY <2>3 DEF Archive, IndexInv, Inv, LiveInv
  <2>4. CASE Adopt
    BY <2>4 DEF Adopt, IndexInv
  <2>5. CASE DropIndex
    BY <2>5 DEF DropIndex, IndexInv
  <2>6. CASE CreateTable
    BY <2>6 DEF CreateTable, IndexInv
  <2>7. CASE CreateIndex
    BY <2>7 DEF CreateIndex, IndexInv
  <2>8. CASE Write \/ Clear \/ Stop
    BY <2>8 DEF Write, Clear, Stop, IndexInv
  <2>9. CASE Crash
    BY <2>9 DEF Crash, IndexInv, Inv, TypeOK
  <2>10. CASE OldBuild
    <3>1. legacy' # NoTable
      BY <2>10 DEF OldBuild, Inv, TypeOK, NewTable
    <3>. QED
      BY <3>1 DEF IndexInv
  <2>11. CASE UNCHANGED vars
    BY <2>11 DEF vars, IndexInv
  <2>. QED
    BY <2>1, <2>2, <2>3, <2>4, <2>5, <2>6, <2>7, <2>8, <2>9, <2>10, <2>11 DEF Next
<1>3. Inv /\ IndexInv => IndexUnlessInterrupted
  BY DEF Inv, LiveInv, IndexInv, IndexUnlessInterrupted
<1>. QED
  BY <1>1, <1>2, <1>3, InvInit, InvStep, PTL DEF Spec

(* Whatever crashes, upgrades and downgrades happen, every row stays in a    *)
(* named table.                                                              *)
THEOREM MigrationLossless == Spec => []Lossless
<1>1. Inv => Lossless
  BY DEF Inv
<1>. QED
  BY <1>1, InvInit, InvStep, PTL DEF Spec

(* A process serves the rows the previous one had cached.                    *)
THEOREM MigrationKeepsLiveRows == Spec => LiveRowsKept
<1>1. Inv /\ [Next]_vars
      => [pc = "createIndex" /\ pc' = "running" => live' = live]_vars
  <2> SUFFICES ASSUME Inv, Next, pc = "createIndex", pc' = "running"
               PROVE  live' = live
    OBVIOUS
  <2>1. CreateIndex
    BY DEF Next, Start, Inspect, Archive, Adopt, DropIndex, CreateTable, Write,
           Clear, Stop, Crash, OldBuild
  <2>. QED
    BY <2>1 DEF CreateIndex, Inv, LiveInv
<1>. QED
  BY <1>1, InvInit, InvStep, PTL DEF Spec, LiveRowsKept

-----------------------------------------------------------------------------
(* The processes *)

(* Every step of a process is a step of the migration, or none of its.       *)
LEMMA StepsMigrate == [LifecycleNext]_lifeVars => [Next]_vars
<1> SUFFICES ASSUME [LifecycleNext]_lifeVars PROVE Next \/ UNCHANGED vars
  OBVIOUS
<1> USE DEF database
<1>1. CASE MainStep
  BY <1>1 DEF MainStep, RefuseFlag, LoadConfig, OpenStore, ClearCache, TunnelFails,
     TunnelStarts, NoTunnel, AddressFound, AddressTimeout, Serve, Notify, DrainEnds,
     CloseStore, StopTunnel, CloseDeferred, Next
<1>2. CASE Begin \/ OpenFails \/ Bind \/ Accept \/ HandlerWrites \/ HandlerReturns
  BY <1>2 DEF Begin, OpenFails, Bind, Accept, HandlerWrites, HandlerReturns, Next
<1>3. CASE Signal \/ Kill \/ ChildExits \/ OrphanExits \/ OldBuildRuns
  BY <1>3 DEF Signal, Kill, ChildExits, OrphanExits, OldBuildRuns, Next
<1>4. CASE UNCHANGED lifeVars
  BY <1>4 DEF lifeVars
<1>. QED
  BY <1>1, <1>2, <1>3, <1>4 DEF LifecycleNext

(* A life of processes is a run of the migration: what is proved of the      *)
(* migration holds of it.                                                    *)
THEOREM LifecycleMigrates == LifecycleSpec => Spec
<1>1. LifecycleInit => Init
  BY DEF LifecycleInit
<1>. QED
  BY <1>1, StepsMigrate, PTL DEF LifecycleSpec, Spec

-----------------------------------------------------------------------------
(* The ngrok child *)

(* An ngrok runs only between Start and the deferred Stop, so an exit that   *)
(* is not a kill has none to leave behind.                                   *)
TunnelInv ==
  /\ orphans \in Nat /\ kills \in Nat
  /\ child = "running" =>
       main \in {"polling", "listen", "notify", "wait", "drain", "close", "unwind"}
  /\ TunnelsAccounted

LEMMA TunnelStep == TunnelInv /\ [LifecycleNext]_lifeVars => TunnelInv'
<1> SUFFICES ASSUME TunnelInv, [LifecycleNext]_lifeVars PROVE TunnelInv'
  OBVIOUS
<1> USE DEF TunnelInv, TunnelsAccounted
<1>1. CASE RefuseFlag
  BY <1>1 DEF RefuseFlag, Exit
<1>2. CASE LoadConfig
  BY <1>2 DEF LoadConfig, Exit
<1>3. CASE OpenStore
  BY <1>3 DEF OpenStore
<1>4. CASE OpenFails
  BY <1>4 DEF OpenFails, Exit
<1>5. CASE ClearCache \/ TunnelFails
  BY <1>5 DEF ClearCache, TunnelFails, ReturnWith
<1>6. CASE TunnelStarts \/ NoTunnel
  BY <1>6 DEF TunnelStarts, NoTunnel
<1>7. CASE AddressFound
  BY <1>7 DEF AddressFound
<1>8. CASE AddressTimeout \/ StopTunnel
  BY <1>8 DEF AddressTimeout, StopTunnel, ReturnWith
<1>9. CASE Begin \/ Serve \/ Notify \/ Bind \/ Accept \/ HandlerReturns \/ Signal \/ DrainEnds
           \/ CloseStore
  BY <1>9 DEF Begin, Serve, Notify, Bind, Accept, HandlerReturns, Signal, DrainEnds, CloseStore
<1>10. CASE CloseDeferred
  BY <1>10 DEF CloseDeferred, Exit
<1>11. CASE Kill
  BY <1>11 DEF Kill, Exit
<1>12. CASE ChildExits \/ OrphanExits
  BY <1>12 DEF ChildExits, OrphanExits
<1>13. CASE HandlerWrites \/ OldBuildRuns \/ UNCHANGED lifeVars
  BY <1>13 DEF HandlerWrites, OldBuildRuns, lifeVars, process
<1>. QED
  BY <1>1, <1>2, <1>3, <1>4, <1>5, <1>6, <1>7, <1>8, <1>9, <1>10, <1>11, <1>12, <1>13
     DEF LifecycleNext, MainStep

(* However often processes start, fail, are stopped or killed: no more       *)
(* tunnels are left behind than processes were killed, and while none was,   *)
(* no earlier process's address is announced.                                *)
THEOREM TunnelsAreAccounted == LifecycleSpec => []TunnelsAccounted
<1>1. LifecycleInit => TunnelInv
  BY DEF LifecycleInit, TunnelInv, TunnelsAccounted
<1>2. TunnelInv => TunnelsAccounted
  BY DEF TunnelInv
<1>. QED
  BY <1>1, <1>2, TunnelStep, PTL DEF LifecycleSpec

-----------------------------------------------------------------------------
(* Requests and the store *)

(* Where the process is decides whether the store is open, and requests are  *)
(* handled only from the spawn of the listener on, accepted only until the   *)
(* signal.                                                                   *)
HandlerInv ==
  /\ handlers \in Nat /\ pc \in PC
  /\ main \in {"off", "config", "unwind"} => pc = "down"
  /\ main \in {"opened", "polling", "listen", "notify", "wait", "drain", "close"} =>
       pc = "running"
  /\ main = "opening" <=> pc \in PC \ {"down", "running"}
  /\ listener = "bound" => main \in {"notify", "wait"}
  /\ handlers > 0 => main \in {"notify", "wait", "drain", "close", "unwind", "unwound"}
  /\ handlers > 0 /\ main \in {"close", "unwind", "unwound"} => gaveUp

LEMMA HandlerStep == HandlerInv /\ [LifecycleNext]_lifeVars => HandlerInv'
<1> SUFFICES ASSUME HandlerInv, [LifecycleNext]_lifeVars PROVE HandlerInv'
  OBVIOUS
<1> USE DEF HandlerInv, PC, database, vars
<1>1. CASE RefuseFlag
  BY <1>1 DEF RefuseFlag, Exit
<1>2. CASE LoadConfig
  BY <1>2 DEF LoadConfig, Exit, Start
<1>3. CASE OpenStore
  BY <1>3 DEF OpenStore, Inspect, Archive, Adopt, DropIndex, CreateTable, CreateIndex
<1>4. CASE OpenFails
  BY <1>4 DEF OpenFails, Exit, Crash
<1>5. CASE ClearCache \/ TunnelFails
  BY <1>5 DEF ClearCache, TunnelFails, ReturnWith, Clear
<1>6. CASE TunnelStarts \/ NoTunnel \/ AddressFound
  BY <1>6 DEF TunnelStarts, NoTunnel, AddressFound
<1>7. CASE AddressTimeout \/ StopTunnel
  BY <1>7 DEF AddressTimeout, StopTunnel, ReturnWith
<1>8. CASE Begin \/ Serve \/ Notify \/ Bind
  BY <1>8 DEF Begin, Serve, Notify, Bind
<1>9. CASE Accept \/ HandlerReturns
  BY <1>9 DEF Accept, HandlerReturns
<1>10. CASE Signal \/ DrainEnds
  BY <1>10 DEF Signal, DrainEnds
<1>11. CASE CloseStore
  BY <1>11 DEF CloseStore, Stop
<1>12. CASE CloseDeferred
  BY <1>12 DEF CloseDeferred, Exit, Stop
<1>13. CASE Kill
  BY <1>13 DEF Kill, Exit, Crash, Stop
<1>14. CASE ChildExits \/ OrphanExits
  BY <1>14 DEF ChildExits, OrphanExits
<1>15. CASE HandlerWrites \/ OldBuildRuns
  BY <1>15 DEF HandlerWrites, OldBuildRuns, Write, OldBuild, process
<1>16. CASE UNCHANGED lifeVars
  BY <1>16 DEF lifeVars, process
<1>. QED
  BY <1>1, <1>2, <1>3, <1>4, <1>5, <1>6, <1>7, <1>8, <1>9, <1>10, <1>11, <1>12, <1>13,
     <1>14, <1>15, <1>16 DEF LifecycleNext, MainStep

LEMMA HandlerInit == LifecycleInit => HandlerInv
BY DEF LifecycleInit, Init, HandlerInv, PC

(* For any number of requests: one that meets a closed store has outlasted   *)
(* the drain.                                                                *)
THEOREM StoreOutlivesHandlers == LifecycleSpec => []HandlersHaveStore
<1>1. HandlerInv => HandlersHaveStore
  BY DEF HandlerInv, HandlersHaveStore
<1>. QED
  BY <1>1, HandlerInit, HandlerStep, PTL DEF LifecycleSpec

-----------------------------------------------------------------------------
(* Configuration *)

(* Whatever an option's sources say, the helper's case by case choice is the *)
(* documented order.                                                         *)
LEMMA GetKeyPrefers == \A s, default : GetKey(s, default) = Preferred(s, default)
BY DEF GetKey, Preferred, ViperGet, ViperGetYaml, OrElse

(* The documented precedence holds for any values, given in any combination. *)
THEOREM PrecedenceHolds == LifecycleSpec => ConfigPrecedence
<1>1. [LifecycleNext]_lifeVars =>
        [main = "config" /\ main' = "opening" =>
           /\ cfg'.ngrok = Preferred(NgrokSources(given, file'), DefaultNgrok)
           /\ cfg'.limit = Preferred(LimitSources(given, file'), 0)]_lifeVars
  <2> SUFFICES ASSUME LifecycleNext, main = "config", main' = "opening"
               PROVE  /\ cfg'.ngrok = Preferred(NgrokSources(given, file'), DefaultNgrok)
                      /\ cfg'.limit = Preferred(LimitSources(given, file'), 0)
    OBVIOUS
  <2>1. LoadConfig
    BY DEF LifecycleNext, MainStep, RefuseFlag, Exit, OpenStore, ClearCache, TunnelFails,
       ReturnWith, TunnelStarts, NoTunnel, AddressFound, AddressTimeout, Serve, Notify,
       DrainEnds, CloseStore, StopTunnel, CloseDeferred, Begin, OpenFails, Bind, Accept,
       HandlerWrites, HandlerReturns, Signal, Kill, ChildExits, OrphanExits, OldBuildRuns,
       process
  <2>2. cfg' = Loaded(given, file')
    BY <2>1 DEF LoadConfig, Exit
  <2>. QED
    BY <2>2, GetKeyPrefers DEF Loaded
<1>. QED
  BY <1>1, PTL DEF LifecycleSpec, ConfigPrecedence

-----------------------------------------------------------------------------
(* Types *)

Maybe(S) == S \cup {Unset}
FileType == [ngrok : Maybe(BOOLEAN), limit : Maybe(Int), dashedLimit : Maybe(Int)]
StartType == [ngrokFlag : Maybe(BOOLEAN), ngrokEnv : Maybe(BOOLEAN),
              limitEnv : Maybe(Int), strayEnv : BOOLEAN, clear : BOOLEAN,
              unknownFlag : BOOLEAN]
CfgType == [ngrok : BOOLEAN, limit : Int, clear : BOOLEAN]

(* What is set nowhere has its default, so every value loaded is one of its  *)
(* option's type.                                                            *)
LEMMA LoadedTyped ==
  ASSUME NEW g \in StartType, NEW f \in FileType
  PROVE  Loaded(g, f) \in CfgType
<1>1. GetKey(NgrokSources(g, f), DefaultNgrok) \in BOOLEAN
  <2>1. {g.ngrokFlag, g.ngrokEnv, f.ngrok} \subseteq Maybe(BOOLEAN)
    BY DEF StartType, FileType
  <2>. QED
    BY <2>1, GetKeyPrefers, ConfigurationAssumption
       DEF Preferred, OrElse, NgrokSources, Sources, Maybe
<1>2. GetKey(LimitSources(g, f), 0) \in Int
  <2>1. {g.limitEnv, f.limit, f.dashedLimit} \subseteq Maybe(Int)
    BY DEF StartType, FileType
  <2>. QED
    BY <2>1, GetKeyPrefers, ConfigurationAssumption
       DEF Preferred, OrElse, LimitSources, Sources, Maybe
<1>. QED
  BY <1>1, <1>2 DEF Loaded, CfgType, StartType

LEMMA FilesTyped ==
  \A f \in Files \cup {DefaultFile} : Ensured(f) \in FileType /\ Ensured(f) \in Files \cup {DefaultFile}
BY StartsAssumption, ConfigurationAssumption DEF Ensured, DefaultFile, FileType, Maybe

LEMMA StartsTyped ==
  NothingGiven \in StartType /\ \A g \in Given : g \in StartType /\ Entrypoint(g) \in StartType
BY StartsAssumption DEF StartType, NothingGiven, Entrypoint, Maybe

TypesInv ==
  /\ main \in Phases /\ file \in Files \cup {DefaultFile}
  /\ given \in StartType /\ cfg \in CfgType
  /\ child \in {"none", "running", "exited"}
  /\ url \in {"none", "own", "orphan", "foreign"}
  /\ listener \in {"none", "starting", "bound", "failed", "closed"}
  /\ gaveUp \in BOOLEAN
  /\ ended \in {"none", "ok", "error", "killed"}

LEMMA TypesStep == TypesInv /\ HandlerInv /\ [LifecycleNext]_lifeVars => TypesInv'
<1> SUFFICES ASSUME TypesInv, HandlerInv, [LifecycleNext]_lifeVars PROVE TypesInv'
  OBVIOUS
<1>0. NothingGiven \in StartType /\ NoConfig \in CfgType
  BY StartsTyped DEF NoConfig, CfgType
<1> USE <1>0 DEF TypesInv, Phases
<1>1. CASE RefuseFlag
  BY <1>1 DEF RefuseFlag, Exit
<1>2. CASE LoadConfig
  <2>1. file' \in Files \cup {DefaultFile}
    BY <1>2, FilesTyped DEF LoadConfig
  <2>2. Loaded(given, Ensured(file)) \in CfgType
    BY FilesTyped, LoadedTyped
  <2>. QED
    BY <1>2, <2>1, <2>2 DEF LoadConfig, Exit
<1>3. CASE Begin
  BY <1>3, StartsTyped DEF Begin
<1>4. CASE OpenStore
  BY <1>4 DEF OpenStore
<1>5. CASE OpenFails \/ CloseDeferred \/ Kill
  BY <1>5 DEF OpenFails, CloseDeferred, Kill, Exit
<1>6. CASE ClearCache \/ TunnelFails \/ AddressTimeout \/ StopTunnel
  BY <1>6 DEF ClearCache, TunnelFails, AddressTimeout, StopTunnel, ReturnWith
<1>7. CASE TunnelStarts \/ NoTunnel \/ AddressFound \/ Serve \/ Notify
  BY <1>7 DEF TunnelStarts, NoTunnel, AddressFound, Serve, Notify
<1>8. CASE Bind \/ Accept \/ HandlerReturns
  BY <1>8 DEF Bind, Accept, HandlerReturns
<1>9. CASE Signal \/ CloseStore \/ ChildExits \/ OrphanExits
  BY <1>9 DEF Signal, CloseStore, ChildExits, OrphanExits
<1>10. CASE DrainEnds
  <2>1. (handlers > 0) \in BOOLEAN
    BY DEF HandlerInv
  <2>. QED
    BY <1>10, <2>1 DEF DrainEnds
<1>11. CASE HandlerWrites \/ OldBuildRuns \/ UNCHANGED lifeVars
  BY <1>11 DEF HandlerWrites, OldBuildRuns, lifeVars, process
<1>. QED
  BY <1>1, <1>2, <1>3, <1>4, <1>5, <1>6, <1>7, <1>8, <1>9, <1>10, <1>11
     DEF LifecycleNext, MainStep

(* Every variable keeps its type, and the migration's statements run exactly *)
(* while the process opens its store.                                        *)
THEOREM LifecycleTyped == LifecycleSpec => []LifecycleTypeOK
<1>1. LifecycleInit => TypesInv
  <2>1. NoConfig \in CfgType
    BY DEF NoConfig, CfgType
  <2>. QED
    BY <2>1, StartsTyped DEF LifecycleInit, TypesInv, Phases
<1>2. LifecycleInit => TunnelInv
  BY DEF LifecycleInit, TunnelInv, TunnelsAccounted
<1>3. TypeOK /\ TypesInv /\ TunnelInv /\ HandlerInv => LifecycleTypeOK
  BY DEF LifecycleTypeOK, TypesInv, TunnelInv, HandlerInv, CfgType
<1>. QED
  BY <1>1, <1>2, <1>3, TypesStep, TunnelStep, HandlerInit, HandlerStep,
     LifecycleMigrates, MigrationTyped, PTL DEF LifecycleSpec

=============================================================================

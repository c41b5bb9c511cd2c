--------------------------- MODULE CacheMigration ---------------------------
(***************************************************************************)
(* Opening the cache database (store.go, NewReasoningStore and             *)
(* migrateLegacyCacheTable) across crashes, upgrades and downgrades.       *)
(*                                                                         *)
(* A table is a number; the schema says which table has which name.        *)
(* ALTER TABLE ... RENAME moves a name and leaves rows and indexes with    *)
(* their table.  Every statement commits on its own, so the process may    *)
(* crash between any two of them.                                          *)
(***************************************************************************)
EXTENDS Integers, Sequences

CONSTANTS
  MaxRow,      \* bound: rows written in a behaviour
  MaxCrashes,  \* bound: crashes while the database is being opened
  MaxOldRuns   \* bound: times an older build is run

ASSUME BoundsAssumption == MaxRow \in Nat /\ MaxCrashes \in Nat /\ MaxOldRuns \in Nat

NoTable == 0

VARIABLES
  current,    \* the table named reasoning_cache
  legacy,     \* the table named reasoning_cache_entries
  archived,   \* the tables named reasoning_cache_legacy_<timestamp>
  indexOn,    \* the table idx_reasoning_cache_created_at belongs to
  contents,   \* rows of every table ever created
  pc,         \* where the new build is
  crashes, oldRuns,
  written,    \* history: number of rows written
  live,       \* history: rows of the cache the last process to run has used
  removed     \* history: rows deleted by --clear-reasoning-cache or by an older build

schema  == <<current, legacy, archived, indexOn>>
vars    == <<current, legacy, archived, indexOn, contents, pc, crashes, oldRuns,
             written, live, removed>>
history == <<crashes, oldRuns, written, live, removed>>

Tables   == DOMAIN contents
NewTable == Len(contents) + 1

PC == {"down", "inspect", "archive", "adopt", "dropIndex", "createTable",
       "createIndex", "running"}

(* The databases found in the field: none, the Python version's with or      *)
(* without the rows of an older Go build beside it (which indexed the        *)
(* reasoning_cache it found), and the older build's table alone.             *)
Init ==
  /\ \/ current = NoTable /\ legacy = NoTable /\ indexOn = NoTable
        /\ contents = <<>> /\ live = {}
     \/ current = 1 /\ legacy = NoTable /\ indexOn \in {NoTable, 1}
        /\ contents = <<{1}>> /\ live = {1}
     \/ current = 1 /\ legacy = 2 /\ indexOn = 1
        /\ contents = <<{1}, {2}>> /\ live = {2}
     \/ current = NoTable /\ legacy = 1 /\ indexOn = NoTable
        /\ contents = <<{1}>> /\ live = {1}
  /\ written = Len(contents)
  /\ archived = {} /\ removed = {} /\ pc = "down" /\ crashes = 0 /\ oldRuns = 0

Start ==
  /\ pc = "down"
  /\ pc' = "inspect"
  /\ UNCHANGED <<schema, contents, history>>

(* Mutant of Inspect: nothing to do when the proper table exists. *)
InspectCurrentFirst ==
  /\ pc = "inspect"
  /\ pc' = IF legacy = NoTable \/ current # NoTable THEN "createTable" ELSE "adopt"
  /\ UNCHANGED <<schema, contents, history>>

(* tableExists of the pluralized table, then of the proper one. *)
Inspect ==
  /\ pc = "inspect"
  /\ pc' = IF legacy = NoTable THEN "createTable"
           ELSE IF current # NoTable THEN "archive" ELSE "adopt"
  /\ UNCHANGED <<schema, contents, history>>

(* Mutant of Archive: the old table is dropped. *)
DropCurrent ==
  /\ pc = "archive"
  /\ current' = NoTable
  /\ indexOn' = IF indexOn = current THEN NoTable ELSE indexOn
  /\ pc' = "adopt"
  /\ UNCHANGED <<legacy, archived, contents, history>>

Archive ==
  /\ pc = "archive"
  /\ archived' = archived \cup {current} /\ current' = NoTable
  /\ pc' = "adopt"
  /\ UNCHANGED <<legacy, indexOn, contents, history>>

Adopt ==
  /\ pc = "adopt"
  /\ current' = legacy /\ legacy' = NoTable
  /\ pc' = "dropIndex"
  /\ UNCHANGED <<archived, indexOn, contents, history>>

(* Mutant of DropIndex: nothing is dropped. *)
KeepIndex ==
  /\ pc = "dropIndex"
  /\ pc' = "createTable"
  /\ UNCHANGED <<schema, contents, history>>

DropIndex ==
  /\ pc = "dropIndex"
  /\ indexOn' = NoTable
  /\ pc' = "createTable"
  /\ UNCHANGED <<current, legacy, archived, contents, history>>

(* Mutant of CreateTable: the statement is left out. *)
SkipCreateTable ==
  /\ pc = "createTable"
  /\ current' = IF current = NoTable THEN NewTable ELSE current
  /\ pc' = "createIndex"
  /\ UNCHANGED <<legacy, archived, indexOn, contents, history>>

(* CREATE TABLE IF NOT EXISTS *)
CreateTable ==
  /\ pc = "createTable"
  /\ IF current = NoTable
     THEN current' = NewTable /\ contents' = Append(contents, {})
     ELSE UNCHANGED <<current, contents>>
  /\ pc' = "createIndex"
  /\ UNCHANGED <<legacy, archived, indexOn, history>>

(* CREATE INDEX IF NOT EXISTS: index names are global. *)
CreateIndex ==
  /\ pc = "createIndex"
  /\ indexOn' = IF indexOn = NoTable THEN current ELSE indexOn
  /\ pc' = "running"
  /\ live' = contents[current]
  /\ UNCHANGED <<current, legacy, archived, contents, crashes, oldRuns, written, removed>>

Write ==
  /\ pc = "running" /\ written < MaxRow
  /\ contents' = [contents EXCEPT ![current] = @ \cup {written + 1}]
  /\ live' = live \cup {written + 1}
  /\ written' = written + 1
  /\ UNCHANGED <<schema, pc, crashes, oldRuns, removed>>

(* --clear-reasoning-cache: the live table is emptied; archived ones are not. *)
Clear ==
  /\ pc = "running"
  /\ contents' = [contents EXCEPT ![current] = {}]
  /\ live' = {}
  /\ removed' = removed \cup contents[current]
  /\ UNCHANGED <<schema, pc, crashes, oldRuns, written>>

Stop ==
  /\ pc = "running"
  /\ pc' = "down"
  /\ UNCHANGED <<schema, contents, history>>

(* The process dies, or a statement fails and NewReasoningStore returns. *)
Crash ==
  /\ pc \notin {"down", "running"} /\ crashes < MaxCrashes
  /\ pc' = "down" /\ crashes' = crashes + 1
  /\ UNCHANGED <<schema, contents, oldRuns, written, live, removed>>

(* An older build, run again: it uses reasoning_cache_entries, creating it   *)
(* when needed, its index statement needs a reasoning_cache, and its row cap *)
(* is enforced on that table instead of its own.                             *)
OldBuild ==
  /\ pc = "down" /\ oldRuns < MaxOldRuns /\ written < MaxRow /\ current # NoTable
  /\ indexOn' = IF indexOn = NoTable THEN current ELSE indexOn
  /\ \E pruned \in SUBSET contents[current] :
       LET capped == [contents EXCEPT ![current] = @ \ pruned] IN
       /\ removed' = removed \cup pruned
       /\ IF legacy = NoTable
          THEN /\ legacy' = NewTable
               /\ contents' = Append(capped, {written + 1})
               /\ live' = {written + 1}
          ELSE /\ contents' = [capped EXCEPT ![legacy] = @ \cup {written + 1}]
               /\ live' = contents[legacy] \cup {written + 1}
               /\ UNCHANGED legacy
  /\ written' = written + 1 /\ oldRuns' = oldRuns + 1
  /\ UNCHANGED <<current, archived, pc, crashes>>

Next == Start \/ Inspect \/ Archive \/ Adopt \/ DropIndex \/ CreateTable
        \/ CreateIndex \/ Write \/ Clear \/ Stop \/ Crash \/ OldBuild

Spec == Init /\ [][Next]_vars

-----------------------------------------------------------------------------
TypeOK ==
  /\ contents \in Seq(SUBSET Nat)
  /\ {current, legacy, indexOn} \cup archived \subseteq Tables \cup {NoTable}
  /\ pc \in PC
  /\ crashes \in Nat /\ oldRuns \in Nat /\ written \in Nat
  /\ live \subseteq Nat /\ removed \subseteq Nat

(* "Keeping it makes the migration lossless" (store.go:49-51): wherever the  *)
(* opening is interrupted, every row ever written and not removed is in a    *)
(* table that still has a name, and no table goes by two names.              *)
Named == ({current, legacy} \cup archived) \ {NoTable}
Lossless ==
  /\ \A r \in (1..written) \ removed : \E t \in Named : r \in contents[t]
  /\ current # NoTable => current # legacy /\ current \notin archived
  /\ legacy # NoTable => legacy \notin archived

(* "The live cache would look empty" (store.go:42-44): a process serves      *)
(* exactly the rows the previous process, of whichever build, had in its     *)
(* cache, however often the opening was interrupted in between.              *)
LiveRowsKept ==
  [][pc = "createIndex" /\ pc' = "running" => live' = live]_vars

(* What makes it inductive: the live rows are in the pluralized table while  *)
(* there is one, and each statement finds the schema its guard promises.     *)
LiveInv ==
  /\ legacy # NoTable => live = contents[legacy]
  /\ legacy = NoTable /\ current # NoTable => live = contents[current]
  /\ legacy = NoTable /\ current = NoTable => live = {}
  /\ pc = "archive" => legacy # NoTable /\ current # NoTable
  /\ pc = "adopt" => legacy # NoTable /\ current = NoTable
  /\ pc \in {"dropIndex", "createTable", "createIndex", "running"} => legacy = NoTable
  /\ pc \in {"dropIndex", "createIndex", "running"} => current # NoTable

(* store.go:79-80, 162-163: the index of an archived table must not keep the *)
(* active table without one.  Upgrades, downgrades and restarts that nothing *)
(* interrupts see to that; a stop between the rename and the drop of the     *)
(* index does not.                                                           *)
IndexUnlessInterrupted == crashes = 0 /\ pc = "running" => indexOn = current

(* What makes it inductive: only the table being adopted may still have its  *)
(* index elsewhere.                                                          *)
IndexInv ==
  crashes = 0 /\ legacy = NoTable /\ pc # "dropIndex" =>
    indexOn \in {NoTable, current} /\ (pc = "running" => indexOn = current)

=============================================================================

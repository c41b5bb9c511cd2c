---------------------- MODULE ReasoningStoreRefinement ----------------------
(***************************************************************************)
(* ReasoningStore implements ReasoningCache for any number of slots, keys  *)
(* and puts: as it stands while only one slot streams, and with streams    *)
(* that overlap as a cache that may also give up groups without a word and *)
(* promises no order between the versions of a key.                        *)
(*                                                                         *)
(* Eight effects on the entries are all a step of the store can have; each *)
(* is a step of the cache or leaves it alone, given that no version is     *)
(* ever in two places and, where order is promised, that a stream's        *)
(* entries move through the buffer, its hands and the table in the order   *)
(* they were put.                                                          *)
(***************************************************************************)
EXTENDS ReasoningStoreProofs, WellFoundedInduction

-----------------------------------------------------------------------------
(* What a step can do to the entries *)

NewEntry(t, k) == [key |-> k, ver |-> NextVersion(t)]
Counted(t)     == puts' = [puts EXCEPT ![t] = @ + 1]

Quiet == UNCHANGED <<rows, settled, batchBuf, items, puts>>
Buffers(t, k) ==
  /\ batchBuf' = Append(batchBuf, NewEntry(t, k)) /\ Counted(t)
  /\ UNCHANGED <<rows, settled, items>>
Holds(t, k) ==
  /\ items[t] = <<>> /\ items' = [items EXCEPT ![t] = <<NewEntry(t, k)>>]
  /\ Counted(t)
  /\ UNCHANGED <<rows, settled, batchBuf>>
Takes(t) ==
  /\ t \in StreamTasks /\ items[t] = <<>>
  /\ items' = [items EXCEPT ![t] = batchBuf] /\ batchBuf' = <<>>
  /\ UNCHANGED <<rows, settled, puts>>
Writes(t) ==
  /\ Upsert(items[t], stamp[t]) /\ items' = [items EXCEPT ![t] = <<>>]
  /\ UNCHANGED <<batchBuf, puts>>
GivesUp(t) ==
  /\ settled' = settled \cup Versions(items[t])
  /\ items' = [items EXCEPT ![t] = <<>>]
  /\ UNCHANGED <<rows, batchBuf, puts>>
Prunes(keys) == Delete(keys) /\ UNCHANGED <<batchBuf, items, puts>>

Effect ==
  \/ Quiet
  \/ \E t \in Tasks, k \in Keys :
       puts[t] < MaxPuts /\ (Buffers(t, k) \/ Holds(t, k))
  \/ \E t \in Tasks : Takes(t) \/ Writes(t) \/ GivesUp(t)
  \/ \E keys \in SUBSET Keys : Prunes(keys)

(* Who ends a batch has begun one and not ended it, whatever others do.      *)
EndInv == \A t \in Tasks : pc[t] = "ending" => streaming[t]

LEMMA EndInit == Init => EndInv
BY TasksAssumption DEF Init, EndInv

LEMMA EndStep == TypeOK /\ EndInv /\ [Next]_vars => EndInv'
<1> SUFFICES ASSUME TypeOK, EndInv, [Next]_vars PROVE EndInv'
  OBVIOUS
<1> USE TasksAssumption DEF EndInv, lockVars, taskVars, Goto, Return
<1>0. /\ pc \in [Tasks \cup {Main} -> TaskPC \cup MainPC]
      /\ streaming \in [Tasks -> BOOLEAN]
  BY DEF TypeOK
<1>1. ASSUME NEW t \in Tasks, Admit(t) \/ Finish(t) \/ Disconnect(t) \/ EndStream(t)
      PROVE  EndInv'
  BY <1>0, <1>1 DEF Admit, Finish, Disconnect, EndStream
<1>2. ASSUME NEW t \in Tasks, BeginBatch(t) PROVE EndInv'
  BY <1>0, <1>2 DEF BeginBatch
<1>3. ASSUME NEW t \in Tasks, NEW k \in Keys, Put(t, k) PROVE EndInv'
  BY <1>0, <1>3 DEF Put, PutBuffered, PutDirect
<1>4. ASSUME NEW t \in Tasks, DirectInsert(t) \/ DirectFails(t) PROVE EndInv'
  BY <1>0, <1>4 DEF DirectInsert, DirectFails
<1>5. ASSUME NEW t \in Tasks, TakeBatch(t) PROVE EndInv'
  BY <1>0, <1>5 DEF TakeBatch
<1>6. ASSUME NEW t \in Tasks, BeginTx(t) \/ BatchFails(t) PROVE EndInv'
  BY <1>0, <1>6 DEF BeginTx, BatchFails
<1>7. ASSUME NEW t \in Tasks, Commit(t) PROVE EndInv'
  BY <1>0, <1>7 DEF Commit
<1>8. ASSUME NEW t \in Tasks, LockForPrune(t) \/ PruneAge(t) PROVE EndInv'
  BY <1>0, <1>8 DEF LockForPrune, PruneAge
<1>9. ASSUME NEW t \in Tasks, PruneRows(t) \/ PruneFails(t) PROVE EndInv'
  BY <1>0, <1>9 DEF PruneRows, PruneFails, PruneReturns
<1>10. ASSUME Signal \/ CloseLock \/ ClosePruneAge \/ CloseDb \/ CloseAgain
       PROVE  EndInv'
  BY <1>0, <1>10 DEF Signal, CloseLock, ClosePruneAge, CloseDb, CloseAgain
<1>11. ASSUME Tick \/ UNCHANGED vars PROVE EndInv'
  BY <1>11 DEF Tick, vars
<1>. QED
  BY <1>1, <1>2, <1>3, <1>4, <1>5, <1>6, <1>7, <1>8, <1>9, <1>10, <1>11
     DEF Next, TaskNext, StoreCall, MainNext, Exited

LEMMA EffectOrBegin ==
  ASSUME TypeOK, BatchInv, EndInv, [Next]_vars
  PROVE  Effect \/ \E t \in Tasks : BeginBatch(t)
<1> USE DEF lockVars, taskVars
<1>1. ASSUME NEW t \in Tasks,
             \/ Admit(t) \/ Finish(t) \/ Disconnect(t) \/ EndStream(t)
             \/ BeginTx(t) \/ LockForPrune(t) \/ PruneFails(t)
      PROVE  Effect
  BY <1>1 DEF Admit, Finish, Disconnect, EndStream, BeginTx, LockForPrune, PruneFails,
              Effect, Quiet
<1>2. ASSUME NEW t \in Tasks, NEW k \in Keys, Put(t, k) PROVE Effect
  <2>1. PutBuffered(t, k) => Buffers(t, k)
    BY <1>2 DEF Put, PutBuffered, Buffers, NewEntry, Counted
  <2>2. items[t] = <<>>
    BY <1>2 DEF Put, BatchInv
  <2>3. PutDirect(t, k) => Holds(t, k)
    BY <1>2, <2>2 DEF Put, PutDirect, Holds, NewEntry, Counted
  <2>. QED
    BY <1>2, <2>1, <2>3 DEF Put, Effect
<1>3. ASSUME NEW t \in Tasks, DirectInsert(t) \/ Commit(t) PROVE Effect
  BY <1>3 DEF DirectInsert, Commit, Effect, Writes
<1>4. ASSUME NEW t \in Tasks, DirectFails(t) \/ BatchFails(t) PROVE Effect
  BY <1>4 DEF DirectFails, BatchFails, Effect, GivesUp
<1>5. ASSUME NEW t \in Tasks, TakeBatch(t) PROVE Effect
  <2>1. items[t] = <<>> /\ t \in StreamTasks
    BY <1>5 DEF TakeBatch, BatchInv, EndInv
  <2>. QED
    BY <1>5, <2>1 DEF TakeBatch, Effect, Takes
<1>6. ASSUME NEW t \in Tasks, PruneAge(t) \/ PruneRows(t) PROVE Effect
  BY <1>6, PrunedKeys DEF PruneAge, PruneRows, Effect, Prunes
<1>7. ASSUME ClosePruneAge \/ CloseDb PROVE Effect
  BY <1>7, PrunedKeys DEF ClosePruneAge, CloseDb, Effect, Prunes
<1>8. ASSUME Signal \/ CloseLock \/ CloseAgain \/ Tick \/ UNCHANGED vars PROVE Effect
  BY <1>8 DEF Signal, CloseLock, CloseAgain, Tick, vars, Effect, Quiet
<1>. QED
  BY <1>1, <1>2, <1>3, <1>4, <1>5, <1>6, <1>7, <1>8
     DEF Next, TaskNext, StoreCall, MainNext, Exited

LEMMA Effects ==
  SingleStream /\ TypeOK /\ BatchInv /\ SingleInv /\ [Next]_vars => Effect
<1> SUFFICES ASSUME SingleStream, TypeOK, BatchInv, SingleInv, [Next]_vars
             PROVE  Effect
  OBVIOUS
<1>1. ASSUME NEW t \in Tasks, BeginBatch(t) PROVE Effect
  <2>1. ~batching
    BY <1>1 DEF BeginBatch, BatchInv, SingleStream
  <2>. QED
    BY <1>1, <2>1 DEF BeginBatch, BatchInv, Effect, Quiet
<1>. QED
  BY <1>1, EffectOrBegin DEF SingleInv, EndInv

-----------------------------------------------------------------------------
(* Lemmas about sequences of entries *)

(* One writer's entries stand in the order they were put. *)
Ordered(seq) ==
  \A i, j \in DOMAIN seq :
    i < j /\ seq[i].ver[1] = seq[j].ver[1] => seq[i].ver[2] < seq[j].ver[2]

LEMMA EmptyAndSingle ==
  ASSUME NEW x
  PROVE  /\ Versions(<<>>) = {} /\ Ordered(<<>>)
         /\ Versions(<<x>>) = {x.ver} /\ Ordered(<<x>>)
<1>1. DOMAIN <<>> = {} /\ DOMAIN <<x>> = {1} /\ <<x>>[1] = x
  OBVIOUS
<1>. QED
  BY <1>1 DEF Versions, Ordered

LEMMA AppendOrdered ==
  ASSUME NEW seq \in Seq(Item), Ordered(seq), NEW x \in Item,
         \A v \in Versions(seq) : v[1] = x.ver[1] => v[2] < x.ver[2]
  PROVE  Ordered(Append(seq, x))
<1>1. DOMAIN Append(seq, x) = 1..(Len(seq) + 1) /\ DOMAIN seq = 1..Len(seq)
      /\ Len(seq) \in Nat
  OBVIOUS
<1>2. \A i \in 1..Len(seq) : Append(seq, x)[i] = seq[i]
  OBVIOUS
<1>3. Append(seq, x)[Len(seq) + 1] = x
  OBVIOUS
<1> DEFINE app == Append(seq, x)
<1>4. SUFFICES ASSUME NEW i \in DOMAIN app, NEW j \in DOMAIN app,
                      i < j, app[i].ver[1] = app[j].ver[1]
               PROVE  app[i].ver[2] < app[j].ver[2]
  BY DEF Ordered
<1>5. i \in DOMAIN seq /\ app[i] = seq[i]
  BY <1>1, <1>2, <1>4
<1>6. CASE j \in DOMAIN seq
  <2>1. app[j] = seq[j]
    BY <1>1, <1>2, <1>6
  <2>. QED
    BY <1>4, <1>5, <1>6, <2>1 DEF Ordered
<1>7. CASE j \notin DOMAIN seq
  <2>1. app[j] = x
    BY <1>1, <1>3, <1>7
  <2>2. seq[i].ver \in Versions(seq)
    BY <1>5 DEF Versions
  <2>. QED
    BY <1>4, <1>5, <2>1, <2>2
<1>. QED
  BY <1>6, <1>7

(* Two places of an ordered sequence hold different versions. *)
LEMMA OrderedDistinct ==
  ASSUME NEW seq \in Seq(Item), Ordered(seq),
         NEW i \in DOMAIN seq, NEW j \in DOMAIN seq, seq[i].ver = seq[j].ver
  PROVE  i = j
<1>1. DOMAIN seq = 1..Len(seq) /\ Len(seq) \in Nat
  OBVIOUS
<1>2. seq[i].ver \in Version
  <2>1. seq[i] \in Item
    OBVIOUS
  <2>. QED
    BY <2>1 DEF Item
<1>3. seq[i].ver[2] \in Int
  BY <1>2 DEF Version
<1>4. ~(i < j) /\ ~(j < i)
  BY <1>3 DEF Ordered
<1>. QED
  BY <1>1, <1>4

(* What a write shows and drops comes from the table and from the batch. *)
LEMMA UpsertSources ==
  ASSUME NEW seq \in Seq(Item), NEW at, Upsert(seq, at)
  PROVE  /\ \A k \in Keys : rows'[k].ver \in {rows[k].ver} \cup Versions(seq)
         /\ settled' \subseteq settled \cup {rows[k].ver : k \in Keys} \cup Versions(seq)
<1> DEFINE written == {seq[i].key : i \in Last(seq)}
           last(k) == CHOOSE i \in Last(seq) : seq[i].key = k
<1>1. Last(seq) \subseteq DOMAIN seq
  BY DEF Last
<1>2. \A i \in DOMAIN seq : seq[i].key \in Keys
  <2>1. \A i \in DOMAIN seq : seq[i] \in Item
    OBVIOUS
  <2>. QED
    BY <2>1 DEF Item
<1>3. ASSUME NEW k \in Keys PROVE rows'[k].ver \in {rows[k].ver} \cup Versions(seq)
  <2>1. CASE k \in written
    <3>1. last(k) \in DOMAIN seq
      BY <1>1, <2>1
    <3>2. rows'[k] = [ver |-> seq[last(k)].ver, at |-> at]
      BY <2>1 DEF Upsert
    <3> HIDE DEF last
    <3>3. rows'[k].ver = seq[last(k)].ver
      BY <3>2
    <3>. QED
      BY <3>1, <3>3 DEF Versions
  <2>2. CASE k \notin written
    <3>1. rows'[k] = rows[k]
      BY <2>2 DEF Upsert
    <3>. QED
      BY <3>1
  <2>. QED
    BY <2>1, <2>2
<1>4. settled' \subseteq settled \cup {rows[k].ver : k \in Keys} \cup Versions(seq)
  BY <1>1, <1>2 DEF Upsert, Versions
<1>. QED
  BY <1>3, <1>4

-----------------------------------------------------------------------------
(* Where versions can be *)

(* Only entries that were put have a number. *)
Numbered(v) == v[1] \in Tasks => v[2] <= puts[v[1]]

EntryInv ==
  /\ \A v \in settled : Numbered(v)
  /\ \A k \in Keys : Numbered(rows[k].ver)
  /\ \A v \in Versions(batchBuf) : Numbered(v)
  /\ Ordered(batchBuf)
  /\ \A t \in Tasks :
       /\ \A v \in Versions(items[t]) : Numbered(v) /\ v \notin Versions(batchBuf)
       /\ Ordered(items[t])
       /\ \A s \in Tasks \ {t} : \A v \in Versions(items[t]) : v \notin Versions(items[s])

(* Of a stream, the table holds what is older than all it has not written,   *)
(* which is in nobody else's hands.                                          *)
StreamInv ==
  /\ \A t \in Tasks : \A v \in Versions(items[t]) : v[1] \in StreamTasks => t = v[1]
  /\ \A k \in Keys : rows[k].ver[1] \in StreamTasks =>
       \A t \in Tasks : \A v \in Versions(batchBuf) \cup Versions(items[t]) :
         v[1] = rows[k].ver[1] => rows[k].ver[2] < v[2]

LEMMA EntryInit == Init => EntryInv
<1> SUFFICES ASSUME Init PROVE EntryInv
  OBVIOUS
<1>1. Versions(<<>>) = {} /\ Ordered(<<>>)
  BY EmptyAndSingle
<1>2. \A k \in Keys : rows[k].ver[1] \notin Tasks
  BY TasksAssumption DEF Init, NoRow, OldRow
<1>. QED
  BY <1>1, <1>2 DEF Init, EntryInv, Numbered

(* The next version of a task has a number no version has. *)
LEMMA NewEntryIsNew ==
  ASSUME TypeOK, NEW t \in Tasks, NEW k \in Keys
  PROVE  /\ NewEntry(t, k) \in Item
         /\ NewEntry(t, k).ver = <<t, puts[t] + 1>>
         /\ NewEntry(t, k).key = k
         /\ \A v \in Version : Numbered(v) /\ v[1] = t => v[2] < puts[t] + 1
         /\ \A v \in Version : Numbered(v) => v # NewEntry(t, k).ver
<1>1. NewEntry(t, k) \in Item /\ NewEntry(t, k).ver = <<t, puts[t] + 1>>
      /\ NewEntry(t, k).key = k
  BY NextVersionTyped DEF NewEntry, Item
<1>2. puts[t] \in Nat
  BY DEF TypeOK
<1>3. ASSUME NEW v \in Version, Numbered(v), v[1] = t PROVE v[2] < puts[t] + 1
  BY <1>2, <1>3 DEF Numbered, Version
<1>4. ASSUME NEW v \in Version, Numbered(v) PROVE v # NewEntry(t, k).ver
  <2> SUFFICES ASSUME v = <<t, puts[t] + 1>> PROVE FALSE
    BY <1>1
  <2>1. v[1] = t /\ v[2] = puts[t] + 1
    OBVIOUS
  <2>. QED
    BY <1>2, <1>4, <2>1 DEF Numbered
<1>. QED
  BY <1>1, <1>3, <1>4

(* Putting raises the writer's count and nobody else's. *)
LEMMA CountedNumbers ==
  ASSUME TypeOK, NEW t \in Tasks, NEW k \in Keys, Counted(t)
  PROVE  /\ \A v \in Version : Numbered(v) => Numbered(v)'
         /\ \A v : v = NewEntry(t, k).ver => Numbered(v)'
<1>1. puts \in [Tasks -> Nat]
  BY DEF TypeOK
<1>2. ASSUME NEW v \in Version, Numbered(v) PROVE Numbered(v)'
  <2>1. v[2] \in Nat
    BY DEF Version
  <2>. QED
    BY <1>1, <1>2, <2>1 DEF Numbered, Counted
<1>3. puts'[t] = puts[t] + 1
  BY <1>1 DEF Counted
<1>4. ASSUME NEW v, v = <<t, puts[t] + 1>> PROVE Numbered(v)'
  <2>1. v[1] = t /\ v[2] = puts[t] + 1
    BY <1>4
  <2>. QED
    BY <1>1, <1>3, <2>1 DEF Numbered
<1>5. NewEntry(t, k).ver = <<t, puts[t] + 1>>
  BY NewEntryIsNew
<1>. QED
  BY <1>2, <1>4, <1>5

LEMMA EntryStep == TypeOK /\ EntryInv /\ Effect => EntryInv'
<1> SUFFICES ASSUME TypeOK, EntryInv, Effect PROVE EntryInv'
  OBVIOUS
<1>1. /\ batchBuf \in Seq(Item) /\ items \in [Tasks -> Seq(Item)]
      /\ settled \subseteq Version /\ \A k \in Keys : rows[k].ver \in Version
  BY DEF TypeOK, Row
<1>2. /\ Versions(batchBuf) \subseteq Version
      /\ \A t \in Tasks : Versions(items[t]) \subseteq Version
  BY <1>1, ItemVersions
<1>3. ASSUME UNCHANGED puts PROVE \A v : Numbered(v) => Numbered(v)'
  BY <1>3 DEF Numbered
<1>4. CASE Quiet
  BY <1>4 DEF Quiet, EntryInv, Numbered, Versions, Ordered
<1>5. ASSUME NEW t \in Tasks, NEW k \in Keys, Buffers(t, k) PROVE EntryInv'
  <2> DEFINE x == NewEntry(t, k)
  <2>1. x \in Item /\ x.ver = <<t, puts[t] + 1>>
    BY NewEntryIsNew
  <2>2. /\ Versions(Append(batchBuf, x)) = Versions(batchBuf) \cup {x.ver}
        /\ Ordered(Append(batchBuf, x))
    <3>1. \A v \in Versions(batchBuf) : v[1] = x.ver[1] => v[2] < x.ver[2]
      BY <1>2, <2>1, NewEntryIsNew DEF EntryInv
    <3>. QED
      BY <1>1, <2>1, <3>1, AppendVersions, AppendOrdered DEF EntryInv
  <2>3. \A s \in Tasks : x.ver \notin Versions(items[s])
    BY <1>2, NewEntryIsNew DEF EntryInv
  <2>4. /\ \A v \in Version : Numbered(v) => Numbered(v)'
        /\ \A v : v = x.ver => Numbered(v)'
    BY <1>5, CountedNumbers DEF Buffers
  <2>5. batchBuf' = Append(batchBuf, x) /\ UNCHANGED <<rows, settled, items>>
    BY <1>5 DEF Buffers
  <2> HIDE DEF x
  <2>6. Versions(batchBuf)' = Versions(batchBuf) \cup {x.ver} /\ Ordered(batchBuf)'
    BY <2>2, <2>5 DEF Versions, Ordered
  <2>7. \A s \in Tasks : Versions(items[s])' = Versions(items[s])
                         /\ (Ordered(items[s]) => Ordered(items[s])')
    BY <2>5 DEF Versions, Ordered
  <2>. QED
    BY <1>1, <1>2, <2>3, <2>4, <2>5, <2>6, <2>7 DEF EntryInv
<1>6. ASSUME NEW t \in Tasks, NEW k \in Keys, Holds(t, k) PROVE EntryInv'
  <2> DEFINE x == NewEntry(t, k)
  <2>1. /\ \A s \in Tasks : x.ver \notin Versions(items[s])
        /\ x.ver \notin Versions(batchBuf)
    BY <1>2, NewEntryIsNew DEF EntryInv
  <2>2. /\ \A v \in Version : Numbered(v) => Numbered(v)'
        /\ \A v : v = x.ver => Numbered(v)'
    BY <1>6, CountedNumbers DEF Holds
  <2>3. /\ items' = [items EXCEPT ![t] = <<x>>]
        /\ UNCHANGED <<rows, settled, batchBuf>>
    BY <1>6 DEF Holds
  <2> HIDE DEF x
  <2>4. Versions(items[t])' = {x.ver} /\ Ordered(items[t])'
    <3>1. items'[t] = <<x>>
      BY <1>1, <2>3
    <3>. QED
      BY <3>1, EmptyAndSingle DEF Versions, Ordered
  <2>5. \A s \in Tasks \ {t} : Versions(items[s])' = Versions(items[s])
                               /\ (Ordered(items[s]) => Ordered(items[s])')
    <3>1. \A s \in Tasks \ {t} : items'[s] = items[s]
      BY <1>1, <2>3
    <3>. QED
      BY <3>1 DEF Versions, Ordered
  <2>6. Versions(batchBuf)' = Versions(batchBuf)
        /\ (Ordered(batchBuf) => Ordered(batchBuf)')
    BY <2>3 DEF Versions, Ordered
  <2>7. /\ \A v \in settled' : Numbered(v)'
        /\ \A l \in Keys : Numbered(rows[l].ver)'
        /\ \A v \in Versions(batchBuf)' : Numbered(v)'
        /\ \A s \in Tasks : \A v \in Versions(items[s])' : Numbered(v)'
    BY <1>1, <1>2, <2>2, <2>3, <2>4, <2>5, <2>6 DEF EntryInv, Numbered
  <2>. QED
    BY <2>1, <2>4, <2>5, <2>6, <2>7 DEF EntryInv
<1>7. ASSUME NEW t \in Tasks, Takes(t) PROVE EntryInv'
  <2>1. /\ items' = [items EXCEPT ![t] = batchBuf] /\ batchBuf' = <<>>
        /\ items[t] = <<>> /\ UNCHANGED <<rows, settled, puts>>
    BY <1>7 DEF Takes
  <2>2. Versions(batchBuf)' = {} /\ Ordered(batchBuf)'
    BY <2>1, EmptyAndSingle DEF Versions, Ordered
  <2>3. Versions(items[t])' = Versions(batchBuf) /\ (Ordered(batchBuf) => Ordered(items[t])')
    <3>1. items'[t] = batchBuf
      BY <1>1, <2>1
    <3>. QED
      BY <3>1 DEF Versions, Ordered
  <2>4. \A s \in Tasks \ {t} : Versions(items[s])' = Versions(items[s])
                               /\ (Ordered(items[s]) => Ordered(items[s])')
    <3>1. \A s \in Tasks \ {t} : items'[s] = items[s]
      BY <1>1, <2>1
    <3>. QED
      BY <3>1 DEF Versions, Ordered
  <2>5. /\ \A v \in settled' : Numbered(v)'
        /\ \A l \in Keys : Numbered(rows[l].ver)'
        /\ \A s \in Tasks : \A v \in Versions(items[s])' : Numbered(v)'
    BY <1>3, <2>1, <2>3, <2>4 DEF EntryInv, Numbered
  <2>. QED
    BY <2>2, <2>3, <2>4, <2>5 DEF EntryInv
<1>8. ASSUME NEW t \in Tasks, Writes(t) \/ GivesUp(t) PROVE EntryInv'
  <2>1. items' = [items EXCEPT ![t] = <<>>] /\ UNCHANGED <<batchBuf, puts>>
    BY <1>8 DEF Writes, GivesUp
  <2>2. /\ \A k \in Keys : rows'[k].ver \in {rows[k].ver} \cup Versions(items[t])
        /\ settled' \subseteq settled \cup {rows[k].ver : k \in Keys} \cup Versions(items[t])
    BY <1>1, <1>8, UpsertSources DEF Writes, GivesUp
  <2>3. Versions(items[t])' = {} /\ Ordered(items[t])'
    <3>1. items'[t] = <<>>
      BY <1>1, <2>1
    <3>. QED
      BY <3>1, EmptyAndSingle DEF Versions, Ordered
  <2>4. \A s \in Tasks \ {t} : Versions(items[s])' = Versions(items[s])
                               /\ (Ordered(items[s]) => Ordered(items[s])')
    <3>1. \A s \in Tasks \ {t} : items'[s] = items[s]
      BY <1>1, <2>1
    <3>. QED
      BY <3>1 DEF Versions, Ordered
  <2>5. Versions(batchBuf)' = Versions(batchBuf)
        /\ (Ordered(batchBuf) => Ordered(batchBuf)')
    BY <2>1 DEF Versions, Ordered
  <2>6. /\ \A v \in settled' : Numbered(v)
        /\ \A k \in Keys : Numbered(rows'[k].ver)
    BY <2>2 DEF EntryInv
  <2>7. /\ \A v \in settled' : Numbered(v)'
        /\ \A k \in Keys : Numbered(rows[k].ver)'
    BY <2>1, <2>6 DEF Numbered
  <2>. QED
    BY <1>3, <2>1, <2>3, <2>4, <2>5, <2>7 DEF EntryInv
<1>9. ASSUME NEW keys \in SUBSET Keys, Prunes(keys) PROVE EntryInv'
  <2>1. UNCHANGED <<batchBuf, items, puts>>
    BY <1>9 DEF Prunes
  <2>2. /\ \A k \in Keys : rows'[k].ver = rows[k].ver \/ rows'[k] = NoRow
        /\ settled' \subseteq settled \cup {rows[k].ver : k \in Keys}
    BY <1>9 DEF Prunes, Delete
  <2>3. \A k \in Keys : rows'[k] = NoRow => Numbered(rows'[k].ver)
    BY TasksAssumption DEF NoRow, Numbered
  <2>4. /\ \A v \in settled' : Numbered(v)
        /\ \A k \in Keys : Numbered(rows'[k].ver)
    BY <2>2, <2>3 DEF EntryInv
  <2>5. /\ \A v \in settled' : Numbered(v)'
        /\ \A k \in Keys : Numbered(rows[k].ver)'
    BY <2>1, <2>4 DEF Numbered
  <2>6. /\ Versions(batchBuf)' = Versions(batchBuf)
        /\ Ordered(batchBuf) => Ordered(batchBuf)'
        /\ \A s \in Tasks : Versions(items[s])' = Versions(items[s])
                            /\ (Ordered(items[s]) => Ordered(items[s])')
    BY <2>1 DEF Versions, Ordered
  <2>. QED
    BY <1>3, <2>1, <2>5, <2>6 DEF EntryInv
<1>. QED
  BY <1>4, <1>5, <1>6, <1>7, <1>8, <1>9 DEF Effect

-----------------------------------------------------------------------------
(* A stream's entries move in order *)

(* A batch is open only between BeginBatch and EndBatch of its handler. *)
PlaceInv == \A t \in Tasks : streaming[t] => pc[t] \in {"handling", "ending"}

LEMMA PlaceInit == Init => PlaceInv
BY TasksAssumption DEF Init, PlaceInv

LEMMA PlaceStep == TypeOK /\ SingleInv /\ PlaceInv /\ [Next]_vars => PlaceInv'
<1> SUFFICES ASSUME TypeOK, SingleInv, PlaceInv, [Next]_vars PROVE PlaceInv'
  OBVIOUS
<1> USE TasksAssumption DEF PlaceInv, SingleInv, lockVars, taskVars, Goto, Return
<1>0. /\ pc \in [Tasks \cup {Main} -> TaskPC \cup MainPC]
      /\ streaming \in [Tasks -> BOOLEAN]
  BY DEF TypeOK
<1>1. ASSUME NEW t \in Tasks, Admit(t) \/ Finish(t) \/ Disconnect(t) \/ EndStream(t)
      PROVE  PlaceInv'
  BY <1>0, <1>1 DEF Admit, Finish, Disconnect, EndStream
<1>2. ASSUME NEW t \in Tasks, BeginBatch(t) PROVE PlaceInv'
  BY <1>0, <1>2 DEF BeginBatch
<1>3. ASSUME NEW t \in Tasks, NEW k \in Keys, Put(t, k) PROVE PlaceInv'
  BY <1>0, <1>3 DEF Put, PutBuffered, PutDirect
<1>4. ASSUME NEW t \in Tasks, DirectInsert(t) \/ DirectFails(t) PROVE PlaceInv'
  BY <1>0, <1>4 DEF DirectInsert, DirectFails
<1>5. ASSUME NEW t \in Tasks, TakeBatch(t) PROVE PlaceInv'
  BY <1>0, <1>5 DEF TakeBatch
<1>6. ASSUME NEW t \in Tasks, BeginTx(t) \/ BatchFails(t) PROVE PlaceInv'
  BY <1>0, <1>6 DEF BeginTx, BatchFails
<1>7. ASSUME NEW t \in Tasks, Commit(t) PROVE PlaceInv'
  BY <1>0, <1>7 DEF Commit
<1>8. ASSUME NEW t \in Tasks, LockForPrune(t) \/ PruneAge(t) PROVE PlaceInv'
  BY <1>0, <1>8 DEF LockForPrune, PruneAge
<1>9. ASSUME NEW t \in Tasks, PruneRows(t) \/ PruneFails(t) PROVE PlaceInv'
  BY <1>0, <1>9 DEF PruneRows, PruneFails, PruneReturns
<1>10. ASSUME Signal \/ CloseLock \/ ClosePruneAge \/ CloseDb \/ CloseAgain
       PROVE  PlaceInv'
  BY <1>0, <1>10 DEF Signal, CloseLock, ClosePruneAge, CloseDb, CloseAgain
<1>11. ASSUME Tick \/ UNCHANGED vars PROVE PlaceInv'
  BY <1>11 DEF Tick, vars
<1>. QED
  BY <1>1, <1>2, <1>3, <1>4, <1>5, <1>6, <1>7, <1>8, <1>9, <1>10, <1>11
     DEF Next, TaskNext, StoreCall, MainNext, Exited

(* While the one stream has entries in its hands nothing is buffered. *)
LEMMA HandsBeforeBuffer ==
  ASSUME SingleStream, TypeOK, BatchInv, SingleInv, PlaceInv,
         NEW t \in Tasks, t \in StreamTasks, items[t] # <<>>
  PROVE  batchBuf = <<>>
<1>1. ~streaming[t]
  BY DEF BatchInv, PlaceInv
<1>2. \A s \in Tasks : streaming[s] => s = t
  BY DEF BatchInv, SingleStream
<1>. QED
  BY <1>1, <1>2 DEF BatchInv

LEMMA StreamInit == Init => StreamInv
<1> SUFFICES ASSUME Init PROVE StreamInv
  OBVIOUS
<1>1. Versions(<<>>) = {}
  BY EmptyAndSingle
<1>2. \A k \in Keys : rows[k].ver[1] \notin StreamTasks
  BY TasksAssumption DEF Init, NoRow, OldRow
<1>. QED
  BY <1>1, <1>2 DEF Init, StreamInv

LEMMA StreamStep ==
  /\ SingleStream /\ TypeOK /\ BatchInv /\ SingleInv /\ PlaceInv /\ EntryInv /\ StreamInv
  /\ Effect
  => StreamInv'
<1> SUFFICES ASSUME SingleStream, TypeOK, BatchInv, SingleInv, PlaceInv, EntryInv,
                    StreamInv, Effect
             PROVE  StreamInv'
  OBVIOUS
<1> USE TasksAssumption
<1>1. /\ batchBuf \in Seq(Item) /\ items \in [Tasks -> Seq(Item)]
      /\ \A k \in Keys : rows[k].ver \in Version
  BY DEF TypeOK, Row
<1>2. /\ Versions(batchBuf) \subseteq Version
      /\ \A t \in Tasks : Versions(items[t]) \subseteq Version
  BY <1>1, ItemVersions
<1>3. Versions(<<>>) = {}
  BY EmptyAndSingle
<1>4. CASE Quiet
  BY <1>4 DEF Quiet, StreamInv, Versions
<1>5. ASSUME NEW t \in Tasks, NEW k \in Keys, Buffers(t, k) PROVE StreamInv'
  <2> DEFINE x == NewEntry(t, k)
  <2>1. x \in Item /\ x.ver = <<t, puts[t] + 1>>
    BY NewEntryIsNew
  <2>2. Versions(Append(batchBuf, x)) = Versions(batchBuf) \cup {x.ver}
    BY <1>1, <2>1, AppendVersions
  <2>3. \A l \in Keys : rows[l].ver[1] = x.ver[1] => rows[l].ver[2] < x.ver[2]
    BY <1>1, <2>1, NewEntryIsNew DEF EntryInv
  <2>4. batchBuf' = Append(batchBuf, x) /\ UNCHANGED <<rows, items>>
    BY <1>5 DEF Buffers
  <2> HIDE DEF x
  <2>5. /\ Versions(batchBuf)' = Versions(batchBuf) \cup {x.ver}
        /\ \A s \in Tasks : Versions(items[s])' = Versions(items[s])
    BY <2>2, <2>4 DEF Versions
  <2>. QED
    BY <2>3, <2>4, <2>5 DEF StreamInv
<1>6. ASSUME NEW t \in Tasks, NEW k \in Keys, Holds(t, k) PROVE StreamInv'
  <2> DEFINE x == NewEntry(t, k)
  <2>1. x.ver = <<t, puts[t] + 1>>
    BY NewEntryIsNew
  <2>2. \A l \in Keys : rows[l].ver[1] = x.ver[1] => rows[l].ver[2] < x.ver[2]
    BY <1>1, <2>1, NewEntryIsNew DEF EntryInv
  <2>3. items' = [items EXCEPT ![t] = <<x>>] /\ UNCHANGED <<rows, batchBuf>>
    BY <1>6 DEF Holds
  <2>4. x.ver[1] = t
    BY <2>1
  <2> HIDE DEF x
  <2>5. Versions(items[t])' = {x.ver}
    <3>1. items'[t] = <<x>>
      BY <1>1, <2>3
    <3>. QED
      BY <3>1, EmptyAndSingle DEF Versions
  <2>6. \A s \in Tasks \ {t} : Versions(items[s])' = Versions(items[s])
    BY <1>1, <2>3 DEF Versions
  <2>7. Versions(batchBuf)' = Versions(batchBuf)
    BY <2>3 DEF Versions
  <2>. QED
    BY <2>2, <2>3, <2>4, <2>5, <2>6, <2>7 DEF StreamInv
<1>7. ASSUME NEW t \in Tasks, Takes(t) PROVE StreamInv'
  <2>1. /\ items' = [items EXCEPT ![t] = batchBuf] /\ batchBuf' = <<>>
        /\ UNCHANGED rows /\ t \in StreamTasks
    BY <1>7 DEF Takes
  <2>2. Versions(batchBuf)' = {} /\ Versions(items[t])' = Versions(batchBuf)
    <3>1. items'[t] = batchBuf
      BY <1>1, <2>1
    <3>. QED
      BY <1>3, <2>1, <3>1 DEF Versions
  <2>3. \A s \in Tasks \ {t} : Versions(items[s])' = Versions(items[s])
    BY <1>1, <2>1 DEF Versions
  <2>4. \A s \in StreamTasks : s = t
    BY <2>1 DEF SingleStream
  <2>. QED
    BY <2>1, <2>2, <2>3, <2>4 DEF StreamInv
<1>8. ASSUME NEW t \in Tasks, Writes(t) \/ GivesUp(t) PROVE StreamInv'
  <2>1. items' = [items EXCEPT ![t] = <<>>] /\ UNCHANGED batchBuf
    BY <1>8 DEF Writes, GivesUp
  <2>2. \A k \in Keys : rows'[k].ver \in {rows[k].ver} \cup Versions(items[t])
    BY <1>1, <1>8, UpsertSources DEF Writes, GivesUp
  <2>3. Versions(items[t])' = {} /\ Versions(batchBuf)' = Versions(batchBuf)
    <3>1. items'[t] = <<>>
      BY <1>1, <2>1
    <3>. QED
      BY <1>3, <2>1, <3>1 DEF Versions
  <2>4. \A s \in Tasks \ {t} : Versions(items[s])' = Versions(items[s])
    BY <1>1, <2>1 DEF Versions
  <2>5. \A s \in Tasks : Versions(items[s])' \subseteq Versions(items[s])
    BY <2>3, <2>4
  <2>6. ASSUME NEW k \in Keys, rows'[k].ver \in Versions(items[t]),
               rows'[k].ver[1] \in StreamTasks, NEW s \in Tasks,
               NEW v \in Versions(batchBuf)' \cup Versions(items[s])',
               v[1] = rows'[k].ver[1]
        PROVE  FALSE
    <3>1. t = rows'[k].ver[1] /\ t \in StreamTasks
      BY <2>6 DEF StreamInv
    <3>2. batchBuf = <<>>
      <4>1. items[t] # <<>>
        BY <1>3, <2>6
      <4>. QED
        BY <3>1, <4>1, HandsBeforeBuffer
    <3>3. v \in Versions(items[s])'
      BY <1>3, <2>3, <2>6, <3>2
    <3>4. s = t
      BY <2>5, <2>6, <3>1, <3>3 DEF StreamInv
    <3>. QED
      BY <2>3, <3>3, <3>4
  <2>7. ASSUME NEW k \in Keys, rows'[k].ver = rows[k].ver,
               rows'[k].ver[1] \in StreamTasks, NEW s \in Tasks,
               NEW v \in Versions(batchBuf)' \cup Versions(items[s])',
               v[1] = rows'[k].ver[1]
        PROVE  rows'[k].ver[2] < v[2]
    BY <2>3, <2>5, <2>7 DEF StreamInv
  <2>8. ASSUME NEW s \in Tasks, NEW v \in Versions(items[s])', v[1] \in StreamTasks
        PROVE  s = v[1]
    BY <2>5, <2>8 DEF StreamInv
  <2>. QED
    BY <2>2, <2>6, <2>7, <2>8 DEF StreamInv
<1>9. ASSUME NEW keys \in SUBSET Keys, Prunes(keys) PROVE StreamInv'
  <2>1. UNCHANGED <<batchBuf, items>>
    BY <1>9 DEF Prunes
  <2>2. \A k \in Keys : rows'[k] = rows[k] \/ rows'[k] = NoRow
    BY <1>9 DEF Prunes, Delete
  <2>3. NoRow.ver[1] \notin StreamTasks
    BY DEF NoRow
  <2>4. Versions(batchBuf)' = Versions(batchBuf)
        /\ \A s \in Tasks : Versions(items[s])' = Versions(items[s])
    BY <2>1 DEF Versions
  <2>. QED
    BY <2>2, <2>3, <2>4 DEF StreamInv
<1>. QED
  BY <1>4, <1>5, <1>6, <1>7, <1>8, <1>9 DEF Effect

-----------------------------------------------------------------------------
(* What a write shows *)

LEMMA LastExists ==
  ASSUME NEW seq \in Seq(Item), NEW i \in DOMAIN seq
  PROVE  \E j \in Last(seq) : seq[j].key = seq[i].key
<1> DEFINE D == {n \in Nat : \E j \in DOMAIN seq : seq[j].key = seq[i].key /\ n = Len(seq) - j}
<1>1. DOMAIN seq = 1..Len(seq) /\ Len(seq) \in Nat
  OBVIOUS
<1>2. D \subseteq Nat /\ D # {}
  <2>1. Len(seq) - i \in D
    BY <1>1
  <2>. QED
    BY <2>1
<1>3. \E n \in D : \A m \in D : <<m, n>> \notin OpToRel(<, Nat)
  <2> HIDE DEF D
  <2>. QED
    BY <1>2, NatLessThanWellFounded, WFMin
<1>4. PICK n \in D : \A m \in D : ~(m < n)
  BY <1>3 DEF OpToRel
<1>5. PICK j \in DOMAIN seq : seq[j].key = seq[i].key /\ n = Len(seq) - j
  BY <1>4
<1>6. ASSUME NEW l \in DOMAIN seq, l > j, seq[l].key = seq[j].key PROVE FALSE
  <2>1. Len(seq) - l \in D /\ Len(seq) - l < n
    BY <1>1, <1>5, <1>6
  <2>. QED
    BY <1>4, <2>1
<1>7. j \in Last(seq)
  BY <1>6 DEF Last
<1>. QED
  BY <1>5, <1>7

KeysOf(seq) == {seq[i].key : i \in DOMAIN seq}

(* Every key of a batch shows its last entry in it; what was shown for these *)
(* keys and the other entries of the batch are settled.                      *)
LEMMA UpsertShows ==
  ASSUME NEW seq \in Seq(Item), Ordered(seq), NEW at, Upsert(seq, at)
  PROVE  /\ KeysOf(seq) \subseteq Keys
         /\ \A k \in Keys \ KeysOf(seq) : rows'[k] = rows[k]
         /\ \A k \in KeysOf(seq) :
              \E i \in Last(seq) : seq[i].key = k /\ rows'[k].ver = seq[i].ver
         /\ settled' = settled \cup {rows[k].ver : k \in KeysOf(seq)}
              \cup (Versions(seq) \ {rows'[k].ver : k \in KeysOf(seq)})
<1> DEFINE written == {seq[i].key : i \in Last(seq)}
           last(k) == CHOOSE i \in Last(seq) : seq[i].key = k
<1>1. Last(seq) \subseteq DOMAIN seq
  BY DEF Last
<1>2. KeysOf(seq) = written
  <2>1. KeysOf(seq) \subseteq written
    BY LastExists DEF KeysOf
  <2>2. written \subseteq KeysOf(seq)
    BY <1>1 DEF KeysOf
  <2>. QED
    BY <2>1, <2>2
<1>3. KeysOf(seq) \subseteq Keys
  <2>1. \A i \in DOMAIN seq : seq[i] \in Item
    OBVIOUS
  <2>. QED
    BY <2>1 DEF Item, KeysOf
<1>4. ASSUME NEW k \in KeysOf(seq)
      PROVE  /\ last(k) \in Last(seq) /\ seq[last(k)].key = k
             /\ rows'[k].ver = seq[last(k)].ver
  <2>1. last(k) \in Last(seq) /\ seq[last(k)].key = k
    BY <1>2, <1>4
  <2>2. rows'[k] = [ver |-> seq[last(k)].ver, at |-> at]
    BY <1>2, <1>3, <1>4 DEF Upsert
  <2> HIDE DEF last
  <2>3. rows'[k].ver = seq[last(k)].ver
    BY <2>2
  <2>. QED
    BY <2>1, <2>3
<1>5. \A k \in Keys \ KeysOf(seq) : rows'[k] = rows[k]
  BY <1>2 DEF Upsert
(* An index is last for its key exactly when the table shows it. *)
<1>6. {seq[i].ver : i \in DOMAIN seq \ Last(seq)}
        = Versions(seq) \ {rows'[k].ver : k \in KeysOf(seq)}
  <2> HIDE DEF last
  <2>1. ASSUME NEW i \in DOMAIN seq \ Last(seq), NEW k \in KeysOf(seq),
               seq[i].ver = rows'[k].ver
        PROVE  FALSE
    <3>1. i = last(k)
      BY <1>1, <1>4, <2>1, OrderedDistinct
    <3>. QED
      BY <1>4, <2>1, <3>1
  <2>2. ASSUME NEW i \in Last(seq)
        PROVE  seq[i].ver \in {rows'[k].ver : k \in KeysOf(seq)}
    <3>1. seq[i].key \in KeysOf(seq)
      BY <1>1, <2>2 DEF KeysOf
    <3> DEFINE c == last(seq[i].key)
    <3>2. c \in Last(seq) /\ seq[c].key = seq[i].key
          /\ rows'[seq[i].key].ver = seq[c].ver
      BY <1>4, <3>1
    <3> HIDE DEF c
    <3>3. c = i
      <4>1. DOMAIN seq = 1..Len(seq) /\ Len(seq) \in Nat
        OBVIOUS
      <4>2. ~(c > i) /\ ~(i > c) /\ c \in DOMAIN seq /\ i \in DOMAIN seq
        BY <2>2, <3>2 DEF Last
      <4>. QED
        BY <4>1, <4>2
    <3>. QED
      BY <3>1, <3>2, <3>3
  <2>. QED
    BY <1>1, <2>1, <2>2 DEF Versions
<1>7. settled' = settled \cup {rows[k].ver : k \in KeysOf(seq)}
              \cup (Versions(seq) \ {rows'[k].ver : k \in KeysOf(seq)})
  BY <1>2, <1>6 DEF Upsert
<1>8. \A k \in KeysOf(seq) :
        \E i \in Last(seq) : seq[i].key = k /\ rows'[k].ver = seq[i].ver
  <2> HIDE DEF last
  <2>. QED
    BY <1>4
<1>. QED
  BY <1>3, <1>5, <1>7, <1>8

-----------------------------------------------------------------------------
(* Effects on the groups *)

LEMMA EntriesAre ==
  ASSUME NEW seq \in Seq(Item)
  PROVE  /\ Entries(seq) \subseteq Item
         /\ Entries(seq) = {} <=> seq = <<>>
         /\ Versions(seq) = {e.ver : e \in Entries(seq)}
         /\ KeysOf(seq) = {e.key : e \in Entries(seq)}
         /\ \A x \in Item : Entries(Append(seq, x)) = Entries(seq) \cup {x}
<1>1. DOMAIN seq = 1..Len(seq) /\ Len(seq) \in Nat
  OBVIOUS
<1>2. Entries(seq) \subseteq Item
  BY DEF Entries
<1>3. Entries(seq) = {} <=> seq = <<>>
  <2>1. ASSUME seq # <<>> PROVE seq[1] \in Entries(seq)
    <3>1. 1 \in DOMAIN seq
      BY <1>1, <2>1
    <3>. QED
      BY <3>1 DEF Entries
  <2>2. DOMAIN <<>> = {}
    OBVIOUS
  <2>. QED
    BY <2>1, <2>2 DEF Entries
<1>4. Versions(seq) = {e.ver : e \in Entries(seq)}
  BY DEF Versions, Entries
<1>5. KeysOf(seq) = {e.key : e \in Entries(seq)}
  BY DEF KeysOf, Entries
<1>6. ASSUME NEW x \in Item PROVE Entries(Append(seq, x)) = Entries(seq) \cup {x}
  <2>1. DOMAIN Append(seq, x) = 1..(Len(seq) + 1)
    OBVIOUS
  <2>2. \A i \in 1..Len(seq) : Append(seq, x)[i] = seq[i]
    OBVIOUS
  <2>3. Append(seq, x)[Len(seq) + 1] = x
    OBVIOUS
  <2>. QED
    BY <1>1, <2>1, <2>2, <2>3 DEF Entries
<1>. QED
  BY <1>2, <1>3, <1>4, <1>5, <1>6

(* A group is what one pair of hands, or the buffer, has. *)
LEMMA GroupsAre ==
  /\ \A g : g \in Groups <=>
       g # {} /\ (g = Entries(batchBuf) \/ \E t \in Tasks : g = Entries(items[t]))
  /\ \A g : g \in Groups' <=>
       g # {} /\ (g = Entries(batchBuf') \/ \E t \in Tasks : g = Entries(items'[t]))
BY DEF Groups, Entries

(* Two non-empty holders never hold the same entries. *)
LEMMA HoldersApart ==
  ASSUME TypeOK, EntryInv, NEW t \in Tasks, Entries(items[t]) # {}
  PROVE  /\ Entries(items[t]) # Entries(batchBuf)
         /\ \A s \in Tasks \ {t} : Entries(items[t]) # Entries(items[s])
<1>1. /\ items[t] \in Seq(Item) /\ batchBuf \in Seq(Item)
      /\ \A s \in Tasks : items[s] \in Seq(Item)
  BY DEF TypeOK
<1>2. Versions(items[t]) # {}
  BY DEF Versions, Entries
<1>3. Versions(items[t]) # Versions(batchBuf)
      /\ \A s \in Tasks \ {t} : Versions(items[t]) # Versions(items[s])
  BY <1>2 DEF EntryInv
<1>. QED
  BY <1>1, <1>3, EntriesAre

(* Emptying a pair of hands removes its group. *)
LEMMA EmptyHands ==
  ASSUME TypeOK, EntryInv, NEW t \in Tasks,
         items' = [items EXCEPT ![t] = <<>>], UNCHANGED batchBuf
  PROVE  Groups' = Groups \ {Entries(items[t])}
<1>1. /\ items \in [Tasks -> Seq(Item)] /\ items'[t] = <<>>
      /\ \A s \in Tasks \ {t} : items'[s] = items[s]
  BY DEF TypeOK
<1>2. Entries(<<>>) = {}
  BY DEF Entries
<1>. QED
  BY <1>1, <1>2, GroupsAre, HoldersApart

(* A put adds a group with one entry, or adds its entry to the buffer's.     *)
LEMMA HoldGroups ==
  ASSUME TypeOK, NEW t \in Tasks, NEW k \in Keys, Holds(t, k)
  PROVE  Groups' = Groups \cup {{NewEntry(t, k)}}
<1> DEFINE x == NewEntry(t, k)
<1>1. /\ items \in [Tasks -> Seq(Item)] /\ items[t] = <<>> /\ items'[t] = <<x>>
      /\ \A s \in Tasks \ {t} : items'[s] = items[s]
      /\ batchBuf' = batchBuf
  BY DEF TypeOK, Holds
<1> HIDE DEF x
<1>2. Entries(<<>>) = {} /\ Entries(<<x>>) = {x}
  BY DEF Entries
<1>3. \A g : g \in Groups <=>
        g # {} /\ (g = Entries(batchBuf)
                   \/ \E s \in Tasks \ {t} : g = Entries(items[s]))
  BY <1>1, <1>2, GroupsAre
<1>4. \A g : g \in Groups' <=>
        g # {} /\ (g = Entries(batchBuf) \/ g = {x}
                   \/ \E s \in Tasks \ {t} : g = Entries(items[s]))
  <2>1. \A s \in Tasks \ {t} : Entries(items'[s]) = Entries(items[s])
    BY <1>1
  <2>2. Entries(items'[t]) = {x}
    BY <1>1, <1>2, Zenon
  <2>3. Entries(batchBuf') = Entries(batchBuf)
    BY <1>1 DEF Entries
  <2>4. \A g : (\E s \in Tasks : g = Entries(items'[s])) <=>
          g = {x} \/ \E s \in Tasks \ {t} : g = Entries(items[s])
    BY <2>1, <2>2, Zenon
  <2>. QED
    BY <2>3, <2>4, GroupsAre
<1>5. Groups' = Groups \cup {{x}}
  BY <1>3, <1>4
<1>. QED
  BY <1>5 DEF x

LEMMA BufferGroups ==
  ASSUME TypeOK, EntryInv, NEW t \in Tasks, NEW k \in Keys, Buffers(t, k)
  PROVE  \/ Groups' = Groups \cup {{NewEntry(t, k)}}
         \/ \E g \in Groups : Groups' = (Groups \ {g}) \cup {g \cup {NewEntry(t, k)}}
<1> DEFINE x == NewEntry(t, k)
           buf == Entries(batchBuf)
<1>1. batchBuf \in Seq(Item) /\ items' = items /\ batchBuf' = Append(batchBuf, x)
  BY DEF TypeOK, Buffers
<1>2. x \in Item
  BY NewEntryIsNew
<1> HIDE DEF x
<1>3. Entries(batchBuf') = buf \cup {x}
  BY <1>1, <1>2, EntriesAre
<1>4. \A s \in Tasks : Entries(items[s]) # {} => Entries(items[s]) # buf
  BY HoldersApart
<1> HIDE DEF buf
<1>5. CASE buf = {}
  <2>1. Groups' = Groups \cup {{x}}
    BY <1>1, <1>3, <1>5, GroupsAre DEF buf
  <2>. QED
    BY <2>1 DEF x
<1>6. CASE buf # {}
  <2>1. buf \in Groups
    BY <1>6, GroupsAre DEF buf
  <2>2. \A g : g \in Groups <=>
          g # {} /\ (g = buf \/ \E s \in Tasks : g = Entries(items[s]))
    BY GroupsAre DEF buf
  <2>3. \A g : g \in Groups' <=>
          g # {} /\ (g = buf \cup {x} \/ \E s \in Tasks : g = Entries(items[s]))
    <3>1. \A s \in Tasks : Entries(items'[s]) = Entries(items[s])
      BY <1>1 DEF Entries
    <3>. QED
      BY <1>3, <3>1, GroupsAre
  <2>4. \A g : g \in Groups' <=> g \in (Groups \ {buf}) \cup {buf \cup {x}}
    <3>1. \A g : g # buf =>
            (g # {} /\ (\E s \in Tasks : g = Entries(items[s])) <=> g \in Groups)
      BY <2>2
    <3>2. ~ \E s \in Tasks : buf = Entries(items[s])
      BY <1>4, <1>6
    <3>3. buf \cup {x} # {}
      OBVIOUS
    <3>. QED
      BY <2>3, <3>1, <3>2, <3>3
  <2>5. Groups' = (Groups \ {buf}) \cup {buf \cup {x}}
    BY <2>4
  <2>. QED
    BY <2>1, <2>5 DEF x
<1>. QED
  BY <1>5, <1>6

LEMMA TakeGroups ==
  ASSUME TypeOK, EntryInv, NEW t \in Tasks, Takes(t)
  PROVE  Groups' = Groups
<1>1. /\ items \in [Tasks -> Seq(Item)] /\ items[t] = <<>> /\ items'[t] = batchBuf
      /\ \A s \in Tasks \ {t} : items'[s] = items[s]
      /\ batchBuf' = <<>>
  BY DEF TypeOK, Takes
<1>2. Entries(<<>>) = {}
  BY DEF Entries
<1>3. \A g : g \in Groups <=>
        g # {} /\ (g = Entries(batchBuf)
                   \/ \E s \in Tasks \ {t} : g = Entries(items[s]))
  BY <1>1, <1>2, GroupsAre
<1>4. \A g : g \in Groups' <=>
        g # {} /\ (g = Entries(batchBuf)
                   \/ \E s \in Tasks \ {t} : g = Entries(items[s]))
  <2>1. \A s \in Tasks \ {t} : Entries(items'[s]) = Entries(items[s])
    BY <1>1
  <2>2. Entries(items'[t]) = Entries(batchBuf)
    BY <1>1, Zenon
  <2>3. Entries(batchBuf') = {}
    BY <1>1 DEF Entries
  <2>. QED
    BY <2>1, <2>2, <2>3, GroupsAre
<1>. QED
  BY <1>3, <1>4

-----------------------------------------------------------------------------
(* Every effect is a step of the cache *)

LEMMA ShownAre ==
  /\ \A k \in Keys : Shown[k] = rows[k].ver
  /\ \A k \in Keys : Shown'[k] = rows'[k].ver
BY DEF Shown

(* The versions of all groups are those in the buffer and in all hands. *)
LEMMA AcceptedAre ==
  ASSUME TypeOK
  PROVE  \A v \in Cache!VersionsOf(Cache!Accepted) :
           v \in Versions(batchBuf) \/ \E t \in Tasks : v \in Versions(items[t])
<1> SUFFICES ASSUME NEW v \in Cache!VersionsOf(Cache!Accepted)
             PROVE  v \in Versions(batchBuf) \/ \E t \in Tasks : v \in Versions(items[t])
  OBVIOUS
<1>1. PICK g \in Groups : \E e \in g : v = e.ver
  BY DEF Cache!VersionsOf, Cache!Accepted
<1>2. batchBuf \in Seq(Item) /\ \A t \in Tasks : items[t] \in Seq(Item)
  BY DEF TypeOK
<1>3. g = Entries(batchBuf) => v \in Versions(batchBuf)
  BY <1>1, <1>2, EntriesAre
<1>4. \A t \in Tasks : g = Entries(items[t]) => v \in Versions(items[t])
  BY <1>1, <1>2, EntriesAre
<1>. QED
  BY <1>1, <1>3, <1>4, GroupsAre

LEMMA PutAccepts ==
  ASSUME TypeOK, EntryInv, NEW t \in Tasks, NEW k \in Keys, puts[t] < MaxPuts,
         Buffers(t, k) \/ Holds(t, k)
  PROVE  Cache!Next
<1>1. /\ NewEntry(t, k) = [key |-> k, ver |-> <<t, puts[t] + 1>>]
      /\ puts[t] + 1 \in 1..MaxPuts
  BY BoundsAssumption DEF NewEntry, NextVersion, TypeOK
<1>2. /\ Versions(batchBuf) \subseteq Version
      /\ \A s \in Tasks : Versions(items[s]) \subseteq Version
      /\ settled \subseteq Version /\ \A l \in Keys : rows[l].ver \in Version
  BY ItemVersions DEF TypeOK, Row
<1>3. /\ NewEntry(t, k).ver \notin settled
      /\ NewEntry(t, k).ver \notin Cache!VersionsOf(Cache!Accepted)
      /\ \A l \in Keys : NewEntry(t, k).ver # Shown[l]
  BY <1>2, NewEntryIsNew, AcceptedAre, ShownAre DEF EntryInv
<1>4. \/ Groups' = Groups \cup {{NewEntry(t, k)}}
      \/ \E g \in Groups : Groups' = (Groups \ {g}) \cup {g \cup {NewEntry(t, k)}}
  BY HoldGroups, BufferGroups
<1>5. UNCHANGED <<Shown, settled>>
  BY DEF Buffers, Holds, Shown
<1>6. Cache!Accept(t, puts[t] + 1, k)
  <2>1. NewEntry(t, k).ver
          \notin settled \cup Cache!VersionsOf(Cache!Accepted) \cup {Shown[l] : l \in Keys}
    BY <1>3
  <2>. QED
    BY <1>1, <1>4, <1>5, <2>1 DEF Cache!Accept
<1>. QED
  BY <1>1, <1>6 DEF Cache!Next

(* A write shows, for each key of the batch, an entry no older than the others *)
(* of its writer there, and for a stream no older than what it replaces.       *)
LEMMA NewestShown ==
  ASSUME TypeOK, EntryInv, StreamInv, NEW t \in Tasks, Writes(t),
         NEW k \in KeysOf(items[t])
  PROVE  /\ k \in Keys
         /\ \E i \in DOMAIN items[t] : items[t][i].key = k /\ rows'[k].ver = items[t][i].ver
         /\ \A j \in DOMAIN items[t] :
              items[t][j].key = k /\ items[t][j].ver[1] = rows'[k].ver[1]
                => items[t][j].ver[2] <= rows'[k].ver[2]
         /\ rows'[k].ver[1] \in StreamTasks /\ rows[k].ver[1] = rows'[k].ver[1]
              => rows[k].ver[2] <= rows'[k].ver[2]
<1> DEFINE seq == items[t]
<1>1. /\ seq \in Seq(Item) /\ Ordered(seq) /\ Upsert(seq, stamp[t])
      /\ \A l \in Keys : rows[l].ver \in Version
  BY DEF Writes, TypeOK, EntryInv, Row
<1>2. k \in Keys
  BY <1>1, UpsertShows
<1>3. PICK i \in Last(seq) : seq[i].key = k /\ rows'[k].ver = seq[i].ver
  BY <1>1, UpsertShows
<1>4. i \in DOMAIN seq /\ \A j \in DOMAIN seq : seq[j] \in Item
  BY <1>1, <1>3 DEF Last
<1>5. \A j \in DOMAIN seq : seq[j].ver \in Version /\ seq[j].ver[2] \in Nat
  BY <1>4 DEF Item, Version
<1>6. ASSUME NEW j \in DOMAIN seq, seq[j].key = k, seq[j].ver[1] = seq[i].ver[1]
      PROVE  seq[j].ver[2] <= seq[i].ver[2]
  <2>1. DOMAIN seq = 1..Len(seq) /\ Len(seq) \in Nat
    BY <1>1
  <2>2. ~(j > i)
    BY <1>3, <1>6 DEF Last
  <2>3. CASE j = i
    BY <1>5, <2>3
  <2>4. CASE j < i
    <3>1. seq[j].ver[2] < seq[i].ver[2]
      BY <1>1, <1>4, <1>6, <2>4 DEF Ordered
    <3>. QED
      BY <1>4, <1>5, <3>1
  <2>. QED
    BY <1>4, <2>1, <2>2, <2>3, <2>4
<1>7. ASSUME seq[i].ver[1] \in StreamTasks, rows[k].ver[1] = seq[i].ver[1]
      PROVE  rows[k].ver[2] <= seq[i].ver[2]
  <2>1. rows[k].ver[2] < seq[i].ver[2]
    BY <1>2, <1>4, <1>7 DEF StreamInv, Versions
  <2>2. rows[k].ver[2] \in Nat
    BY <1>1, <1>2 DEF Version
  <2>. QED
    BY <1>4, <1>5, <2>1, <2>2
<1>. QED
  BY <1>2, <1>3, <1>4, <1>6, <1>7

(* What a write does to the groups and to what is shown. *)
LEMMA WritesGroup ==
  ASSUME TypeOK, EntryInv, NEW t \in Tasks, Writes(t), items[t] # <<>>
  PROVE  LET G    == Entries(items[t])
             keys == {e.key : e \in G}
             vers == {e.ver : e \in G}
         IN /\ G \in Groups /\ Groups' = Groups \ {G}
            /\ keys = KeysOf(items[t]) /\ keys \subseteq Keys
            /\ \A k \in Keys \ keys : Shown'[k] = Shown[k]
            /\ \A k \in keys : \E e \in G : e.key = k /\ Shown'[k] = e.ver
            /\ Shown' \in [Keys -> vers \cup {Shown[k] : k \in Keys}]
            /\ settled' = settled \cup {Shown[k] : k \in keys}
                            \cup (vers \ {Shown'[k] : k \in keys})
<1> DEFINE seq == items[t]
           G == Entries(seq)
           keys == {e.key : e \in G}
           vers == {e.ver : e \in G}
<1>1. /\ seq \in Seq(Item) /\ Ordered(seq) /\ Upsert(seq, stamp[t])
      /\ \A k \in Keys : rows[k].ver \in Version
  BY DEF Writes, TypeOK, EntryInv, Row
<1>2. G # {} /\ G \subseteq Item /\ Versions(seq) = vers /\ KeysOf(seq) = keys
  BY <1>1, EntriesAre
<1>3. /\ KeysOf(seq) \subseteq Keys
      /\ \A k \in Keys \ KeysOf(seq) : rows'[k] = rows[k]
      /\ \A k \in KeysOf(seq) :
           \E i \in Last(seq) : seq[i].key = k /\ rows'[k].ver = seq[i].ver
      /\ settled' = settled \cup {rows[k].ver : k \in KeysOf(seq)}
           \cup (Versions(seq) \ {rows'[k].ver : k \in KeysOf(seq)})
  BY <1>1, UpsertShows
<1>4. G \in Groups
  BY <1>2, GroupsAre
<1>5. Groups' = Groups \ {G}
  BY EmptyHands DEF Writes
<1>6. ASSUME NEW k \in KeysOf(seq)
      PROVE  \E e \in G : e.key = k /\ Shown'[k] = e.ver
  <2>1. PICK i \in Last(seq) : seq[i].key = k /\ rows'[k].ver = seq[i].ver
    BY <1>3
  <2>2. seq[i] \in G /\ Shown'[k] = seq[i].ver
    BY <1>3, <2>1, ShownAre DEF Last, Entries
  <2>. QED
    BY <2>1, <2>2
<1>7. \A k \in Keys \ KeysOf(seq) : Shown'[k] = Shown[k]
  BY <1>3, ShownAre
<1>8. Shown' \in [Keys -> Versions(seq) \cup {Shown[k] : k \in Keys}]
  <2>1. \A k \in KeysOf(seq) : Shown'[k] \in Versions(seq)
    BY <1>2, <1>6
  <2>2. Shown' = [k \in Keys |-> Shown'[k]]
    BY DEF Shown
  <2>. QED
    BY <1>7, <2>1, <2>2
<1>9. settled' = settled \cup {Shown[k] : k \in KeysOf(seq)}
           \cup (Versions(seq) \ {Shown'[k] : k \in KeysOf(seq)})
  <2>1. \A k \in KeysOf(seq) : Shown[k] = rows[k].ver /\ Shown'[k] = rows'[k].ver
    BY <1>3, ShownAre
  <2>. QED
    BY <1>3, <2>1
<1> HIDE DEF seq, G, keys, vers
<1>10. /\ G \in Groups /\ Groups' = Groups \ {G}
       /\ keys = KeysOf(seq) /\ keys \subseteq Keys
       /\ \A k \in Keys \ keys : Shown'[k] = Shown[k]
       /\ \A k \in keys : \E e \in G : e.key = k /\ Shown'[k] = e.ver
       /\ Shown' \in [Keys -> vers \cup {Shown[k] : k \in Keys}]
       /\ settled' = settled \cup {Shown[k] : k \in keys}
                       \cup (vers \ {Shown'[k] : k \in keys})
  BY <1>2, <1>3, <1>4, <1>5, <1>6, <1>7, <1>8, <1>9
<1>. QED
  BY <1>10 DEF seq, G, keys, vers

LEMMA WritePublishes ==
  ASSUME TypeOK, EntryInv, StreamInv, NEW t \in Tasks, Writes(t), items[t] # <<>>
  PROVE  Cache!Next
<1> DEFINE G == Entries(items[t])
           keys == {e.key : e \in G}
           vers == {e.ver : e \in G}
<1>1. /\ G \in Groups /\ Groups' = Groups \ {G}
      /\ keys = KeysOf(items[t]) /\ keys \subseteq Keys
      /\ \A k \in Keys \ keys : Shown'[k] = Shown[k]
      /\ \A k \in keys : \E e \in G : e.key = k /\ Shown'[k] = e.ver
      /\ Shown' \in [Keys -> vers \cup {Shown[k] : k \in Keys}]
      /\ settled' = settled \cup {Shown[k] : k \in keys}
                      \cup (vers \ {Shown'[k] : k \in keys})
  BY WritesGroup
<1>2. ASSUME NEW k \in keys
      PROVE  /\ Shown'[k] \in Cache!VersionsFor(G, k)
             /\ \A v \in Cache!VersionsFor(G, k) \cup {Shown[k]} :
                  Shown'[k][1] \in StreamTasks /\ v[1] = Shown'[k][1] => v[2] <= Shown'[k][2]
  <2>1. k \in KeysOf(items[t]) /\ k \in Keys
    BY <1>1
  <2>2. Shown'[k] = rows'[k].ver /\ Shown[k] = rows[k].ver
    BY <2>1, ShownAre
  <2>3. Shown'[k] \in Cache!VersionsFor(G, k)
    BY <1>1 DEF Cache!VersionsFor
  <2>4. \A v \in Cache!VersionsFor(G, k) :
          \E j \in DOMAIN items[t] : items[t][j].key = k /\ v = items[t][j].ver
    BY DEF Cache!VersionsFor, Entries
  <2>5. \A v \in Cache!VersionsFor(G, k) : v[1] = rows'[k].ver[1] => v[2] <= rows'[k].ver[2]
    BY <2>1, <2>4, NewestShown
  <2>6. rows'[k].ver[1] \in StreamTasks /\ rows[k].ver[1] = rows'[k].ver[1]
          => rows[k].ver[2] <= rows'[k].ver[2]
    BY <2>1, NewestShown
  <2>. QED
    BY <2>2, <2>3, <2>5, <2>6
<1>3. Cache!VersionsOf(G) = vers
  BY DEF Cache!VersionsOf
<1>4. Cache!Publish(G)
  <2> HIDE DEF G
  <2>. QED
    BY <1>1, <1>2, <1>3 DEF Cache!Publish
<1>. QED
  BY <1>1, <1>4 DEF Cache!Next

LEMMA GivingUpFails ==
  ASSUME TypeOK, EntryInv, NEW t \in Tasks, GivesUp(t), items[t] # <<>>
  PROVE  Cache!Next
<1> DEFINE G == Entries(items[t])
<1>1. items[t] \in Seq(Item)
  BY DEF TypeOK
<1>2. G # {} /\ Versions(items[t]) = Cache!VersionsOf(G)
  BY <1>1, EntriesAre DEF Cache!VersionsOf
<1>3. G \in Groups
  BY <1>2, GroupsAre
<1>4. Groups' = Groups \ {G}
  BY EmptyHands DEF GivesUp
<1>5. UNCHANGED Shown
  BY DEF GivesUp, Shown
<1>6. Cache!Fail(G)
  BY <1>2, <1>4, <1>5 DEF GivesUp, Cache!Fail
<1>. QED
  BY <1>3, <1>6 DEF Cache!Next

(* An empty pair of hands: nothing is written or given up. *)
LEMMA EmptyEffect ==
  ASSUME TypeOK, EntryInv, NEW t \in Tasks, Writes(t) \/ GivesUp(t), items[t] = <<>>
  PROVE  UNCHANGED <<Shown, Groups, settled>>
<1>1. DOMAIN items[t] = {} /\ Versions(<<>>) = {}
  <2>1. DOMAIN <<>> = {}
    OBVIOUS
  <2>. QED
    BY <2>1, EmptyAndSingle
<1>2. Entries(items[t]) = {}
  BY DEF Entries
<1>3. UNCHANGED Groups
  <2>1. Groups' = Groups \ {{}}
    BY <1>2, EmptyHands DEF Writes, GivesUp
  <2>. QED
    BY <2>1, GroupsAre
<1>4. (\A k \in Keys : rows'[k].ver = rows[k].ver) /\ settled' = settled
  <2>1. CASE Writes(t)
    <3>1. Last(items[t]) = {}
      BY <1>1 DEF Last
    <3>. QED
      BY <1>1, <2>1, <3>1 DEF Writes, Upsert
  <2>2. CASE GivesUp(t)
    BY <1>1, <2>2 DEF GivesUp
  <2>. QED
    BY <2>1, <2>2
<1>5. UNCHANGED Shown
  BY <1>4 DEF Shown
<1>. QED
  BY <1>3, <1>4, <1>5

LEMMA PruneForgets ==
  ASSUME NEW keys \in SUBSET Keys, Prunes(keys)
  PROVE  Cache!Next
<1>1. UNCHANGED Groups
  BY DEF Prunes, Groups, Entries
<1>2. Shown' = [k \in Keys |-> IF k \in keys THEN <<Nobody, 0>> ELSE Shown[k]]
  BY DEF Prunes, Delete, Shown, NoRow
<1>3. settled' = settled \cup {Shown[k] : k \in keys}
  BY ShownAre DEF Prunes, Delete
<1>4. Cache!Forget(keys)
  BY <1>1, <1>2, <1>3 DEF Cache!Forget, Cache!Absent
<1>. QED
  BY <1>4 DEF Cache!Next

LEMMA EffectsAreSteps ==
  TypeOK /\ EntryInv /\ StreamInv /\ Effect
  => Cache!Next \/ UNCHANGED <<Shown, Groups, settled>>
<1> SUFFICES ASSUME TypeOK, EntryInv, StreamInv, Effect
             PROVE  Cache!Next \/ UNCHANGED <<Shown, Groups, settled>>
  OBVIOUS
<1>1. CASE Quiet
  BY <1>1 DEF Quiet, Shown, Groups, Entries
<1>2. ASSUME NEW t \in Tasks, Takes(t) PROVE UNCHANGED <<Shown, Groups, settled>>
  BY <1>2, TakeGroups DEF Takes, Shown
<1>. QED
  BY <1>1, <1>2, PutAccepts, WritePublishes, GivingUpFails, EmptyEffect, PruneForgets
     DEF Effect

-----------------------------------------------------------------------------
(* The refinement *)

LEMMA CacheInit == Init => Cache!Init
<1> SUFFICES ASSUME Init PROVE Cache!Init
  OBVIOUS
<1>1. Shown \in [Keys -> {<<Nobody, 0>>, <<Nobody, 1>>}]
  <2>1. \A k \in Keys : rows[k] = NoRow \/ rows[k] = OldRow
    BY DEF Init
  <2>2. NoRow.ver = <<Nobody, 0>> /\ OldRow.ver = <<Nobody, 1>>
    BY DEF NoRow, OldRow
  <2>3. \A k \in Keys : rows[k].ver \in {<<Nobody, 0>>, <<Nobody, 1>>}
    BY <2>1, <2>2
  <2>. QED
    BY <2>3 DEF Shown
<1>2. Groups = {}
  <2>1. Entries(<<>>) = {}
    BY DEF Entries
  <2>. QED
    BY <2>1, GroupsAre DEF Init
<1>. QED
  BY <1>1, <1>2 DEF Init, Cache!Init, Cache!Absent, Cache!Old

(* With at most one slot that streams, and any number of others, the store   *)
(* with its lock, buffer, connection and clock behaves as the plain cache    *)
(* its callers count on.                                                     *)
THEOREM Implements == ASSUME SingleStream PROVE Spec => ImplementsCache
<1> DEFINE Inv == TypeOK /\ BatchInv /\ SingleInv /\ PlaceInv /\ EntryInv /\ StreamInv
<1>1. Init => Inv
  BY TypeInit, BatchInit, SingleInit, PlaceInit, EntryInit, StreamInit
<1>2. Inv /\ [Next]_vars => Inv'
  BY TypeStep, BatchStep, SingleStep, PlaceStep, Effects, EntryStep, StreamStep
<1>3. Inv /\ [Next]_vars => [Cache!Next]_<<Shown, Groups, settled>>
  BY Effects, EffectsAreSteps
<1>. QED
  BY <1>1, <1>2, <1>3, CacheInit, PTL DEF Spec, ImplementsCache, Cache!Spec

(* The entries a stream has put for one key reach the table in the order it  *)
(* put them: the complete text never gives way to a partial one.             *)
THEOREM StreamsInOrder == ASSUME SingleStream PROVE Spec => StreamWritesInOrder
<1> DEFINE Inv == TypeOK /\ BatchInv /\ SingleInv /\ PlaceInv /\ EntryInv /\ StreamInv
           InOrder == \A k \in Keys :
             rows'[k].ver # rows[k].ver /\ rows'[k].ver[1] \in StreamTasks =>
               \A old \in {rows[k].ver} \cup WrittenFor(k) :
                 old[1] = rows'[k].ver[1] => old[2] <= rows'[k].ver[2]
<1>1. Init => Inv
  BY TypeInit, BatchInit, SingleInit, PlaceInit, EntryInit, StreamInit
<1>2. Inv /\ [Next]_vars => Inv'
  BY TypeStep, BatchStep, SingleStep, PlaceStep, Effects, EntryStep, StreamStep
<1>3. ASSUME Inv, Effect PROVE InOrder
  <2> SUFFICES ASSUME NEW k \in Keys, rows'[k].ver # rows[k].ver,
                      rows'[k].ver[1] \in StreamTasks,
                      NEW old \in {rows[k].ver} \cup WrittenFor(k),
                      old[1] = rows'[k].ver[1]
               PROVE  old[2] <= rows'[k].ver[2]
    OBVIOUS
  <2>1. ~\E keys \in SUBSET Keys : Prunes(keys)
    BY TasksAssumption DEF Prunes, Delete, NoRow
  <2>2. PICK t \in Tasks : Writes(t)
    BY <1>3, <2>1 DEF Effect, Quiet, Buffers, Holds, Takes, GivesUp
  <2>3. k \in KeysOf(items[t])
    <3>1. items[t] \in Seq(Item) /\ Ordered(items[t]) /\ Upsert(items[t], stamp[t])
      BY <1>3, <2>2 DEF Writes, TypeOK, EntryInv
    <3>. QED
      BY <3>1, UpsertShows
  <2>4. ASSUME old \in WrittenFor(k)
        PROVE  \E j \in DOMAIN items[t] : items[t][j].key = k /\ items[t][j].ver = old
    <3>1. \A u \in Tasks : items'[u] # items[u] => u = t
      BY <1>3, <2>2 DEF Writes, TypeOK
    <3>2. PICK u \in Tasks : \E i \in DOMAIN items[u] :
                                items'[u] # items[u] /\ items[u][i] = [key |-> k, ver |-> old]
      BY <2>4 DEF WrittenFor
    <3>. QED
      BY <3>1, <3>2
  <2>5. CASE old = rows[k].ver
    BY <1>3, <2>2, <2>3, <2>5, NewestShown
  <2>6. CASE old \in WrittenFor(k)
    BY <1>3, <2>2, <2>3, <2>4, <2>6, NewestShown
  <2>. QED
    BY <2>5, <2>6
<1>4. ASSUME UNCHANGED vars PROVE InOrder
  BY <1>4 DEF vars
<1>5. Inv /\ [Next]_vars => [InOrder]_vars
  BY <1>3, <1>4, Effects
<1>. QED
  BY <1>1, <1>2, <1>5, PTL DEF Spec, StreamWritesInOrder

-----------------------------------------------------------------------------
(* Any number of streams *)

(* What has been put is in nobody's hands, in neither buffer nor table, and  *)
(* nobody was told: a BeginBatch has emptied the buffer another stream had   *)
(* filled (store.go:196-204).                                                *)
WasPut(v) == \E t \in Tasks : \E n \in 1..puts[t] : v = <<t, n>>
Vanished  == {v \in UNION {{<<t, n>> : n \in 1..puts[t]} : t \in Tasks} : ~Held(v)}
Lost      == settled \cup Vanished

(* A cache that also gives up groups without a word, and promises no order.  *)
Shared == INSTANCE ReasoningCache WITH
  Writers <- Tasks, Streams <- {}, shown <- Shown, groups <- Groups, gone <- Lost

SharesCache == Shared!Spec

LEMMA VanishedAre == \A v : v \in Vanished <=> WasPut(v) /\ ~Held(v)
BY DEF Vanished, WasPut

(* What waits has been put, and is not what the table shows.                 *)
Waits(v) == WasPut(v) /\ \A k \in Keys : rows[k].ver # v
ApartInv ==
  /\ \A v \in Versions(batchBuf) : Waits(v)
  /\ \A t \in Tasks : \A v \in Versions(items[t]) : Waits(v)

Drops == batchBuf' = <<>> /\ UNCHANGED <<rows, settled, items, puts>>

LEMMA SharedEffects ==
  TypeOK /\ BatchInv /\ EndInv /\ [Next]_vars => Effect \/ Drops
BY EffectOrBegin DEF BeginBatch, Drops

(* Putting puts one version and no other.                                    *)
LEMMA PutOne ==
  ASSUME TypeOK, NEW t \in Tasks, NEW k \in Keys, Counted(t)
  PROVE  /\ \A v : WasPut(v)' <=> WasPut(v) \/ v = NewEntry(t, k).ver
         /\ ~WasPut(NewEntry(t, k).ver)
<1>1. puts \in [Tasks -> Nat] /\ puts' = [puts EXCEPT ![t] = @ + 1]
  BY DEF TypeOK, Counted
<1>2. NewEntry(t, k).ver = <<t, puts[t] + 1>>
  BY NewEntryIsNew
<1>3. /\ \A s \in Tasks \ {t} : puts'[s] = puts[s]
      /\ puts'[t] = puts[t] + 1 /\ puts[t] \in Nat
      /\ 1..(puts[t] + 1) = (1..puts[t]) \cup {puts[t] + 1}
  BY <1>1
<1>4. ~WasPut(<<t, puts[t] + 1>>)
  BY <1>3 DEF WasPut
<1>5. \A v : WasPut(v)' <=> WasPut(v) \/ v = <<t, puts[t] + 1>>
  BY <1>3 DEF WasPut
<1>. QED
  BY <1>2, <1>4, <1>5

LEMMA ApartInit == Init => ApartInv
<1>1. Versions(<<>>) = {}
  BY EmptyAndSingle
<1>. QED
  BY <1>1 DEF Init, ApartInv

LEMMA ApartStep == TypeOK /\ EntryInv /\ ApartInv /\ (Effect \/ Drops) => ApartInv'
<1> SUFFICES ASSUME TypeOK, EntryInv, ApartInv, Effect \/ Drops PROVE ApartInv'
  OBVIOUS
<1>1. /\ batchBuf \in Seq(Item) /\ items \in [Tasks -> Seq(Item)]
      /\ \A k \in Keys : rows[k].ver \in Version /\ Numbered(rows[k].ver)
      /\ Versions(<<>>) = {}
  BY EmptyAndSingle DEF TypeOK, Row, EntryInv
<1>2. UNCHANGED puts => \A v : WasPut(v)' <=> WasPut(v)
  BY DEF WasPut
<1>3. CASE Quiet
  BY <1>3 DEF Quiet, ApartInv, Waits, WasPut, Versions
<1>4. ASSUME NEW t \in Tasks, NEW k \in Keys, Buffers(t, k) \/ Holds(t, k)
      PROVE  ApartInv'
  <2> DEFINE x == NewEntry(t, k)
  <2>1. x \in Item /\ \A l \in Keys : rows[l].ver # x.ver
    BY <1>1, NewEntryIsNew
  <2>2. \A v : WasPut(v)' <=> WasPut(v) \/ v = x.ver
    BY <1>4, PutOne DEF Buffers, Holds
  <2>3. rows' = rows
    BY <1>4 DEF Buffers, Holds
  <2> HIDE DEF x
  <2>4. CASE Buffers(t, k)
    <3>1. Versions(batchBuf)' = Versions(batchBuf) \cup {x.ver}
          /\ \A s \in Tasks : Versions(items[s])' = Versions(items[s])
      <4>1. batchBuf' = Append(batchBuf, x) /\ items' = items
        BY <2>4 DEF Buffers, x
      <4>2. Versions(Append(batchBuf, x)) = Versions(batchBuf) \cup {x.ver}
        BY <1>1, <2>1, AppendVersions
      <4>. QED
        BY <4>1, <4>2 DEF Versions
    <3>. QED
      BY <2>1, <2>2, <2>3, <3>1 DEF ApartInv, Waits
  <2>5. CASE Holds(t, k)
    <3>1. Versions(batchBuf)' = Versions(batchBuf)
          /\ Versions(items[t])' = {x.ver}
          /\ \A s \in Tasks \ {t} : Versions(items[s])' = Versions(items[s])
      <4>1. batchBuf' = batchBuf /\ items' = [items EXCEPT ![t] = <<x>>]
        BY <2>5 DEF Holds, x
      <4>2. items'[t] = <<x>> /\ \A s \in Tasks \ {t} : items'[s] = items[s]
        BY <1>1, <4>1
      <4>. QED
        BY <4>1, <4>2, EmptyAndSingle DEF Versions
    <3>. QED
      BY <2>1, <2>2, <2>3, <3>1 DEF ApartInv, Waits
  <2>. QED
    BY <1>4, <2>4, <2>5
<1>5. ASSUME NEW t \in Tasks, Takes(t) PROVE ApartInv'
  <2>1. /\ batchBuf' = <<>> /\ items' = [items EXCEPT ![t] = batchBuf]
        /\ UNCHANGED <<rows, puts>>
    BY <1>5 DEF Takes
  <2>2. items'[t] = batchBuf /\ \A s \in Tasks \ {t} : items'[s] = items[s]
    BY <1>1, <2>1
  <2>3. Versions(batchBuf)' = {} /\ Versions(items[t])' = Versions(batchBuf)
        /\ \A s \in Tasks \ {t} : Versions(items[s])' = Versions(items[s])
    BY <1>1, <2>1, <2>2 DEF Versions
  <2>. QED
    BY <2>1, <1>2, <2>3 DEF ApartInv, Waits
<1>6. ASSUME NEW t \in Tasks, Writes(t) \/ GivesUp(t) PROVE ApartInv'
  <2>1. items' = [items EXCEPT ![t] = <<>>] /\ UNCHANGED <<batchBuf, puts>>
    BY <1>6 DEF Writes, GivesUp
  <2>2. \A k \in Keys : rows'[k].ver \in {rows[k].ver} \cup Versions(items[t])
    BY <1>1, <1>6, UpsertSources DEF Writes, GivesUp
  <2>3. items'[t] = <<>> /\ \A s \in Tasks \ {t} : items'[s] = items[s]
    BY <1>1, <2>1
  <2>4. Versions(batchBuf)' = Versions(batchBuf) /\ Versions(items[t])' = {}
        /\ \A s \in Tasks \ {t} : Versions(items[s])' = Versions(items[s])
    BY <1>1, <2>1, <2>3 DEF Versions
  <2>5. /\ \A v \in Versions(batchBuf) : v \notin Versions(items[t])
        /\ \A s \in Tasks \ {t} : \A v \in Versions(items[s]) : v \notin Versions(items[t])
    BY DEF EntryInv
  <2>. QED
    BY <1>2, <2>1, <2>2, <2>4, <2>5 DEF ApartInv, Waits
<1>7. ASSUME NEW keys \in SUBSET Keys, Prunes(keys) PROVE ApartInv'
  <2>1. UNCHANGED <<batchBuf, items, puts>>
    BY <1>7 DEF Prunes
  <2>2. \A k \in Keys : rows'[k] = rows[k] \/ rows'[k] = NoRow
    BY <1>7 DEF Prunes, Delete
  <2>3. /\ Versions(batchBuf)' = Versions(batchBuf)
        /\ \A s \in Tasks : Versions(items[s])' = Versions(items[s])
    BY <2>1 DEF Versions
  <2>4. \A v : WasPut(v) => NoRow.ver # v
    BY TasksAssumption DEF WasPut, NoRow
  <2>. QED
    BY <1>2, <2>1, <2>2, <2>3, <2>4 DEF ApartInv, Waits
<1>8. CASE Drops
  <2>1. Versions(batchBuf)' = {} /\ \A s \in Tasks : Versions(items[s])' = Versions(items[s])
    BY <1>1, <1>8 DEF Drops, Versions
  <2>. QED
    BY <1>2, <1>8, <2>1 DEF Drops, ApartInv, Waits
<1>. QED
  BY <1>3, <1>4, <1>5, <1>6, <1>7, <1>8 DEF Effect

(* Nothing vanishes but what a BeginBatch finds in the buffer, and nothing   *)
(* that has vanished comes back.                                             *)
LEMMA VanishedStays ==
  ASSUME TypeOK, EntryInv, ApartInv, Effect
  PROVE  Vanished' = Vanished
<1>1. /\ batchBuf \in Seq(Item) /\ items \in [Tasks -> Seq(Item)]
      /\ Versions(<<>>) = {}
  BY EmptyAndSingle DEF TypeOK
<1>2. SUFFICES \A v : WasPut(v)' /\ ~Held(v)' <=> WasPut(v) /\ ~Held(v)
  <2>1. \A v : v \in Vanished' <=> WasPut(v)' /\ ~Held(v)'
    BY DEF Vanished, WasPut
  <2>. QED
    BY <2>1, VanishedAre
<1>3. UNCHANGED puts => \A v : WasPut(v)' <=> WasPut(v)
  BY DEF WasPut
<1>4. CASE Quiet
  <2>1. \A v : Held(v)' <=> Held(v)
    BY <1>4 DEF Quiet, Held, Recorded, Waiting, Versions
  <2>. QED
    BY <1>3, <1>4, <2>1 DEF Quiet
<1>5. ASSUME NEW t \in Tasks, NEW k \in Keys, Buffers(t, k) \/ Holds(t, k), NEW v
      PROVE  WasPut(v)' /\ ~Held(v)' <=> WasPut(v) /\ ~Held(v)
  <2> DEFINE x == NewEntry(t, k)
  <2>1. x \in Item
    BY NewEntryIsNew
  <2>2. (WasPut(v)' <=> WasPut(v) \/ v = x.ver) /\ ~WasPut(x.ver)
    BY <1>5, PutOne DEF Buffers, Holds
  <2>3. UNCHANGED <<rows, settled>>
    BY <1>5 DEF Buffers, Holds
  <2> HIDE DEF x
  <2>4. CASE Buffers(t, k)
    <3>1. batchBuf' = Append(batchBuf, x) /\ items' = items
      BY <2>4 DEF Buffers, x
    <3>2. Versions(Append(batchBuf, x)) = Versions(batchBuf) \cup {x.ver}
      BY <1>1, <2>1, AppendVersions
    <3>3. Held(v)' <=> Held(v) \/ v = x.ver
      BY <2>3, <3>1, <3>2 DEF Held, Recorded, Waiting, Versions
    <3>. QED
      BY <2>2, <3>3
  <2>5. CASE Holds(t, k)
    <3>1. batchBuf' = batchBuf /\ items[t] = <<>> /\ items' = [items EXCEPT ![t] = <<x>>]
      BY <2>5 DEF Holds, x
    <3>2. items'[t] = <<x>> /\ \A s \in Tasks \ {t} : items'[s] = items[s]
      BY <1>1, <3>1
    <3>3. Versions(items[t]) = {} /\ Versions(items'[t]) = {x.ver}
          /\ \A s \in Tasks \ {t} : Versions(items'[s]) = Versions(items[s])
      BY <1>1, <3>1, <3>2, EmptyAndSingle
    <3>4. Held(v)' <=> Held(v) \/ v = x.ver
      BY <2>3, <3>1, <3>3 DEF Held, Recorded, Waiting
    <3>. QED
      BY <2>2, <3>4
  <2>. QED
    BY <1>5, <2>4, <2>5
<1>6. ASSUME NEW t \in Tasks, Takes(t), NEW v
      PROVE  WasPut(v)' /\ ~Held(v)' <=> WasPut(v) /\ ~Held(v)
  <2>1. /\ batchBuf' = <<>> /\ items' = [items EXCEPT ![t] = batchBuf] /\ items[t] = <<>>
        /\ UNCHANGED <<rows, settled, puts>>
    BY <1>6 DEF Takes
  <2>2. items'[t] = batchBuf /\ \A s \in Tasks \ {t} : items'[s] = items[s]
    BY <1>1, <2>1
  <2>3. Held(v)' <=> Held(v)
    BY <1>1, <2>1, <2>2 DEF Held, Recorded, Waiting
  <2>. QED
    BY <1>3, <2>1, <2>3
<1>7. ASSUME NEW t \in Tasks, Writes(t) \/ GivesUp(t), NEW v
      PROVE  WasPut(v)' /\ ~Held(v)' <=> WasPut(v) /\ ~Held(v)
  <2>1. items' = [items EXCEPT ![t] = <<>>] /\ UNCHANGED <<batchBuf, puts>>
    BY <1>7 DEF Writes, GivesUp
  <2>2. Held(v) => Held(v)'
    BY <1>7, <2>1, WriteStepKeeps DEF Writes, GivesUp
  <2>3. /\ \A k \in Keys : rows'[k].ver \in {rows[k].ver} \cup Versions(items[t])
        /\ settled' \subseteq settled \cup {rows[k].ver : k \in Keys} \cup Versions(items[t])
    BY <1>1, <1>7, UpsertSources DEF Writes, GivesUp
  <2>4. items'[t] = <<>> /\ \A s \in Tasks \ {t} : items'[s] = items[s]
    BY <1>1, <2>1
  <2>5. \A s \in Tasks : Versions(items'[s]) \subseteq Versions(items[s])
    BY <1>1, <2>4
  <2>6. Held(v)' => Held(v)
    BY <2>1, <2>3, <2>5 DEF Held, Recorded, Waiting
  <2>. QED
    BY <1>3, <2>1, <2>2, <2>6
<1>8. ASSUME NEW keys \in SUBSET Keys, Prunes(keys), NEW v
      PROVE  WasPut(v)' /\ ~Held(v)' <=> WasPut(v) /\ ~Held(v)
  <2>1. UNCHANGED <<batchBuf, items, puts>> /\ Delete(keys)
    BY <1>8 DEF Prunes
  <2>2. Held(v) => Held(v)'
    BY <2>1, TableStepKeeps
  <2>3. /\ \A k \in Keys : rows'[k] = rows[k] \/ rows'[k] = NoRow
        /\ settled' \subseteq settled \cup {rows[k].ver : k \in Keys}
    BY <2>1 DEF Delete
  <2>4. WasPut(v) => NoRow.ver # v
    BY TasksAssumption DEF WasPut, NoRow
  <2>5. WasPut(v) /\ Held(v)' => Held(v)
    BY <2>1, <2>3, <2>4 DEF Held, Recorded, Waiting, Versions
  <2>. QED
    BY <1>3, <2>1, <2>2, <2>5
<1>. QED
  BY <1>4, <1>5, <1>6, <1>7, <1>8 DEF Effect

(* A BeginBatch takes what is in the buffer from the cache.                  *)
LEMMA DropFails ==
  ASSUME TypeOK, EntryInv, ApartInv, Drops
  PROVE  Shared!Next \/ UNCHANGED <<Shown, Groups, Lost>>
<1> DEFINE G == Entries(batchBuf)
<1>1. /\ batchBuf \in Seq(Item) /\ batchBuf' = <<>> /\ Versions(<<>>) = {}
      /\ UNCHANGED <<rows, settled, items, puts>>
  BY EmptyAndSingle DEF TypeOK, Drops
<1>2. UNCHANGED Shown
  BY <1>1 DEF Shown
<1>3. Groups' = Groups \ {G}
  <2>1. Entries(batchBuf') = {} /\ \A t \in Tasks : items'[t] = items[t]
    BY <1>1 DEF Entries
  <2>2. \A t \in Tasks : Entries(items[t]) # {} => Entries(items[t]) # G
    BY HoldersApart
  <2>. QED
    BY <2>1, <2>2, GroupsAre
<1>4. Lost' = Lost \cup Versions(batchBuf)
  <2>1. \A v : Held(v) <=> Held(v)' \/ v \in Versions(batchBuf)
    BY <1>1 DEF Held, Recorded, Waiting, Versions
  <2>2. \A v : WasPut(v)' <=> WasPut(v)
    BY <1>1 DEF WasPut
  <2>3. \A v \in Versions(batchBuf) : WasPut(v) /\ (Held(v)' => v \in settled)
    <3>1. \A v \in Versions(batchBuf) :
            /\ WasPut(v) /\ \A k \in Keys : rows[k].ver # v
            /\ \A t \in Tasks : v \notin Versions(items[t])
      BY DEF ApartInv, Waits, EntryInv
    <3>. QED
      BY <1>1, <3>1 DEF Held, Recorded, Waiting
  <2>4. \A v : v \in Vanished' <=> WasPut(v)' /\ ~Held(v)'
    BY DEF Vanished, WasPut
  <2>5. \A v : v \in settled => Held(v)
    BY DEF Held, Recorded, Waiting
  <2>6. \A v : v \in Lost' <=> v \in Lost \/ v \in Versions(batchBuf)
    BY <1>1, <2>1, <2>2, <2>3, <2>4, <2>5, VanishedAre DEF Lost
  <2>. QED
    BY <2>6
<1>5. CASE batchBuf = <<>>
  <2>1. G = {} /\ Versions(batchBuf) = {}
    BY <1>1, <1>5, EntriesAre
  <2>2. {} \notin Groups
    BY GroupsAre
  <2> HIDE DEF G
  <2>. QED
    BY <1>2, <1>3, <1>4, <2>1, <2>2
<1>6. CASE batchBuf # <<>>
  <2>1. G \in Groups /\ Versions(batchBuf) = Shared!VersionsOf(G)
    BY <1>1, <1>6, EntriesAre, GroupsAre DEF Shared!VersionsOf
  <2>2. Shared!Fail(G)
    BY <1>2, <1>3, <1>4, <2>1 DEF Shared!Fail
  <2>. QED
    BY <2>1, <2>2 DEF Shared!Next
<1>. QED
  BY <1>5, <1>6

LEMMA PutShares ==
  ASSUME TypeOK, EntryInv, ApartInv, NEW t \in Tasks, NEW k \in Keys, puts[t] < MaxPuts,
         Buffers(t, k) \/ Holds(t, k), UNCHANGED Vanished
  PROVE  Shared!Next
<1> DEFINE x == NewEntry(t, k)
<1>1. /\ x = [key |-> k, ver |-> <<t, puts[t] + 1>>] /\ x.ver = <<t, puts[t] + 1>>
      /\ puts[t] + 1 \in 1..MaxPuts
  BY BoundsAssumption DEF NewEntry, NextVersion, TypeOK
<1>2. /\ Versions(batchBuf) \subseteq Version
      /\ \A s \in Tasks : Versions(items[s]) \subseteq Version
      /\ settled \subseteq Version /\ \A l \in Keys : rows[l].ver \in Version
  BY ItemVersions DEF TypeOK, Row
<1>3. /\ x.ver \notin Versions(batchBuf) /\ \A s \in Tasks : x.ver \notin Versions(items[s])
      /\ x.ver \notin settled /\ \A l \in Keys : x.ver # Shown[l]
  BY <1>2, NewEntryIsNew, ShownAre DEF EntryInv
<1>4. x.ver \notin Vanished
  BY PutOne, VanishedAre DEF Buffers, Holds
<1>5. x.ver \notin Shared!VersionsOf(Shared!Accepted)
  <2> SUFFICES ASSUME NEW g \in Groups, NEW e \in g, x.ver = e.ver PROVE FALSE
    BY DEF Shared!VersionsOf, Shared!Accepted
  <2>1. batchBuf \in Seq(Item) /\ \A s \in Tasks : items[s] \in Seq(Item)
    BY DEF TypeOK
  <2>2. g = Entries(batchBuf) \/ \E s \in Tasks : g = Entries(items[s])
    BY GroupsAre
  <2>. QED
    BY <1>3, <2>1, <2>2, EntriesAre
<1>6. \/ Groups' = Groups \cup {{x}}
      \/ \E g \in Groups : Groups' = (Groups \ {g}) \cup {g \cup {x}}
  BY HoldGroups, BufferGroups
<1>7. UNCHANGED <<Shown, Lost>>
  BY DEF Buffers, Holds, Shown, Lost
<1> HIDE DEF x
<1>8. Shared!Accept(t, puts[t] + 1, k)
  <2>1. x.ver \notin Lost \cup Shared!VersionsOf(Shared!Accepted) \cup {Shown[l] : l \in Keys}
    BY <1>3, <1>4, <1>5 DEF Lost
  <2>. QED
    BY <1>1, <1>6, <1>7, <2>1 DEF Shared!Accept
<1>. QED
  BY <1>1, <1>8 DEF Shared!Next

LEMMA WriteShares ==
  ASSUME TypeOK, EntryInv, NEW t \in Tasks, Writes(t), items[t] # <<>>, UNCHANGED Vanished
  PROVE  Shared!Next
<1> DEFINE G == Entries(items[t])
           keys == {e.key : e \in G}
           vers == {e.ver : e \in G}
<1>1. /\ G \in Groups /\ Groups' = Groups \ {G}
      /\ keys = KeysOf(items[t]) /\ keys \subseteq Keys
      /\ \A k \in Keys \ keys : Shown'[k] = Shown[k]
      /\ \A k \in keys : \E e \in G : e.key = k /\ Shown'[k] = e.ver
      /\ Shown' \in [Keys -> vers \cup {Shown[k] : k \in Keys}]
      /\ settled' = settled \cup {Shown[k] : k \in keys}
                      \cup (vers \ {Shown'[k] : k \in keys})
  BY WritesGroup
<1>2. \A k \in keys : Shown'[k] \in Shared!VersionsFor(G, k)
  BY <1>1 DEF Shared!VersionsFor
<1>3. Shared!VersionsOf(G) = vers
  BY DEF Shared!VersionsOf
<1>4. Lost' = Lost \cup {Shown[k] : k \in keys} \cup (vers \ {Shown'[k] : k \in keys})
  <2> HIDE DEF keys, vers
  <2>. QED
    BY <1>1 DEF Lost
<1>5. Shared!Publish(G)
  <2> HIDE DEF G
  <2>. QED
    BY <1>1, <1>2, <1>3, <1>4 DEF Shared!Publish
<1>. QED
  BY <1>1, <1>5 DEF Shared!Next

LEMMA GivingUpShares ==
  ASSUME TypeOK, EntryInv, NEW t \in Tasks, GivesUp(t), items[t] # <<>>, UNCHANGED Vanished
  PROVE  Shared!Next
<1> DEFINE G == Entries(items[t])
<1>1. items[t] \in Seq(Item)
  BY DEF TypeOK
<1>2. G \in Groups /\ Versions(items[t]) = Shared!VersionsOf(G)
  BY <1>1, EntriesAre, GroupsAre DEF Shared!VersionsOf
<1>3. Groups' = Groups \ {G}
  BY EmptyHands DEF GivesUp
<1>4. UNCHANGED Shown /\ Lost' = Lost \cup Versions(items[t])
  BY DEF GivesUp, Shown, Lost
<1>5. Shared!Fail(G)
  BY <1>2, <1>3, <1>4 DEF Shared!Fail
<1>. QED
  BY <1>2, <1>5 DEF Shared!Next

LEMMA PruneShares ==
  ASSUME NEW keys \in SUBSET Keys, Prunes(keys), UNCHANGED Vanished
  PROVE  Shared!Next
<1>1. UNCHANGED Groups
  BY DEF Prunes, Groups, Entries
<1>2. Shown' = [k \in Keys |-> IF k \in keys THEN <<Nobody, 0>> ELSE Shown[k]]
  BY DEF Prunes, Delete, Shown, NoRow
<1>3. Lost' = Lost \cup {Shown[k] : k \in keys}
  BY ShownAre DEF Prunes, Delete, Lost
<1>4. Shared!Forget(keys)
  BY <1>1, <1>2, <1>3 DEF Shared!Forget, Shared!Absent
<1>. QED
  BY <1>4 DEF Shared!Next

LEMMA EffectsShare ==
  TypeOK /\ EntryInv /\ ApartInv /\ (Effect \/ Drops)
  => Shared!Next \/ UNCHANGED <<Shown, Groups, Lost>>
<1> SUFFICES ASSUME TypeOK, EntryInv, ApartInv, Effect, UNCHANGED Vanished
             PROVE  Shared!Next \/ UNCHANGED <<Shown, Groups, Lost>>
  BY DropFails, VanishedStays
<1>1. CASE Quiet
  BY <1>1 DEF Quiet, Shown, Groups, Entries, Lost
<1>2. ASSUME NEW t \in Tasks, Takes(t) PROVE UNCHANGED <<Shown, Groups, Lost>>
  BY <1>2, TakeGroups DEF Takes, Shown, Lost
<1>3. ASSUME NEW t \in Tasks, Writes(t) \/ GivesUp(t), items[t] = <<>>
      PROVE  UNCHANGED <<Shown, Groups, Lost>>
  BY <1>3, EmptyEffect DEF Lost
<1>. QED
  BY <1>1, <1>2, <1>3, PutShares, WriteShares, GivingUpShares, PruneShares DEF Effect

LEMMA DropOrdered == TypeOK /\ EntryInv /\ Drops => EntryInv'
<1> SUFFICES ASSUME TypeOK, EntryInv, Drops PROVE EntryInv'
  OBVIOUS
<1>1. /\ Versions(batchBuf)' = {} /\ Ordered(batchBuf)'
      /\ \A t \in Tasks : Versions(items[t])' = Versions(items[t])
                          /\ (Ordered(items[t]) => Ordered(items[t])')
  BY EmptyAndSingle DEF Drops, Versions, Ordered
<1>. QED
  BY <1>1 DEF Drops, EntryInv, Numbered

LEMMA SharedInit == Init => Shared!Init
<1> SUFFICES ASSUME Init PROVE Shared!Init
  OBVIOUS
<1>1. Cache!Init
  BY CacheInit
<1>2. Vanished = {}
  <2>1. \A v : ~WasPut(v)
    BY DEF Init, WasPut
  <2>. QED
    BY <2>1, VanishedAre
<1>. QED
  BY <1>1, <1>2 DEF Cache!Init, Shared!Init, Cache!Absent, Shared!Absent,
                    Cache!Old, Shared!Old, Lost

SharedInv == TypeOK /\ BatchInv /\ EndInv /\ EntryInv /\ ApartInv

LEMMA SharedInvariant == Spec => []SharedInv
<1>1. Init => SharedInv
  BY TypeInit, BatchInit, EndInit, EntryInit, ApartInit DEF SharedInv
<1>2. SharedInv /\ [Next]_vars => SharedInv'
  BY TypeStep, BatchStep, EndStep, SharedEffects, EntryStep, DropOrdered, ApartStep
     DEF SharedInv
<1>. QED
  BY <1>1, <1>2, PTL DEF Spec

(* However many streams share the one batch: a lookup never shows what was   *)
(* not put for its key, what a call has in hand or the buffer is written or  *)
(* given up as a whole, and what is superseded, pruned, reported or lost     *)
(* never returns.  Sharing costs order and silent loss, and nothing else.    *)
THEOREM SharingKeepsTheRest == Spec => SharesCache
<1>1. SharedInv /\ [Next]_vars => [Shared!Next]_<<Shown, Groups, Lost>>
  BY SharedEffects, EffectsShare DEF SharedInv
<1>. QED
  BY <1>1, SharedInvariant, SharedInit, PTL DEF Spec, SharesCache, Shared!Spec

(* What has been put and is not kept: vanished, or cut off by the exit.      *)
Missing == {v \in UNION {{<<t, n>> : n \in 1..puts[t]} : t \in Tasks} : ~Kept(v)}

(* Two steps lose entries without a word, and nothing brings these back.  A  *)
(* BeginBatch that finds another stream in the midst of its batch loses what *)
(* is in the buffer (store.go:200-207).  The exit, which does not write what *)
(* the process has in memory (store.go:186-198), loses something only if a   *)
(* stream is open or a store call under way, and then only what waited.      *)
LossesAreTwo ==
  [][Missing' # Missing =>
       /\ Missing \subseteq Missing'
       /\ \/ /\ \E t \in Tasks : BeginBatch(t) /\ \E s \in Tasks \ {t} : streaming[s]
             /\ Missing' \ Missing \subseteq Versions(batchBuf)
          \/ /\ CloseAgain
             /\ \E t \in Tasks : streaming[t] \/ InStoreCall(t)
             /\ \A v \in Missing' \ Missing : Waiting(v)]_vars

LEMMA MissingAre == \A v : v \in Missing <=> WasPut(v) /\ ~Kept(v)
BY DEF Missing, WasPut

LEMMA MissingAreNext == \A v : v \in Missing' <=> WasPut(v)' /\ ~Kept(v)'
BY DEF Missing, WasPut

(* Who exits stays: Main's last label is left by no step.                    *)
LEMMA ExitedStays == TypeOK /\ pc[Main] = "exited" /\ [Next]_vars => UNCHANGED vars
BY DEF Next, TaskNext, MainNext, Signal, CloseLock, ClosePruneAge, CloseDb,
       CloseAgain, Tick, Exited

LEMMA OnlyCloseExits ==
  TypeOK /\ pc[Main] # "exited" /\ [Next]_vars /\ ~CloseAgain => pc'[Main] # "exited"
<1> SUFFICES ASSUME TypeOK, pc[Main] # "exited", [Next]_vars, ~CloseAgain
             PROVE  pc'[Main] # "exited"
  OBVIOUS
<1>1. pc \in [Tasks \cup {Main} -> TaskPC \cup MainPC] /\ Main \notin Tasks
  BY TasksAssumption DEF TypeOK
<1>2. ASSUME NEW t \in Tasks, TaskNext(t) PROVE pc'[Main] = pc[Main]
  <2>1. pc' = pc \/ \E label : pc' = [pc EXCEPT ![t] = label]
    BY <1>2 DEF TaskNext, Admit, Finish, Disconnect, BeginBatch, EndStream, Put,
         PutBuffered, PutDirect, StoreCall, DirectInsert, DirectFails, TakeBatch,
         BeginTx, BatchFails, Commit, LockForPrune, PruneAge, PruneRows, PruneFails,
         PruneReturns, Return, Goto, lockVars, taskVars
  <2>. QED
    BY <1>1, <2>1
<1>3. ASSUME Signal \/ CloseLock \/ ClosePruneAge \/ CloseDb PROVE pc'[Main] # "exited"
  BY <1>1, <1>3 DEF Signal, CloseLock, ClosePruneAge, CloseDb, Goto
<1>4. CASE Tick \/ UNCHANGED vars
  BY <1>4 DEF Tick, vars
<1>. QED
  BY <1>2, <1>3, <1>4 DEF Next, MainNext, Exited

LEMMA BeginLoses ==
  ASSUME TypeOK, BatchInv, NEW t \in Tasks, BeginBatch(t)
  PROVE  /\ Vanished \subseteq Vanished'
         /\ Vanished' \ Vanished \subseteq Versions(batchBuf)
         /\ Vanished' # Vanished => \E s \in Tasks \ {t} : streaming[s]
<1>1. /\ UNCHANGED <<rows, settled, items, puts>> /\ batchBuf' = <<>> /\ ~streaming[t]
  BY DEF BeginBatch
<1>2. Versions(<<>>) = {}
  BY EmptyAndSingle
<1>3. \A v : Held(v) <=> Held(v)' \/ v \in Versions(batchBuf)
  BY <1>1, <1>2 DEF Held, Recorded, Waiting, Versions
<1>4. \A v : v \in Vanished' <=> WasPut(v) /\ ~Held(v)'
  BY <1>1 DEF Vanished, WasPut
<1>5. Vanished' \ Vanished \subseteq Versions(batchBuf) /\ Vanished \subseteq Vanished'
  BY <1>3, <1>4, VanishedAre
<1>6. Vanished' # Vanished => batchBuf # <<>>
  BY <1>2, <1>5
<1>7. batchBuf # <<>> => \E s \in Tasks : streaming[s]
  BY DEF BatchInv
<1>. QED
  BY <1>1, <1>5, <1>6, <1>7

(* The exit: what was in memory only is gone with it.                        *)
LEMMA ExitLoses ==
  ASSUME TypeOK, BatchInv, CloseAgain
  PROVE  /\ Missing \subseteq Missing'
         /\ \A v \in Missing' \ Missing : Waiting(v)
         /\ Missing' # Missing => \E t \in Tasks : streaming[t] \/ InStoreCall(t)
<1>1. /\ UNCHANGED <<rows, settled, items, batchBuf, puts>>
      /\ pc[Main] # "exited" /\ pc'[Main] = "exited"
  BY DEF CloseAgain, Goto, lockVars, taskVars, TypeOK
<1>2. \A v : Recorded(v)' <=> Recorded(v)
  BY <1>1 DEF Recorded
<1>3. \A v : Kept(v)' <=> Recorded(v)
  BY <1>1, <1>2 DEF Kept
<1>4. \A v : Kept(v) <=> Recorded(v) \/ Waiting(v)
  BY <1>1 DEF Kept
<1>5. \A v : WasPut(v)' <=> WasPut(v)
  BY <1>1 DEF WasPut
<1>6. Missing \subseteq Missing' /\ \A v \in Missing' \ Missing : Waiting(v)
  BY <1>3, <1>4, <1>5, MissingAre, MissingAreNext
<1>7. ASSUME NEW v, Waiting(v) PROVE \E t \in Tasks : streaming[t] \/ InStoreCall(t)
  <2>1. batchBuf # <<>> \/ \E u \in Tasks : items[u] # <<>>
    BY <1>7 DEF Waiting, Versions
  <2>. QED
    BY <2>1 DEF BatchInv, InStoreCall, TaskPC
<1>. QED
  BY <1>6, <1>7

THEOREM LossesAreBeginsAndExits == Spec => LossesAreTwo
<1> DEFINE A ==
      Missing' # Missing =>
        /\ Missing \subseteq Missing'
        /\ \/ /\ \E t \in Tasks : BeginBatch(t) /\ \E s \in Tasks \ {t} : streaming[s]
              /\ Missing' \ Missing \subseteq Versions(batchBuf)
           \/ /\ CloseAgain
              /\ \E t \in Tasks : streaming[t] \/ InStoreCall(t)
              /\ \A v \in Missing' \ Missing : Waiting(v)
<1>1. ASSUME SharedInv, [Next]_vars PROVE A
  <2>1. CASE pc[Main] = "exited"
    BY <1>1, <2>1, ExitedStays DEF SharedInv, vars, Missing, Kept, Recorded, Waiting, Versions
  <2>2. CASE pc[Main] # "exited" /\ CloseAgain
    BY <1>1, <2>2, ExitLoses DEF SharedInv
  <2>3. CASE pc[Main] # "exited" /\ ~CloseAgain
    <3>1. pc'[Main] # "exited"
      BY <1>1, <2>3, OnlyCloseExits DEF SharedInv
    <3>2. \A v : Kept(v) <=> Held(v)
      BY <2>3 DEF Kept, Held
    <3>3. \A v : Kept(v)' <=> Held(v)'
      BY <3>1 DEF Kept, Held
    <3>4. \A v : v \in Vanished' <=> WasPut(v)' /\ ~Held(v)'
      BY DEF Vanished, WasPut
    <3>5. Missing = Vanished /\ Missing' = Vanished'
      <4>1. \A v : v \in Missing <=> v \in Vanished
        BY <3>2, MissingAre, VanishedAre
      <4>2. \A v : v \in Missing' <=> v \in Vanished'
        BY <3>3, <3>4, MissingAreNext
      <4>3. Missing = Vanished
        BY <4>1 DEF Missing, Vanished
      <4>4. Missing' = Vanished'
        BY <4>2 DEF Missing, Vanished
      <4>. QED
        BY <4>3, <4>4
    <3>6. Vanished' # Vanished => \E t \in Tasks : BeginBatch(t)
      BY <1>1, EffectOrBegin, VanishedStays DEF SharedInv
    <3>. QED
      BY <1>1, <3>5, <3>6, BeginLoses DEF SharedInv
  <2>. QED
    BY <2>1, <2>2, <2>3
<1>2. SharedInv /\ [Next]_vars => [A]_vars
  BY <1>1
<1>. QED
  BY <1>2, SharedInvariant, PTL DEF Spec, LossesAreTwo

=============================================================================

--------------------------- MODULE ReasoningCache ---------------------------
(***************************************************************************)
(* What the store of reasoning_content promises its callers, without its   *)
(* lock, its connection, its buffer and its clock.                         *)
(*                                                                         *)
(* A lookup shows one version for every key.  An entry that is put is      *)
(* accepted into a group; a group becomes visible as a whole or is given   *)
(* up as a whole, and whatever stops being accepted or shown is gone for   *)
(* good.                                                                   *)
(***************************************************************************)
EXTENDS Integers

CONSTANTS
  Keys,      \* cache keys
  Writers,   \* whoever puts entries
  Streams,   \* the writers whose entries for one key supersede each other
  Nobody,    \* writer of what an earlier process left, and of nothing
  MaxPuts    \* bound: entries a writer puts

VARIABLES
  shown,     \* for every key the version a lookup finds, Absent for none
  groups,    \* the groups of accepted entries that are not shown yet
  gone       \* versions superseded, forgotten or reported as failed

Absent == <<Nobody, 0>>
Old    == <<Nobody, 1>>

Accepted == UNION groups
VersionsOf(group) == {e.ver : e \in group}
VersionsFor(group, k) == {e.ver : e \in {f \in group : f.key = k}}

Init ==
  /\ shown \in [Keys -> {Absent, Old}]
  /\ groups = {} /\ gone = {}

(* A put: the entry is new, and forms a group or joins one. *)
Accept(w, n, k) ==
  LET entry == [key |-> k, ver |-> <<w, n>>] IN
  /\ UNCHANGED <<shown, gone>>
  /\ entry.ver \notin gone \cup VersionsOf(Accepted) \cup {shown[l] : l \in Keys}
  /\ \/ groups' = groups \cup {{entry}}
     \/ \E group \in groups : groups' = (groups \ {group}) \cup {group \cup {entry}}

(* A group becomes visible: for each of its keys one of its entries, which *)
(* for a stream is its newest.                                             *)
Publish(group) ==
  LET keys == {e.key : e \in group} IN
  /\ groups' = groups \ {group}
  /\ shown' \in [Keys -> VersionsOf(group) \cup {shown[k] : k \in Keys}]
  /\ \A k \in Keys \ keys : shown'[k] = shown[k]
  /\ \A k \in keys :
       /\ shown'[k] \in VersionsFor(group, k)
       /\ \A v \in VersionsFor(group, k) \cup {shown[k]} :
            shown'[k][1] \in Streams /\ v[1] = shown'[k][1] => v[2] <= shown'[k][2]
  /\ gone' = gone \cup {shown[k] : k \in keys}
                  \cup (VersionsOf(group) \ {shown'[k] : k \in keys})

(* The caller is told that nothing of the group was stored. *)
Fail(group) ==
  /\ UNCHANGED shown
  /\ groups' = groups \ {group}
  /\ gone' = gone \cup VersionsOf(group)

(* Old or surplus entries are forgotten. *)
Forget(keys) ==
  /\ UNCHANGED groups
  /\ shown' = [k \in Keys |-> IF k \in keys THEN Absent ELSE shown[k]]
  /\ gone' = gone \cup {shown[k] : k \in keys}

Next ==
  \/ \E keys \in SUBSET Keys : Forget(keys)
  \/ \E w \in Writers, n \in 1..MaxPuts, k \in Keys : Accept(w, n, k)
  \/ \E group \in groups : Fail(group) \/ Publish(group)

Spec == Init /\ [][Next]_<<shown, groups, gone>>

=============================================================================

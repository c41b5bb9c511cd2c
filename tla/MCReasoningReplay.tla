-------------------------- MODULE MCReasoningReplay --------------------------
(* Instances of ReasoningReplay for TLC. *)
EXTENDS ReasoningReplay, TLC

CONSTANTS c1, c2, n1, n2

OneConversation == {c1}
TwoConversations == {c1, c2}
OneNamespace == {n1}
TwoNamespaces == {n1, n2}

OneTool == {[name |-> "read", args |-> "a"]}

Symmetry == Permutations(TwoConversations) \cup Permutations(TwoNamespaces)

=============================================================================

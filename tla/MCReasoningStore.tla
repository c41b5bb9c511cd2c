-------------------------- MODULE MCReasoningStore --------------------------
(* Instances of ReasoningStore for TLC. *)
EXTENDS ReasoningStore, TLC

CONSTANTS s1, s2, r1, k1, k2

(* One slot that may stream and one that does not; two that may stream. *)
OneStream     == {s1}
StreamAndTask == {s1, r1}
TwoStreams    == {s1, s2}

OneKey  == {k1}
TwoKeys == {k1, k2}

KeySymmetry == Permutations(TwoKeys)

=============================================================================

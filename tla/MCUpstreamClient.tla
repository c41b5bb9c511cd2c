-------------------------- MODULE MCUpstreamClient --------------------------
(* Instances of UpstreamClient for TLC. *)
EXTENDS UpstreamClient

CONSTANTS t1, t2

TwoTasks == {t1, t2}
AnyOutcome == {"ok", "4xx", "5xx", "reset"}

=============================================================================

----------------------------- MODULE MCLifecycle -----------------------------
(* Instances of Lifecycle for TLC. *)
EXTENDS Lifecycle

(* No file; one that mentions neither option; one that sets both; one that   *)
(* spells the limit like a flag.                                             *)
SomeFiles ==
  {NoFile,
   [ngrok |-> Unset, limit |-> Unset, dashedLimit |-> Unset],
   [ngrok |-> FALSE, limit |-> 1, dashedLimit |-> Unset],
   [ngrok |-> Unset, limit |-> Unset, dashedLimit |-> 1]}

(* Nothing; a flag against a variable; a variable alone; limits; a clearing, *)
(* with a setting that only the entry point knows.                           *)
SomeStarts ==
  {NothingGiven,
   [NothingGiven EXCEPT !.ngrokFlag = FALSE, !.ngrokEnv = TRUE],
   [NothingGiven EXCEPT !.ngrokFlag = TRUE, !.limitEnv = 2],
   [NothingGiven EXCEPT !.ngrokEnv = FALSE, !.limitEnv = 0],
   [NothingGiven EXCEPT !.clear = TRUE, !.strayEnv = TRUE]}

=============================================================================

---------------------------- MODULE Configuration ----------------------------
(***************************************************************************)
(* Where a configuration value comes from (config.go, LoadConfig and       *)
(* getIntKey and its like; docker-entrypoint.sh).  Viper keeps the flag's  *)
(* spelling of a key and the YAML one apart; what viper.Get returns for    *)
(* either is modelled from how the code uses it.                           *)
(*                                                                         *)
(* Of the options two are modelled, for every option is like one of them:  *)
(* ngrok has a flag and a default, max_concurrent_requests (limit) has     *)
(* neither.                                                                *)
(***************************************************************************)
EXTENDS Integers

CONSTANTS
  Unset,         \* of a source: nothing is said; an empty variable is unset
  NoFile,        \* there is no config.yaml
  DefaultNgrok,  \* defaultNgrok
  DefaultLimit   \* defaultMaxConcurrentRequests

ASSUME ConfigurationAssumption ==
  /\ Unset \notin BOOLEAN \cup Int /\ DefaultNgrok \in BOOLEAN
  /\ DefaultLimit \in Nat \ {0}

(* What is said of one option: by its flag, its variable DEEPSEEK_..., and   *)
(* the file under either spelling.                                           *)
Sources(flag, env, file, dashed) ==
  [flag |-> flag, env |-> env, file |-> file, dashed |-> dashed]

OrElse(value, other) == IF value # Unset THEN value ELSE other

(* viper.Get of the flag's spelling: a changed flag, then the environment,   *)
(* then the file, then the flag's default.                                   *)
ViperGet(s, default) == OrElse(s.flag, OrElse(s.env, OrElse(s.dashed, default)))

(* viper.Get of the YAML spelling, which no flag goes by.                    *)
ViperGetYaml(s) == OrElse(s.env, s.file)

(* Mutant of GetKey: what the file says is taken as it is, before all else,  *)
(* as Unmarshal did.                                                         *)
FileFirst(s, default) == OrElse(s.file, ViperGet(s, default))

(* getStringKey, getIntKey, ... with changedOrSetString, ...                 *)
GetKey(s, default) ==
  IF s.flag # Unset THEN ViperGet(s, default)
  ELSE IF s.file # Unset THEN ViperGetYaml(s)
  ELSE IF s.env # Unset THEN s.env
  ELSE ViperGet(s, default)

(* defaultConfigYAML                                                         *)
DefaultFile == [ngrok |-> DefaultNgrok, limit |-> DefaultLimit, dashedLimit |-> Unset]

(* ensureDefaultConfig                                                       *)
Ensured(file) == IF file = NoFile THEN DefaultFile ELSE file

NgrokSources(given, file) ==
  Sources(given.ngrokFlag, given.ngrokEnv, file.ngrok, file.ngrok)
LimitSources(given, file) ==
  Sources(Unset, given.limitEnv, file.limit, file.dashedLimit)

(* LoadConfig; what has no flag and is set nowhere is zero.                  *)
Loaded(given, file) ==
  [ngrok |-> GetKey(NgrokSources(given, file), DefaultNgrok),
   limit |-> GetKey(LimitSources(given, file), 0),
   clear |-> given.clear]

(* Validate                                                                  *)
Valid(cfg) == cfg.limit >= 1

(* docker-entrypoint.sh: variables become flags.  Those of a switch that is  *)
(* off (--no-ngrok) and of two settings (--reasoning-content-path,           *)
(* --trace-dir) are none the command knows.                                  *)
Entrypoint(given) ==
  [given EXCEPT !.ngrokFlag = IF given.ngrokEnv = TRUE THEN TRUE ELSE Unset,
                !.unknownFlag = given.ngrokEnv = FALSE \/ given.strayEnv]

-----------------------------------------------------------------------------
(* config.go:373-379, in one line: flag, variable, file in either spelling,  *)
(* default.                                                                  *)
Preferred(s, default) ==
  OrElse(s.flag, OrElse(s.env, OrElse(s.file, OrElse(s.dashed, default))))

=============================================================================

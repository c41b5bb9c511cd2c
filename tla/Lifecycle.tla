------------------------------ MODULE Lifecycle ------------------------------
(***************************************************************************)
(* The process from its start to its end, again and again on one database  *)
(* (main.go; server.go, Start and Shutdown; tunnel.go): configuration, the *)
(* opening of the store with its migration (CacheMigration, whose steps    *)
(* are taken here), the ngrok child, the listener in its goroutine, the    *)
(* signal, the drain, and the deferred calls.                              *)
(***************************************************************************)
EXTENDS CacheMigration, Configuration

CONSTANTS
  Files,       \* the config.yaml a user may have: NoFile or [ngrok, limit, dashedLimit]
  Given,       \* flags and variables of a start
  MaxKills,    \* bound: processes killed
  MaxHandlers  \* bound: requests being handled, besides the configured one

ASSUME StartsAssumption ==
  /\ \A f \in Files : f = NoFile \/
       f \in [ngrok : BOOLEAN \cup {Unset}, limit : Int \cup {Unset}, dashedLimit : Int \cup {Unset}]
  /\ Given \subseteq [ngrokFlag : BOOLEAN \cup {Unset}, ngrokEnv : BOOLEAN \cup {Unset},
                      limitEnv : Int \cup {Unset}, strayEnv : BOOLEAN, clear : BOOLEAN,
                      unknownFlag : {FALSE}]
  /\ NoFile \notin [ngrok : BOOLEAN \cup {Unset}, limit : Int \cup {Unset},
                    dashedLimit : Int \cup {Unset}]
  /\ MaxKills \in Nat /\ MaxHandlers \in Nat

VARIABLES
  main,      \* where the process is
  file,      \* config.yaml
  given,     \* flags and variables, until they are loaded
  cfg,       \* the configuration loaded
  child,     \* the process's ngrok: "none", "running", or "exited" and not waited for
  orphans,   \* running ngroks whose process has ended
  url,       \* whose address is announced: "none", "own", "orphan", "foreign"
  listener,  \* "none", "starting", "bound", "failed", "closed"
  handlers,  \* requests being handled
  gaveUp,    \* whether the drain ended with requests unfinished
  ended,     \* how the process ends, or the last one ended
  kills      \* history: processes killed

database == vars
process  == <<main, file, given, cfg, child, orphans, url, listener, handlers,
              gaveUp, ended, kills>>
lifeVars == <<database, process>>

(* strayEnv: DEEPSEEK_REASONING_CONTENT_PATH or DEEPSEEK_TRACE_DIR is set.   *)
NothingGiven == [ngrokFlag |-> Unset, ngrokEnv |-> Unset, limitEnv |-> Unset,
                 strayEnv |-> FALSE, clear |-> FALSE, unknownFlag |-> FALSE]
NoConfig == [ngrok |-> FALSE, limit |-> 0, clear |-> FALSE]

Phases == {"off", "config", "opening", "opened", "polling", "listen", "notify",
           "wait", "drain", "close", "unwind", "unwound"}

LifecycleInit ==
  /\ Init
  /\ main = "off" /\ file \in Files /\ given = NothingGiven /\ cfg = NoConfig
  /\ child = "none" /\ orphans = 0 /\ url = "none"
  /\ listener = "none" /\ handlers = 0 /\ gaveUp = FALSE
  /\ ended = "none" /\ kills = 0

(* The end of a process takes its goroutines along, not its child.           *)
Exit(how) ==
  /\ main' = "off" /\ ended' = how
  /\ orphans' = orphans + IF child = "running" THEN 1 ELSE 0
  /\ child' = "none" /\ url' = "none" /\ listener' = "none" /\ handlers' = 0
  /\ given' = NothingGiven /\ cfg' = NoConfig /\ gaveUp' = FALSE

-----------------------------------------------------------------------------
(* Starting *)

(* From a shell, or through the container's entry point.                     *)
Begin ==
  /\ main = "off"
  /\ main' = "config" /\ ended' = "none"
  /\ \E g \in Given : given' \in {g, Entrypoint(g)}
  /\ UNCHANGED <<database, file, cfg, child, orphans, url, listener, handlers,
                 gaveUp, kills>>

(* Execute returns an error before RunE is called.                           *)
RefuseFlag ==
  /\ main = "config" /\ given.unknownFlag
  /\ Exit("error")
  /\ UNCHANGED <<database, file, kills>>

LoadConfig ==
  /\ main = "config" /\ ~given.unknownFlag
  /\ file' = Ensured(file)
  /\ LET loaded == Loaded(given, Ensured(file)) IN
     IF Valid(loaded)
     THEN /\ main' = "opening" /\ cfg' = loaded /\ given' = NothingGiven
          /\ Start
          /\ UNCHANGED <<child, orphans, url, listener, handlers, gaveUp, ended>>
     ELSE /\ Exit("error")
          /\ UNCHANGED database
  /\ UNCHANGED kills

(* NewReasoningStore                                                         *)
OpenStore ==
  /\ main = "opening"
  /\ Inspect \/ Archive \/ Adopt \/ DropIndex \/ CreateTable \/ CreateIndex
  /\ main' = IF pc' = "running" THEN "opened" ELSE "opening"
  /\ UNCHANGED <<file, given, cfg, child, orphans, url, listener, handlers,
                 gaveUp, ended, kills>>

OpenFails ==
  /\ main = "opening" /\ Crash
  /\ Exit("error")
  /\ UNCHANGED <<file, kills>>

(* The return from RunE before the tunnel's Stop is deferred.                *)
ReturnWith(how) ==
  /\ main' = "unwound" /\ ended' = how
  /\ UNCHANGED <<file, given, cfg, orphans, url, listener, handlers, gaveUp, kills>>

ClearCache ==
  /\ main = "opened" /\ cfg.clear
  /\ \/ Clear /\ ReturnWith("ok")
     \/ UNCHANGED database /\ ReturnWith("error")
  /\ UNCHANGED child

(* NgrokTunnel.Start: ngrok is not there or cannot be run.                   *)
TunnelFails ==
  /\ main = "opened" /\ ~cfg.clear /\ cfg.ngrok
  /\ ReturnWith("error") /\ UNCHANGED <<database, child>>

TunnelStarts ==
  /\ main = "opened" /\ ~cfg.clear /\ cfg.ngrok
  /\ main' = "polling" /\ child' = "running"
  /\ UNCHANGED <<database, file, given, cfg, orphans, url, listener, handlers,
                 gaveUp, ended, kills>>

NoTunnel ==
  /\ main = "opened" /\ ~cfg.clear /\ ~cfg.ngrok
  /\ main' = "listen"
  /\ UNCHANGED <<database, file, given, cfg, child, orphans, url, listener,
                 handlers, gaveUp, ended, kills>>

(* waitForPublicURL asks whatever agent has the port: the child, one left    *)
(* behind, or one that somebody else runs on the machine.                    *)
AddressFound ==
  /\ main = "polling"
  /\ \/ child = "running" /\ url' = "own"
     \/ orphans > 0 /\ url' = "orphan"
     \/ url' = "foreign"
  /\ main' = "listen"
  /\ UNCHANGED <<database, file, given, cfg, child, orphans, listener, handlers,
                 gaveUp, ended, kills>>

(* Mutant of AddressTimeout: Start returns without Stop.                     *)
TimeoutLeavesChild ==
  /\ main = "polling"
  /\ ReturnWith("error") /\ UNCHANGED <<database, child>>

(* After startupTimeout, also when the child has exited long ago: its        *)
(* ProcessState is nil until Wait.  Start stops what it started.             *)
AddressTimeout ==
  /\ main = "polling"
  /\ child' = "none"
  /\ ReturnWith("error") /\ UNCHANGED database

(* go srv.Start(...)                                                         *)
Serve ==
  /\ main = "listen"
  /\ main' = "notify" /\ listener' = "starting"
  /\ UNCHANGED <<database, file, given, cfg, child, orphans, url, handlers,
                 gaveUp, ended, kills>>

Notify ==
  /\ main = "notify"
  /\ main' = "wait"
  /\ UNCHANGED <<database, file, given, cfg, child, orphans, url, listener,
                 handlers, gaveUp, ended, kills>>

-----------------------------------------------------------------------------
(* Serving *)

(* ListenAndServe in its goroutine; an error is logged and nothing else.     *)
Bind ==
  /\ listener = "starting"
  /\ listener' \in IF main \in {"notify", "wait"} THEN {"bound", "failed"} ELSE {"closed"}
  /\ UNCHANGED <<database, main, file, given, cfg, child, orphans, url, handlers,
                 gaveUp, ended, kills>>

Accept ==
  /\ listener = "bound" /\ handlers < cfg.limit /\ handlers < MaxHandlers
  /\ handlers' = handlers + 1
  /\ UNCHANGED <<database, main, file, given, cfg, child, orphans, url, listener,
                 gaveUp, ended, kills>>

HandlerWrites ==
  /\ handlers > 0 /\ Write
  /\ UNCHANGED process

HandlerReturns ==
  /\ handlers > 0
  /\ handlers' = handlers - 1
  /\ UNCHANGED <<database, main, file, given, cfg, child, orphans, url, listener,
                 gaveUp, ended, kills>>

-----------------------------------------------------------------------------
(* Ending *)

(* Mutant of Signal: Shutdown closes the store first.                        *)
SignalCloses ==
  /\ main = "wait"
  /\ main' = "close"
  /\ listener' = IF listener = "bound" THEN "closed" ELSE listener
  /\ UNCHANGED <<database, file, given, cfg, child, orphans, url, handlers,
                 gaveUp, ended, kills>>

(* SIGINT or SIGTERM: Shutdown closes the listener and begins to drain.      *)
Signal ==
  /\ main = "wait"
  /\ main' = "drain"
  /\ listener' = IF listener = "bound" THEN "closed" ELSE listener
  /\ UNCHANGED <<database, file, given, cfg, child, orphans, url, handlers,
                 gaveUp, ended, kills>>

(* Mutant of DrainEnds: without a deadline.                                  *)
DrainEmpties ==
  /\ main = "drain" /\ handlers = 0
  /\ main' = "close" /\ gaveUp' = FALSE
  /\ UNCHANGED <<database, file, given, cfg, child, orphans, url, listener,
                 handlers, ended, kills>>

(* The last request has returned, or the ten seconds are over.               *)
DrainEnds ==
  /\ main = "drain"
  /\ main' = "close" /\ gaveUp' = (handlers > 0)
  /\ UNCHANGED <<database, file, given, cfg, child, orphans, url, listener,
                 handlers, ended, kills>>

(* The rest of Shutdown; its s.ngrokTunnel is never assigned.                *)
CloseStore ==
  /\ main = "close"
  /\ main' = "unwind"
  /\ Stop
  /\ UNCHANGED <<file, given, cfg, child, orphans, url, listener, handlers,
                 gaveUp, ended, kills>>

(* The deferred NgrokTunnel.Stop: interrupt, then kill after five seconds.   *)
StopTunnel ==
  /\ main = "unwind"
  /\ child' = "none"
  /\ ReturnWith("ok") /\ UNCHANGED database

(* The deferred Close, which finds the store closed after a Shutdown.        *)
CloseDeferred ==
  /\ main = "unwound"
  /\ IF pc = "running" THEN Stop ELSE UNCHANGED database
  /\ Exit(ended)
  /\ UNCHANGED <<file, kills>>

(* SIGKILL or a power failure at any time, or any signal before Notify.      *)
Kill ==
  /\ main # "off" /\ kills < MaxKills
  /\ Crash \/ Stop \/ (pc = "down" /\ UNCHANGED database)
  /\ Exit("killed")
  /\ kills' = kills + 1 /\ UNCHANGED file

ChildExits ==
  /\ child = "running" /\ child' = "exited"
  /\ UNCHANGED <<database, main, file, given, cfg, orphans, url, listener, handlers,
                 gaveUp, ended, kills>>

OrphanExits ==
  /\ orphans > 0 /\ orphans' = orphans - 1
  /\ UNCHANGED <<database, main, file, given, cfg, child, url, listener, handlers,
                 gaveUp, ended, kills>>

OldBuildRuns == main = "off" /\ OldBuild /\ UNCHANGED process

MainStep ==
  \/ RefuseFlag \/ LoadConfig \/ OpenStore \/ ClearCache \/ TunnelFails \/ TunnelStarts
  \/ NoTunnel \/ AddressFound \/ AddressTimeout \/ Serve \/ Notify
  \/ DrainEnds \/ CloseStore \/ StopTunnel \/ CloseDeferred

LifecycleNext ==
  \/ MainStep
  \/ Begin \/ OpenFails \/ Bind \/ Accept \/ HandlerWrites \/ HandlerReturns
  \/ Signal \/ Kill \/ ChildExits \/ OrphanExits \/ OldBuildRuns

(* Statements, deadlines and the steps in between end; requests, signals,    *)
(* failures and ngrok may never come.                                        *)
LifecycleSpec == LifecycleInit /\ [][LifecycleNext]_lifeVars /\ WF_lifeVars(MainStep)

-----------------------------------------------------------------------------
(* Properties *)

LifecycleTypeOK ==
  /\ TypeOK
  /\ main \in Phases /\ file \in Files \cup {DefaultFile}
  /\ cfg \in [ngrok : BOOLEAN, limit : Int, clear : BOOLEAN]
  /\ child \in {"none", "running", "exited"} /\ orphans \in Nat
  /\ url \in {"none", "own", "orphan", "foreign"}
  /\ listener \in {"none", "starting", "bound", "failed", "closed"}
  /\ handlers \in Nat /\ gaveUp \in BOOLEAN
  /\ ended \in {"none", "ok", "error", "killed"} /\ kills \in Nat
  /\ pc \in PC \ {"down", "running"} <=> main = "opening"

(* tunnel.go:53-110 and main.go:114: whichever way a process ends, short of  *)
(* being killed, it leaves no ngrok behind; so the address announced to the  *)
(* user is never that of an earlier process's tunnel unless one was killed.  *)
(* Of an ngrok that is none of the proxy's it may be, for the poll asks      *)
(* whoever has the port.                                                     *)
TunnelsAccounted == orphans <= kills /\ (url = "orphan" => kills > 0)

(* server.go:120-123: requests in flight are drained before the store is     *)
(* closed; only a request that outlasts the drain meets a closed store.      *)
HandlersHaveStore == handlers > 0 /\ pc # "running" => gaveUp

(* config.go:371-379: flag, then variable, then file in either spelling,     *)
(* then default; an option without a flag has zero for the default, as viper *)
(* gives it, and not the one that config.go:35 declares.                     *)
ConfigPrecedence ==
  [][main = "config" /\ main' = "opening" =>
       /\ cfg'.ngrok = Preferred(NgrokSources(given, file'), DefaultNgrok)
       /\ cfg'.limit = Preferred(LimitSources(given, file'), 0)]_lifeVars

(* Whatever ngrok, the listener and the requests in flight do, a process     *)
(* that has been started comes to wait for a signal or ends, and one that    *)
(* has got its signal ends.                                                  *)
MainNeverHangs ==
  /\ main = "config" ~> main \in {"wait", "off"}
  /\ main = "drain" ~> main = "off"

=============================================================================

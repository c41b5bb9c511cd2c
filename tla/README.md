# Verification project for deepseek-cursor-proxy

TLA+ models, TLC configurations and TLAPS proofs for the Go proxy that sits
between the Cursor IDE and the DeepSeek API. The proxy exists for one reason:
DeepSeek's thinking mode wants the `reasoning_content` of every earlier
tool-call turn sent back, Cursor drops it, so the proxy caches it on the way
out and puts it back on the way in. Most of what can go wrong is in the life of
one piece of reasoning: accumulated from a stream, buffered, committed to
SQLite, pruned, looked up by the next request.

Line numbers are those of the modelled commit.

## 1. Inventory

| Component | Source | State it keeps | Operations |
|---|---|---|---|
| Reasoning store | `internal/store/store.go:88-516` | SQLite table `reasoning_cache`; one pooled connection; `mu`, `closed`, `batchBuf`, `batching`; atomic `putCount` | `BeginBatch`, `EndBatch`, `Put`, `Get`, `StoreAssistantMessage`, `LookupForMessage`, `BackfillPortableAliases`, `Prune`, `Clear`, `Close` |
| Cache keys | `internal/store/store.go:518-708` | none (pure) | scoped and portable key lists, signatures, namespace |
| Legacy table migration | `internal/store/store.go:28-86,140-183` | SQLite schema (tables, index) | archive, adopt, drop index, create table, create index |
| Circuit breaker | `internal/server/circuitbreaker.go` | `failCount`, `openUntil` under `mu` | `allow`, `failure`, `success` |
| Upstream client | `internal/server/server.go:477-558` | one `*http.Request` and its body reader per call | `doUpstream`, `upstreamRoundTrip` with exponential backoff |
| Concurrency limiter | `internal/server/server.go:297-317` | buffered channel used as a semaphore | acquire or answer 429, release on return |
| Handler pipeline | `internal/server/server.go:201-277,319-475,560-600` | per request | authorization, body, preparation, upstream, response or error |
| Streaming session | `internal/server/server.go:604-944` | accumulator, display adapter, contexts, pending notice, `finalized` | read SSE line, rewrite, write, deferred cleanup |
| Stream accumulator | `internal/streaming/streaming.go:22-299` | choices by index, stored rank by `index:scope` | `IngestChunk`, `StoreReadyReasoning`, `StoreReasoning` |
| Display adapter | `internal/streaming/streaming.go:301-467` | set of choices with an open thinking block | `RewriteChunk`, `FlushChunk`, `FoldReasoningIntoContent` |
| Request preparation | `internal/transform/transform.go:450-747,958-1389,1528-1542` | none (reads and writes the store) | normalise, repair reasoning, diagnose, truncate, recording contexts |
| History truncation | `internal/transform/transform.go:1391-1526` | none (pure) | `truncateMessages`, `withinLimits` |
| Tool compatibility | `internal/transform/transform.go:233-448` | none (pure) | `NormalizeTools`, `resolveToolChoice`, legacy functions |
| Model suffixes | `internal/transform/transform.go:81-192`, `internal/models/models.go:264-292` | none (pure) | `ParseModelSuffixes`, announced names |
| Response rewriting | `internal/transform/transform.go:788-956` | none | `RecordResponseReasoning`, `RewriteResponseBody`, notice chunks |
| Configuration | `internal/config/config.go` | viper, flag sets | `LoadConfig`, precedence, `Validate` |
| ngrok tunnel | `internal/tunnel/tunnel.go` | child process | `Start`, `Stop`, poll for the public URL |
| Lifecycle | `cmd/deepseek-cursor-proxy/main.go`, `internal/server/server.go:112-144` | signals, deferred closes | start, wait for a signal, graceful shutdown |
| Tracing | `internal/trace`, `internal/otel_ctx` | exporter | spans only |
| Container scripts | `docker-entrypoint.sh`, `docker-*.sh`, `cursor-credentials-setup` | environment | environment to flags |

**Interactions.** Every request runs in its own goroutine; at most
`max_concurrent_requests` of them are inside the handler. They share three
things: the reasoning store, the circuit breaker and the limiter. A request
first *reads* the store (lookup, back-fill of portable aliases) while it is
being prepared, then waits for the upstream, then *writes* the store while the
response is relayed. A streaming response opens a batch (`BeginBatch`) when it
starts and flushes it in a deferred call (`EndBatch`) after the client has been
sent `[DONE]`. The batch buffer belongs to the store, not to the request.
`main` closes the store on a signal, possibly while handlers still run (the HTTP
drain gives up after 10 s).

**What is hard.** Shared batch state under concurrent streams; a mutex and a
one-connection pool acquired in both orders by different operations; work done
in a deferred cleanup with a request context that a disconnect has cancelled;
retrying a request whose body has been consumed; schema changes that a crash
can separate; counters that are tested with `%`; pure functions whose comments
promise more than their loops deliver.

**What makes each component correct.**

- *Reasoning store.* A `Put` that returned "stored" leaves its entry somewhere in the live process until it is superseded, pruned or reported as failed; entries of one stream are written in order; the mutex and the one-connection pool are never waited for in a circle; no idle store is left in batching mode.
- *Cache keys and replay.* What was recorded is found again however the client rewinds or shortens its history; what is found was generated for a turn that reads the same, in the same namespace; a tool call gets its own reasoning.
- *Migration.* No row is lost and the live cache never looks empty, wherever a startup is interrupted.
- *Circuit breaker and upstream client.* The breaker's fields agree, it never shuts the proxy for good; every round returns; a retry sends what the first attempt sent.
- *Streaming session, accumulator, display adapter.* The client sees well-formed thinking blocks; what it sends back, stripped, is the content the reasoning is stored under, where the upstream's own text does not look like a block; the complete reasoning replaces the part stored early.
- *History truncation.* The cut falls between rounds, honours the limits where one can, drops no more than it must, and never lets dropped history return.
- *Tool compatibility, model suffixes.* Nothing the upstream is known to reject is sent, whatever tools, choice and mode meet; names that mean the same are sent alike and share the cache; each request is cut to the limit of its own name.
- *Configuration.* A value comes from the source the comment names first.
- *Tunnel and lifecycle.* Startup either serves or exits, what was started is stopped, the address announced is no earlier process's, and requests in flight find the store open.

## 2. Plan

Most important behaviour first. All of it is done; the modules are described in
the next section.

| Order | Module | About | State |
|---|---|---|---|
| 1 | `ReasoningStore` | the shared store under concurrent requests and shutdown | checked, proved |
| 2 | `CacheMigration` | schema changes across crashes and downgrades | checked, proved |
| 3 | `ReasoningReplay` | keys, repair, recording: the promise of the proxy | checked, proved |
| 4 | `ResponseRelay` | accumulator, display adapter and session | checked, proved |
| 5 | `UpstreamClient` | retries and the circuit breaker | checked, proved but for liveness |
| 6 | `HistoryTruncation` | the cut | checked, proved |
| 7 | `ReasoningCache` | abstract specification of the store, which `ReasoningStore` implements while streams do not overlap, and in a weaker form when they do | refinement checked and proved |
| 8 | `Configuration`, `Lifecycle` | where values come from; listener, signals, tunnel child, deferred closes, composed with `CacheMigration` | checked, proved but for liveness |
| 9 | `RequestOptions`, `RequestPreparation` | model names, tools, `tool_choice`, namespace, composed with `HistoryTruncation` | checked, proved |

Two compositions would be worth having and are not here, because their states
multiply beyond what TLC can visit: `ResponseRelay` over the buffer of
`ReasoningStore` (two sessions sharing a batch), and the cut of
`HistoryTruncation` behind the repair of `ReasoningReplay` (missing reasoning is
counted before the history is cut).

## 3. Modules

Constants and bounds are commented where they are declared. Definitions keep
the names of the code where TLA+ allows; `PROJECT.json` gives the source lines
of every definition. Operators described as *mutants* are never used by a
specification: each is a plausible bug that can take the place of the
definition below it, and makes a property fail.

**ReasoningStore.** `store.go:88-516` and the handlers and `main` around it. A
task is a slot of the concurrency limiter. `mu` and `conn` name who holds the
mutex and the single pooled connection across a wait; critical sections that
wait for nothing are one step. `BeginBatch`, `PutBuffered`, `PutDirect`,
`TakeBatch`, `BeginTx`, `Commit` are the code's steps between two waits;
`putCount` is advanced by a batch at once, as the code does, and tested with
`%`. An entry is a version `<<task, n>>`; the history variable `settled` holds
the versions that were superseded, pruned or reported as failed, so "lost" is
definable: `Kept` is what is settled, in the table or, while the process lives,
in memory. `CloseLock` to `CloseAgain` are the two closes of `main`; `CutOff`
says that `main` has exited over a stream or a store call that was running.

**ReasoningCache.** What the store promises its callers, without mutex,
connection, buffer and clock: a put is accepted into a group, a group becomes
visible or is given up as a whole, rows are forgotten, and what is gone stays
gone. The refinement mapping stands at the end of `ReasoningStore`: `Shown` is
the version a `Get` would find, `Groups` the entries in a caller's hands and in
the buffer. `ImplementsCache` is `Cache!Spec` under that mapping. `SharesCache`
in `ReasoningStoreRefinement` is the same specification with no writer counted
as a stream, so that no order is promised, and with what has vanished (`Lost`)
counted as given up.

**CacheMigration.** `store.go:28-86,140-183,421-443`. A table is a number and
the schema says which name it has; each statement is an action, and `Crash`
stands for a stop, and for an error, between any two. `OldBuild` is an older
release run on the same file, which applies its row cap to whatever it finds
under the name it uses; `Clear` is the flag's. `removed` is a history variable:
the rows that were cleared by the user or pruned by the old build.

**Configuration.** `config.go:126-205,219-481,524-545`, `docker-entrypoint.sh`.
Two options stand for all of them: `ngrok` has a flag and a default,
`max_concurrent_requests` has neither. `Sources` says what flag, variable and
file say, the file under either spelling; `GetKey` is what `getStringKey` and
its like make of it. Viper itself is external (`ViperGet`, `ViperGetYaml`).
`Entrypoint` makes flags of variables: the option's own, one the command does
not know when the switch is off, and one it does not know for a set
`DEEPSEEK_REASONING_CONTENT_PATH` or `DEEPSEEK_TRACE_DIR` (`strayEnv`).
`Preferred` is the comment of `config.go:371-379` and only properties use it.

**Lifecycle.** `main.go`, `server.go:112-144`, `tunnel.go`; extends
`CacheMigration` and `Configuration`. `main` is where `RunE` is. `OpenStore`
takes the migration's statements one at a time, so a process may be killed
between any two of them and the next one starts on what it left. `listener` is
the goroutine of `Start`, which no step of `main` waits for; `handlers` are
requests inside the limiter; `child` is ngrok, and `orphans` are the ngroks
whose process is gone, which still answer on the agent's port, as may an ngrok
that somebody else runs (`url` is "own", "orphan" or "foreign"). `Exit` is the end
of a process on any path; `Kill` is one without deferred calls.

**ReasoningReplay.** `transform.go:450-747,958-1389`, `store.go:314-371,518-708`.
Any number of conversations over one set of rows. A key is the record that the
code hashes; a reasoning text is the number of the answer it came with. `Ask`,
then one of `PassOn`, `Patch`, `Miss` for each message, then `Dispatch`, then
`Answer` or `Fail`; other conversations may run between any two. The client
appends, rewinds (`Rewind`) and shortens (`Forget`) its history. All keys of a
message are written in one step: that the code writes them one `Put` at a time
is the subject of `ReasoningStore`.

**ResponseRelay.** `server.go:604-944`, `streaming.go:22-467`. One response:
deltas of several choices are ingested, stored early, mirrored and written, or
a regular body is recorded and folded. Text is a sequence of tokens: words,
two kinds of white space, the adapter's own markers, and markers that the
upstream's text has in it, in a content or in the reasoning. `Removed` is what
the pattern of `transform.go:98` matches in them. Deltas may come behind a
finish reason (`late`). The stream may break and the client may go away at any
line; the deferred cleanup then runs with the cancelled context.

**UpstreamClient.** `server.go:477-558`, `circuitbreaker.go`. A round is one
call of `upstreamRoundTrip`; rounds share the breaker, which each asks before
its loop and tells once, at the end. `body` says whether the one body reader is
still unread. Backoff delays are nondeterministic; time advances in ticks.

**HistoryTruncation.** `transform.go:1391-1526` and its caller at 672.
`TruncateAt` is a function of a limit and a history; a client grows the history
by the rules of the chat protocol, so that calls are answered before the next
turn. `Cut` and `Sent` are what becomes of it when every request is made with
the constants `MaxMessages` and `Thinking`; `Sending` takes both as parameters.

**RequestOptions.** `transform.go:81-192,233-581,958-963`, `server.go:154-187`,
`store.go:684-708`. Pure operators. The name of a model is its base and its
tokens, so parsing is about which tokens count and not about characters; a tool
is its type and name; a `tool_choice` is its kind and the name it demands.
`Announced` is the list `handleModels` offers.

**RequestPreparation.** `transform.go:450-747` but for the repair of reasoning;
extends `HistoryTruncation` and `RequestOptions`. At any moment of the
conversation the client may send it under any name and with any tools;
`Payload` is what `PrepareUpstreamRequest` makes of that, and `prepared` holds it
until the upstream has answered. `max_messages` is `MaxMessages`; the thinking
mode is each request's own, while the constant `Thinking` of `HistoryTruncation`
describes the client whose histories are always cut.

The `MC...` modules define the constants' values and nothing else; the
`...Proofs` modules hold the theorems.

## 4. Runs

| Run | What it checks | Bounds, and why they are enough |
|---|---|---|
| `store_one_stream` | `NoSilentLoss`, `LockOrder`, `StreamWritesInOrder`, `ImplementsCache`, types | one streaming and one regular slot, two keys, two puts each, a row cap of 1, two ticks: enough for a put before, during and after a batch, for superseding within and across batches, for both kinds of pruning, and a shutdown anywhere |
| `store_two_streams` | `IdleStoreIsClean`, `StoreCallsReturn`, `CloseReturns` | two streaming slots, one key; every overlap of begin, put and end, and a prune holding the mutex while another holds the connection |
| `restarts` | `Lossless`, `LiveRowsKept`, `IndexUnlessInterrupted`, `TunnelsAccounted`, `HandlersHaveStore`, `ConfigPrecedence`, `MainNeverHangs`, types | any number of processes on one database; two openings that fail or are interrupted, one of them by the one kill, and a run of an older build, which may prune any of the rows it finds: an interruption followed by another of the repair, and by writes in between. Four files and five starts, directly or through the entry point, in which flag, variable, both spellings and defaults contradict each other in pairs. Two requests at once: one that ends and one that outlasts the drain |
| `replay_regular` | `RecordedIsReplayed`, `CallsInPlaceGetTheirOwn`, `ReplayStaysInTurn`, types | two conversations that may read the same, two namespaces that both think, two answers and one row pruned at any moment; `Room`: the client adds a message while there are fewer than five, or fewer than four once a row is pruned; a row is pruned while there are fewer than five. Five are a tool round, its final answer and the next turn, which replays both, or a tool round with a look-alike in the other conversation; four are what a round needs that is replayed after another has overwritten some of its rows and a third is lost |
| `relay` | `BlocksWellFormed`, `StripUndoesMirror`, `FinalWordStored`, types | two choices, two contexts, four chunks of fifteen kinds: reasoning, content, two calls and a finish in any order and interleaving, also behind a finish, with white space and markers in the text. Four are what the longest case needs: reasoning, a call stored early, more reasoning, a finish. The theorems say the same for any number |
| `upstream_rounds` | `BreakerAgrees`, `RoundsReturn`, `LetsThroughAgain`, types | two concurrent rounds, a threshold of 2, a window and a retry loop of two ticks |
| `rounds` | `NoOrphans`, `LastTurnSent`, `CutsNoMoreThanNeeded`, `LimitHonoured`, `DroppedStaysDropped`, `RequestsAccepted`, `OwnLimitHonoured`, `NamesAgree`, types | every conversation of up to seven messages with parallel calls, both limits on, and a tool result that alone exceeds one of them. Histories of up to five messages, long enough for a second round and for a cap of two, are sent under all names of one announced family, names a user might type (other orders, conflicting and unknown tokens, upper and mixed case, white space in a suffix, `mm0`, a model the upstream does not have), and in both modes with tools that are kept, dropped or absent against every kind of choice |
| `store_lost`, `store_shutdown`, `upstream_body`, `replay_streamed`, `relay_broken` | one property each, which TLC finds violated | see section 7 |

Deadlock is checked in the store, restart and upstream runs. It is off where
the system really stops: a client that is content, or a response that is over.
`replay_regular` uses symmetry between conversations and between namespaces,
`store_one_stream` between keys; neither run checks a liveness property.

**Fairness.** Only three runs need it. In `store_two_streams` every step inside a
store call is strongly fair: Go's mutex goes into starvation mode after a
millisecond and hands over to the longest waiter, and `database/sql` serves
every waiter of its pool, so a step that is enabled again and again is taken.
Nothing forces a handler to return, a client to go away or a signal to arrive.
In `upstream_rounds` rounds and the clock are weakly fair: the HTTP client has
a timeout and timers fire. Nothing forces the upstream to answer. In `restarts`
the steps of `main` between start and wait and between signal and exit are
weakly fair (`MainStep`): statements return, and the poll for the address, the
drain and the wait for the child each have a deadline in the code. Nothing
forces a listener to bind, a request to return, ngrok to answer or a signal to
arrive, and `MainNeverHangs` holds without any of them.

## 5. What is proved

All theorems hold for every value of the constants allowed by the named
assumptions, so for any number of slots, rounds, conversations, keys, rows and
messages. Each is an invariant argument: an initial-state lemma, a step lemma
with a step per action, and a temporal step.

| Module | Theorems | Argument |
|---|---|---|
| `ReasoningStoreProofs` | `TypeCorrect`, `LocksOrdered`, `IdleIsClean`, `NothingLost` | `LockInv`: the mutex is held across steps only by a prune and the connection only by a commit. `BatchInv`: batching mode is always some open stream's, and a call's entries are in its hands only until the write. `NothingLost` needs the assumption that at most one slot streams (`SingleStream`): with two it is false, which `store_lost` shows. What is in memory does not outlive the process: the theorem allows the loss of it only behind an exit that cut a stream or a store call off (`CutOff`) |
| `ReasoningStoreRefinement` | `Implements`, `StreamsInOrder` | each of the store's many steps has one of seven effects on entries, the first of which is none (`Effects`), and each effect is a step of `ReasoningCache` (`EffectsAreSteps`). That a batch is one group needs `PlaceInv` (an entry is in one place), that it is published as it was put needs `StreamInv` (hands before buffer, in the order of the puts). Both assume `SingleStream` |
| `ReasoningStoreRefinement` | `SharingKeepsTheRest`, `LossesAreBeginsAndExits` | without `SingleStream` there is one effect more: a `BeginBatch` that empties the buffer (`EffectOrBegin`), which the cache sees as a group given up. `SharedInv` is inductive for any number of streams: `EndInv` (who ends a batch has it open), `EntryInv`, and `ApartInv` (what waits in a buffer or in hands has been put and is not what the table shows), so that a vanished version can never be written again (`VanishedStays`). Silent loss, which `store_lost` finds, and order are therefore all that sharing the batch costs, and `LossesAreBeginsAndExits` names the two steps that lose, that `BeginBatch` and an exit over an open stream, and what they lose |
| `LifecycleProofs` | `MigrationLossless`, `MigrationKeepsLiveRows`, `MigrationTyped`, `MigrationIndexes`, of the migration by itself | `LiveInv`: the live rows are in the pluralized table while there is one, else in the proper one, and each statement finds the schema its guard promises, also after a crash |
| `LifecycleProofs` | `LifecycleMigrates`, `LifecycleTyped`, `TunnelsAreAccounted`, `StoreOutlivesHandlers`, `PrecedenceHolds` | every step of the whole program is a step of `CacheMigration` or leaves it alone, so its theorems carry over. `TunnelInv`: between `TunnelStarts` and the deferred `Stop` every path ends in a stop, a kill or the end of the child. `HandlerInv`: the store closes only behind a drain. `GetKeyPrefers`: the helpers' branches compute the documented order |
| `ReasoningReplayProofs` | `TypeCorrect`, `ReplayInTurn` | `RowInv`: a row is under a key of the context its reasoning was generated in. A scoped key contains the namespace and the whole prior conversation, a portable one the namespace and the turn, so either hit proves the turn equal; a back-fill writes portable keys of an equal turn and keeps the invariant |
| `ReasoningReplayProofs` | `CallsGetTheirOwn` | `ScopedRows`: the scoped row of a call's id, and of a message with a call, is that call's own, for no other message and no back-fill writes it. `CallsCached`: while nothing is pruned the former is there, and it is tried before the keys that other messages share (tool signature and name, the turn) |
| `ReasoningReplayProofs` | `RecordedReplayed` | `HistoryRemembers`: before each answer in a history stands a turn that reads as when it was generated, for rewinding keeps what stands before a message and shortening cuts where a turn begins (`TurnUnforgotten`, from the least-element lemma). `AnswersCached`: while nothing is pruned its portable key under call id or content is there. With both a look-up cannot miss (`DueIsFound`). It speaks of regular answers; with streamed ones the property is false, which `replay_streamed` shows |
| `ResponseRelayProofs` | `RelayTypeCorrect`, `BlocksAreWellFormed`, `StrippingUndoesMirroring`, `FinalWordIsStored` | `BlocksFollowOpen`: the adapter's open choices are those whose block the client has seen open, so each token of a delta finds the block as it needs it (`ShownAfter`). `Reads` relates a text, place by place, to the content left in it, and every delta shown keeps that relation (`ShownStep`); where nothing disturbs the pattern its matches are the adapter's blocks (`MatchesAreBlocks`). `RankTrue`: a choice's rank in a context is as high as its stage demands, and the highest means a finish. `FinishedBuffered`: a choice that ended with its finish has its whole row in the buffer; no other's row can have replaced it, for none has had its content |
| `UpstreamClientProofs` | `TypeCorrect`, `FieldsAgree` | the window is open only with the count at the threshold: a failure that opens it leaves the count there, a success clears both |
| `HistoryTruncationProofs` | `TypeCorrect`, `RoundsStayWhole`, `LastTurnIsSent`, `NothingCutInVain`, `DroppedAreGone`, `LimitsKept` | `TruncateAt` is a round start: the first non-system message or a user message (`TruncateIs`, from the least-element lemma), for any cap. `CallsInv`: between a call and its result, or the expected result, no user message stands. For `DroppedAreGone` the size of what is sent is unfolded one message at a time (`TokensUnfold`) and so never shrinks as the history grows (`TokensGrow`): what did not fit then does not fit now. `LimitsKept` assumes that histories are cut at all, i.e. not thinking with the strategy recover |
| `RequestPreparationProofs` | `PreparationConverses`, `PreparationTyped`, `NothingRefused`, `OwnLimitsKept`, `NamesAreAgreed` | the client's steps are those of `HistoryTruncation`, so its invariant holds; what is prepared is `Payload` of the history as it is (`PrepInv`). `ChoiceIsLegal` goes through the cases of a choice; `ParsedIs` shows that parsing depends on the set of tokens only while no two of a kind compete |

The assumptions are those of the modules (`TasksAssumption`,
`LimitsAssumption`, and so on: sizes and bounds are naturals, thresholds are
positive, names of different things differ). TLC evaluates them on every run.

**Only model-checked.** Liveness (`StoreCallsReturn`, `CloseReturns`,
`RoundsReturn`, `LetsThroughAgain`, `MainNeverHangs`) is out of the prover's
reach. Every invariant and action property of a passing run is stated by a
theorem.

**Only proved.** `SharesCache` and `LossesAreTwo` have no run: TLC agrees with
the former on two overlapping streams with two puts each and a row cap of 1
(half a million states), but the theorems say it for any number.

## 6. What is abstracted

- SHA-256 is injective and JSON encoding canonical: a key is the record hashed.
- Namespaces stand for base URL, model family, thinking mode, effort and authorization together.
- `created_at` has the resolution of the clock that drives pruning; the order of rows with equal times is SQLite's choice, as in the code.
- SQLite statements are atomic and durable; a transaction commits or is rolled back as a whole.
- Contents are members of small sets. In `ReasoningReplay` "indented" stands for a content whose leading white space stripping takes along and "quoting" for one with a thinking block in its own text. In `ResponseRelay` a block is of one kind: markers in the upstream's text are those of the kind the adapter writes, and the piece of reasoning with an end marker in it is one token.
- In `ReasoningReplay` a message has at most one tool call.
- Usage figures, spans, logging, error wording and the recovery notice (always empty) are left out.
- Of all options `Configuration` has two, one of each kind the helpers know; fields of a request that are passed on as they come (temperature, stop and the like) are left out of `RequestOptions`.
- A model name is a base and tokens. What is a cap, that `LOW` and a padded `max` are known efforts, and that `NoThink` is `nothink` while a padded one is not, are constants (`Caps`, `Lower`, `Folded`) with the assumptions the proofs need; case variants of `mm` are not in the runs.
- In `Lifecycle` a process has one ngrok at most, addresses are "own", "orphan" or "foreign", and the prune of a fresh start is left out.

**Not modelled.** Tracing: spans are written and never read back. Authorization,
the body limit and the rendering of errors: checks on a single request without
state. The health answer is constant. Of the container scripts only the
switches that become flags are modelled; the rest is shell and files outside
the program.

## 7. Where code and documentation part

Each of the first five has a run whose counterexample shows it.

1. `store_lost`: `BeginBatch` (store.go:205) replaces the shared buffer, so a stream that starts while another is open discards what that one has buffered. The comment says that only one batch can be active; nothing enforces it.
2. `upstream_body`: every retry passes the same `*http.Request`, whose body is a buffer that can be read once (server.go:446,531). No retry after a 5xx can succeed.
3. `replay_streamed`: `ToMessage` hands tool calls over as `[]map[string]any` (streaming.go:46-49), the key functions assert `[]any`, so a streamed message with tool calls is stored under its content's signature alone and is not found when it is replayed with its calls.
4. `relay_broken`: the deferred cleanup uses the request's context (server.go:852); when the client has gone it is cancelled and the batch is dropped.
5. `store_shutdown`: `Close` (store.go:187-198) does not write what a stream that outlasts the drain has buffered, though server.go:120-123 says the shutdown flushes the batch. `NoSilentLoss` allows this loss and no other.

Seen while modelling, without a run of their own:

- The row cap can stay unenforced: a batch steps over multiples of the prune interval (store.go:250).
- A stop between the second rename and the drop of the index leaves the active table without one: the index's name stays with the archived table (store.go:73-80).
- The breaker counts rounds that clients have left as failures (server.go:551-553), though it is to track "upstream failure state" (circuitbreaker.go:15), and a half-open breaker lets any number through.
- System messages in the middle of a conversation are cut with their round (transform.go:1435), though README.md:176 says system messages are always kept.
- Once a history is shortened, a scoped key of a look-alike message, tried first, can beat a message's own portable key (store.go:366-371).
- With thinking enabled and the strategy recover the limits are never applied (transform.go:672; README.md:150).
- Missing reasoning is counted before the cut, so the strategy reject may refuse a request for messages that would not be sent.
- The client has `[DONE]` before the deferred `EndBatch` commits; its next request may look too early.
- When the listener cannot bind, `main` goes on waiting for a signal (main.go:152-162); `MainNeverHangs` counts this as waiting.
- The tunnel's check for a premature exit reads a state only `Wait` sets (tunnel.go:117-120).
- `max_concurrent_requests` has no flag, so a file that leaves it out makes `LoadConfig` overwrite the default with zero, which `Validate` refuses (config.go:334,535). `ConfigPrecedence` takes that zero, not the 10 of config.go:35, for the default of the option without a flag.
- `mm0` is documented as "no limit" (README.md:170, transform.go:173), but a cap of 0 means that none was given (transform.go:472-477), so the configured one counts; `OwnLimitHonoured` says nothing of such names.
- The table of variables gives 0 as the default of `DEEPSEEK_MAX_MESSAGES` (README.md:125); it is 200 (config.go:42, README.md:150).
- A `tool_choice` object that demands a custom tool, or a function without a name, is passed on as it is, while thinking and when its tool was dropped (transform.go:383-423), although the comment says a choice of a dropped tool is dropped too (transform.go:382). `RequestsAccepted` excepts these choices.
- With thinking off the client's own `reasoning_effort` is passed on as it came (transform.go:549).
- `:LOW` and `:low` send the same effort but have two cache namespaces, for the namespace takes the token as it is written (transform.go:575-581).
- A configured `upstream_model` with suffixes is stripped of them when the client names no model, and sent as it is when the client names a model the upstream does not have (transform.go:462-479, 958-963).
- `Shutdown` promises HTTP server, tunnel, store (server.go:120-123), but its tunnel field is never assigned: the tunnel stops last, in a deferred call of `main`, and is up while the store is closed.
- A process that starts while another ngrok runs, a killed process's or anybody's, may announce that one's address (tunnel.go:122); `TunnelsAccounted` says of the former that it takes a kill, and nothing of the latter.
- Reasoning that is stored early, before a client can answer a tool call (streaming.go:165), waits in the buffer, and `Get` reads only the database (store.go:292-312): it is not there for an early answer.
- What comes behind a choice's finish reason is not stored when `[DONE]` follows (streaming.go:190, server.go:840); `FinalWordStored` leaves such choices out.
- Stripping takes any white space behind a block, and blocks in the upstream's own text (transform.go:98): such a content is stored under a signature the replayed message does not have. `StripUndoesMirror` names these cases.
- A signal before `signal.Notify` (main.go:161) ends the process without its deferred calls.
- `docker-entrypoint.sh` turns a switch that is off into `--no-...` (line 41), and two settings into `--reasoning-content-path` and `--trace-dir`; the command knows none of these flags, so such a container exits at once, and is started again.
- A body above the limit is cut off by the reader, so decoding fails at its end, before the test for 413 sees a size beyond the limit: the client is told 400 (server.go:347-362).

## 8. Running

    tlc -config MCReasoningStore_one_stream.cfg MCReasoningStore
    tlapm ReasoningStoreProofs.tla

and likewise for every other pair of configuration and module; no run takes
longer than five minutes on two cores.

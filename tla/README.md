# WisePenCloud-AI: TLA+ specifications

This directory models the Python services of WisePenCloud-AI in TLA+, checks the models with
TLC on small instances, and proves the core theorems for every instance with TLAPS. The models
are written from the code; where a comment or a test of the code says something else, it is
listed under [Findings](#findings) or [Divergences](#divergences-no-run-carries).

Paths below are relative to `src/services`; `chat/` stands for
`wisepen-chat-service/src/chat/`, `sandbox/` for `wisepen-sandbox-service/src/sandbox/`,
`common/` for `wisepen-common/src/common/`, `wisepen_mcp/` for
`wisepen-mcp-service/src/wisepen_mcp/`.

## 1. The system

Three FastAPI services on asyncio share MongoDB, Redis, Kafka and Nacos:

- the **chat service** runs conversations: an HTTP request starts a *turn*, a background task
  asks a model, runs tools, streams SSE frames into Redis, and persists messages and bills;
- the **sandbox service** gives every user a container to run commands and keep files in; its
  tools are offered to the chat service over MCP;
- the **MCP service** offers stateless tools (notes, skills, user resources, web search).

`common/` has what they share: service discovery and RPC, Kafka, security headers, Markdown and
retrieval algorithms. Everything is cooperative: between two `await`s nothing else runs in a
process, but several instances of the chat service run at once, and every `await` on Redis,
MongoDB, Docker or a provider lets other tasks run, may raise, and may be where the process
dies. That is where the hard behaviour comes from.

### Components

| Component | State | Operations | Hard behaviour | What makes it correct |
|---|---|---|---|---|
| **Running-turn lease and SSE stream** (`chat/application/chat_turn_stream_manager.py`, `chat/core/persistence/redis/chat_turn_stream.py`, `chat/api/endpoints/chat.py`) | lease key per session, frame stream and cancel flag per turn in Redis; the tasks of an instance | start, renew + append, release, subscribe (replay, follow), cancel with a grace period and a kill | several instances, lease expiry between renewal and append, Redis failures with unknown effect, crashes, cancel racing the next turn, late subscribers | one live turn per session; stale runners stop; subscribers see a gapless prefix and end; cancel hits its own turn |
| **Query loop and tool dispatch** (`query_loop_runtime.py`, `tools/core/execution`, `tools/core/llm/invocation.py`) | context, record, calls of the step, suspended chats | model step, classification, dispatch in groups, approval, client tools, suspension, recovery | cancel flag read before the work it admits; recovery in another request after any number of suspensions; a kill inside a step | context well formed, steps bounded, only approved calls run, calls run once, the loop ends |
| **Chat turn persistence and memory** (`chat_turn_coordinator.py`, `chat_turn_finalizer.py`, `chat_context_assembler.py` and their repositories) | archive in MongoDB, hot context in Redis, summary in the session, suspended chats, bills | start, recover, close an unfinished chat, persist, bill, compress in the background | background tasks overlap the next turn; lost runs; expiry of the hot context; batches of one turn over several requests | each message archived and billed once, nothing missing, prompt covers all settled turns |
| **Sandbox pool and watcher** (`sandbox_watcher.py`, `container_manager.py`, `host_health_checker.py`, `sandbox_repository.py`) | a document and a container per box | warm, probe, swap, force, relieve pressure, claim idle, release; assignment and protection by requests | unconditional writes after stale reads, docker failures, restarts, pressure ending a round early | boxes move forward only, destroyed means gone, pool bounded, retiring and dying boxes end |
| **Command tasks** (`command_task_service.py`) | task records, protection count per box, events, locks, workers | start, worker, finish, kill, wait, reconcile after a restart | worker, start and kill finish one task; whole-record saves; cancelled requests; locks dropped with the worker | an end is final, protection neither leaks nor is released twice, waiters woken, no task forgotten |
| **Workspaces of sessions** (`workspace_manager.py`, lease in `file_service.py`) | workspace document, directory in a box, cache on the host | allocate or restore, lease, export, publish, destroy | restore races export, two requests of a session, torn replacement of a cache | work that was reported done is found again; a user has one box |
| **Tool registry and scope** (`tools/core/registry.py`, `chat_turn_tool_policy.py`, `tools/core/execution/executor.py`) | registered tools; per turn a scope with configurations | register, derive, suspend, recover_derived, preflight; the endpoints that save configurations | a tool vanishes or changes between suspension and recovery; configurations saved while a scope is derived | what is shown can run; a resumed turn has the tools it was suspended with |
| **MCP client and catalogs** (`tools/core/mcp`, `mcp_tool_discovery_cache.py`, `mcp_server_config_repository.py`) | tools an internal service listed last, with a TTL; descriptors per server and version | list with cache and fallback, load the user's tools, add and delete servers | late answers of other turns, services that fail, servers that go | a turn has one whole list of a service, the last known or a newer one |
| **Tool output cache** (`tools/core/output_cache`, `session_tools/cached_tool_output_tools`) | stored texts with locators and chunks | put, preview budget, read by range, page and section, search by pattern and meaning, structure | boundaries of budgets and windows; failing storage; ids of other sessions | previews fit the budget; a cut window says so; reading on reaches the whole text |
| **Model and provider management** (`model_repository.py`, `provider_repository.py`, `api/endpoints/model.py`) | models, providers with their usage, mappings with a preferred one | create, update, bind, unbind, delete, resolve, count usage | several documents changed one by one, saved whole after earlier reads | nobody's key pays for another user; one preferred mapping; no orphan |
| **LLM adapters, step event interpreter, SSE mapping** (`core/providers/llm`, `query_loop_runtime.py`, `vercel_sse_mapper.py`, `ui_message_converter.py`) | accumulators of a stream, parts of a step, messages with payloads | provider chunks to events to frames and to the saved message; the history to the next request; the history to the page | interleaved parts, ids and arguments in pieces, cancel between events, a switch of the provider | parts end; reports are billed once; calls run as sent; the next request and a reload hold what the stream showed |
| **Service discovery and RPC** (`common/cloud/service_discovery.py`, `common/http/rpc_client.py`, `common/gray`) | list of instances with its time, locks, subscriptions | pick, refresh, push, retry, close | pushes race refreshes; waiting calls find a list that changed; Nacos fails | developers isolated; one refresh at a time; an outage empties no list |
| **Markdown parsing and chunking** (`common/utils/markdown`) | none | normalise, sections, split, pack, neighborhood | oversized pieces, token counts that do not add up, captions | the text is in the chunks once, in order |
| **Retrieval** (`common/utils/retrieval`) | none | recall and fuse, prepare, rerank, diversify, cut | a reranker that fails, is partial or out of range | nothing withheld comes back, nothing is lost, orders are earned |
| **Sandbox file service and AIO file API** (`file_service.py`, `sandbox/mcp`, `aio_adapter.py`) | files of workspaces, leases, temporary files, objects, announced resources | read, search, list, write, replace, import, export, publish | other calls write while a file is streamed; sizes that differ; a step of several fails | transfers are whole and within the limit; a path leads back to its file |
| Kafka (`common/kafka`) | consumer position | consume, handle, commit | a failed message followed by a commit | handled before committed |
| Agents and prompts, session and memory endpoints, speech, MCP capabilities, clients, security, logging | single documents or none | reads, conversions, single writes | little | |

Interactions. `chat.py` asks the stream manager to start a turn (**TurnStream**); the manager
drives the coordinator as a generator of frames (**ChatTurn**), which drives the query loop
(**QueryLoop**); tools of the sandbox reach **CommandTask** and the file service, both of which
get a box from `WorkspaceManager.allocate` (**Workspace**), which binds a READY box made by the
watcher (**SandboxPool**). The watcher calls the workspace manager to export before it destroys.
Before a
turn starts its tools are derived (**ToolScope**) and its model and provider resolved
(**ModelRouting**); each step speaks to the provider through an adapter and streams its events
(**LlmStreams**); long results of tools go through **OutputCache**, whose search by meaning is
ordered by **Retrieval** over chunks that **MarkdownChunks** makes; the file tools work in the
box that **Workspace** leases (**WorkspaceFiles**); and calls to the Java services of the
platform go through discovery and RPC (**RpcRouting**). The models meet at these calls: each module
takes what the neighbour does as an action of the environment, and says so in its head comment.

## 2. The modules

A step of a model is what happens between two awaits that matter. A remote command takes effect
in the step that issues it, and the failing scenarios let the caller see an exception whether or
not it took effect. Variables and actions carry the names of the source where they have one;
`PROJECT.json` maps every definition to the lines it stands for.

| Module | What it models | Uses |
|---|---|---|
| `TurnStream` | lease scripts, runner, subscribers, cancel calls, expiry, crashes, for one session | refines `ExclusiveTurns` |
| `ExclusiveTurns` | abstract: turns of a session are live one at a time | |
| `QueryLoop` | the ReAct loop, its checkpoints, tool groups, suspension, recovery | |
| `ChatTurn` | stores of a session, batches, billing, window, summary, background tasks | SequencesExt |
| `SandboxPool` | watcher round, documents, containers, assignment and protection | |
| `CommandTask` | start, worker, kill, wait, `_finish` under its lock, restart | |
| `Workspace` | allocate, lease, reclaim with export and publish, files as sets of marks | SequencesExt |
| `ToolScope` | catalogs, configurations, servers; derive, suspend, recover, preflight of one user's turns | SequencesExt |
| `ModelRouting` | models, providers and mappings under concurrent calls; which key serves a turn | |
| `LlmStreams` | five adapters, events, frames, saved messages, next requests, page reload | SequencesExt |
| `OutputCache` | stored outputs, previews, windows, searches, structure | SequencesExt, FiniteSetsExt |
| `Retrieval` | fusion, preparation, reranking, MMR | SequencesExt |
| `MarkdownChunks` | blocks to sections and chunks | SequencesExt |
| `WorkspaceFiles` | file tools, import, export, publish, over files as sequences of chunks | SequencesExt |
| `RpcRouting` | the list of a service's instances, and calls that retry | |
| `TurnStreamProofs`, `QueryLoopProofs`, `ChatTurnProofs`, `SandboxPoolProofs`, `CommandTaskProofs`, `WorkspaceProofs`, `ToolScopeProofs`, `RoutingProofs` | inductive invariants, lemmas and theorems | the module of that name (`WorkspaceProofs`: `Workspace` and `WorkspaceFiles`; `RoutingProofs`: `ModelRouting`, `RpcRouting` and `LlmStreams`), TLAPS |
| `MCTurnStream`, `MCQueryLoop`, `MCSandboxPool`, `MCCommandTask`, `MCChatTurn`, `MCWorkspace`, `MCToolScope`, `MCLlmStreams` | model values, scenarios and symmetry for TLC | the module of the same name |
| `MCSessions` | one run for `TurnStream` and `ChatTurn` | both |
| `MCWorkspaces` | one run for `Workspace` and `WorkspaceFiles` | both |
| `MCLoop` | one run for `QueryLoop`, `OutputCache`, `Retrieval`, `MarkdownChunks` | the four |
| `MCServices` | one run for `ToolScope`, `ModelRouting`, `RpcRouting`, `LlmStreams` | the four |
| `MCLiveness` | the liveness of `TurnStream`, `QueryLoop` and `SandboxPool` in one run | the three |

**Runs of several modules.** Components that share no state are checked in one run: a variable
`which`, drawn in `Init` and never changed, says which of them a behaviour is about; the others
stay at an initial state. The state space is the sum of the components' and not their product,
and a property of one of them is checked in all its behaviours. (It is *not* a composition that
interleaves them.) Modules that are extended together have names of their own for what every
module has: `StoresInit`, `RoutingInit`, `RpcInit`, `StreamInit` and so on. `QueryLoop` and
`SandboxPool` in `MCLiveness` are instantiated instead. An assumption of a module that others extend together, or that is instantiated, is an operator
(`Parameters`, `RoutingParameters`, `FilesParameters`, ...) that the MC module assumes (`Given`).
Where several small invariants belong together they are one conjunction with a name of its own
(`LoopInv`, `ScopeInv`, ...); the conjuncts keep their names and comments in the module they are
about.

**Scenarios.** What may go wrong is a set of named events (`Events` of each module). A behaviour
draws one set `happens` from the constant `Scenarios` in `Init`, and every fault action asks
whether its event is in it. So one run checks several fault models without paying for all their
combinations, and a property that only holds without some fault names that fault in its
statement, where a reader sees it, instead of in a configuration. `ChatTurn` calls them `Mishaps`,
`Fates` and `befalls`; `ModelRouting` draws the calls that are made (`Workloads`, `workload`),
`WorkspaceFiles` what may fail (`Faults`, `faulty`).

**History variables** (`expired`, `killed`, `stale`, `executed`, `late`, `billed`, `closed`,
`settled`, `acked`, `told`, `was`, `overlapped`, `unbilled`, `missed`, `unreported`, `seen`, `dropped`) are
written and never read by an action.

### TurnStream
`active_turn` is the lease key, `stream[t]` the Redis stream reduced to frame kinds,
`cancel_requested` the flags, `tasks[p]` the `_tasks` dictionary of an instance, `runner[t]`
where `_run_turn` is. `acquire`, `renew` and `release` are the three Lua scripts, so each is one
step; renewal and append are two (`renew_active_turn`, `AppendContent`), which is the window in
which a lease may expire. `GeneratorStep` is all the loop sees of the coordinator: a frame, the
end, or an exception. `Crash(p)` stops an instance with all its runners, `LeaseExpires` is the
TTL. The cancel endpoint reads the active turn, sets the flag, looks up the task, waits and kills
in separate steps. Streams and flags live 60 minutes and leases 30, so their own expiry is left out.
A Redis command that raises, with or without effect, may meet any point: `start_turn_fails`
leaves a lease of a turn that never runs, and an append that fails inside the `except` clause ends
the turn without a terminal frame (`unreported`). `Silent` names all the turns that write none.

### QueryLoop
`messages` is `messages_for_llm`, `record` the messages this request will archive, `calls` and
`outputs` the step in hand, `suspended` the stored chats. The kinds of tools (`server`,
`approval`, `client`, `unknown`) are a constant function. Each `is_turn_cancel_requested` is a
step of its own and the work it admits the next one, so a cancel in between is possible.
`Recover` resumes the newest suspended chat with any subset of answers; `RunLost` is a process
that dies, or a request that fails before it is persisted. Events inside a step, contents and
token counts are abstracted, as are preflight checks other than approval.

### ChatTurn
A message is the number of its creation and weighs one token; a reply stands for what a model
step adds, tool results included; a summary is the set of messages it was made from and the
time it was written. `archive` is MongoDB, `hot` the Redis list, `jobs` the background tasks,
`suspended` the set of suspended chats, of which the `Latest` is recovered or closed; `Newer` reads
the archive from the summary's time on when the hot context is gone. The loop is seen as one step that answers, suspends or fails.
`Background` may run while the next turn does when `overlap` is in the scenario. What is logged and
passed over is an event each: a hot context, an archive or a summary that cannot be read
(`hot_unread`, `history_unread`, `summary_unread`; the early exits of the assembler), a report of
tokens that fails (`bill_fails`; the tokens are lost, `unbilled`), a title that cannot be asked for.
`missed` notes the requests whose history or summary could not be read: their prompts lack it, and
`NothingForgotten` is about the others. The memory
flags are taken as enabled; the trimming at 50 messages is beyond the bounds. The session
document's summary is written in one step; its whole-document saves by other requests are left
to a later module.

### SandboxPool
A box is a document (`state`, `user`, `working`, `idle`) and a container (`alive`). One watcher
per service works through the phases of `maintain` and `reclaim_idle`; `snap` and `todo` are what
it read, and requests assign and register in between. Ages, probes and pressure are choices.
`mongo_fails` lets every read and write of a document fail, a write with or without effect: inside
`force_destroy_specified_sandbox` and `warm_sandboxes` the round goes on (`MarkDestroyed`,
`WarmCleanup`), elsewhere that part of the round ends (`MaintenanceFails`, `ClaimFails`).

### CommandTask
A task has processes `start`, `work` and one per kill call, each `[at, due, lock]`: where it is,
the end it wants to record, and which lock object it took. `setdefault` on a dictionary from
which the worker pops means a caller after the worker's end gets a second lock object, hence
`LockOf`; `FinishIsLocked` names when only one of the two is in use. `remote` is the command in the box as AIO would report it. A restart stops every
process and runs `reconcile_interrupted_tasks` step by step before the service serves again.

### Workspace
A directory is one file, a set of the marks of the requests that worked in it; copying replaces
the set. `dir[b][w]` is the directory in box `b`, `cache[w]` the copy on the host. `allocate` is
`Look`, `Find`, `Assign`, `Again`, `Restore`, `Mkdir`, `Attach`; a lease is `Register`, `Work`,
`Unregister`; reclaim is `Claim`, `List`, `Export`, `Publish`, `Release`, `Destroy`. One timing
assumption is stated in `TimePasses`: the idle timeout (minutes) does not run out between the
reading of a user's binding and the assignment of a box in the same request.

### ToolScope
`listing[s]` is what a source answers now, `cached` and `found` the two caches (`late` are
answers of other turns that are on their way into the shared cache), `asking[s]` what `_load_tools`
held of the cache when it began to wait for `list_tools`, which its fallback uses even if the cache
was filled meanwhile; `seen[s]` collects the lists that were the last known since the turn began, `config` and `server` the
user's documents. A turn discovers its sources one await at a time, then `Derive` or `Recover`
build the scope in one step, as the code does; `Suspend` keeps the names, the sources and the
configured keys. The endpoints read in one step and save in another. Tools that a policy treats alike
are one tool; schemas and texts are left out. An upsert of a server looks the server up under a
fresh id, as in the code.

### ModelRouting
`mappings` is a set of records, as in the collection with its indexes; every multi-document
operation is a step per document read or saved, and `save` writes back the whole document that
was read and re-creates one that is gone, as Beanie's does. `spent` counts what was spent with a
provider's key, `overlapped` remembers whether two calls ever ran side by side: `NoOrphans` and
`UsageKept` promise nothing then, because the code does not keep them (see Divergences). An id
may be given again after its document was deleted; both counts then start anew. `Consistent` says what
may be stored at first.

### LlmStreams
A text is a sequence of tokens, one for each delta. `acc` is what the adapter accumulates,
`queue` the events between adapter and loop, `step` the interpreter with the parts that are
open, `frames` what the user was sent, `told` a history variable of what the provider sent of
each call. `OpenAiChunk` to `LiteChunk` are a chunk of each provider; what a provider promises is
assumed where the adapter relies on it: OpenAI and Anthropic complete each item they stream.
LiteLLM's fragments of names and arguments add up. `json_object` drops arguments that are no object:
some tokens are `Garbled`. `UsageChunk` is a report, for OpenAI one with every completed response;
`Resolved` is the bill of a step: its reports, an estimated split when they have no input tokens
(those with a `Garbled` number), an estimate when there is none.
`Consume` takes one event from the adapter, `StreamCancelled` and `ToolsCancelled` are the cancel
checkpoints. Of the tool phase, which `QueryLoop` models, there is what it leaves behind: a step
runs (`StepRunsTools`) or waits (`StepSuspends`, whose record is persisted without results);
a suspended chat goes on (`RecoverChat`, `ResumedRun`), is cancelled among its groups
(`ResumedCancelled`) or at the head of the loop (`ResumedToNothing`, which leaves its calls
unanswered, `dropped`, or keeps the chat when asking for a title raises), or is closed by the next
turn (`Unfinished`, which saves its batch again). `Request` and `UiParts` are what the five
formatters and the page make of the history and of a suspended chat (`Page`, `Asking`).

### OutputCache, Retrieval, MarkdownChunks
Algorithms over sequences, each with a small state machine around it: what was stored and the
last answer; the stages of the pipeline; a document that is read block by block, parsed, divided
into sections and chunked. Offsets, budgets and
token counts are integers, texts have a length only. Chunks, pages, matches and the ranking are
inputs of `OutputCache`; retrievers' answers, vectors (`Twins`) and scores in whole units are
inputs of `Retrieval`, and a stage that raises ends the pipeline (`Fail`). The tokeniser of
`MarkdownChunks` is a size per piece and a number that a join adds or saves, because token counts of
joined texts do not add up; `Policies` says that number, whether the document has a title, and
how many blocks it has. `limit` and `all` of an answer of `OutputCache` are ghosts: how many matches
were asked for and how many there are. Blocks include headings whose title is blank, which
open no section, and documents of which nothing is left become one raw paragraph (`Raw`). The
root section has the document's name for a path.

### WorkspaceFiles
A path is a sequence of names, a content a sequence of marks. `Strip`, `Accepts`, `Clean` and
`Absolute` are `_resolve_workspace_path`, which strips the path as a whole before it looks at it;
`Found` is where the container finds the result, `Relative` the way back. Marks are labels the model
gives to chunks, so an attachment has marks of its own (`Apart`): a file that begins with one can
be told to hold a part of the attachment or all of it. A call begins (`Begin`), takes the lease
(`TakeLease`) and works; `Inspect` are the tools that look, `Edit` those that write. `Open`, `Stream`, `Ticket`, `Send`
and `Report` are the awaits of a transfer; AIO breaks a download off when the file changes
(`change_policy`), and the limit is applied to what is said and to what comes. Calls may fail in
AIO with or without effect, at a place where no file can be (`Blocked`), in storage, for lack of a box, or for lack of a configured provider.

### RpcRouting
`cache` and `fresh` are `_cache` and `_fetched_at`; `lock` is the per-service lock; `pushes` are
lists on their way to `_on_change`. `Pick`, `Lock`, `Refreshed` or `Degraded`, `Subscribe` and `Choose` are
the awaits of `pick`, `Answered` and `Failed` the attempts of `request`. A subscription may fail after
it was made, and a request may be cancelled at any await (`Cancelled`); both leave a subscription
that the process does not know of and makes again. Any instance of the
pool may be chosen, which covers the three balancing strategies.

## 3. What the runs check

Every run uses `CHECK_DEADLOCK FALSE`: turns, requests, tasks, boxes and failures are bounded,
and a behaviour that has used them up stops; that is the end of the instance and no deadlock of
the code. Waiting for ever is instead the subject of the liveness properties.

| Run | Instance | States | Shows |
|---|---|---|---|
| `Sessions_all` | lease and stream: 2 turns, 2 instances, 1 cancel call, 2 content frames; scenarios: cancel, or Redis failures. Stores: 3 requests, 7 messages, watermarks 2/1, 1 loss; six scenarios in which the hot context is whole, one in which the summary misses nothing, one in which everything may be partial | 1.4 M | `TypeOK`, `HolderKeepsLease`, `KillOnlyCancelled`, `StaleWriterStops`, `FinishFreesSession`, refinement of `ExclusiveTurns` (`SessionSpec`); `StoresInv`, `NothingMissing`, `NothingForgotten` |
| `Liveness_ends` | stream: 1 turn, 2 instances, 1 subscriber, 1 cancel call; scenarios: cancel, or Redis failures; loop: 2 tools, 2 iterations, 2 model steps; pool: 2 boxes, target 1, pressure and failures | 57 k | `StreamIsWhole`, `SubscribersEnd`, `CancelEndsTurn`, `LoopEnds`, `BoxesEnd` |
| `Loop_all` | loop: 3 tools (one per kind), 2 iterations, 3 model steps, 1 lost run; outputs: 2 contents of 2 sessions, 4 kinds of texts; ranking: 4 candidates, 2 retrievers; documents of up to 4 of 12 blocks, with and without a title, joins that add, save or cost nothing | 2.1 M | `LoopInv`, `CallsRunOnce`, `CancelStopsWork`, `RunsOnlyApproved`; `OutputsHold`; `RankedFairly`; `ChunksHold` |
| `ChatTurn_overlap` | compression and overlap only | found at once | violates `OverlapIsHarmless` |
| `SandboxPool_life` | 1 user, 3 boxes, target 2, 1 retry; all events, all but docker failures, all but these and MongoDB failures, slow boxes with docker failures and restarts | 2.8 M | `PoolInv`, `PoolBounded`, `NeverBack` |
| `SandboxPool_forced` | 2 boxes, swaps only | found at once | violates `ForcedIsUnassigned` |
| `CommandTask_tasks` | 2 tasks, 1 box, 1 kill call per task, 1 restart; all events, kill + provider failures, cancelled waits | 1.1 M | `TaskInv`, `NothingLeaked`, `WaiterWoken`, `TaskIsFollowed`, `TerminalIsFinal` |
| `CommandTask_overlap` | 2 tasks, 1 box, 2 kill calls per task; kill + MongoDB failures | found at once | violates `RunningIsProtected` |
| `Workspaces_all` | boxes: 3 requests of 2 sessions, 2 boxes, 1 restart; files: 2 calls of 22 inputs in 2 sessions, 4 attachments, limit of 2 chunks | 1.3 M | `BoxInv`, `NothingLost`; `TransfersAreWhole`, `FilesFound` |
| `Workspace_restored` | boxes without events | found at once | violates `RestoredIsServed` |
| `Services_all` | scope: 2 servers (1 at a time), 3 requests, 2 changes of one kind; models: 2 users, 2 models, 3 providers, 2 calls at once, 4 in all; RPC: 3 instances, 2 calls of 2 attempts, 1 change, 1 expiry; streams: 5 providers, a server and a client tool, 6 units of work (deltas, calls, reports, steps, turns) | 1.4 M | `ScopeInv`, `OutageKeepsTools`; `KeysAreOwn`; `RoutesKept`; `StepInv`, `RequestsFaithful`, `ReloadShowsAll` |
| `LlmStreams_switch` | the streams alone | found at once | violates `ResultsHaveCalls` |

The conjunctions: `LoopInv` is `QueryLoop`'s `TypeOK`, `StepsBounded`, `PromptWellFormed`,
`AbortedIsAnswered`; `StoresInv` is `ChatTurn`'s `StoresTyped`, `UserOnce`, `NeverTwice`,
`OneSuspended`, `HotIsArchived`; `PoolInv` is `TypeOK` and `DestroyedIsGone`; `TaskInv` is
`TypeOK` and `RunningKeepsBox`; `BoxInv` is `TypeOK` and `OneBox`; `TransfersAreWhole` is
`ExportIsWhole` and `ImportIsWhole`; `FilesFound` is `OnlyOwnFiles` and `AnswersResolve`;
`ScopeInv` is `TypeOK`, `OfferedCanRun`, `ResumedAsSuspended`; `KeysAreOwn` is `ResolvedIsOwn`,
`OnePreferred`, `NoOrphans`, `UsageKept`; `RoutesKept` is `OneRefresher`, `GrayKept`,
`OutageTolerated`; `StepInv` is `StreamTypeOK`, `LifecycleKept`, `BilledOnce`; `OutputsHold` is
`PreviewsFair`, `NothingSilent`, `FoundIsShown`, `OwnContent`; `RankedFairly` is
`AllowedIsAnswered`, `FusionFair`, `DiverseIsEarned`; `ChunksHold` is `NothingLost`,
`OverflowIsOne`, `SectionsAgree`; `StreamIsWhole` is `SeesPrefix` of every subscriber and
`NoContentAfterTerminal`; `BoxesEnd` is `RetiringEnds` and `DestroyingEnds`.

Every property of a passing run has a mutant: a plausible bug in one mapped definition that makes
TLC find the property violated under the run's own configuration.

**Why the bounds are enough to be worth something.** Two turns are a holder and its successor,
and three turns of `ChatTurn` are a turn, one that compresses or closes it, and one whose prompt
shows the outcome. Two iterations with three model steps allow a suspension, a recovery, another
suspension, and exhaustion. Three boxes with a target of two allow a swap while another box is
retiring. Two tasks in one box are what a doubly released protection needs. Two sessions and two
boxes allow an export of one session's files while the other comes back. Two calls side by side
are what every read-then-save race of `ModelRouting` and `ToolScope` needs, and four in all let a
deletion meet what two earlier calls made. Three instances are a developer's and two of the
baseline, so a retry has somewhere to go. Six units of work
are a call in pieces with its report and the step that replays it, or a chat that is suspended and
the turn that resumes or closes it, maybe for another provider.
The texts and blocks are chosen around the limits: below, at and above budget, target and
threshold, empty and blank, with repeated pages, nested sections and captions. Four candidates
and a cut of two leave two that the reranker, the twins or the cut may lose. A limit of two
chunks has attachments that keep it, break it as they say, and break it although they say
otherwise.

**Fairness.** `MCLiveness` states for each component what its module does, restricted to the
behaviours that are about it. `Fairness` of `TurnStream`: the event loop runs every task that can
run, the subscriber polls, the cancel call's timeout fires; the generator is *not* assumed to go
on (a model may hang) except to close after a kill, and `SubscribersEnd` carries the assumption
that it does in its own statement. `QueryLoop!LiveSpec`: models and tools answer, as both are
called with timeouts. `SandboxPool!RecoveringSpec`: the watcher's loop goes on while the service
lives (it catches what a round raises); strong fairness for taking a box back, for `docker rm`,
for the end of host pressure and for the destroy timeout says that none of them fails *every*
time. The liveness of the pool is checked with failures of Docker and of the host, not of MongoDB.
`SubscribersEnd` says itself which turns it is not about: the `Silent` ones, which write no terminal
frame. The other runs have no liveness property and no fairness.

## 4. What is proved

Eight modules prove their theorems for every value of the constants: any sets of turns, instances,
calls, tools, users, boxes, tasks, requests, sessions, servers, configurations, files, paths and
attachments, any numbers of frames, messages, steps, retries, failures and restarts, and any scenarios. "Bound" constants stay, as
natural numbers of any size.

| Theorem of | Statement | Assumptions |
|---|---|---|
| `TurnStreamProofs`: `TypeSafety`, `LeaseSafety`, `StaleSafety`, `FinishSafety`, `CancelSafety` | `[]TypeOK`, `[]HolderKeepsLease`, `[]StaleWriterStops`, `[]FinishFreesSession`, `[]KillOnlyCancelled` | `None` is no turn and no instance |
| `TurnStreamProofs`: `StreamSafety` | `[]StreamIsWhole` | the same |
| `TurnStreamProofs`: `Refinement` | `SessionSpec`: the lease protocol implements `ExclusiveTurns` | the same |
| `QueryLoopProofs`: `TurnsWellFormed`, `CallsOnce`, `CancelStops`, `OnlyApprovedRun` | `[]LoopInv`, `[]CallsRunOnce`, `[]CancelStopsWork`, `RunsOnlyApproved` | each tool has a kind; at least one iteration |
| `ChatTurnProofs`: `StoresSafe`, `NothingIsMissing`, `NothingIsForgotten` | `[]StoresInv`, `[]NothingMissing`, `[]NothingForgotten` | `Parameters`: the watermarks and bounds are numbers, there is room for two messages |
| `SandboxPoolProofs`: `PoolSafe`, `StockBounded`, `NoWayBack` | `[]PoolInv`, `[]PoolBounded`, `NeverBack` | `Nobody` is no user; the bounds are numbers |
| `CommandTaskProofs`: `TaskIInvariant`, `TasksKeepBoxes`, `NoTaskForgotten`, `WaitersWoken`, `NoProtectionLeaks`, `RunningAreProtected`, `FinishedTasksStay` | the inductive invariant, `[]TaskInv`, `[]TaskIsFollowed`, `[]WaiterWoken`, `[]NothingLeaked`, `[](FinishIsLocked => RunningIsProtected)`, `TerminalIsFinal` | `NoBox` is no box; kill calls are named unlike `start` and `work` |
| `WorkspaceProofs`: `FilesInvariant`, `UserHasOneBox`, `ReportedWorkStays` | the inductive invariant, `[]BoxInv`, `[]NothingLost` | `NoBox` and `NoOne` are no box and no request; boxes are numbers |
| `WorkspaceProofs`: `TransfersSafe`, `PathsSafe` | `[]TransfersAreWhole`, `[]FilesFound` of `WorkspaceFiles` | `FilesParameters`: the limit is a number; the name of a workspace is no `"."` or `".."`; files lie below a workspace; marks tell attachments, files and calls apart |
| `ToolScopeProofs`: `ScopeInvariant`, `OfferedToolsRun`, `OutageIsSurvived` | the inductive invariant, `[]ScopeInv`, `[]OutageKeepsTools` | a failed listing is no listing; `Nothing` is no request and no cached list; configurations are records |
| `RoutingProofs`: `RoutingInvariant`, `KeysStayOwn` | the inductive invariant, `[]KeysAreOwn` of `ModelRouting` | `RoutingParameters`: the platform is no user; what is stored at first is consistent |
| `RoutingProofs`: `RpcInvariant`, `RoutesStay` | the inductive invariant, `RoutesKept` of `RpcRouting` | `RpcParameters`: placeholders are no lists and no calls; lists hold instances |
| `RoutingProofs`: `StreamInvariant`, `StepsAreShown` | the inductive invariant, `[]StepInv` of `LlmStreams` | `StreamParameters`: tools that wait are tools, none has an empty name; the bound is a positive number |

Every assumption is an `ASSUME` of the module, or an operator that `MCServices`, `MCSessions` or
`MCWorkspaces` assumes (`Given`): TLC evaluates all of them in the runs; those that give a
constant its type or keep a placeholder out of a set are all there are. Each proof is an
inductive invariant with `Init => I`, `I /\ [Next]_vars => I'` and `I => P`, one lemma per part
or per action; TLC checked the invariants on the small instances before they were proved.

### The arguments

**TurnStream.** *Types* (`TypeInv`): `TypeOK` needs that a request under way names a turn.
*Lease* (`LeaseInv`): `HolderKeepsLease` alone is not inductive. A start takes the lease when
the key is empty, so one must know that a turn never started neither owns the lease nor expired
(`Unstarted`); a stale frame sets `stale[t]`, so one must know that such a runner is past the
append and does not own the session again (`StaleInv`); the finish frame appears after the
release, so one must know that the lease stays away from the release on (`FinishInv`). The four
together are inductive because every renewal and release compares the owner. *Cancel*
(`CancelInv`): a call that looks for its task has set its flag, and only accepted turns are
looked for. *Streams*: after a terminal frame its runner only cleans up (`TerminalInv`); a
subscriber's `last_id` is the number of frames it was sent, which are those the stream begins with
(`ReadersInv`), and a stream only grows. *Refinement*: live turns are working runners whose lease did not expire; by
`HolderKeepsLease` two of them would own one key, so at most one is live; a start maps to
`Begin`, the step in which a live runner leaves its work or loses its lease to `End`, all else
to stuttering. A crash ends at most one live turn for the same reason.

**QueryLoop** (`LoopIInv`). `PromptWellFormed` is about the moment a model is asked; to keep it,
every context, in hand or stored, must be known at every point: closed before a model step,
dangling by exactly one model step while a turn is suspended or recovered (`ContextInv`), with
the results of the groups before this one in `outputs` (`OutputInv`). The number of messages is
then twice the number of iterations, which the loop bounds across recoveries (`StepsBounded`).
`RecordInv` says that what is archived is answered at all times, not only after an abort.
`CallsRunOnce` needs names: calls are named by their model step, a stored chat by its last one
(`NameInv`), so no two stored chats ask for one call, and what is still asked for ran at most
once per failed run (`OnceInv`). `LateInv`: what began late began behind a checkpoint.

**ChatTurn**. *Stores* (`SafeInv`): what the turn in hand is about to archive is not archived, and
what it is about to bill is neither billed nor in a task (`Batch`); tasks share no reply, and theirs
are unbilled (`JobsHold`); while nothing is lost, every message is archived or about to be, and
billed or about to be, or its report failed (`Whole`); how many suspended chats there are at each
point of a turn (`DocsLeft`). *Memory* (`MemoryInv`) has three arguments. Where nothing compresses
there is no summary, and the hot context is a part of the archive that a refill makes whole
(`PlainHolds`, `Kept`). Where turns compress and nothing is refilled, at most one task does, while
nothing else runs; whoever may replace the hot context `Knows` all that is settled, in what it keeps
or in its summary; and suspended chats hold what their turn kept. Where a compression meets a refill
or a recovery, the messages created since the summary are all that is promised (`Recent`), and a
reload must find the summary it has just made (`Reloading`). A request that could not read something
is left out (`missed`), but not what it leaves behind: what it appends to the hot context is. `Newer` is a recursive function: that it returns exactly the newer messages is
proved by the least index at which it would not (`Least`, `NewerElements`).

**SandboxPool** (`PoolIInv`). `change_state` has no condition, so `NeverBack` holds only because
what the watcher read is still so when it acts: `ReadInv` says that of the boxes it has left,
only READY ones have moved, to USER_ACTIVE, and `HandInv` which box it has in hand in which
phase. `GoneInv`: a document is marked after its container is gone. `StockInv` is the count: while
it goes on, the stock outside the watcher's hands is at most what was counted; when warming
begins, the stock and what is missing are at most the target. Where writes fail a document may
outlive its container, and the stock is then the boxes that run (`Held`).

**CommandTask** (`TaskIInv`). For each task, where its processes can be and how far its record is
(`PhaseOf`); that a second lock exists only when the worker is gone (`LockedBy`); that one process
at a time is inside the lock and finds the task unfinished there (`AloneIn`); who finishes it
(`FollowedUp`, `WorkerEnds`). Across tasks: a box has at least as many protections as tasks that
hold one (`BoxInv`), and exactly as many without failures (`ExactInv`). `AloneIn` failed for two
kill calls under failing MongoDB, a real behaviour (see Findings): hence `FinishIsLocked` in
`RunningKeepsBox`, `TerminalIsFinal` and the last two parts, and the run `CommandTask_overlap`.

**Workspace** (`FilesIInv`). `BindInv`: users have one box, and while a request is between its look
at an empty binding and the assignment the box another one got is not taken back. `RestartInv`,
where restarts are all that happens, follows the reported files of every session (`Kept`): they
are in the box while it is the user's; reclaim has in the cache or in the export what it has
passed (`WatchInv`); a request on its way finds its old box released (`Coming`), and one at work
is in the box its workspace names (`There`); the count of a box is the number of requests
registered in it (`CountInv`), so nobody works in a box that is exported.

**WorkspaceFiles**. *Transfers* (`TransfersInv`): every content a file ever had is `Sound`, that is,
if it begins like an attachment it has all of it (`TreeInv`); storage only grows, each call adding at
a place of its own (`StorageInv`); and each call that is under way `Holds` what its phase says: while
it streams, its buffer is a part, from the start, of what the file was when it was opened, and the
next chunk comes only if the file is still that. *Paths* (`FilesInv`): a call that goes on has an
accepted path, files lie at proper places, each mark of a call lies in the workspace of that call's
session, and answers hold the relative paths of such places. That `Clean` keeps exactly the names
that are not `""` or `"."`, and that a path without `".."` is found where it says, is again an
argument about the least index (`StepsExist`, `CleanNames`, `FoundThere`).

**ToolScope** (`ScopeIInv`). With the client tools of the request, a name determines the source
and the policy of its tool, in every catalog, cache and configuration (`BuildInv`, `ReadyInv`,
`CatalogInv`); a name that was offered with its key can be offered after a recovery as before
(`SavedInv`). `OutageKeepsTools` has an invariant of its own, `LoadInv`: a
service brings its tools to a turn once, those of one list; what is cached, and what a waiting load
holds to fall back on, are lists that the turn may have (`seen`), whoever fills the cache meanwhile.

**ModelRouting** (`RoutingInv`). `OnePreferred` holds however calls overlap, since each write passes
the unique indexes (`PreferredKept`), and so does `ResolvedIsOwn`, whose mapping comes from queries
by owner (`HeldBy`; that a query answers with one of its candidates needs a minimum of their ages,
by well-founded induction, `Oldest`). The rest is promised to calls that do not overlap:
`SerialInv` says that one call is busy, that what it has read is still so (`Current`), that every
mapping of a user joins a model he may use and a provider of his (`Joined`), even between the
writes of a deletion, and that providers count what was used.

**RpcRouting** (`RpcInv`). A refresher holds the lock (`LockHeld`), so there is one; it subscribes
only to what is not known yet (`SubscribedOnce`): a failure or a cancel after the effect may leave a
subscription that is not known, and it is made again. `CallSteps` says of each step which instance it tries (`Fits`) and what it does
to list, lock and subscription; only a refresh empties a list, since `Push` believes no empty one.

**LlmStreams** (`StreamInv`). That deltas lie in parts that are open is a statement about all frames;
`FlagsTrue` ties it to the two flags that the interpreter decides by, and `Adds` says of each type of
frame what it asks and what it leaves open, so each event of the queue is two or three such frames
(`EventFrames`). A turn that ends without an error closed its step (`ClosedFrames`) and added only
frames of tools, which open nothing (`Others`). A step is billed from the queue: a report
in it is its first event and the last that the adapter got (`QueueInv`), what is billed is what was
got before (`UsageInv`), and only OpenAI reports while it streams. What a resumed turn shows is of
tools again, whatever record it resumes (`PendingShape`). The order in which calls are answered
keeps places of a sequence (`Kept`, a recursive function); that it returns a sequence of the kept elements is proved by building the
function step by step (`StepsExist`, `KeptSteps`), for the induction theorem over naturals cannot
be applied.

### What stays with TLC

The liveness properties (`MCLiveness`): ENABLED and fairness are out of the prover's reach.
What folds
compute over sequences of any length, which is induction over data with operators for parameters:
`OutputsHold`, `RankedFairly` and `ChunksHold` of the algorithms in `Loop_all`, and what the five
formatters of `LlmStreams` make of a history (`RequestsFaithful`, `ReloadShowsAll`). The recursive
functions of `ChatTurn`, `WorkspaceFiles` and of `LlmStreams`' steps could be proved because what they
return is needed only as a set of elements, or for inputs on which they change nothing.

## 5. Findings

- **`ChatTurn_overlap`**: the compression of one turn replaces the hot context with what it kept
  (`chat_turn_finalizer.py:340`) after the next turn may have appended to it; those messages are
  missing from later prompts, although `chat_turn_coordinator.py:465` says background work does
  not affect the next turn.
- **`SandboxPool_forced`**: the watcher writes DESTROYING without a condition after a read and
  several awaits (`sandbox_watcher.py:74`); a box assigned in between is destroyed under its
  user, although the comments at lines 95 and 187 say that only unassigned boxes are.
- **`Workspace_restored`**: `allocate` stores the new box but returns a document with the old
  `sandbox_id` (`workspace_manager.py:81`); the caller looks there and refuses the request.
- **`CommandTask_overlap`**: when MongoDB fails both attempts of a worker to finish its task, the
  worker pops the lock with the task still RUNNING (`command_task_service.py:256`), although a
  kill call may be waiting for that lock; a second kill call makes a new one, both end the task
  and both unregister the box, which can be taken back under another running command. The comment
  at line 279 says that a protection is released once. The failing proof of `RunningKeepsBox` for
  any number of kill calls led to it.
- **`LlmStreams_switch`**: results of tools are sent to every provider, the calls they answer only
  to the one that made them (`openai_adapter.py:208` and its siblings); after a switch of the
  model, or a cancel between the calls and their payload, a request has results without calls.

### Divergences no run carries

Seen while modelling; the models do what the code does, and a property that would contradict it
is not claimed.

- A turn that ends by an exception or a kill does not release its lease
  (`chat_turn_stream_manager.py:107`; the comment at `chat_turn_stream.py:67` says it is
  released). The session stays blocked until the TTL. No terminal frame is written by a turn that
  is killed (`:60`, `:90`), that dies with its instance, whose append fails in the `except` clause
  (`:109`), or that took the lease with an exception and never runs (`:29`): its subscribers poll
  on, the exceptions in `SubscribersEnd`.
- A recovered turn cancelled at the head of the loop leaves the calls of the run that suspended
  unanswered (`query_loop_runtime.py:429`, against the comment at 334); its record is empty, and
  asking for a title then raises (`chat_turn_coordinator.py:503`), which keeps the suspended chat.
- An aborted step notes calls that had already completed as interrupted (`:513`, `:537`).
- Closing an unfinished chat persists and bills its batches again
  (`chat_turn_coordinator.py:137`, 548): `NeverTwice` leaves closed turns out.
- A report of tokens that fails is logged and the bill is lost (`chat_turn_finalizer.py:161`):
  `NothingMissing` leaves exactly these batches out (`unbilled`).
- An archive or a summary that cannot be read leaves the prompt without it, and nobody is told
  (`chat_context_assembler.py:93`, 103): the requests in `missed`. After a failed append, a summary
  that was not saved, an overlapping reload, or an expiry around a suspended turn, the hot context
  is partial and the prompt forgets messages: `HotIsWhole` leaves these out of `NothingForgotten`.
  A refill or a recovery beside a compression keeps what is newer than the summary and may forget
  older messages that the compression kept: `Remembers` says where all of them are promised.
- A document that cannot be marked DESTROYED after its container was removed stays as it was
  (`sandbox_watcher.py:177`) and the round goes on without counting it: one box more is warmed, and
  until a later round there are more documents than the target, though not more running boxes
  (`PoolBounded`).
- `SANDBOX_ALLOWED_TRANSITIONS` has no READY to DESTROYED, which forced destruction takes; no
  code looks the table up. A restart between `docker run` and the save leaves a container
  without a document (`sandbox_watcher.py:159`).
- The waiter of a killed command sits out its timeout (`command_task_service.py:196`): the
  worker sees the terminal record and drops the event unset.
- After a restart every protection is released at once, although `main.py:73` says this waits
  for the end of the command. A start that raised in the provider is recorded FAILED although
  the command may run, and locks of tasks that failed to start stay in `_locks`.
- A file operation ignores the answer of `register_active` (`file_service.py:610`), and two
  restores of one workspace may overwrite each other (`workspace_manager.py:63`).

- Tools: `updateUserMcpServer` always answers that the tool does not exist, since the upsert looks
  the server up under a fresh id (`api/endpoints/tool.py:397` against the text at 384). Of two
  calls that update one tool configuration the later save wins whole. Two additions of servers
  may pass the check of `max_user_servers` together. Deleting a configuration uncovers one saved
  under the tool's former name without a prefix (`tool.py:231`, `registry.py:255`). A client tool
  that shares its name with a tool added while the turn was suspended makes the turn
  unrecoverable, which `ResumedAsSuspended` prefers to the wrong tool.
- Models: an update of a provider saves the whole document and takes back the tokens counted since
  it was read (`provider_repository.py:88`, against `api/endpoints/model.py:219`). A binding made
  while its model or provider is deleted stays behind as an orphan, and a save may bring back a
  document that was deleted. `OnePreferred` holds in spite of all this.
- Adapters: a single estimated step is labelled MIXED (`domain/interfaces/llm.py:41`). A reload
  shows the calls of a message before its text (`ui_message_converter.py:85`), although its
  docstring says that the order is that of the stream (88–89): `ReloadShowsAll` speaks of the parts,
  not their order. The page of a suspended chat has the suspended step's text twice, as a message
  and as the step in hand, and closing an unfinished chat saves its batch again.
- Files: names that begin or end with a blank, or hold a backslash, are listed but cannot be
  addressed (`AnswersResolve` leaves them out). A cloud upload that fails leaves the announced
  resource (`file_service.py`, publish).
- Search: the context around a match of a pattern is cut to what is left of the budget without a
  word, and ids that have no text or have expired are skipped without one (`search_by_regex.py:143`,
  231, 259); a match larger than what is left is cut too, against the comment at 265 that at least
  the full match is shown. `FoundIsShown` promises that no match is dropped unsaid and that a cut
  match is marked, not these.
- Documents: empty headings are pruned in one pass, so a heading that becomes empty by it stays
  (`markdown/parsing/parser.py:454`). A section whose title holds " > " is missing from the
  structure tree of the output cache.
- Retrieval: candidates the reranker does not name keep scores on the retriever's scale, which MMR
  then compares with the reranker's.

## 6. What is not modelled

Prompt texts, agents, titles, long-term memory, speech, attachments of messages, skills and the
clients of other services keep no state that interleaves. The session document (whole-document
saves by renaming, pinning, preferences and the summary of a background task) and Kafka are left
to later modules. Security context, logging and tracing have no protocol. The MCP transport, the
check of server URLs, schemas and the conversion of results are single calls without state. The
chat and MCP services import `common.utils.chunkers` and `common.utils.ranking`, which are not in
this tree: what they answer is an input of `OutputCache`. Floating point scores are modelled by
whole units and their order. Regular expressions, tokenisers, BM25 and vectors are inputs.
`PROJECT.json` lists every component with its status; a component is *partly* modelled when some
of its operations are left out, and its note says which.

## 7. Plan

The order was: the lease (everything else relies on one turn at a time), the loop, what it
persists, the sandbox from the pool up; then what a turn asks of others (tools, models, RPC) and
what it writes and reads (streams, outputs, ranking, documents, files). All are written. Next:

1. **Proofs** of `RequestsFaithful`, beginning with what an adapter accumulates and what it was
   told of each call.
2. **SessionDocument**: whole-document saves by renaming, pinning, preferences, attachments and
   the summary of a background task, and what a lost summary does to the next prompt.
3. **Kafka** consumption and commit.
4. **Composition**: `CommandTask` or `Workspace` with the watcher's claim, sharing one box
   state, in place of the environment actions that stand for it now.

## 8. Running

    tlc -workers 2 -config Sessions_all.cfg MCSessions.tla
    tlc -workers 2 -config Loop_all.cfg MCLoop.tla
    tlapm WorkspaceProofs.tla

A run is called `<subject>_<what>.cfg`; `PROJECT.json` names its module. On two workers each ends
within about four minutes; the proofs of a module take between one and five minutes.

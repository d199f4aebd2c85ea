# Verification of graphia

graphia reads a repository, extracts symbols and relations, and keeps them as a
graph in `.graphia/`. The graph is built by `graphia build` and `graphia
update`, kept up to date by a live daemon, and served to clients by an MCP
server on standard streams. This directory holds TLA+ models of the parts where
order, interleaving and failure decide whether the graph is right, TLC runs
over small instances, and theorems checked by TLAPS for all instances.

Paths below are relative to the repository; `src/` is the Rust crate
(`src/src/` in `PROJECT.json`, whose paths start one level higher).

## 1. Inventory

| Component | State | Operations | Interacts with | Hard behaviour | What makes it correct |
|---|---|---|---|---|---|
| Persistence worker (`daemon/server.rs`) | one-slot queue, mutex, condition variable, `stopping`, two atomics | `run`, `enqueue`, `flush` | daemon loop, `index.bin`, status file | wake-ups, coalescing, failed save, shutdown | the newest snapshot is kept and saved; no enqueue is slept over; shutdown is durable |
| Debouncer (`daemon/debounce.rs`) | pending entry per path | `ingest`, `flush_ready` | watcher, update queue | coalescing, rename pairing in hash-map order | what is flushed makes the graph equal to the files |
| Update queue (`daemon/update.rs`) | bounded deque, dirty flag | `push_batch`, `drain_all`, `clear_dirty` | daemon loop | overflow | what overflows is made up for by a reconciliation |
| Live state (`daemon/state.rs`) | workspace, published snapshot, generation, health | `apply_actions`, `reconcile`, `update_graph` | incremental workspace, readers | failure half way, recovery | a snapshot is published whole, under the next generation, by success only |
| Daemon loop (`daemon/server.rs`, `shutdown.rs`, `watcher.rs`) | control, status file | `run`, `write_status_file` | everything above | order of its steps, overflow branch, events before the watcher exists | it only waits in a settled state, and the status file says the truth |
| Incremental workspace (`incremental.rs`) | parse results, resolution indexes, hints | `reconcile_full`, `apply_changes_selective` | live state | affected closure, fallback | the graph equals a clean build of the same files |
| Storage and update (`storage/mod.rs`, `incremental.rs`) | four artifacts | `update_repository`, `build_or_update`, load and save of each artifact | file system, other processes | no lock, replaced one after the other, stopped builds | a rerun repairs everything; the cache never lies |
| MCP index life cycle (`mcp/server.rs`) | the loaded graph | `index_state`, `ensure_graph_loaded` | storage | files and artifacts change between its looks | what is served as current is current |
| MCP stream (`mcp/server.rs`, `mcp/transport.rs`) | queue, response order, registry of tokens | reader, dispatch, workers, cancellation | client | order of responses, full queue, duplicate ids, end of input | each request answered once, in order; the registry neither leaks nor misleads |
| Graph (`graph/mod.rs`) | nodes, edges, indexes | build, merge, validate | all readers | canonical order, deduplication | determinism, indexes agree with edges |
| Resolution (`resolve/`) | none | scopes, imports, re-exports, ranking | graph | cycles of re-exports, ambiguity | terminates, picks the best candidate or none |
| Analysis (`analysis/`) | none | components, cycles, communities, centrality | graph | label propagation that oscillates | agrees with the definitions, terminates |
| Query and intelligence (`query.rs`, `intelligence/`) | none | bounded searches | graph, token | limits, cancellation | exactly what is within the limits |
| Context (`context/`) | none | ranking and selection under a budget | graph | budget boundary | never over budget |
| Command line (`cli/`) | files of the user | `init`, skill installation | file system | one step of several fails | reruns are harmless |
| UI server (`ui/`) | count of connections | accept, serve | browser | the bound on connections | bound kept, released always |
| MCP tools (`mcp/tools.rs`) | none | twelve tools | query, intelligence, context | limits, cancellation | the answers are those of the functions below them |
| Advanced analysis (`analysis/advanced/`) | none | data flow, dispatch, layers, history, differences | graph, git | limits on paths, pairing of overloads | agrees with the definitions |
| Scan, parsing, export, benchmarks | none | text in, text out | | | not modelled (section 8) |

The hazards of the code, each at its line, are in `PROJECT.json`.

### How the parts interact

```
 file changes ─► watcher ─► channel ─► debouncer ─► update queue ─► live state ─► snapshot
                                                        │ overflow     │               │ enqueue
                                                        └► reconcile ──┘               ▼
                                                                        one slot ─► worker ─► index.bin
 graphia build / update ─► parsed.json, metadata.json, graph.json, index.bin ─► index_state ─► MCP server
 client lines ─► reader ─► main loop ─► bounded queue ─► workers ─► responses in order
                              └ registry of tokens ◄─ cancellations
```

## 2. Modules

| Module | Models | Checked by | Proved in |
|---|---|---|---|
| `DurableRegister` | abstract: a register whose durable copy follows the requested one | refined by `PersistenceWorker` | |
| `PersistenceWorker` | worker thread and daemon thread down to each access to shared memory | `MCPersistenceWorker` | `PersistenceWorkerProofs` |
| `Debounce` | the debouncer as operators on a function from paths to entries | through `LiveDaemon` | `LiveDaemonProofs` |
| `LiveState` | abstract: the protocol of generation, snapshot and health | refined by `LiveDaemon` | |
| `LiveDaemon` | file changes, watcher, debouncer, queue, live state, loop | `MCLiveDaemon` | `LiveDaemonProofs` |
| `IndexStore` | builds of several processes over four artifacts, and the server that judges them | `MCIndexStore` | `IndexStoreProofs` |
| `McpStream` | reader, main loop, worker pool, registry | `MCMcpStream` | `McpStreamProofs` |
| `Imports` | what an import statement says, and the two relations between an import and a file | through `Workspace` | `WorkspaceProofs` |
| `Resolution` | scopes, re-exports, candidates: which symbol a name means | through `Workspace` | `WorkspaceProofs` |
| `CodeGraph` | building a graph and resolving it over all or some files | through `Workspace` | `WorkspaceProofs` |
| `Workspace` | the incremental workspace: indexes, closures, selective update | `MCWorkspace` | `WorkspaceProofs` |
| `RepoGraph` | a finished graph: lookup, order, breadth-first search | through `Tools` | `ToolsProofs` (its order) |
| `GraphQueries` | paths, neighbourhood, impact, tests, explore, search | through `Tools` | |
| `ContextBundle` | candidates, ranking, budget, slices | through `Tools` | `ToolsProofs` |
| `GraphAnalysis` | projection, components, cycles, communities, a step at a time | through `Tools` | `GraphAnalysisProofs` |
| `AdvancedAnalysis` | data flow, dispatch, layers, history, differences | through `Tools` | `ToolsProofs` (differences) |
| `Tools` | the tools and commands as questions to one graph | `MCTools` | `ToolsProofs` |

`Workspace` EXTENDS `CodeGraph`, that `Resolution`, that `Imports`. `Tools`
EXTENDS `GraphAnalysis`, `ContextBundle` (on `GraphQueries`) and
`AdvancedAnalysis`, all on `RepoGraph`. The two families meet where a finished
graph is written to `index.bin`: a reader sees identifiers as an order only.
`NumberLemmas` holds what the proofs need to know of least and greatest numbers,
of induction, and of functions defined by recursion over numbers.

A definition whose comment begins with "As it would be if" is a variant of the
one that follows it, with a mistake a change to the code could make; `Next` uses
none of them. `PROJECT.json` pairs each with the property that notices it, so
that no property holds whatever the code does.

### PersistenceWorker

A snapshot is its generation; 0 is `None`. `gen` is the published generation,
`slot` and `lock` the queue and its mutex, `waiting` the wait set of the
condition variable, `live`, `persisted` and `stopping` the atomics, `disk` the
generation in `index.bin`. `wpc` and `dpc` are the program counters of the
worker (`PersistenceWorker::run`) and the daemon thread. Taking the mutex, the
load of `stopping`, going to sleep and each store are separate steps, because
what matters is what falls between them: `flush` stores and notifies without
the mutex, `enqueue` notifies with it. A spurious wake-up is possible at any
time. A save may fail, which ends the worker; a status file that cannot be
written, after an enqueue, after an overflow or when it is refreshed, ends `run`
at once, and the process with it: from then on the worker is promised no step.

### Debounce and LiveDaemon

The content of a file is the number of the change that wrote it; the graph is
represented by the content each source file had when it was read (`live`). That
is what the graph is a function of, and the properties compare it with the
files (`fs`). Files change between any two steps of the daemon thread, also
between the listing of a reconciliation and the read of each file.

- `Receive`, `ReceiveTimesOut`, `FlushReady`: `recv_timeout`, the debouncer and
  `push_batch`. Time is abstracted to the order in which entries were last
  touched: any point of that order may be the one whose window has elapsed.
  The order of paths in a batch, and the pairing of renames, are those of a hash
  map: any.
- `BeginUpdate` .. `FinishUpdate`: `apply_actions` and
  `apply_changes_selective`, an action per file read. `ApplyUnknownRename` is
  its fallback, which reads everything and then reports as affected only the
  files that changed before.
- `BeginReconcile` .. `FinishReconcile`: `reconcile_full`, with failures of the
  listing and of each read and with files that vanish. `reread` and `overflowed`
  are observers: the model never reads them, properties do. `reread` stays once
  anything was reconciled, as a ghost does; `overflowed` speaks of the generation
  published last only, so that one overflow excuses no later snapshot.
- `EnqueueSnapshot`, `WriteStatus`: what the loop hands on.

Simplifications: `notify` delivers a rename inside the repository as one event
with both paths; the listing of a repository is one step; the test that a file
exists and its read are one step (that it vanishes between is covered by the
failing read); the periodic rewriting of the status file changes nothing and is
a stutter; shutdown, and the end of `run` when the status file cannot be written,
are modelled in `PersistenceWorker`.

### IndexStore

`cache`, `meta`, `json` and `index` are `parsed.json`, `metadata.json`,
`graph.json` and `index.bin`, each replaced atomically (`atomic_write`).
A build (`update_repository`) hashes the files, loads the cache, parses what
changed, and replaces the four in this order; each file that is hashed or
parsed is a step, and so is each artifact. A builder may be stopped at any
step. The server hashes the repository, reads modification times in whole
seconds (`index_state`), then loads (`ensure_graph_loaded`), or builds itself
with `--auto-index`. `steady` is an observer: nobody else has changed anything
since the build or check of a process began.

Simplifications: the listing `build_or_update` makes before `update_repository`
only feeds its report; `index.bin` is looked at in one step per look; the
server's hashing of the repository is one step, and no listed file vanishes before
it is hashed; artifacts of another version are unusable whatever they contain, and
none is found that cannot be parsed. A graph once loaded is kept for the life of the
server, so everything said about what is served is about the moment of loading.

### McpStream

Requests are numbered as they are read, and the number is also the token. The
reader appends events; the main loop alternates `Collect`, `Deliver` and one
event; `Send` and `TurnDown` are the two outcomes of `try_send`; the registry maps
an id to the token registered last. `Check`, `RunTool`, `DropGuard` and
`Respond` are the life of a `tools/call` in a worker, including the second
registration and the guard. A request kind is `call` (runs its tool), `invalid`
(turned down for its parameters) or `other`.

Simplifications: draining the result channel is one step; the pool and the
queue have the same size, as `MAX_IN_FLIGHT_REQUESTS` says; the job channel
cannot be disconnected while the main thread holds its receiver; tools end and do
not panic.

### Imports, Resolution, CodeGraph, Workspace

The content of a file is what its parser hands over: symbols, import
statements, re-exports, references. A path is a sequence of segments. `Imports`
has one operator per language for the directive a statement becomes
(`parse_import_directive`), and both comparisons of an import with a file, that
of the resolver (`matches_import_target`) and that of the builder
(`resolve_import_paths`), which differ. `Resolution` is the engine: lexical
scopes of a file and of its types, bindings of imports, re-exports followed with
the set of files already visited, candidates with their ranks. The recursion of
`trace_reexport_path_internal` is an agenda of tasks, the next one first: to look
up a module, to go into a file, to settle for an answer. The set of places gone
into is shared by all branches, as in the code. `CodeGraph` is
`build_graph`, `resolve_cross_file` and `resolve_cross_file_affected`; a graph is
a set of nodes, a set of edges and the outcome of each call. In these three an
identifier, a hash of all its fields, is the record of the fields.

`Workspace` has one action per batch: `ApplyBatch` reads the new contents
(`Edits`, `Renames`) and then runs the whole of `apply_changes_selective`
(`ApplySelective`), `UnknownRename` that of `reconcile_full`. `Plan` is
its choice of files: the seed, the hints in both directions, the closure over
dependents, the component of the graph. `Rebuilt` takes out and puts in,
`ResolveAffected` resolves again, `Index` renews the indexes. The indexes the
code rebuilds after every update are operators; the two it keeps file by file,
`pending` and `dependents`, are variables.
A batch may write some files and delete others. Where a value is bound by a set
of one (`\E plan \in {Plan(...)}`), it is so that TLC computes it once.

Simplifications: a batch does not combine a rename with other actions, and none
fails (the daemon then drops the workspace it was applied to, which `LiveDaemon`
models); an unknown rename is a batch of its own, since it reads every file again
whatever was applied before it, and no file changes meanwhile;
extensions are left out, so no two files differ only by one;
signatures are left out; no name contains another; that a definition exports
itself is left out; languages differ in their imports only.

### RepoGraph, GraphQueries, ContextBundle, GraphAnalysis, AdvancedAnalysis, Tools

A finished graph has its nodes in canonical order; `ids` gives each the rank of
its identifier, which decides the order of edges and of ties and has nothing to
do with names. `IsGraph` says what is true of every finished graph. A text is a
sequence of words. The searches of `GraphQueries` are the operator `Search`, which
goes on from one node found after the other (`Advanced`), with the successors, the
order and the depth of the function it stands for; that of `ContextBundle` looks at
one candidate after the other (`Look`), as budget and bundle take one item after
the other (`Take`, `Merge`). A cancellation is the number of the node at
which the answer to "was I cancelled?" becomes yes.

`GraphAnalysis` is a state machine: an action per step of Tarjan's loop
(`EnterRoot`, `FollowEdge`, `LeaveNode`), per start node of the cycle search, per
round of label propagation. `Tools` composes: its `Next` is such an analysis, or
one question (`DependencyPath` .. `Compare`) whose arguments and result become
`answer`. `ContextBundle` answers once for every order of the tests it takes from
a hash set.

Simplifications: page rank, and the order it gives to hotspots and search
results, is left out; what a syntax tree says about one function is the input
`flows`; a flow node's place in the order is that of its function and name; a
line costs one token; the search for candidates is not cancelled; stems of files are equal or not, never one part of
another; the caps on the depth a caller may ask for are left to the caller.

## 3. Runs

| Run | Instance | Shows |
|---|---|---|
| `persistence` | 4 generations, 4 hand-overs | all interleavings: order of the generations, newest snapshot kept, no sleep over work, clean shutdown durable, `index.bin` never goes back, what is handed over is saved, the register is implemented |
| `persistence_shutdown` | 2 generations, 1 hand-over | **violation**: `flush` notifies between the worker's check and its wait; `join` never returns and the status file stays |
| `live_converges` | 3 source files, capacity 2, 3 changes, 1 failing read | the graph converges to the files through overflow and failure; every generation is handed over for persistence but the one an overflow's recovery published last; a dirty daemon reconciles again |
| `live_protocol` | 2 source files, 1 other, every kind of change, also before the watcher exists, 2 faults | the loop only waits in a settled state; the protocol of `LiveState` is refined |
| `live_ghost` | 2 source files, capacity 1 | **violation**: a reconciliation reads a file whose creation is pending; its removal is then dropped |
| `index_rerun` | 2 files, 1 builder, server with auto-index, 1 stop | the next undisturbed build repairs everything; the cache never pairs the present hash with another content's parse result |
| `index_serve` | 2 files, 1 builder that completes, 2 seconds | what the server takes for current is current |
| `mcp_order` | 2 workers, 2 ids, 3 requests, unloadable graph, output that closes | one response each, in order; the registry is clean |
| `mcp_answers` | 2 workers, 2 ids, 3 requests, 1 notification, unloadable graph | every request is answered, `run_stream` returns after its input; ids kept apart lead to their tokens |
| `workspace` | 4 files in 2 directories and 2 languages, each absent or with 2 or 3 contents, batches of up to 2 | after any sequence of batches nodes, import edges, report of calls and index of consumers are those of a build from nothing; mentions too, while both import relations agree |
| `workspace_clean` | as above, batches of 1 | **violation**: an edge is lost that a build from nothing would have |
| `tools` | analyses: all 4 096 graphs of calls between 4 symbols, some by file and directory; questions: 128 graphs of 9 nodes | components, cycles, paths, impact, neighbours, candidates, bundles, flows and differences agree with reference definitions by sets and distances |

Deadlock is not checked: in every instance the bounds end the environment, and
threads end by design.

### Why the bounds are enough

- `persistence`: the slot holds one snapshot and the worker one; four
  generations put an older one on disk, one in the worker's hand, one in the
  slot and one to come. The proofs lift the bound.
- `live_converges`: three files make a batch of two fit and a batch of three
  overflow; three changes allow create, remove and create again within one
  window; one fault and a vanishing file fail both an update and its recovery.
- `live_protocol`: three paths pair renames wrongly, rename over a file and from
  a path that is no source file.
- `index_*`: two files let a build see one old and one new; three contents give
  a file one content when it is hashed, one when it is parsed and one later;
  two seconds put a change in the second of the build and after it.
- `mcp_*`: with two workers and a queue of two, a third request can find the
  queue full before the workers take a job, and can overtake the other two;
  one notification is a cancellation or a malformed line at any moment.
- `workspace`: a name can be offered by three files, be imported under another
  name, be passed on by a re-export, and be looked up before anyone offers it;
  a chain of imports of length three separates direct from indirect dependents.
  Every combination of contents is reached by every kind of batch, so longer
  histories only repeat.
- `tools`: four nodes are the least for two components joined by an edge across
  closed nodes, and for cycles that share nodes; lengths up to 3 and 6 cycles
  make both caps of the cycle search cut. The limits (depth 1 and 3, 2 or 20
  items, 4 or 11 units of budget, cancellation at the second node) each cut
  some answer and leave another whole.

### Fairness

`PersistenceWorker`: weak fairness of the worker and of the daemon thread except
in its loop, the worker's until `run` returns an error: both are threads the
system schedules, and the loop may go on for ever; nothing is assumed of `Publish` or of spurious wake-ups. `LiveDaemon`: weak fairness of the daemon thread, and
strong fairness of a flush of everything pending while no event waits: the
window elapses when time passes without a further event. Files need not stop
changing by fairness; the bound on changes stops them, so a file that is
written for ever (and never flushed, as every event renews its window) is out of
the model. `McpStream`: weak fairness of the main thread and of each worker;
the client is free never to send or to end its input. `IndexStore` has safety
properties only.

## 4. What the violations say

Three runs show a disagreement between the code and what its documents say;
`PROJECT.json` quotes both. None is repaired in the model.

1. `flush` (`daemon/server.rs:114`) can lose its notification, and shutdown hangs.
2. A file can stay in the graph after it is gone (`daemon/debounce.rs:102`).
3. An incremental update builds neighbours anew and resolves only some of them
   again (`incremental.rs:389`): edges are lost that the report still counts.

Variants of the constants show more, noted under the hazards:

- with `Kinds` a rename from a path that is no source file to one that is: the
  fallback reconciles and its result is thrown away (`incremental.rs:336`);
- with a build stopped between `metadata.json` and `index.bin` after a deletion
  the old index counts as current (`mcp/server.rs:642`);
- `unreachable!()` (`mcp/server.rs:189`) is reached when the first build
  completes between two looks of the server: the action `Unreachable`, which the
  run `index_rerun` takes;
- with `Early` an edit before the watcher exists stays unnoticed;
- with `Reverts` a file that was changed while it was built, and changed back,
  keeps the wrong parse result;
- with `UniqueIds = FALSE` two open requests with one id share a registry entry;
- a file that imports itself gets an import edge to itself in a batch, and none
  in a build from nothing (`graph/mod.rs:245`); an import that means two files
  gets an edge when the fragment built anew holds only one of them;
- with the contents `use b::g as h; h()` in Rust, a file is not looked at again
  when `b` comes, goes or changes, as the keys of that statement are `b/g as h` and
  `g as h` (`import_lookup_keys`, `incremental.rs:871`): the call stays resolved
  to a node that is gone, or unresolved with its target there;
- with a rename onto a file that exists, what that file offered is not remembered
  (`incremental.rs:281` inserts only the old path): a call of one of its methods
  through a third file stays resolved to a node that is gone;
- after an overflow nothing hands the new generation to the worker until the next
  update or the end of the daemon (`daemon/server.rs:193`): with the exception of
  `overflowed` left out, `UpdatesAreHandedOver` fails at once;
- two symbols with two edges between them swap labels until the rounds are used
  up, although the comment at `analysis/communities.rs:50` says they do not;
- with overloads, removing the first is reported as a change of each and the
  removal of the last, although `docs/m4.1.2-final-closure-report.md:77` says
  that such changes are not conflated.

## 5. Proofs

Every theorem holds for all values of the constants that meet the assumption of
its module (`BoundsAreNat`, `ParametersOK`: bounds are natural numbers, sets of
workers and files are what their names say; `AnalysesAssumption`,
`QuestionsAssumption`, `FlowsAssumption`, `LimitsAssumption` of `Tools`: the graphs
are finished graphs with lines in order, flows are known of functions of the graph
only, each with a list of names, the limits are natural numbers), and of the further hypotheses
named here. A hypothesis is there only because TLC violates the property
without it. Each inductive invariant was checked by TLC as an invariant of a run
before it was proved, and each proof has one lemma per part of the invariant or
per action.

| Theorem | States | Further hypotheses |
|---|---|---|
| `PersistenceWorkerProofs!TypeCorrect`, `StatusIsOrdered`, `CoalescingKeepsNewest`, `EnqueueIsNotMissed`, `ShutdownIsDurable`, `DiskIsMonotonic` | every safety property of the run `persistence` | |
| `PersistenceWorkerProofs!WorkerImplementsRegister` | `PersistenceWorker` implements `DurableRegister` | |
| `LiveDaemonProofs!SettledAlways` | `SettledBetweenUpdates` | |
| `LiveDaemonProofs!DaemonFollowsProtocol` | `LiveDaemon` implements `LiveState` | |
| `LiveDaemonProofs!TypesHold` | `TypeOK` | |
| `LiveDaemonProofs!GraphConverges` | `ConvergesWhenQuiet` | `FilesOnly` |
| `IndexStoreProofs!CacheAlwaysTellsTruth`, `RerunAlwaysRepairs` | `CacheTellsTruth`, `RerunRepairs` | `~Reverts` |
| `IndexStoreProofs!TypesHold` | `TypeOK` | |
| `IndexStoreProofs!ServesFresh` | `FreshWhenServed` | `~Reverts`, `MaxStops = 0`, `Sequential` |
| `McpStreamProofs!TypesHold`, `EachIsAnsweredOnce`, `NothingIsLeftRegistered`, `AnswersComeInOrder` | the safety properties of the runs `mcp_order` and `mcp_answers` | |
| `McpStreamProofs!CancellationsReach` | `CancellationReaches` | `UniqueIds` |
| `WorkspaceProofs!TypesHold`, `NodesStayClean`, `ConsumersStayIndexed` | `TypeOK`, `NodesMatchClean`, `ConsumersIndexed` | |
| `WorkspaceProofs!ImportsStayClean` | `ImportsMatchClean` | `PlainImports` |
| `WorkspaceProofs!CallReportStaysClean` | `CallReportMatchesClean` | `PlainImports`, `KeyedAliases`, `RememberingSpec` |
| `ToolsProofs!ComponentsStayStrong` | `ComponentsAreStrong` | |
| `ToolsProofs!CyclesStayComplete` | `CyclesAreComplete` | |
| `ToolsProofs!CandidatesStayClosest` | `CandidatesAreClosest` | |
| `ToolsProofs!BundlesFitAndKeep` | `BundleFitsAndKeeps` | |
| `ToolsProofs!DifferencesAccountForAll` | `DiffAccountsForAll` | |
| `ToolsProofs!QueriesStayExact` | `QueriesAreExact` | |
| `ToolsProofs!FlowsStaySimplePaths` | `FlowsAreSimplePaths` | |
| `ToolsProofs!TypesHold` | `TypeOK` of `Tools` | |

### The arguments

**Persistence.** That the disk never goes back needs the order

    persisted <= disk <= hand <= slot <= live <= gen

(as far as each is present), which needs who holds the mutex at which control
point, and that a sleeping worker left the slot empty and the mutex free. `IInv`
is their conjunction in named parts. The action property and the refinement
follow from `IInv` and one lemma per step.

**Settled daemon.** `IInv` of `LiveDaemonProofs` says for each control point
which health, dirty flag, queue and kind of reconciliation belong to it, and
(`HandedOn`) that the published generation was handed over wherever the thread is
not about to do so, unless it made up for an overflow; nothing else is needed,
since what the batches contain never matters for it.

**Convergence.** The graph is compared with files the daemon knows by hearsay
only: a change is in the channel, then an entry of the debouncer, then an action
of the queue, then part of a candidate. `Known` follows it. Its core is a
*history*: there is a function `h` that gives for each event still in the channel
which files existed after it, so that `h[0]` is what the daemon has heard of and
the last one is the disk. No variable of the program holds it, so the invariant
says that one exists. From `h[0]` follow the kinds of the entries
(`EntriesKnown`: an entry removes exactly the files not heard of), of the
actions in the queue and in the batch (`ActionsKnown`), and of which files the
graph must be up to date (`UpToDate`): all but those with an entry, an event or
an action under way. Its second half, that a file nobody has been told of is not
in the graph unless a reconciliation found it, is what makes it sound that a
removal cancels a pending creation, and what a reconciliation breaks (violation 2
of section 4).
`FilesOnly` says that files are created, written and deleted, not renamed, and
not before the watcher exists. With a rename inside the repository, a rename out
of it, or `Early`, TLC violates `ConvergesWhenQuiet`. The proof also needs
what a flush produces from the entries, for any order of the hash map (`Orders`,
`Batches`), which is a set of lemmas about the operators of `Debounce`.

**Cache.** A content is new when it is written, so no recorded hash equals it
until the file is hashed again: a hash that equals the present content was
recorded with its own parse result, in the cache, in the copy of it a build
loaded, and among the results of a build at work (`Truth`, with `HashesAreOld`).
`Progress` says for each point of an undisturbed build what it has done
already. `ServerAtRest` is needed because the observer of the server starts
before its build does.

**Fresh service.** `index_state` compares `metadata.json` with the files and
then trusts `index.bin`. That is sound as long as both come from one build
(`StoreAgrees`: whenever nobody is between the two files, the hashes in one tell
what the graph in the other is worth), and they do if builds follow one another
(`Sequential`: one builder, or the server alone) and complete (`MaxStops = 0`).
TLC violates the property with a single stop, with two builders, and with
`Reverts`; each is a hazard of the code, at `incremental.rs:1057`, `:1058`
and `:1030`. `ServerSees` follows the server through its looks.

**Stream.** `OneResponseEach` counts the places at which a request is. The proof
splits the count into places (`Places`) and has a lemma for each way a place can
gain or lose a request. What makes it inductive are the sequence numbers: each
number between the next one to be delivered and the next one to be given belongs
to exactly one job or result (`Waiting`), and the numbers follow the order in
which requests were read (`Numbered`), from which `AnswersInOrder` follows
whatever the workers do. `Guarded` says that a registered token is that of a
request that still has to pass its guard: no reuse of ids breaks it, since a
guard removes only its own token. That an id leads to *its* token needs
`UniqueIds`, the client's part of the protocol; with two open requests of one id
TLC shows a cancellation that reaches only one.

**Workspace.** The invariant `Intact` has six parts: the files are parsed files;
the nodes are theirs (`NodesMatch`); edges have both ends (`EndsMatch`); calls
are rated (`Rated`); the consumers are indexed, and only files that exist are. No
part says what a name resolves to. It is inductive because of what `Plan` chooses:
the closures contain their seeds and are closed under their relation, although
the code computes them by a number of rounds (`ClosureCloses`; a set that grows in
every round outgrows the number of files); the files built anew contain the
changed ones and are closed under the edges of the graph, so that no edge from
outside leads to a node that is taken out, unless its file is resolved again
(`PlanIsGood`); and resolution only ever yields a node of the graph
(`OutcomeIsCandidate`, `CallTargetIsNode`, `ReferenceTargetIsNode`).

For the report of calls it must be shown that a file outside the affected ones
would resolve its calls as before. `OutcomesAgree` follows the seven reasons of
`resolve_single_call` and shows that each looks at nodes of the file itself, of
files it is linked to, or of files its directives name; none of them can differ
unless the name of the call, or a file linked or named, is among the keys by
which the index of consumers finds the file (`NoSharedKey`). For a symbol with an
alias that is so only if its own name is a key (`AliasesAreAloof`): that is
`KeyedAliases`. For a symbol a changed file no longer offers it is so only if
what it offered before is remembered: that is `RememberedBatch`, and a batch
without a rename onto an existing file meets it. `PlainImports` makes the links of
a file outside the affected ones those of a build from nothing (`LinksUntouched`).
The instance of the run `workspace` meets `PlainImports` and `KeyedAliases`
(`ContentsAreKeyed`), which have aliases, re-exports and links that come and go;
without any one of the three hypotheses TLC finds the failures of section 4.

**Components.** `tarjan_scc` keeps the recursion of Tarjan's algorithm as a stack
of frames, and the invariant `Searching` is about both stacks. `Numbered` and
`Stacked`: numbers are given in the order of meeting, the stack holds what was
met and is in no component, in that order, and the frames are a part of it.
`Connected`: a frame reaches everything open that was met after it, and
everything open reaches a frame that was met before it. `Bounded` and
`Witnessed`: the low number of a frame is at most the number of every open unit
a followed link leads to from between this frame and the next one, and it is the
number of an open unit the frame reaches. `Explored`: followed links lead to
what was met, and no link leads out of what is in a component. When the top frame
has followed all links and its low number is its own, what lies above it on the
stack has no link to anything open below (`Bounded`), reaches it and is reached by
it (`Connected`), so it is a component and whole (`ClosingKeeps`). When its low
number is less, the unit that bears that number is further down and takes over
what the frame was needed for (`LeavingKeeps`). `u` reaches `v` when every set
that holds `u` and that no link leaves (`IsSealed`) holds `v`, so nothing is
proved by induction over paths. There is one lemma per way a step changes the
state (`Enters`, `Sees`, `Exhausts`, `Leaves`, `Closes`).

**Cycles.** A cycle has a least unit, and the search from it goes over greater units
only, so each cycle is looked for once and from where it can be found
(`CyclesAreSimple` says what a cycle is place by place). The cycles that begin with a
path (`Round`) are divided among the neighbours of its end: a cycle turns to exactly
one of them (`Turned`), and that one is in the component of the first unit, because
what lies on a cycle reaches and is reached (`CycleInComponent`), so leaving out other
components loses nothing. `VisitCollects` has a case for each branch of
`dfs_cycles`: back at the start the path is the one cycle (`BackAtTheStart`), further
on the rest is that of a longer path (`FurtherOn`), and where the code does not go
there is no cycle (`NoFurther`). `Collected` says of a search that it added nothing
but cycles, and all of them unless there are as many as `MaxCycles`; it is handed
from neighbour to neighbour (`CollectedInTurn`) and from longer paths to shorter ones,
by induction over the nodes a path may still take. `Between` is the invariant from
start to start: the cycles found start elsewhere than the starts that are left, and
every other one starts at one of them, unless the limit is reached. That the starts
hold the least unit of every cycle, and once, follows from the components being
disjoint and of several units (`CycleStartsAreUnits`); that `max_cycles` cuts a
search to the number left needs that no two cycles have one key (`PathKeysDiffer`).

**Candidates.** The list of candidates is its own queue, so what matters is said
of the list and of the number `k` of candidates looked at. `Queue`: each node
occurs once, queued candidates come by ascending depth, at most one more than
that of the one looked at. `Reached`: what is in the list was found at its least
distance, and as long as the list is shorter than the limit everything next to a
candidate that was looked at is in it. `Distance` is defined by balls (`Growing`: a
ball grows by the successors of what is in it), and `NearerIsFound` compares the
two: what is nearer than the candidate looked at was found before it. The tests
of the seeds come in any order and are never gone on from, which is why they are
left out of the distances. That a sequence by ascending keys holds each element
once needs that the keys differ (`SortedByKeys`), for which identifiers must be
distinct (`IsGraph`).

**Bundles.** `Fitting` follows the items one by one: what was spent is the cost
of what was taken, within the limit unless one item alone exceeds it, and what
was turned down would have exceeded it then and does so at the end. `Merged`
says of the slices kept so far that none lies in another and that every slice
seen lies in one of them; `EnclosesIsOrder` makes that last when an enclosing
slice replaces others. The slices are apart, so that their lines are not more
than what was paid.

**Queries.** The three searches differ in the edges they follow and in the order
of these (`LeadsAlong`), not in how they mark nodes, so one lemma is about all of
them. What was found is read as a list of candidates without tests (`Plain`), and
`Queue` and `Reached` hold of it as they do of a context (`AdvancingKeeps`); a limit
above the number of nodes is never reached, since a node is found once. `Surveyed`
is what the callers need of the end: each node within the depth once, by ascending
depth, at its least distance, and each but the start found from another along an
edge (`Came`). From there a path leads back to the start by induction over the
distance (`PathLeadsTo`). That a search that gives up was right to do so is a fact
about numbers: the first `i` nodes found are `i` different nodes within the distance
of the `i`-th, so the ball of that distance has at least as many. The kinds of an
impact are three sets that do not meet, and the report has as many entries as nodes
were found, since no two name the same node.

**Flows.** `TraceFlow` goes on from all paths of one length to those of the next
(`Longer`), in an order that keys decide. `Walks` is the set of all walks of each
length, and `Listing` says of the paths of one length that they are those walks from
the source that pass no node twice and have not passed the sink, each once
(`NextLayer`). Those that arrive are therefore all paths without a repeated node, and
none arrives at two lengths (`ArrivedAreFlows`). `Gathered` follows the two loops:
what is held by the `i`-th source and the `j`-th sink belongs to the pairs before, and
nothing of these is missing unless there are as many as asked for; paths of different
pairs differ at an end (`FlowsHaveEnds`), so none is held twice. A search with nothing
left to find still adds one path, and the loop over the sinks does not end early:
hence one more for each sink. The sort by length keeps all of that (`Rearranged`).

**Types of the tools.** `Shaped` adds to `Searched` what is left of the state: the
labels are units, and the starts come from components found (`CycleStartsAreUnits`).
A label is elected because some label has the most votes, which needs that votes are
bounded (`VotesAreBounded`).

The recursion of `Expand`, `Allocate`, `Bundle`, `Search`, `PathTo`, `TraceFlow`,
`FindFlows`, `DfsCycles`, `CycleStarts` and `Balls` is over the numbers up to a length.
`StepwiseExists` shows that such a function exists, for values of any kind, and
`NumbersByInduction` what holds of each of its values.

**Differences.** A difference is computed from two maps by keys, so that it
accounts for everything is a fact of the maps; that it is the reverse of the
difference the other way round holds as both compare the same pairs. For public
interfaces the map is from symbols to slots, where a slot is a symbol and a
place among those of one name: without overloads (`single`) every place is the
first, and the slots are the symbols.

### Only model-checked

- Every liveness property: `ENABLED` and fairness are out of the prover's reach.
- `MentionsStayRight` of `Workspace`: a mention may be followed through
  re-exports across the whole repository, while a batch looks again only at
  files that share a key with a change. It holds because the closure over
  dependents follows the chain, which would be an induction over the chain.
- The three violations, which are violations.

## 6. Plan

Done: every module of section 2, and the proofs named there. What would come next:

1. The daemon as a further process of `IndexStore`.
2. `InitWorkflow` and `UiServer`: partial failure of a sequence of file changes;
   a bounded number of connections.

## 7. Running it

    tlc -workers 2 -config MCPersistenceWorker.cfg MCPersistenceWorker.tla
    tlapm PersistenceWorkerProofs.tla

and likewise for the other pairs that `PROJECT.json` lists under `runs`, and for
`LiveDaemonProofs`, `IndexStoreProofs`, `McpStreamProofs`, `WorkspaceProofs`,
`GraphAnalysisProofs`, `ToolsProofs` and `NumberLemmas`. No run takes more than two
minutes on two cores; the proofs of the stream, of the daemon and of the tools
take several minutes each.

## 8. Not modelled

Parsing (walks over syntax trees made by tree-sitter), the scan, export and
reports (formatting), argument checks of the MCP tools, benchmarks and
installers have no state whose order matters. Page rank is arithmetic of
floating point numbers. Of the command line only what the commands ask the graph
is modelled; `graphia init` and the installation of the skill, the byte format
of `index.bin` and the UI server are not. Errors of the watcher and events
dropped by the operating system are not modelled; neither are directories, whose
renames the watcher reports without the files below them.

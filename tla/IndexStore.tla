------------------------------ MODULE IndexStore ------------------------------
(***************************************************************************)
(* The artifacts in .graphia and the processes that share them: `graphia   *)
(* build' and `graphia update', which read the repository and replace four *)
(* files one after the other, and the MCP server, which classifies the     *)
(* index before it serves from it and may rebuild it.                      *)
(*                                                                         *)
(* The content of a file is a number, 0 if there is no such file, and its  *)
(* hash identifies it.  A graph is represented by the content each file    *)
(* had when it was parsed.  Every artifact is replaced atomically; files   *)
(* change and processes are stopped between any two steps.  Modification   *)
(* times count whole seconds, which is what the server compares.           *)
(***************************************************************************)
EXTENDS Naturals, FiniteSetsExt

CONSTANTS
    Files,      \* source files of the repository
    Builders,   \* processes that run build or update
    Server,     \* the MCP server process
    AutoIndex,  \* it was started with --auto-index
    Reverts,    \* a file may get a content it had before
    MaxContent, \* bound: different contents
    MaxTime,    \* bound: seconds
    MaxRuns,    \* bound: builds and checks of the index
    MaxStops    \* bound: builds that end early

ASSUME ParametersOK ==
    /\ Server \notin Builders
    /\ AutoIndex \in BOOLEAN /\ Reverts \in BOOLEAN
    /\ MaxContent \in Nat \ {0}
    /\ {MaxTime, MaxRuns, MaxStops} \subseteq Nat

Procs == Builders \cup {Server}
Contents == 0 .. MaxContent
Kinds == {"none", "old", "ok"}  \* missing, of another version, usable
NoFiles == [f \in Files |-> 0]

VARIABLES
    fs,      \* content of each file
    mtime,   \* modification time of each file
    clock,   \* the time
    newest,  \* newest content so far
    cache,   \* parsed.json: hash and parse result of each file
    meta,    \* metadata.json: hash of each file
    json,    \* graph.json
    index,   \* index.bin and its modification time
    bpc,     \* control of each build
    todo,    \* files a build still has to hash or to parse
    hashes,  \* hashes a build took
    prior,   \* the cache a build loaded
    parsed,  \* parse results of a build
    spc,     \* control of the server
    verdict, \* IndexState
    seen,    \* hashes the server took
    probed,  \* [index, repo]: modification times the server took
    served,  \* the graph the server answers from
    runs,    \* builds and checks so far (bound only)
    stops,   \* builds that ended early (bound only)
    steady   \* observer: nobody else changed anything since the build or
             \* check of this process began

fileVars == <<fs, mtime, clock, newest>>
storeVars == <<cache, meta, json, index>>
buildVars == <<bpc, todo, hashes, prior, parsed>>
serverVars == <<spc, verdict, seen, probed, served>>
vars == <<fs, mtime, clock, newest, cache, meta, json, index, bpc, todo,
          hashes, prior, parsed, spc, verdict, seen, probed, served, runs,
          stops, steady>>

Existing == {f \in Files : fs[f] # 0}
NoCache == [f \in Files |-> [hash |-> 0, parsed |-> 0]]

\* A repository that was never indexed, or only by another version.
Init ==
    /\ fs \in [Files -> {0, 1}]
    /\ mtime = NoFiles
    /\ clock = 0
    /\ newest = 1
    /\ cache = NoCache
    /\ json = NoFiles
    /\ \E kind \in {"none", "old"} :
         /\ meta = [kind |-> kind, hash |-> NoFiles]
         /\ index = [kind |-> kind, graph |-> NoFiles, time |-> 0]
    /\ bpc = [p \in Procs |-> "idle"]
    /\ todo = [p \in Procs |-> {}]
    /\ hashes = [p \in Procs |-> NoFiles]
    /\ prior = [p \in Procs |-> NoCache]
    /\ parsed = [p \in Procs |-> NoFiles]
    /\ spc = "idle"
    /\ verdict = "none"
    /\ seen = NoFiles
    /\ probed = [index |-> 0, repo |-> 0]
    /\ served = NoFiles
    /\ runs = 0
    /\ stops = 0
    /\ steady = [p \in Procs |-> FALSE]

Disturbs(p) == steady' = [q \in Procs |-> q = p /\ steady[q]]
Begins(p) == steady' = [steady EXCEPT ![p] = TRUE]

-----------------------------------------------------------------------------
(* Slips a change to this code could make, each with the parameters of the  *)
(* definition it would replace; never part of Next.                         *)

\* The modification time of the index is rounded up instead of down.
ProbeRoundsUp ==
    /\ spc = "idle"
    /\ runs < MaxRuns
    /\ index.kind = "ok"
    /\ runs' = runs + 1
    /\ Begins(Server)
    /\ probed' = [probed EXCEPT !.index = index.time + 1]
    /\ spc' = "hash"
    /\ UNCHANGED <<fileVars, storeVars, buildVars, verdict, seen, served,
                   stops>>

\* A cached parse result is reused whatever the hash says.
ReuseByPath(p, f) == prior[p][f].hash # 0

\* The hashes for the cache are taken again when it is written.
WriteCacheRehashed(p) ==
    /\ bpc[p] = "parse"
    /\ todo[p] = {}
    /\ cache' = [f \in Files |-> [hash |-> fs[f], parsed |-> parsed[p][f]]]
    /\ bpc' = [bpc EXCEPT ![p] = "meta"]
    /\ Disturbs(p)
    /\ UNCHANGED <<fileVars, meta, json, index, todo, hashes, prior, parsed,
                   serverVars, runs, stops>>

\* The comparison runs over the files there are and misses deleted ones.
ChangedIgnoresDeleted(new) ==
    \E f \in Files :
        new[f] # 0 /\ (meta.kind # "ok" \/ meta.hash[f] # new[f])

-----------------------------------------------------------------------------
(* Files change and time passes.                                           *)

NewContents == IF Reverts THEN Contents \ {0} ELSE {newest + 1} \cap Contents

WriteFile(f) ==
    /\ \E c \in NewContents \ {fs[f]} :
         /\ fs' = [fs EXCEPT ![f] = c]
         /\ newest' = IF c > newest THEN c ELSE newest
    /\ mtime' = [mtime EXCEPT ![f] = clock]
    /\ steady' = [p \in Procs |-> FALSE]
    /\ UNCHANGED <<clock, storeVars, buildVars, serverVars, runs, stops>>

DeleteFile(f) ==
    /\ f \in Existing
    /\ fs' = [fs EXCEPT ![f] = 0]
    /\ mtime' = [mtime EXCEPT ![f] = 0]
    /\ steady' = [p \in Procs |-> FALSE]
    /\ UNCHANGED <<clock, newest, storeVars, buildVars, serverVars, runs,
                   stops>>

Tick ==
    /\ clock < MaxTime
    /\ clock' = clock + 1
    /\ UNCHANGED <<fs, mtime, newest, storeVars, buildVars, serverVars, runs,
                   stops, steady>>

-----------------------------------------------------------------------------
(* A build: build_or_update and update_repository.                         *)

\* The parsed cache is dropped by a clean build, and when the metadata is of
\* another version; what else build_or_update reads is for its report.
DropsCache(clean) == clean \/ meta.kind = "old"

BeginBuild(p, clean) ==
    /\ bpc' = [bpc EXCEPT ![p] = "list"]
    /\ cache' = IF DropsCache(clean) THEN NoCache ELSE cache

StartBuild(b, clean) ==
    /\ bpc[b] \in {"idle", "done"}
    /\ runs < MaxRuns
    /\ runs' = runs + 1
    /\ BeginBuild(b, clean)
    /\ steady' = [q \in Procs |-> q = b \/ (steady[q] /\ ~DropsCache(clean))]
    /\ UNCHANGED <<fileVars, meta, json, index, todo, hashes, prior, parsed,
                   serverVars, stops>>

\* scan_repo
List(p) ==
    /\ bpc[p] = "list"
    /\ todo' = [todo EXCEPT ![p] = Existing]
    /\ hashes' = [hashes EXCEPT ![p] = NoFiles]
    /\ bpc' = [bpc EXCEPT ![p] = "hash"]
    /\ UNCHANGED <<fileVars, storeVars, prior, parsed, serverVars, runs,
                   stops, steady>>

\* metadata_for_files
HashFile(p, f) ==
    /\ bpc[p] = "hash"
    /\ f \in todo[p] \cap Existing
    /\ hashes' = [hashes EXCEPT ![p][f] = fs[f]]
    /\ todo' = [todo EXCEPT ![p] = @ \ {f}]
    /\ UNCHANGED <<fileVars, storeVars, bpc, prior, parsed, serverVars, runs,
                   stops, steady>>

LoadCache(p) ==
    /\ bpc[p] = "hash"
    /\ todo[p] = {}
    /\ prior' = [prior EXCEPT ![p] = cache]
    /\ parsed' = [parsed EXCEPT ![p] = NoFiles]
    /\ todo' = [todo EXCEPT ![p] = {f \in Files : hashes[p][f] # 0}]
    /\ bpc' = [bpc EXCEPT ![p] = "parse"]
    /\ UNCHANGED <<fileVars, storeVars, hashes, serverVars, runs, stops,
                   steady>>

\* The cached parse result of a file is reused if its hash is the same.
Reusable(p, f) == prior[p][f].hash = hashes[p][f]

ParseFile(p, f) ==
    /\ bpc[p] = "parse"
    /\ f \in todo[p]
    /\ Reusable(p, f) \/ f \in Existing
    /\ parsed' = [parsed EXCEPT
                    ![p][f] = IF Reusable(p, f) THEN prior[p][f].parsed
                              ELSE fs[f]]
    /\ todo' = [todo EXCEPT ![p] = @ \ {f}]
    /\ UNCHANGED <<fileVars, storeVars, bpc, hashes, prior, serverVars, runs,
                   stops, steady>>

\* The four artifacts are replaced one after the other.
WriteCache(p) ==
    /\ bpc[p] = "parse"
    /\ todo[p] = {}
    /\ cache' = [f \in Files |-> [hash |-> hashes[p][f],
                                  parsed |-> parsed[p][f]]]
    /\ bpc' = [bpc EXCEPT ![p] = "meta"]
    /\ Disturbs(p)
    /\ UNCHANGED <<fileVars, meta, json, index, todo, hashes, prior, parsed,
                   serverVars, runs, stops>>

WriteMeta(p) ==
    /\ bpc[p] = "meta"
    /\ meta' = [kind |-> "ok", hash |-> hashes[p]]
    /\ bpc' = [bpc EXCEPT ![p] = "json"]
    /\ Disturbs(p)
    /\ UNCHANGED <<fileVars, cache, json, index, todo, hashes, prior, parsed,
                   serverVars, runs, stops>>

WriteJson(p) ==
    /\ bpc[p] = "json"
    /\ json' = parsed[p]
    /\ bpc' = [bpc EXCEPT ![p] = "index"]
    /\ Disturbs(p)
    /\ UNCHANGED <<fileVars, cache, meta, index, todo, hashes, prior, parsed,
                   serverVars, runs, stops>>

\* A build of the server itself makes the graph it serves.
WriteIndex(p) ==
    /\ bpc[p] = "index"
    /\ index' = [kind |-> "ok", graph |-> parsed[p], time |-> clock]
    /\ bpc' = [bpc EXCEPT ![p] = "done"]
    /\ Disturbs(p)
    /\ IF p = Server
       THEN served' = parsed[p] /\ spc' = "serving"
       ELSE UNCHANGED <<served, spc>>
    /\ UNCHANGED <<fileVars, cache, meta, json, todo, hashes, prior, parsed,
                   verdict, seen, probed, runs, stops>>

\* The build ends early and leaves what it has written; to the server this
\* is an error it reports to its client.
Abandon(p) ==
    /\ bpc' = [bpc EXCEPT ![p] = "idle"]
    /\ spc' = IF p = Server THEN "idle" ELSE spc
    /\ UNCHANGED <<fileVars, storeVars, todo, hashes, prior, parsed, verdict,
                   seen, probed, served, runs, steady>>

\* A listed file is gone before it is hashed or parsed.
FileVanished(p) ==
    /\ \/ bpc[p] = "hash" /\ ~(todo[p] \subseteq Existing)
       \/ bpc[p] = "parse"
          /\ \E f \in todo[p] \ Existing : ~Reusable(p, f)
    /\ Abandon(p)
    /\ UNCHANGED stops

\* The process is killed, or a read, a parse or a write fails.
Stop(p) ==
    /\ bpc[p] \notin {"idle", "done"}
    /\ stops < MaxStops
    /\ stops' = stops + 1
    /\ Abandon(p)

BuildStep(p) ==
    \/ List(p) \/ LoadCache(p)
    \/ \E f \in Files : HashFile(p, f) \/ ParseFile(p, f)
    \/ WriteCache(p) \/ WriteMeta(p) \/ WriteJson(p) \/ WriteIndex(p)
    \/ FileVanished(p)

-----------------------------------------------------------------------------
(* The server: ensure_graph_loaded, until it has a graph.                  *)

\* index_state: does index.bin exist, and can it be loaded?
ProbeIndex ==
    /\ spc = "idle"
    /\ runs < MaxRuns
    /\ runs' = runs + 1
    /\ Begins(Server)
    /\ IF index.kind = "ok"
       THEN /\ probed' = [probed EXCEPT !.index = index.time]
            /\ spc' = "hash"
            /\ UNCHANGED verdict
       ELSE /\ verdict' = IF index.kind = "none" THEN "Missing"
                          ELSE "VersionMismatch"
            /\ spc' = "decide"
            /\ UNCHANGED probed
    /\ UNCHANGED <<fileVars, storeVars, buildVars, seen, served, stops>>

\* index_state: hashes and newest modification time of the files.
HashRepo ==
    /\ spc = "hash"
    /\ seen' = fs
    /\ probed' = [probed EXCEPT !.repo = Max({0} \cup {mtime[f] : f \in Existing})]
    /\ spc' = "compare"
    /\ UNCHANGED <<fileVars, storeVars, buildVars, verdict, served, runs,
                   stops, steady>>

\* compare_metadata: metadata that is missing or of another version knows
\* no file.
Changed(new) == new # (IF meta.kind = "ok" THEN meta.hash ELSE NoFiles)

Compare ==
    /\ spc = "compare"
    /\ verdict' = IF Changed(seen) \/ probed.repo > probed.index
                  THEN "Stale" ELSE "Current"
    /\ spc' = "decide"
    /\ UNCHANGED <<fileVars, storeVars, buildVars, seen, probed, served, runs,
                   stops, steady>>

\* What ensure_graph_loaded makes of the state: it looks again whether
\* index.bin exists, and the match calls Missing unreachable after that.
Serve ==
    /\ spc = "decide"
    /\ index.kind # "none"
    /\ verdict = "Current"
    /\ served' = index.graph
    /\ spc' = "serving"
    /\ UNCHANGED <<fileVars, storeVars, buildVars, verdict, seen, probed,
                   runs, stops, steady>>

Unreachable ==
    /\ spc = "decide"
    /\ index.kind # "none"
    /\ verdict = "Missing"
    /\ spc' = "panicked"
    /\ UNCHANGED <<fileVars, storeVars, buildVars, verdict, seen, probed,
                   served, runs, stops, steady>>

NotServable == index.kind = "none" \/ verdict \in {"VersionMismatch", "Stale"}

Refuse ==
    /\ spc = "decide"
    /\ NotServable
    /\ ~AutoIndex
    /\ spc' = "idle"
    /\ UNCHANGED <<fileVars, storeVars, buildVars, verdict, seen, probed,
                   served, runs, stops, steady>>

Rebuild ==
    /\ spc = "decide"
    /\ NotServable
    /\ AutoIndex
    /\ spc' = "building"
    /\ LET clean == index.kind # "none" /\ verdict = "VersionMismatch"
       IN  /\ BeginBuild(Server, clean)
           /\ steady' = [q \in Procs |->
                           q = Server \/ (steady[q] /\ ~DropsCache(clean))]
    /\ UNCHANGED <<fileVars, meta, json, index, todo, hashes, prior, parsed,
                   verdict, seen, probed, served, runs, stops>>

ServerStep ==
    \/ ProbeIndex \/ HashRepo \/ Compare \/ Serve \/ Unreachable \/ Refuse
    \/ Rebuild

Next ==
    \/ \E f \in Files : WriteFile(f) \/ DeleteFile(f)
    \/ Tick
    \/ \E b \in Builders, clean \in BOOLEAN : StartBuild(b, clean)
    \/ \E p \in Procs : BuildStep(p) \/ Stop(p)
    \/ ServerStep

Spec == Init /\ [][Next]_vars

-----------------------------------------------------------------------------
(* Properties.                                                             *)

TypeOK ==
    /\ fs \in [Files -> Contents]
    /\ mtime \in [Files -> 0 .. clock]
    /\ clock \in 0 .. MaxTime
    /\ newest \in Contents
    /\ cache \in [Files -> [hash : Contents, parsed : Contents]]
    /\ meta \in [kind : Kinds, hash : [Files -> Contents]]
    /\ json \in [Files -> Contents]
    /\ index \in [kind : Kinds, graph : [Files -> Contents], time : 0 .. clock]
    /\ bpc \in [Procs -> {"idle", "list", "hash", "parse", "meta", "json",
                          "index", "done"}]
    /\ todo \in [Procs -> SUBSET Files]
    /\ hashes \in [Procs -> [Files -> Contents]]
    /\ prior \in [Procs -> [Files -> [hash : Contents, parsed : Contents]]]
    /\ parsed \in [Procs -> [Files -> Contents]]
    /\ spc \in {"idle", "hash", "compare", "decide", "building", "serving",
                "panicked"}
    /\ verdict \in {"none", "Missing", "VersionMismatch", "Stale", "Current"}
    /\ seen \in [Files -> Contents]
    /\ probed \in [index : 0 .. clock, repo : 0 .. clock]
    /\ served \in [Files -> Contents]
    /\ runs \in 0 .. MaxRuns
    /\ stops \in 0 .. MaxStops
    /\ steady \in [Procs -> BOOLEAN]

\* docs/m0.4-report.md: incremental output equals a clean rebuild of the same
\* final tree, and after a failure that left some artifacts behind a further
\* update is all it takes.  A build during which nobody else changed anything
\* leaves all four artifacts as a clean build would.
RerunRepairs ==
    \A p \in Procs :
        bpc[p] = "done" /\ steady[p] =>
            /\ index.kind = "ok" /\ index.graph = fs
            /\ meta = [kind |-> "ok", hash |-> fs]
            /\ json = fs
            /\ cache = [f \in Files |-> [hash |-> fs[f], parsed |-> fs[f]]]

\* A cached parse result that the next build would reuse is the parse result
\* of the file as it is.
CacheTellsTruth ==
    \A f \in Existing :
        cache[f].hash = fs[f] => cache[f].parsed = fs[f]

\* docs/m4.1.2-final-closure-report.md: clients could receive stale graph
\* data, now the index is classified first.  A server that took the index for
\* current serves a graph of the files as they are, if nobody changed anything
\* since it began to look and no build is at work.
FreshWhenServed ==
    (/\ spc = "serving"
     /\ steady[Server]
     /\ \A b \in Builders : bpc[b] \in {"idle", "done"})
        => served = fs
=============================================================================

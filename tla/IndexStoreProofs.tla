-------------------------- MODULE IndexStoreProofs --------------------------
(***************************************************************************)
(* What the artifacts guarantee for every set of files, every number of    *)
(* builders, and every number of builds, stops and contents, as long as no *)
(* content comes back.  The key is that a content is new when it is        *)
(* written, so no record of a hash, in the parsed cache or in a build,     *)
(* equals it until the file is hashed again; a hash that equals the        *)
(* present content was therefore recorded with its own parse result.       *)
(*                                                                         *)
(* What a server that found the index current may say rests on more.  A    *)
(* graph is the graph of the present files if its recorded hashes are      *)
(* theirs, provided that index.bin and metadata.json come from the same    *)
(* build.  They do whenever no build is between the two, if builds do not  *)
(* overlap and none is stopped there; without these two conditions the     *)
(* comparison of hashes says nothing about index.bin.                      *)
(***************************************************************************)
EXTENDS IndexStore, NumberLemmas, TLAPS

BuildStates == {"idle", "list", "hash", "parse", "meta", "json", "index",
                "done"}
Entries == [hash : Nat, parsed : Nat]

\* As much of the types as the arguments need.
Typed ==
    /\ fs \in [Files -> Nat]
    /\ newest \in Nat
    /\ cache \in [Files -> Entries]
    /\ bpc \in [Procs -> BuildStates]
    /\ todo \in [Procs -> SUBSET Files]
    /\ hashes \in [Procs -> [Files -> Nat]]
    /\ prior \in [Procs -> [Files -> Entries]]
    /\ parsed \in [Procs -> [Files -> Nat]]
    /\ steady \in [Procs -> BOOLEAN]

\* No recorded hash is of a content still to come.
HashesAreOld ==
    /\ \A f \in Files : fs[f] <= newest /\ cache[f].hash <= newest
    /\ \A p \in Procs, f \in Files : /\ hashes[p][f] <= newest
                                     /\ prior[p][f].hash <= newest

\* A recorded hash that is the hash of the file as it is comes with the
\* parse result of the file as it is.
Truthful(hash, result, f) == hash # 0 /\ hash = fs[f] => result = fs[f]

CacheTruthful ==
    \A f \in Files : Truthful(cache[f].hash, cache[f].parsed, f)
PriorTruthful ==
    \A p \in Procs, f \in Files :
        Truthful(prior[p][f].hash, prior[p][f].parsed, f)
ResultsTruthful ==
    \A p \in Procs : bpc[p] = "parse" =>
        \A f \in Files \ todo[p] : Truthful(hashes[p][f], parsed[p][f], f)

Truth == CacheTruthful /\ PriorTruthful /\ ResultsTruthful

\* The server builds only between its decision and what it serves.
ServerAtRest == spc \notin {"building", "serving"} => bpc[Server] = "idle"

\* How far a build has come that nobody disturbs.
Hashed(p) ==
    /\ todo[p] \subseteq Existing
    /\ \A f \in Files \ todo[p] : hashes[p][f] = fs[f]
Parsed(p) ==
    /\ todo[p] \subseteq Existing
    /\ hashes[p] = fs
    /\ \A f \in Files \ todo[p] : parsed[p][f] = fs[f]
CacheWritten(p) ==
    /\ hashes[p] = fs
    /\ parsed[p] = fs
    /\ cache = [f \in Files |-> [hash |-> fs[f], parsed |-> fs[f]]]
MetaWritten == meta = [kind |-> "ok", hash |-> fs]
JsonWritten == json = fs
IndexWritten == index.kind = "ok" /\ index.graph = fs

Progress(p) ==
    steady[p] =>
        /\ bpc[p] = "hash" => Hashed(p)
        /\ bpc[p] = "parse" => Parsed(p)
        /\ bpc[p] \in {"meta", "json", "index", "done"} => CacheWritten(p)
        /\ bpc[p] \in {"json", "index", "done"} => MetaWritten
        /\ bpc[p] \in {"index", "done"} => JsonWritten
        /\ bpc[p] = "done" => IndexWritten

IInv ==
    /\ Typed
    /\ HashesAreOld
    /\ Truth
    /\ ServerAtRest
    /\ \A p \in Procs : Progress(p)

-----------------------------------------------------------------------------
LEMMA ServerIsNoBuilder == Server \notin Builders
BY ParametersOK

LEMMA InitIInv == Init => IInv
<1> SUFFICES ASSUME Init
             PROVE  IInv
  OBVIOUS
<1> USE DEF Init, NoFiles, NoCache
<1>1. Typed
  BY DEF Typed, BuildStates, Entries
<1>2. HashesAreOld
  <2>1. \A f \in Files : fs[f] \in {0, 1} /\ cache[f].hash = 0
    OBVIOUS
  <2>2. \A p \in Procs, f \in Files : hashes[p][f] = 0 /\ prior[p][f].hash = 0
    OBVIOUS
  <2>3. newest = 1
    OBVIOUS
  <2> HIDE DEF Init
  <2> QED
    BY <2>1, <2>2, <2>3 DEF HashesAreOld
<1>3. Truth
  BY DEF Truth, CacheTruthful, PriorTruthful, ResultsTruthful, Truthful
<1>4. ServerAtRest /\ \A p \in Procs : Progress(p)
  BY DEF ServerAtRest, Progress, Procs
<1> QED
  BY <1>1, <1>2, <1>3, <1>4 DEF IInv

-----------------------------------------------------------------------------
(* The steps that concern neither files, cache nor what builds have read.   *)

\* The server looks at the index, and judges what it saw.
Looks == ProbeIndex \/ HashRepo \/ Compare \/ Serve \/ Unreachable \/ Refuse

LEMMA LooksOnly ==
    Looks => /\ UNCHANGED <<fileVars, storeVars, buildVars>>
             /\ spc \notin {"building", "serving"}
             /\ spc' # "building"
             /\ \/ UNCHANGED steady
                \/ spc = "idle" /\ steady' = [steady EXCEPT ![Server] = TRUE]
BY DEF Looks, ProbeIndex, HashRepo, Compare, Serve, Unreachable, Refuse, Begins

\* A build begins, of a builder or of the server.
Begin(p, clean) ==
    /\ bpc[p] \in {"idle", "done"}
    /\ BeginBuild(p, clean)
    /\ steady' = [q \in Procs |-> q = p \/ (steady[q] /\ ~DropsCache(clean))]
    /\ UNCHANGED <<fileVars, meta, json, index, todo, hashes, prior, parsed>>
    /\ IF p = Server THEN spc' = "building" ELSE spc' = spc

LEMMA StartIsBegin ==
    ASSUME NEW b \in Builders, NEW clean \in BOOLEAN, StartBuild(b, clean)
    PROVE  Begin(b, clean)
BY ServerIsNoBuilder DEF StartBuild, Begin, serverVars

LEMMA RebuildIsBegin ==
    ASSUME IInv, Rebuild
    PROVE  \E clean \in BOOLEAN : Begin(Server, clean)
<1> DEFINE clean == index.kind # "none" /\ verdict = "VersionMismatch"
<1>1. Begin(Server, clean)
  BY DEF IInv, ServerAtRest, Rebuild, Begin
<1> QED
  BY <1>1

\* A build ends early.
EndsEarly(p) == FileVanished(p) \/ Stop(p)

LEMMA EndsEarlyOnly ==
    ASSUME NEW p \in Procs, EndsEarly(p)
    PROVE  /\ bpc' = [bpc EXCEPT ![p] = "idle"]
           /\ spc' = IF p = Server THEN "idle" ELSE spc
           /\ UNCHANGED <<fileVars, storeVars, todo, hashes, prior, parsed,
                          steady>>
BY DEF EndsEarly, FileVanished, Stop, Abandon

\* Every step is one of the following.
LEMMA StepKinds ==
    ASSUME IInv, [Next]_vars
    PROVE  \/ \E f \in Files : WriteFile(f) \/ DeleteFile(f)
           \/ Tick \/ Looks \/ UNCHANGED vars
           \/ \E p \in Procs, clean \in BOOLEAN : Begin(p, clean)
           \/ \E p \in Procs :
                \/ List(p) \/ LoadCache(p)
                \/ \E f \in Files : HashFile(p, f) \/ ParseFile(p, f)
                \/ WriteCache(p) \/ WriteMeta(p) \/ WriteJson(p)
                \/ WriteIndex(p) \/ EndsEarly(p)
<1>1. ASSUME NEW b \in Builders, NEW clean \in BOOLEAN, StartBuild(b, clean)
      PROVE  \E p \in Procs, c \in BOOLEAN : Begin(p, c)
  BY <1>1, StartIsBegin DEF Procs
<1>2. CASE ServerStep
  BY <1>2, RebuildIsBegin DEF ServerStep, Looks, Procs
<1>3. ASSUME NEW p \in Procs, BuildStep(p) \/ Stop(p)
      PROVE  \/ List(p) \/ LoadCache(p)
             \/ \E f \in Files : HashFile(p, f) \/ ParseFile(p, f)
             \/ WriteCache(p) \/ WriteMeta(p) \/ WriteJson(p)
             \/ WriteIndex(p) \/ EndsEarly(p)
  BY <1>3 DEF BuildStep, EndsEarly
<1> QED
  BY <1>1, <1>2, <1>3 DEF Next

-----------------------------------------------------------------------------
(* Types, and that recorded hashes are old.                                *)

LEMMA StepTyped == IInv /\ [Next]_vars => Typed'
<1> SUFFICES ASSUME IInv, [Next]_vars
             PROVE  Typed'
  OBVIOUS
<1> USE DEF IInv, Typed, fileVars, storeVars, buildVars
<1>1. ASSUME NEW f \in Files, WriteFile(f) \/ DeleteFile(f)
      PROVE  Typed'
  <2>1. CASE DeleteFile(f)
    BY <2>1 DEF DeleteFile
  <2>2. CASE WriteFile(f)
    <3>1. PICK c \in NewContents :
               /\ fs' = [fs EXCEPT ![f] = c]
               /\ newest' = IF c > newest THEN c ELSE newest
      BY <2>2 DEF WriteFile
    <3>2. c \in Nat
      BY ParametersOK DEF NewContents, Contents
    <3> QED
      BY <2>2, <3>1, <3>2 DEF WriteFile
  <2> QED
    BY <1>1, <2>1, <2>2
<1>2. CASE Tick \/ UNCHANGED vars
  BY <1>2 DEF Tick, vars
<1>3. CASE Looks
  <2>1. steady' \in [Procs -> BOOLEAN]
    BY <1>3, LooksOnly
  <2> QED
    BY <1>3, <2>1, LooksOnly
<1>4. ASSUME NEW p \in Procs, NEW clean \in BOOLEAN, Begin(p, clean)
      PROVE  Typed'
  <2>1. bpc' \in [Procs -> BuildStates] /\ cache' \in [Files -> Entries]
    BY <1>4 DEF Begin, BeginBuild, NoCache, BuildStates, Entries
  <2>2. steady' \in [Procs -> BOOLEAN]
    BY <1>4, Zenon DEF Begin
  <2> QED
    BY <1>4, <2>1, <2>2 DEF Begin
<1>5. ASSUME NEW p \in Procs, List(p) \/ LoadCache(p)
      PROVE  Typed'
  <2>1. CASE List(p)
    BY <2>1 DEF List, BuildStates, NoFiles, Existing
  <2>2. CASE LoadCache(p)
    <3>1. /\ prior' = [prior EXCEPT ![p] = cache]
          /\ parsed' = [parsed EXCEPT ![p] = NoFiles]
          /\ NoFiles \in [Files -> Nat]
      BY <2>2 DEF LoadCache, NoFiles
    <3>2. prior' \in [Procs -> [Files -> Entries]]
      BY <3>1
    <3>3. parsed' \in [Procs -> [Files -> Nat]]
      BY <3>1
    <3>4. todo' \in [Procs -> SUBSET Files] /\ bpc' \in [Procs -> BuildStates]
      BY <2>2 DEF LoadCache, BuildStates
    <3> QED
      BY <2>2, <3>2, <3>3, <3>4 DEF LoadCache
  <2> QED
    BY <1>5, <2>1, <2>2
<1>6. ASSUME NEW p \in Procs, NEW f \in Files, HashFile(p, f)
      PROVE  Typed'
  BY <1>6 DEF HashFile
<1>7. ASSUME NEW p \in Procs, NEW f \in Files, ParseFile(p, f)
      PROVE  Typed'
  BY <1>7 DEF ParseFile, Entries
<1>8. ASSUME NEW p \in Procs, WriteCache(p) \/ WriteMeta(p) \/ WriteJson(p)
                              \/ WriteIndex(p)
      PROVE  Typed'
  <2>1. steady' \in [Procs -> BOOLEAN]
    BY <1>8, Zenon DEF WriteCache, WriteMeta, WriteJson, WriteIndex, Disturbs
  <2>2. bpc' \in [Procs -> BuildStates]
    BY <1>8 DEF WriteCache, WriteMeta, WriteJson, WriteIndex, BuildStates
  <2>3. cache' \in [Files -> Entries]
    <3>1. CASE cache' = cache
      BY <3>1
    <3>2. CASE cache' = [f \in Files |-> [hash |-> hashes[p][f],
                                         parsed |-> parsed[p][f]]]
      BY <3>2 DEF Entries
    <3> QED
      BY <1>8, <3>1, <3>2 DEF WriteCache, WriteMeta, WriteJson, WriteIndex
  <2> QED
    BY <1>8, <2>1, <2>2, <2>3 DEF WriteCache, WriteMeta, WriteJson, WriteIndex
<1>9. ASSUME NEW p \in Procs, EndsEarly(p)
      PROVE  Typed'
  BY <1>9, EndsEarlyOnly DEF BuildStates
<1> QED
  BY <1>1, <1>2, <1>3, <1>4, <1>5, <1>6, <1>7, <1>8, <1>9, StepKinds

\* A file gets the newest content only; no hash is taken of a later one.
LEMMA StepHashesAreOld == IInv /\ [Next]_vars => HashesAreOld'
<1> SUFFICES ASSUME IInv, [Next]_vars
             PROVE  HashesAreOld'
  OBVIOUS
<1> USE DEF IInv, Typed, HashesAreOld, fileVars, storeVars, buildVars
<1>1. ASSUME NEW f \in Files, WriteFile(f) \/ DeleteFile(f)
      PROVE  HashesAreOld'
  <2>1. CASE DeleteFile(f)
    BY <2>1 DEF DeleteFile
  <2>2. CASE WriteFile(f)
    <3>1. PICK c \in NewContents :
               /\ fs' = [fs EXCEPT ![f] = c]
               /\ newest' = IF c > newest THEN c ELSE newest
      BY <2>2 DEF WriteFile
    <3>2. c \in Nat
      BY ParametersOK DEF NewContents, Contents
    <3>3. newest' \in Nat /\ newest <= newest' /\ c <= newest'
      BY <3>1, <3>2
    <3>4. /\ \A g \in Files : fs'[g] \in {c, fs[g]}
          /\ UNCHANGED <<cache, hashes, prior>>
      BY <2>2, <3>1 DEF WriteFile
    <3>5. \A g \in Files : fs'[g] <= newest' /\ cache'[g].hash <= newest'
      <4> TAKE g \in Files
      <4>1. fs[g] \in Nat /\ fs[g] <= newest
        OBVIOUS
      <4>2. cache[g].hash \in Nat /\ cache[g].hash <= newest
        BY DEF Entries
      <4>3. fs[g] <= newest' /\ cache[g].hash <= newest'
        BY <3>3, <4>1, <4>2
      <4>4. fs'[g] \in {c, fs[g]} /\ cache' = cache
        BY <3>4
      <4> HIDE DEF IInv
      <4> QED
        BY <3>3, <4>3, <4>4
    <3>6. \A p \in Procs, g \in Files : /\ hashes'[p][g] <= newest'
                                        /\ prior'[p][g].hash <= newest'
      BY <3>3, <3>4 DEF Entries
    <3> QED
      BY <3>5, <3>6
  <2> QED
    BY <1>1, <2>1, <2>2
<1>2. CASE Tick \/ UNCHANGED vars
  BY <1>2 DEF Tick, vars
<1>3. CASE Looks
  BY <1>3, LooksOnly
<1>4. ASSUME NEW p \in Procs, NEW clean \in BOOLEAN, Begin(p, clean)
      PROVE  HashesAreOld'
  BY <1>4 DEF Begin, BeginBuild, NoCache
<1>5. ASSUME NEW p \in Procs, List(p) \/ LoadCache(p)
      PROVE  HashesAreOld'
  <2>1. CASE List(p)
    BY <2>1 DEF List, NoFiles
  <2>2. CASE LoadCache(p)
    <3>1. /\ prior' = [prior EXCEPT ![p] = cache]
          /\ UNCHANGED <<fs, newest, cache, hashes>>
      BY <2>2 DEF LoadCache
    <3>2. \A q \in Procs, g \in Files :
              prior'[q][g].hash \in {cache[g].hash, prior[q][g].hash}
      BY <3>1
    <3> QED
      BY <3>1, <3>2
  <2> QED
    BY <1>5, <2>1, <2>2
<1>6. ASSUME NEW p \in Procs, NEW f \in Files, HashFile(p, f)
      PROVE  HashesAreOld'
  BY <1>6 DEF HashFile
<1>7. ASSUME NEW p \in Procs, NEW f \in Files, ParseFile(p, f)
      PROVE  HashesAreOld'
  BY <1>7 DEF ParseFile
<1>8. ASSUME NEW p \in Procs, WriteCache(p) \/ WriteMeta(p) \/ WriteJson(p)
                              \/ WriteIndex(p)
      PROVE  HashesAreOld'
  BY <1>8 DEF WriteCache, WriteMeta, WriteJson, WriteIndex
<1>9. ASSUME NEW p \in Procs, EndsEarly(p)
      PROVE  HashesAreOld'
  BY <1>9, EndsEarlyOnly
<1> QED
  BY <1>1, <1>2, <1>3, <1>4, <1>5, <1>6, <1>7, <1>8, <1>9, StepKinds

-----------------------------------------------------------------------------
(* What is recorded stays truthful.                                        *)

\* A new content has no recorded hash, a deleted file has none at all.
LEMMA TruthSurvives ==
    ASSUME ~Reverts, Typed,
           NEW f \in Files, WriteFile(f) \/ DeleteFile(f),
           NEW g \in Files,
           NEW h \in Nat, h <= newest,
           NEW r, h # 0 /\ h = fs[g] => r = fs[g]
    PROVE  h # 0 /\ h = fs'[g] => r = fs'[g]
<1> USE DEF Typed
<1>1. CASE DeleteFile(f)
  BY <1>1 DEF DeleteFile
<1>2. CASE WriteFile(f)
  <2>1. fs' = [fs EXCEPT ![f] = newest + 1]
    BY <1>2 DEF WriteFile, NewContents
  <2>2. fs'[g] = newest + 1 \/ fs'[g] = fs[g]
    BY <2>1
  <2> QED
    BY <2>2
<1> QED
  BY <1>1, <1>2

LEMMA StepCacheTruthful ==
    ASSUME ~Reverts
    PROVE  IInv /\ [Next]_vars => CacheTruthful'
<1> SUFFICES ASSUME IInv, [Next]_vars
             PROVE  CacheTruthful'
  OBVIOUS
<1> USE DEF IInv, Truth, CacheTruthful, Truthful, fileVars, storeVars,
            buildVars
<1>1. ASSUME NEW f \in Files, WriteFile(f) \/ DeleteFile(f)
      PROVE  CacheTruthful'
  <2> TAKE g \in Files
  <2>1. cache[g].hash \in Nat /\ cache[g].hash <= newest
    BY DEF Typed, HashesAreOld, Entries
  <2>2. cache[g].hash # 0 /\ cache[g].hash = fs'[g] => cache[g].parsed = fs'[g]
    BY <1>1, <2>1, TruthSurvives
  <2>3. cache' = cache
    BY <1>1 DEF WriteFile, DeleteFile
  <2> QED
    BY <2>2, <2>3
<1>2. CASE Tick \/ UNCHANGED vars
  BY <1>2 DEF Tick, vars
<1>3. CASE Looks
  BY <1>3, LooksOnly
<1>4. ASSUME NEW p \in Procs, NEW clean \in BOOLEAN, Begin(p, clean)
      PROVE  CacheTruthful'
  BY <1>4 DEF Begin, BeginBuild, NoCache
<1>5. ASSUME NEW p \in Procs, NEW f \in Files,
             \/ List(p) \/ LoadCache(p) \/ HashFile(p, f) \/ ParseFile(p, f)
             \/ WriteMeta(p) \/ WriteJson(p) \/ WriteIndex(p)
      PROVE  CacheTruthful'
  BY <1>5 DEF List, LoadCache, HashFile, ParseFile, WriteMeta, WriteJson,
              WriteIndex
<1>6. ASSUME NEW p \in Procs, WriteCache(p)
      PROVE  CacheTruthful'
  <2>1. \A f \in Files : Truthful(hashes[p][f], parsed[p][f], f)
    BY <1>6 DEF WriteCache, ResultsTruthful
  <2>2. /\ \A f \in Files : /\ cache'[f].hash = hashes[p][f]
                            /\ cache'[f].parsed = parsed[p][f]
        /\ fs' = fs
    BY <1>6 DEF WriteCache
  <2> QED
    BY <2>1, <2>2
<1>7. ASSUME NEW p \in Procs, EndsEarly(p)
      PROVE  CacheTruthful'
  BY <1>7, EndsEarlyOnly
<1>8. CASE Files = {}
  BY <1>8
<1> QED
  BY <1>1, <1>2, <1>3, <1>4, <1>5, <1>6, <1>7, <1>8, StepKinds

LEMMA StepPriorTruthful ==
    ASSUME ~Reverts
    PROVE  IInv /\ [Next]_vars => PriorTruthful'
<1> SUFFICES ASSUME IInv, [Next]_vars
             PROVE  PriorTruthful'
  OBVIOUS
<1> USE DEF IInv, Truth, PriorTruthful, Truthful, fileVars, storeVars,
            buildVars
<1>1. ASSUME NEW f \in Files, WriteFile(f) \/ DeleteFile(f)
      PROVE  PriorTruthful'
  <2> TAKE p \in Procs, g \in Files
  <2> DEFINE e == prior[p][g]
  <2>1. e.hash \in Nat /\ e.hash <= newest
    BY DEF Typed, HashesAreOld, Entries
  <2>2. e.hash # 0 /\ e.hash = fs'[g] => e.parsed = fs'[g]
    BY <1>1, <2>1, TruthSurvives
  <2>3. prior' = prior
    BY <1>1 DEF WriteFile, DeleteFile
  <2> QED
    BY <2>2, <2>3
<1>2. CASE Tick \/ UNCHANGED vars
  BY <1>2 DEF Tick, vars
<1>3. CASE Looks
  BY <1>3, LooksOnly
<1>4. ASSUME NEW p \in Procs, NEW clean \in BOOLEAN, Begin(p, clean)
      PROVE  PriorTruthful'
  BY <1>4 DEF Begin
<1>5. ASSUME NEW p \in Procs, NEW f \in Files,
             \/ List(p) \/ HashFile(p, f) \/ ParseFile(p, f)
             \/ WriteCache(p) \/ WriteMeta(p) \/ WriteJson(p) \/ WriteIndex(p)
      PROVE  PriorTruthful'
  BY <1>5 DEF List, HashFile, ParseFile, WriteCache, WriteMeta, WriteJson,
              WriteIndex
<1>6. ASSUME NEW p \in Procs, LoadCache(p)
      PROVE  PriorTruthful'
  <2>1. prior' = [prior EXCEPT ![p] = cache] /\ fs' = fs
    BY <1>6 DEF LoadCache
  <2>2. \A q \in Procs : prior'[q] = cache \/ prior'[q] = prior[q]
    BY <2>1 DEF Typed
  <2> QED
    BY <2>1, <2>2 DEF CacheTruthful
<1>7. ASSUME NEW p \in Procs, EndsEarly(p)
      PROVE  PriorTruthful'
  BY <1>7, EndsEarlyOnly
<1>8. CASE Files = {}
  BY <1>8
<1> QED
  BY <1>1, <1>2, <1>3, <1>4, <1>5, <1>6, <1>7, <1>8, StepKinds

LEMMA StepResultsTruthful ==
    ASSUME ~Reverts
    PROVE  IInv /\ [Next]_vars => ResultsTruthful'
<1> SUFFICES ASSUME IInv, [Next]_vars,
                    NEW p \in Procs, bpc'[p] = "parse",
                    NEW g \in Files \ todo'[p],
                    hashes'[p][g] # 0, hashes'[p][g] = fs'[g]
             PROVE  parsed'[p][g] = fs'[g]
  BY DEF ResultsTruthful, Truthful
<1> USE DEF IInv, Truth, ResultsTruthful, Truthful, fileVars, storeVars,
            buildVars
<1> DEFINE Before == /\ bpc[p] = "parse"
                     /\ g \in Files \ todo[p]
                     /\ hashes'[p][g] = hashes[p][g]
                     /\ parsed'[p][g] = parsed[p][g]
<1>0. ASSUME Before, fs' = fs
      PROVE  parsed'[p][g] = fs'[g]
  BY <1>0
<1> HIDE DEF ResultsTruthful
<1>1. ASSUME NEW f \in Files, WriteFile(f) \/ DeleteFile(f)
      PROVE  parsed'[p][g] = fs'[g]
  <2>1. Before
    BY <1>1 DEF WriteFile, DeleteFile
  <2>2. hashes[p][g] \in Nat /\ hashes[p][g] <= newest
    BY DEF Typed, HashesAreOld
  <2>3. hashes[p][g] # 0 /\ hashes[p][g] = fs[g] => parsed[p][g] = fs[g]
    BY <2>1 DEF ResultsTruthful
  <2>4. hashes[p][g] # 0 /\ hashes[p][g] = fs'[g] => parsed[p][g] = fs'[g]
    BY <1>1, <2>2, <2>3, TruthSurvives
  <2> QED
    BY <2>1, <2>4
<1>2. CASE Tick \/ UNCHANGED vars
  BY <1>0, <1>2 DEF Tick, vars
<1>3. CASE Looks
  BY <1>0, <1>3, LooksOnly
<1>4. ASSUME NEW q \in Procs, NEW clean \in BOOLEAN, Begin(q, clean)
      PROVE  parsed'[p][g] = fs'[g]
  BY <1>0, <1>4 DEF Begin, BeginBuild, Typed
<1>5. ASSUME NEW q \in Procs, List(q)
      PROVE  parsed'[p][g] = fs'[g]
  BY <1>0, <1>5 DEF List, Typed
<1>6. ASSUME NEW q \in Procs, LoadCache(q)
      PROVE  parsed'[p][g] = fs'[g]
  <2>1. CASE q = p
    BY <1>6, <2>1 DEF LoadCache, Typed
  <2>2. CASE q # p
    BY <1>0, <1>6, <2>2 DEF LoadCache, Typed
  <2> QED
    BY <2>1, <2>2
<1>7. ASSUME NEW q \in Procs, NEW f \in Files, HashFile(q, f)
      PROVE  parsed'[p][g] = fs'[g]
  BY <1>0, <1>7 DEF HashFile, Typed
<1>8. ASSUME NEW q \in Procs, NEW f \in Files, ParseFile(q, f)
      PROVE  parsed'[p][g] = fs'[g]
  <2>1. CASE q = p /\ f = g
    <3>1. /\ hashes' = hashes /\ fs' = fs
          /\ parsed'[p][g] = IF Reusable(p, g) THEN prior[p][g].parsed
                             ELSE fs[g]
      BY <1>8, <2>1 DEF ParseFile, Typed
    <3>2. Reusable(p, g) => prior[p][g].parsed = fs[g]
      BY <3>1 DEF Reusable, PriorTruthful
    <3> QED
      BY <3>1, <3>2
  <2>2. CASE q # p \/ f # g
    BY <1>0, <1>8, <2>2 DEF ParseFile, Typed
  <2> QED
    BY <2>1, <2>2
<1>9. ASSUME NEW q \in Procs, WriteCache(q) \/ WriteMeta(q) \/ WriteJson(q)
                              \/ WriteIndex(q)
      PROVE  parsed'[p][g] = fs'[g]
  BY <1>0, <1>9 DEF WriteCache, WriteMeta, WriteJson, WriteIndex, Typed
<1>10. ASSUME NEW q \in Procs, EndsEarly(q)
       PROVE  parsed'[p][g] = fs'[g]
  BY <1>0, <1>10, EndsEarlyOnly DEF Typed
<1> QED
  BY <1>1, <1>2, <1>3, <1>4, <1>5, <1>6, <1>7, <1>8, <1>9, <1>10, StepKinds

-----------------------------------------------------------------------------
(* A build that nobody disturbs makes progress.                            *)

LEMMA StepServerAtRest == IInv /\ [Next]_vars => ServerAtRest'
<1> SUFFICES ASSUME IInv, [Next]_vars
             PROVE  ServerAtRest'
  OBVIOUS
<1> USE DEF IInv, Typed, ServerAtRest, fileVars, buildVars, serverVars, Procs
<1>1. ASSUME NEW f \in Files, WriteFile(f) \/ DeleteFile(f)
      PROVE  ServerAtRest'
  BY <1>1 DEF WriteFile, DeleteFile
<1>2. CASE Tick \/ UNCHANGED vars
  BY <1>2 DEF Tick, vars
<1>3. CASE Looks
  BY <1>3, LooksOnly
<1>4. ASSUME NEW p \in Procs, NEW clean \in BOOLEAN, Begin(p, clean)
      PROVE  ServerAtRest'
  BY <1>4 DEF Begin, BeginBuild
<1>5. ASSUME NEW p \in Procs, NEW f \in Files, HashFile(p, f) \/ ParseFile(p, f)
      PROVE  ServerAtRest'
  BY <1>5 DEF HashFile, ParseFile
<1>6. ASSUME NEW p \in Procs, LoadCache(p) \/ List(p) \/ WriteCache(p)
                 \/ WriteMeta(p) \/ WriteJson(p) \/ WriteIndex(p)
      PROVE  ServerAtRest'
  BY <1>6 DEF List, LoadCache, WriteCache, WriteMeta, WriteJson, WriteIndex
<1>7. ASSUME NEW p \in Procs, EndsEarly(p)
      PROVE  ServerAtRest'
  BY <1>7, EndsEarlyOnly
<1> QED
  BY <1>1, <1>2, <1>3, <1>4, <1>5, <1>6, <1>7, StepKinds

LEMMA StepProgress == IInv /\ [Next]_vars => \A q \in Procs : Progress(q)'
<1> SUFFICES ASSUME IInv, [Next]_vars,
                    NEW q \in Procs, steady'[q]
             PROVE  Progress(q)'
  BY DEF Progress
<1> USE DEF fileVars, storeVars, buildVars
<1>t. Typed /\ Typed' /\ Progress(q)
  BY StepTyped DEF IInv
<1> DEFINE OwnState == <<bpc[q], todo[q], hashes[q], parsed[q]>>
<1> DEFINE Artifacts == <<fs, cache, meta, json, index.kind, index.graph>>
\* Nothing of this build changes, nor what it relies on.
<1>u. ASSUME UNCHANGED <<OwnState, Artifacts>>, steady[q]
      PROVE  Progress(q)'
  BY <1>t, <1>u
     DEF Progress, Hashed, Parsed, CacheWritten, MetaWritten, JsonWritten,
         IndexWritten, Existing
\* No step of the build is done yet, or it has ended.
<1>s. ASSUME bpc'[q] \in {"idle", "list"}
      PROVE  Progress(q)'
  BY <1>s DEF Progress
<1>1. ASSUME NEW f \in Files, WriteFile(f) \/ DeleteFile(f)
      PROVE  Progress(q)'
  <2>1. ~steady'[q]
    BY <1>1 DEF WriteFile, DeleteFile
  <2> QED
    BY <2>1
<1>2. CASE Tick \/ UNCHANGED vars
  BY <1>2, <1>u DEF Tick, vars
<1>3. CASE Looks
  <2>1. CASE q = Server
    <3>1. bpc'[q] = "idle"
      BY <1>3, <2>1, LooksOnly DEF IInv, ServerAtRest
    <3> QED
      BY <3>1, <1>s
  <2>2. CASE q # Server
    <3>1. steady[q]
      BY <1>3, <1>t, <2>2, LooksOnly DEF Typed
    <3> QED
      BY <1>3, <1>u, <3>1, LooksOnly
  <2> QED
    BY <2>1, <2>2
<1>4. ASSUME NEW p \in Procs, NEW clean \in BOOLEAN, Begin(p, clean)
      PROVE  Progress(q)'
  <2>1. CASE q = p
    <3>1. bpc'[q] = "list"
      BY <1>4, <1>t, <2>1 DEF Begin, BeginBuild, Typed
    <3> QED
      BY <3>1, <1>s
  <2>2. CASE q # p
    <3>1. steady[q] /\ ~DropsCache(clean)
      BY <1>4, <2>2 DEF Begin
    <3>2. UNCHANGED <<OwnState, Artifacts>>
      BY <1>4, <1>t, <2>2, <3>1 DEF Begin, BeginBuild, Typed
    <3> QED
      BY <1>u, <3>1, <3>2
  <2> QED
    BY <2>1, <2>2
\* A step of another process either leaves the artifacts alone or disturbs.
<1>o. ASSUME NEW p \in Procs, p # q,
             \/ List(p) \/ LoadCache(p) \/ EndsEarly(p)
             \/ \E f \in Files : HashFile(p, f) \/ ParseFile(p, f)
      PROVE  Progress(q)'
  <2>1. UNCHANGED <<steady, Artifacts>>
    BY <1>o, EndsEarlyOnly DEF List, LoadCache, HashFile, ParseFile
  <2>2. UNCHANGED OwnState
    BY <1>o, <1>t, EndsEarlyOnly
       DEF List, LoadCache, HashFile, ParseFile, Typed
  <2> QED
    BY <1>u, <2>1, <2>2
<1>d. ASSUME NEW p \in Procs,
             WriteCache(p) \/ WriteMeta(p) \/ WriteJson(p) \/ WriteIndex(p)
      PROVE  q = p /\ steady[q]
  BY <1>d DEF WriteCache, WriteMeta, WriteJson, WriteIndex, Disturbs
<1>5. ASSUME List(q)
      PROVE  Progress(q)'
  <2>1. /\ bpc'[q] = "hash" /\ todo'[q] = Existing /\ hashes'[q] = NoFiles
        /\ fs' = fs
    BY <1>5, <1>t DEF List, Typed
  <2>2. Hashed(q)'
    BY <2>1 DEF Hashed, NoFiles, Existing
  <2> QED
    BY <2>1, <2>2 DEF Progress
<1>6. ASSUME LoadCache(q)
      PROVE  Progress(q)'
  <2>1. /\ bpc[q] = "hash" /\ todo[q] = {} /\ bpc'[q] = "parse"
        /\ todo'[q] = {f \in Files : hashes[q][f] # 0}
        /\ parsed'[q] = NoFiles
        /\ UNCHANGED <<fs, hashes, steady>>
    BY <1>6, <1>t DEF LoadCache, Typed
  <2>2. \A f \in Files : hashes[q][f] = fs[f]
    BY <1>t, <2>1 DEF Progress, Hashed
  <2>3. hashes[q] = fs
    BY <1>t, <2>2 DEF Typed
  <2>4. Parsed(q)'
    BY <2>1, <2>3 DEF Parsed, Existing, NoFiles
  <2> QED
    BY <2>1, <2>4 DEF Progress
<1>7. ASSUME NEW f \in Files, HashFile(q, f)
      PROVE  Progress(q)'
  <2>1. /\ bpc'[q] = "hash" /\ bpc[q] = "hash"
        /\ todo'[q] = todo[q] \ {f}
        /\ hashes'[q] = [hashes[q] EXCEPT ![f] = fs[f]]
        /\ UNCHANGED <<fs, steady>>
    BY <1>7, <1>t DEF HashFile, Typed
  <2>2. Hashed(q)
    BY <1>t, <2>1 DEF Progress
  <2>3. Hashed(q)'
    BY <1>t, <2>1, <2>2 DEF Hashed, Existing, Typed
  <2> QED
    BY <2>1, <2>3 DEF Progress
<1>8. ASSUME NEW f \in Files, ParseFile(q, f)
      PROVE  Progress(q)'
  <2>1. /\ bpc'[q] = "parse" /\ bpc[q] = "parse" /\ f \in todo[q]
        /\ todo'[q] = todo[q] \ {f}
        /\ parsed'[q] = [parsed[q] EXCEPT
                           ![f] = IF Reusable(q, f) THEN prior[q][f].parsed
                                  ELSE fs[f]]
        /\ UNCHANGED <<fs, hashes, steady>>
    BY <1>8, <1>t DEF ParseFile, Typed
  <2>2. Parsed(q)
    BY <1>t, <2>1 DEF Progress
  <2>3. Reusable(q, f) => prior[q][f].parsed = fs[f]
    BY <2>1, <2>2
       DEF IInv, Truth, PriorTruthful, Truthful, Reusable, Parsed, Existing
  <2>4. parsed'[q] = [parsed[q] EXCEPT ![f] = fs[f]]
    BY <2>1, <2>3
  <2>5. Parsed(q)'
    BY <1>t, <2>1, <2>2, <2>4 DEF Parsed, Existing, Typed
  <2> QED
    BY <2>1, <2>5 DEF Progress
<1>9. ASSUME WriteCache(q)
      PROVE  Progress(q)'
  <2>1. /\ bpc[q] = "parse" /\ todo[q] = {} /\ bpc'[q] = "meta"
        /\ cache' = [f \in Files |-> [hash |-> hashes[q][f],
                                      parsed |-> parsed[q][f]]]
        /\ UNCHANGED <<fs, hashes, parsed>>
    BY <1>9, <1>t DEF WriteCache, Typed
  <2>2. hashes[q] = fs /\ \A f \in Files : parsed[q][f] = fs[f]
    BY <1>9, <1>d, <1>t, <2>1 DEF Progress, Parsed
  <2>3. parsed[q] = fs
    BY <1>t, <2>2 DEF Typed
  <2>4. CacheWritten(q)'
    BY <2>1, <2>2, <2>3 DEF CacheWritten
  <2> QED
    BY <2>1, <2>4 DEF Progress
<1>10. ASSUME WriteMeta(q)
       PROVE  Progress(q)'
  <2>1. /\ bpc[q] = "meta" /\ bpc'[q] = "json"
        /\ meta' = [kind |-> "ok", hash |-> hashes[q]]
        /\ UNCHANGED <<fs, cache, hashes, parsed>>
    BY <1>10, <1>t DEF WriteMeta, Typed
  <2>2. CacheWritten(q)
    BY <1>10, <1>d, <1>t, <2>1 DEF Progress
  <2>3. CacheWritten(q)' /\ MetaWritten'
    BY <2>1, <2>2 DEF CacheWritten, MetaWritten
  <2> QED
    BY <2>1, <2>3 DEF Progress
<1>11. ASSUME WriteJson(q)
       PROVE  Progress(q)'
  <2>1. /\ bpc[q] = "json" /\ bpc'[q] = "index"
        /\ json' = parsed[q]
        /\ UNCHANGED <<fs, cache, meta, hashes, parsed>>
    BY <1>11, <1>t DEF WriteJson, Typed
  <2>2. CacheWritten(q) /\ MetaWritten
    BY <1>11, <1>d, <1>t, <2>1 DEF Progress
  <2>3. CacheWritten(q)' /\ MetaWritten' /\ JsonWritten'
    BY <2>1, <2>2 DEF CacheWritten, MetaWritten, JsonWritten
  <2> QED
    BY <2>1, <2>3 DEF Progress
<1>12. ASSUME WriteIndex(q)
       PROVE  Progress(q)'
  <2>1. /\ bpc[q] = "index" /\ bpc'[q] = "done"
        /\ index'.kind = "ok" /\ index'.graph = parsed[q]
        /\ UNCHANGED <<fs, cache, meta, json, hashes, parsed>>
    BY <1>12, <1>t DEF WriteIndex, Typed
  <2>2. CacheWritten(q) /\ MetaWritten /\ JsonWritten
    BY <1>12, <1>d, <1>t, <2>1 DEF Progress
  <2>3. CacheWritten(q)' /\ MetaWritten' /\ JsonWritten' /\ IndexWritten'
    BY <2>1, <2>2 DEF CacheWritten, MetaWritten, JsonWritten, IndexWritten
  <2> QED
    BY <2>1, <2>3 DEF Progress
<1>13. ASSUME EndsEarly(q)
       PROVE  Progress(q)'
  <2>1. bpc'[q] = "idle"
    BY <1>13, <1>t, EndsEarlyOnly DEF Typed
  <2> QED
    BY <2>1, <1>s
<1> HIDE DEF OwnState, Artifacts
<1> QED
  BY <1>1, <1>2, <1>3, <1>4, <1>5, <1>6, <1>7, <1>8, <1>9, <1>10, <1>11,
     <1>12, <1>13, <1>o, <1>d, StepKinds

-----------------------------------------------------------------------------
LEMMA StepIInv ==
    ASSUME ~Reverts
    PROVE  IInv /\ [Next]_vars => IInv'
BY StepTyped, StepHashesAreOld, StepCacheTruthful, StepPriorTruthful,
   StepResultsTruthful, StepServerAtRest, StepProgress DEF IInv, Truth

\* As long as no content comes back, the inductive invariant holds in every
\* reachable state.
THEOREM InvariantHolds == ASSUME ~Reverts PROVE Spec => []IInv
<1>1. IInv /\ [Next]_vars => IInv'
  BY StepIInv
<1> QED
  BY <1>1, InitIInv, PTL DEF Spec

\* The parsed cache never pairs the hash of a file as it is with the parse
\* result of another content, whichever builds overlap or are stopped.
THEOREM CacheAlwaysTellsTruth ==
    ASSUME ~Reverts PROVE Spec => []CacheTellsTruth
<1>1. IInv => CacheTellsTruth
  BY DEF IInv, Truth, CacheTruthful, Truthful, CacheTellsTruth, Existing
<1> QED
  BY <1>1, InvariantHolds, PTL

\* A build that nobody disturbs leaves all four artifacts as a clean build
\* would, whatever was left behind before.
THEOREM RerunAlwaysRepairs ==
    ASSUME ~Reverts PROVE Spec => []RerunRepairs
<1>1. IInv => RerunRepairs
  BY DEF IInv, Progress, CacheWritten, MetaWritten, JsonWritten, IndexWritten,
         RerunRepairs
<1> QED
  BY <1>1, InvariantHolds, PTL

-----------------------------------------------------------------------------
(* Types.                                                                  *)

LEMMA ContentsAreNumbers == Contents \subseteq Nat /\ {0, 1} \subseteq Contents
BY ParametersOK DEF Contents

LEMMA BoundsAreNumbers ==
    MaxTime \in Nat /\ MaxRuns \in Nat /\ MaxStops \in Nat
BY ParametersOK

LEMMA InitTypeOK == Init => TypeOK
<1> SUFFICES ASSUME Init
             PROVE  TypeOK
  OBVIOUS
<1> USE ContentsAreNumbers, BoundsAreNumbers DEF Init, NoFiles, NoCache
<1>1. /\ fs \in [Files -> Contents] /\ mtime \in [Files -> 0 .. clock]
      /\ clock \in 0 .. MaxTime /\ newest \in Contents
      /\ cache \in [Files -> [hash : Contents, parsed : Contents]]
      /\ json \in [Files -> Contents]
  <2>1. clock = 0 /\ newest = 1 /\ 0 \in 0 .. clock
    OBVIOUS
  <2>2. clock \in 0 .. MaxTime
    BY <2>1
  <2> QED
    BY <2>1, <2>2
<1>2. /\ meta \in [kind : Kinds, hash : [Files -> Contents]]
      /\ index \in [kind : Kinds, graph : [Files -> Contents],
                    time : 0 .. clock]
  BY DEF Kinds
<1>3. /\ todo \in [Procs -> SUBSET Files]
      /\ hashes \in [Procs -> [Files -> Contents]]
      /\ prior \in [Procs -> [Files -> [hash : Contents, parsed : Contents]]]
      /\ parsed \in [Procs -> [Files -> Contents]]
      /\ steady \in [Procs -> BOOLEAN]
  OBVIOUS
<1>4. /\ probed \in [index : 0 .. clock, repo : 0 .. clock]
      /\ seen \in [Files -> Contents] /\ served \in [Files -> Contents]
      /\ runs \in 0 .. MaxRuns /\ stops \in 0 .. MaxStops
  OBVIOUS
<1> QED
  BY <1>1, <1>2, <1>3, <1>4 DEF TypeOK

LEMMA StepTypeOK == TypeOK /\ [Next]_vars => TypeOK'
<1> SUFFICES ASSUME TypeOK, [Next]_vars
             PROVE  TypeOK'
  OBVIOUS
<1> USE ContentsAreNumbers, BoundsAreNumbers
    DEF TypeOK, fileVars, storeVars, buildVars, serverVars
<1>1. ASSUME NEW f \in Files, WriteFile(f)
      PROVE  TypeOK'
  <2>1. PICK c \in NewContents :
             /\ fs' = [fs EXCEPT ![f] = c]
             /\ newest' = IF c > newest THEN c ELSE newest
    BY <1>1 DEF WriteFile
  <2>2. c \in Contents
    BY DEF NewContents
  <2>3. /\ fs' \in [Files -> Contents] /\ newest' \in Contents
        /\ mtime' \in [Files -> 0 .. clock]
    BY <1>1, <2>1, <2>2 DEF WriteFile
  <2>4. steady' \in [Procs -> BOOLEAN]
    BY <1>1 DEF WriteFile
  <2> QED
    BY <1>1, <2>3, <2>4 DEF WriteFile
<1>2. ASSUME NEW f \in Files, DeleteFile(f)
      PROVE  TypeOK'
  <2>1. steady' \in [Procs -> BOOLEAN]
    BY <1>2 DEF DeleteFile
  <2> QED
    BY <1>2, <2>1 DEF DeleteFile
<1>3. CASE Tick
  <2>1. clock' \in 0 .. MaxTime /\ 0 .. clock \subseteq 0 .. clock'
    BY <1>3 DEF Tick
  <2> QED
    BY <1>3, <2>1 DEF Tick
<1>4. ASSUME NEW p \in Procs, NEW clean \in BOOLEAN, BeginBuild(p, clean)
      PROVE  /\ bpc' \in [Procs -> BuildStates]
             /\ cache' \in [Files -> [hash : Contents, parsed : Contents]]
  <2>1. bpc' \in [Procs -> BuildStates]
    BY <1>4 DEF BeginBuild, BuildStates
  <2>2. NoCache \in [Files -> [hash : Contents, parsed : Contents]]
    BY DEF NoCache
  <2>3. cache' = NoCache \/ cache' = cache
    BY <1>4 DEF BeginBuild
  <2> QED
    BY <2>1, <2>2, <2>3
<1>5. ASSUME NEW b \in Builders, NEW clean \in BOOLEAN, StartBuild(b, clean)
      PROVE  TypeOK'
  <2>1. /\ bpc' \in [Procs -> BuildStates]
        /\ cache' \in [Files -> [hash : Contents, parsed : Contents]]
    <3>1. BeginBuild(b, clean)
      BY <1>5, Zenon DEF StartBuild
    <3>2. b \in Procs
      BY DEF Procs
    <3> QED
      BY <3>1, <3>2, <1>4, Zenon
  <2>2. steady' \in [Procs -> BOOLEAN]
    BY <1>5, Zenon DEF StartBuild
  <2>3. runs' \in 0 .. MaxRuns
    BY <1>5 DEF StartBuild
  <2> QED
    BY <1>5, <2>1, <2>2, <2>3 DEF StartBuild, BuildStates
<1>6. CASE Rebuild
  <2> DEFINE c == index.kind # "none" /\ verdict = "VersionMismatch"
  <2>1. PICK clean \in BOOLEAN :
             /\ BeginBuild(Server, clean)
             /\ steady' = [q \in Procs |->
                             q = Server \/ (steady[q] /\ ~DropsCache(clean))]
    <3>1. c \in BOOLEAN /\ BeginBuild(Server, c)
      BY <1>6 DEF Rebuild
    <3>2. steady' = [q \in Procs |->
                       q = Server \/ (steady[q] /\ ~DropsCache(c))]
      BY <1>6, Zenon DEF Rebuild
    <3> HIDE DEF c
    <3> QED
      BY <3>1, <3>2, Zenon
  <2>2. /\ bpc' \in [Procs -> BuildStates]
        /\ cache' \in [Files -> [hash : Contents, parsed : Contents]]
    <3>1. Server \in Procs
      BY DEF Procs
    <3> HIDE DEF TypeOK
    <3> QED
      BY <1>4, <2>1, <3>1
  <2>3. steady' \in [Procs -> BOOLEAN]
    BY <2>1, Zenon
  <2> QED
    BY <1>6, <2>2, <2>3 DEF Rebuild, BuildStates
<1>7. ASSUME NEW p \in Procs, List(p)
      PROVE  TypeOK'
  BY <1>7 DEF List, NoFiles, Existing
<1>8. ASSUME NEW p \in Procs, NEW f \in Files, HashFile(p, f)
      PROVE  TypeOK'
  BY <1>8 DEF HashFile
<1>9. ASSUME NEW p \in Procs, LoadCache(p)
      PROVE  TypeOK'
  <2>1. /\ prior' = [prior EXCEPT ![p] = cache]
        /\ parsed' = [parsed EXCEPT ![p] = NoFiles]
        /\ NoFiles \in [Files -> Contents]
    BY <1>9 DEF LoadCache, NoFiles
  <2>2. prior' \in [Procs -> [Files -> [hash : Contents, parsed : Contents]]]
    BY <2>1
  <2>3. parsed' \in [Procs -> [Files -> Contents]]
    BY <2>1
  <2>4. todo' \in [Procs -> SUBSET Files] /\ bpc' \in [Procs -> BuildStates]
    BY <1>9 DEF LoadCache, BuildStates
  <2> QED
    BY <1>9, <2>2, <2>3, <2>4 DEF LoadCache, BuildStates
<1>10. ASSUME NEW p \in Procs, NEW f \in Files, ParseFile(p, f)
       PROVE  TypeOK'
  <2>1. parsed' \in [Procs -> [Files -> Contents]]
    <3> DEFINE c == IF Reusable(p, f) THEN prior[p][f].parsed ELSE fs[f]
    <3>1. parsed' = [parsed EXCEPT ![p][f] = c]
      BY <1>10 DEF ParseFile
    <3>2. c \in Contents
      OBVIOUS
    <3> HIDE DEF c
    <3> QED
      BY <3>1, <3>2
  <2> QED
    BY <1>10, <2>1 DEF ParseFile
<1>11. ASSUME NEW p \in Procs, WriteCache(p)
       PROVE  TypeOK'
  <2>1. cache' \in [Files -> [hash : Contents, parsed : Contents]]
    BY <1>11 DEF WriteCache
  <2>2. steady' \in [Procs -> BOOLEAN]
    BY <1>11, Zenon DEF WriteCache, Disturbs
  <2> QED
    BY <1>11, <2>1, <2>2 DEF WriteCache
<1>12. ASSUME NEW p \in Procs, WriteMeta(p) \/ WriteJson(p)
       PROVE  TypeOK'
  <2>1. steady' \in [Procs -> BOOLEAN]
    BY <1>12, Zenon DEF WriteMeta, WriteJson, Disturbs
  <2> QED
    <3>1. CASE WriteMeta(p)
      <4>1. meta' \in [kind : Kinds, hash : [Files -> Contents]]
        BY <3>1 DEF WriteMeta, Kinds
      <4> QED
        BY <2>1, <3>1, <4>1 DEF WriteMeta
    <3>2. CASE WriteJson(p)
      BY <2>1, <3>2 DEF WriteJson
    <3> QED
      BY <1>12, <3>1, <3>2
<1>13. ASSUME NEW p \in Procs, WriteIndex(p)
       PROVE  TypeOK'
  <2>1. steady' \in [Procs -> BOOLEAN]
    BY <1>13, Zenon DEF WriteIndex, Disturbs
  <2>2. index' \in [kind : Kinds, graph : [Files -> Contents],
                    time : 0 .. clock]
    BY <1>13 DEF WriteIndex, Kinds
  <2>3. served' \in [Files -> Contents] /\ spc' \in {spc, "serving"}
    BY <1>13 DEF WriteIndex
  <2> QED
    BY <1>13, <2>1, <2>2, <2>3 DEF WriteIndex
<1>14. ASSUME NEW p \in Procs, FileVanished(p) \/ Stop(p)
       PROVE  TypeOK'
  <2>1. stops' \in 0 .. MaxStops
    BY <1>14 DEF FileVanished, Stop
  <2>2. Abandon(p) /\ bpc' \in [Procs -> BuildStates]
    BY <1>14 DEF FileVanished, Stop, Abandon, BuildStates
  <2> QED
    BY <2>1, <2>2 DEF Abandon, BuildStates
<1>15. CASE ProbeIndex
  <2>1. steady' \in [Procs -> BOOLEAN]
    BY <1>15 DEF ProbeIndex, Begins
  <2>2. probed' \in [index : 0 .. clock, repo : 0 .. clock]
    BY <1>15 DEF ProbeIndex
  <2> QED
    BY <1>15, <2>1, <2>2 DEF ProbeIndex
<1>16. CASE HashRepo
  <2> DEFINE Times == {0} \cup {mtime[f] : f \in Existing}
  <2>1. Times \subseteq 0 .. clock /\ Times # {}
    BY DEF Existing
  <2>2. Max(Times) \in 0 .. clock
    <3>1. clock \in Nat
      OBVIOUS
    <3> HIDE DEF Times, TypeOK
    <3> QED
      BY <2>1, <3>1, MaxOfBounded
  <2>3. probed' \in [index : 0 .. clock, repo : 0 .. clock]
    <3>1. probed' = [probed EXCEPT !.repo = Max(Times)]
      BY <1>16 DEF HashRepo
    <3> HIDE DEF Times
    <3> QED
      BY <2>2, <3>1
  <2> QED
    BY <1>16, <2>3 DEF HashRepo
<1>17. CASE Compare \/ Serve \/ Unreachable \/ Refuse
  BY <1>17 DEF Compare, Serve, Unreachable, Refuse
<1>18. CASE UNCHANGED vars
  BY <1>18 DEF vars
<1> HIDE DEF TypeOK
<1> QED
  BY <1>1, <1>2, <1>3, <1>5, <1>6, <1>7, <1>8, <1>9, <1>10, <1>11, <1>12,
     <1>13, <1>14, <1>15, <1>16, <1>17, <1>18
     DEF Next, BuildStep, ServerStep

\* The type invariant of the store, the builds and the server.
THEOREM TypesHold == Spec => []TypeOK
BY InitTypeOK, StepTypeOK, PTL DEF Spec

-----------------------------------------------------------------------------
(* index.bin and metadata.json come from one build.                        *)

\* Builds follow one another: there is one builder and the server only
\* reads, or there is the server alone.
Sequential ==
    \/ Builders = {}
    \/ ~AutoIndex /\ \A b, c \in Builders : b = c

\* What a build records says what its graph is worth: it holds the present
\* content of every file whose present content was hashed.
TellsOf(hash, graph, content) ==
    /\ hash = content => graph = content
    /\ hash = 0 => graph = 0
    /\ hash <= newest
Tells(hash, graph) == \A f \in Files : TellsOf(hash[f], graph[f], fs[f])

\* A build has replaced metadata.json and not yet index.bin.
Between(p) == bpc[p] \in {"json", "index"}
NobodyBetween == \A p \in Procs : ~Between(p)

ServerAlone == ~AutoIndex => bpc[Server] = "idle"
ServerBuilds == bpc[Server] \notin {"idle", "done"} => spc = "building"

NothingForNoFile ==
    \A p \in Procs : bpc[p] = "parse" =>
        \A f \in Files : /\ hashes[p][f] = 0 => parsed[p][f] = 0
                         /\ f \in todo[p] => hashes[p][f] # 0
ResultsTell ==
    \A p \in Procs : bpc[p] \in {"meta", "json", "index"} =>
        Tells(hashes[p], parsed[p])
MetaIsOfTheBuild ==
    \A p \in Procs : Between(p) =>
        meta = [kind |-> "ok", hash |-> hashes[p]]
StoreAgrees ==
    NobodyBetween /\ index.kind = "ok" =>
        meta.kind = "ok" /\ Tells(meta.hash, index.graph)

\* What the server knows while nobody else changes anything.
ServerSees ==
    steady[Server] =>
        /\ spc \in {"hash", "compare"} => index.kind = "ok"
        /\ spc = "compare" => seen = fs
        /\ spc = "decide" /\ verdict = "Current" =>
             index.kind = "ok" /\ ~Changed(fs)
        /\ spc = "serving" /\ NobodyBetween => served = fs

ServeInv ==
    /\ TypeOK /\ IInv
    /\ ServerAlone /\ ServerBuilds
    /\ NothingForNoFile /\ ResultsTell /\ MetaIsOfTheBuild /\ StoreAgrees
    /\ ServerSees

LEMMA InitServeInv == Init => ServeInv
<1> SUFFICES ASSUME Init
             PROVE  ServeInv
  OBVIOUS
<1>1. \A p \in Procs : bpc[p] = "idle"
  BY DEF Init
<1>2. spc = "idle" /\ index.kind # "ok"
  BY DEF Init
<1> QED
  BY <1>1, <1>2, InitTypeOK, InitIInv
     DEF ServeInv, ServerAlone, ServerBuilds, NothingForNoFile, ResultsTell,
         MetaIsOfTheBuild, StoreAgrees, ServerSees, Between, Procs

\* Two builds at work are the same build.
LEMMA BuildsAreSequential ==
    ASSUME Sequential, ServerAlone,
           NEW p \in Procs, NEW q \in Procs, bpc[p] # "idle", bpc[q] # "idle"
    PROVE  p = q
BY DEF Sequential, ServerAlone, Procs

\* A changed file gets a content no build has recorded.
LEMMA TellsSurvives ==
    ASSUME ~Reverts, TypeOK,
           NEW f \in Files, WriteFile(f) \/ DeleteFile(f),
           NEW hash \in [Files -> Nat], NEW graph, Tells(hash, graph)
    PROVE  \A g \in Files : /\ hash[g] = fs'[g] => graph[g] = fs'[g]
                            /\ hash[g] = 0 => graph[g] = 0
                            /\ hash[g] <= newest'
<1> USE ContentsAreNumbers DEF TypeOK, Tells, TellsOf
<1> TAKE g \in Files
<1>1. CASE DeleteFile(f)
  BY <1>1 DEF DeleteFile
<1>2. CASE WriteFile(f)
  <2>1. fs' = [fs EXCEPT ![f] = newest + 1] /\ newest' = newest + 1
    BY <1>2 DEF WriteFile, NewContents
  <2>2. fs'[g] = newest + 1 \/ fs'[g] = fs[g]
    BY <2>1
  <2>3. newest \in Nat /\ hash[g] \in Nat /\ hash[g] <= newest
    OBVIOUS
  <2> QED
    BY <2>1, <2>2, <2>3
<1> QED
  BY <1>1, <1>2

\* A build that nobody stops ends early only before it writes anything.
LEMMA EndsBeforeWriting ==
    ASSUME MaxStops = 0, TypeOK, NEW p \in Procs, EndsEarly(p)
    PROVE  bpc[p] \in {"hash", "parse"}
BY DEF EndsEarly, FileVanished, Stop, TypeOK

-----------------------------------------------------------------------------
(* Control of the server, and what a build has recorded so far.            *)

LEMMA StepServerAlone == ServeInv /\ [Next]_vars => ServerAlone' /\ ServerBuilds'
<1> SUFFICES ASSUME ServeInv, [Next]_vars
             PROVE  ServerAlone' /\ ServerBuilds'
  OBVIOUS
<1> USE DEF ServeInv, IInv, Typed, ServerAlone, ServerBuilds, fileVars,
            buildVars, serverVars, Procs
<1> HIDE DEF ServeInv
<1>t. /\ ServerAlone /\ ServerBuilds /\ ServerAtRest
      /\ Server \in Procs /\ bpc \in [Procs -> BuildStates]
  BY DEF ServeInv
<1>1. ASSUME NEW f \in Files, WriteFile(f) \/ DeleteFile(f) \/ Tick
      PROVE  ServerAlone' /\ ServerBuilds'
  BY <1>1, <1>t DEF WriteFile, DeleteFile, Tick
<1>2. CASE Tick \/ UNCHANGED vars
  BY <1>2, <1>t DEF Tick, vars
<1>3. CASE Looks
  BY <1>3, <1>t, LooksOnly DEF ServerAtRest
<1>4. ASSUME NEW b \in Builders, NEW clean \in BOOLEAN, StartBuild(b, clean)
      PROVE  ServerAlone' /\ ServerBuilds'
  BY <1>4, <1>t, ServerIsNoBuilder DEF StartBuild, BeginBuild
<1>5. CASE Rebuild
  BY <1>5, <1>t DEF Rebuild, BeginBuild
<1>6. ASSUME NEW p \in Procs, NEW f \in Files, HashFile(p, f) \/ ParseFile(p, f)
      PROVE  ServerAlone' /\ ServerBuilds'
  BY <1>6, <1>t DEF HashFile, ParseFile
<1>7. ASSUME NEW p \in Procs,
             \/ LoadCache(p) \/ List(p) \/ WriteCache(p) \/ WriteMeta(p)
             \/ WriteJson(p) \/ WriteIndex(p)
      PROVE  ServerAlone' /\ ServerBuilds'
  <2>1. bpc[p] \notin {"idle", "done"}
    BY <1>7 DEF List, LoadCache, WriteCache, WriteMeta, WriteJson, WriteIndex
  <2>2. CASE p = Server
    BY <1>7, <1>t, <2>1, <2>2
       DEF List, LoadCache, WriteCache, WriteMeta, WriteJson, WriteIndex
  <2>3. CASE p # Server
    BY <1>7, <1>t, <2>3
       DEF List, LoadCache, WriteCache, WriteMeta, WriteJson, WriteIndex
  <2> QED
    BY <2>2, <2>3
<1>8. ASSUME NEW p \in Procs, EndsEarly(p)
      PROVE  ServerAlone' /\ ServerBuilds'
  BY <1>8, <1>t, EndsEarlyOnly
<1> QED
  BY <1>1, <1>2, <1>3, <1>4, <1>5, <1>6, <1>7, <1>8
     DEF Next, BuildStep, ServerStep, Looks, EndsEarly

LEMMA StepNothingForNoFile ==
    ServeInv /\ [Next]_vars => NothingForNoFile'
<1> SUFFICES ASSUME ServeInv, [Next]_vars,
                    NEW p \in Procs, bpc'[p] = "parse", NEW g \in Files
             PROVE  /\ hashes'[p][g] = 0 => parsed'[p][g] = 0
                    /\ g \in todo'[p] => hashes'[p][g] # 0
  BY DEF NothingForNoFile
<1> DEFINE Goal == /\ hashes'[p][g] = 0 => parsed'[p][g] = 0
                   /\ g \in todo'[p] => hashes'[p][g] # 0
<1>i. IInv /\ Typed /\ NothingForNoFile
  BY DEF ServeInv, IInv
<1> USE DEF fileVars, storeVars, buildVars
\* Nothing of this build changes.
<1>u. ASSUME bpc[p] = "parse", hashes'[p] = hashes[p], parsed'[p] = parsed[p],
             todo'[p] = todo[p]
      PROVE  Goal
  BY <1>i, <1>u DEF NothingForNoFile
<1>1. ASSUME NEW f \in Files, WriteFile(f) \/ DeleteFile(f)
      PROVE  Goal
  BY <1>1, <1>u DEF WriteFile, DeleteFile
<1>2. CASE Tick \/ UNCHANGED vars
  BY <1>2, <1>u DEF Tick, vars
<1>3. CASE Looks
  BY <1>3, <1>u, LooksOnly
<1>4. ASSUME NEW q \in Procs, NEW clean \in BOOLEAN, Begin(q, clean)
      PROVE  Goal
  BY <1>4, <1>i, <1>u DEF Begin, BeginBuild, Typed
<1>5. ASSUME NEW q \in Procs, List(q)
      PROVE  Goal
  BY <1>5, <1>i, <1>u DEF List, Typed
<1>6. ASSUME NEW q \in Procs, LoadCache(q)
      PROVE  Goal
  <2>1. CASE q = p
    BY <1>6, <1>i, <2>1 DEF LoadCache, Typed, NoFiles
  <2>2. CASE q # p
    BY <1>6, <1>i, <1>u, <2>2 DEF LoadCache, Typed
  <2> QED
    BY <2>1, <2>2
<1>7. ASSUME NEW q \in Procs, NEW f \in Files, HashFile(q, f)
      PROVE  Goal
  BY <1>7, <1>i, <1>u DEF HashFile, Typed
<1>8. ASSUME NEW q \in Procs, NEW f \in Files, ParseFile(q, f)
      PROVE  Goal
  <2>1. CASE q = p
    <3>1. /\ bpc[p] = "parse" /\ f \in todo[p] /\ hashes' = hashes
          /\ todo'[p] = todo[p] \ {f}
          /\ g # f => parsed'[p][g] = parsed[p][g]
      BY <1>8, <1>i, <2>1 DEF ParseFile, Typed
    <3>2. hashes[p][f] # 0
      BY <1>i, <3>1 DEF NothingForNoFile
    <3> QED
      BY <1>i, <3>1, <3>2 DEF NothingForNoFile
  <2>2. CASE q # p
    BY <1>8, <1>i, <1>u, <2>2 DEF ParseFile, Typed
  <2> QED
    BY <2>1, <2>2
<1>9. ASSUME NEW q \in Procs, WriteCache(q) \/ WriteMeta(q) \/ WriteJson(q)
                              \/ WriteIndex(q)
      PROVE  Goal
  BY <1>9, <1>i, <1>u DEF WriteCache, WriteMeta, WriteJson, WriteIndex, Typed
<1>10. ASSUME NEW q \in Procs, EndsEarly(q)
       PROVE  Goal
  BY <1>10, <1>i, <1>u, EndsEarlyOnly DEF Typed
<1> QED
  BY <1>i, <1>1, <1>2, <1>3, <1>4, <1>5, <1>6, <1>7, <1>8, <1>9, <1>10,
     StepKinds

-----------------------------------------------------------------------------
(* Results, metadata and index.bin.                                        *)

LEMMA StepResultsTell ==
    ASSUME ~Reverts
    PROVE  ServeInv /\ [Next]_vars => ResultsTell'
<1> SUFFICES ASSUME ServeInv, [Next]_vars,
                    NEW p \in Procs, bpc'[p] \in {"meta", "json", "index"}
             PROVE  Tells(hashes[p], parsed[p])'
  BY DEF ResultsTell
<1>i. IInv /\ Typed /\ TypeOK /\ ResultsTell /\ NothingForNoFile
  BY DEF ServeInv, IInv
<1> USE DEF fileVars, storeVars, buildVars
<1>u. ASSUME bpc[p] \in {"meta", "json", "index"}, hashes'[p] = hashes[p],
             parsed'[p] = parsed[p], fs' = fs, newest' = newest
      PROVE  Tells(hashes[p], parsed[p])'
  BY <1>i, <1>u DEF ResultsTell, Tells, TellsOf
<1>1. ASSUME NEW f \in Files, WriteFile(f) \/ DeleteFile(f)
      PROVE  Tells(hashes[p], parsed[p])'
  <2>1. UNCHANGED <<bpc, hashes, parsed>>
    BY <1>1 DEF WriteFile, DeleteFile
  <2>2. Tells(hashes[p], parsed[p]) /\ hashes[p] \in [Files -> Nat]
    BY <1>i, <2>1 DEF ResultsTell, Typed
  <2>3. \A g \in Files : /\ hashes[p][g] = fs'[g] => parsed[p][g] = fs'[g]
                         /\ hashes[p][g] = 0 => parsed[p][g] = 0
                         /\ hashes[p][g] <= newest'
    BY <1>1, <1>i, <2>2, TellsSurvives
  <2> QED
    BY <2>1, <2>3 DEF Tells, TellsOf
<1>2. CASE Tick \/ UNCHANGED vars
  BY <1>2, <1>u DEF Tick, vars
<1>3. CASE Looks
  BY <1>3, <1>u, LooksOnly
<1>4. ASSUME NEW q \in Procs, NEW clean \in BOOLEAN, Begin(q, clean)
      PROVE  Tells(hashes[p], parsed[p])'
  BY <1>4, <1>i, <1>u DEF Begin, BeginBuild, Typed
<1>5. ASSUME NEW q \in Procs, List(q) \/ LoadCache(q)
      PROVE  Tells(hashes[p], parsed[p])'
  BY <1>5, <1>i, <1>u DEF List, LoadCache, Typed
<1>6. ASSUME NEW q \in Procs, NEW f \in Files, HashFile(q, f) \/ ParseFile(q, f)
      PROVE  Tells(hashes[p], parsed[p])'
  BY <1>6, <1>i, <1>u DEF HashFile, ParseFile, Typed
<1>7. ASSUME NEW q \in Procs, WriteCache(q)
      PROVE  Tells(hashes[p], parsed[p])'
  <2>1. CASE q = p
    <3>1. /\ bpc[p] = "parse" /\ todo[p] = {}
          /\ UNCHANGED <<fs, newest, hashes, parsed>>
      BY <1>7, <2>1 DEF WriteCache
    <3>2. ASSUME NEW g \in Files
          PROVE  TellsOf(hashes[p][g], parsed[p][g], fs[g])
      <4>1. Truthful(hashes[p][g], parsed[p][g], g)
        BY <1>i, <3>1 DEF IInv, Truth, ResultsTruthful
      <4>2. hashes[p][g] = 0 => parsed[p][g] = 0
        BY <1>i, <3>1 DEF NothingForNoFile
      <4>3. hashes[p][g] <= newest
        BY <1>i DEF IInv, HashesAreOld
      <4> QED
        BY <4>1, <4>2, <4>3 DEF Truthful, TellsOf
    <3> QED
      BY <3>1, <3>2 DEF Tells, TellsOf
  <2>2. CASE q # p
    BY <1>7, <1>i, <1>u, <2>2 DEF WriteCache, Typed
  <2> QED
    BY <2>1, <2>2
<1>8. ASSUME NEW q \in Procs, WriteMeta(q) \/ WriteJson(q) \/ WriteIndex(q)
      PROVE  Tells(hashes[p], parsed[p])'
  BY <1>8, <1>i, <1>u DEF WriteMeta, WriteJson, WriteIndex, Typed
<1>9. ASSUME NEW q \in Procs, EndsEarly(q)
      PROVE  Tells(hashes[p], parsed[p])'
  BY <1>9, <1>i, <1>u, EndsEarlyOnly DEF Typed
<1> QED
  BY <1>i, <1>1, <1>2, <1>3, <1>4, <1>5, <1>6, <1>7, <1>8, <1>9, StepKinds

LEMMA StepMetaIsOfTheBuild ==
    ASSUME Sequential
    PROVE  ServeInv /\ [Next]_vars => MetaIsOfTheBuild'
<1> SUFFICES ASSUME ServeInv, [Next]_vars,
                    NEW p \in Procs, Between(p)'
             PROVE  meta' = [kind |-> "ok", hash |-> hashes'[p]]
  BY DEF MetaIsOfTheBuild
<1>i. IInv /\ Typed /\ MetaIsOfTheBuild /\ ServerAlone
  BY DEF ServeInv, IInv
<1> USE DEF fileVars, storeVars, buildVars, Between
<1>u. ASSUME Between(p), hashes'[p] = hashes[p], meta' = meta
      PROVE  meta' = [kind |-> "ok", hash |-> hashes'[p]]
  BY <1>i, <1>u DEF MetaIsOfTheBuild
<1>1. ASSUME NEW f \in Files, WriteFile(f) \/ DeleteFile(f)
      PROVE  meta' = [kind |-> "ok", hash |-> hashes'[p]]
  BY <1>1, <1>u DEF WriteFile, DeleteFile
<1>2. CASE Tick \/ UNCHANGED vars
  BY <1>2, <1>u DEF Tick, vars
<1>3. CASE Looks
  BY <1>3, <1>u, LooksOnly
<1>4. ASSUME NEW q \in Procs, NEW clean \in BOOLEAN, Begin(q, clean)
      PROVE  meta' = [kind |-> "ok", hash |-> hashes'[p]]
  BY <1>4, <1>i, <1>u DEF Begin, BeginBuild, Typed
<1>5. ASSUME NEW q \in Procs, List(q) \/ LoadCache(q) \/ WriteCache(q)
      PROVE  meta' = [kind |-> "ok", hash |-> hashes'[p]]
  BY <1>5, <1>i, <1>u DEF List, LoadCache, WriteCache, Typed
<1>6. ASSUME NEW q \in Procs, NEW f \in Files, HashFile(q, f) \/ ParseFile(q, f)
      PROVE  meta' = [kind |-> "ok", hash |-> hashes'[p]]
  BY <1>6, <1>i, <1>u DEF HashFile, ParseFile, Typed
<1>7. ASSUME NEW q \in Procs, WriteMeta(q)
      PROVE  meta' = [kind |-> "ok", hash |-> hashes'[p]]
  <2>1. CASE q = p
    BY <1>7, <2>1 DEF WriteMeta
  <2>2. CASE q # p
    <3>1. bpc[q] # "idle" /\ bpc[p] # "idle"
      BY <1>7, <1>i, <2>2 DEF WriteMeta, Typed
    <3> QED
      BY <1>i, <2>2, <3>1, BuildsAreSequential
  <2> QED
    BY <2>1, <2>2
<1>8. ASSUME NEW q \in Procs, WriteJson(q) \/ WriteIndex(q)
      PROVE  meta' = [kind |-> "ok", hash |-> hashes'[p]]
  BY <1>8, <1>i, <1>u DEF WriteJson, WriteIndex, Typed
<1>9. ASSUME NEW q \in Procs, EndsEarly(q)
      PROVE  meta' = [kind |-> "ok", hash |-> hashes'[p]]
  BY <1>9, <1>i, <1>u, EndsEarlyOnly DEF Typed
<1> QED
  BY <1>i, <1>1, <1>2, <1>3, <1>4, <1>5, <1>6, <1>7, <1>8, <1>9, StepKinds

LEMMA StepStoreAgrees ==
    ASSUME ~Reverts, MaxStops = 0
    PROVE  ServeInv /\ [Next]_vars => StoreAgrees'
<1> SUFFICES ASSUME ServeInv, [Next]_vars, NobodyBetween', index'.kind = "ok"
             PROVE  meta'.kind = "ok" /\ Tells(meta.hash, index.graph)'
  BY DEF StoreAgrees
<1> DEFINE Goal == meta'.kind = "ok" /\ Tells(meta.hash, index.graph)'
<1>i. /\ IInv /\ Typed /\ TypeOK
      /\ StoreAgrees /\ MetaIsOfTheBuild /\ ResultsTell
  BY DEF ServeInv, IInv
<1> USE DEF fileVars, storeVars, buildVars, Between, NobodyBetween
<1>u. ASSUME NobodyBetween, UNCHANGED <<meta, index, fs, newest>>
      PROVE  Goal
  BY <1>i, <1>u DEF StoreAgrees, Tells, TellsOf
<1>1. ASSUME NEW f \in Files, WriteFile(f) \/ DeleteFile(f)
      PROVE  Goal
  <2>1. UNCHANGED <<bpc, meta, index>>
    BY <1>1 DEF WriteFile, DeleteFile
  <2>2. /\ meta.kind = "ok" /\ Tells(meta.hash, index.graph)
        /\ meta.hash \in [Files -> Nat]
    BY <1>i, <2>1, ContentsAreNumbers DEF StoreAgrees, TypeOK
  <2>3. \A g \in Files : /\ meta.hash[g] = fs'[g] => index.graph[g] = fs'[g]
                         /\ meta.hash[g] = 0 => index.graph[g] = 0
                         /\ meta.hash[g] <= newest'
    BY <1>1, <1>i, <2>2, TellsSurvives
  <2> QED
    BY <2>1, <2>2, <2>3 DEF Tells, TellsOf
<1>2. CASE Tick \/ UNCHANGED vars
  BY <1>2, <1>u DEF Tick, vars
<1>3. CASE Looks
  BY <1>3, <1>u, LooksOnly
<1>4. ASSUME NEW q \in Procs, NEW clean \in BOOLEAN, Begin(q, clean)
      PROVE  Goal
  BY <1>4, <1>i, <1>u DEF Begin, BeginBuild, Typed
<1>5. ASSUME NEW q \in Procs, List(q) \/ LoadCache(q) \/ WriteCache(q)
      PROVE  Goal
  BY <1>5, <1>i, <1>u DEF List, LoadCache, WriteCache, Typed
<1>6. ASSUME NEW q \in Procs, NEW f \in Files, HashFile(q, f) \/ ParseFile(q, f)
      PROVE  Goal
  BY <1>6, <1>i, <1>u DEF HashFile, ParseFile, Typed
<1>7. ASSUME NEW q \in Procs, WriteMeta(q) \/ WriteJson(q)
      PROVE  Goal
  <2>1. Between(q)'
    BY <1>7, <1>i DEF WriteMeta, WriteJson, Typed
  <2> QED
    BY <2>1
<1>8. ASSUME NEW q \in Procs, WriteIndex(q)
      PROVE  Goal
  <2>1. /\ bpc[q] = "index" /\ index'.graph = parsed[q]
        /\ UNCHANGED <<meta, fs, newest>>
    BY <1>8 DEF WriteIndex
  <2>2. meta = [kind |-> "ok", hash |-> hashes[q]]
    BY <1>i, <2>1 DEF MetaIsOfTheBuild
  <2>3. Tells(hashes[q], parsed[q])
    BY <1>i, <2>1 DEF ResultsTell
  <2>4. meta'.kind = "ok" /\ meta'.hash = hashes[q]
    BY <2>1, <2>2
  <2> QED
    BY <2>1, <2>3, <2>4 DEF Tells, TellsOf
<1>9. ASSUME NEW q \in Procs, EndsEarly(q)
      PROVE  Goal
  <2>1. bpc[q] \in {"hash", "parse"}
    BY <1>9, <1>i, EndsBeforeWriting
  <2>2. NobodyBetween
    BY <1>9, <1>i, <2>1, EndsEarlyOnly DEF Typed
  <2> QED
    BY <1>9, <1>u, <2>2, EndsEarlyOnly
<1> QED
  BY <1>i, <1>1, <1>2, <1>3, <1>4, <1>5, <1>6, <1>7, <1>8, <1>9, StepKinds

-----------------------------------------------------------------------------
(* What the server sees while nobody else changes anything.                *)

LEMMA StepServerSees ==
    ASSUME MaxStops = 0
    PROVE  ServeInv /\ [Next]_vars => ServerSees'
<1> SUFFICES ASSUME ServeInv, [Next]_vars, steady'[Server]
             PROVE  ServerSees'
  BY DEF ServerSees
<1>i. /\ IInv /\ Typed /\ TypeOK /\ Server \in Procs
      /\ ServerSees /\ ServerAtRest /\ ServerBuilds /\ StoreAgrees
  BY DEF ServeInv, IInv, Procs
<1> USE DEF fileVars, storeVars, buildVars, serverVars
\* The server does nothing, and who is between two artifacts stays there.
<1>u. ASSUME steady[Server], NobodyBetween' => NobodyBetween,
             UNCHANGED <<fs, meta, index, serverVars>>
      PROVE  ServerSees'
  BY <1>i, <1>u DEF ServerSees, Changed
<1>1. ASSUME NEW f \in Files, WriteFile(f) \/ DeleteFile(f)
      PROVE  ServerSees'
  BY <1>1, <1>i DEF WriteFile, DeleteFile
<1>2. CASE Tick \/ UNCHANGED vars
  BY <1>2, <1>u DEF Tick, vars, NobodyBetween, Between
<1>3. ASSUME NEW b \in Builders, NEW clean \in BOOLEAN, StartBuild(b, clean)
      PROVE  ServerSees'
  <2>1. steady[Server]
    BY <1>3, <1>i, ServerIsNoBuilder DEF StartBuild
  <2>2. NobodyBetween' => NobodyBetween
    BY <1>3, <1>i DEF StartBuild, BeginBuild, NobodyBetween, Between, Typed
  <2> QED
    BY <1>3, <1>u, <2>1, <2>2 DEF StartBuild
<1>4. ASSUME NEW p \in Procs, List(p) \/ LoadCache(p)
      PROVE  ServerSees'
  <2>1. NobodyBetween' => NobodyBetween
    BY <1>4, <1>i DEF List, LoadCache, NobodyBetween, Between, Typed
  <2> QED
    BY <1>4, <1>u, <2>1 DEF List, LoadCache
<1>5. ASSUME NEW p \in Procs, NEW f \in Files, HashFile(p, f) \/ ParseFile(p, f)
      PROVE  ServerSees'
  BY <1>5, <1>u DEF HashFile, ParseFile, NobodyBetween, Between
\* Only the server itself can write without disturbing the server.
<1>6. ASSUME NEW p \in Procs, WriteCache(p) \/ WriteMeta(p) \/ WriteJson(p)
      PROVE  ServerSees'
  <2>1. p = Server /\ bpc[p] \notin {"idle", "done"} /\ spc' = spc
    BY <1>6, <1>i DEF WriteCache, WriteMeta, WriteJson, Disturbs
  <2>2. spc' = "building"
    BY <1>i, <2>1 DEF ServerBuilds
  <2> QED
    BY <2>2 DEF ServerSees
<1>7. ASSUME NEW p \in Procs, WriteIndex(p)
      PROVE  ServerSees'
  <2>1. /\ p = Server /\ steady[Server] /\ bpc[Server] = "index"
        /\ spc' = "serving" /\ served' = parsed[Server] /\ fs' = fs
    BY <1>7, <1>i DEF WriteIndex, Disturbs
  <2>2. parsed[Server] = fs
    BY <1>i, <2>1 DEF IInv, Progress, CacheWritten
  <2> QED
    BY <2>1, <2>2 DEF ServerSees
<1>8. ASSUME NEW p \in Procs, EndsEarly(p)
      PROVE  ServerSees'
  <2>1. bpc[p] \in {"hash", "parse"}
    BY <1>8, <1>i, EndsBeforeWriting
  <2>2. NobodyBetween' => NobodyBetween
    BY <1>8, <1>i, <2>1, EndsEarlyOnly DEF NobodyBetween, Between, Typed
  <2>3. CASE p = Server
    BY <1>8, <2>3, EndsEarlyOnly DEF ServerSees
  <2>4. CASE p # Server
    BY <1>8, <1>u, <2>2, <2>4
       DEF EndsEarly, FileVanished, Stop, Abandon
  <2> QED
    BY <2>3, <2>4
<1>9. CASE ProbeIndex
  BY <1>9 DEF ProbeIndex, ServerSees
<1>10. CASE HashRepo
  BY <1>10, <1>i DEF HashRepo, ServerSees
<1>11. CASE Compare
  BY <1>11, <1>i DEF Compare, ServerSees, Changed
<1>12. CASE Serve
  <2>1. /\ spc' = "serving" /\ served' = index.graph
        /\ UNCHANGED <<fs, bpc>>
        /\ index.kind = "ok" /\ ~Changed(fs)
    BY <1>12, <1>i DEF Serve, ServerSees
  <2>2. ASSUME NobodyBetween
        PROVE  index.graph = fs
    <3>1. meta.kind = "ok" /\ Tells(meta.hash, index.graph)
      BY <1>i, <2>1, <2>2 DEF StoreAgrees
    <3>2. meta.hash = fs
      BY <2>1, <3>1 DEF Changed
    <3>3. \A f \in Files : index.graph[f] = fs[f]
      BY <3>1, <3>2 DEF Tells, TellsOf
    <3>4. /\ index.graph \in [Files -> Contents] /\ fs \in [Files -> Contents]
      BY <1>i DEF TypeOK
    <3> QED
      BY <3>3, <3>4
  <2> QED
    BY <2>1, <2>2 DEF ServerSees, NobodyBetween, Between
<1>13. CASE Unreachable \/ Refuse \/ Rebuild
  BY <1>13 DEF Unreachable, Refuse, Rebuild, ServerSees
<1> QED
  BY <1>1, <1>2, <1>3, <1>4, <1>5, <1>6, <1>7, <1>8, <1>9, <1>10, <1>11,
     <1>12, <1>13
     DEF Next, BuildStep, ServerStep, EndsEarly

\* The inductive invariant of a server among builds that follow one another
\* and complete.
THEOREM ServeInvariantHolds ==
    ASSUME ~Reverts, MaxStops = 0, Sequential
    PROVE  Spec => []ServeInv
<1>1. ServeInv /\ [Next]_vars => ServeInv'
  BY StepTypeOK, StepIInv, StepServerAlone, StepNothingForNoFile,
     StepResultsTell, StepMetaIsOfTheBuild, StepStoreAgrees, StepServerSees
     DEF ServeInv
<1> QED
  BY <1>1, InitServeInv, PTL DEF Spec

\* As long as no content comes back, and builds follow one another and
\* complete, a server that took the index for current serves the graph of
\* the files as they are, if nobody changed anything since it began to look
\* and no build is at work.
THEOREM ServesFresh ==
    ASSUME ~Reverts, MaxStops = 0, Sequential
    PROVE  Spec => []FreshWhenServed
<1>1. ServeInv => FreshWhenServed
  <2> SUFFICES ASSUME ServeInv, spc = "serving", steady[Server],
                      \A b \in Builders : bpc[b] \in {"idle", "done"}
               PROVE  served = fs
    BY DEF FreshWhenServed
  <2>1. NobodyBetween
    BY DEF ServeInv, ServerBuilds, NobodyBetween, Between, Procs
  <2> QED
    BY <2>1 DEF ServeInv, ServerSees
<1> QED
  BY <1>1, ServeInvariantHolds, PTL
=============================================================================

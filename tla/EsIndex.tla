------------------------------- MODULE EsIndex -------------------------------
(***************************************************************************)
(* The message index: versioned Elasticsearch indices behind a read and a  *)
(* write alias.  Every runtime that imports the search module bootstraps   *)
(* messages-v1 and the missing aliases at startup (IndexManagerService);   *)
(* the search-indexer writes through the write alias; es:reindex builds a  *)
(* new version and moves both aliases (EsReindexService).                  *)
(*                                                                         *)
(* Each request to Elasticsearch is one step, and any of them may fail.    *)
(* An index version n stands for messages-vn.  A document is written once  *)
(* or again with the same content, never deleted.                          *)
(***************************************************************************)
EXTENDS Integers, FiniteSets

CONSTANTS
    Docs,        \* documents, by message id
    Apis,        \* API processes: bootstrap failures are tolerated
    Workers,     \* search-indexer processes: bootstrap failures are fatal
    Reindexers,  \* runs of es:reindex
    MaxVersion   \* bound: the highest index version a run creates

ASSUME EsIndexAssumption ==
    /\ Apis \cap Workers = {}
    /\ IsFiniteSet(Docs)
    /\ MaxVersion \in Nat \ {0}

Runtimes == Apis \cup Workers
Versions == 1 .. MaxVersion

VARIABLES
    created,     \* index versions that exist
    docs,        \* the documents of each index
    readAlias,   \* indices behind messages-read
    writeAlias,  \* indices behind messages-write, with is_write_index
    boot,        \* the bootstrap of each runtime
    job          \* each es:reindex run

vars == <<created, docs, readAlias, writeAlias, boot, job>>

(* What search can find.                                                   *)
Searchable == UNION {docs[v] : v \in readAlias}

(* _count over the read alias counts a document once per index.            *)
ReadCount == Cardinality({x \in readAlias \X Docs : x[2] \in docs[x[1]]})

(* updateAliases applies all its actions or none.  It is refused when the  *)
(* write alias would get a second write index (external).  Removing an     *)
(* alias an index does not have is no error.                               *)
UpdateAliases(readers, writers) ==
    /\ Cardinality(writers) <= 1
    /\ readAlias' = readers
    /\ writeAlias' = writers

-----------------------------------------------------------------------------
(* IndexManagerService.onModuleInit.                                       *)

BootSteps == {"down", "exists", "create", "aliases", "up"}

AtBoot(r, step) == boot[r].step = step

Boot(r, step) == boot' = [boot EXCEPT ![r].step = step]

Start(r) ==
    /\ AtBoot(r, "down")
    /\ boot' = [boot EXCEPT ![r] =
                  [step |-> "exists", read |-> "?", write |-> "?"]]
    /\ UNCHANGED <<created, docs, readAlias, writeAlias, job>>

CheckIndex(r) ==
    /\ AtBoot(r, "exists")
    /\ Boot(r, IF 1 \in created THEN "aliases" ELSE "create")
    /\ UNCHANGED <<created, docs, readAlias, writeAlias, job>>

(* Mutant: whatever the error, the index is taken to exist.                *)
CreateMessagesIndexSwallowed(r) ==
    /\ AtBoot(r, "create")
    /\ created' \in {created, created \cup {1}}
    /\ Boot(r, "aliases")
    /\ UNCHANGED <<docs, readAlias, writeAlias, job>>

(* createMessagesIndex: an index that exists by now is as good.            *)
CreateMessagesIndex(r) ==
    /\ AtBoot(r, "create")
    /\ created' = created \cup {1}
    /\ Boot(r, "aliases")
    /\ UNCHANGED <<docs, readAlias, writeAlias, job>>

Answer(set) == IF set = {} THEN "missing" ELSE "exists"

(* ensureAliases asks for both aliases in parallel.                        *)
CheckReadAlias(r) ==
    /\ AtBoot(r, "aliases")
    /\ boot[r].read = "?"
    /\ boot' = [boot EXCEPT ![r].read = Answer(readAlias)]
    /\ UNCHANGED <<created, docs, readAlias, writeAlias, job>>

CheckWriteAlias(r) ==
    /\ AtBoot(r, "aliases")
    /\ boot[r].write = "?"
    /\ boot' = [boot EXCEPT ![r].write = Answer(writeAlias)]
    /\ UNCHANGED <<created, docs, readAlias, writeAlias, job>>

WithAdded(alias, answer) == IF answer = "missing" THEN alias \cup {1} ELSE alias

(* ... and adds those that answered 404, if any.                           *)
AddMissingAliases(r) ==
    /\ AtBoot(r, "aliases")
    /\ boot[r].read # "?" /\ boot[r].write # "?"
    /\ UpdateAliases(WithAdded(readAlias, boot[r].read),
                     WithAdded(writeAlias, boot[r].write))
    /\ Boot(r, "up")
    /\ UNCHANGED <<created, docs, job>>

(* Mutant: a worker that cannot bootstrap starts all the same.             *)
BootFailTolerated(r) ==
    /\ boot[r].step \in {"exists", "create", "aliases"}
    /\ Boot(r, "up")
    /\ UNCHANGED <<created, docs, readAlias, writeAlias, job>>

(* A request fails, or updateAliases is refused: the API starts anyway, a  *)
(* worker's startup fails.                                                 *)
BootFail(r) ==
    /\ boot[r].step \in {"exists", "create", "aliases"}
    /\ Boot(r, IF r \in Apis THEN "up" ELSE "down")
    /\ UNCHANGED <<created, docs, readAlias, writeAlias, job>>

(* The process stops or dies, to be started again.                         *)
Stop(r) ==
    /\ ~AtBoot(r, "down")
    /\ Boot(r, "down")
    /\ UNCHANGED <<created, docs, readAlias, writeAlias, job>>

(* EsMessageSearch.indexMessage, by a worker that is up.                   *)
IndexMessage(d) ==
    /\ \E r \in Workers : AtBoot(r, "up")
    /\ writeAlias # {}
    /\ docs' = [v \in Versions |-> IF v \in writeAlias THEN docs[v] \cup {d}
                                   ELSE docs[v]]
    /\ UNCHANGED <<created, readAlias, writeAlias, boot, job>>

-----------------------------------------------------------------------------
(* EsReindexService.reindex.                                               *)

NotAsked == {0}

NewJob == [step |-> "resolve", read |-> NotAsked, write |-> NotAsked,
           target |-> 1, count |-> 0, counted |-> {}, copied |-> {}]

AtJob(x, step) == job[x].step = step

Finished(x) == job' = [job EXCEPT ![x] = [NewJob EXCEPT !.step = "done"]]

(* The two alias lookups run in parallel.                                  *)
ResolveRead(x) ==
    /\ AtJob(x, "resolve")
    /\ job[x].read = NotAsked
    /\ job' = [job EXCEPT ![x].read = readAlias]
    /\ UNCHANGED <<created, docs, readAlias, writeAlias, boot>>

ResolveWrite(x) ==
    /\ AtJob(x, "resolve")
    /\ job[x].write = NotAsked
    /\ job' = [job EXCEPT ![x].write = writeAlias]
    /\ UNCHANGED <<created, docs, readAlias, writeAlias, boot>>

(* nextIndexVersion: one after the highest version behind the read alias.  *)
NextVersion(indices) == 1 + CHOOSE v \in indices : \A w \in indices : w <= v

(* No read alias: throw.  The target is --to, or the next version.         *)
ChooseTarget(x) ==
    /\ AtJob(x, "resolve")
    /\ job[x].read # NotAsked /\ job[x].write # NotAsked
    /\ IF job[x].read = {} THEN Finished(x)
       ELSE \E target \in Versions \cup {NextVersion(job[x].read)} :
              /\ target \in Versions
              /\ job' = [job EXCEPT ![x].step = "count", ![x].target = target]
    /\ UNCHANGED <<created, docs, readAlias, writeAlias, boot>>

(* `counted` is a history variable: the documents behind the count.        *)
CountSource(x) ==
    /\ AtJob(x, "count")
    /\ job' = [job EXCEPT ![x].step = "exists", ![x].count = ReadCount,
                          ![x].counted = Searchable]
    /\ UNCHANGED <<created, docs, readAlias, writeAlias, boot>>

(* A dry run ends here; so does a run whose target exists already.         *)
CheckTarget(x) ==
    /\ AtJob(x, "exists")
    /\ \/ Finished(x)
       \/ job[x].target \notin created /\ job' = [job EXCEPT ![x].step = "create"]
    /\ UNCHANGED <<created, docs, readAlias, writeAlias, boot>>

(* Creation fails when another run was faster.                             *)
CreateTarget(x) ==
    /\ AtJob(x, "create")
    /\ job[x].target \notin created
    /\ created' = created \cup {job[x].target}
    /\ job' = [job EXCEPT ![x].step = "snapshot"]
    /\ UNCHANGED <<docs, readAlias, writeAlias, boot>>

(* _reindex reads a snapshot of what the read alias serves when it starts  *)
(* and writes it to the target (external).                                 *)
Snapshot(x) ==
    /\ AtJob(x, "snapshot")
    /\ job' = [job EXCEPT ![x].step = "copy", ![x].copied = Searchable]
    /\ UNCHANGED <<created, docs, readAlias, writeAlias, boot>>

(* Mutant: the failures _reindex reports are not looked at.                *)
CopyPartly(x) ==
    /\ AtJob(x, "copy")
    /\ \E part \in SUBSET job[x].copied :
         docs' = [docs EXCEPT ![job[x].target] = @ \cup part]
    /\ job' = [job EXCEPT ![x].step = "verify"]
    /\ UNCHANGED <<created, readAlias, writeAlias, boot>>

(* A copy with failures is Abort; version conflicts, which it may ignore,  *)
(* do not arise in an index nobody else writes yet.                        *)
Copy(x) ==
    /\ AtJob(x, "copy")
    /\ docs' = [docs EXCEPT ![job[x].target] = @ \cup job[x].copied]
    /\ job' = [job EXCEPT ![x].step = "verify"]
    /\ UNCHANGED <<created, readAlias, writeAlias, boot>>

(* The target must hold as many documents as the source had when counted.  *)
Verify(x) ==
    /\ AtJob(x, "verify")
    /\ IF Cardinality(docs[job[x].target]) = job[x].count
       THEN job' = [job EXCEPT ![x].step = "swap"]
       ELSE Finished(x)
    /\ UNCHANGED <<created, docs, readAlias, writeAlias, boot>>

(* Mutant: the aliases are removed by one request and added by another.    *)
SwapAliasesInTwo(x) ==
    /\ AtJob(x, "swap")
    /\ IF readAlias \cap job[x].read # {}
       THEN /\ UpdateAliases(readAlias \ job[x].read, writeAlias \ job[x].write)
            /\ UNCHANGED job
       ELSE /\ UpdateAliases(readAlias \cup {job[x].target},
                             writeAlias \cup {job[x].target})
            /\ Finished(x)
    /\ UNCHANGED <<created, docs, boot>>

(* Mutant: only the read alias is moved.                                   *)
SwapReadAlias(x) ==
    /\ AtJob(x, "swap")
    /\ UpdateAliases((readAlias \ job[x].read) \cup {job[x].target}, writeAlias)
    /\ Finished(x)
    /\ UNCHANGED <<created, docs, boot>>

(* buildAliasSwapActions: both aliases move in one request, away from the  *)
(* indices resolved at the beginning.                                      *)
SwapAliases(x) ==
    /\ AtJob(x, "swap")
    /\ UpdateAliases((readAlias \ job[x].read) \cup {job[x].target},
                     (writeAlias \ job[x].write) \cup {job[x].target})
    /\ Finished(x)
    /\ UNCHANGED <<created, docs, boot>>

(* A request fails or reports failures, or the command is interrupted: the *)
(* target stays behind.                                                    *)
Abort(x) ==
    /\ ~AtJob(x, "done")
    /\ Finished(x)
    /\ UNCHANGED <<created, docs, readAlias, writeAlias, boot>>

-----------------------------------------------------------------------------
Init ==
    /\ created = {}
    /\ docs = [v \in Versions |-> {}]
    /\ readAlias = {}
    /\ writeAlias = {}
    /\ boot = [r \in Runtimes |-> [step |-> "down", read |-> "?", write |-> "?"]]
    /\ job = [x \in Reindexers |-> NewJob]

Bootstrap(r) ==
    \/ Start(r)
    \/ CheckIndex(r)
    \/ CreateMessagesIndex(r)
    \/ CheckReadAlias(r)
    \/ CheckWriteAlias(r)
    \/ AddMissingAliases(r)
    \/ BootFail(r)
    \/ Stop(r)

Reindex(x) ==
    \/ ResolveRead(x)
    \/ ResolveWrite(x)
    \/ ChooseTarget(x)
    \/ CountSource(x)
    \/ CheckTarget(x)
    \/ CreateTarget(x)
    \/ Snapshot(x)
    \/ Copy(x)
    \/ Verify(x)
    \/ SwapAliases(x)
    \/ Abort(x)

Next ==
    \/ \E r \in Runtimes : Bootstrap(r)
    \/ \E d \in Docs : IndexMessage(d)
    \/ \E x \in Reindexers : Reindex(x)

Spec == Init /\ [][Next]_vars

-----------------------------------------------------------------------------
(* Properties.                                                             *)

BootRecords == [step: BootSteps, read: {"?", "missing", "exists"},
                write: {"?", "missing", "exists"}]

JobRecords == [step: {"resolve", "count", "exists", "create", "snapshot",
                      "copy", "verify", "swap", "done"},
               read: SUBSET (0 .. MaxVersion), write: SUBSET (0 .. MaxVersion),
               target: Versions, count: Nat,
               counted: SUBSET Docs, copied: SUBSET Docs]

(* Types, and aliases name existing indices only.                          *)
TypeOK ==
    /\ created \in SUBSET Versions
    /\ docs \in [Versions -> SUBSET Docs]
    /\ readAlias \in SUBSET created
    /\ writeAlias \in SUBSET created
    /\ boot \in [Runtimes -> BootRecords]
    /\ job \in [Reindexers -> JobRecords]

(* Whatever is indexed is searchable: there is at most one write index,    *)
(* and it is behind the read alias, whatever runs race or abort.           *)
WritesAreSearchable ==
    Cardinality(writeAlias) <= 1 /\ writeAlias \subseteq readAlias

(* A worker consumes events only when there is a write alias to index      *)
(* into: its bootstrap succeeded, or its startup failed.                   *)
WorkerHasAliases ==
    (\E r \in Workers : AtBoot(r, "up")) => readAlias # {} /\ writeAlias # {}

(* The aliases come together, and what a runtime has learnt about them     *)
(* stays true: no step takes the last index from one.                      *)
AliasesTogether == readAlias = {} <=> writeAlias = {}

BootKnows(r) ==
    /\ AtBoot(r, "aliases") => 1 \in created
    /\ boot[r].read = "exists" => readAlias # {}
    /\ boot[r].write = "exists" => writeAlias # {}
    /\ r \in Workers /\ AtBoot(r, "up") => readAlias # {}

(* The target of a run that may still swap exists.                         *)
TargetExists(x) ==
    job[x].step \in {"snapshot", "copy", "verify", "swap"}
        => job[x].target \in created

(* The inductive invariant.                                                *)
AliasInv ==
    /\ TypeOK
    /\ WritesAreSearchable
    /\ AliasesTogether
    /\ \A r \in Runtimes : BootKnows(r)
    /\ \A x \in Reindexers : TargetExists(x)

(* "Atomically moves both": search is never without an index again once    *)
(* it had one.                                                             *)
SearchUninterrupted == [][readAlias # {} => readAlias' # {}]_vars

(* Documents that were searchable when the source was counted stay so      *)
(* after the swap.  The counts do not show it, two numbers of different    *)
(* times.  What does is that updateAliases is refused when another run has *)
(* moved the write alias since this one resolved it: it would be left with *)
(* two write indices.                                                      *)
SwapKeepsCounted ==
    [][\A x \in Reindexers :
         SwapAliases(x) => job[x].counted \subseteq Searchable']_vars

(* docs/runbooks/reindex-elasticsearch.md: the command "verifies           *)
(* source/target document counts" before it moves the aliases.  A swap     *)
(* leaves every searchable document searchable.                            *)
SwapLosesNothing ==
    [][\A x \in Reindexers :
         SwapAliases(x) => Searchable \subseteq Searchable']_vars

(* The same runbook: startup "does not move existing aliases. Operator-    *)
(* controlled alias swaps are therefore preserved across runtime restarts".*)
BootstrapKeepsAliases ==
    [][\A r \in Runtimes :
         AddMissingAliases(r) =>
           /\ readAlias # {} => readAlias' = readAlias
           /\ writeAlias # {} => writeAlias' = writeAlias]_vars

=============================================================================

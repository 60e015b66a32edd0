------------------------------- MODULE EsProofs -------------------------------
(* Proofs about the aliases, for any number of runtimes and reindexers.    *)
EXTENDS EsIndex, TLAPS, FiniteSetTheorems

(* No index, no alias and no job in the beginning.                         *)
LEMMA InvInit == Init => AliasInv
<1> SUFFICES ASSUME Init PROVE AliasInv
  OBVIOUS
<1>1. TypeOK
  BY EsIndexAssumption DEF Init, TypeOK, BootRecords, JobRecords, BootSteps,
                           NewJob, NotAsked, Versions
<1>2. WritesAreSearchable
  BY FS_EmptySet DEF Init, WritesAreSearchable
<1> QED
  BY <1>1, <1>2
     DEF Init, AliasInv, AliasesTogether, BootKnows, TargetExists, AtBoot, NewJob

(* updateAliases with one index among the writers leaves that one.         *)
LEMMA OneWriter ==
    ASSUME NEW S, IsFiniteSet(S), Cardinality(S) <= 1, NEW v \in S
    PROVE  S = {v}
<1>1. IsFiniteSet(S \ {v}) /\ Cardinality(S \ {v}) = Cardinality(S) - 1
  BY FS_RemoveElement
<1>2. Cardinality(S \ {v}) = 0
  BY <1>1, FS_CardinalityType
<1> QED
  BY <1>1, <1>2, FS_EmptySet

(* There are finitely many versions.                                       *)
LEMMA VersionsFinite == IsFiniteSet(Versions)
BY EsIndexAssumption, FS_Interval DEF Versions

(* The counts are numbers.                                                 *)
LEMMA CountType == TypeOK => ReadCount \in Nat
<1> SUFFICES ASSUME TypeOK PROVE ReadCount \in Nat
  OBVIOUS
<1>1. IsFiniteSet(readAlias)
  BY VersionsFinite, FS_Subset DEF TypeOK
<1>2. IsFiniteSet(readAlias \X Docs)
  BY <1>1, EsIndexAssumption, FS_Product
<1>3. IsFiniteSet({x \in readAlias \X Docs : x[2] \in docs[x[1]]})
  BY <1>2, FS_Subset
<1> QED
  BY <1>3, FS_CardinalityType DEF ReadCount

(* What a run writes into its job record is well typed.                    *)
LEMMA JobParts ==
    ASSUME TypeOK
    PROVE  /\ readAlias \in SUBSET (0 .. MaxVersion)
           /\ writeAlias \in SUBSET (0 .. MaxVersion)
           /\ Searchable \in SUBSET Docs
           /\ ReadCount \in Nat
           /\ [NewJob EXCEPT !.step = "done"] \in JobRecords
<1>1. Versions \subseteq 0 .. MaxVersion
  BY EsIndexAssumption DEF Versions
<1>2. [NewJob EXCEPT !.step = "done"] \in JobRecords
  BY EsIndexAssumption DEF NewJob, NotAsked, JobRecords, Versions
<1> QED
  BY <1>1, <1>2, CountType DEF TypeOK, Searchable

(* The steps of a run of es:reindex keep the types.                        *)
LEMMA JobTypes ==
    ASSUME AliasInv, NEW x \in Reindexers, Reindex(x)
    PROVE  TypeOK'
<1> USE JobParts DEF AliasInv, AtJob, Finished
<1>1. /\ job[x] \in JobRecords
      /\ job[x].target \in Versions
      /\ job[x].copied \in SUBSET Docs
  BY DEF TypeOK, JobRecords
<1>2. ASSUME NEW j \in JobRecords, job' = [job EXCEPT ![x] = j]
      PROVE  job' \in [Reindexers -> JobRecords]
  BY <1>2 DEF TypeOK
<1>3. CASE ResolveRead(x)
  <2>1. [job[x] EXCEPT !.read = readAlias] \in JobRecords
    BY <1>1 DEF JobRecords
  <2> QED
    BY <1>1, <1>2, <1>3, <2>1 DEF ResolveRead, TypeOK
<1>4. CASE ResolveWrite(x)
  <2>1. [job[x] EXCEPT !.write = writeAlias] \in JobRecords
    BY <1>1 DEF JobRecords
  <2> QED
    BY <1>1, <1>2, <1>4, <2>1 DEF ResolveWrite, TypeOK
<1>5. CASE ChooseTarget(x)
  <2>1. \A t \in Versions :
          [job[x] EXCEPT !.step = "count", !.target = t] \in JobRecords
    BY <1>1 DEF JobRecords
  <2> QED
    BY <1>2, <1>5, <2>1 DEF ChooseTarget, TypeOK
<1>6. CASE CountSource(x)
  <2>1. [job[x] EXCEPT !.step = "exists", !.count = ReadCount,
                        !.counted = Searchable] \in JobRecords
    BY <1>1 DEF JobRecords
  <2> QED
    BY <1>1, <1>2, <1>6, <2>1 DEF CountSource, TypeOK
<1>7. CASE CheckTarget(x)
  <2>1. [job[x] EXCEPT !.step = "create"] \in JobRecords
    BY <1>1 DEF JobRecords
  <2> QED
    BY <1>2, <1>7, <2>1 DEF CheckTarget, TypeOK
<1>8. CASE CreateTarget(x)
  <2>1. [job[x] EXCEPT !.step = "snapshot"] \in JobRecords
    BY <1>1 DEF JobRecords
  <2> QED
    BY <1>1, <1>2, <1>8, <2>1 DEF CreateTarget, TypeOK
<1>9. CASE Snapshot(x)
  <2>1. [job[x] EXCEPT !.step = "copy", !.copied = Searchable] \in JobRecords
    BY <1>1 DEF JobRecords
  <2> QED
    BY <1>1, <1>2, <1>9, <2>1 DEF Snapshot, TypeOK
<1>10. CASE Copy(x)
  <2>1. [job[x] EXCEPT !.step = "verify"] \in JobRecords
    BY <1>1 DEF JobRecords
  <2> QED
    BY <1>1, <1>2, <1>10, <2>1 DEF Copy, TypeOK
<1>11. CASE Verify(x)
  <2>1. [job[x] EXCEPT !.step = "swap"] \in JobRecords
    BY <1>1 DEF JobRecords
  <2> QED
    BY <1>2, <1>11, <2>1 DEF Verify, TypeOK
<1>12. CASE SwapAliases(x)
  <2>1. job[x].target \in created
    BY <1>12 DEF SwapAliases, TargetExists
  <2> QED
    BY <1>2, <1>12, <2>1 DEF SwapAliases, UpdateAliases, TypeOK
<1>13. CASE Abort(x)
  BY <1>2, <1>13 DEF Abort, TypeOK
<1> QED
  BY <1>3, <1>4, <1>5, <1>6, <1>7, <1>8, <1>9, <1>10, <1>11, <1>12,
     <1>13 DEF Reindex

(* The steps of a starting runtime keep the types.                         *)
LEMMA BootTypes ==
    ASSUME AliasInv, NEW r \in Runtimes, Bootstrap(r)
    PROVE  TypeOK'
<1> USE DEF AliasInv, AtBoot, Boot
<1>1. boot[r] \in BootRecords /\ 1 \in Versions
  BY EsIndexAssumption DEF TypeOK, Versions
<1>2. /\ \A s \in BootSteps : [boot[r] EXCEPT !.step = s] \in BootRecords
      /\ \A a \in {"missing", "exists"} :
           /\ [boot[r] EXCEPT !.read = a] \in BootRecords
           /\ [boot[r] EXCEPT !.write = a] \in BootRecords
      /\ [step |-> "exists", read |-> "?", write |-> "?"] \in BootRecords
  BY <1>1 DEF BootRecords, BootSteps
<1>3. ASSUME NEW b \in BootRecords, boot' = [boot EXCEPT ![r] = b]
      PROVE  boot' \in [Runtimes -> BootRecords]
  BY <1>3 DEF TypeOK
<1>4. ASSUME NEW s \in BootSteps, boot' = [boot EXCEPT ![r].step = s]
      PROVE  boot' \in [Runtimes -> BootRecords]
  BY <1>2, <1>3, <1>4
<1>5. CASE Start(r)
  <2>1. boot' \in [Runtimes -> BootRecords]
    BY <1>2, <1>3, <1>4, <1>5 DEF Start
  <2> QED
    BY <1>1, <1>5, <2>1 DEF Start, TypeOK
<1>6. CASE CheckIndex(r)
  <2>1. boot' \in [Runtimes -> BootRecords]
    BY <1>2, <1>3, <1>4, <1>6 DEF CheckIndex, BootSteps
  <2> QED
    BY <1>1, <1>6, <2>1 DEF CheckIndex, TypeOK
<1>7. CASE CreateMessagesIndex(r)
  <2>1. boot' \in [Runtimes -> BootRecords]
    BY <1>2, <1>3, <1>4, <1>7 DEF CreateMessagesIndex, BootSteps
  <2> QED
    BY <1>1, <1>7, <2>1 DEF CreateMessagesIndex, TypeOK
<1>8. CASE CheckReadAlias(r)
  <2>1. boot' \in [Runtimes -> BootRecords]
    BY <1>2, <1>3, <1>4, <1>8 DEF CheckReadAlias, Answer
  <2> QED
    BY <1>1, <1>8, <2>1 DEF CheckReadAlias, TypeOK
<1>9. CASE CheckWriteAlias(r)
  <2>1. boot' \in [Runtimes -> BootRecords]
    BY <1>2, <1>3, <1>4, <1>9 DEF CheckWriteAlias, Answer
  <2> QED
    BY <1>1, <1>9, <2>1 DEF CheckWriteAlias, TypeOK
<1>10. CASE AddMissingAliases(r)
  <2>1. 1 \in created
    BY <1>10 DEF AddMissingAliases, BootKnows
  <2>2. readAlias' \in SUBSET created /\ writeAlias' \in SUBSET created
    BY <1>10, <2>1 DEF AddMissingAliases, UpdateAliases, WithAdded, TypeOK
  <2>3. boot' \in [Runtimes -> BootRecords]
    BY <1>4, <1>10 DEF AddMissingAliases, BootSteps
  <2> QED
    BY <1>10, <2>2, <2>3 DEF AddMissingAliases, TypeOK
<1>11. CASE BootFail(r)
  <2>1. boot' \in [Runtimes -> BootRecords]
    BY <1>2, <1>3, <1>4, <1>11 DEF BootFail, BootSteps
  <2> QED
    BY <1>1, <1>11, <2>1 DEF BootFail, TypeOK
<1>12. CASE Stop(r)
  <2>1. boot' \in [Runtimes -> BootRecords]
    BY <1>2, <1>3, <1>4, <1>12 DEF Stop, BootSteps
  <2> QED
    BY <1>1, <1>12, <2>1 DEF Stop, TypeOK
<1> QED
  BY <1>5, <1>6, <1>7, <1>8, <1>9, <1>10, <1>11, <1>12 DEF Bootstrap

(* Indexing keeps the types.                                               *)
LEMMA IndexTypes ==
    ASSUME TypeOK, NEW d \in Docs, IndexMessage(d)
    PROVE  TypeOK'
BY DEF TypeOK, IndexMessage

(* How a step may change the aliases: both as they were, the missing ones  *)
(* of a bootstrap added, or both moved to the target of a swap.            *)
AliasStep ==
    \/ UNCHANGED <<readAlias, writeAlias>>
    \/ \E r \in Runtimes : AddMissingAliases(r)
    \/ \E x \in Reindexers : SwapAliases(x)

(* There is no other way.                                                  *)
LEMMA AliasCases == [Next]_vars => AliasStep
BY DEF AliasStep, Next, Bootstrap, Reindex, vars, Start, CheckIndex,
       CreateMessagesIndex, CheckReadAlias, CheckWriteAlias, BootFail, Stop,
       IndexMessage, ResolveRead, ResolveWrite, ChooseTarget, CountSource,
       CheckTarget, CreateTarget, Snapshot, Copy, Verify, Abort

(* A swap leaves the target as the only write index.                       *)
LEMMA SwapResult ==
    ASSUME AliasInv, NEW x \in Reindexers, SwapAliases(x)
    PROVE  /\ writeAlias' = {job[x].target}
           /\ job[x].target \in readAlias'
<1>1. writeAlias' \subseteq Versions
  BY JobTypes DEF Reindex, TypeOK
<1>2. IsFiniteSet(writeAlias')
  BY <1>1, VersionsFinite, FS_Subset
<1> QED
  BY <1>2, OneWriter DEF SwapAliases, UpdateAliases

(* A bootstrap leaves messages-v1 as the only write index or the write     *)
(* alias alone.                                                            *)
LEMMA AddResult ==
    ASSUME AliasInv, NEW r \in Runtimes, AddMissingAliases(r)
    PROVE  /\ readAlias' \in {readAlias, readAlias \cup {1}}
           /\ writeAlias \subseteq writeAlias'
           /\ \/ writeAlias' = writeAlias /\ writeAlias # {}
              \/ writeAlias' = {1}
           /\ boot[r].read = "missing" => 1 \in readAlias'
           /\ boot[r].write = "missing" => writeAlias' = {1}
           /\ boot[r].read # "missing" => boot[r].read = "exists"
           /\ boot[r].write # "missing" => boot[r].write = "exists"
<1>1. /\ boot[r].read \in {"missing", "exists"}
      /\ boot[r].write \in {"missing", "exists"}
  BY DEF AliasInv, TypeOK, BootRecords, AddMissingAliases
<1>2. writeAlias' \subseteq Versions
  BY BootTypes DEF Bootstrap, TypeOK
<1>3. IsFiniteSet(writeAlias')
  BY <1>2, VersionsFinite, FS_Subset
<1>4. boot[r].write = "missing" => writeAlias' = {1}
  BY <1>3, OneWriter DEF AddMissingAliases, UpdateAliases, WithAdded
<1> QED
  BY <1>1, <1>4
     DEF AddMissingAliases, UpdateAliases, WithAdded, AliasInv, BootKnows

(* Whatever moves an alias keeps the write index searchable and the        *)
(* aliases together, and takes the last index from neither.                *)
LEMMA AliasesStep ==
    ASSUME AliasInv, [Next]_vars
    PROVE  /\ WritesAreSearchable' /\ AliasesTogether'
           /\ readAlias # {} => readAlias' # {}
<1> USE DEF WritesAreSearchable, AliasesTogether
<1>1. \A v : Cardinality({v}) <= 1
  <2>1. \A v : Cardinality({v}) = 1
    BY FS_Singleton
  <2> QED
    BY <2>1
<1>2. CASE UNCHANGED <<readAlias, writeAlias>>
  BY <1>2 DEF AliasInv
<1>3. ASSUME NEW r \in Runtimes, AddMissingAliases(r)
      PROVE  /\ WritesAreSearchable' /\ AliasesTogether'
             /\ readAlias # {} => readAlias' # {}
  <2>1. CASE boot[r].write = "missing" /\ boot[r].read = "exists"
    <3>1. readAlias # {}
      BY <2>1 DEF AliasInv, BootKnows
    <3>2. writeAlias = {1}
      BY <1>3, <2>1, <3>1, AddResult DEF AliasInv
    <3> QED
      BY <1>1, <1>3, <2>1, <3>1, <3>2, AddResult DEF AliasInv
  <2>2. CASE boot[r].write = "missing" /\ boot[r].read = "missing"
    BY <1>1, <1>3, <2>2, AddResult DEF AliasInv
  <2>3. CASE boot[r].write = "exists"
    <3>1. writeAlias # {} /\ writeAlias' = writeAlias
      BY <1>3, <2>3 DEF AliasInv, BootKnows, AddMissingAliases, UpdateAliases,
                        WithAdded
    <3> QED
      BY <1>3, <3>1, AddResult DEF AliasInv
  <2> QED
    BY <1>3, <2>1, <2>2, <2>3, AddResult
<1>4. ASSUME NEW x \in Reindexers, SwapAliases(x)
      PROVE  /\ WritesAreSearchable' /\ AliasesTogether'
             /\ readAlias # {} => readAlias' # {}
  BY <1>1, <1>4, SwapResult
<1> QED
  BY <1>2, <1>3, <1>4, AliasCases DEF AliasStep

(* Indices are never deleted.                                              *)
LEMMA CreatedGrows == [Next]_vars => created \subseteq created'
BY DEF Next, Bootstrap, Reindex, vars, Start, CheckIndex, CreateMessagesIndex,
       CheckReadAlias, CheckWriteAlias, AddMissingAliases, BootFail, Stop,
       IndexMessage, ResolveRead, ResolveWrite, ChooseTarget, CountSource,
       CheckTarget, CreateTarget, Snapshot, Copy, Verify, SwapAliases, Abort

(* What runtimes have learnt stays true.                                   *)
LEMMA KnowsStep ==
    ASSUME AliasInv, [Next]_vars
    PROVE  \A q \in Runtimes : BootKnows(q)'
<1> USE DEF AtBoot, Boot
<1>1. /\ readAlias # {} => readAlias' # {}
      /\ writeAlias # {} => writeAlias' # {}
      /\ readAlias' = {} <=> writeAlias' = {}
      /\ created \subseteq created'
  BY AliasesStep, CreatedGrows DEF AliasInv, AliasesTogether
<1>2. boot \in [Runtimes -> BootRecords]
  BY DEF AliasInv, TypeOK
<1>3. \A q \in Runtimes : boot'[q] = boot[q] => BootKnows(q)'
  BY <1>1 DEF AliasInv, BootKnows
<1>4. CASE UNCHANGED boot
  BY <1>3, <1>4
<1>5. ASSUME NEW r \in Runtimes, Bootstrap(r) PROVE BootKnows(r)'
  <2>1. BootKnows(r)
    BY DEF AliasInv
  <2>2. CASE Start(r)
    BY <1>1, <1>2, <2>1, <2>2 DEF Start, BootKnows, BootRecords
  <2>3. CASE CheckIndex(r)
    BY <1>1, <1>2, <2>1, <2>3 DEF CheckIndex, BootKnows, BootRecords
  <2>4. CASE CreateMessagesIndex(r)
    BY <1>1, <1>2, <2>1, <2>4 DEF CreateMessagesIndex, BootKnows, BootRecords
  <2>5. CASE CheckReadAlias(r)
    BY <1>1, <1>2, <2>1, <2>5 DEF CheckReadAlias, Answer, BootKnows, BootRecords
  <2>6. CASE CheckWriteAlias(r)
    BY <1>1, <1>2, <2>1, <2>6 DEF CheckWriteAlias, Answer, BootKnows, BootRecords
  <2>7. CASE AddMissingAliases(r)
    <3>1. writeAlias' # {}
      BY <2>7, AddResult
    <3> QED
      BY <1>1, <1>2, <2>1, <2>7, <3>1 DEF AddMissingAliases, BootKnows, BootRecords
  <2>8. CASE BootFail(r)
    BY <1>1, <1>2, <2>1, <2>8, EsIndexAssumption DEF BootFail, BootKnows, BootRecords
  <2>9. CASE Stop(r)
    BY <1>1, <1>2, <2>1, <2>9 DEF Stop, BootKnows, BootRecords
  <2> QED
    BY <1>5, <2>2, <2>3, <2>4, <2>5, <2>6, <2>7, <2>8, <2>9 DEF Bootstrap
<1>6. ASSUME NEW r \in Runtimes, Bootstrap(r), NEW q \in Runtimes, q # r
      PROVE  boot'[q] = boot[q]
  BY <1>2, <1>6
     DEF Bootstrap, Start, CheckIndex, CreateMessagesIndex, CheckReadAlias,
         CheckWriteAlias, AddMissingAliases, BootFail, Stop
<1>7. (\E r \in Runtimes : Bootstrap(r)) \/ UNCHANGED boot
  BY DEF Next, Reindex, vars, IndexMessage, ResolveRead, ResolveWrite,
         ChooseTarget, CountSource, CheckTarget, CreateTarget, Snapshot, Copy,
         Verify, SwapAliases, Abort
<1> QED
  BY <1>3, <1>4, <1>5, <1>6, <1>7

(* A run goes past the creation of its target only when it succeeds.       *)
LEMMA TargetStep ==
    ASSUME AliasInv, [Next]_vars
    PROVE  \A y \in Reindexers : TargetExists(y)'
<1> USE DEF AtJob, Finished
<1>1. created \subseteq created' /\ job \in [Reindexers -> JobRecords]
  BY CreatedGrows DEF AliasInv, TypeOK
<1>2. \A y \in Reindexers : job'[y] = job[y] => TargetExists(y)'
  BY <1>1 DEF AliasInv, TargetExists
<1>3. ASSUME NEW x \in Reindexers, Reindex(x) PROVE TargetExists(x)'
  <2>1. TargetExists(x)
    BY DEF AliasInv
  <2>2. CASE ResolveRead(x)
    BY <1>1, <2>1, <2>2 DEF ResolveRead, TargetExists, JobRecords, NewJob
  <2>3. CASE ResolveWrite(x)
    BY <1>1, <2>1, <2>3 DEF ResolveWrite, TargetExists, JobRecords, NewJob
  <2>4. CASE ChooseTarget(x)
    BY <1>1, <2>1, <2>4 DEF ChooseTarget, TargetExists, JobRecords, NewJob
  <2>5. CASE CountSource(x)
    BY <1>1, <2>1, <2>5 DEF CountSource, TargetExists, JobRecords, NewJob
  <2>6. CASE CheckTarget(x)
    BY <1>1, <2>1, <2>6 DEF CheckTarget, TargetExists, JobRecords, NewJob
  <2>7. CASE CreateTarget(x)
    BY <1>1, <2>1, <2>7 DEF CreateTarget, TargetExists, JobRecords, NewJob
  <2>8. CASE Snapshot(x)
    BY <1>1, <2>1, <2>8 DEF Snapshot, TargetExists, JobRecords, NewJob
  <2>9. CASE Copy(x)
    BY <1>1, <2>1, <2>9 DEF Copy, TargetExists, JobRecords, NewJob
  <2>10. CASE Verify(x)
    BY <1>1, <2>1, <2>10 DEF Verify, TargetExists, JobRecords, NewJob
  <2>11. CASE SwapAliases(x)
    BY <1>1, <2>1, <2>11 DEF SwapAliases, TargetExists, JobRecords, NewJob
  <2>12. CASE Abort(x)
    BY <1>1, <2>1, <2>12 DEF Abort, TargetExists, JobRecords, NewJob
  <2> QED
    BY <1>3, <2>2, <2>3, <2>4, <2>5, <2>6, <2>7, <2>8, <2>9,
       <2>10, <2>11, <2>12 DEF Reindex
<1>4. ASSUME NEW x \in Reindexers, Reindex(x), NEW y \in Reindexers, y # x
      PROVE  job'[y] = job[y]
  BY <1>1, <1>4
     DEF Reindex, ResolveRead, ResolveWrite, ChooseTarget, CountSource,
         CheckTarget, CreateTarget, Snapshot, Copy, Verify, SwapAliases, Abort
<1>5. (\E x \in Reindexers : Reindex(x)) \/ UNCHANGED job
  BY DEF Next, Bootstrap, vars, IndexMessage, Start, CheckIndex,
         CreateMessagesIndex, CheckReadAlias, CheckWriteAlias,
         AddMissingAliases, BootFail, Stop
<1> QED
  BY <1>2, <1>3, <1>4, <1>5

(* Every step keeps the invariant.                                         *)
LEMMA InvNext == AliasInv /\ [Next]_vars => AliasInv'
<1> SUFFICES ASSUME AliasInv, [Next]_vars PROVE AliasInv'
  OBVIOUS
<1>1. TypeOK'
  <2>1. CASE UNCHANGED vars
    BY <2>1 DEF vars, AliasInv, TypeOK
  <2>2. CASE Next
    BY <2>2, BootTypes, JobTypes, IndexTypes DEF Next, AliasInv
  <2> QED
    BY <2>1, <2>2
<1> QED
  BY <1>1, AliasesStep, KnowsStep, TargetStep DEF AliasInv

(* The inductive invariant of the aliases.                                 *)
THEOREM AliasInvariant == Spec => []AliasInv
BY InvInit, InvNext, PTL DEF Spec

(* Whatever is indexed is searchable: the write index, if there is one, is *)
(* behind the read alias, whatever bootstraps and swaps race.              *)
THEOREM IndexedIsSearchable == Spec => []WritesAreSearchable
<1>1. AliasInv => WritesAreSearchable
  BY DEF AliasInv
<1> QED
  BY <1>1, AliasInvariant, PTL

(* A worker that is up has both aliases.                                   *)
THEOREM WorkersFindAliases == Spec => []WorkerHasAliases
<1>1. AliasInv => WorkerHasAliases
  BY DEF AliasInv, AliasesTogether, BootKnows, WorkerHasAliases, Runtimes
<1> QED
  BY <1>1, AliasInvariant, PTL

(* Search is never without an index again.                                 *)
THEOREM SearchNeverStops == Spec => SearchUninterrupted
<1>1. AliasInv /\ [Next]_vars => [readAlias # {} => readAlias' # {}]_vars
  BY AliasesStep
<1> QED
  BY <1>1, AliasInvariant, PTL DEF Spec, SearchUninterrupted

-----------------------------------------------------------------------------
(* What a swap keeps.  The verification compares two numbers taken at      *)
(* different times, so it is not what protects the documents that were     *)
(* counted: it is that a second run which swapped meanwhile has left a     *)
(* write index this run does not remove, and updateAliases is refused.     *)

Past(x, steps) == job[x].step \in steps

(* From the creation of its target on.                                     *)
Building(x) == Past(x, {"snapshot", "copy", "verify", "swap"})

(* The target of a run is its own: no alias leads to it, and no run has    *)
(* found it behind the write alias.                                        *)
OwnTarget(x) ==
    Building(x) =>
        /\ job[x].target \notin writeAlias
        /\ \A y \in Reindexers : job[x].target \notin job[y].write
        /\ \A y \in Reindexers :
             y # x /\ Building(y) => job[y].target # job[x].target

(* A run goes on only with aliases that exist.                             *)
Resolved(x) ==
    /\ job[x].write \subseteq created \cup NotAsked
    /\ ~Past(x, {"resolve", "done"}) => job[x].read \notin {{}, NotAsked}
    /\ job[x].read \notin {{}, NotAsked} => readAlias # {}

(* Until another run has swapped, what was counted is searchable and then  *)
(* copied; the copy stays in the target.                                   *)
CountedKept(x) ==
    /\ writeAlias \subseteq job[x].write =>
         /\ Past(x, {"exists", "create", "snapshot"})
              => job[x].counted \subseteq Searchable
         /\ Past(x, {"copy", "verify", "swap"})
              => job[x].counted \subseteq job[x].copied
    /\ Past(x, {"verify", "swap"}) => job[x].copied \subseteq docs[job[x].target]

CopyInv ==
    \A x \in Reindexers : OwnTarget(x) /\ Resolved(x) /\ CountedKept(x)

(* One run moves at a time.                                                *)
LEMMA OtherRuns ==
    ASSUME AliasInv, NEW x \in Reindexers, Reindex(x),
           NEW y \in Reindexers, y # x
    PROVE  job'[y] = job[y]
<1>1. job \in [Reindexers -> JobRecords]
  BY DEF AliasInv, TypeOK
<1> QED
  BY <1>1
     DEF Reindex, AtJob, Finished, ResolveRead, ResolveWrite, ChooseTarget,
         CountSource, CheckTarget, CreateTarget, Snapshot, Copy, Verify,
         SwapAliases, Abort

LEMMA OneRun ==
    ASSUME AliasInv, [Next]_vars, NEW y \in Reindexers
    PROVE  Reindex(y) \/ job'[y] = job[y]
<1>1. (\E x \in Reindexers : Reindex(x)) \/ UNCHANGED job
  BY DEF Next, Bootstrap, vars, IndexMessage, Start, CheckIndex,
         CreateMessagesIndex, CheckReadAlias, CheckWriteAlias,
         AddMissingAliases, BootFail, Stop
<1> QED
  BY <1>1, OtherRuns

(* Documents are only added.                                               *)
LEMMA DocsGrow ==
    ASSUME AliasInv, [Next]_vars, NEW v \in Versions
    PROVE  docs[v] \subseteq docs'[v]
<1>1. docs \in [Versions -> SUBSET Docs]
  BY DEF AliasInv, TypeOK
<1>2. ASSUME NEW d \in Docs, IndexMessage(d) PROVE docs[v] \subseteq docs'[v]
  BY <1>1, <1>2 DEF IndexMessage
<1>3. ASSUME NEW x \in Reindexers, Copy(x) PROVE docs[v] \subseteq docs'[v]
  BY <1>1, <1>3 DEF Copy
<1>4. \/ UNCHANGED docs
      \/ \E d \in Docs : IndexMessage(d)
      \/ \E x \in Reindexers : Copy(x)
  BY DEF Next, Bootstrap, Reindex, vars, Start, CheckIndex,
         CreateMessagesIndex, CheckReadAlias, CheckWriteAlias,
         AddMissingAliases, BootFail, Stop, ResolveRead, ResolveWrite,
         ChooseTarget, CountSource, CheckTarget, CreateTarget, Snapshot,
         Verify, SwapAliases, Abort
<1> QED
  BY <1>2, <1>3, <1>4

(* Without a swap, aliases and with them what is searchable only grow, and *)
(* the write alias changes only when there was none.                       *)
LEMMA NoSwapGrows ==
    ASSUME AliasInv, [Next]_vars, \A x \in Reindexers : ~SwapAliases(x)
    PROVE  /\ Searchable \subseteq Searchable'
           /\ readAlias \subseteq readAlias'
           /\ writeAlias' = writeAlias \/ readAlias = {}
<1>1. UNCHANGED <<readAlias, writeAlias>> \/ \E r \in Runtimes : AddMissingAliases(r)
  BY AliasCases DEF AliasStep
<1>2. ASSUME NEW r \in Runtimes, AddMissingAliases(r)
      PROVE  /\ readAlias \subseteq readAlias'
             /\ writeAlias' = writeAlias \/ readAlias = {}
  <2>1. /\ readAlias \subseteq readAlias'
        /\ writeAlias \subseteq writeAlias'
        /\ writeAlias' = writeAlias \/ writeAlias' = {1}
    BY <1>2, AddResult
  <2>2. writeAlias = {} => readAlias = {}
    BY DEF AliasInv, AliasesTogether
  <2> QED
    BY <2>1, <2>2
<1>3. readAlias \subseteq readAlias' /\ (writeAlias' = writeAlias \/ readAlias = {})
  BY <1>1, <1>2
<1>4. readAlias \subseteq Versions
  BY DEF AliasInv, TypeOK
<1>5. Searchable \subseteq Searchable'
  BY <1>3, <1>4, DocsGrow DEF Searchable
<1> QED
  BY <1>3, <1>5

(* A swap leaves an index that no other run has found behind the write     *)
(* alias; the run itself has found all that was there.                     *)
LEMMA SwapBlocks ==
    ASSUME AliasInv, CopyInv, NEW x \in Reindexers, SwapAliases(x)
    PROVE  /\ writeAlias \subseteq job[x].write
           /\ \A y \in Reindexers : ~(writeAlias' \subseteq job[y].write)
<1>1. Building(x) /\ writeAlias' = {job[x].target}
  BY SwapResult DEF SwapAliases, AtJob, Building, Past
<1>2. writeAlias' = (writeAlias \ job[x].write) \cup {job[x].target}
  BY DEF SwapAliases, UpdateAliases
<1>3. /\ job[x].target \notin writeAlias
      /\ \A y \in Reindexers : job[x].target \notin job[y].write
  BY <1>1 DEF CopyInv, OwnTarget
<1> QED
  BY <1>1, <1>2, <1>3

(* The fields a step of a run leaves alone, and those it writes.           *)
LEMMA RunCases ==
    ASSUME AliasInv, NEW x \in Reindexers, Reindex(x)
    PROVE  LET old == job[x]
               new == job'[x]
           IN \/ /\ new.step = "resolve" /\ old.step = "resolve"
                 /\ \/ new.read = readAlias /\ new.write = old.write
                    \/ new.read = old.read /\ new.write = writeAlias
                 /\ UNCHANGED <<created, docs, readAlias, writeAlias>>
              \/ /\ new.step = "done" /\ new.read = NotAsked /\ new.write = NotAsked
                 /\ UNCHANGED <<created, docs>>
              \/ /\ new.read = old.read /\ new.write = old.write
                 /\ UNCHANGED <<readAlias, writeAlias>>
                 /\ \/ /\ ChooseTarget(x) /\ UNCHANGED <<created, docs>>
                       /\ new.step = "count" /\ old.read \notin {{}, NotAsked}
                    \/ /\ CountSource(x) /\ UNCHANGED <<created, docs>>
                       /\ old.step = "count" /\ new.step = "exists"
                       /\ new.counted = Searchable
                    \/ /\ CheckTarget(x) /\ UNCHANGED <<created, docs>>
                       /\ old.step = "exists" /\ new.step = "create"
                       /\ new.counted = old.counted
                    \/ /\ CreateTarget(x) /\ UNCHANGED docs
                       /\ old.step = "create" /\ new.step = "snapshot"
                       /\ new.counted = old.counted /\ new.target = old.target
                       /\ old.target \notin created
                       /\ created' = created \cup {old.target}
                    \/ /\ Snapshot(x) /\ UNCHANGED <<created, docs>>
                       /\ old.step = "snapshot" /\ new.step = "copy"
                       /\ new.counted = old.counted /\ new.target = old.target
                       /\ new.copied = Searchable
                    \/ /\ Copy(x) /\ UNCHANGED created
                       /\ old.step = "copy" /\ new.step = "verify"
                       /\ new.counted = old.counted /\ new.target = old.target
                       /\ new.copied = old.copied
                       /\ docs'[old.target] = docs[old.target] \cup old.copied
                    \/ /\ Verify(x) /\ UNCHANGED <<created, docs>>
                       /\ old.step = "verify" /\ new.step = "swap"
                       /\ new.counted = old.counted /\ new.target = old.target
                       /\ new.copied = old.copied
<1>1. job \in [Reindexers -> JobRecords] /\ docs \in [Versions -> SUBSET Docs]
  BY DEF AliasInv, TypeOK
<1>2. job[x] \in JobRecords /\ job[x].target \in Versions
  BY <1>1 DEF JobRecords
<1> USE DEF AtJob, Finished, NewJob
<1>3. CASE ResolveRead(x)
  BY <1>1, <1>2, <1>3 DEF ResolveRead, JobRecords
<1>4. CASE ResolveWrite(x)
  BY <1>1, <1>2, <1>4 DEF ResolveWrite, JobRecords
<1>5. CASE ChooseTarget(x)
  BY <1>1, <1>2, <1>5 DEF ChooseTarget, JobRecords
<1>6. CASE CountSource(x)
  BY <1>1, <1>2, <1>6 DEF CountSource, JobRecords
<1>7. CASE CheckTarget(x)
  BY <1>1, <1>2, <1>7 DEF CheckTarget, JobRecords
<1>8. CASE CreateTarget(x)
  BY <1>1, <1>2, <1>8 DEF CreateTarget, JobRecords
<1>9. CASE Snapshot(x)
  BY <1>1, <1>2, <1>9 DEF Snapshot, JobRecords
<1>10. CASE Copy(x)
  BY <1>1, <1>2, <1>10 DEF Copy, JobRecords
<1>11. CASE Verify(x)
  BY <1>1, <1>2, <1>11 DEF Verify, JobRecords
<1>12. CASE SwapAliases(x)
  BY <1>1, <1>2, <1>12 DEF SwapAliases, JobRecords
<1>13. CASE Abort(x)
  BY <1>1, <1>2, <1>13 DEF Abort, JobRecords
<1> QED
  BY <1>3, <1>4, <1>5, <1>6, <1>7, <1>8, <1>9, <1>10, <1>11, <1>12,
     <1>13 DEF Reindex

(* A run goes on only with aliases that exist, and these stay.             *)
LEMMA ResolvedStep ==
    ASSUME AliasInv, CopyInv, [Next]_vars, NEW y \in Reindexers
    PROVE  Resolved(y)'
<1>1. /\ Resolved(y)
      /\ readAlias # {} => readAlias' # {}
      /\ created \subseteq created'
      /\ writeAlias \subseteq created
  BY AliasesStep, CreatedGrows DEF CopyInv, AliasInv, TypeOK
<1>2. CASE job'[y] = job[y]
  BY <1>1, <1>2 DEF Resolved, Past
<1>3. CASE Reindex(y)
  BY <1>1, <1>3, RunCases DEF Resolved, Past
<1> QED
  BY <1>2, <1>3, OneRun

(* A target stays its run's own.                                           *)
LEMMA OwnTargetStep ==
    ASSUME AliasInv, CopyInv, [Next]_vars, NEW y \in Reindexers, Building(y)'
    PROVE  OwnTarget(y)'
<1> DEFINE t == job'[y].target
<1>1. /\ job \in [Reindexers -> JobRecords]
      /\ writeAlias \subseteq created
      /\ \A z \in Reindexers : job[z].write \subseteq created \cup NotAsked
      /\ \A z \in Reindexers : Building(z) => job[z].target \in created
  BY DEF AliasInv, TypeOK, CopyInv, Resolved, TargetExists, Building, Past
<1>2. ASSUME NEW z \in Reindexers, job[z].target \in NotAsked PROVE FALSE
  BY <1>1, <1>2 DEF JobRecords, Versions, NotAsked
<1>3. CASE /\ Building(y) /\ job[y].target = t
           /\ job'[y] = job[y] \/ writeAlias' = writeAlias
  <2>1. /\ t \notin writeAlias
        /\ \A z \in Reindexers : t \notin job[z].write
        /\ \A z \in Reindexers : z # y /\ Building(z) => job[z].target # t
    BY <1>3 DEF CopyInv, OwnTarget
  <2>2. t \in created /\ t \notin NotAsked
    BY <1>1, <1>2, <1>3
  <2>3. t \notin writeAlias'
    <3>1. ASSUME NEW x \in Reindexers, SwapAliases(x), job'[y] = job[y]
          PROVE  t \notin writeAlias'
      <4>1. Building(x) /\ writeAlias' = {job[x].target} /\ job'[x].step = "done"
        BY <1>1, <3>1, SwapResult
           DEF SwapAliases, AtJob, Finished, Building, Past, NewJob
      <4>2. x # y
        BY <1>3, <3>1, <4>1 DEF Building, Past
      <4> QED
        BY <2>1, <4>1, <4>2
    <3>2. readAlias # {}
      BY <1>3 DEF CopyInv, Resolved, Building, Past
    <3>3. CASE \A x \in Reindexers : ~SwapAliases(x)
      BY <2>1, <3>2, <3>3, NoSwapGrows
    <3> QED
      BY <1>3, <2>1, <3>1, <3>3
  <2>4. ASSUME NEW z \in Reindexers PROVE t \notin job'[z].write
    <3>1. CASE Reindex(z)
      BY <2>1, <2>2, <3>1, RunCases
    <3> QED
      BY <2>1, <3>1, OneRun
  <2>5. ASSUME NEW z \in Reindexers, z # y, Building(z)'
        PROVE  job'[z].target # t
    <3>1. CASE Reindex(z)
      BY <2>1, <2>2, <2>5, <3>1, RunCases DEF Building, Past
    <3>2. CASE job'[z] = job[z]
      BY <2>1, <2>5, <3>2 DEF Building, Past
    <3> QED
      BY <3>1, <3>2, OneRun
  <2> QED
    BY <2>3, <2>4, <2>5 DEF OwnTarget
<1>4. CASE Reindex(y) /\ t \notin created /\ writeAlias' = writeAlias
             /\ job'[y].write = job[y].write /\ t = job[y].target
  <2>1. \A z \in Reindexers : z # y => job'[z] = job[z]
    BY <1>4, OtherRuns
  <2>2. t \notin NotAsked
    BY <1>2, <1>4
  <2>3. \A z \in Reindexers : job'[z].write = job[z].write
    BY <1>4, <2>1
  <2>4. ASSUME NEW z \in Reindexers, z # y, Building(z)'
        PROVE  job'[z].target # t
    BY <1>1, <1>4, <2>1, <2>4 DEF Building, Past
  <2> QED
    BY <1>1, <1>4, <2>2, <2>3, <2>4 DEF OwnTarget
<1>5. CASE job'[y] = job[y]
  BY <1>3, <1>5 DEF Building, Past
<1>6. CASE Reindex(y)
  BY <1>3, <1>4, <1>6, RunCases DEF Building, Past, CreateTarget, AtJob
<1> QED
  BY <1>5, <1>6, OneRun

(* Nothing that was counted drops out of search and copy.                  *)
LEMMA CountedStep ==
    ASSUME AliasInv, CopyInv, [Next]_vars, NEW y \in Reindexers
    PROVE  CountedKept(y)'
<1>1. /\ CountedKept(y) /\ Resolved(y)
      /\ job[y].target \in Versions
      /\ docs[job[y].target] \subseteq docs'[job[y].target]
  BY DocsGrow DEF CopyInv, AliasInv, TypeOK, JobRecords
<1>2. CASE job'[y] = job[y]
  <2>1. ASSUME writeAlias' \subseteq job[y].write, ~Past(y, {"resolve", "done"})
        PROVE  writeAlias' = writeAlias /\ Searchable \subseteq Searchable'
    <3>1. \A x \in Reindexers : ~SwapAliases(x)
      BY <2>1, SwapBlocks
    <3>2. readAlias # {}
      BY <1>1, <2>1 DEF Resolved
    <3> QED
      BY <3>1, <3>2, NoSwapGrows
  <2> QED
    BY <1>1, <1>2, <2>1 DEF CountedKept, Past
<1>3. CASE Reindex(y)
  <2>1. UNCHANGED <<docs, readAlias>> => Searchable' = Searchable
    BY DEF Searchable
  <2>2. CreateTarget(y) => UNCHANGED <<docs, readAlias>>
    BY DEF CreateTarget
  <2> QED
    BY <1>1, <1>3, <2>1, <2>2, RunCases DEF CountedKept, Past
<1> QED
  BY <1>2, <1>3, OneRun

(* All that was counted is in the target that becomes searchable.          *)
LEMMA SwapKeeps ==
    ASSUME AliasInv, CopyInv, NEW x \in Reindexers, SwapAliases(x)
    PROVE  job[x].counted \subseteq Searchable'
<1>1. job[x].counted \subseteq job[x].copied
  BY SwapBlocks DEF CopyInv, CountedKept, Past, SwapAliases, AtJob
<1>2. job[x].copied \subseteq docs[job[x].target]
  BY DEF CopyInv, CountedKept, Past, SwapAliases, AtJob
<1>3. job[x].target \in readAlias' /\ docs' = docs
  BY SwapResult DEF SwapAliases
<1> QED
  BY <1>1, <1>2, <1>3 DEF Searchable

(* So is all that was copied: a swap drops from search only what neither   *)
(* the count nor the copy of its run has seen.                             *)
LEMMA SwapKeepsCopied ==
    ASSUME AliasInv, CopyInv, NEW x \in Reindexers, SwapAliases(x)
    PROVE  job[x].copied \subseteq Searchable'
<1>1. job[x].copied \subseteq docs[job[x].target]
  BY DEF CopyInv, CountedKept, Past, SwapAliases, AtJob
<1>2. job[x].target \in readAlias' /\ docs' = docs
  BY SwapResult DEF SwapAliases
<1> QED
  BY <1>1, <1>2 DEF Searchable

(* The copying of every run is as CopyInv says, in every reachable state.  *)
LEMMA CopyInvariant == Spec => []CopyInv
<1>1. Init => CopyInv
  BY DEF Init, CopyInv, OwnTarget, Resolved, CountedKept, Building, Past,
         NewJob, NotAsked
<1>2. AliasInv /\ CopyInv /\ [Next]_vars => CopyInv'
  BY ResolvedStep, OwnTargetStep, CountedStep DEF CopyInv, OwnTarget
<1> QED
  BY <1>1, <1>2, AliasInvariant, PTL DEF Spec

(* Documents that were searchable when a reindex counted them are still    *)
(* searchable when it has moved the aliases, whatever other runs, workers  *)
(* and starting processes do meanwhile.                                    *)
THEOREM CountedSurvivesSwap == Spec => SwapKeepsCounted
<1>1. AliasInv /\ CopyInv /\ [Next]_vars =>
        [\A x \in Reindexers :
           SwapAliases(x) => job[x].counted \subseteq Searchable']_vars
  BY SwapKeeps
<1> QED
  BY <1>1, AliasInvariant, CopyInvariant, PTL DEF Spec, SwapKeepsCounted

(* The limit of that promise, exactly: a step that takes a document out of *)
(* search is the swap of a run that has neither counted nor copied it, so  *)
(* one written since or hidden meanwhile; and the document is still in an  *)
(* index that exists.                                                      *)
OnlyUnseenHidden ==
    [][\A d \in Searchable \ Searchable' :
         /\ \E x \in Reindexers :
              SwapAliases(x) /\ d \notin job[x].counted \cup job[x].copied
         /\ \E v \in created' : d \in docs'[v]]_vars

(* A document drops out of search only by the swap of a reindex that has   *)
(* not seen it, and no document is lost from Elasticsearch.                *)
THEOREM OnlyUnseenIsHidden == Spec => OnlyUnseenHidden
<1>1. ASSUME AliasInv, CopyInv, [Next]_vars, NEW d \in Searchable \ Searchable'
      PROVE  \E x \in Reindexers :
               SwapAliases(x) /\ d \notin job[x].counted \cup job[x].copied
  <2>1. PICK x \in Reindexers : SwapAliases(x)
    BY <1>1, NoSwapGrows
  <2>2. job[x].counted \cup job[x].copied \subseteq Searchable'
    BY <1>1, <2>1, SwapKeeps, SwapKeepsCopied
  <2> QED
    BY <1>1, <2>1, <2>2
<1>2. ASSUME AliasInv, CopyInv, [Next]_vars, NEW d \in Searchable
      PROVE  \E v \in created' : d \in docs'[v]
  <2>1. PICK v \in readAlias : d \in docs[v]
    BY <1>2 DEF Searchable
  <2>2. v \in created /\ v \in Versions
    BY <1>2, <2>1 DEF AliasInv, TypeOK
  <2> QED
    BY <1>2, <2>1, <2>2, CreatedGrows, DocsGrow
<1>3. AliasInv /\ CopyInv /\ [Next]_vars =>
        [\A d \in Searchable \ Searchable' :
           /\ \E x \in Reindexers :
                SwapAliases(x) /\ d \notin job[x].counted \cup job[x].copied
           /\ \E v \in created' : d \in docs'[v]]_vars
  BY <1>1, <1>2
<1> QED
  BY <1>3, AliasInvariant, CopyInvariant, PTL DEF Spec, OnlyUnseenHidden

(* What a worker has written is found: the step that indexes a document    *)
(* makes it searchable, also while reindex runs swap and processes start.  *)
THEOREM WritesAreFound ==
    Spec => [][\A d \in Docs : IndexMessage(d) => d \in Searchable']_vars
<1>1. ASSUME AliasInv, NEW d \in Docs, IndexMessage(d)
      PROVE  d \in Searchable'
  <2>1. PICK v \in writeAlias : v \in Versions /\ v \in readAlias'
    BY <1>1 DEF AliasInv, TypeOK, WritesAreSearchable, IndexMessage
  <2>2. d \in docs'[v]
    BY <1>1, <2>1 DEF IndexMessage
  <2> QED
    BY <2>1, <2>2 DEF Searchable
<1>2. AliasInv /\ [Next]_vars =>
        [\A d \in Docs : IndexMessage(d) => d \in Searchable']_vars
  BY <1>1
<1> QED
  BY <1>2, AliasInvariant, PTL DEF Spec

-----------------------------------------------------------------------------
(* What the indices hold comes from workers only: a reindex copies what is *)
(* there, and a new index is empty.                                        *)

Held == UNION {docs[v] : v \in created}

CopiesHeld ==
    /\ \A v \in Versions \ created : docs[v] = {}
    /\ \A x \in Reindexers : job[x].copied \subseteq Held

LEMMA WriteIsHeld ==
    ASSUME AliasInv, CopiesHeld, NEW d \in Docs, IndexMessage(d)
    PROVE  Held' = Held \cup {d} /\ CopiesHeld'
<1>1. /\ writeAlias \subseteq created /\ writeAlias # {}
      /\ created \subseteq Versions /\ UNCHANGED <<created, job>>
      /\ \A v \in Versions :
           docs'[v] = IF v \in writeAlias THEN docs[v] \cup {d} ELSE docs[v]
  BY DEF AliasInv, TypeOK, IndexMessage
<1>2. Held' = Held \cup {d}
  <2>1. PICK w \in created : d \in docs'[w]
    BY <1>1
  <2>2. ASSUME NEW e \in Held' PROVE e \in Held \cup {d}
    <3>1. PICK v \in created : e \in docs'[v]
      BY <1>1 DEF Held
    <3>2. docs'[v] \subseteq docs[v] \cup {d}
      BY <1>1
    <3> QED
      BY <3>1, <3>2 DEF Held
  <2>3. Held \subseteq Held' /\ d \in Held'
    BY <1>1, <2>1 DEF Held
  <2> QED
    BY <2>2, <2>3
<1> QED
  BY <1>1, <1>2 DEF CopiesHeld

LEMMA MaintenanceAddsNothing ==
    ASSUME AliasInv, CopiesHeld,
           \/ \E r \in Runtimes : Bootstrap(r)
           \/ \E x \in Reindexers : Reindex(x)
    PROVE  Held' = Held /\ CopiesHeld'
<1>1. /\ docs \in [Versions -> SUBSET Docs] /\ created \subseteq Versions
      /\ job \in [Reindexers -> JobRecords]
      /\ readAlias \subseteq created
  BY DEF AliasInv, TypeOK
<1>2. created \subseteq created' /\ created' \subseteq Versions
  <2>1. Next
    BY DEF Next
  <2>2. AliasInv'
    BY <2>1, InvNext
  <2> QED
    BY <2>1, <2>2, CreatedGrows DEF AliasInv, TypeOK
<1>3. ASSUME UNCHANGED docs PROVE Held' = Held
  BY <1>1, <1>2, <1>3 DEF Held, CopiesHeld
<1>4. CASE \E r \in Runtimes : Bootstrap(r)
  <2>1. UNCHANGED <<docs, job>>
    BY <1>4 DEF Bootstrap, Start, CheckIndex, CreateMessagesIndex,
                CheckReadAlias, CheckWriteAlias, AddMissingAliases, BootFail, Stop
  <2> QED
    BY <1>2, <1>3, <2>1 DEF CopiesHeld
<1>5. ASSUME NEW x \in Reindexers, Reindex(x) PROVE Held' = Held /\ CopiesHeld'
  <2>1. \A y \in Reindexers : y # x => job'[y] = job[y]
    BY <1>5, OtherRuns
  <2>2. job'[x].copied \in {job[x].copied, Searchable, {}}
    <3>1. CASE Snapshot(x)
      BY <1>1, <3>1 DEF Snapshot, JobRecords
    <3>2. CASE Finished(x)
      BY <1>1, <3>2 DEF Finished, NewJob
    <3>3. CASE ResolveRead(x) \/ ResolveWrite(x) \/ CountSource(x)
      BY <1>1, <3>3 DEF ResolveRead, ResolveWrite, CountSource, JobRecords
    <3>4. CASE ChooseTarget(x)
      BY <1>1, <3>2, <3>4 DEF ChooseTarget, JobRecords
    <3>5. CASE CheckTarget(x) \/ CreateTarget(x)
      BY <1>1, <3>2, <3>5 DEF CheckTarget, CreateTarget, JobRecords
    <3>6. CASE Copy(x) \/ Verify(x)
      BY <1>1, <3>2, <3>6 DEF Copy, Verify, JobRecords
    <3> QED
      BY <1>5, <3>1, <3>2, <3>3, <3>4, <3>5, <3>6 DEF Reindex, SwapAliases, Abort
  <2>3. Searchable \subseteq Held
    BY <1>1 DEF Searchable, Held
  <2>4. \A y \in Reindexers : job'[y].copied \subseteq Held
    BY <2>1, <2>2, <2>3 DEF CopiesHeld
  <2>5. CASE Copy(x)
    <3>1. job[x].target \in created
      BY <2>5 DEF Copy, AtJob, AliasInv, TargetExists
    <3>2. /\ UNCHANGED created /\ job[x].copied \subseteq Held
          /\ docs' = [docs EXCEPT ![job[x].target] = @ \cup job[x].copied]
      BY <2>5 DEF Copy, CopiesHeld
    <3>3. Held' = Held
      <4>1. \A v \in created :
              docs'[v] = IF v = job[x].target THEN docs[v] \cup job[x].copied
                                              ELSE docs[v]
        BY <1>1, <3>2
      <4>2. Held' \subseteq Held /\ Held \subseteq Held'
        BY <3>2, <4>1 DEF Held
      <4> QED
        BY <4>2
    <3> QED
      BY <1>1, <2>4, <3>1, <3>2, <3>3 DEF CopiesHeld
  <2>6. CASE ~Copy(x)
    <3>1. UNCHANGED docs
      BY <1>5, <2>6
         DEF Reindex, ResolveRead, ResolveWrite, ChooseTarget, CountSource,
             CheckTarget, CreateTarget, Snapshot, Verify, SwapAliases, Abort
    <3> QED
      BY <1>2, <1>3, <2>4, <3>1 DEF CopiesHeld
  <2> QED
    BY <2>5, <2>6
<1> QED
  BY <1>4, <1>5

==============================================================================

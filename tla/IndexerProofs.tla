---------------------------- MODULE IndexerProofs ----------------------------
(* Proofs about the search indexer and dlq:redrive, for any number of      *)
(* consumers, events, faults and redrives, and any limit.                  *)
EXTENDS SearchIndexer, SequenceTheorems, TLAPS

(* What every step does to the logs and the index: they grow.              *)
Grown ==
    /\ topic' \in Seq(Messages)
    /\ Len(topic) <= Len(topic')
    /\ \A o \in 1 .. Len(topic) : topic'[o] = topic[o]
    /\ dlq' \in Seq(Record)
    /\ Len(dlq) <= Len(dlq')
    /\ \A d \in 1 .. Len(dlq) : dlq'[d] = dlq[d]
    /\ indexed \subseteq indexed'

LEMMA UnchangedGrown ==
  ASSUME TypeOK, UNCHANGED <<topic, dlq, indexed>> PROVE Grown
BY DEF TypeOK, Grown

(* A log grows by Append.                                                  *)
LEMMA AppendGrows ==
  ASSUME NEW S, NEW s \in Seq(S), NEW e \in S
  PROVE  /\ Append(s, e) \in Seq(S)
         /\ Len(Append(s, e)) = Len(s) + 1
         /\ Append(s, e)[Len(s) + 1] = e
         /\ \A i \in 1 .. Len(s) : Append(s, e)[i] = s[i]
BY AppendProperties

(* The sizes and offsets of a state.                                       *)
LEMMA Sizes ==
  ASSUME TypeOK
  PROVE  /\ Len(topic) \in Nat /\ Len(dlq) \in Nat
         /\ committed \in 0 .. Len(topic)
         /\ dlqCommitted \in 0 .. Len(dlq)
         /\ \A o \in 1 .. Len(topic) : topic[o] \in Messages
         /\ \A d \in 1 .. Len(dlq) : dlq[d] \in Record
         /\ \A c \in Consumers : pos[c] \in 0 .. Len(topic)
BY DEF TypeOK

(* Growth alone keeps what is accounted for.                               *)
LEMMA GrownAccountedFor ==
  ASSUME TypeOK, Grown, UNCHANGED dlqCommitted,
         NEW p \in 0 .. Len(topic), NEW o \in 1 .. Len(topic), AccountedFor(o, p)
  PROVE  AccountedFor(o, p)'
<1> USE Sizes
<1>1. topic'[o] = topic[o] /\ Len(topic') \in Nat /\ Len(dlq') \in Nat
  BY DEF Grown
<1>2. CASE Kind[topic[o]] = "unknown" \/ topic[o] \in indexed
  BY <1>1, <1>2 DEF AccountedFor, Grown
<1>3. CASE \E d \in PendingDeadLetters :
             dlq[d].msg = topic[o] /\ o <= dlq[d].offset
  <2>1. PICK d \in dlqCommitted + 1 .. Len(dlq) :
               dlq[d].msg = topic[o] /\ o <= dlq[d].offset
    BY <1>3 DEF PendingDeadLetters
  <2>2. d \in 1 .. Len(dlq) /\ d \in dlqCommitted' + 1 .. Len(dlq')
    BY <1>1, <2>1 DEF Grown
  <2>3. dlq'[d] = dlq[d]
    BY <2>2 DEF Grown
  <2> QED
    BY <1>1, <2>1, <2>2, <2>3 DEF AccountedFor, PendingDeadLetters
<1>4. CASE \E q \in p + 1 .. Len(topic) : topic[q] = topic[o]
  <2>1. PICK q \in p + 1 .. Len(topic) : topic[q] = topic[o]
    BY <1>4
  <2>2. q \in p + 1 .. Len(topic') /\ topic'[q] = topic[q]
    BY <1>1, <2>1 DEF Grown
  <2> QED
    BY <1>1, <2>1, <2>2 DEF AccountedFor
<1> QED
  BY <1>2, <1>3, <1>4 DEF AccountedFor

(* The event of record r has become accounted for itself.                  *)
NowAccountedFor(r) ==
    \/ Kind[topic[r]] = "unknown"
    \/ topic[r] \in indexed'
    \/ \E d \in PendingDeadLetters' :
         dlq'[d].msg = topic[r] /\ r <= dlq'[d].offset

(* Then a consumer that was at this record may go on.                      *)
LEMMA DoneAccountedFor ==
  ASSUME TypeOK, Grown, UNCHANGED dlqCommitted,
         NEW p \in Nat, p < Len(topic), PastAccountedFor(p),
         NowAccountedFor(p + 1)
  PROVE  \A o \in 1 .. p + 1 : AccountedFor(o, p + 1)'
<1> SUFFICES ASSUME NEW o \in 1 .. p + 1 PROVE AccountedFor(o, p + 1)'
  OBVIOUS
<1>1. CASE topic[o] = topic[p + 1]
  <2>1. topic'[o] = topic[p + 1]
    BY <1>1, Sizes DEF Grown
  <2>2. CASE Kind[topic[p + 1]] = "unknown" \/ topic[p + 1] \in indexed'
    BY <2>1, <2>2 DEF AccountedFor
  <2>3. CASE \E d \in PendingDeadLetters' :
               dlq'[d].msg = topic[p + 1] /\ p + 1 <= dlq'[d].offset
    <3>1. PICK d \in PendingDeadLetters' :
                 dlq'[d].msg = topic[p + 1] /\ p + 1 <= dlq'[d].offset
      BY <2>3
    <3>2. dlq' \in Seq(Record) /\ d \in 1 .. Len(dlq')
      BY <3>1, Sizes DEF PendingDeadLetters, Grown
    <3>3. dlq'[d] \in Record /\ dlq'[d].offset \in Nat
      <4>1. dlq'[d] \in Record
        BY <3>2
      <4> QED
        BY <4>1 DEF Record
    <3>4. o <= dlq'[d].offset
      BY <3>1, <3>3
    <3> QED
      BY <2>1, <3>1, <3>4 DEF AccountedFor
  <2> QED
    BY <2>2, <2>3 DEF NowAccountedFor
<1>2. CASE topic[o] # topic[p + 1]
  <2>1. o \in 1 .. p /\ AccountedFor(o, p)
    BY <1>2 DEF PastAccountedFor
  <2>2. AccountedFor(o, p + 1)
    BY <1>2, <2>1, Sizes DEF AccountedFor
  <2> QED
    BY <2>1, <2>2, GrownAccountedFor, Sizes
<1> QED
  BY <1>1, <1>2

LEMMA PastKept ==
  ASSUME TypeOK, Grown, UNCHANGED dlqCommitted,
         NEW p \in 0 .. Len(topic), PastAccountedFor(p)
  PROVE  \A o \in 1 .. p : AccountedFor(o, p)'
BY GrownAccountedFor, Sizes DEF PastAccountedFor

(* Going back is always safe.                                              *)
LEMMA PastSmaller ==
  ASSUME TypeOK, NEW p \in Nat, NEW q \in 0 .. p, PastAccountedFor(p)
  PROVE  PastAccountedFor(q)
BY Sizes DEF PastAccountedFor, AccountedFor

(* A dead letter whose event is back in the topic is no longer needed.     *)
LEMMA RedriveKeepsPast ==
  ASSUME IndexerInv, cli.step = "commit",
         dlqCommitted' \in {dlqCommitted, cli.pos + 1},
         UNCHANGED <<topic, dlq, indexed>>,
         NEW p \in 0 .. Len(topic), PastAccountedFor(p)
  PROVE  \A o \in 1 .. p : AccountedFor(o, p)'
<1> USE Sizes DEF IndexerInv
<1>1. CASE dlqCommitted' = dlqCommitted
  BY <1>1, PastKept, UnchangedGrown
<1>2. CASE dlqCommitted' # dlqCommitted
  <2>1. /\ cli.pos = dlqCommitted /\ dlqCommitted' = dlqCommitted + 1
        /\ dlqCommitted + 1 \in 1 .. Len(dlq)
        /\ BackInTopic(dlqCommitted + 1)
    BY <1>2 DEF RedriveInv, InHand, TypeOK
  <2> DEFINE x == dlq[dlqCommitted + 1].offset
  <2>2. x \in 1 .. Len(topic) /\ topic[x] = dlq[dlqCommitted + 1].msg
    BY <2>1 DEF DeadLettersFaithful
  <2>3. PICK q \in x + 1 .. Len(topic) : topic[q] = topic[x]
    BY <2>1, <2>2 DEF BackInTopic
  <2> SUFFICES ASSUME NEW o \in 1 .. p PROVE AccountedFor(o, p)'
    OBVIOUS
  <2>4. AccountedFor(o, p)
    BY DEF PastAccountedFor
  <2>5. CASE topic[o] = topic[x] /\ o <= x
    <3>1. CASE p < q
      BY <2>2, <2>3, <2>5, <3>1 DEF AccountedFor
    <3>2. CASE q <= p
      <4>1. AccountedFor(q, p)
        BY <2>2, <3>2 DEF PastAccountedFor
      <4>2. CASE \E d \in PendingDeadLetters :
                   dlq[d].msg = topic[q] /\ q <= dlq[d].offset
        <5>1. PICK d \in PendingDeadLetters :
                     dlq[d].msg = topic[q] /\ q <= dlq[d].offset
          BY <4>2
        <5>2. dlq[d].offset \in 1 .. Len(topic)
          BY <5>1 DEF PendingDeadLetters, DeadLettersFaithful
        <5>3. d # dlqCommitted + 1 /\ o <= dlq[d].offset
          <6>1. x < q /\ q <= dlq[d].offset /\ o <= x
            BY <2>2, <2>3, <2>5, <5>1
          <6> HIDE DEF x
          <6>2. x < dlq[d].offset /\ o <= dlq[d].offset
            BY <2>2, <2>3, <5>2, <6>1
          <6>3. ~(x < x)
            BY <2>2
          <6> QED
            BY <6>2, <6>3 DEF x
        <5>4. d \in PendingDeadLetters'
          BY <2>1, <5>1, <5>3 DEF PendingDeadLetters
        <5> QED
          BY <2>3, <2>5, <5>1, <5>3, <5>4 DEF AccountedFor
      <4> QED
        BY <2>3, <2>5, <4>1, <4>2 DEF AccountedFor
    <3> QED
      BY <2>2, <2>3, <3>1, <3>2
  <2>6. CASE ~(topic[o] = topic[x] /\ o <= x)
    <3>1. CASE \E d \in PendingDeadLetters :
                 dlq[d].msg = topic[o] /\ o <= dlq[d].offset
      <4>1. PICK d \in PendingDeadLetters :
                   dlq[d].msg = topic[o] /\ o <= dlq[d].offset
        BY <3>1
      <4>2. d # dlqCommitted + 1
        BY <2>2, <2>6, <4>1
      <4>3. d \in PendingDeadLetters'
        BY <2>1, <4>1, <4>2 DEF PendingDeadLetters
      <4> QED
        BY <4>1, <4>3 DEF AccountedFor
    <3> QED
      BY <2>4, <3>1 DEF AccountedFor
  <2> QED
    BY <2>5, <2>6
<1> QED
  BY <1>1, <1>2

-----------------------------------------------------------------------------
(* Consumers move to where somebody may be, or on to the next record.      *)
LEMMA ConsumersStep ==
  ASSUME IndexerInv, Grown, UNCHANGED dlqCommitted,
         \/ committed' = committed
         \/ \E c \in Consumers : committed' = pos[c],
         \A c \in Consumers :
           /\ owner' = c => pc'[c] # "out" /\ committed' <= pos'[c]
           /\ \/ pos'[c] \in 0 .. pos[c]
              \/ pos'[c] = committed
              \/ /\ pos'[c] = pos[c] + 1
                 /\ pos[c] < Len(topic)
                 /\ NowAccountedFor(pos[c] + 1)
  PROVE  ConsumersInv'
<1> USE Sizes DEF IndexerInv
<1>1. ASSUME NEW c \in Consumers PROVE PastAccountedFor(pos[c])'
  <2>1. CASE pos'[c] \in 0 .. pos[c] \/ pos'[c] = committed
    <3>1. pos'[c] \in 0 .. Len(topic) /\ PastAccountedFor(pos'[c])
      BY <2>1, PastSmaller DEF ConsumersInv
    <3> QED
      BY <3>1, PastKept DEF PastAccountedFor
  <2>2. CASE /\ pos'[c] = pos[c] + 1
             /\ pos[c] < Len(topic)
             /\ NowAccountedFor(pos[c] + 1)
    BY <2>2, DoneAccountedFor DEF ConsumersInv, PastAccountedFor
  <2> QED
    BY <2>1, <2>2
<1>2. PastAccountedFor(committed)'
  <2>1. committed' \in 0 .. Len(topic) /\ PastAccountedFor(committed')
    BY DEF ConsumersInv
  <2> QED
    BY <2>1, PastKept DEF PastAccountedFor
<1> QED
  BY <1>1, <1>2 DEF ConsumersInv

(* Growth keeps what dead letters stand for.                               *)
LEMMA DeadLettersKept ==
  ASSUME IndexerInv, Grown, UNCHANGED dlq PROVE DeadLettersFaithful'
BY Sizes DEF IndexerInv, DeadLettersFaithful, Grown

LEMMA BackInTopicKept ==
  ASSUME TypeOK, DeadLettersFaithful, Grown, NEW d \in 1 .. Len(dlq), BackInTopic(d)
  PROVE  BackInTopic(d)'
<1> USE Sizes
<1>1. PICK q \in dlq[d].offset + 1 .. Len(topic) : topic[q] = dlq[d].msg
  BY DEF BackInTopic
<1>2. dlq[d].offset \in 1 .. Len(topic) /\ dlq'[d] = dlq[d]
  BY DEF DeadLettersFaithful, Grown
<1>3. q \in dlq'[d].offset + 1 .. Len(topic') /\ topic'[q] = topic[q]
  BY <1>1, <1>2 DEF Grown
<1> QED
  BY <1>1, <1>2, <1>3 DEF BackInTopic

LEMMA RedriveKept ==
  ASSUME IndexerInv, Grown, UNCHANGED redriver PROVE RedriveInv'
BY Sizes, BackInTopicKept
   DEF IndexerInv, RedriveInv, redriver, InHand, LimitRespected, TypeOK

(* A record in hand stays what it is.                                      *)
LEMMA CurrentKept ==
  ASSUME TypeOK, Grown, NEW c \in Consumers, pc[c] \in {"index", "dlq"},
         pos'[c] = pos[c]
  PROVE  Current(c)' = Current(c) /\ Current(c) \in Messages
<1>1. pos[c] + 1 \in 1 .. Len(topic)
  BY Sizes DEF TypeOK
<1> QED
  BY <1>1, Sizes DEF Current, Grown

(* The types after a step of a member.                                     *)
LEMMA MemberTypes ==
  ASSUME TypeOK, Grown, UNCHANGED redriver,
         faults' \in Nat, indexed' \subseteq Messages,
         committed' \in 0 .. Len(topic), owner' \in Consumers \cup {NoOwner},
         pc' \in [Consumers -> {"out", "ready", "index", "dlq"}],
         pos' \in [Consumers -> Nat],
         attempt' \in [Consumers -> 0 .. MaxIndexAttempts],
         \A c \in Consumers :
           /\ pos'[c] <= Len(topic)
           /\ pc'[c] \in {"index", "dlq"} => pos'[c] < Len(topic)
  PROVE  TypeOK'
<1>1. /\ Len(topic) \in Nat /\ Len(topic') \in Nat /\ Len(topic) <= Len(topic')
      /\ Len(dlq) \in Nat /\ Len(dlq') \in Nat /\ Len(dlq) <= Len(dlq')
  BY Sizes DEF Grown
<1>2. topic' \in Seq(Messages) /\ dlq' \in Seq(Record)
  BY DEF Grown
<1>3. committed' \in 0 .. Len(topic')
  BY <1>1
<1>4. /\ dlqCommitted' \in 0 .. Len(dlq') /\ redrives' \in Nat
      /\ cli' \in [step: {"idle", "consume", "republish", "commit"}, from: Nat,
                   pos: Nat, count: Nat, dryRun: BOOLEAN]
      /\ cli'.pos <= Len(dlq')
      /\ cli'.step \in {"republish", "commit"} => cli'.pos < Len(dlq')
  <2>1. /\ cli.pos \in Nat /\ cli.pos <= Len(dlq)
        /\ cli.step \in {"republish", "commit"} => cli.pos < Len(dlq)
        /\ dlqCommitted \in 0 .. Len(dlq)
    BY DEF TypeOK
  <2>2. cli' = cli /\ dlqCommitted' = dlqCommitted /\ redrives' = redrives
    BY DEF redriver
  <2>3. /\ dlqCommitted' \in 0 .. Len(dlq') /\ cli.pos <= Len(dlq')
        /\ cli.step \in {"republish", "commit"} => cli.pos < Len(dlq')
    BY <1>1, <2>1, <2>2
  <2> QED
    BY <2>2, <2>3 DEF TypeOK
<1>5. \A c \in Consumers :
        /\ pos'[c] <= Len(topic')
        /\ pc'[c] \in {"index", "dlq"} => pos'[c] < Len(topic')
  BY <1>1
<1> QED
  BY <1>2, <1>3, <1>4, <1>5 DEF TypeOK

-----------------------------------------------------------------------------
(* The producer.                                                           *)
LEMMA ProduceKeeps ==
  ASSUME IndexerInv, NEW m \in Messages, Produce(m) PROVE IndexerInv'
<1> USE Sizes DEF IndexerInv, Produce, group, redriver
<1>1. /\ topic' \in Seq(Messages)
      /\ Len(topic') = Len(topic) + 1
      /\ \A o \in 1 .. Len(topic) : topic'[o] = topic[o]
  BY AppendGrows DEF TypeOK
<1>2. Grown /\ TypeOK'
  BY <1>1 DEF TypeOK, Grown
<1>3. KindsRespected'
  <2>1. ASSUME NEW c \in Consumers, pc[c] \in {"index", "dlq"}
        PROVE  Current(c)' = Current(c)
    BY <1>2, <2>1, CurrentKept
  <2> QED
    BY <2>1 DEF KindsRespected
<1>4. ConsumersInv'
  BY <1>2, ConsumersStep DEF ConsumersInv
<1> QED
  BY <1>2, <1>3, <1>4, DeadLettersKept, RedriveKept

(* Members join, are replaced, and die.                                    *)
LEMMA ResumeKeeps ==
  ASSUME IndexerInv, NEW c \in Consumers, Resume(c),
         faults' \in Nat PROVE IndexerInv'
<1> USE Sizes, IndexerAssumption DEF IndexerInv, Resume, redriver
<1>1. Grown /\ TypeOK'
  BY UnchangedGrown DEF TypeOK
<1>2. KindsRespected'
  BY DEF TypeOK, KindsRespected, Current
<1>3. ConsumersInv'
  BY <1>1, ConsumersStep DEF ConsumersInv, TypeOK
<1> QED
  BY <1>1, <1>2, <1>3, DeadLettersKept, RedriveKept

LEMMA EvictedKeeps ==
  ASSUME IndexerInv, NEW c \in Consumers, Evicted(c) PROVE IndexerInv'
<1> USE Sizes, IndexerAssumption DEF IndexerInv, Evicted, redriver
<1>1. Grown /\ TypeOK'
  BY UnchangedGrown DEF TypeOK
<1>2. KindsRespected'
  BY DEF TypeOK, KindsRespected, Current
<1>3. ConsumersInv'
  BY <1>1, ConsumersStep DEF ConsumersInv, TypeOK
<1> QED
  BY <1>1, <1>2, <1>3, DeadLettersKept, RedriveKept

LEMMA CrashKeeps ==
  ASSUME IndexerInv, NEW c \in Consumers, Crash(c) PROVE IndexerInv'
<1> USE Sizes, IndexerAssumption DEF IndexerInv, Crash, Fault, redriver
<1>1. Grown /\ TypeOK'
  BY UnchangedGrown DEF TypeOK
<1>2. KindsRespected'
  BY DEF TypeOK, KindsRespected, Current
<1>3. ConsumersInv'
  BY <1>1, ConsumersStep DEF ConsumersInv, TypeOK
<1> QED
  BY <1>1, <1>2, <1>3, DeadLettersKept, RedriveKept

LEMMA CommitOffsetKeeps ==
  ASSUME IndexerInv, NEW c \in Consumers, CommitOffset(c) PROVE IndexerInv'
<1> USE Sizes, IndexerAssumption DEF IndexerInv, CommitOffset, group, redriver
<1>1. Grown /\ TypeOK'
  BY UnchangedGrown DEF TypeOK
<1>2. KindsRespected'
  BY DEF TypeOK, KindsRespected, Current
<1>3. ConsumersInv'
  BY <1>1, ConsumersStep DEF ConsumersInv, TypeOK
<1> QED
  BY <1>1, <1>2, <1>3, DeadLettersKept, RedriveKept

(* handleMessage.                                                          *)
LEMMA HandleMessageKeeps ==
  ASSUME IndexerInv, NEW c \in Consumers, HandleMessage(c) PROVE IndexerInv'
<1> USE DEF IndexerInv
<1>1. /\ pc[c] = "ready" /\ pos[c] < Len(topic) /\ pos[c] \in Nat
      /\ UNCHANGED <<topic, dlq, indexed, committed, owner, redriver, faults>>
  BY DEF HandleMessage, Done, Goto, TypeOK
<1>2. Grown
  BY <1>1, UnchangedGrown
<1>3. PICK step \in {"ready", "index", "dlq"}, n \in 0 .. MaxIndexAttempts,
           p \in Nat :
        /\ pc' = [pc EXCEPT ![c] = step] /\ attempt' = [attempt EXCEPT ![c] = n]
        /\ pos' = [pos EXCEPT ![c] = p]
        /\ \/ Kind[Current(c)] = "unknown" /\ step = "ready" /\ p = pos[c] + 1
           \/ Kind[Current(c)] # "unknown" /\ p = pos[c]
  <2>1. /\ 0 \in 0 .. MaxIndexAttempts /\ 1 \in 0 .. MaxIndexAttempts
        /\ pos[c] + 1 \in Nat
    BY <1>1, IndexerAssumption
  <2>2. pos = [pos EXCEPT ![c] = pos[c]]
    BY DEF TypeOK
  <2>3. CASE Kind[Current(c)] = "unknown" /\ Done(c)
    BY <2>1, <2>3 DEF Done
  <2>4. CASE Kind[Current(c)] = "malformed" /\ Goto(c, "dlq", 0)
    BY <1>1, <2>1, <2>2, <2>4 DEF Goto
  <2>5. CASE Kind[Current(c)] \in {"valid", "rejected"} /\ Goto(c, "index", 1)
    BY <1>1, <2>1, <2>2, <2>5 DEF Goto
  <2> QED
    BY <2>3, <2>4, <2>5 DEF HandleMessage
<1>4. /\ pos'[c] = p /\ pc'[c] = step /\ p <= Len(topic) /\ pos[c] <= p
      /\ step # "ready" => p < Len(topic)
      /\ \A x \in Consumers \ {c} : pos'[x] = pos[x] /\ pc'[x] = pc[x]
  BY <1>1, <1>3, Sizes DEF TypeOK
<1>5. TypeOK'
  <2>1. /\ faults' \in Nat /\ indexed' \subseteq Messages
        /\ committed' \in 0 .. Len(topic) /\ owner' \in Consumers \cup {NoOwner}
        /\ pc' \in [Consumers -> {"out", "ready", "index", "dlq"}]
        /\ pos' \in [Consumers -> Nat]
        /\ attempt' \in [Consumers -> 0 .. MaxIndexAttempts]
    BY <1>1, <1>3 DEF TypeOK
  <2>2. \A x \in Consumers :
          /\ pos'[x] <= Len(topic)
          /\ pc'[x] \in {"index", "dlq"} => pos'[x] < Len(topic)
    BY <1>4 DEF TypeOK
  <2> QED
    BY <1>1, <1>2, <2>1, <2>2, MemberTypes
<1>6. KindsRespected'
  <2>1. ASSUME NEW x \in Consumers, pc'[x] \in {"index", "dlq"}
        PROVE  Kind[Current(x)'] # "unknown"
    <3>1. CASE x = c
      BY <1>1, <1>3, <1>4, <2>1, <3>1 DEF Current
    <3>2. CASE x # c
      BY <1>1, <1>4, <2>1, <3>2 DEF Current, KindsRespected
    <3> QED
      BY <3>1, <3>2
  <2> QED
    BY <1>1, <2>1 DEF KindsRespected
<1>7. \/ pos'[c] = pos[c]
      \/ pos'[c] = pos[c] + 1 /\ NowAccountedFor(pos[c] + 1)
  <2>1. Kind[Current(c)] = "unknown" => NowAccountedFor(pos[c] + 1)
    BY DEF NowAccountedFor, Current
  <2>2. CASE Kind[Current(c)] = "unknown" /\ p = pos[c] + 1
    <3>1. NowAccountedFor(pos[c] + 1)
      BY <2>1, <2>2, Zenon
    <3>2. pos'[c] = pos[c] + 1
      BY <1>4, <2>2
    <3> QED
      BY <3>1, <3>2
  <2>3. CASE p = pos[c]
    BY <1>4, <2>3
  <2> QED
    BY <1>3, <2>2, <2>3
<1>8. ConsumersInv'
  <2>1. UNCHANGED dlqCommitted
    BY <1>1 DEF redriver
  <2>2. \A x \in Consumers : pos[x] \in 0 .. pos[x]
    BY Sizes
  <2>3. \A x \in Consumers : owner' = x => pc'[x] # "out" /\ committed' <= pos'[x]
    BY <1>1, <1>3, <1>4, Sizes DEF ConsumersInv
  <2> QED
    BY <1>1, <1>2, <1>4, <1>7, <2>1, <2>2, <2>3, ConsumersStep
<1> QED
  BY <1>1, <1>2, <1>5, <1>6, <1>8, DeadLettersKept, RedriveKept

LEMMA IndexRejectedKeeps ==
  ASSUME IndexerInv, NEW c \in Consumers, IndexRejected(c) PROVE IndexerInv'
<1> USE Sizes, IndexerAssumption DEF IndexerInv, IndexRejected, Goto, redriver
<1>1. Grown /\ TypeOK'
  BY UnchangedGrown DEF TypeOK
<1>2. KindsRespected'
  BY DEF TypeOK, KindsRespected, Current
<1>3. ConsumersInv'
  BY <1>1, ConsumersStep DEF ConsumersInv, TypeOK
<1> QED
  BY <1>1, <1>2, <1>3, DeadLettersKept, RedriveKept

LEMMA IndexMessageKeeps ==
  ASSUME IndexerInv, NEW c \in Consumers, IndexMessage(c) PROVE IndexerInv'
<1> USE DEF IndexerInv
<1>1. /\ pc[c] = "index" /\ Kind[Current(c)] = "valid"
      /\ indexed' = indexed \cup {Current(c)}
      /\ pos' = [pos EXCEPT ![c] = pos[c] + 1]
      /\ pc' = [pc EXCEPT ![c] = "ready"]
      /\ attempt' = [attempt EXCEPT ![c] = 0]
      /\ UNCHANGED <<topic, dlq, committed, owner, redriver, faults>>
  BY DEF IndexMessage, Done
<1>2. /\ pos[c] + 1 \in 1 .. Len(topic) /\ pos[c] \in Nat
      /\ Current(c) = topic[pos[c] + 1] /\ Current(c) \in Messages
  <2>1. pos[c] + 1 \in 1 .. Len(topic) /\ pos[c] \in Nat
    BY <1>1, Sizes DEF TypeOK
  <2> QED
    BY <2>1, Sizes DEF Current
<1>3. Grown
  BY <1>1 DEF TypeOK, Grown
<1>4. /\ pos'[c] = pos[c] + 1 /\ pc'[c] = "ready"
      /\ \A x \in Consumers \ {c} : pos'[x] = pos[x] /\ pc'[x] = pc[x]
  BY <1>1 DEF TypeOK
<1>5. TypeOK'
  <2>1. /\ faults' \in Nat /\ indexed' \subseteq Messages
        /\ committed' \in 0 .. Len(topic) /\ owner' \in Consumers \cup {NoOwner}
        /\ pc' \in [Consumers -> {"out", "ready", "index", "dlq"}]
        /\ pos' \in [Consumers -> Nat]
        /\ attempt' \in [Consumers -> 0 .. MaxIndexAttempts]
    BY <1>1, <1>2, IndexerAssumption DEF TypeOK
  <2>2. \A x \in Consumers :
          /\ pos'[x] <= Len(topic)
          /\ pc'[x] \in {"index", "dlq"} => pos'[x] < Len(topic)
    <3>1. pos[c] + 1 <= Len(topic)
      BY <1>2, Sizes
    <3>2. \A x \in Consumers \ {c} :
            /\ pos[x] <= Len(topic)
            /\ pc[x] \in {"index", "dlq"} => pos[x] < Len(topic)
      BY DEF TypeOK
    <3> QED
      BY <1>4, <3>1, <3>2
  <2> QED
    BY <1>1, <1>3, <2>1, <2>2, MemberTypes
<1>6. KindsRespected'
  <2>1. \A m \in indexed' : Kind[m] = "valid"
    BY <1>1 DEF KindsRespected
  <2>2. \A x \in Consumers :
          pc'[x] \in {"index", "dlq"} => x # c /\ Current(x)' = Current(x)
    BY <1>1, <1>4 DEF Current
  <2> QED
    BY <1>1, <1>4, <2>1, <2>2 DEF KindsRespected
<1>7. NowAccountedFor(pos[c] + 1)
  BY <1>1, <1>2 DEF NowAccountedFor
<1>8. ConsumersInv'
  <2>1. UNCHANGED dlqCommitted
    BY <1>1 DEF redriver
  <2>2. \A x \in Consumers : pos[x] \in 0 .. pos[x]
    BY Sizes
  <2>3. \A x \in Consumers : owner' = x => pc'[x] # "out" /\ committed' <= pos'[x]
    BY <1>1, <1>2, <1>4, Sizes DEF ConsumersInv
  <2> QED
    BY <1>1, <1>2, <1>3, <1>4, <1>7, <2>1, <2>2, <2>3, ConsumersStep
<1> QED
  BY <1>1, <1>3, <1>5, <1>6, <1>8, DeadLettersKept, RedriveKept

LEMMA IndexRetryableErrorKeeps ==
  ASSUME IndexerInv, NEW c \in Consumers, IndexRetryableError(c)
  PROVE  IndexerInv'
<1> USE DEF IndexerInv
<1>1. /\ pc[c] = "index"
      /\ UNCHANGED <<topic, dlq, committed, owner, pos, redriver, faults>>
  BY DEF IndexRetryableError, Goto
<1>2. /\ Current(c) \in Messages
      /\ \/ indexed' = indexed
         \/ Kind[Current(c)] = "valid" /\ indexed' = indexed \cup {Current(c)}
  <2>1. pos[c] + 1 \in 1 .. Len(topic)
    BY <1>1, Sizes DEF TypeOK
  <2> QED
    BY <2>1, Sizes DEF Current, IndexRetryableError
<1>3. PICK step \in {"index", "dlq"}, n \in 0 .. MaxIndexAttempts :
        pc' = [pc EXCEPT ![c] = step] /\ attempt' = [attempt EXCEPT ![c] = n]
  <2>1. attempt[c] \in 0 .. MaxIndexAttempts /\ MaxIndexAttempts \in Nat
    BY IndexerAssumption DEF TypeOK
  <2>2. CASE attempt[c] < MaxIndexAttempts
    <3>1. attempt[c] + 1 \in 0 .. MaxIndexAttempts
      BY <2>1, <2>2
    <3> QED
      BY <2>2, <3>1 DEF IndexRetryableError, Goto
  <2>3. CASE ~(attempt[c] < MaxIndexAttempts)
    <3>1. 0 \in 0 .. MaxIndexAttempts
      BY <2>1
    <3> QED
      BY <2>3, <3>1 DEF IndexRetryableError, Goto
  <2> QED
    BY <2>2, <2>3
<1>4. Grown
  BY <1>1, <1>2 DEF TypeOK, Grown
<1>5. \A x \in Consumers :
        (x = c /\ pc'[x] # "out") \/ pc'[x] = pc[x]
  BY <1>3 DEF TypeOK
<1>6. TypeOK'
  <2>1. /\ faults' \in Nat /\ indexed' \subseteq Messages
        /\ committed' \in 0 .. Len(topic) /\ owner' \in Consumers \cup {NoOwner}
        /\ pc' \in [Consumers -> {"out", "ready", "index", "dlq"}]
        /\ pos' \in [Consumers -> Nat]
        /\ attempt' \in [Consumers -> 0 .. MaxIndexAttempts]
    BY <1>1, <1>2, <1>3 DEF TypeOK
  <2>2. \A x \in Consumers :
          /\ pos'[x] <= Len(topic)
          /\ pc'[x] \in {"index", "dlq"} => pos'[x] < Len(topic)
    BY <1>1, <1>5 DEF TypeOK
  <2> QED
    BY <1>1, <1>4, <2>1, <2>2, MemberTypes
<1>7. KindsRespected'
  <2>1. \A x \in Consumers : Current(x)' = Current(x)
    BY <1>1 DEF Current
  <2>2. \A x \in Consumers :
          pc'[x] \in {"index", "dlq"} => pc[x] \in {"index", "dlq"}
    BY <1>1, <1>5
  <2> QED
    BY <1>1, <1>2, <2>1, <2>2 DEF KindsRespected
<1>8. ConsumersInv'
  <2>1. UNCHANGED dlqCommitted
    BY <1>1 DEF redriver
  <2>2. \A x \in Consumers : pos'[x] \in 0 .. pos[x]
    BY <1>1, Sizes
  <2>3. \A x \in Consumers : owner' = x => pc'[x] # "out" /\ committed' <= pos'[x]
    BY <1>1, <1>5 DEF ConsumersInv
  <2> QED
    BY <1>1, <1>4, <2>1, <2>2, <2>3, ConsumersStep
<1> QED
  BY <1>1, <1>4, <1>6, <1>7, <1>8, DeadLettersKept, RedriveKept

(* What a dead letter says when it is written.                             *)
LEMMA DlqRecordFaithful ==
  ASSUME IndexerInv, NEW c \in Consumers, pc[c] = "dlq"
  PROVE  /\ DlqRecord(c) \in Record
         /\ DlqRecord(c).msg = topic[pos[c] + 1]
         /\ DlqRecord(c).offset = pos[c] + 1
         /\ pos[c] + 1 \in 1 .. Len(topic)
         /\ Kind[DlqRecord(c).msg] # "unknown"
<1> USE DEF IndexerInv
<1>1. pos[c] < Len(topic) /\ pos[c] \in Nat
  BY DEF TypeOK
<1>2. pos[c] + 1 \in 1 .. Len(topic) /\ topic[pos[c] + 1] \in Messages
  BY <1>1, Sizes
<1>3. Kind[topic[pos[c] + 1]] # "unknown"
  BY DEF KindsRespected, Current
<1> QED
  BY <1>1, <1>2, <1>3 DEF DlqRecord, Record, Current

(* The DLQ grows by such a record.                                         *)
LEMMA DlqGrows ==
  ASSUME IndexerInv, NEW c \in Consumers, pc[c] = "dlq",
         dlq' = Append(dlq, DlqRecord(c)), UNCHANGED <<topic, indexed, redriver>>
  PROVE  /\ Grown
         /\ DeadLettersFaithful'
         /\ Len(dlq') = Len(dlq) + 1
         /\ \A d \in 1 .. Len(dlq') : Kind[dlq'[d].msg] # "unknown"
         /\ NowAccountedFor(pos[c] + 1)
<1> USE Sizes DEF IndexerInv
<1> DEFINE r == DlqRecord(c)
<1>1. /\ r \in Record /\ r.msg = topic[pos[c] + 1] /\ r.offset = pos[c] + 1
      /\ pos[c] + 1 \in 1 .. Len(topic) /\ Kind[r.msg] # "unknown"
  BY DlqRecordFaithful
<1> HIDE DEF r
<1>2. /\ dlq' \in Seq(Record) /\ Len(dlq') = Len(dlq) + 1
      /\ dlq'[Len(dlq) + 1] = r
      /\ \A d \in 1 .. Len(dlq) : dlq'[d] = dlq[d]
  <2>1. dlq \in Seq(Record) /\ dlq' = Append(dlq, r)
    BY DEF TypeOK, r
  <2> QED
    BY <1>1, <2>1, AppendGrows
<1>3. Grown
  BY <1>2 DEF Grown, TypeOK
<1>4. DeadLettersFaithful'
  BY <1>1, <1>2 DEF DeadLettersFaithful
<1>5. \A d \in 1 .. Len(dlq') : Kind[dlq'[d].msg] # "unknown"
  BY <1>1, <1>2 DEF KindsRespected
<1>6. NowAccountedFor(pos[c] + 1)
  <2>1. Len(dlq) + 1 \in PendingDeadLetters'
    BY <1>2 DEF PendingDeadLetters, redriver
  <2>2. pos[c] + 1 <= r.offset
    BY <1>1
  <2> QED
    BY <1>1, <1>2, <2>1, <2>2 DEF NowAccountedFor
<1> QED
  BY <1>2, <1>3, <1>4, <1>5, <1>6

LEMMA PublishToDlqKeeps ==
  ASSUME IndexerInv, NEW c \in Consumers, PublishToDlq(c) PROVE IndexerInv'
<1> USE Sizes DEF IndexerInv, PublishToDlq, Done
<1>1. /\ Grown /\ DeadLettersFaithful' /\ Len(dlq') = Len(dlq) + 1
      /\ \A d \in 1 .. Len(dlq') : Kind[dlq'[d].msg] # "unknown"
      /\ NowAccountedFor(pos[c] + 1)
  BY DlqGrows
<1>2. /\ pos[c] + 1 \in 1 .. Len(topic)
      /\ pos' = [pos EXCEPT ![c] = pos[c] + 1]
      /\ pc' = [pc EXCEPT ![c] = "ready"]
      /\ attempt' = [attempt EXCEPT ![c] = 0]
      /\ UNCHANGED <<topic, indexed, committed, owner, redriver, faults>>
  BY DlqRecordFaithful
<1>3. dlq' \in Seq(Record) /\ Len(dlq') \in Nat
  BY <1>1 DEF Grown
<1> HIDE DEF PublishToDlq
<1>4. TypeOK'
  <2>1. /\ faults' \in Nat /\ indexed' \subseteq Messages
        /\ committed' \in 0 .. Len(topic) /\ owner' \in Consumers \cup {NoOwner}
        /\ pc' \in [Consumers -> {"out", "ready", "index", "dlq"}]
        /\ pos' \in [Consumers -> Nat]
        /\ attempt' \in [Consumers -> 0 .. MaxIndexAttempts]
    BY <1>2, IndexerAssumption DEF TypeOK
  <2>2. \A x \in Consumers :
          /\ pos'[x] <= Len(topic)
          /\ pc'[x] \in {"index", "dlq"} => pos'[x] < Len(topic)
    BY <1>2 DEF TypeOK
  <2> QED
    BY <1>1, <1>2, <2>1, <2>2, MemberTypes
<1>5. KindsRespected'
  BY <1>1, <1>2 DEF TypeOK, KindsRespected, Current
<1>6. ConsumersInv'
  <2>1. /\ pos'[c] = pos[c] + 1 /\ pc'[c] = "ready"
        /\ \A x \in Consumers \ {c} : pos'[x] = pos[x] /\ pc'[x] = pc[x]
    BY <1>2 DEF TypeOK
  <2> QED
    BY <1>1, <1>2, <2>1, ConsumersStep DEF ConsumersInv, redriver
<1> QED
  BY <1>1, <1>2, <1>4, <1>5, <1>6, RedriveKept

LEMMA PublishToDlqErrorKeeps ==
  ASSUME IndexerInv, NEW c \in Consumers, PublishToDlqError(c)
  PROVE  IndexerInv'
<1> USE Sizes DEF IndexerInv, PublishToDlqError, Fault
<1>1. /\ Grown /\ DeadLettersFaithful' /\ Len(dlq) <= Len(dlq')
      /\ \A d \in 1 .. Len(dlq') : Kind[dlq'[d].msg] # "unknown"
  <2>1. CASE dlq' = dlq
    BY <2>1, UnchangedGrown, DeadLettersKept DEF KindsRespected
  <2>2. CASE dlq' = Append(dlq, DlqRecord(c))
    BY <2>2, DlqGrows
  <2> QED
    BY <2>1, <2>2
<1>2. PICK p \in 0 .. pos[c] : /\ owner = c => committed <= p
                               /\ pos' = [pos EXCEPT ![c] = p]
  OBVIOUS
<1>3. /\ pc' = [pc EXCEPT ![c] = "ready"]
      /\ faults' \in Nat
      /\ UNCHANGED <<topic, indexed, committed, owner, attempt, redriver>>
  BY DEF TypeOK
<1>4. dlq' \in Seq(Record) /\ Len(dlq') \in Nat
  BY <1>1 DEF Grown
<1> HIDE DEF PublishToDlqError
<1>5. p \in 0 .. Len(topic)
  OBVIOUS
<1>6. TypeOK'
  <2>1. /\ faults' \in Nat /\ indexed' \subseteq Messages
        /\ committed' \in 0 .. Len(topic) /\ owner' \in Consumers \cup {NoOwner}
        /\ pc' \in [Consumers -> {"out", "ready", "index", "dlq"}]
        /\ pos' \in [Consumers -> Nat]
        /\ attempt' \in [Consumers -> 0 .. MaxIndexAttempts]
    BY <1>2, <1>3, <1>5 DEF TypeOK
  <2>2. \A x \in Consumers :
          /\ pos'[x] <= Len(topic)
          /\ pc'[x] \in {"index", "dlq"} => pos'[x] < Len(topic)
    BY <1>2, <1>3, <1>5 DEF TypeOK
  <2> QED
    BY <1>1, <1>3, <2>1, <2>2, MemberTypes
<1>7. KindsRespected'
  BY <1>1, <1>2, <1>3 DEF TypeOK, KindsRespected, Current
<1>8. ConsumersInv'
  <2>1. /\ pos'[c] \in 0 .. pos[c] /\ pos'[c] = p /\ pc'[c] = "ready"
        /\ \A x \in Consumers \ {c} : pos'[x] = pos[x] /\ pc'[x] = pc[x]
    BY <1>2, <1>3 DEF TypeOK
  <2> QED
    BY <1>1, <1>2, <1>3, <2>1, ConsumersStep DEF ConsumersInv, redriver
<1> QED
  BY <1>1, <1>3, <1>6, <1>7, <1>8, RedriveKept

-----------------------------------------------------------------------------
(* dlq:redrive.                                                            *)
CliType == [step: {"idle", "consume", "republish", "commit"}, from: Nat,
            pos: Nat, count: Nat, dryRun: BOOLEAN]

CliFits(run) ==
    /\ run \in CliType
    /\ run.pos <= Len(dlq)
    /\ run.step \in {"republish", "commit"} => run.pos < Len(dlq)

LEMMA CliFitsNow == ASSUME TypeOK PROVE CliFits(cli)
BY DEF TypeOK, CliFits, CliType

(* Steps of the command that only move the run itself.                     *)
LEMMA CliStep ==
  ASSUME IndexerInv, UNCHANGED <<topic, dlq, indexed, committed, group, dlqCommitted>>,
         redrives' \in Nat, faults' \in Nat, CliFits(cli'), RedriveInv'
  PROVE  IndexerInv'
<1> USE DEF IndexerInv, group
<1>1. Grown
  BY UnchangedGrown
<1>2. TypeOK'
  BY DEF TypeOK, CliFits, CliType
<1>3. KindsRespected' /\ ConsumersInv'
  BY <1>1, ConsumersStep, Sizes DEF KindsRespected, Current, ConsumersInv
<1> QED
  BY <1>1, <1>2, <1>3, DeadLettersKept

LEMMA RedriveStartKeeps ==
  ASSUME IndexerInv, NEW dryRun \in BOOLEAN, RedriveStart(dryRun)
  PROVE  IndexerInv'
<1> USE Sizes, IndexerAssumption DEF IndexerInv, RedriveStart
<1>1. CliFits(cli') /\ redrives' \in Nat /\ faults' \in Nat
  BY DEF CliFits, CliType, TypeOK
<1>2. RedriveInv'
  BY DEF RedriveInv, InHand, LimitRespected, BackInTopic
<1> QED
  BY <1>1, <1>2, CliStep

(* The run goes on behind record p, or ends.                               *)
LEMMA NextRunFits ==
  ASSUME TypeOK, cli.step # "idle", cli.from <= cli.pos,
         NEW p \in Nat, p = cli.pos + 1, p <= Len(dlq),
         NEW count \in Nat, p <= cli.from + count
  PROVE  /\ CliFits(NextRun(p, count))
         /\ \/ NextRun(p, count).step = "idle"
            \/ /\ NextRun(p, count).step = "consume"
               /\ NextRun(p, count).from = cli.from
               /\ NextRun(p, count).pos = p
               /\ NextRun(p, count).count = count
               /\ NextRun(p, count).dryRun = cli.dryRun
               /\ p < cli.from + Limit
<1>1. CASE count >= Limit
  <2>1. NextRun(p, count) = Idle
    BY <1>1 DEF NextRun
  <2>2. CliFits(Idle)
    BY Sizes DEF Idle, CliFits, CliType
  <2> QED
    BY <2>1, <2>2 DEF Idle
<1>2. CASE ~(count >= Limit)
  <2>1. cli \in CliType /\ cli.from \in Nat /\ Limit \in Nat
    BY IndexerAssumption DEF TypeOK, CliType
  <2>2. NextRun(p, count) = [cli EXCEPT !.step = "consume", !.pos = p,
                                        !.count = count]
    BY <1>2 DEF NextRun
  <2>3. p < cli.from + Limit
    BY <1>2, <2>1
  <2> QED
    BY <2>1, <2>2, <2>3 DEF CliFits, CliType
<1> QED
  BY <1>1, <1>2

(* One more record is one more to count.                                   *)
LEMMA OneFurther ==
  ASSUME NEW from \in Nat, NEW p \in Nat, NEW n \in Nat,
         from <= p, p <= from + n
  PROVE  /\ from <= p + 1 /\ p + 1 <= from + (n + 1)
         /\ from + (n + 1) \in Nat /\ p + 1 \in Nat
OBVIOUS

LEMMA RedriveConsumeKeeps ==
  ASSUME IndexerInv, RedriveConsume PROVE IndexerInv'
<1> USE DEF IndexerInv
<1>1. /\ cli.step = "consume" /\ cli.pos < Len(dlq)
      /\ UNCHANGED <<topic, dlq, indexed, committed, group, dlqCommitted,
                     redrives, faults>>
      /\ cli' = IF cli.dryRun THEN NextRun(cli.pos + 1, cli.count + 1)
                ELSE [cli EXCEPT !.step = "republish", !.count = @ + 1]
  BY DEF RedriveConsume
<1>2. /\ cli \in CliType /\ cli.pos \in Nat /\ cli.count \in Nat
      /\ cli.from \in Nat /\ Len(dlq) \in Nat /\ Limit \in Nat
  BY Sizes, IndexerAssumption DEF TypeOK, CliType
<1>3. /\ cli.from <= cli.pos /\ cli.pos <= cli.from + cli.count
      /\ cli.pos < cli.from + Limit
      /\ ~cli.dryRun => cli.pos <= dlqCommitted /\ dlqCommitted <= cli.pos + 1
  <2>1. ~InHand
    BY <1>1 DEF InHand
  <2> QED
    BY <1>1, <1>2, <2>1 DEF RedriveInv, LimitRespected
<1>4. \A d \in 1 .. dlqCommitted : BackInTopic(d)'
  <2>1. \A d \in 1 .. dlqCommitted : BackInTopic(d)
    BY DEF RedriveInv
  <2> QED
    BY <1>1, <2>1 DEF BackInTopic
<1>5. CASE cli.dryRun
  <2> DEFINE run == NextRun(cli.pos + 1, cli.count + 1)
  <2>1. /\ CliFits(run)
        /\ \/ run.step = "idle"
           \/ /\ run.step = "consume"
              /\ run.from = cli.from
              /\ run.pos = cli.pos + 1
              /\ run.count = cli.count + 1
              /\ run.dryRun = cli.dryRun
              /\ cli.pos + 1 < cli.from + Limit
    <3>1. /\ cli.pos + 1 \in Nat /\ cli.count + 1 \in Nat
          /\ cli.pos + 1 <= Len(dlq)
          /\ cli.pos + 1 <= cli.from + (cli.count + 1)
      BY <1>1, <1>2, <1>3
    <3> QED
      BY <1>1, <1>3, <3>1, NextRunFits
  <2>2. cli' = run
    BY <1>1, <1>5
  <2> HIDE DEF run
  <2>3. RedriveInv'
    <3>1. CASE run.step = "idle"
      BY <1>1, <1>4, <2>2, <3>1 DEF RedriveInv, InHand, LimitRespected
    <3>2. CASE run.step # "idle"
      <4>0. /\ run.from = cli.from /\ run.pos = cli.pos + 1
            /\ run.count = cli.count + 1 /\ cli.pos + 1 < cli.from + Limit
        BY <2>1, <3>2, Zenon
      <4>1. /\ run.from <= run.pos /\ run.pos <= run.from + run.count
            /\ run.pos < run.from + Limit
            /\ run.from + run.count \in Nat /\ run.pos \in Nat
        <5>1. /\ cli.from <= cli.pos + 1
              /\ cli.pos + 1 <= cli.from + (cli.count + 1)
              /\ cli.from + (cli.count + 1) \in Nat /\ cli.pos + 1 \in Nat
          <6>1. /\ cli.from \in Nat /\ cli.pos \in Nat /\ cli.count \in Nat
                /\ cli.from <= cli.pos /\ cli.pos <= cli.from + cli.count
            BY <1>2, <1>3
          <6> QED
            BY <6>1, OneFurther
        <5> QED
          BY <4>0, <5>1, Zenon
      <4>2. run.dryRun /\ run.step = "consume"
        BY <1>5, <2>1, <3>2, Zenon
      <4>3. run.pos + 0 <= run.from + run.count
        BY <4>1
      <4>4. ~InHand' /\ cli'.step # "commit" /\ cli'.dryRun
        BY <2>2, <4>2 DEF InHand
      <4>5. LimitRespected'
        BY <2>2, <4>1 DEF LimitRespected
      <4>6. /\ cli'.from <= cli'.pos
            /\ cli'.pos + (IF InHand' THEN 1 ELSE 0) <= cli'.from + cli'.count
        BY <2>2, <4>1, <4>3, <4>4
      <4> QED
        BY <1>1, <1>4, <4>4, <4>5, <4>6 DEF RedriveInv
    <3> QED
      BY <3>1, <3>2
  <2> QED
    BY <1>1, <2>1, <2>2, <2>3, CliStep DEF TypeOK
<1>6. CASE ~cli.dryRun
  <2>0. cli' = [cli EXCEPT !.step = "republish", !.count = cli.count + 1]
    BY <1>1, <1>6
  <2>1. /\ CliFits(cli') /\ cli'.step = "republish" /\ cli'.pos = cli.pos
        /\ cli'.from = cli.from /\ cli'.count = cli.count + 1 /\ ~cli'.dryRun
    <3>1. /\ cli'.step = "republish" /\ cli'.pos = cli.pos /\ cli'.from = cli.from
          /\ cli'.count = cli.count + 1 /\ cli'.dryRun = cli.dryRun
          /\ cli' \in CliType
      <4> DEFINE n == cli.count + 1
      <4>1. n \in Nat
        BY <1>2
      <4> HIDE DEF n
      <4>2. cli' = [[cli EXCEPT !.step = "republish"] EXCEPT !.count = n]
        BY <2>0 DEF n
      <4>3. /\ cli'.step = "republish" /\ cli'.pos = cli.pos /\ cli'.from = cli.from
            /\ cli'.count = n /\ cli'.dryRun = cli.dryRun
        BY <1>2, <4>2 DEF CliType
      <4>4. cli' \in CliType
        BY <1>2, <4>1, <4>2 DEF CliType
      <4> QED
        BY <4>3, <4>4 DEF n
    <3>2. CliFits(cli')
      BY <1>1, <1>2, <3>1 DEF CliFits
    <3>3. ~cli'.dryRun
      BY <1>6, <3>1, Zenon
    <3> QED
      BY <3>1, <3>2, <3>3
  <2>2. cli'.pos + 1 <= cli'.from + cli'.count
    BY <1>2, <1>3, <2>1
  <2>3. RedriveInv'
    BY <1>1, <1>3, <1>4, <1>6, <2>1, <2>2 DEF RedriveInv, InHand, LimitRespected
  <2> QED
    BY <1>1, <2>1, <2>3, CliStep DEF TypeOK
<1> QED
  BY <1>5, <1>6

LEMMA RedriveStopKeeps ==
  ASSUME IndexerInv, RedriveStop PROVE IndexerInv'
<1> USE Sizes DEF IndexerInv, RedriveStop, Idle
<1>1. CliFits(cli')
  BY DEF CliFits, CliType
<1>2. RedriveInv'
  BY DEF RedriveInv, InHand, LimitRespected, BackInTopic
<1> QED
  BY <1>1, <1>2, CliStep DEF TypeOK

(* The event of the dead letter in hand may be appended.                   *)
LEMMA RepublishStep ==
  ASSUME IndexerInv, cli.step = "republish", NEW next \in {"consume", "commit"},
         cli' = [cli EXCEPT !.step = next], faults' \in Nat,
         \/ topic' = topic /\ next = "consume"
         \/ topic' = Append(topic, dlq[cli.pos + 1].msg),
         UNCHANGED <<dlq, indexed, committed, group, dlqCommitted, redrives>>
  PROVE  IndexerInv'
<1> USE Sizes DEF IndexerInv, group
<1> DEFINE m == dlq[cli.pos + 1].msg
<1>1. /\ cli.pos + 1 \in 1 .. Len(dlq) /\ m \in Messages
      /\ dlq[cli.pos + 1].offset \in 1 .. Len(topic)
  <2>1. cli.pos + 1 \in 1 .. Len(dlq)
    BY CliFitsNow DEF CliFits, CliType
  <2>2. dlq[cli.pos + 1] \in Record
    BY <2>1
  <2> QED
    BY <2>1, <2>2 DEF Record, DeadLettersFaithful
<1>2. \/ topic' = topic /\ next = "consume"
      \/ topic' = Append(topic, m)
  OBVIOUS
<1> HIDE DEF m
<1>3. topic \in Seq(Messages)
  BY DEF TypeOK
<1>4. /\ topic' \in Seq(Messages)
      /\ Len(topic) <= Len(topic')
      /\ \A o \in 1 .. Len(topic) : topic'[o] = topic[o]
      /\ next = "commit" => /\ Len(topic') = Len(topic) + 1
                            /\ topic'[Len(topic) + 1] = m
  <2>1. CASE topic' = Append(topic, m)
    <3>1. /\ topic' \in Seq(Messages) /\ Len(topic') = Len(topic) + 1
          /\ topic'[Len(topic) + 1] = m
          /\ \A o \in 1 .. Len(topic) : topic'[o] = topic[o]
      BY <1>1, <1>3, <2>1, AppendGrows
    <3> QED
      BY <3>1
  <2>2. CASE topic' = topic /\ next = "consume"
    BY <1>3, <2>2
  <2> QED
    BY <1>2, <2>1, <2>2
<1>5. Grown
  BY <1>4 DEF Grown, TypeOK
<1>6. /\ CliFits(cli') /\ cli'.step = next /\ cli'.pos = cli.pos
      /\ cli'.from = cli.from /\ cli'.count = cli.count /\ cli'.dryRun = cli.dryRun
  BY CliFitsNow DEF CliFits, CliType
<1>7. TypeOK'
  <2>1. Len(topic') \in Nat /\ Len(topic) \in Nat
    BY <1>4
  <2>2. committed' \in 0 .. Len(topic')
    BY <1>4, <2>1 DEF TypeOK
  <2>3. \A c \in Consumers :
          /\ pos'[c] <= Len(topic')
          /\ pc'[c] \in {"index", "dlq"} => pos'[c] < Len(topic')
    BY <1>4, <2>1 DEF TypeOK
  <2>4. /\ cli' \in CliType /\ cli'.pos <= Len(dlq')
        /\ cli'.step \in {"republish", "commit"} => cli'.pos < Len(dlq')
    BY <1>6 DEF CliFits
  <2> QED
    BY <1>4, <2>2, <2>3, <2>4 DEF TypeOK, CliType
<1>8. RedriveInv'
  <2>1. next = "commit" => BackInTopic(cli.pos + 1)'
    <3> SUFFICES ASSUME next = "commit" PROVE BackInTopic(cli.pos + 1)'
      OBVIOUS
    <3>1. /\ Len(topic) + 1 \in dlq'[cli'.pos + 1].offset + 1 .. Len(topic')
          /\ topic'[Len(topic) + 1] = m
      BY <1>1, <1>4, <1>6
    <3> QED
      BY <1>6, <3>1 DEF BackInTopic, m
  <2>2. \A d \in 1 .. dlqCommitted : BackInTopic(d)'
    BY <1>5, BackInTopicKept DEF RedriveInv
  <2>3. cli.pos \in Nat /\ cli.from \in Nat /\ cli.count \in Nat
    BY CliFitsNow DEF CliFits, CliType
  <2>4. /\ cli.from <= cli.pos /\ cli.pos + 1 <= cli.from + cli.count
        /\ ~cli.dryRun /\ cli.pos <= dlqCommitted
        /\ dlqCommitted <= cli.pos + 1 /\ cli.pos < cli.from + Limit
    BY DEF RedriveInv, InHand, LimitRespected
  <2> QED
    BY <1>6, <2>1, <2>2, <2>3, <2>4 DEF RedriveInv, InHand, LimitRespected
<1>9. KindsRespected'
  <2>1. ASSUME NEW c \in Consumers, pc[c] \in {"index", "dlq"}
        PROVE  Current(c)' = Current(c)
    BY <1>5, <2>1, CurrentKept
  <2> QED
    BY <2>1 DEF KindsRespected
<1>10. ConsumersInv'
  BY <1>5, ConsumersStep DEF ConsumersInv
<1> QED
  BY <1>5, <1>7, <1>8, <1>9, <1>10, DeadLettersKept

LEMMA RedriveCommitStep ==
  ASSUME IndexerInv, cli.step = "commit", faults' \in Nat,
         dlqCommitted' \in {dlqCommitted, cli.pos + 1},
         \/ cli' = [cli EXCEPT !.step = "consume"]
         \/ /\ cli' = NextRun(cli.pos + 1, cli.count)
            /\ dlqCommitted' = cli.pos + 1,
         UNCHANGED <<topic, dlq, indexed, committed, group, redrives>>
  PROVE  IndexerInv'
<1> USE Sizes DEF IndexerInv, group
<1>1. /\ cli.pos \in Nat /\ cli.from \in Nat /\ cli.count \in Nat
      /\ cli.pos < Len(dlq) /\ CliFits(cli)
  BY CliFitsNow DEF CliFits, CliType
<1>2. /\ cli.from <= cli.pos /\ cli.pos + 1 <= cli.from + cli.count
      /\ ~cli.dryRun /\ cli.pos <= dlqCommitted
      /\ dlqCommitted <= cli.pos + 1 /\ cli.pos < cli.from + Limit
      /\ BackInTopic(cli.pos + 1)
  BY DEF RedriveInv, InHand, LimitRespected
<1>3. dlqCommitted' \in 0 .. Len(dlq)
  BY <1>1
<1>4. /\ CliFits(cli')
      /\ \/ cli'.step = "idle"
         \/ /\ cli'.step = "consume" /\ cli'.from = cli.from
            /\ cli'.count = cli.count /\ ~cli'.dryRun
            /\ \/ cli'.pos = cli.pos
               \/ /\ cli'.pos = cli.pos + 1 /\ dlqCommitted' = cli.pos + 1
                  /\ cli.pos + 1 < cli.from + Limit
  <2>1. CASE cli' = [cli EXCEPT !.step = "consume"]
    BY <1>1, <1>2, <2>1 DEF CliFits, CliType
  <2>2. CASE /\ cli' = NextRun(cli.pos + 1, cli.count)
             /\ dlqCommitted' = cli.pos + 1
    BY <1>1, <1>2, <2>2, NextRunFits
  <2> QED
    BY <2>1, <2>2
<1>5. TypeOK'
  BY <1>3, <1>4 DEF TypeOK, CliFits, CliType
<1>6. \A d \in 1 .. dlqCommitted' : BackInTopic(d)
  <2>1. \A d \in 1 .. dlqCommitted : BackInTopic(d)
    BY DEF RedriveInv
  <2>2. ASSUME NEW d \in 1 .. dlqCommitted'
        PROVE  d \in 1 .. dlqCommitted \/ d = cli.pos + 1
    BY <1>1, <1>2
  <2> QED
    BY <1>2, <2>1, <2>2
<1>7. RedriveInv'
  <2>1. \A d \in 1 .. dlqCommitted' : BackInTopic(d)'
    BY <1>6 DEF BackInTopic
  <2>2. /\ dlqCommitted' \in Nat /\ cli.pos <= dlqCommitted'
        /\ dlqCommitted' <= cli.pos + 1
    BY <1>1, <1>2
  <2> QED
    BY <1>1, <1>2, <1>4, <2>1, <2>2 DEF RedriveInv, InHand, LimitRespected
<1>8. KindsRespected' /\ DeadLettersFaithful'
  BY DEF KindsRespected, DeadLettersFaithful, Current
<1>9. ConsumersInv'
  BY RedriveKeepsPast DEF ConsumersInv, PastAccountedFor
<1> QED
  BY <1>5, <1>7, <1>8, <1>9

LEMMA RedriveKeeps ==
  ASSUME IndexerInv, Redrive PROVE IndexerInv'
<1>1. faults \in Nat /\ faults + 1 \in Nat
  BY DEF IndexerInv, TypeOK
<1>2. CASE RedriveRepublish
  BY <1>1, <1>2, RepublishStep DEF RedriveRepublish
<1>3. CASE RedriveRepublishError
  BY <1>1, <1>3, RepublishStep DEF RedriveRepublishError, Fault
<1>4. CASE RedriveCommit
  BY <1>1, <1>4, RedriveCommitStep DEF RedriveCommit
<1>5. CASE RedriveCommitError
  BY <1>1, <1>5, RedriveCommitStep DEF RedriveCommitError, Fault
<1> QED
  BY <1>2, <1>3, <1>4, <1>5, RedriveStartKeeps, RedriveConsumeKeeps,
     RedriveStopKeeps DEF Redrive

-----------------------------------------------------------------------------
LEMMA InvInit == Init => IndexerInv
BY IndexerAssumption, EmptySeq
   DEF Init, IndexerInv, TypeOK, DeadLettersFaithful, KindsRespected, RedriveInv,
       InHand, LimitRespected, ConsumersInv, PastAccountedFor, Idle

LEMMA GroupKeeps ==
  ASSUME IndexerInv, Group PROVE IndexerInv'
<1>1. PICK c \in Consumers :
        Join(c) \/ TakeOver(c) \/ Evicted(c) \/ Crash(c) \/ Work(c)
  BY DEF Group
<1>2. CASE Join(c) \/ TakeOver(c)
  <2>1. Resume(c) /\ faults' \in Nat
    BY <1>2 DEF Join, TakeOver, Fault, IndexerInv, TypeOK
  <2> QED
    BY <2>1, ResumeKeeps
<1>3. CASE Evicted(c) \/ Crash(c)
  BY <1>3, EvictedKeeps, CrashKeeps
<1>4. CASE Work(c)
  BY <1>4, CommitOffsetKeeps, HandleMessageKeeps, IndexMessageKeeps,
     IndexRetryableErrorKeeps, IndexRejectedKeeps, PublishToDlqKeeps,
     PublishToDlqErrorKeeps DEF Work
<1> QED
  BY <1>1, <1>2, <1>3, <1>4

LEMMA InvNext == IndexerInv /\ [Next]_vars => IndexerInv'
<1> SUFFICES ASSUME IndexerInv, [Next]_vars PROVE IndexerInv'
  OBVIOUS
<1>1. CASE UNCHANGED vars
  <2>1. UNCHANGED <<topic, dlq, indexed, committed, group, redriver, faults>>
    BY <1>1 DEF vars, group, redriver
  <2>2. CliFits(cli') /\ redrives' \in Nat /\ faults' \in Nat /\ RedriveInv'
    BY <2>1, CliFitsNow, UnchangedGrown, RedriveKept
       DEF redriver, IndexerInv, TypeOK
  <2> QED
    BY <2>1, <2>2, CliStep DEF redriver
<1> QED
  BY <1>1, ProduceKeeps, GroupKeeps, RedriveKeeps DEF Next

(* The inductive invariant of the consumer group, the DLQ and its redrive. *)
THEOREM IndexerInvariant == Spec => []IndexerInv
BY InvInit, InvNext, PTL DEF Spec

LEMMA NothingLostNow == IndexerInv => NoEventLost
<1> SUFFICES ASSUME IndexerInv, NEW o \in 1 .. Len(topic)
             PROVE  \/ Kind[topic[o]] = "unknown"
                    \/ topic[o] \in indexed
                    \/ \E q \in committed + 1 .. Len(topic) : topic[q] = topic[o]
                    \/ \E d \in PendingDeadLetters : dlq[d].msg = topic[o]
  BY DEF NoEventLost
<1>1. CASE o <= committed
  BY <1>1, Sizes DEF IndexerInv, ConsumersInv, PastAccountedFor, AccountedFor
<1>2. CASE committed < o
  BY <1>2, Sizes DEF IndexerInv
<1> QED
  BY <1>1, <1>2, Sizes DEF IndexerInv

(* No event of the topic is lost, however members die and take over.       *)
THEOREM NothingLostInTopic == Spec => []NoEventLost
BY NothingLostNow, IndexerInvariant, PTL

(* A run of dlq:redrive takes up no more dead letters than its limit.      *)
THEOREM RedriveWithinLimit == Spec => []LimitRespected
<1>1. IndexerInv => LimitRespected
  BY DEF IndexerInv, RedriveInv
<1> QED
  BY <1>1, IndexerInvariant, PTL

-----------------------------------------------------------------------------
(* Only what was dealt with is passed.                                     *)
Passed ==
    /\ \A c \in Consumers : \A o \in 1 .. pos[c] : Handled(o)
    /\ \A o \in 1 .. committed : Handled(o)

(* Record r is dealt with after the step.                                  *)
NowHandled(r) ==
    \/ Kind[topic'[r]] = "unknown"
    \/ topic'[r] \in indexed'
    \/ \E d \in 1 .. Len(dlq') : dlq'[d] = [msg |-> topic'[r], offset |-> r]

(* What was dealt with stays so.                                           *)
LEMMA HandledKept ==
  ASSUME TypeOK, Grown, NEW o \in 1 .. Len(topic), Handled(o)
  PROVE  NowHandled(o)
<1>1. topic'[o] = topic[o] /\ indexed \subseteq indexed'
  BY DEF Grown
<1>2. ASSUME NEW d \in 1 .. Len(dlq)
      PROVE  d \in 1 .. Len(dlq') /\ dlq'[d] = dlq[d]
  BY Sizes DEF Grown
<1> QED
  BY <1>1, <1>2 DEF Handled, NowHandled

(* A step that passes one record at most, and deals with it.               *)
LEMMA PassedStep ==
  ASSUME TypeOK, Passed, Grown,
         \A c \in Consumers : \A o \in 1 .. pos'[c] :
             \/ o \in 1 .. pos[c]
             \/ o \in 1 .. committed
             \/ NowHandled(o),
         \A o \in 1 .. committed' :
             o \in 1 .. committed \/ \E c \in Consumers : o \in 1 .. pos[c]
  PROVE  Passed'
<1>1. ASSUME NEW o, o \in 1 .. committed \/ \E c \in Consumers : o \in 1 .. pos[c]
      PROVE  NowHandled(o)
  <2>1. o \in 1 .. Len(topic) /\ Handled(o)
    BY <1>1, Sizes DEF Passed
  <2> QED
    BY <2>1, HandledKept
<1>2. /\ \A c \in Consumers : \A o \in 1 .. pos'[c] : NowHandled(o)
      /\ \A o \in 1 .. committed' : NowHandled(o)
  BY <1>1
<1> QED
  BY <1>2 DEF Passed, Handled, NowHandled

(* A consumer goes on by one record, which is dealt with.                  *)
LEMMA PassedDone ==
  ASSUME TypeOK, Passed, Grown, UNCHANGED committed,
         NEW c \in Consumers, Done(c), NowHandled(pos[c] + 1)
  PROVE  Passed'
<1>1. ASSUME NEW x \in Consumers, NEW o \in 1 .. pos'[x]
      PROVE  o \in 1 .. pos[x] \/ NowHandled(o)
  <2>1. pos[c] \in Nat /\ pos' = [pos EXCEPT ![c] = pos[c] + 1]
    BY DEF Done, TypeOK
  <2>2. CASE x = c
    <3>1. o \in 1 .. pos[c] + 1
      BY <2>1, <2>2 DEF TypeOK
    <3>2. o \in 1 .. pos[c] \/ o = pos[c] + 1
      BY <2>1, <3>1
    <3> QED
      BY <2>2, <3>2
  <2>3. CASE x # c
    BY <2>1, <2>3 DEF TypeOK
  <2> QED
    BY <2>2, <2>3
<1> QED
  BY <1>1, PassedStep

(* Nobody goes on.                                                         *)
LEMMA PassedStays ==
  ASSUME TypeOK, Passed, Grown, UNCHANGED <<pos, committed>> PROVE Passed'
BY PassedStep

LEMMA PassedMember ==
  ASSUME IndexerInv, Passed, NEW c \in Consumers,
         Join(c) \/ TakeOver(c) \/ Evicted(c) \/ Crash(c) \/ CommitOffset(c)
  PROVE  Passed'
<1> USE DEF IndexerInv
<1>1. Grown
  BY UnchangedGrown DEF Join, TakeOver, Resume, Evicted, Crash, CommitOffset
<1>2. CASE Join(c) \/ TakeOver(c)
  <2>1. pos' = [pos EXCEPT ![c] = committed] /\ UNCHANGED committed
    BY <1>2 DEF Join, TakeOver, Resume
  <2>2. \A x \in Consumers : pos'[x] = pos[x] \/ pos'[x] = committed
    BY <2>1 DEF TypeOK
  <2> QED
    BY <1>1, <2>1, <2>2, PassedStep
<1>3. CASE Evicted(c) \/ Crash(c)
  BY <1>1, <1>3, PassedStays DEF Evicted, Crash
<1>4. CASE CommitOffset(c)
  <2>1. committed' = pos[c] /\ UNCHANGED pos
    BY <1>4 DEF CommitOffset, group
  <2> QED
    BY <1>1, <2>1, PassedStep
<1> QED
  BY <1>2, <1>3, <1>4

LEMMA PassedHandle ==
  ASSUME IndexerInv, Passed, NEW c \in Consumers,
         HandleMessage(c) \/ IndexMessage(c)
  PROVE  Passed'
<1> USE DEF IndexerInv
<1>1. Grown
  BY DEF HandleMessage, IndexMessage, Grown, TypeOK
<1>2. UNCHANGED <<topic, dlq, committed>>
  BY DEF HandleMessage, IndexMessage
<1>3. CASE Kind[Current(c)] = "unknown" /\ Done(c)
  <2>1. NowHandled(pos[c] + 1)
    BY <1>2, <1>3 DEF NowHandled, Current, Done
  <2> QED
    BY <1>1, <1>2, <1>3, <2>1, PassedDone
<1>4. CASE indexed' = indexed \cup {Current(c)} /\ Done(c)
  <2>1. NowHandled(pos[c] + 1)
    BY <1>2, <1>4 DEF NowHandled, Current
  <2> QED
    BY <1>1, <1>2, <1>4, <2>1, PassedDone
<1>5. CASE UNCHANGED pos
  BY <1>1, <1>2, <1>5, PassedStays
<1> QED
  BY <1>3, <1>4, <1>5 DEF HandleMessage, IndexMessage, Goto

LEMMA PassedRetry ==
  ASSUME IndexerInv, Passed, NEW c \in Consumers,
         IndexRetryableError(c) \/ IndexRejected(c)
  PROVE  Passed'
<1>1. Grown
  BY DEF IndexerInv, IndexRetryableError, IndexRejected, Grown, TypeOK
<1>2. UNCHANGED <<pos, committed>>
  BY DEF IndexRetryableError, IndexRejected, Goto
<1> QED
  BY <1>1, <1>2, PassedStays DEF IndexerInv

LEMMA PassedDlq ==
  ASSUME IndexerInv, Passed, NEW c \in Consumers,
         PublishToDlq(c) \/ PublishToDlqError(c)
  PROVE  Passed'
<1> USE DEF IndexerInv
<1>1. ASSUME PublishToDlq(c) PROVE Passed'
  <2>1. /\ dlq' = Append(dlq, DlqRecord(c)) /\ Done(c)
        /\ UNCHANGED <<topic, indexed, committed, redriver>>
    BY <1>1 DEF PublishToDlq
  <2>2. Grown
    BY <1>1, <2>1, DlqGrows DEF PublishToDlq
  <2>3. DlqRecord(c) \in Record /\ dlq \in Seq(Record)
    BY <1>1, DlqRecordFaithful DEF TypeOK, PublishToDlq
  <2>4. /\ Len(dlq') = Len(dlq) + 1 /\ Len(dlq) \in Nat
        /\ dlq'[Len(dlq) + 1] = DlqRecord(c)
    BY <2>1, <2>3, AppendGrows, Sizes
  <2>5. NowHandled(pos[c] + 1)
    <3>1. Len(dlq) + 1 \in 1 .. Len(dlq')
      BY <2>4
    <3>2. dlq'[Len(dlq) + 1] = [msg |-> topic'[pos[c] + 1], offset |-> pos[c] + 1]
      BY <2>1, <2>4 DEF DlqRecord, Current
    <3> QED
      BY <3>1, <3>2 DEF NowHandled
  <2> QED
    BY <2>1, <2>2, <2>5, PassedDone
<1>2. ASSUME PublishToDlqError(c) PROVE Passed'
  <2>1. /\ dlq' \in {dlq, Append(dlq, DlqRecord(c))}
        /\ UNCHANGED <<topic, indexed, committed, redriver>>
    BY <1>2 DEF PublishToDlqError
  <2>2. Grown
    BY <1>2, <2>1, UnchangedGrown, DlqGrows DEF PublishToDlqError
  <2>3. PICK p \in 0 .. pos[c] : pos' = [pos EXCEPT ![c] = p]
    BY <1>2 DEF PublishToDlqError
  <2>4. \A x \in Consumers : \A o \in 1 .. pos'[x] : o \in 1 .. pos[x]
    <3>1. \A x \in Consumers : pos'[x] = pos[x] \/ (x = c /\ pos'[x] = p)
      BY <2>3 DEF TypeOK
    <3> QED
      BY <2>3, <3>1, Sizes
  <2> QED
    BY <2>1, <2>2, <2>4, PassedStep
<1> QED
  BY <1>1, <1>2

LEMMA PassedNext == IndexerInv /\ Passed /\ [Next]_vars => Passed'
<1> SUFFICES ASSUME IndexerInv, Passed, [Next]_vars PROVE Passed'
  OBVIOUS
<1> USE DEF IndexerInv
<1>1. CASE UNCHANGED vars
  BY <1>1, UnchangedGrown, PassedStays DEF vars
<1>2. ASSUME NEW m \in Messages, Produce(m) PROVE Passed'
  <2>1. Grown
    BY <1>2, AppendGrows, Sizes DEF Produce, Grown, TypeOK
  <2> QED
    BY <1>2, <2>1, PassedStays DEF Produce, group
<1>3. CASE Group
  BY <1>3, PassedMember, PassedHandle, PassedRetry, PassedDlq DEF Group, Work
<1>4. CASE Redrive
  <2>1. UNCHANGED <<dlq, indexed, committed, pos>>
    BY <1>4 DEF Redrive, RedriveStart, RedriveConsume, RedriveRepublish,
                RedriveRepublishError, RedriveCommit, RedriveCommitError,
                RedriveStop, group
  <2>2. \/ UNCHANGED topic
        \/ /\ cli.step = "republish"
           /\ topic' = Append(topic, dlq[cli.pos + 1].msg)
    BY <1>4 DEF Redrive, RedriveStart, RedriveConsume, RedriveRepublish,
                RedriveRepublishError, RedriveCommit, RedriveCommitError,
                RedriveStop
  <2>3. Grown
    <3>1. CASE UNCHANGED topic
      BY <2>1, <3>1, UnchangedGrown
    <3>2. CASE /\ cli.step = "republish"
               /\ topic' = Append(topic, dlq[cli.pos + 1].msg)
      <4>1. cli.pos + 1 \in 1 .. Len(dlq)
        BY <3>2, Sizes DEF TypeOK
      <4>2. dlq[cli.pos + 1].msg \in Messages
        BY <4>1, Sizes DEF Record
      <4> QED
        BY <2>1, <3>2, <4>2, AppendGrows, Sizes DEF Grown, TypeOK
    <3> QED
      BY <2>2, <3>1, <3>2
  <2> QED
    BY <2>1, <2>3, PassedStays
<1> QED
  BY <1>1, <1>2, <1>3, <1>4 DEF Next

(* No consumer and no group's offset passes a record that was not dealt    *)
(* with: indexed, dead-lettered under its own offset, or skipped for its   *)
(* version; and what the redrive has committed is in the topic again.      *)
THEOREM PassedIsHandled == Spec => []OnlyHandledPassed
<1>1. Init => Passed
  BY DEF Init, Passed
<1>2. IndexerInv /\ Passed => OnlyHandledPassed
  BY DEF IndexerInv, RedriveInv, Passed, OnlyHandledPassed
<1> QED
  BY <1>1, <1>2, PassedNext, IndexerInvariant, PTL DEF Spec

=============================================================================

---------------------------- MODULE ListingProofs ----------------------------
(***************************************************************************)
(* Proofs about both ways to read a conversation, for any number of        *)
(* messages, clients, limits and scores.  What a page of the cursor walk   *)
(* holds follows from the order of messages alone: FirstOf takes an        *)
(* initial segment, and all there is unless it is full.  What the pages of *)
(* a search add up to follows from their number: page after page covers    *)
(* the first page * limit hits, and when the sort leaves no choice there   *)
(* is one set of hits that may come first.                                 *)
(***************************************************************************)
EXTENDS Reading, FiniteSetTheorems, WellFoundedInduction, TLAPS

-----------------------------------------------------------------------------
(* Order.                                                                  *)

(* The sort is a total order, ties on the timestamp included.              *)
LEMMA TotalOrder ==
  ASSUME TypeOK, NEW order \in SortOrders,
         NEW a \in Messages, NEW b \in Messages, NEW d \in Messages
  PROVE  /\ ~Before(a, a, order)
         /\ a = b \/ Before(a, b, order) \/ Before(b, a, order)
         /\ Before(a, b, order) => ~Before(b, a, order)
         /\ Before(a, b, order) /\ Before(b, d, order) => Before(a, d, order)
BY ListingAssumption DEF TypeOK, SortOrders, Before, Older

(* Whatever is found has a first message.                                  *)
LEMMA Earliest ==
  ASSUME TypeOK, NEW order \in SortOrders, NEW T \in SUBSET Messages, T # {}
  PROVE  \E m \in T : \A p \in T : p = m \/ Before(m, p, order)
<1> DEFINE Earlier(m) == {p \in T : Before(p, m, order)}
<1> DEFINE R == StrictSubsetOrdering(Messages)
<1>1. {Earlier(m) : m \in T} \subseteq FiniteSubsetsOf(Messages)
  BY ListingAssumption, FS_Subset DEF FiniteSubsetsOf
<1>2. PICK m \in T : \A p \in T : ~(<<Earlier(p), Earlier(m)>> \in R)
  <2>1. {Earlier(m) : m \in T} # {}
    OBVIOUS
  <2>2. PICK x \in {Earlier(m) : m \in T} :
                \A y \in {Earlier(m) : m \in T} : ~(<<y, x>> \in R)
    <3> HIDE DEF Earlier, R
    <3> QED
      BY <1>1, <2>1, WFMin, FS_StrictSubsetOrderingWellFounded DEF R
  <2>3. PICK m \in T : x = Earlier(m)
    BY <2>2
  <2> QED
    BY <2>2, <2>3
<1>3. ASSUME NEW p \in T, p # m, ~Before(m, p, order) PROVE FALSE
  <2>1. Before(p, m, order)
    BY <1>3, TotalOrder
  <2>2. Earlier(p) \subseteq Earlier(m)
    BY <2>1, TotalOrder
  <2>3. p \in Earlier(m) /\ p \notin Earlier(p)
    BY <2>1, TotalOrder
  <2>4. <<Earlier(p), Earlier(m)>> \in R
    BY <2>2, <2>3 DEF StrictSubsetOrdering
  <2> QED
    BY <1>2, <2>4
<1> QED
  BY <1>3

(* And a last one, which is the first one of the other sort order.         *)
LEMMA Latest ==
  ASSUME TypeOK, NEW order \in SortOrders, NEW T \in SUBSET Messages, T # {}
  PROVE  \E m \in T : \A p \in T : p = m \/ Before(p, m, order)
<1> DEFINE other == IF order = "asc" THEN "desc" ELSE "asc"
<1>1. other \in SortOrders
  BY DEF SortOrders
<1>2. \A m, p \in T : Before(m, p, other) <=> Before(p, m, order)
  BY DEF Before, SortOrders
<1> HIDE DEF other
<1>3. \E m \in T : \A p \in T : p = m \/ Before(m, p, other)
  BY <1>1, Earliest
<1> QED
  BY <1>2, <1>3

-----------------------------------------------------------------------------
(* What FirstOf returns.                                                   *)

(* Nothing that is left out comes before something that is not.            *)
LEMMA FirstOfIsInitial ==
  ASSUME TypeOK, NEW order \in SortOrders, NEW T \in SUBSET Messages,
         NEW n \in Nat, NEW p \in FirstOf(T, order, n),
         NEW m \in T \ FirstOf(T, order, n)
  PROVE  Before(p, m, order)
<1> DEFINE Earlier(a) == {q \in T : Before(q, a, order)}
<1> SUFFICES ASSUME ~Before(p, m, order) PROVE FALSE
  OBVIOUS
<1>1. p \in T /\ p # m
  BY DEF FirstOf
<1>2. Before(m, p, order)
  BY <1>1, TotalOrder
<1>3. Earlier(m) \in SUBSET Earlier(p)
  BY <1>1, <1>2, TotalOrder
<1>4. \A a \in T : IsFiniteSet(Earlier(a)) /\ Cardinality(Earlier(a)) \in Nat
  BY ListingAssumption, FS_Subset, FS_CardinalityType
<1>5. Cardinality(Earlier(m)) <= Cardinality(Earlier(p))
  BY <1>1, <1>3, <1>4, FS_Subset
<1>6. Cardinality(Earlier(p)) < n /\ ~(Cardinality(Earlier(m)) < n)
  BY <1>1 DEF FirstOf
<1> QED
  BY <1>1, <1>4, <1>5, <1>6

(* It leaves something out only when it is full.                           *)
LEMMA FirstOfIsFull ==
  ASSUME TypeOK, NEW order \in SortOrders, NEW T \in SUBSET Messages,
         NEW n \in Nat, FirstOf(T, order, n) # T
  PROVE  Cardinality(FirstOf(T, order, n)) >= n
<1> DEFINE F == FirstOf(T, order, n)
<1> DEFINE Earlier(a) == {q \in T : Before(q, a, order)}
<1>1. F \in SUBSET T
  BY DEF FirstOf
<1>2. PICK m \in T \ F : \A p \in T \ F : p = m \/ Before(m, p, order)
  <2>1. T \ F \in SUBSET Messages /\ T \ F # {}
    BY <1>1
  <2> HIDE DEF F
  <2> QED
    BY <2>1, Earliest
<1>3. Earlier(m) \in SUBSET F
  BY <1>1, <1>2, TotalOrder
<1>4. IsFiniteSet(F) /\ Cardinality(F) \in Nat
  BY <1>1, ListingAssumption, FS_Subset, FS_CardinalityType
<1>5. Cardinality(Earlier(m)) <= Cardinality(F)
  BY <1>3, <1>4, FS_Subset
<1>6. ~(Cardinality(Earlier(m)) < n)
  BY <1>2 DEF FirstOf
<1>7. Cardinality(Earlier(m)) \in Nat
  BY <1>3, <1>4, FS_Subset, FS_CardinalityType
<1> QED
  BY <1>4, <1>5, <1>6, <1>7

(* It leaves nothing out when all fits.                                    *)
LEMMA FirstOfTakesAll ==
  ASSUME TypeOK, NEW order \in SortOrders, NEW T \in SUBSET Messages,
         NEW n \in Nat, Cardinality(T) <= n
  PROVE  FirstOf(T, order, n) = T
<1> DEFINE Earlier(a) == {q \in T : Before(q, a, order)}
<1>1. IsFiniteSet(T) /\ Cardinality(T) \in Nat
  BY ListingAssumption, FS_Subset, FS_CardinalityType
<1>2. ASSUME NEW m \in T PROVE Cardinality(Earlier(m)) < n
  <2>1. Earlier(m) \in SUBSET T /\ Earlier(m) # T
    BY TotalOrder
  <2>2. /\ Cardinality(Earlier(m)) <= Cardinality(T)
        /\ Cardinality(T) # Cardinality(Earlier(m))
    BY <1>1, <2>1, FS_Subset
  <2>3. Cardinality(Earlier(m)) \in Nat
    BY <1>1, <2>1, FS_Subset, FS_CardinalityType
  <2> QED
    BY <1>1, <2>2, <2>3
<1> QED
  BY <1>2 DEF FirstOf

(* It takes something when there is something.                             *)
LEMMA FirstOfNotEmpty ==
  ASSUME TypeOK, NEW order \in SortOrders, NEW T \in SUBSET Messages, T # {},
         NEW n \in Nat \ {0}
  PROVE  FirstOf(T, order, n) # {}
<1>1. PICK m \in T : \A p \in T : p = m \/ Before(m, p, order)
  BY Earliest
<1>2. {p \in T : Before(p, m, order)} = {}
  BY <1>1, TotalOrder
<1>3. Cardinality({p \in T : Before(p, m, order)}) < n
  BY <1>2, FS_EmptySet
<1> QED
  BY <1>3 DEF FirstOf

-----------------------------------------------------------------------------
(* Cursors.                                                                *)

Cursors == [o: SortOrders \cup {"none"}, t: Nat, id: Nat]

(* Beyond the cursor of a message is what comes after that message.        *)
LEMMA BeyondMessage ==
  ASSUME TypeOK, NEW order \in SortOrders,
         NEW a \in Messages, NEW m \in Messages
  PROVE  Beyond(m, EncodeCursor(a, order), order) <=> Before(a, m, order)
BY ListingAssumption
   DEF TypeOK, SortOrders, Beyond, EncodeCursor, NoCursor, Before, Older

(* What comes after a message beyond the cursor lies beyond it too.        *)
LEMMA BeyondGoesOn ==
  ASSUME TypeOK, NEW order \in SortOrders, NEW cursor \in Cursors,
         NEW a \in Messages, NEW m \in Messages,
         Beyond(a, cursor, order), Before(a, m, order)
  PROVE  Beyond(m, cursor, order)
BY ListingAssumption
   DEF TypeOK, SortOrders, Cursors, Beyond, NoCursor, Before, Older

-----------------------------------------------------------------------------
(* Pages.                                                                  *)

Matching(cursor, order) == {m \in Visible : Beyond(m, cursor, order)}

Found(cursor, order, limit) ==
    ListByConversation(cursor, order, FetchLimit(limit))

Page(cursor, order, limit) == FirstOf(Found(cursor, order, limit), order, limit)

(* A page that is the last one holds all that matches.                     *)
LEMMA LastPage ==
  ASSUME TypeOK, NEW order \in SortOrders, NEW cursor, NEW limit \in Limits,
         ~(Cardinality(Found(cursor, order, limit)) > limit)
  PROVE  Page(cursor, order, limit) = Matching(cursor, order)
<1> DEFINE M == Matching(cursor, order)
<1> DEFINE F == Found(cursor, order, limit)
<1>1. M \in SUBSET Messages /\ limit \in Nat /\ limit + 1 \in Nat
  BY ListingAssumption DEF Matching, Visible
<1>2. F = FirstOf(M, order, limit + 1)
  BY DEF Found, ListByConversation, FetchLimit, Matching
<1>3. F \in SUBSET M
  BY <1>2 DEF FirstOf
<1>4. IsFiniteSet(F) /\ Cardinality(F) \in Nat
  BY <1>1, <1>3, ListingAssumption, FS_Subset, FS_CardinalityType
<1> HIDE DEF M, F
<1>5. Cardinality(F) <= limit
  BY <1>1, <1>4 DEF F
<1>6. F = M
  BY <1>1, <1>2, <1>4, <1>5, FirstOfIsFull
<1>7. FirstOf(F, order, limit) = F
  BY <1>1, <1>3, <1>5, FirstOfTakesAll
<1> QED
  BY <1>6, <1>7 DEF Page, M, F

(* A page that is not has a last message, beyond which lies all the rest.  *)
LEMMA FullPage ==
  ASSUME TypeOK, NEW order \in SortOrders, NEW cursor, NEW limit \in Limits,
         Cardinality(Found(cursor, order, limit)) > limit
  PROVE  LET page == Page(cursor, order, limit) IN
         /\ page \in SUBSET Matching(cursor, order)
         /\ \E a \in page :
              /\ NextCursor(page, order, TRUE) = EncodeCursor(a, order)
              /\ \A p \in page : p = a \/ Before(p, a, order)
              /\ \A m \in Matching(cursor, order) \ page : Before(a, m, order)
<1> DEFINE M == Matching(cursor, order)
<1> DEFINE F == Found(cursor, order, limit)
<1> DEFINE G == Page(cursor, order, limit)
<1>1. M \in SUBSET Messages /\ limit \in Nat \ {0} /\ limit + 1 \in Nat
  BY ListingAssumption DEF Matching, Visible
<1>2. F = FirstOf(M, order, limit + 1) /\ G = FirstOf(F, order, limit)
  BY DEF Found, ListByConversation, FetchLimit, Matching, Page
<1>3. F \in SUBSET M /\ G \in SUBSET F
  BY <1>2 DEF FirstOf
<1>4. F # {}
  BY <1>1, FS_EmptySet
<1> HIDE DEF M, F, G
<1>5. G # {}
  BY <1>1, <1>2, <1>3, <1>4, FirstOfNotEmpty
<1>6. \E a \in G : \A p \in G : p = a \/ Before(p, a, order)
  BY <1>1, <1>3, <1>5, Latest
<1> DEFINE last == CHOOSE a \in G : \A p \in G : p = a \/ Before(p, a, order)
<1>7. last \in G /\ \A p \in G : p = last \/ Before(p, last, order)
  BY <1>6
<1>8. NextCursor(G, order, TRUE) = EncodeCursor(last, order)
  BY DEF NextCursor
<1> HIDE DEF last
<1>9. ASSUME NEW m \in M \ G PROVE Before(last, m, order)
  <2>1. CASE m \in F
    BY <1>1, <1>2, <1>3, <1>7, <2>1, FirstOfIsInitial
  <2>2. CASE m \notin F
    BY <1>1, <1>2, <1>3, <1>7, <2>2, FirstOfIsInitial
  <2> QED
    BY <2>1, <2>2
<1> QED
  BY <1>3, <1>7, <1>8, <1>9 DEF M, G

-----------------------------------------------------------------------------
(* One page more.                                                          *)

(* What a page does to the walk of its client.                             *)
LEMMA PageInv ==
  ASSUME ListingInv, NEW c \in Clients, walk[c].step \in {"start", "more"},
         NEW order \in SortOrders, NEW limit \in Limits,
         GetPage(c, order, limit), UNCHANGED <<clock, created, timestamp>>
  PROVE  /\ ListingInv'
         /\ NothingTwice => NothingTwice'
         /\ WalkComplete => WalkComplete'
<1> DEFINE w == walk[c]
<1> DEFINE cur == walk[c].cursor
<1> DEFINE G == Page(cur, order, limit)
<1> DEFINE M == Matching(cur, order)
<1> DEFINE more == Cardinality(Found(cur, order, limit)) > limit
<1> DEFINE known == IF w.step = "start" THEN Visible ELSE w.known
<1>1. /\ TypeOK
      /\ w \in [step: {"start", "more", "done", "rejected"},
                 order: SortOrders, cursor: Cursors, twice: BOOLEAN,
                 got: SUBSET Messages, known: SUBSET Messages]
      /\ cur \in Cursors
  BY DEF ListingInv, TypeOK, Cursors
<1>2. M \in SUBSET Visible /\ Visible \in SUBSET Messages
  BY DEF Matching, Visible
<1>3. Visible' = Visible
  BY DEF Visible
<1>4. \A m \in Messages : \A k, o : Beyond(m, k, o)' = Beyond(m, k, o)
  BY DEF Beyond
<1>5. CASE ~Decodes(cur, order)
  <2>1. walk' = [walk EXCEPT ![c] = [w EXCEPT !.step = "rejected"]]
    BY <1>5 DEF GetPage
  <2>2. TypeOK'
    BY <1>1, <2>1 DEF TypeOK, Cursors
  <2>3. WalkSoFar' /\ WalkWithin'
    BY <1>1, <1>3, <1>4, <2>1
       DEF ListingInv, TypeOK, WalkSoFar, WalkWithin
  <2>4. (NothingTwice => NothingTwice') /\ (WalkComplete => WalkComplete')
    BY <1>1, <2>1 DEF TypeOK, NothingTwice, WalkComplete
  <2> QED
    BY <2>2, <2>3, <2>4 DEF ListingInv
<1>6. CASE Decodes(cur, order)
  <2> DEFINE new == [step |-> IF more THEN "more" ELSE "done", order |-> order,
                     cursor |-> NextCursor(G, order, more),
                     twice |-> w.twice \/ G \cap w.got # {},
                     got |-> w.got \cup G, known |-> known]
  <2>1. walk' = [walk EXCEPT ![c] = new]
    BY <1>6 DEF GetPage, Found, Page
  <2>2. G \in SUBSET M
    BY <1>1, LastPage, FullPage
  <2>3. /\ known \in SUBSET Visible /\ w.got \in SUBSET Visible
        /\ w.step = "start" => w.got = {} /\ cur = NoCursor
        /\ w.step = "more" => cur.o = w.order /\ w.order = order
    <3>1. /\ w.got \in SUBSET Visible /\ w.known \in SUBSET Visible
          /\ w.step = "start" => w.got = {} /\ cur = NoCursor
      BY DEF ListingInv, WalkWithin
    <3>2. w.step = "more" => cur.o = w.order
      BY DEF ListingInv, WalkSoFar
    <3> QED
      BY <1>1, <1>6, <3>1, <3>2 DEF Decodes, SortOrders
  <2>4. /\ \A m \in w.got : ~Beyond(m, cur, order)
        /\ \A m \in known \ w.got : Beyond(m, cur, order)
    <3>1. CASE w.step = "start"
      BY <2>3, <3>1 DEF Beyond
    <3>2. CASE w.step = "more"
      BY <2>3, <3>2 DEF ListingInv, WalkSoFar
    <3> QED
      BY <3>1, <3>2
  <2>5. G \cap w.got = {}
    BY <2>2, <2>4 DEF Matching
  <2>6. /\ new.cursor \in Cursors
        /\ more => /\ new.cursor.o = order
                   /\ \A m \in w.got \cup G : ~Beyond(m, new.cursor, order)
                   /\ \A m \in known \ (w.got \cup G) :
                        Beyond(m, new.cursor, order)
        /\ ~more => known \subseteq w.got \cup G
    <3>1. CASE more
      <4>1. PICK a \in G : /\ NextCursor(G, order, TRUE) = EncodeCursor(a, order)
                           /\ \A p \in G : p = a \/ Before(p, a, order)
                           /\ \A m \in M \ G : Before(a, m, order)
        BY <1>1, <3>1, FullPage
      <4>2. a \in Messages /\ Beyond(a, cur, order)
        BY <1>2, <2>2 DEF Matching
      <4>3. new.cursor = EncodeCursor(a, order)
        BY <3>1, <4>1
      <4>4. new.cursor \in Cursors /\ new.cursor.o = order
        BY <1>1, <4>2, <4>3, ListingAssumption
           DEF Cursors, EncodeCursor, TypeOK
      <4>5. ASSUME NEW m \in G PROVE ~Beyond(m, EncodeCursor(a, order), order)
        BY <1>1, <1>2, <2>2, <4>1, <4>2, TotalOrder, BeyondMessage
      <4>6. ASSUME NEW m \in w.got
            PROVE  ~Beyond(m, EncodeCursor(a, order), order)
        BY <1>1, <2>4, <4>2, BeyondGoesOn, BeyondMessage
      <4>7. ASSUME NEW m \in known \ (w.got \cup G)
            PROVE  Beyond(m, EncodeCursor(a, order), order)
        <5>1. m \in M /\ m \in Messages
          BY <1>2, <2>3, <2>4 DEF Matching
        <5> QED
          BY <1>1, <4>1, <4>2, <5>1, BeyondMessage
      <4> QED
        BY <3>1, <4>3, <4>4, <4>5, <4>6, <4>7
    <3>2. CASE ~more
      <4>1. G = M
        BY <1>1, <3>2, LastPage
      <4>2. known \subseteq w.got \cup G
        BY <2>3, <2>4, <4>1 DEF Matching
      <4>3. new.cursor = NoCursor
        BY <3>2 DEF NextCursor
      <4> QED
        BY <3>2, <4>2, <4>3 DEF NoCursor, Cursors
    <3> QED
      BY <3>1, <3>2
  <2>7. new.twice = w.twice
    BY <1>1, <2>5
  <2> HIDE DEF G, M, more, known
  <2>8. TypeOK'
    <3>1. new \in [step: {"start", "more", "done", "rejected"},
                   order: SortOrders, cursor: Cursors, twice: BOOLEAN,
                   got: SUBSET Messages, known: SUBSET Messages]
      BY <1>1, <1>2, <2>2, <2>3, <2>6, <2>7
    <3> QED
      BY <1>1, <2>1, <3>1 DEF TypeOK, Cursors
  <2>9. WalkSoFar'
    <3>1. WalkSoFar
      BY DEF ListingInv
    <3> QED
      BY <1>1, <1>4, <2>1, <2>6, <2>2, <2>3, <1>2, <3>1 DEF TypeOK, WalkSoFar
  <2>10. WalkWithin'
    <3>1. WalkWithin
      BY DEF ListingInv
    <3> QED
      BY <1>1, <1>2, <1>3, <2>1, <2>2, <2>3, <3>1 DEF TypeOK, WalkWithin
  <2>11. NothingTwice => NothingTwice'
    BY <1>1, <2>1, <2>7 DEF TypeOK, NothingTwice
  <2>12. WalkComplete => WalkComplete'
    BY <1>1, <2>1, <2>6 DEF TypeOK, WalkComplete
  <2> QED
    BY <2>8, <2>9, <2>10, <2>11, <2>12 DEF ListingInv
<1> QED
  BY <1>5, <1>6

-----------------------------------------------------------------------------
(* Every step.                                                             *)

(* Creating messages leaves alone what clients were given or know of, for  *)
(* that was committed before.                                              *)
LEMMA CreateInv ==
  ASSUME ListingInv, UNCHANGED walk,
         \/ \E m \in Messages : BeginCreate(m) \/ CommitCreate(m) \/ AbortCreate(m)
         \/ Tick
  PROVE  ListingInv'
<1>1. TypeOK'
  BY ListingAssumption
     DEF ListingInv, TypeOK, BeginCreate, CommitCreate, AbortCreate, Tick
<1>2. Visible \subseteq Visible'
  BY DEF ListingInv, TypeOK, Visible, BeginCreate, CommitCreate, AbortCreate, Tick
<1>3. \A m \in Visible : timestamp'[m] = timestamp[m]
  BY DEF ListingInv, TypeOK, Visible, BeginCreate, CommitCreate, AbortCreate, Tick
<1>4. \A m \in Visible : \A k, o : Beyond(m, k, o)' <=> Beyond(m, k, o)
  BY <1>3 DEF Beyond
<1>5. WalkWithin'
  BY <1>2 DEF ListingInv, WalkWithin
<1>6. WalkSoFar'
  BY <1>4 DEF ListingInv, WalkSoFar, WalkWithin
<1> QED
  BY <1>1, <1>5, <1>6 DEF ListingInv

(* No client has asked for anything in the beginning.                      *)
LEMMA InvInit == Init => ListingInv /\ NothingTwice /\ WalkComplete
BY ListingAssumption
   DEF Init, ListingInv, TypeOK, WalkSoFar, WalkWithin, NothingTwice,
       WalkComplete, NoCursor, SortOrders, Visible

(* Each step keeps the invariant.                                          *)
LEMMA InvNext ==
  ASSUME ListingInv, [Next]_vars
  PROVE  /\ ListingInv'
         /\ NothingTwice => NothingTwice'
         /\ WalkComplete => WalkComplete'
<1>1. ASSUME UNCHANGED walk
      PROVE  (NothingTwice => NothingTwice') /\ (WalkComplete => WalkComplete')
  BY <1>1 DEF NothingTwice, WalkComplete
<1>2. CASE \E m \in Messages : BeginCreate(m) \/ CommitCreate(m) \/ AbortCreate(m)
  <2>1. UNCHANGED walk
    BY <1>2 DEF BeginCreate, CommitCreate, AbortCreate
  <2> QED
    BY <1>1, <1>2, <2>1, CreateInv
<1>3. CASE Tick
  <2>1. UNCHANGED walk
    BY <1>3 DEF Tick
  <2> QED
    BY <1>1, <1>3, <2>1, CreateInv
<1>4. CASE \E c \in Clients : FirstPage(c) \/ NextPage(c)
  <2>1. PICK c \in Clients, order \in SortOrders, limit \in Limits :
           /\ walk[c].step \in {"start", "more"}
           /\ GetPage(c, order, limit)
           /\ UNCHANGED <<clock, created, timestamp>>
    BY <1>4 DEF FirstPage, NextPage
  <2> QED
    BY <2>1, PageInv
<1>5. CASE UNCHANGED vars
  <2>1. UNCHANGED walk /\ UNCHANGED Visible
    BY <1>5 DEF vars, Visible
  <2>2. \A m, k, o : Beyond(m, k, o)' <=> Beyond(m, k, o)
    BY <1>5 DEF vars, Beyond
  <2>3. ListingInv'
    BY <1>5, <2>1, <2>2
       DEF vars, ListingInv, TypeOK, WalkSoFar, WalkWithin
  <2> QED
    BY <1>1, <2>1, <2>3
<1> QED
  BY <1>2, <1>3, <1>4, <1>5 DEF Next

(* What the three of them say stays true.                                  *)
Walks == ListingInv /\ NothingTwice /\ WalkComplete

(* A step of module Reading is one of module Listing, or leaves it alone.  *)
LEMMA ReadingLists == [ReadNext]_readVars => [Next]_vars
BY DEF ReadNext, readVars, Listed, IndexMessage, FirstHitsPage, NextHitsPage,
       SearchUnavailable, PageRejected

(* Whatever clients search meanwhile.                                      *)
LEMMA WalksHold == ReadSpec => []Walks
<1>1. ReadInit => Walks
  BY InvInit DEF ReadInit, Walks
<1>2. Walks /\ [ReadNext]_readVars => Walks'
  BY ReadingLists, InvNext DEF Walks
<1> QED
  BY <1>1, <1>2, PTL DEF ReadSpec

(* The inductive invariant of the walks, for every number of messages and  *)
(* clients and whatever limits and sort orders they mix.                   *)
THEOREM ListingInvariant == ReadSpec => []ListingInv
<1>1. Walks => ListingInv
  BY DEF Walks
<1> QED
  BY <1>1, WalksHold, PTL

(* No walk returns a message twice.                                        *)
THEOREM NoDuplicates == ReadSpec => []NothingTwice
<1>1. Walks => NothingTwice
  BY DEF Walks
<1> QED
  BY <1>1, WalksHold, PTL

(* A finished walk has returned every message committed before it began.   *)
THEOREM WalksAreComplete == ReadSpec => []WalkComplete
<1>1. Walks => WalkComplete
  BY DEF Walks
<1> QED
  BY <1>1, WalksHold, PTL

-----------------------------------------------------------------------------
(* Pages of hits.                                                          *)

Cut(k, n) == IF k < n THEN k ELSE n

(* A page ends where the next one starts.                                  *)
LEMMA PageEnds ==
  ASSUME NEW page \in Nat \ {0}, NEW limit \in Nat \ {0}
  PROVE  /\ From(page, limit) \in Nat
         /\ page * limit \in Nat
         /\ From(page, limit) + limit = page * limit
         /\ From(page + 1, limit) = page * limit
<1>1. PICK k \in Nat : page = k + 1
  <2>1. page - 1 \in Nat /\ page = (page - 1) + 1
    OBVIOUS
  <2> QED
    BY <2>1
<1>2. k * limit \in Nat /\ (k + 1) * limit = k * limit + limit
  OBVIOUS
<1>3. page - 1 = k /\ (page + 1) - 1 = page
  BY <1>1
<1> QED
  BY <1>1, <1>2, <1>3 DEF From

(* There is another page just when this one ends before the last hit.      *)
LEMMA AnotherPage ==
  ASSUME NEW n \in Nat, NEW limit \in Nat \ {0}, NEW page \in Nat
  PROVE  page < TotalPages(n, limit) <=> page * limit < n
<1> DEFINE q == (n + limit - 1) \div limit
<1>1. n + limit - 1 \in Nat
  OBVIOUS
<1>2. /\ q \in Int
      /\ limit * q <= n + limit - 1
      /\ n + limit - 1 < limit * q + limit
  BY <1>1, Z3T(30)
<1>3. page * limit \in Nat /\ limit * q \in Int
  BY <1>2
<1> HIDE DEF q
<1>4. CASE page < q
  <2>1. page * limit + limit <= limit * q
    <3>1. PICK d \in Nat : q = page + 1 + d
      <4>1. q - page - 1 \in Nat /\ q = page + 1 + (q - page - 1)
        BY <1>2, <1>4
      <4> QED
        BY <4>1
    <3>2. limit * q = page * limit + limit + limit * d /\ limit * d \in Nat
      BY <3>1
    <3> QED
      BY <1>3, <3>2
  <2> QED
    BY <1>2, <1>3, <1>4, <2>1 DEF TotalPages, q
<1>5. CASE ~(page < q)
  <2>1. limit * q <= page * limit
    <3>1. PICK d \in Nat : page = q + d
      <4>1. page - q \in Nat /\ page = q + (page - q)
        BY <1>2, <1>5
      <4> QED
        BY <4>1
    <3>2. page * limit = limit * q + limit * d /\ limit * d \in Nat
      BY <1>2, <3>1
    <3> QED
      BY <1>3, <3>2
  <2>2. limit * q >= n
    BY <1>2, <1>3
  <2> QED
    BY <1>3, <1>5, <2>1, <2>2 DEF TotalPages, q
<1> QED
  BY <1>4, <1>5

(* When no two hits agree on what they are sorted by, the first so many    *)
(* are always the same ones.                                               *)
LEMMA FirstHitsAgree ==
  ASSUME IsFiniteSet(searchable), NEW k \in Nat, NEW score,
         NEW s \in FirstHits(k, score), NEW t \in FirstHits(k, score),
         \A a, b \in searchable :
            a = b \/ Better(a, b, score) \/ Better(b, a, score)
  PROVE  s = t
<1>1. /\ s \in SUBSET searchable /\ t \in SUBSET searchable
      /\ Cardinality(s) = Cardinality(t)
      /\ \A a \in s, b \in searchable \ s : ~Better(b, a, score)
      /\ \A a \in t, b \in searchable \ t : ~Better(b, a, score)
  BY DEF FirstHits
<1>2. IsFiniteSet(s) /\ IsFiniteSet(t)
  BY <1>1, FS_Subset
<1>3. s \in SUBSET t \/ t \in SUBSET s
  BY <1>1
<1> QED
  BY <1>1, <1>2, <1>3, FS_Subset

(* A page holds what it adds to the pages before it.                       *)
LEMMA HitsOfPage ==
  ASSUME IsFiniteSet(searchable), NEW k \in Nat, NEW m \in Nat, NEW score,
         NEW before \in FirstHits(k, score), NEW upTo \in FirstHits(m, score),
         before \subseteq upTo
  PROVE  Cardinality(upTo \ before) =
            Cut(m, Cardinality(searchable)) - Cut(k, Cardinality(searchable))
<1>1. /\ upTo \in SUBSET searchable
      /\ Cardinality(before) = Cut(k, Cardinality(searchable))
      /\ Cardinality(upTo) = Cut(m, Cardinality(searchable))
  BY DEF FirstHits, Cut
<1>2. IsFiniteSet(upTo) /\ upTo \cap before = before
  BY <1>1, FS_Subset
<1>3. Cardinality(upTo \ before) =
         Cardinality(upTo) - Cardinality(upTo \cap before)
  BY <1>2, FS_Difference
<1> QED
  BY <1>1, <1>2, <1>3, Zenon

-----------------------------------------------------------------------------
(* How a search stands after each page.                                    *)

Hunts ==
    [step: {"start", "more", "unavailable", "done", "rejected"},
     page: Nat, limit: Nat \ {0}, score: [Messages -> Nat],
     quiet: BOOLEAN, got: SUBSET Messages, hits: Nat, known: SUBSET Messages]

SearchType ==
    /\ searchable \in SUBSET Visible
    /\ hunt \in [Clients -> Hunts]

(* An undisturbed search was given the first so many hits.                 *)
Undisturbed(h) ==
    LET n == Cardinality(searchable)
    IN /\ h.page # 0
       /\ h.known = searchable
       /\ h.hits = Cut(h.page * h.limit, n)
       /\ Ordered(h) => h.got \in FirstHits(h.page * h.limit, h.score)
       /\ h.step = "done" <=> ~(h.page * h.limit < n)

SearchSoFar ==
    \A c \in Clients :
        IF hunt[c].step = "start" THEN hunt[c].got = {} /\ hunt[c].hits = 0
        ELSE hunt[c].quiet => Undisturbed(hunt[c])

SearchInv == SearchType /\ SearchSoFar

(* The number of documents is one.                                         *)
LEMMA SearchableIsFinite ==
  ASSUME SearchType
  PROVE  /\ searchable \in SUBSET Messages
         /\ IsFiniteSet(searchable) /\ Cardinality(searchable) \in Nat
BY ListingAssumption, FS_Subset, FS_CardinalityType DEF SearchType, Visible

(* The invariant says what the run checks.                                 *)
LEMMA SearchInvSuffices ==
  ASSUME TypeOK, SearchInv
  PROVE  QuietSearchComplete
<1> SUFFICES ASSUME NEW c \in Clients, hunt[c].step # "start", hunt[c].quiet
             PROVE  LET h == hunt[c]
                        n == Cardinality(h.known)
                        given == Cut(h.page * h.limit, n)
                    IN /\ h.hits = given
                       /\ Ordered(h) => /\ Cardinality(h.got) = given
                                        /\ \A a \in h.got, b \in h.known \ h.got :
                                             Better(a, b, h.score)
                       /\ h.step = "done" <=> h.hits = n
  BY DEF QuietSearchComplete, Cut
<1> DEFINE h == hunt[c]
<1>1. Undisturbed(h)
  BY DEF SearchInv, SearchSoFar
<1>2. h.page * h.limit \in Nat
  <2>1. h.page \in Nat /\ h.limit \in Nat
    BY DEF SearchInv, SearchType, Hunts
  <2> HIDE DEF h
  <2> QED
    BY <2>1
<1>3. Cardinality(searchable) \in Nat
  BY SearchableIsFinite DEF SearchInv
<1> HIDE DEF h
<1>4. ASSUME Ordered(h)
      PROVE  /\ Cardinality(h.got) = Cut(h.page * h.limit, Cardinality(searchable))
             /\ \A a \in h.got, b \in h.known \ h.got : Better(a, b, h.score)
  BY <1>1, <1>4 DEF Undisturbed, FirstHits, Cut, Ordered
<1>5. h.step = "done" <=> h.hits = Cardinality(h.known)
  BY <1>1, <1>2, <1>3 DEF Undisturbed, Cut
<1> QED
  BY <1>1, <1>4, <1>5 DEF Undisturbed, h

(* Another page is added to what a search was given.                       *)
LEMMA HitsInv ==
  ASSUME TypeOK, SearchInv, NEW c \in Clients, NEW page \in Nat \ {0},
         NEW limit \in Nat \ {0}, NEW score \in [Messages -> Scores],
         GetHits(c, page, limit, score), UNCHANGED <<vars, searchable>>,
         \/ hunt[c].step = "start" /\ page = 1
         \/ /\ hunt[c].step \in {"more", "unavailable"}
            /\ page = hunt[c].page + 1 /\ limit = hunt[c].limit
            /\ hunt[c].quiet => score = hunt[c].score
  PROVE  SearchInv'
<1> DEFINE n == Cardinality(searchable)
<1> DEFINE k == From(page, limit)
<1> DEFINE h == hunt[c]
<1>1. PICK before \in FirstHits(k, score), upTo \in FirstHits(k + limit, score) :
         /\ before \subseteq upTo
         /\ hunt' = [hunt EXCEPT ![c] =
              [step |-> IF page < TotalPages(n, limit) THEN "more" ELSE "done",
               page |-> page, limit |-> limit, score |-> score,
               quiet |-> h.quiet, got |-> h.got \cup (upTo \ before),
               hits |-> h.hits + Cardinality(upTo \ before),
               known |-> IF page = 1 THEN searchable ELSE h.known]]
  BY DEF GetHits
<1> DEFINE new == [step |-> IF page < TotalPages(n, limit) THEN "more" ELSE "done",
                   page |-> page, limit |-> limit, score |-> score,
                   quiet |-> h.quiet, got |-> h.got \cup (upTo \ before),
                   hits |-> h.hits + Cardinality(upTo \ before),
                   known |-> IF page = 1 THEN searchable ELSE h.known]
<1>2. /\ limit \in Nat \ {0} /\ score \in [Messages -> Nat]
      /\ k \in Nat /\ page * limit \in Nat /\ k + limit = page * limit
  BY PageEnds, ReadingAssumption
<1>3. searchable \in SUBSET Messages /\ IsFiniteSet(searchable) /\ n \in Nat
  BY SearchableIsFinite DEF SearchInv
<1>4. /\ h \in Hunts
      /\ hunt' = [hunt EXCEPT ![c] = new]
  BY <1>1 DEF SearchInv, SearchType
<1> HIDE DEF k
<1>5. upTo \in FirstHits(page * limit, score)
  BY <1>2
<1>6. Cardinality(upTo \ before) = Cut(page * limit, n) - Cut(k, n)
  BY <1>1, <1>2, <1>3, <1>5, HitsOfPage
<1>7. Cardinality(upTo \ before) \in Nat
  <2>1. IsFiniteSet(upTo \ before)
    BY <1>3, FS_Subset DEF FirstHits
  <2> QED
    BY <2>1, FS_CardinalityType
<1>8. ASSUME h.quiet
      PROVE  /\ h.hits = Cut(k, n)
             /\ page # 1 => h.known = searchable
             /\ (\A a, b \in searchable :
                    a = b \/ Better(a, b, score) \/ Better(b, a, score))
                 => h.got = before
  <2>1. CASE h.step = "start" /\ page = 1
    <3>1. h.got = {} /\ h.hits = 0
      BY <2>1 DEF SearchInv, SearchSoFar
    <3>2. k = 0
      BY <1>2, <2>1 DEF From, k
    <3>3. before = {}
      <4>1. before \in SUBSET searchable /\ Cardinality(before) = 0
        BY <1>3, <3>2 DEF FirstHits
      <4> QED
        BY <1>3, <4>1, FS_Subset, FS_EmptySet
    <3> QED
      BY <1>3, <2>1, <3>1, <3>2, <3>3 DEF Cut
  <2>2. CASE /\ h.step \in {"more", "unavailable"}
             /\ page = h.page + 1 /\ limit = h.limit /\ score = h.score
    <3>1. Undisturbed(h)
      BY <1>8, <2>2 DEF SearchInv, SearchSoFar
    <3>2. k = h.page * h.limit /\ page # 1
      <4>1. h.page \in Nat \ {0}
        BY <1>4, <3>1 DEF Undisturbed, Hunts
      <4>2. From(h.page + 1, limit) = h.page * limit
        BY <1>2, <4>1, PageEnds
      <4>3. h.page + 1 # 1
        BY <4>1
      <4> QED
        BY <2>2, <4>2, <4>3, Zenon DEF k
    <3>3. h.known = searchable /\ h.hits = Cut(k, n)
      BY <3>1, <3>2 DEF Undisturbed
    <3>4. ASSUME \A a, b \in searchable :
                    a = b \/ Better(a, b, score) \/ Better(b, a, score)
          PROVE  h.got = before
      <4>1. Ordered(h)
        BY <2>2, <3>3, <3>4 DEF Ordered
      <4>2. h.got \in FirstHits(k, score)
        BY <2>2, <3>1, <3>2, <4>1 DEF Undisturbed
      <4> QED
        BY <1>2, <1>3, <3>4, <4>2, FirstHitsAgree
    <3> QED
      BY <3>2, <3>3, <3>4
  <2> QED
    BY <1>8, <2>1, <2>2
<1> HIDE DEF h, n
<1>9. SearchType'
  <2>1. new \in Hunts
    <3>1. /\ h.got \cup (upTo \ before) \in SUBSET Messages
          /\ (IF page = 1 THEN searchable ELSE h.known) \in SUBSET Messages
      BY <1>3, <1>4 DEF FirstHits, Hunts
    <3>2. h.hits + Cardinality(upTo \ before) \in Nat
      BY <1>4, <1>7 DEF Hunts
    <3> QED
      BY <1>2, <1>4, <3>1, <3>2 DEF Hunts
  <2>2. UNCHANGED <<searchable, Visible>>
    BY DEF vars, Visible
  <2> HIDE DEF new
  <2> QED
    BY <1>4, <2>1, <2>2 DEF SearchInv, SearchType
<1>10. h.quiet => Undisturbed(new)
  <2> SUFFICES ASSUME h.quiet PROVE Undisturbed(new)
    OBVIOUS
  <2>1. new.known = searchable
    BY <1>8
  <2>2. new.hits = Cut(page * limit, n)
    <3>1. Cut(k, n) \in Nat /\ Cut(page * limit, n) \in Nat
      BY <1>2, <1>3 DEF Cut, n
    <3>2. new.hits = Cut(k, n) + (Cut(page * limit, n) - Cut(k, n))
      BY <1>6, <1>8
    <3> HIDE DEF new
    <3> QED
      BY <3>1, <3>2
  <2>3. new.got \in FirstHits(page * limit, score) \/ ~Ordered(new)
    <3> SUFFICES ASSUME Ordered(new)
                 PROVE  new.got \in FirstHits(page * limit, score)
      OBVIOUS
    <3>1. \A a, b \in searchable :
             a = b \/ Better(a, b, score) \/ Better(b, a, score)
      BY <2>1 DEF Ordered
    <3>2. new.got = upTo
      BY <1>1, <1>8, <3>1
    <3> QED
      BY <1>5, <3>2
  <2>4. new.step = "done" <=> ~(page * limit < n)
    <3>1. page < TotalPages(n, limit) <=> page * limit < n
      BY <1>2, <1>3, AnotherPage DEF n
    <3> QED
      BY <3>1
  <2> QED
    BY <2>1, <2>2, <2>3, <2>4 DEF Undisturbed, n
<1>11. SearchSoFar'
  <2> SUFFICES ASSUME NEW d \in Clients
               PROVE  (IF hunt[d].step = "start"
                       THEN hunt[d].got = {} /\ hunt[d].hits = 0
                       ELSE hunt[d].quiet => Undisturbed(hunt[d]))'
    BY DEF SearchSoFar
  <2>1. UNCHANGED <<timestamp, searchable>>
    BY DEF vars
  <2>2. CASE d = c
    <3>1. hunt'[d] = new
      BY <1>4, <2>2 DEF SearchInv, SearchType
    <3>2. new.step # "start" /\ new.quiet = h.quiet
      OBVIOUS
    <3> HIDE DEF new
    <3> QED
      BY <1>10, <2>1, <3>1, <3>2
         DEF Undisturbed, Ordered, Better, FirstHits
  <2>3. CASE d # c
    <3>1. hunt'[d] = hunt[d]
      BY <1>4, <2>3 DEF SearchInv, SearchType
    <3> QED
      BY <2>1, <3>1
         DEF SearchInv, SearchSoFar, Undisturbed, Ordered, Better, FirstHits
  <2> QED
    BY <2>2, <2>3
<1> QED
  BY <1>9, <1>11 DEF SearchInv

(* Creating messages changes nothing between those that can be found.      *)
LEMMA SearchUntouched ==
  ASSUME SearchInv, Visible \subseteq Visible',
         \A m \in Visible : timestamp'[m] = timestamp[m],
         UNCHANGED <<searchable, hunt>>
  PROVE  SearchInv'
<1>1. \A score : \A a, b \in searchable :
         Better(a, b, score)' <=> Better(a, b, score)
  BY DEF SearchInv, SearchType, Better
<1>2. SearchType'
  BY DEF SearchInv, SearchType
<1>3. \A k, score : FirstHits(k, score)' = FirstHits(k, score)
  BY <1>1 DEF FirstHits
<1>4. ASSUME NEW c \in Clients, Undisturbed(hunt[c])
      PROVE  Undisturbed(hunt[c])'
  BY <1>1, <1>3, <1>4 DEF Undisturbed, Ordered
<1>5. SearchSoFar'
  BY <1>4 DEF SearchInv, SearchSoFar
<1> QED
  BY <1>2, <1>5 DEF SearchInv

(* Each step keeps the invariant.                                          *)
LEMMA SearchInvNext ==
  ASSUME TypeOK, TypeOK', SearchInv, [ReadNext]_readVars
  PROVE  SearchInv'
<1>1. CASE Listed \/ UNCHANGED readVars
  <2>1. UNCHANGED <<searchable, hunt>> /\ [Next]_vars
    BY <1>1 DEF Listed, readVars
  <2>2. /\ Visible \subseteq Visible'
        /\ \A m \in Visible : timestamp'[m] = timestamp[m]
    BY <2>1 DEF TypeOK, Visible, Next, vars, BeginCreate, CommitCreate,
                AbortCreate, Tick, FirstPage, NextPage
  <2> QED
    BY <2>1, <2>2, SearchUntouched
<1>2. CASE \E m \in Messages : IndexMessage(m)
  <2>1. PICK m \in Messages : IndexMessage(m)
    BY <1>2
  <2>2. SearchType'
    <3>1. \A c \in Clients : [hunt[c] EXCEPT !.quiet = FALSE] \in Hunts
      BY DEF SearchInv, SearchType, Hunts
    <3>2. hunt' \in [Clients -> Hunts]
      BY <2>1, <3>1 DEF SearchInv, SearchType, IndexMessage
    <3>3. searchable' \in SUBSET Visible'
      BY <2>1 DEF SearchInv, SearchType, IndexMessage, vars, Visible
    <3> QED
      BY <3>2, <3>3 DEF SearchType
  <2>3. ASSUME NEW c \in Clients
        PROVE  IF hunt'[c].step = "start" THEN hunt'[c] = hunt[c]
                                          ELSE ~hunt'[c].quiet
    BY <2>1 DEF SearchInv, SearchType, IndexMessage, Hunts
  <2>4. SearchSoFar'
    BY <2>3 DEF SearchInv, SearchSoFar
  <2> QED
    BY <2>2, <2>4 DEF SearchInv
<1>3. CASE \E c \in Clients : FirstHitsPage(c)
  <2>1. PICK c \in Clients, limit \in Limits, score \in [Messages -> Scores] :
           /\ hunt[c].step = "start"
           /\ GetHits(c, 1, limit, score)
           /\ UNCHANGED <<vars, searchable>>
    BY <1>3 DEF FirstHitsPage
  <2>2. limit \in Nat \ {0}
    BY ListingAssumption
  <2> QED
    BY <2>1, <2>2, HitsInv
<1>4. CASE \E c \in Clients : NextHitsPage(c)
  <2>1. PICK c \in Clients, score \in [Messages -> Scores] :
           /\ hunt[c].step \in {"more", "unavailable"}
           /\ hunt[c].quiet => score = hunt[c].score
           /\ GetHits(c, hunt[c].page + 1, hunt[c].limit, score)
           /\ UNCHANGED <<vars, searchable>>
    BY <1>4 DEF NextHitsPage
  <2>2. hunt[c].page + 1 \in Nat \ {0} /\ hunt[c].limit \in Nat \ {0}
    BY DEF SearchInv, SearchType, Hunts
  <2> QED
    BY <2>1, <2>2, HitsInv
<1>5. CASE \E c \in Clients : SearchUnavailable(c) \/ PageRejected(c)
  <2>1. PICK c \in Clients, step \in {"unavailable", "rejected"} :
           /\ hunt[c].step \in {"more", "unavailable"}
           /\ hunt' = [hunt EXCEPT ![c].step = step]
           /\ UNCHANGED <<vars, searchable>>
    BY <1>5 DEF SearchUnavailable, PageRejected
  <2>2. SearchType'
    <3>1. [hunt[c] EXCEPT !.step = step] \in Hunts
      BY DEF SearchInv, SearchType, Hunts
    <3>2. hunt' \in [Clients -> Hunts]
      BY <2>1, <3>1 DEF SearchInv, SearchType
    <3>3. searchable' \in SUBSET Visible'
      BY <2>1 DEF SearchInv, SearchType, vars, Visible
    <3> QED
      BY <3>2, <3>3 DEF SearchType
  <2>3. UNCHANGED <<timestamp, searchable>>
    BY <2>1 DEF vars
  <2>4. ASSUME NEW d \in Clients
        PROVE  (IF hunt[d].step = "start"
                THEN hunt[d].got = {} /\ hunt[d].hits = 0
                ELSE hunt[d].quiet => Undisturbed(hunt[d]))'
    <3>1. CASE d = c
      <4>1. /\ hunt'[c] = [hunt[c] EXCEPT !.step = step]
            /\ hunt[c] \in Hunts
        BY <2>1 DEF SearchInv, SearchType
      <4>2. /\ hunt'[c].page = hunt[c].page /\ hunt'[c].limit = hunt[c].limit
            /\ hunt'[c].score = hunt[c].score /\ hunt'[c].quiet = hunt[c].quiet
            /\ hunt'[c].got = hunt[c].got /\ hunt'[c].hits = hunt[c].hits
            /\ hunt'[c].known = hunt[c].known /\ hunt'[c].step = step
        BY <4>1 DEF Hunts
      <4>3. hunt[c].quiet => Undisturbed(hunt[c])
        BY <2>1 DEF SearchInv, SearchSoFar
      <4> QED
        BY <2>1, <2>3, <3>1, <4>2, <4>3
           DEF Undisturbed, Ordered, Better, FirstHits
    <3>2. CASE d # c
      <4>1. hunt'[d] = hunt[d]
        BY <2>1, <3>2 DEF SearchInv, SearchType
      <4> QED
        BY <2>3, <4>1
           DEF SearchInv, SearchSoFar, Undisturbed, Ordered, Better, FirstHits
    <3> QED
      BY <3>1, <3>2
  <2> QED
    BY <2>2, <2>4 DEF SearchInv, SearchSoFar
<1> QED
  BY <1>1, <1>2, <1>3, <1>4, <1>5 DEF ReadNext

(* The inductive invariant of both ways to read.                           *)
ReadInv == Walks /\ SearchInv

LEMMA ReadingHolds == ReadSpec => []ReadInv
<1>1. ReadInit => ReadInv
  <2>1. ASSUME ReadInit PROVE SearchInv
    BY <2>1 DEF ReadInit, SearchInv, SearchType, SearchSoFar, Hunts, NoHunt
  <2> QED
    BY <2>1, InvInit DEF ReadInit, ReadInv, Walks
<1>2. ReadInv /\ [ReadNext]_readVars => ReadInv'
  <2> SUFFICES ASSUME ReadInv, [ReadNext]_readVars PROVE ReadInv'
    OBVIOUS
  <2>1. Walks'
    BY ReadingLists, InvNext DEF ReadInv, Walks
  <2>2. TypeOK /\ TypeOK'
    BY <2>1 DEF ReadInv, Walks, ListingInv
  <2> QED
    BY <2>1, <2>2, SearchInvNext DEF ReadInv
<1> QED
  BY <1>1, <1>2, PTL DEF ReadSpec

(* An undisturbed search has been given the best hits its pages have room  *)
(* for, each once, and all of them when it is told there is no more, for   *)
(* any scores, page sizes and number of messages.                          *)
THEOREM QuietSearchesAreComplete == ReadSpec => []QuietSearchComplete
<1>1. ReadInv => QuietSearchComplete
  BY SearchInvSuffices DEF ReadInv, Walks, ListingInv
<1> QED
  BY <1>1, ReadingHolds, PTL
==============================================================================

------------------------------- MODULE Listing -------------------------------
(***************************************************************************)
(* GET /conversations/:id/messages: a client walks the messages of one     *)
(* conversation page by page, with the cursor over (timestamp, _id) that   *)
(* each page returns (ListMessagesService, MongoMessageRepository), while  *)
(* CreateMessageService goes on committing messages.                       *)
(*                                                                         *)
(* A message takes its timestamp before its transaction starts and becomes *)
(* visible when it commits, so messages become visible out of timestamp    *)
(* order.  A message is named by its _id, which other processes draw too:  *)
(* ids say nothing about the order of commits.                             *)
(***************************************************************************)
EXTENDS Integers, FiniteSets

CONSTANTS
    Messages,   \* _id values of one conversation, ordered as ObjectIds are
    Clients,    \* walks over the pages
    Limits,     \* the limits a client asks for
    MaxClock    \* bound: the clock stops here

ASSUME ListingAssumption ==
    /\ Messages \subseteq Nat
    /\ IsFiniteSet(Messages)
    /\ Limits \subseteq Nat \ {0}
    /\ MaxClock \in Nat

VARIABLES
    clock,      \* what `new Date()` returns
    created,    \* how far the creation of each message is
    timestamp,  \* of each message, once its creation began
    walk        \* the state of each client

vars == <<clock, created, timestamp, walk>>

SortOrders == {"asc", "desc"}

Visible == {m \in Messages : created[m] = "committed"}

-----------------------------------------------------------------------------
(* CreateMessageService.execute.                                           *)

BeginCreate(m) ==
    /\ created[m] = "no"
    /\ created' = [created EXCEPT ![m] = "open"]
    /\ timestamp' = [timestamp EXCEPT ![m] = clock]
    /\ UNCHANGED <<clock, walk>>

CommitCreate(m) ==
    /\ created[m] = "open"
    /\ created' = [created EXCEPT ![m] = "committed"]
    /\ UNCHANGED <<clock, timestamp, walk>>

AbortCreate(m) ==
    /\ created[m] = "open"
    /\ created' = [created EXCEPT ![m] = "aborted"]
    /\ UNCHANGED <<clock, timestamp, walk>>

Tick ==
    /\ clock < MaxClock
    /\ clock' = clock + 1
    /\ UNCHANGED <<created, timestamp, walk>>

-----------------------------------------------------------------------------
(* The query.                                                              *)

NoCursor == [o |-> "none", t |-> 0, id |-> 0]

(* encodeMessageCursor of the last message of a page.                      *)
EncodeCursor(m, order) == [o |-> order, t |-> timestamp[m], id |-> m]

(* Mutant: any cursor goes with any sort order.                            *)
DecodesUnchecked(cursor, order) == TRUE

(* decodeMessageCursor: a cursor of the other sort order is a 400.         *)
Decodes(cursor, order) == cursor.o \in {"none", order}

(* Mutants: no tie-break on _id; the anchor itself matches again.          *)
BeyondTimestamp(m, cursor, order) ==
    \/ cursor = NoCursor
    \/ order = "asc" /\ timestamp[m] > cursor.t
    \/ order = "desc" /\ timestamp[m] < cursor.t
BeyondInclusive(m, cursor, order) ==
    \/ cursor = NoCursor
    \/ order = "asc" /\ timestamp[m] >= cursor.t
    \/ order = "desc" /\ timestamp[m] <= cursor.t

(* The $or filter of listByConversation.                                   *)
Beyond(m, cursor, order) ==
    \/ cursor = NoCursor
    \/ order = "asc" /\ timestamp[m] > cursor.t
    \/ order = "asc" /\ timestamp[m] = cursor.t /\ m > cursor.id
    \/ order = "desc" /\ timestamp[m] < cursor.t
    \/ order = "desc" /\ timestamp[m] = cursor.t /\ m < cursor.id

(* The sort of listByConversation: p comes before q.                       *)
Older(p, q) ==
    timestamp[p] < timestamp[q] \/ (timestamp[p] = timestamp[q] /\ p < q)

Before(p, q, order) == IF order = "asc" THEN Older(p, q) ELSE Older(q, p)

FirstOf(found, order, n) ==
    {m \in found : Cardinality({p \in found : Before(p, m, order)}) < n}

(* find().sort().limit(n) of the messages beyond the cursor.               *)
ListByConversation(cursor, order, n) ==
    FirstOf({m \in Visible : Beyond(m, cursor, order)}, order, n)

(* One more than the page, to know whether there is another.               *)
FetchLimit(limit) == limit + 1

(* getNextCursor: null unless there is more.                               *)
NextCursor(page, order, hasMore) ==
    IF hasMore
    THEN LET last == CHOOSE m \in page :
                       \A p \in page : p = m \/ Before(p, m, order)
         IN EncodeCursor(last, order)
    ELSE NoCursor

(* ListMessagesService.execute.  got, twice and known are history          *)
(* variables: what the client was given, whether it was given something    *)
(* twice, and what was visible when its walk began.                        *)
GetPage(c, order, limit) ==
    LET w == walk[c]
        found == ListByConversation(w.cursor, order, FetchLimit(limit))
        page == FirstOf(found, order, limit)
        hasMore == Cardinality(found) > limit
    IN walk' = [walk EXCEPT ![c] =
         IF ~Decodes(w.cursor, order) THEN [w EXCEPT !.step = "rejected"]
         ELSE [step |-> IF hasMore THEN "more" ELSE "done", order |-> order,
               cursor |-> NextCursor(page, order, hasMore),
               twice |-> w.twice \/ page \cap w.got # {},
               got |-> w.got \cup page,
               known |-> IF w.step = "start" THEN Visible ELSE w.known]]

(* The first request names no cursor.                                      *)
FirstPage(c) ==
    /\ walk[c].step = "start"
    /\ \E order \in SortOrders, limit \in Limits : GetPage(c, order, limit)
    /\ UNCHANGED <<clock, created, timestamp>>

(* The next ones pass nextCursor on, with any sort order and limit.        *)
NextPage(c) ==
    /\ walk[c].step = "more"
    /\ \E order \in SortOrders, limit \in Limits : GetPage(c, order, limit)
    /\ UNCHANGED <<clock, created, timestamp>>

-----------------------------------------------------------------------------
Init ==
    /\ clock = 0
    /\ created = [m \in Messages |-> "no"]
    /\ timestamp = [m \in Messages |-> 0]
    /\ walk = [c \in Clients |->
                 [step |-> "start", order |-> "desc", cursor |-> NoCursor,
                  twice |-> FALSE, got |-> {}, known |-> {}]]

Next ==
    \/ \E m \in Messages : BeginCreate(m) \/ CommitCreate(m) \/ AbortCreate(m)
    \/ \E c \in Clients : FirstPage(c) \/ NextPage(c)
    \/ Tick

Spec == Init /\ [][Next]_vars

-----------------------------------------------------------------------------
(* Properties.                                                             *)

(* Types.                                                                  *)
TypeOK ==
    /\ clock \in Nat
    /\ created \in [Messages -> {"no", "open", "committed", "aborted"}]
    /\ timestamp \in [Messages -> Nat]
    /\ walk \in [Clients ->
                   [step: {"start", "more", "done", "rejected"},
                    order: SortOrders,
                    cursor: [o: SortOrders \cup {"none"}, t: Nat, id: Nat],
                    twice: BOOLEAN, got: SUBSET Messages,
                    known: SUBSET Messages]]

(* A walk in progress has a cursor of its own sort order, and was given    *)
(* nothing that lies beyond it; what was visible when it began, it was     *)
(* given or lies beyond the cursor.  Messages committed meanwhile with an  *)
(* older timestamp may fall through, others may not.                       *)
WalkSoFar ==
    \A c \in Clients :
        LET w == walk[c]
        IN w.step = "more" =>
             /\ w.cursor.o = w.order
             /\ \A m \in w.got : ~Beyond(m, w.cursor, w.order)
             /\ \A m \in w.known \ w.got : Beyond(m, w.cursor, w.order)

(* A client knows of committed messages only, and of none in the beginning.*)
WalkWithin ==
    \A c \in Clients :
        LET w == walk[c]
        IN /\ w.got \cup w.known \subseteq Visible
           /\ w.step = "start" => w.got = {} /\ w.cursor = NoCursor

(* The inductive invariant.                                                *)
ListingInv == TypeOK /\ WalkSoFar /\ WalkWithin

(* No message is returned twice, although messages are committed before,   *)
(* after and at the cursor between two pages.                              *)
NothingTwice == \A c \in Clients : ~walk[c].twice

(* A finished walk has returned every message that was committed before it *)
(* began, whatever was committed meanwhile, ties on the timestamp included.*)
WalkComplete ==
    \A c \in Clients :
        walk[c].step = "done" => walk[c].known \subseteq walk[c].got

(* A walk comes to its end: each page moves the cursor.                    *)
WalkEnds ==
    \A c \in Clients : walk[c].step = "more" ~> walk[c].step # "more"

=============================================================================

------------------------------- MODULE Reading -------------------------------
(***************************************************************************)
(* Both ways to read a conversation: the cursor walk of module Listing,    *)
(* and GET .../messages/search, whose pages EsMessageSearch cuts with      *)
(* from/size from the documents behind the read alias, sorted by score and *)
(* then by timestamp.  Messages stands for those that match the query.     *)
(*                                                                         *)
(* Elasticsearch is external: how it scores a document depends on what is  *)
(* in the index, so a write, even of a document it has, may change every   *)
(* score; documents that agree on score and timestamp come in any order,   *)
(* another one for each request.                                           *)
(***************************************************************************)
EXTENDS Listing

CONSTANTS
    Scores,     \* the scores a document may get
    MaxPage     \* the last page the query DTO accepts

ASSUME ReadingAssumption ==
    /\ Scores \subseteq Nat
    /\ MaxPage \in Nat \ {0}

VARIABLES
    searchable,  \* documents behind the read alias
    hunt         \* the search of each client, page after page

readVars == <<vars, searchable, hunt>>

NoHunt == [step |-> "start", page |-> 0, limit |-> 1,
           score |-> [m \in Messages |-> 0], quiet |-> TRUE,
           got |-> {}, hits |-> 0, known |-> {}]

(* The indexer writes the document of a committed message, perhaps again.  *)
IndexMessage(m) ==
    /\ m \in Visible
    /\ searchable' = searchable \cup {m}
    /\ hunt' = [c \in Clients |->
                  IF hunt[c].step = "start" THEN hunt[c]
                  ELSE [hunt[c] EXCEPT !.quiet = FALSE]]
    /\ UNCHANGED vars

-----------------------------------------------------------------------------
(* searchMessages.                                                         *)

(* Whether hit a is sorted before hit b whatever the request.              *)
Better(a, b, score) ==
    \/ score[a] > score[b]
    \/ score[a] = score[b] /\ timestamp[a] > timestamp[b]

(* The sets of hits that may come first, k in number.                      *)
FirstHits(k, score) ==
    {s \in SUBSET searchable :
       /\ Cardinality(s) = IF k < Cardinality(searchable)
                           THEN k ELSE Cardinality(searchable)
       /\ \A a \in s, b \in searchable \ s : ~Better(b, a, score)}

(* Mutant: pages are counted from zero.                                    *)
FromZeroBased(page, limit) == page * limit

From(page, limit) == (page - 1) * limit

TotalPages(total, limit) == (total + limit - 1) \div limit

(* A page of hits, and how the client's search stands after it.            *)
GetHits(c, page, limit, score) ==
    \E before \in FirstHits(From(page, limit), score),
       upTo \in FirstHits(From(page, limit) + limit, score) :
        LET hits == upTo \ before
            more == page < TotalPages(Cardinality(searchable), limit)
        IN /\ before \subseteq upTo
           /\ hunt' = [hunt EXCEPT ![c] =
                [step |-> IF more THEN "more" ELSE "done",
                 page |-> page, limit |-> limit, score |-> score,
                 quiet |-> hunt[c].quiet,
                 got |-> hunt[c].got \cup hits,
                 hits |-> hunt[c].hits + Cardinality(hits),
                 known |-> IF page = 1 THEN searchable ELSE hunt[c].known]]

(* The first request of a search.  A client reads in one of the two ways.  *)
FirstHitsPage(c) ==
    /\ hunt[c].step = "start" /\ walk[c].step = "start"
    /\ \E limit \in Limits, score \in [Messages -> Scores] :
         GetHits(c, 1, limit, score)
    /\ UNCHANGED <<vars, searchable>>

(* The next page; scores are as they were if nothing was written.          *)
NextHitsPage(c) ==
    /\ hunt[c].step \in {"more", "unavailable"}
    /\ hunt[c].page < MaxPage
    /\ \E score \in [Messages -> Scores] :
         /\ hunt[c].quiet => score = hunt[c].score
         /\ GetHits(c, hunt[c].page + 1, hunt[c].limit, score)
    /\ UNCHANGED <<vars, searchable>>

(* SearchUnavailableError, a 503: the client may ask for the page again.   *)
SearchUnavailable(c) ==
    /\ hunt[c].step = "more"
    /\ hunt' = [hunt EXCEPT ![c].step = "unavailable"]
    /\ UNCHANGED <<vars, searchable>>

(* A page beyond the last one the DTO accepts is a 400.                    *)
PageRejected(c) ==
    /\ hunt[c].step \in {"more", "unavailable"}
    /\ hunt[c].page = MaxPage
    /\ hunt' = [hunt EXCEPT ![c].step = "rejected"]
    /\ UNCHANGED <<vars, searchable>>

-----------------------------------------------------------------------------
ReadInit ==
    /\ Init
    /\ searchable = {}
    /\ hunt = [c \in Clients |-> NoHunt]

(* The listing, and the creation of messages.                              *)
Listed ==
    /\ Next
    /\ \A c \in Clients : hunt[c].step = "start" \/ UNCHANGED walk[c]
    /\ UNCHANGED <<searchable, hunt>>

ReadNext ==
    \/ Listed
    \/ \E m \in Messages : IndexMessage(m)
    \/ \E c \in Clients : \/ FirstHitsPage(c)
                          \/ NextHitsPage(c)
                          \/ SearchUnavailable(c)
                          \/ PageRejected(c)

ReadSpec ==
    /\ ReadInit /\ [][ReadNext]_readVars
    /\ \A c \in Clients :
         WF_readVars(NextPage(c) /\ UNCHANGED <<searchable, hunt>>)

-----------------------------------------------------------------------------
(* Properties.                                                             *)

(* No two hits of a search agree on what the results are sorted by.        *)
Ordered(h) ==
    \A a, b \in h.known : a = b \/ Better(a, b, h.score) \/ Better(b, a, h.score)

(* A search that no write disturbed has been given as many hits as its     *)
(* pages hold, so that one that came twice means another one missing; and  *)
(* exactly the best ones, each once, when no two agree on score and        *)
(* timestamp.  An undisturbed search that is told there is no more has     *)
(* been given all.                                                         *)
QuietSearchComplete ==
    \A c \in Clients :
        LET h == hunt[c]
            n == Cardinality(h.known)
            given == IF h.page * h.limit < n THEN h.page * h.limit ELSE n
        IN h.step # "start" /\ h.quiet =>
             /\ h.hits = given
             /\ Ordered(h) => /\ Cardinality(h.got) = given
                              /\ \A a \in h.got, b \in h.known \ h.got :
                                   Better(a, b, h.score)
             /\ h.step = "done" <=> h.hits = n

=============================================================================

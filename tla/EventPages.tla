----------------------------- MODULE EventPages -----------------------------
(***************************************************************************)
(* The screen that lists the events, page after page.  A page is read by   *)
(* the service some time after it is asked for, and its answer comes later *)
(* still, perhaps after that of another page.  Details are left out.       *)
(***************************************************************************)
EXTENDS Naturals, FiniteSets, SequencesExt

CONSTANTS
  Ranks,     \* events that may exist, by their place in the service's order
  PageSize,  \* PAGE_SIZE
  MaxLoads   \* pages that may be asked for together (bound of the model)

ASSUME PagesAssumption == Ranks \subseteq Nat /\ {PageSize, MaxLoads} \subseteq Nat \ {0}

VARIABLES
  catalogue,   \* events of the service
  listed,      \* this.events
  hasMore, loadingList, loadingMore,  \* loadingList is the code's loading
  loads,       \* pages asked for: offset, whether it replaces the list, the answer once read
  shifted      \* history: an event was created, or a page was asked for before another came

pagesVars == <<catalogue, listed, hasMore, loadingList, loadingMore, loads, shifted>>

Unread == [read |-> FALSE, events |-> <<>>, more |-> FALSE]
InOrder(S) ==
  [n \in 1..Cardinality(S) |-> CHOOSE e \in S : Cardinality({d \in S : d < e}) = n - 1]

PagesTypeOK ==
  /\ catalogue \subseteq Ranks /\ IsFiniteSet(catalogue)
  /\ listed \in Seq(Ranks)
  /\ {hasMore, loadingList, loadingMore, shifted} \subseteq BOOLEAN
  /\ \A l \in loads : l.offset \in Nat /\ l.replaces \in BOOLEAN

PagesInit ==
  /\ catalogue \in SUBSET Ranks /\ IsFiniteSet(catalogue)
  /\ listed = <<>> /\ hasMore = FALSE
  /\ loadingList = TRUE /\ loadingMore = FALSE
  /\ loads = {[offset |-> 0, replaces |-> TRUE, answer |-> Unread]}
  /\ shifted = FALSE

Load(offset, replaces) ==
  /\ Cardinality(loads) < MaxLoads
  /\ [offset |-> offset, replaces |-> replaces, answer |-> Unread] \notin loads
  /\ loads' = loads \cup {[offset |-> offset, replaces |-> replaces, answer |-> Unread]}
  /\ shifted' = (shifted \/ loads # {})
  /\ UNCHANGED <<catalogue, listed, hasMore>>

Refresh ==
  /\ ~loadingList
  /\ loadingList' = TRUE
  /\ Load(0, TRUE)
  /\ UNCHANGED loadingMore

\* Mutation: the offset counts pages.
LoadNextPage ==
  /\ hasMore /\ ~loadingMore
  /\ loadingMore' = TRUE
  /\ Load(PageSize, FALSE)
  /\ UNCHANGED loadingList

LoadMore ==
  /\ hasMore /\ ~loadingMore
  /\ loadingMore' = TRUE
  /\ Load(Len(listed), FALSE)
  /\ UNCHANGED loadingList

\* The service reads a page, and says whether others follow it; a page that
\* would start after the last event is an error (PageFails).
PageRead(l) ==
  /\ ~l.answer.read /\ l.offset <= Cardinality(catalogue)
  /\ LET all  == InOrder(catalogue)
         last == CHOOSE n \in {Len(all), l.offset + PageSize} :
                   n <= Len(all) /\ n <= l.offset + PageSize
     IN loads' = (loads \ {l}) \cup
          {[l EXCEPT !.answer = [read   |-> TRUE,
                                 events |-> SubSeq(all, l.offset + 1, last),
                                 more   |-> last < Len(all)]]}
  /\ UNCHANGED <<catalogue, listed, hasMore, loadingList, loadingMore, shifted>>

\* Either answer ends both waits, as an error does.
PageArrives(l) ==
  /\ l.answer.read
  /\ listed' = IF l.replaces THEN l.answer.events ELSE listed \o l.answer.events
  /\ hasMore' = l.answer.more
  /\ loadingList' = FALSE /\ loadingMore' = FALSE
  /\ loads' = loads \ {l}
  /\ UNCHANGED <<catalogue, shifted>>

PageFails(l) ==
  /\ loadingList' = FALSE /\ loadingMore' = FALSE
  /\ loads' = loads \ {l}
  /\ UNCHANGED <<catalogue, listed, hasMore, shifted>>

\* Another administrator creates an event, anywhere in the order of dates.
EventCreated ==
  /\ \E e \in Ranks \ catalogue : catalogue' = catalogue \cup {e}
  /\ shifted' = TRUE
  /\ UNCHANGED <<listed, hasMore, loadingList, loadingMore, loads>>

PagesNext ==
  \/ Refresh \/ LoadMore \/ EventCreated
  \/ \E l \in loads : PageRead(l) \/ PageArrives(l) \/ PageFails(l)

-----------------------------------------------------------------------------
(* The list is the head of the service's, in its order and without holes   *)
(* or repetitions, and the button that goes on is there exactly when       *)
(* events are missing (unless no page came yet): true as long as no event  *)
(* is created meanwhile and no page is asked for before another came.      *)
PagesAreContiguous ==
  ~shifted =>
    LET all == InOrder(catalogue) IN
      /\ IsPrefix(listed, all)
      /\ listed # <<>> => (hasMore <=> Len(listed) < Len(all))
=============================================================================

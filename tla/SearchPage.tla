----------------------------- MODULE SearchPage -----------------------------
(***************************************************************************)
(* The pages that search a table the user does not change: messages        *)
(* (messages/page.tsx) and notification tasks (notifications/page.tsx).    *)
(*                                                                         *)
(* A change of the page number or of the filter starts a request, however  *)
(* many are under way; the answers come in any order and the last one to   *)
(* arrive is shown.  Others change the table at any time; an answer is     *)
(* known by the number of pages that its count makes.                      *)
(***************************************************************************)
EXTENDS Naturals

CONSTANTS
  Filters,   \* the values of the filters, applied or of the status select
  NoFilter,  \* the empty filter, one of them
  MaxPages,  \* bound: no filter has more pages
  Loads      \* the requests that may be under way at once

ASSUME SearchAssumption ==
  NoFilter \in Filters /\ MaxPages \in Nat \ {0} /\ Loads # {}

VARIABLES
  wanted,    \* page and applied
  load,      \* load[t]: a request and, once it is served, its answer
  newest,    \* history: the request that was sent last
  shown,     \* the rows shown: whose answer they are, and its meta.total
  loading, error,
  crossed    \* history: the answer that came last is not that of newest

searchVars == <<wanted, load, newest, shown, loading, error, crossed>>

----------------------------------------------------------------------------
SearchQueries == [page : Nat, filter : Filters]

FirstQuery == [page |-> 1, filter |-> NoFilter]

NoLoad == [pc |-> "idle", query |-> FirstQuery, pages |-> 0]

LoadStates == [pc : {"idle", "sent", "served"}, query : SearchQueries, pages : 0 .. MaxPages]

FirstLoad == CHOOSE t \in Loads : TRUE

\* Mounted, with the first load under way.
LoadsAtFirst ==
  [t \in Loads |-> IF t = FirstLoad THEN [NoLoad EXCEPT !.pc = "sent"] ELSE NoLoad]

SearchInit ==
  /\ wanted = FirstQuery
  /\ load = LoadsAtFirst /\ newest = FirstLoad
  /\ shown = [query |-> FirstQuery, pages |-> 0]
  /\ loading = TRUE /\ error = FALSE /\ crossed = FALSE

SearchMount ==
  /\ wanted' = FirstQuery
  /\ load' = LoadsAtFirst /\ newest' = FirstLoad
  /\ shown' = [query |-> FirstQuery, pages |-> 0]
  /\ loading' = TRUE /\ error' = FALSE /\ crossed' = FALSE

\* The effect that follows a change of load's dependencies.
Reload(query) ==
  /\ wanted' = query
  /\ \E t \in Loads :
       /\ load[t].pc = "idle"
       /\ load' = [load EXCEPT ![t] = [NoLoad EXCEPT !.pc = "sent", !.query = query]]
       /\ newest' = t
  /\ loading' = TRUE
  /\ UNCHANGED <<shown, error, crossed>>

\* A plausible bug: load does not depend on applied.
SearchKeepsLoad(f) ==
  /\ wanted' = [page |-> 1, filter |-> f]
  /\ UNCHANGED <<load, newest, shown, loading, error, crossed>>

\* search(), reset() and the status select: back to the first page.
Search(f) ==
  /\ [page |-> 1, filter |-> f] # wanted
  /\ Reload([page |-> 1, filter |-> f])

\* reset() renews the filters even if they were empty.
Reset == Reload(FirstQuery)

\* Math.max(1, Math.ceil(total / pageSize))
TotalPages == IF shown.pages = 0 THEN 1 ELSE shown.pages

TurnPage ==
  \/ wanted.page > 1 /\ Reload([wanted EXCEPT !.page = @ - 1])
  \/ wanted.page < TotalPages /\ Reload([wanted EXCEPT !.page = @ + 1])

\* The count and the rows of the moment.
LoadServed(t) ==
  /\ load[t].pc = "sent"
  /\ \E n \in 0 .. MaxPages : load' = [load EXCEPT ![t].pc = "served", ![t].pages = n]
  /\ UNCHANGED <<wanted, newest, shown, loading, error, crossed>>

LoadArrives(t) ==
  /\ load[t].pc = "served"
  /\ load' = [load EXCEPT ![t] = NoLoad]
  /\ shown' = [query |-> load[t].query, pages |-> load[t].pages]
  /\ loading' = FALSE
  /\ error' = FALSE
  /\ crossed' = (t # newest)
  /\ UNCHANGED <<wanted, newest>>

LoadFails(t) ==
  /\ load[t].pc # "idle"
  /\ load' = [load EXCEPT ![t] = NoLoad]
  /\ loading' = FALSE
  /\ error' = TRUE
  /\ UNCHANGED <<wanted, newest, shown, crossed>>

\* The steps that the API takes for a request it has verified.
SearchServed == \E t \in Loads : LoadServed(t)

SearchStep ==
  \/ \E f \in Filters : Search(f)
  \/ Reset \/ TurnPage
  \/ \E t \in Loads : LoadArrives(t) \/ LoadFails(t)

SearchAsking == \E t \in Loads : load[t].pc = "sent"

----------------------------------------------------------------------------
(***************************************************************************)
(* Properties.                                                             *)
(***************************************************************************)
\* Every variable stays within its type.
SearchTypeOK ==
  /\ wanted \in SearchQueries /\ wanted.page >= 1
  /\ load \in [Loads -> LoadStates]
  /\ newest \in Loads
  /\ shown \in [query : SearchQueries, pages : 0 .. MaxPages]
  /\ loading \in BOOLEAN /\ error \in BOOLEAN /\ crossed \in BOOLEAN

SearchQuiet == \A t \in Loads : load[t].pc = "idle"

\* When nothing is under way, the page either reports an error or shows rows of
\* the page and filter that are set, and it does not look busy: unless an older
\* answer arrived after a newer one.
ShownIsWanted ==
  SearchQuiet => /\ ~loading
                 /\ error \/ crossed \/ shown.query = wanted
============================================================================

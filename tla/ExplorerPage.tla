----------------------------- MODULE ExplorerPage -----------------------------
(***************************************************************************)
(* The resource explorer: every change of a filter asks for the rows       *)
(* again.  No earlier request is cancelled, and the answers are shown in   *)
(* whatever order they come.                                               *)
(***************************************************************************)
EXTENDS Integers, FiniteSets, PageRequests

CONSTANTS
  SearchTerms, ResourceTypes, Providers, Dates,  \* values of the filters
  ExplorerSlots                                  \* bound: requests under way at once

Filters == [search : SearchTerms, type : ResourceTypes, provider : Providers,
            date : Dates, removed : BOOLEAN]

ASSUME ExplorerAssumption == ExplorerSlots # {} /\ None \notin Filters

VARIABLES
  filters,          \* searchTerm, filterType, filterProvider, selectedDate, showRemoved
  offered,          \* whether availableTypes and availableProviders have come
  resources,        \* the filters the rows shown were asked with; None for no rows
  explorerLoading,
  inTurn,           \* history: no two requests for rows overlapped since the last of
                    \* the answers, and that one brought rows
  explorerCalls

explorerVars == <<filters, offered, resources, explorerLoading, inTurn, explorerCalls>>

Unfiltered ==
  {f \in Filters : f.search = None /\ f.type = None /\ f.provider = None /\ ~f.removed}

ExplorerInit ==
  /\ filters \in Unfiltered
  /\ offered = FALSE
  /\ resources = None
  /\ explorerLoading = TRUE
  /\ inTurn = TRUE
  /\ explorerCalls = Send([s \in ExplorerSlots |-> None], filters)

\* Slip: the checkbox is not among the effect's dependencies.
DependsWithoutRemoved(f, g) == [f EXCEPT !.removed = TRUE] # [g EXCEPT !.removed = TRUE]

\* Whether the effect that asks for the rows runs again.
Depends(f, g) == f # g

\* The search field, the date, the two menus and the checkbox, each followed by
\* the effect.
FilterChoices ==
  {[filters EXCEPT !.search = v] : v \in SearchTerms}
  \cup {[filters EXCEPT !.date = v] : v \in Dates}
  \cup {[filters EXCEPT !.type = v] : v \in IF offered THEN ResourceTypes ELSE {}}
  \cup {[filters EXCEPT !.provider = v] : v \in IF offered THEN Providers ELSE {}}
  \cup {[filters EXCEPT !.removed = ~filters.removed]}

ChooseFilter ==
  /\ \E f \in FilterChoices \ {filters} :
       /\ filters' = f
       /\ IF Depends(filters, f)
            THEN /\ Free(explorerCalls) # {}
                 /\ explorerCalls' = Send(explorerCalls, f)
                 /\ explorerLoading' = TRUE
                 /\ inTurn' = (Waiting(explorerCalls) = {})
            ELSE UNCHANGED <<explorerCalls, explorerLoading, inTurn>>
  /\ UNCHANGED <<offered, resources>>

\* The menus' values.
FiltersOffered ==
  /\ ~offered
  /\ offered' = TRUE
  /\ UNCHANGED <<filters, resources, explorerLoading, inTurn, explorerCalls>>

\* The rows of the request, and no skeleton over them any more.
ResourcesListed(s) ==
  /\ explorerCalls[s] # None
  /\ resources' = explorerCalls[s]
  /\ explorerLoading' = FALSE
  /\ explorerCalls' = Answered(explorerCalls, s)
  /\ UNCHANGED <<filters, offered, inTurn>>

\* An answer that is no list shows as no rows; one that does not come leaves
\* the rows there are.
ResourcesFail(s) ==
  /\ explorerCalls[s] # None
  /\ resources' \in {resources, None}
  /\ explorerLoading' = FALSE
  /\ inTurn' = FALSE
  /\ explorerCalls' = Answered(explorerCalls, s)
  /\ UNCHANGED <<filters, offered>>

\* The page is left and mounted again.
RemountExplorer ==
  /\ filters' \in Unfiltered
  /\ offered' = FALSE
  /\ resources' = None
  /\ explorerLoading' = TRUE
  /\ inTurn' = TRUE
  /\ explorerCalls' = Send([s \in ExplorerSlots |-> None], filters')

ExplorerNext ==
  \/ ChooseFilter \/ FiltersOffered
  \/ \E s \in ExplorerSlots : ResourcesListed(s) \/ ResourcesFail(s)
  \/ RemountExplorer

ExplorerSpec == ExplorerInit /\ [][ExplorerNext]_explorerVars

-----------------------------------------------------------------------------
\* Types of the page's state.
ExplorerTypeOK ==
  /\ filters \in Filters
  /\ offered \in BOOLEAN /\ explorerLoading \in BOOLEAN /\ inTurn \in BOOLEAN
  /\ resources \in Filters \cup {None}
  /\ explorerCalls \in [ExplorerSlots -> Filters \cup {None}]

\* When each request was answered before the next, the rows below the filters,
\* and those an export writes with the date in its name, are the rows of the
\* filters that are set.
RowsMatchFilters ==
  inTurn /\ Waiting(explorerCalls) = {} => resources = filters

\* The skeleton is there only while rows are asked for.
ExplorerReleases == explorerLoading => Waiting(explorerCalls) # {}
=============================================================================

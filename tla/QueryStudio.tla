----------------------------- MODULE QueryStudio -----------------------------
(***************************************************************************)
(* The page that builds queries: the user picks a service, its columns,    *)
(* conditions and an order from what the catalog offers, and the backend   *)
(* compiles what the page sends.  Labels, values, limits and the text of   *)
(* the SQL are left out.                                                   *)
(***************************************************************************)
EXTENDS Integers, SequencesExt, PageRequests

CONSTANTS
  Services,      \* keys of the catalog's services
  ColumnTypes,   \* per service, its columns and their types
  FirstColumn,   \* per service, the column its first entry is
  DefaultsOf,    \* per service, the columns selected by default
  Operators,     \* per type, its operators
  FirstOperator, \* per type, its first operator
  Recipes,       \* [service, conditions]
  QueryAccounts, \* accounts a query can run against
  MaxConditions  \* bound: conditions of a query

ColumnsOf(service) == DOMAIN ColumnTypes[service]
Columns   == UNION {ColumnsOf(v) : v \in Services}
QueryCondition == [column : Columns, operator : UNION {Operators[t] : t \in DOMAIN Operators}]
\* What a query is sent as.
QueryRequest == [service : Services, columns : SUBSET Columns, conditions : Seq(QueryCondition),
                 orderBy : Columns \cup {None}]

Fits(condition, service) ==
  /\ condition.column \in ColumnsOf(service)
  /\ condition.operator \in Operators[ColumnTypes[service][condition.column]]

\* The catalog's defaults are columns, every column has a type with operators,
\* and its recipes fit the services they are for.
ASSUME QueryAssumption ==
  /\ MaxConditions \in Nat
  /\ \A v \in Services :
       /\ FirstColumn[v] \in ColumnsOf(v) /\ DefaultsOf[v] \subseteq ColumnsOf(v)
       /\ \A c \in ColumnsOf(v) :
            /\ ColumnTypes[v][c] \in DOMAIN Operators
            /\ FirstOperator[ColumnTypes[v][c]] \in Operators[ColumnTypes[v][c]]
       /\ \A r \in Recipes : r.service = v =>
            /\ r.conditions \in Seq(QueryCondition) /\ Len(r.conditions) <= MaxConditions
            /\ \A i \in DOMAIN r.conditions : Fits(r.conditions[i], v)
  /\ None \notin QueryRequest

VARIABLES
  catalog,          \* "loading", "ready", "error" or "failed" (the page does not render)
  queryAccounts,    \* accounts
  serviceKey,
  selectedColumns,
  conditions,
  orderBy,
  accountId,
  result,           \* the service the rows shown are of
  running,          \* isRunning
  queryCall         \* the request under way: the button is disabled meanwhile

queryVars == <<catalog, queryAccounts, serviceKey, selectedColumns, conditions,
               orderBy, accountId, result, running, queryCall>>

QueryInit ==
  /\ catalog = "loading"
  /\ queryAccounts = {} /\ accountId = None
  /\ serviceKey = None
  /\ selectedColumns = {} /\ conditions = <<>> /\ orderBy = None
  /\ result = None
  /\ running = FALSE
  /\ queryCall = None

-----------------------------------------------------------------------------
\* The catalog and the accounts, which come together or not at all.
CatalogLoaded ==
  /\ catalog = "loading"
  /\ \/ /\ catalog' = "ready"
        /\ queryAccounts' \in SUBSET QueryAccounts
        /\ accountId' \in IF queryAccounts' = {} THEN {None} ELSE queryAccounts'
     \/ /\ catalog' \in {"error", "failed"}  \* no answer; an answer that is no catalog
        /\ UNCHANGED <<queryAccounts, accountId>>
  /\ UNCHANGED <<serviceKey, selectedColumns, conditions, orderBy, result, running, queryCall>>

\* selectService: nothing of the former service is kept.
BuilderReset(service) ==
  /\ selectedColumns' = DefaultsOf[service]
  /\ conditions' = <<>>
  /\ orderBy' = None

SelectService ==
  /\ catalog = "ready"
  /\ \E v \in Services : serviceKey' = v /\ BuilderReset(v)
  /\ result' = None
  /\ UNCHANGED <<catalog, queryAccounts, accountId, running, queryCall>>

Building == catalog = "ready" /\ serviceKey # None
BuilderOther == UNCHANGED <<catalog, queryAccounts, accountId, serviceKey, result, running, queryCall>>

ApplyRecipe ==
  /\ Building
  /\ \E r \in Recipes :
       /\ r.service = serviceKey
       /\ conditions' = r.conditions
  /\ selectedColumns' = DefaultsOf[serviceKey]
  /\ orderBy' = None
  /\ result' = None
  /\ UNCHANGED <<catalog, queryAccounts, accountId, serviceKey, running, queryCall>>

\* toggleColumn, selectAllColumns and resetToDefaultColumns leave orderBy as it is.
ChooseColumns ==
  /\ Building
  /\ \/ \E c \in ColumnsOf(serviceKey) : selectedColumns' =
          IF c \in selectedColumns THEN selectedColumns \ {c} ELSE selectedColumns \cup {c}
     \/ selectedColumns' \in {ColumnsOf(serviceKey), DefaultsOf[serviceKey]}
  /\ UNCHANGED <<conditions, orderBy>> /\ BuilderOther

Initially(column) ==
  [column |-> column, operator |-> FirstOperator[ColumnTypes[serviceKey][column]]]

AddCondition ==
  /\ Building /\ Len(conditions) < MaxConditions
  /\ conditions' = Append(conditions, Initially(FirstColumn[serviceKey]))
  /\ UNCHANGED <<selectedColumns, orderBy>> /\ BuilderOther

\* Slip: the operator chosen for the former column stays.
OtherColumnOnly(condition, column) == [condition EXCEPT !.column = column]

\* ConditionEditor: another column takes the first operator of its type.
OtherColumn(condition, column) == Initially(column)

ChangeCondition ==
  /\ Building
  /\ \E i \in DOMAIN conditions :
       \/ \E c \in ColumnsOf(serviceKey) :
            conditions' = [conditions EXCEPT ![i] = OtherColumn(@, c)]
       \/ \E o \in Operators[ColumnTypes[serviceKey][conditions[i].column]] :
            conditions' = [conditions EXCEPT ![i].operator = o]
  /\ UNCHANGED <<selectedColumns, orderBy>> /\ BuilderOther

RemoveCondition ==
  /\ Building
  /\ \E i \in DOMAIN conditions : conditions' = RemoveAt(conditions, i)
  /\ UNCHANGED <<selectedColumns, orderBy>> /\ BuilderOther

\* The menu offers the columns selected now.
SortBy ==
  /\ Building
  /\ orderBy' \in selectedColumns \cup {None}
  /\ UNCHANGED <<selectedColumns, conditions>> /\ BuilderOther

ChooseAccount ==
  /\ Building
  /\ accountId' \in queryAccounts
  /\ UNCHANGED <<catalog, queryAccounts, serviceKey, selectedColumns, conditions, orderBy,
                 result, running, queryCall>>

-----------------------------------------------------------------------------
\* What runQuery sends.
SentQuery == [service |-> serviceKey, columns |-> selectedColumns, conditions |-> conditions,
          orderBy |-> orderBy]

RunQuery ==
  /\ Building /\ selectedColumns # {} /\ queryAccounts # {} /\ ~running
  /\ running' = TRUE
  /\ queryCall' = SentQuery
  /\ UNCHANGED <<catalog, queryAccounts, serviceKey, selectedColumns, conditions, orderBy,
                 accountId, result>>

\* The finally of runQuery.
QueryEnds == running' = FALSE /\ queryCall' = None

\* Rows, or an error: whatever service is selected by now.
QueryAnswered ==
  /\ queryCall # None
  /\ result' \in {queryCall.service, None}
  /\ QueryEnds
  /\ UNCHANGED <<catalog, queryAccounts, serviceKey, selectedColumns, conditions, orderBy, accountId>>

\* The page is left or reloaded, and mounted again.
RemountStudio ==
  /\ catalog' = "loading"
  /\ queryAccounts' = {} /\ accountId' = None
  /\ serviceKey' = None
  /\ selectedColumns' = {} /\ conditions' = <<>> /\ orderBy' = None
  /\ result' = None
  /\ running' = FALSE
  /\ queryCall' = None

QueryNext ==
  \/ CatalogLoaded \/ SelectService \/ ApplyRecipe \/ ChooseColumns
  \/ AddCondition \/ ChangeCondition \/ RemoveCondition \/ SortBy \/ ChooseAccount
  \/ RunQuery \/ QueryAnswered \/ RemountStudio

QuerySpec == QueryInit /\ [][QueryNext]_queryVars

-----------------------------------------------------------------------------
\* Types of the page's state.
QueryTypeOK ==
  /\ catalog \in {"loading", "ready", "error", "failed"}
  /\ queryAccounts \subseteq QueryAccounts
  /\ serviceKey \in Services \cup {None}
  /\ selectedColumns \subseteq Columns
  /\ conditions \in Seq(QueryCondition) /\ Len(conditions) <= MaxConditions
  /\ orderBy \in Columns \cup {None}
  /\ accountId \in QueryAccounts \cup {None}
  /\ result \in Services \cup {None}
  /\ running \in BOOLEAN
  /\ queryCall \in QueryRequest \cup {None}

\* The backend's builder takes only fields of the service it is asked about
\* and operators of the field's type.
Compiles(query) ==
  /\ query.columns \subseteq ColumnsOf(query.service)
  /\ \A i \in DOMAIN query.conditions : Fits(query.conditions[i], query.service)
  /\ query.orderBy \in ColumnsOf(query.service) \cup {None}

\* However services, recipes, columns and conditions are picked one after the
\* other, the backend's builder accepts what the page sends.
QueryCompiles == queryCall # None => Compiles(queryCall)

\* The button is disabled only while a query of this page is under way.
QueryReleases == running => queryCall # None
=============================================================================

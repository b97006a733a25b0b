----------------------------- MODULE QuerySpans -----------------------------
(***************************************************************************)
(* The query spans of diesel-sentry's SentryInstrumentation on one         *)
(* connection. diesel-async pipelines queries: several may have started    *)
(* before the first finishes, they may finish in any order, and one whose  *)
(* future is dropped never tells. A finish carries its SQL and nothing     *)
(* else to say which start it belongs to.                                  *)
(*                                                                         *)
(* A query is its place in `issued`. A span is closed by taking it out of  *)
(* the queue.                                                              *)
(*                                                                         *)
(* A span is stamped with the transaction depth, which is counted from the *)
(* events that diesel-async sends before it runs a transaction statement,  *)
(* and with the database's name.                                           *)
(***************************************************************************)
EXTENDS Integers, Sequences, FiniteSets, SequencesExt, FiniteSetsExt

CONSTANTS
  Sqls,          \* the statements the application runs
  MaxInFlight,   \* MAX_IN_FLIGHT
  MaxQueries,    \* bound of the model
  MaxDepth,      \* bound of the model
  Unknown        \* no name of a database (None)

ASSUME QuerySpansAssumption ==
  MaxInFlight \in Nat \ {0} /\ MaxQueries \in Nat /\ MaxDepth \in Nat

VARIABLES
  issued,     \* issued[q]: the SQL of the q-th query started
  queries,    \* the open spans, oldest first: the query and its SQL's key
  running,    \* the queries the connection will still finish
  connect,    \* the connection's establishment, "open" while its span is
  db_system,
  tx_depth,
  \* the connection itself
  depth,      \* how deeply its transactions are nested
  statement,  \* the transaction statement it is running
  \* what has happened, for the properties
  unheard,    \* a query started while nobody listened to these spans
  evicted,    \* the span of a query was closed to make room
  dropped,    \* a query's future was dropped
  overtaken,  \* a query finished before an older one with the same SQL
  astray      \* the latest transaction statement failed or was dropped

history == <<unheard, evicted, dropped, overtaken>>
spans == <<issued, queries, running, history>>
transactions == <<tx_depth, depth, statement, astray>>
establishment == <<connect, db_system>>
vars == <<spans, transactions, establishment>>

\* The connection is to be established or, when the instrumentation is attached
\* to it, already open; the application may have named the database.
Init ==
  /\ connect \in {"ahead", "none"}
  /\ db_system \in {Unknown, "named"}
  /\ tx_depth = 0
  /\ depth = 0
  /\ statement = "none"
  /\ astray = FALSE
  /\ issued = <<>>
  /\ queries = <<>>
  /\ running = {}
  /\ unheard = FALSE
  /\ evicted = FALSE
  /\ dropped = FALSE
  /\ overtaken = FALSE

-----------------------------------------------------------------------------
\* Mutant: room is made one query too late.
FullOneLate == Len(queries) > MaxInFlight
Full == Len(queries) = MaxInFlight

\* The next query, which may well come while the connection is being established
\* (diesel-async sets it up with pipelined statements).
Issue(sql) ==
  /\ Len(issued) < MaxQueries
  /\ issued' = Append(issued, sql)
  /\ running' = running \union {Len(issued')}
  /\ UNCHANGED <<dropped, overtaken, transactions, establishment>>

\* start_query, while somebody listens to these spans. The span is stamped with
\* tx_depth and db_system.
StartQuery(sql) ==
  /\ Issue(sql)
  /\ queries' = Append(IF Full THEN Tail(queries) ELSE queries,
                       [sql |-> sql, query |-> Len(issued')])
  /\ evicted' = (evicted \/ Full)
  /\ UNCHANGED unheard

\* start_query, while nobody does, which may change from one query to the next:
\* nothing is kept of it.
StartUnheard(sql) ==
  /\ Issue(sql)
  /\ unheard' = TRUE
  /\ UNCHANGED <<queries, evicted>>

\* Mutants: the oldest span whatever its SQL; the latest span with that SQL.
OldestOfAll(sql) == {1}
LatestMatch(sql) ==
  LET same == {i \in DOMAIN queries : queries[i].sql = sql}
  IN  {i \in same : \A j \in same : j <= i}
OldestMatch(sql) ==
  LET same == {i \in DOMAIN queries : queries[i].sql = sql}
  IN  {i \in same : \A j \in same : i <= j}

\* finish_query: the only span in flight, or the oldest with this SQL, or none.
Closed(sql) == IF Len(queries) <= 1 THEN DOMAIN queries ELSE OldestMatch(sql)

FinishQuery(q) ==
  /\ q \in running
  /\ running' = running \ {q}
  /\ queries' = IF Closed(issued[q]) = {} THEN queries
                ELSE RemoveAt(queries, CHOOSE i \in Closed(issued[q]) : TRUE)
  /\ overtaken' = (overtaken \/ \E p \in running : p < q /\ issued[p] = issued[q])
  /\ UNCHANGED <<issued, unheard, evicted, dropped, transactions, establishment>>

\* The query's future is dropped: no event comes.
DropQuery(q) ==
  /\ q \in running
  /\ running' = running \ {q}
  /\ dropped' = TRUE
  /\ UNCHANGED <<issued, queries, unheard, evicted, overtaken, transactions, establishment>>

-----------------------------------------------------------------------------
(* The events of the connection and of its transaction statements.         *)

\* The URL names the database, unless the application has.
StartEstablish ==
  /\ connect = "ahead"
  /\ connect' = "open"
  /\ db_system' = IF db_system = Unknown THEN "url" ELSE db_system
  /\ UNCHANGED <<spans, transactions>>

FinishEstablish ==
  /\ connect = "open"
  /\ connect' = "none"
  /\ UNCHANGED <<db_system, spans, transactions>>

\* diesel-async tells the depth it is about to reach, and of the end of a
\* transaction the depth it is about to leave, before it runs the statement.
\* Mutants: the depth is counted instead; the end of a transaction ends all.
CountedUp(told) == tx_depth + 1
Entered(told) == told

Outermost(told) == 0
Left(told) == told - 1

Begin ==
  /\ statement = "none" /\ depth < MaxDepth
  /\ statement' = "begin"
  /\ tx_depth' = Entered(depth + 1)
  /\ UNCHANGED <<depth, astray, spans, establishment>>

\* COMMIT or ROLLBACK.
End ==
  /\ statement = "none" /\ depth > 0
  /\ statement' = "end"
  /\ tx_depth' = Left(depth)
  /\ UNCHANGED <<depth, astray, spans, establishment>>

\* The statement succeeds.
Done ==
  /\ statement # "none"
  /\ depth' = IF statement = "begin" THEN depth + 1 ELSE depth - 1
  /\ statement' = "none"
  /\ astray' = FALSE
  /\ UNCHANGED <<tx_depth, spans, establishment>>

\* It fails, or its future is dropped before it got there: no event says so.
Strays ==
  /\ statement # "none"
  /\ statement' = "none"
  /\ astray' = TRUE
  /\ UNCHANGED <<depth, tx_depth, spans, establishment>>

Next ==
  \/ \E sql \in Sqls : StartQuery(sql) \/ StartUnheard(sql)
  \/ \E q \in running : FinishQuery(q) \/ DropQuery(q)
  \/ StartEstablish \/ FinishEstablish
  \/ Begin \/ End \/ Done \/ Strays

Spec == Init /\ [][Next]_vars

-----------------------------------------------------------------------------
(* Properties                                                              *)

\* At most MAX_IN_FLIGHT spans are kept, each of a query of its own, in the
\* order they started (lib.rs:44-47, 70-75).
TypeOK ==
  /\ issued \in Seq(Sqls) /\ Len(issued) <= MaxQueries
  /\ queries \in Seq([sql : Sqls, query : 1..MaxQueries])
  /\ Len(queries) <= MaxInFlight
  /\ \A i, j \in DOMAIN queries : i < j => queries[i].query < queries[j].query
  /\ \A i \in DOMAIN queries : issued[queries[i].query] = queries[i].sql
  /\ running \subseteq 1..Len(issued)
  /\ connect \in {"ahead", "open", "none"} /\ db_system \in {Unknown, "named", "url"}
  /\ tx_depth \in 0..MaxDepth /\ depth \in 0..MaxDepth
  /\ statement \in {"none", "begin", "end"}
  /\ \A flag \in {unheard, evicted, dropped, overtaken, astray} : flag \in BOOLEAN

OpenQueries == {queries[i].query : i \in DOMAIN queries}
OpenSpans(sql) == Cardinality({q \in OpenQueries : issued[q] = sql})
RunningQueries(sql) == Cardinality({q \in running : issued[q] = sql})

\* "a finish is matched to its start by SQL" (lib.rs:71-75): until a span had
\* to make room or a query was not listened to, a running query never loses its
\* span to another statement's finish, and without dropped queries no span outlives
\* its queries.
RunningHaveSpans ==
  ~unheard /\ ~evicted =>
    \A sql \in Sqls : /\ OpenSpans(sql) >= RunningQueries(sql)
                      /\ ~dropped => OpenSpans(sql) = RunningQueries(sql)

\* While queries with the same SQL finish in the order they started, none is
\* dropped, all are listened to and no span has to make room, the open spans are those
\* of the running queries: each is closed by its own (lib.rs:143-150).
SpansExact ==
  ~unheard /\ ~evicted /\ ~dropped /\ ~overtaken =>
    OpenQueries = running

\* BeginTransaction, CommitTransaction and RollbackTransaction (lib.rs:190-197):
\* a query started between two transaction statements is stamped with the depth
\* that it really runs at, unless the latest of them did not succeed. However many
\* went astray, the next one that succeeds puts the depth right again.
DepthTrue ==
  statement = "none" /\ ~astray => tx_depth = depth

\* "No match ... leaves the queue alone rather than closing another query's
\* span" (lib.rs:143-145): a finish closes only spans of its own SQL, as long as
\* somebody listens to all of them.
ClosesOwnStatement ==
  [][~unheard =>
     \A q \in running \ running' :
       \A i \in DOMAIN queries :
         queries[i] \notin ToSet(queries') => queries[i].sql = issued[q]]_vars
=============================================================================

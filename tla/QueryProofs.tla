---------------------------- MODULE QueryProofs ----------------------------
(***************************************************************************)
(* Proofs about QuerySpans, for any statements, any limit of the queue and *)
(* any nesting: the queue is ordered and bounded, the depth is true after  *)
(* every statement that succeeds, and each span is closed by its own query *)
(* until one is evicted, dropped or overtaken.                             *)
(***************************************************************************)
EXTENDS QuerySpans, SequenceTheorems, FiniteSetTheorems, WellFoundedInduction, TLAPS

OpenSpan == [sql : Sqls, query : 1..MaxQueries]

-----------------------------------------------------------------------------
(* A queue that loses one span                                             *)

\* t is s without its k-th element.
Without(t, s, k) ==
  /\ t \in Seq(OpenSpan)
  /\ k \in 1..Len(s)
  /\ Len(t) = Len(s) - 1
  /\ \A i \in 1..Len(t) : t[i] = IF i < k THEN s[i] ELSE s[i + 1]

LEMMA TailDrops ==
  ASSUME NEW s \in Seq(OpenSpan), s # <<>>
  PROVE  Without(Tail(s), s, 1)
<1>1. Len(s) \in Nat \ {0}
  BY EmptySeq
<1>2. /\ Tail(s) \in Seq(OpenSpan) /\ Len(Tail(s)) = Len(s) - 1
      /\ \A i \in 1..Len(Tail(s)) : Tail(s)[i] = s[i + 1]
  BY HeadTailProperties
<1>3. \A i \in 1..Len(Tail(s)) : ~(i < 1)
  BY <1>1, <1>2
<1>4. QED
  BY <1>1, <1>2, <1>3 DEF Without

LEMMA RemoveAtDrops ==
  ASSUME NEW s \in Seq(OpenSpan), NEW k \in 1..Len(s)
  PROVE  Without(RemoveAt(s, k), s, k)
<1> DEFINE left == SubSeq(s, 1, k - 1)
           right == SubSeq(s, k + 1, Len(s))
<1>1. Len(s) \in Nat /\ k \in Nat
  BY LenProperties
<1>2. \A i \in 1..Len(s) : s[i] \in OpenSpan
  BY ElementOfSeq
<1>3. /\ left \in Seq(OpenSpan) /\ Len(left) = k - 1
      /\ \A i \in 1..(k - 1) : left[i] = s[i]
  <2>1. \A i \in 1..(k - 1) : s[i] \in OpenSpan
    BY <1>1, <1>2
  <2>2. /\ left \in Seq(OpenSpan)
        /\ Len(left) = IF 1 <= k - 1 THEN k - 1 - 1 + 1 ELSE 0
        /\ \A i \in 1..(k - 1 - 1 + 1) : left[i] = s[1 + i - 1]
    BY <1>1, <2>1, SubSeqProperties
  <2>3. QED
    BY <1>1, <2>2
<1>4. /\ right \in Seq(OpenSpan) /\ Len(right) = Len(s) - k
      /\ \A i \in 1..(Len(s) - k) : right[i] = s[k + i]
  <2>1. \A i \in (k + 1)..Len(s) : s[i] \in OpenSpan
    BY <1>1, <1>2
  <2>2. /\ right \in Seq(OpenSpan)
        /\ Len(right) = IF k + 1 <= Len(s) THEN Len(s) - (k + 1) + 1 ELSE 0
        /\ \A i \in 1..(Len(s) - (k + 1) + 1) : right[i] = s[k + 1 + i - 1]
    BY <1>1, <2>1, SubSeqProperties
  <2>3. QED
    BY <1>1, <2>2
<1>5. RemoveAt(s, k) = left \o right
  BY DEF RemoveAt
<1> HIDE DEF left, right
<1> DEFINE t == left \o right
           l == Len(left)
           r == Len(right)
<1>6. /\ t \in Seq(OpenSpan) /\ Len(t) = l + r
      /\ \A i \in 1..(l + r) : t[i] = IF i <= l THEN left[i] ELSE right[i - l]
  BY <1>3, <1>4, ConcatProperties
<1>7. l = k - 1 /\ r = Len(s) - k
  BY <1>3, <1>4
<1> HIDE DEF t, l, r
<1>8. Len(t) = Len(s) - 1
  BY <1>1, <1>6, <1>7
<1>9. ASSUME NEW i \in 1..Len(t)
      PROVE  t[i] = IF i < k THEN s[i] ELSE s[i + 1]
  <2>1. i \in Int /\ 1 <= i /\ i <= Len(s) - 1 /\ i \in 1..(l + r)
    BY <1>1, <1>6, <1>8
  <2>2. CASE i < k
    BY <1>1, <1>3, <1>6, <1>7, <2>1, <2>2
  <2>3. CASE i >= k
    <3>1. t[i] = right[i - l]
      BY <1>1, <1>6, <1>7, <2>1, <2>3
    <3>2. i - l \in 1..(Len(s) - k) /\ k + (i - l) = i + 1
      BY <1>1, <1>7, <2>1, <2>3
    <3>3. right[i - l] = s[i + 1]
      BY <1>4, <3>2
    <3>4. QED
      BY <1>1, <2>1, <2>3, <3>1, <3>3
  <2>4. QED
    BY <1>1, <2>1, <2>2, <2>3
<1>10. QED
  BY <1>5, <1>6, <1>8, <1>9 DEF Without, t

-----------------------------------------------------------------------------
(* The queue                                                               *)

\* The open spans belong to different queries of these, oldest first.
QueueOK(s, n, sqls) ==
  /\ s \in Seq(OpenSpan)
  /\ Len(s) <= MaxInFlight
  /\ \A i, j \in 1..Len(s) : i < j => s[i].query < s[j].query
  /\ \A i \in 1..Len(s) : s[i].query <= n /\ sqls[s[i].query] = s[i].sql

LEMMA QueueLosesOne ==
  ASSUME NEW s, NEW t, NEW k, NEW n \in Nat, NEW sqls, QueueOK(s, n, sqls), Without(t, s, k)
  PROVE  QueueOK(t, n, sqls) /\ Len(t) < MaxInFlight
<1> USE QuerySpansAssumption
<1>1. Len(s) \in Nat /\ Len(t) \in Nat /\ k \in 1..Len(s) /\ Len(t) = Len(s) - 1
  BY LenProperties DEF QueueOK, Without
<1> DEFINE from(i) == IF i < k THEN i ELSE i + 1
<1>2. \A i \in 1..Len(t) : from(i) \in 1..Len(s) /\ t[i] = s[from(i)]
  BY <1>1 DEF Without
<1>3. \A i, j \in 1..Len(t) : i < j => from(i) < from(j)
  BY <1>1
<1>4. \A i, j \in 1..Len(t) : i < j => t[i].query < t[j].query
  BY <1>2, <1>3 DEF QueueOK
<1>5. \A i \in 1..Len(t) : t[i].query <= n /\ sqls[t[i].query] = t[i].sql
  BY <1>2 DEF QueueOK
<1>6. Len(t) < MaxInFlight
  BY <1>1 DEF QueueOK
<1>7. QED
  BY <1>1, <1>4, <1>5, <1>6 DEF QueueOK, Without

LEMMA QueueGetsOne ==
  ASSUME NEW s, NEW sqls \in Seq(Sqls), QueueOK(s, Len(sqls), sqls),
         Len(s) < MaxInFlight, Len(sqls) < MaxQueries, NEW sql \in Sqls
  PROVE  QueueOK(Append(s, [sql |-> sql, query |-> Len(sqls) + 1]), Len(sqls) + 1, Append(sqls, sql))
<1> USE QuerySpansAssumption
<1> DEFINE n == Len(sqls)
           new == [sql |-> sql, query |-> n + 1]
           t == Append(s, new)
<1>1. n \in Nat /\ Len(s) \in Nat
  BY LenProperties DEF QueueOK
<1>2. new \in OpenSpan
  BY <1>1 DEF OpenSpan
<1>3. /\ t \in Seq(OpenSpan) /\ Len(t) = Len(s) + 1
      /\ \A i \in 1..Len(s) : t[i] = s[i]
      /\ t[Len(s) + 1] = new
  BY <1>2, AppendProperties DEF QueueOK
<1>4. /\ \A i \in 1..n : Append(sqls, sql)[i] = sqls[i]
      /\ Append(sqls, sql)[n + 1] = sql
  BY AppendProperties
<1>5. \A i \in 1..Len(s) : s[i] \in OpenSpan
  BY ElementOfSeq DEF QueueOK
<1>6. \A i \in 1..Len(s) : s[i].query \in 1..n /\ sqls[s[i].query] = s[i].sql
  BY <1>1, <1>5 DEF QueueOK, OpenSpan
<1> HIDE DEF t, new
<1>7. \A i \in 1..Len(t) : t[i].query <= n + 1 /\ Append(sqls, sql)[t[i].query] = t[i].sql
  <2>1. ASSUME NEW i \in 1..Len(s)
        PROVE  t[i].query <= n + 1 /\ Append(sqls, sql)[t[i].query] = t[i].sql
    BY <1>1, <1>3, <1>4, <1>6
  <2>2. t[Len(s) + 1].query <= n + 1 /\ Append(sqls, sql)[t[Len(s) + 1].query] = t[Len(s) + 1].sql
    BY <1>1, <1>3, <1>4 DEF new
  <2>3. \A i \in 1..Len(t) : i \in 1..Len(s) \/ i = Len(s) + 1
    BY <1>1, <1>3
  <2>4. QED
    BY <2>1, <2>2, <2>3
<1>8. \A i, j \in 1..Len(t) : i < j => t[i].query < t[j].query
  <2>1. \A i \in 1..Len(s) : t[i].query < n + 1
    BY <1>1, <1>3, <1>6
  <2>2. t[Len(s) + 1].query = n + 1
    BY <1>3 DEF new
  <2>3. \A i, j \in 1..Len(s) : i < j => t[i].query < t[j].query
    BY <1>3 DEF QueueOK
  <2>4. ASSUME NEW i \in 1..Len(t), NEW j \in 1..Len(t), i < j
        PROVE  i \in 1..Len(s) /\ (j \in 1..Len(s) \/ j = Len(s) + 1)
    BY <1>1, <1>3, <2>4
  <2>5. ASSUME NEW i \in 1..Len(t), NEW j \in 1..Len(t), i < j
        PROVE  t[i].query < t[j].query
    <3>1. CASE j \in 1..Len(s)
      BY <1>3, <2>3, <2>4, <2>5, <3>1
    <3>2. CASE j = Len(s) + 1
      BY <2>1, <2>2, <2>4, <2>5, <3>2
    <3>3. QED
      BY <2>4, <2>5, <3>1, <3>2
  <2>6. QED
    BY <2>5
<1>9. Len(t) <= MaxInFlight
  BY <1>1, <1>3 DEF QueueOK
<1>10. QueueOK(t, n + 1, Append(sqls, sql))
  BY <1>3, <1>7, <1>8, <1>9 DEF QueueOK
<1>11. QED
  BY <1>10 DEF t, new

-----------------------------------------------------------------------------
(* The invariant                                                           *)

\* What the connection has told of the statement it is running.
Told ==
  /\ statement = "begin" => depth < MaxDepth /\ tx_depth = depth + 1
  /\ statement = "end" => depth > 0 /\ tx_depth = depth - 1

\* TypeOK in three parts: the queries, the transactions, and the rest.
QueriesOK ==
  /\ issued \in Seq(Sqls) /\ Len(issued) <= MaxQueries
  /\ QueueOK(queries, Len(issued), issued)
  /\ running \subseteq 1..Len(issued)
DepthsOK ==
  /\ tx_depth \in 0..MaxDepth /\ depth \in 0..MaxDepth
  /\ statement \in {"none", "begin", "end"}
  /\ Told /\ DepthTrue
FlagsOK ==
  /\ connect \in {"ahead", "open", "none"} /\ db_system \in {Unknown, "named", "url"}
  /\ unheard \in BOOLEAN /\ evicted \in BOOLEAN /\ dropped \in BOOLEAN
  /\ overtaken \in BOOLEAN /\ astray \in BOOLEAN

QInv == QueriesOK /\ DepthsOK /\ FlagsOK

LEMMA QInvTypes == QInv => TypeOK
<1> SUFFICES ASSUME QInv PROVE TypeOK
  OBVIOUS
<1>1. /\ queries \in Seq([sql : Sqls, query : 1..MaxQueries])
      /\ Len(queries) <= MaxInFlight
      /\ \A i, j \in DOMAIN queries : i < j => queries[i].query < queries[j].query
      /\ \A i \in DOMAIN queries : issued[queries[i].query] = queries[i].sql
  <2>1. queries \in Seq(OpenSpan) /\ DOMAIN queries = 1..Len(queries)
    BY LenProperties DEF QInv, QueriesOK, QueueOK
  <2>2. QED
    BY <2>1 DEF QInv, QueriesOK, QueueOK, OpenSpan
<1>2. \A flag \in {unheard, evicted, dropped, overtaken, astray} : flag \in BOOLEAN
  BY Zenon DEF QInv, FlagsOK
<1>3. QED
  BY <1>1, <1>2, Zenon DEF QInv, QueriesOK, DepthsOK, FlagsOK, TypeOK

LEMMA InitQInv == Init => QInv
<1> SUFFICES ASSUME Init PROVE QInv
  OBVIOUS
<1> USE QuerySpansAssumption
<1>1. /\ issued = <<>> /\ queries = <<>> /\ Len(issued) = 0 /\ Len(queries) = 0
      /\ issued \in Seq(Sqls) /\ queries \in Seq(OpenSpan)
  BY DEF Init
<1>2. 1..Len(queries) = {}
  BY <1>1
<1>3. QueriesOK
  BY <1>1, <1>2 DEF QueriesOK, QueueOK, Init
<1>4. DepthsOK
  BY DEF DepthsOK, Told, DepthTrue, Init
<1>5. FlagsOK
  BY Zenon DEF FlagsOK, Init
<1>6. QED
  BY <1>3, <1>4, <1>5 DEF QInv

-----------------------------------------------------------------------------
(* The queue in each step                                                  *)

\* The span that a finish of sql takes out of the queue, if any.
Victim(sql) == CHOOSE i \in Closed(sql) : TRUE

LEMMA ClosedInQueue ==
  ASSUME NEW sql, QueriesOK
  PROVE  Closed(sql) \subseteq 1..Len(queries)
<1>1. DOMAIN queries = 1..Len(queries)
  BY LenProperties DEF QueriesOK, QueueOK
<1>2. QED
  BY <1>1 DEF Closed, OldestMatch

\* A finish leaves the queue alone or takes one span out of it.
LEMMA FinishTakesOne ==
  ASSUME NEW q, FinishQuery(q), QueriesOK
  PROVE  \/ Closed(issued[q]) = {} /\ queries' = queries
         \/ /\ Closed(issued[q]) # {} /\ Victim(issued[q]) \in Closed(issued[q])
            /\ Without(queries', queries, Victim(issued[q]))
<1>1. CASE Closed(issued[q]) = {}
  BY <1>1 DEF FinishQuery
<1>2. CASE Closed(issued[q]) # {}
  <2>1. Victim(issued[q]) \in Closed(issued[q])
    BY <1>2 DEF Victim
  <2>2. queries' = RemoveAt(queries, Victim(issued[q]))
    BY <1>2 DEF FinishQuery, Victim
  <2>3. Without(queries', queries, Victim(issued[q]))
    BY <2>1, <2>2, ClosedInQueue, RemoveAtDrops DEF QueriesOK, QueueOK
  <2>4. QED
    BY <1>2, <2>1, <2>3
<1>3. QED
  BY <1>1, <1>2

\* A start that is heard makes room if it must, and adds its span.
LEMMA StartAddsOne ==
  ASSUME NEW sql \in Sqls, StartQuery(sql), QueriesOK
  PROVE  \E room : /\ QueueOK(room, Len(issued), issued) /\ Len(room) < MaxInFlight
                   /\ room = queries \/ evicted'
                   /\ queries' = Append(room, [sql |-> sql, query |-> Len(issued) + 1])
<1> USE QuerySpansAssumption
<1>1. Len(issued) \in Nat /\ Len(queries) \in Nat
  BY LenProperties DEF QueriesOK, QueueOK
<1>2. Len(issued') = Len(issued) + 1
  BY AppendProperties DEF StartQuery, Issue, QueriesOK
<1>3. CASE Full
  <2>1. queries # <<>> /\ queries \in Seq(OpenSpan)
    BY <1>1, <1>3 DEF Full, QueriesOK, QueueOK
  <2>2. Without(Tail(queries), queries, 1)
    BY <2>1, TailDrops
  <2>3. QueueOK(Tail(queries), Len(issued), issued) /\ Len(Tail(queries)) < MaxInFlight
    BY <1>1, <2>2, QueueLosesOne DEF QueriesOK
  <2>4. queries' = Append(Tail(queries), [sql |-> sql, query |-> Len(issued) + 1]) /\ evicted'
    BY <1>2, <1>3 DEF StartQuery
  <2>5. QED
    BY <2>3, <2>4
<1>4. CASE ~Full
  <2>1. QueueOK(queries, Len(issued), issued) /\ Len(queries) < MaxInFlight
    BY <1>1, <1>4 DEF Full, QueriesOK, QueueOK
  <2>2. queries' = Append(queries, [sql |-> sql, query |-> Len(issued) + 1])
    BY <1>2, <1>4 DEF StartQuery
  <2>3. QED
    BY <2>1, <2>2
<1>5. QED
  BY <1>3, <1>4

LEMMA StartKeepsQueries ==
  ASSUME NEW sql \in Sqls, StartQuery(sql) \/ StartUnheard(sql), QInv
  PROVE  QueriesOK'
<1> USE QuerySpansAssumption
<1>1. QueriesOK /\ Issue(sql) /\ Len(issued) \in Nat /\ Len(queries) \in Nat
  BY LenProperties DEF QInv, QueriesOK, QueueOK, StartQuery, StartUnheard
<1>2. /\ issued' = Append(issued, sql) /\ issued' \in Seq(Sqls)
      /\ Len(issued') = Len(issued) + 1 /\ Len(issued) < MaxQueries
      /\ \A i \in 1..Len(issued) : issued'[i] = issued[i]
  BY <1>1, AppendProperties DEF Issue, QueriesOK
<1>3. running' \subseteq 1..Len(issued')
  <2>1. running' = running \union {Len(issued) + 1} /\ running \subseteq 1..Len(issued)
    BY <1>1, <1>2 DEF Issue, QueriesOK
  <2>2. 1..Len(issued) \subseteq 1..Len(issued') /\ Len(issued) + 1 \in 1..Len(issued')
    BY <1>1, <1>2
  <2>3. QED
    BY <2>1, <2>2
<1>4. QueueOK(queries', Len(issued'), issued')
  <2>1. CASE StartQuery(sql)
    <3>1. PICK room : /\ QueueOK(room, Len(issued), issued) /\ Len(room) < MaxInFlight
                      /\ queries' = Append(room, [sql |-> sql, query |-> Len(issued) + 1])
      BY <1>1, <2>1, StartAddsOne
    <3>2. QED
      BY <1>1, <1>2, <3>1, QueueGetsOne DEF QueriesOK
  <2>2. CASE StartUnheard(sql)
    <3>1. queries' = queries
      BY <2>2 DEF StartUnheard
    <3>2. \A i \in 1..Len(queries) : queries[i].query \in 1..Len(issued)
      <4>1. \A i \in 1..Len(queries) : queries[i] \in OpenSpan
        BY <1>1, ElementOfSeq DEF QueriesOK, QueueOK
      <4>2. QED
        BY <1>1, <4>1 DEF QueriesOK, QueueOK, OpenSpan
    <3>3. \A i \in 1..Len(queries) : issued'[queries[i].query] = queries[i].sql
      BY <1>1, <1>2, <3>2 DEF QueriesOK, QueueOK
    <3>4. \A i \in 1..Len(queries) : queries[i].query <= Len(issued')
      BY <1>1, <1>2, <3>2
    <3>5. QED
      BY <1>1, <3>1, <3>3, <3>4 DEF QueriesOK, QueueOK
  <2>3. QED
    BY <1>1, <2>1, <2>2
<1>5. QED
  BY <1>1, <1>2, <1>3, <1>4 DEF QueriesOK

LEMMA FinishKeepsQueries ==
  ASSUME NEW q, FinishQuery(q), QueriesOK
  PROVE  QueriesOK'
<1>1. issued' = issued /\ running' \subseteq running /\ Len(issued) \in Nat
  BY LenProperties DEF FinishQuery, QueriesOK
<1>2. QueueOK(queries', Len(issued), issued)
  <2>1. CASE queries' = queries
    BY <2>1 DEF QueriesOK
  <2>2. CASE Without(queries', queries, Victim(issued[q]))
    BY <1>1, <2>2, QueueLosesOne DEF QueriesOK
  <2>3. QED
    BY <2>1, <2>2, FinishTakesOne
<1>3. QED
  BY <1>1, <1>2 DEF QueriesOK

LEMMA NextKeepsQInv == QInv /\ [Next]_vars => QInv'
<1> SUFFICES ASSUME QInv, [Next]_vars PROVE QInv'
  OBVIOUS
<1> USE QuerySpansAssumption
<1>1. ASSUME NEW sql \in Sqls, StartQuery(sql) \/ StartUnheard(sql) PROVE QInv'
  <2>1. QueriesOK'
    BY <1>1, StartKeepsQueries
  <2>2. DepthsOK'
    BY <1>1 DEF StartQuery, StartUnheard, Issue, transactions, QInv, DepthsOK, Told, DepthTrue
  <2>3. FlagsOK'
    BY <1>1, Zenon DEF StartQuery, StartUnheard, Issue, transactions, establishment, QInv, FlagsOK
  <2>4. QED
    BY <2>1, <2>2, <2>3 DEF QInv
<1>2. ASSUME NEW q \in running, FinishQuery(q) PROVE QInv'
  <2>1. QueriesOK'
    BY <1>2, FinishKeepsQueries DEF QInv
  <2>2. DepthsOK'
    BY <1>2 DEF FinishQuery, transactions, QInv, DepthsOK, Told, DepthTrue
  <2>3. FlagsOK'
    <3>1. overtaken' \in BOOLEAN
      BY <1>2, Zenon DEF FinishQuery, QInv, FlagsOK
    <3>2. QED
      BY <1>2, <3>1, Zenon DEF FinishQuery, transactions, establishment, QInv, FlagsOK
  <2>4. QED
    BY <2>1, <2>2, <2>3 DEF QInv
<1>3. ASSUME NEW q \in running, DropQuery(q) PROVE QInv'
  <2>1. QueriesOK'
    BY <1>3 DEF DropQuery, QInv, QueriesOK
  <2>2. DepthsOK'
    BY <1>3 DEF DropQuery, transactions, QInv, DepthsOK, Told, DepthTrue
  <2>3. FlagsOK'
    BY <1>3, Zenon DEF DropQuery, transactions, establishment, QInv, FlagsOK
  <2>4. QED
    BY <2>1, <2>2, <2>3 DEF QInv
<1>4. CASE StartEstablish \/ FinishEstablish
  <2>1. QueriesOK'
    BY <1>4 DEF StartEstablish, FinishEstablish, spans, QInv, QueriesOK
  <2>2. DepthsOK'
    BY <1>4 DEF StartEstablish, FinishEstablish, transactions, QInv, DepthsOK, Told, DepthTrue
  <2>3. FlagsOK'
    BY <1>4, Zenon DEF StartEstablish, FinishEstablish, spans, history, transactions, QInv, FlagsOK
  <2>4. QED
    BY <2>1, <2>2, <2>3 DEF QInv
<1>5. CASE Begin \/ End \/ Done \/ Strays
  <2>1. QueriesOK'
    BY <1>5 DEF Begin, End, Done, Strays, spans, QInv, QueriesOK
  <2>2. DepthsOK'
    <3>1. CASE Begin
      BY <3>1 DEF Begin, Entered, QInv, DepthsOK, Told, DepthTrue
    <3>2. CASE End
      BY <3>2 DEF End, Left, QInv, DepthsOK, Told, DepthTrue
    <3>3. CASE Done
      BY <3>3 DEF Done, QInv, DepthsOK, Told, DepthTrue
    <3>4. CASE Strays
      BY <3>4 DEF Strays, QInv, DepthsOK, Told, DepthTrue
    <3>5. QED
      BY <1>5, <3>1, <3>2, <3>3, <3>4
  <2>3. FlagsOK'
    BY <1>5, Zenon DEF Begin, End, Done, Strays, spans, history, establishment, QInv, FlagsOK
  <2>4. QED
    BY <2>1, <2>2, <2>3 DEF QInv
<1>6. CASE UNCHANGED vars
  <2>1. QueriesOK'
    BY <1>6 DEF vars, spans, QInv, QueriesOK
  <2>2. DepthsOK'
    BY <1>6 DEF vars, transactions, QInv, DepthsOK, Told, DepthTrue
  <2>3. FlagsOK'
    BY <1>6, Zenon DEF vars, spans, history, transactions, establishment, QInv, FlagsOK
  <2>4. QED
    BY <2>1, <2>2, <2>3 DEF QInv
<1>7. QED
  BY <1>1, <1>2, <1>3, <1>4, <1>5, <1>6 DEF Next

\* Every reachable state satisfies the invariant.
THEOREM QueriesInvariant == Spec => []QInv
<1>1. Init => QInv
  BY InitQInv
<1>2. QInv /\ [Next]_vars => QInv'
  BY NextKeepsQInv
<1>3. QED
  BY <1>1, <1>2, PTL DEF Spec

\* At most MAX_IN_FLIGHT spans are kept, each of a query of its own and oldest
\* first, however queries start, finish out of order and are dropped.
THEOREM QueueBounded == Spec => []TypeOK
<1>1. QInv => TypeOK
  BY QInvTypes
<1>2. QED
  BY <1>1, QueriesInvariant, PTL

\* A query started between two transaction statements is stamped with the depth
\* it runs at, unless the latest of them went astray.
THEOREM DepthIsTrue == Spec => []DepthTrue
<1>1. QInv => DepthTrue
  BY DEF QInv, DepthsOK
<1>2. QED
  BY <1>1, QueriesInvariant, PTL

-----------------------------------------------------------------------------
(* The open spans and the running queries                                  *)

\* The queries whose spans are in s.
QueriesOf(s) == {s[i].query : i \in 1..Len(s)}

LEMMA OpenAreQueued ==
  ASSUME QueriesOK
  PROVE  /\ OpenQueries = QueriesOf(queries)
         /\ OpenQueries \subseteq 1..Len(issued)
         /\ \A i \in 1..Len(queries) : issued[queries[i].query] = queries[i].sql
<1>1. /\ queries \in Seq(OpenSpan) /\ DOMAIN queries = 1..Len(queries)
      /\ Len(issued) \in Nat
  BY LenProperties DEF QueriesOK, QueueOK
<1>2. \A i \in 1..Len(queries) : queries[i] \in OpenSpan
  BY <1>1, ElementOfSeq
<1>3. \A i \in 1..Len(queries) : queries[i].query \in 1..Len(issued)
  BY <1>1, <1>2 DEF QueriesOK, QueueOK, OpenSpan
<1>4. QED
  BY <1>1, <1>3 DEF OpenQueries, QueriesOf, QueriesOK, QueueOK

LEMMA WithoutItsQuery ==
  ASSUME NEW s, NEW t, NEW k, NEW n, NEW sqls, QueueOK(s, n, sqls), Without(t, s, k)
  PROVE  QueriesOf(t) = QueriesOf(s) \ {s[k].query}
<1>1. /\ s \in Seq(OpenSpan) /\ Len(s) \in Nat /\ k \in 1..Len(s) /\ Len(t) = Len(s) - 1
      /\ \A i \in 1..Len(s) : s[i].query \in Nat
  <2>1. s \in Seq(OpenSpan) /\ Len(s) \in Nat /\ k \in 1..Len(s) /\ Len(t) = Len(s) - 1
    BY LenProperties DEF QueueOK, Without
  <2>2. \A i \in 1..Len(s) : s[i] \in OpenSpan
    BY <2>1, ElementOfSeq
  <2>3. QED
    BY <2>1, <2>2 DEF OpenSpan
<1>2. \A i, j \in 1..Len(s) : s[i].query = s[j].query => i = j
  <2>1. \A i, j \in 1..Len(s) : i < j => s[i].query < s[j].query
    BY DEF QueueOK
  <2>2. QED
    BY <1>1, <2>1
<1>3. ASSUME NEW i \in 1..Len(t)
      PROVE  t[i].query \in QueriesOf(s) \ {s[k].query}
  <2>1. CASE i < k
    <3>1. i \in 1..Len(s) /\ i # k /\ t[i] = s[i]
      BY <1>1, <2>1 DEF Without
    <3>2. QED
      BY <1>1, <1>2, <3>1 DEF QueriesOf
  <2>2. CASE ~(i < k)
    <3>1. i + 1 \in 1..Len(s) /\ i + 1 # k /\ t[i] = s[i + 1]
      BY <1>1, <2>2 DEF Without
    <3>2. QED
      BY <1>1, <1>2, <3>1 DEF QueriesOf
  <2>3. QED
    BY <2>1, <2>2
<1>4. ASSUME NEW j \in 1..Len(s), j # k
      PROVE  s[j].query \in QueriesOf(t)
  <2>1. CASE j < k
    <3>1. j \in 1..Len(t) /\ t[j] = s[j]
      BY <1>1, <2>1 DEF Without
    <3>2. QED
      BY <3>1 DEF QueriesOf
  <2>2. CASE ~(j < k)
    <3>1. j - 1 \in 1..Len(t) /\ ~(j - 1 < k) /\ j - 1 + 1 = j
      BY <1>1, <1>4, <2>2
    <3>2. t[j - 1] = s[j]
      BY <3>1 DEF Without
    <3>3. QED
      BY <3>1, <3>2 DEF QueriesOf
  <2>3. QED
    BY <2>1, <2>2
<1>5. QueriesOf(t) \subseteq QueriesOf(s) \ {s[k].query}
  BY <1>3 DEF QueriesOf
<1>6. QueriesOf(s) \ {s[k].query} \subseteq QueriesOf(t)
  BY <1>4 DEF QueriesOf
<1>7. QED
  BY <1>5, <1>6

LEMMA WithItsQuery ==
  ASSUME NEW s \in Seq(OpenSpan), NEW new \in OpenSpan
  PROVE  QueriesOf(Append(s, new)) = QueriesOf(s) \union {new.query}
<1> DEFINE t == Append(s, new)
<1>1. /\ Len(s) \in Nat /\ Len(t) = Len(s) + 1
      /\ \A i \in 1..Len(s) : t[i] = s[i]
      /\ t[Len(s) + 1] = new
  BY AppendProperties, LenProperties
<1> HIDE DEF t
<1>2. 1..Len(t) = (1..Len(s)) \union {Len(s) + 1}
  BY <1>1
<1>3. QueriesOf(t) = QueriesOf(s) \union {new.query}
  BY <1>1, <1>2 DEF QueriesOf
<1>4. QED
  BY <1>3 DEF t

\* What a start and a finish do to the open spans.
LEMMA StartOpens ==
  ASSUME NEW sql \in Sqls, StartQuery(sql), ~evicted', QueriesOK
  PROVE  /\ OpenQueries' = OpenQueries \union {Len(issued) + 1}
         /\ running' = running \union {Len(issued) + 1}
         /\ issued' = Append(issued, sql) /\ Len(issued) \in Nat
         /\ issued'[Len(issued) + 1] = sql
         /\ \A q \in 1..Len(issued) : issued'[q] = issued[q]
<1>1. /\ issued' = Append(issued, sql) /\ Len(issued) \in Nat
      /\ Len(issued') = Len(issued) + 1 /\ Len(issued) < MaxQueries
      /\ issued'[Len(issued) + 1] = sql
      /\ \A q \in 1..Len(issued) : issued'[q] = issued[q]
  BY AppendProperties, LenProperties DEF StartQuery, Issue, QueriesOK
<1> DEFINE new == [sql |-> sql, query |-> Len(issued) + 1]
<1>2. queries' = Append(queries, new) /\ queries \in Seq(OpenSpan)
  BY StartAddsOne DEF QueriesOK, QueueOK
<1>3. new \in OpenSpan /\ new.query = Len(issued) + 1
  BY <1>1, QuerySpansAssumption DEF OpenSpan
<1> HIDE DEF new
<1>4. queries' \in Seq(OpenSpan)
  BY <1>2, <1>3, AppendProperties
<1>5. OpenQueries' = QueriesOf(queries')
  BY <1>4, LenProperties DEF OpenQueries, QueriesOf
<1>6. OpenQueries' = OpenQueries \union {Len(issued) + 1}
  BY <1>2, <1>3, <1>5, WithItsQuery, OpenAreQueued
<1>7. running' = running \union {Len(issued) + 1}
  BY <1>1 DEF StartQuery, Issue
<1>8. QED
  BY <1>1, <1>6, <1>7

LEMMA FinishCloses ==
  ASSUME NEW q, FinishQuery(q), QueriesOK, Closed(issued[q]) # {}
  PROVE  /\ Victim(issued[q]) \in Closed(issued[q])
         /\ OpenQueries' = OpenQueries \ {queries[Victim(issued[q])].query}
<1>1. /\ Victim(issued[q]) \in Closed(issued[q])
      /\ Without(queries', queries, Victim(issued[q]))
  BY FinishTakesOne
<1>2. queries' \in Seq(OpenSpan)
  BY <1>1 DEF Without
<1>3. OpenQueries' = QueriesOf(queries')
  BY <1>2, LenProperties DEF OpenQueries, QueriesOf
<1>4. QED
  BY <1>1, <1>3, WithoutItsQuery, OpenAreQueued DEF QueriesOK

-----------------------------------------------------------------------------
(* Each span is closed by its own query                                    *)

LEMMA NextKeepsExact == QInv /\ SpansExact /\ [Next]_vars => SpansExact'
<1> SUFFICES ASSUME QInv, SpansExact, [Next]_vars,
                    ~unheard', ~evicted', ~dropped', ~overtaken'
             PROVE  OpenQueries' = running'
  BY DEF SpansExact
<1> USE DEF QInv
<1>1. ASSUME NEW sql \in Sqls, StartQuery(sql) \/ StartUnheard(sql)
     PROVE  OpenQueries' = running'
  <2>1. StartQuery(sql) /\ ~unheard /\ ~evicted /\ ~dropped /\ ~overtaken
    <3>1. ~StartUnheard(sql)
      BY DEF StartUnheard
    <3>2. StartQuery(sql)
      BY <1>1, <3>1
    <3>3. Issue(sql) /\ unheard' = unheard /\ evicted' = (evicted \/ Full)
      BY <3>2, Zenon DEF StartQuery
    <3>4. QED
      BY <3>2, <3>3, Zenon DEF Issue
  <2>2. OpenQueries = running
    BY <2>1 DEF SpansExact
  <2>3. QED
    BY <1>1, <2>1, <2>2, StartOpens
<1>2. ASSUME NEW q \in running, FinishQuery(q) PROVE OpenQueries' = running'
  <2>1. ~unheard /\ ~evicted /\ ~dropped /\ ~overtaken
    BY <1>2, Zenon DEF FinishQuery
  <2>2. OpenQueries = running
    BY <2>1 DEF SpansExact
  <2>3. \A p \in running : ~(p < q /\ issued[p] = issued[q])
    BY <1>2, Zenon DEF FinishQuery
  <2>4. /\ OpenQueries = QueriesOf(queries) /\ OpenQueries \subseteq 1..Len(issued)
        /\ \A i \in 1..Len(queries) : issued[queries[i].query] = queries[i].sql
        /\ queries \in Seq(OpenSpan) /\ Len(queries) \in Nat /\ Len(issued) \in Nat
        /\ DOMAIN queries = 1..Len(queries)
    BY OpenAreQueued, LenProperties DEF QueriesOK, QueueOK
  <2>5. PICK k \in 1..Len(queries) : queries[k].query = q
    BY <2>2, <2>4 DEF QueriesOf
  <2>6. \A i \in 1..Len(queries) : queries[i].sql = issued[q] => k <= i
    <3>1. SUFFICES ASSUME NEW i \in 1..Len(queries), queries[i].sql = issued[q], ~(k <= i)
                   PROVE  FALSE
      OBVIOUS
    <3>2. queries[i].query < q
      BY <2>4, <2>5, <3>1 DEF QueriesOK, QueueOK
    <3>3. queries[i].query \in running /\ issued[queries[i].query] = issued[q]
      BY <2>2, <2>4, <3>1 DEF QueriesOf
    <3>4. QED
      BY <2>3, <3>2, <3>3
  <2>7. Closed(issued[q]) = {k}
    <3>1. CASE Len(queries) <= 1
      BY <2>4, <2>5, <3>1 DEF Closed
    <3>2. CASE ~(Len(queries) <= 1)
      BY <2>4, <2>5, <2>6, <3>2 DEF Closed, OldestMatch
    <3>3. QED
      BY <3>1, <3>2
  <2>8. OpenQueries' = OpenQueries \ {q}
    BY <1>2, <2>5, <2>7, FinishCloses
  <2>9. QED
    BY <1>2, <2>2, <2>8 DEF FinishQuery
<1>3. ASSUME NEW q \in running, DropQuery(q) PROVE OpenQueries' = running'
  BY <1>3 DEF DropQuery
<1>4. CASE \/ StartEstablish \/ FinishEstablish \/ Begin \/ End \/ Done \/ Strays
           \/ UNCHANGED vars
  <2>1. UNCHANGED spans
    BY <1>4 DEF StartEstablish, FinishEstablish, Begin, End, Done, Strays, vars
  <2>2. QED
    BY <2>1 DEF spans, history, SpansExact, OpenQueries
<1>5. QED
  BY <1>1, <1>2, <1>3, <1>4 DEF Next

\* While queries finish in order, all are listened to, none is dropped and none makes
\* room, every span is closed by its own query.
THEOREM SpansCloseExactly == Spec => []SpansExact
<1>1. Init => SpansExact
  <2>1. SUFFICES ASSUME Init PROVE OpenQueries = running
    BY DEF SpansExact
  <2>2. DOMAIN queries = {}
    BY <2>1 DEF Init
  <2>3. QED
    BY <2>1, <2>2 DEF Init, OpenQueries
<1>2. QInv /\ SpansExact /\ [Next]_vars => SpansExact'
  BY NextKeepsExact
<1>3. QED
  BY <1>1, <1>2, QueriesInvariant, PTL DEF Spec

-----------------------------------------------------------------------------
(* A running query has a span of its statement                             *)

LEMMA Least ==
  ASSUME NEW T \in SUBSET Nat, T # {}
  PROVE  \E x \in T : \A y \in T : x <= y
<1> DEFINE R == {ss \in Nat \X Nat : ss[1] < ss[2]}
<1>1. IsWellFoundedOn(R, Nat)
  BY NatLessThanWellFounded DEF OpToRel
<1> HIDE DEF R
<1>2. \E x \in T : \A y \in T : <<y, x>> \notin R
  BY <1>1, WFMin
<1>3. \A x, y \in Nat : <<y, x>> \notin R => x <= y
  BY DEF R
<1>4. QED
  BY <1>2, <1>3

\* Those of the queries in S that run sql.
Running(S, sql) == {q \in S : issued[q] = sql}

Counted ==
  \A sql \in Sqls :
     /\ OpenSpans(sql) = Cardinality(Running(OpenQueries, sql))
     /\ RunningQueries(sql) = Cardinality(Running(running, sql))
     /\ IsFiniteSet(Running(OpenQueries, sql)) /\ OpenSpans(sql) \in Nat
     /\ IsFiniteSet(Running(running, sql)) /\ RunningQueries(sql) \in Nat

LEMMA CountsOf == QueriesOK => Counted
<1> SUFFICES ASSUME QueriesOK, NEW sql \in Sqls
             PROVE  /\ OpenSpans(sql) = Cardinality(Running(OpenQueries, sql))
                    /\ RunningQueries(sql) = Cardinality(Running(running, sql))
                    /\ IsFiniteSet(Running(OpenQueries, sql)) /\ OpenSpans(sql) \in Nat
                    /\ IsFiniteSet(Running(running, sql)) /\ RunningQueries(sql) \in Nat
  BY DEF Counted
<1>1. Len(issued) \in Nat
  BY LenProperties DEF QueriesOK
<1>2. IsFiniteSet(1..Len(issued))
  BY <1>1, FS_Interval
<1>3. /\ Running(OpenQueries, sql) \subseteq 1..Len(issued)
      /\ Running(running, sql) \subseteq 1..Len(issued)
  BY OpenAreQueued DEF Running, QueriesOK
<1>4. IsFiniteSet(Running(OpenQueries, sql)) /\ IsFiniteSet(Running(running, sql))
  BY <1>2, <1>3, FS_Subset
<1>5. QED
  BY <1>4, FS_CardinalityType DEF OpenSpans, RunningQueries, Running

\* A finish whose statement has an open span closes one of them.
LEMMA ClosesOwn ==
  ASSUME NEW q \in running, QueriesOK, OpenSpans(issued[q]) > 0
  PROVE  /\ Closed(issued[q]) # {}
         /\ \A i \in Closed(issued[q]) : queries[i].sql = issued[q]
<1>1. /\ OpenQueries = QueriesOf(queries)
      /\ \A i \in 1..Len(queries) : issued[queries[i].query] = queries[i].sql
      /\ Len(queries) \in Nat /\ DOMAIN queries = 1..Len(queries)
  BY OpenAreQueued, LenProperties DEF QueriesOK, QueueOK
<1>2. Running(OpenQueries, issued[q]) # {}
  <2>1. issued[q] \in Sqls
    BY ElementOfSeq DEF QueriesOK
  <2>2. QED
    BY <2>1, CountsOf, FS_EmptySet DEF Counted
<1>3. PICK j \in 1..Len(queries) : queries[j].sql = issued[q]
  BY <1>1, <1>2 DEF Running, QueriesOf
<1>4. CASE Len(queries) <= 1
  <2>1. Closed(issued[q]) = {j} 
    BY <1>1, <1>3, <1>4 DEF Closed
  <2>2. QED
    BY <1>3, <2>1
<1>5. CASE ~(Len(queries) <= 1)
  <2> DEFINE same == {i \in 1..Len(queries) : queries[i].sql = issued[q]}
  <2>1. same \in SUBSET Nat /\ same # {}
    BY <1>1, <1>3
  <2>2. PICK k \in same : \A i \in same : k <= i
    BY <2>1, Least
  <2>3. Closed(issued[q]) = {i \in same : \A m \in same : i <= m}
    BY <1>1, <1>5 DEF Closed, OldestMatch
  <2>4. QED
    BY <2>2, <2>3
<1>6. QED
  BY <1>1, <1>4, <1>5

LEMMA NextKeepsSpans == QInv /\ RunningHaveSpans /\ [Next]_vars => RunningHaveSpans'
<1> SUFFICES ASSUME QInv, QInv', RunningHaveSpans, [Next]_vars, ~unheard', ~evicted',
                    NEW sql \in Sqls
             PROVE  /\ OpenSpans(sql)' >= RunningQueries(sql)'
                    /\ ~dropped' => OpenSpans(sql)' = RunningQueries(sql)'
  BY NextKeepsQInv DEF RunningHaveSpans
<1> USE DEF QInv
<1> DEFINE open == Running(OpenQueries, sql)
           run == Running(running, sql)
<1>1. /\ OpenSpans(sql) = Cardinality(open) /\ IsFiniteSet(open) /\ OpenSpans(sql) \in Nat
      /\ RunningQueries(sql) = Cardinality(run) /\ IsFiniteSet(run) /\ RunningQueries(sql) \in Nat
  BY CountsOf DEF Counted
<1>2. /\ OpenSpans(sql)' = Cardinality(open') /\ IsFiniteSet(open') /\ OpenSpans(sql)' \in Nat
      /\ RunningQueries(sql)' = Cardinality(run') /\ IsFiniteSet(run')
      /\ RunningQueries(sql)' \in Nat
  <2>1. (QueriesOK => Counted)'
    BY CountsOf, PTL
  <2>2. QED
    BY <2>1 DEF Counted
<1> DEFINE Goal == /\ OpenSpans(sql)' >= RunningQueries(sql)'
                   /\ ~dropped' => OpenSpans(sql)' = RunningQueries(sql)'
<1>3. ASSUME NEW other \in Sqls, StartQuery(other) \/ StartUnheard(other) PROVE Goal
  <2>1. StartQuery(other) /\ ~unheard /\ ~evicted /\ (~dropped' => ~dropped)
    <3>1. ~StartUnheard(other)
      BY DEF StartUnheard
    <3>2. StartQuery(other)
      BY <1>3, <3>1
    <3>3. Issue(other) /\ unheard' = unheard /\ evicted' = (evicted \/ Full)
      BY <3>2, Zenon DEF StartQuery
    <3>4. QED
      BY <3>2, <3>3, Zenon DEF Issue
  <2>2. /\ OpenSpans(sql) >= RunningQueries(sql)
        /\ ~dropped => OpenSpans(sql) = RunningQueries(sql)
    BY <2>1 DEF RunningHaveSpans
  <2> DEFINE n == Len(issued) + 1
  <2>3. /\ OpenQueries' = OpenQueries \union {n} /\ running' = running \union {n}
        /\ issued'[n] = other /\ n \notin 1..Len(issued)
        /\ \A q \in 1..Len(issued) : issued'[q] = issued[q]
    BY <1>3, <2>1, StartOpens
  <2>4. OpenQueries \subseteq 1..Len(issued) /\ running \subseteq 1..Len(issued)
    BY OpenAreQueued DEF QueriesOK
  <2> HIDE DEF n
  <2>5. n \notin open /\ n \notin run
    BY <2>3, <2>4 DEF Running
  <2>6. CASE sql = other
    <3>1. open' = open \union {n} /\ run' = run \union {n}
      BY <2>3, <2>4, <2>6 DEF Running
    <3>2. OpenSpans(sql)' = OpenSpans(sql) + 1 /\ RunningQueries(sql)' = RunningQueries(sql) + 1
      BY <1>1, <1>2, <2>5, <3>1, FS_AddElement
    <3>3. QED
      BY <1>1, <2>1, <2>2, <3>2
  <2>7. CASE sql # other
    <3>1. open' = open /\ run' = run
      BY <2>3, <2>4, <2>7 DEF Running
    <3>2. QED
      BY <1>1, <1>2, <2>1, <2>2, <3>1
  <2>8. QED
    BY <2>6, <2>7
<1>4. ASSUME NEW q \in running, FinishQuery(q) PROVE Goal
  <2>1. ~unheard /\ ~evicted /\ (~dropped' => ~dropped) /\ issued' = issued
    BY <1>4, Zenon DEF FinishQuery
  <2>2. /\ OpenSpans(sql) >= RunningQueries(sql)
        /\ ~dropped => OpenSpans(sql) = RunningQueries(sql)
    BY <2>1 DEF RunningHaveSpans
  <2>3. issued[q] \in Sqls
    BY ElementOfSeq DEF QueriesOK
  <2>4. OpenSpans(issued[q]) > 0
    <3>1. /\ OpenSpans(issued[q]) >= RunningQueries(issued[q])
          /\ OpenSpans(issued[q]) \in Nat /\ RunningQueries(issued[q]) \in Nat
          /\ RunningQueries(issued[q]) = Cardinality(Running(running, issued[q]))
          /\ IsFiniteSet(Running(running, issued[q]))
      BY <2>1, <2>3, CountsOf DEF RunningHaveSpans, Counted
    <3>2. q \in Running(running, issued[q])
      BY DEF Running
    <3>3. RunningQueries(issued[q]) # 0
      BY <3>1, <3>2, FS_EmptySet
    <3>4. QED
      BY <3>1, <3>3
  <2> DEFINE v == queries[Victim(issued[q])].query
  <2>5. OpenQueries' = OpenQueries \ {v} /\ issued[v] = issued[q] /\ v \in OpenQueries
    <3>1. /\ Victim(issued[q]) \in Closed(issued[q])
          /\ OpenQueries' = OpenQueries \ {v}
          /\ queries[Victim(issued[q])].sql = issued[q]
      BY <1>4, <2>4, ClosesOwn, FinishCloses
    <3>2. Victim(issued[q]) \in 1..Len(queries)
      BY <3>1, ClosedInQueue
    <3>3. QED
      BY <3>1, <3>2, OpenAreQueued DEF QueriesOf
  <2>6. running' = running \ {q}
    BY <1>4 DEF FinishQuery
  <2> HIDE DEF v
  <2>7. CASE sql = issued[q]
    <3>1. open' = open \ {v} /\ run' = run \ {q} /\ v \in open /\ q \in run
      BY <2>1, <2>5, <2>6, <2>7 DEF Running
    <3>2. OpenSpans(sql)' = OpenSpans(sql) - 1 /\ RunningQueries(sql)' = RunningQueries(sql) - 1
      BY <1>1, <1>2, <3>1, FS_RemoveElement
    <3>3. QED
      BY <1>1, <2>1, <2>2, <3>2
  <2>8. CASE sql # issued[q]
    <3>1. open' = open /\ run' = run
      BY <2>1, <2>5, <2>6, <2>8 DEF Running
    <3>2. QED
      BY <1>1, <1>2, <2>1, <2>2, <3>1
  <2>9. QED
    BY <2>7, <2>8
<1>5. ASSUME NEW q \in running, DropQuery(q) PROVE Goal
  <2>1. ~unheard /\ ~evicted /\ dropped'
    BY <1>5, Zenon DEF DropQuery
  <2>2. OpenSpans(sql) >= RunningQueries(sql)
    BY <2>1 DEF RunningHaveSpans
  <2>3. open' = open /\ run' \subseteq run
    BY <1>5 DEF DropQuery, Running, OpenQueries
  <2>4. RunningQueries(sql)' <= RunningQueries(sql) /\ OpenSpans(sql)' = OpenSpans(sql)
    BY <1>1, <1>2, <2>3, FS_Subset
  <2>5. QED
    BY <1>1, <1>2, <2>1, <2>2, <2>4
<1>6. CASE \/ StartEstablish \/ FinishEstablish \/ Begin \/ End \/ Done \/ Strays
           \/ UNCHANGED vars
  <2>1. UNCHANGED spans
    BY <1>6 DEF StartEstablish, FinishEstablish, Begin, End, Done, Strays, vars
  <2>2. UNCHANGED <<issued, queries, running, unheard, evicted, dropped>>
    BY <2>1 DEF spans, history
  <2>3. /\ OpenSpans(sql)' = OpenSpans(sql) /\ RunningQueries(sql)' = RunningQueries(sql)
        /\ ~unheard /\ ~evicted /\ dropped' = dropped
    BY <2>2 DEF OpenSpans, RunningQueries, OpenQueries
  <2>4. QED
    BY <1>1, <2>3 DEF RunningHaveSpans
<1>7. QED
  BY <1>3, <1>4, <1>5, <1>6 DEF Next

\* Until a span had to make room or a query was not listened to, every running
\* query has an open span of its statement, and without dropped queries there is
\* no other.
THEOREM RunningQueriesHaveSpans == Spec => []RunningHaveSpans
<1>1. Init => RunningHaveSpans
  <2>1. SUFFICES ASSUME Init, NEW sql \in Sqls
                 PROVE  OpenSpans(sql) = 0 /\ RunningQueries(sql) = 0
    BY DEF RunningHaveSpans
  <2>2. DOMAIN queries = {} /\ running = {}
    BY <2>1 DEF Init
  <2>3. /\ {q \in OpenQueries : issued[q] = sql} = {}
        /\ {q \in running : issued[q] = sql} = {}
    BY <2>2 DEF OpenQueries
  <2>4. QED
    BY <2>3, FS_EmptySet DEF OpenSpans, RunningQueries
<1>2. QInv /\ RunningHaveSpans /\ [Next]_vars => RunningHaveSpans'
  BY NextKeepsSpans
<1>3. QED
  BY <1>1, <1>2, QueriesInvariant, PTL DEF Spec
=============================================================================

----------------------- MODULE ClickAnalyticsProofs -----------------------
(***************************************************************************)
(* What holds of the clicks of a link for every number of visits, visitors *)
(* and readers.  The counter is read by one statement and written by a     *)
(* later one, so the argument carries what is known of a value that was    *)
(* read and not yet written.                                               *)
(***************************************************************************)
EXTENDS ClickAnalytics, FiniteSetTheorems, TLAPS

USE ConstantsAssumption, NoneAssumption

\* ------------------------------------------------------------ the redirects
\* What a visit that has read the counter will write is at most one more than the rows.
Bounded ==
  /\ total <= Cardinality(rows)
  /\ \A v \in Visits : visit[v] = "read" => read[v] <= Cardinality(rows)

\* A visit skips the counter of a deleted link only.
Skips == \A v \in Visits : visit[v] = "skipped" => deleted

\* While no two visits overlapped, one at most is under way and what it has read is still
\* the counter, which is that of the rows until the link is deleted.
Exact ==
  ~ overlapped =>
    /\ ~ deleted => total = Cardinality(rows)
    /\ \A u, v \in Visits : UnderWay(u) /\ UnderWay(v) => u = v
    /\ \A v \in Visits : visit[v] = "read" => read[v] = total

CountInv == TypeOK /\ Bounded /\ Skips /\ Exact

LEMMA RowsFinite ==
  ASSUME TypeOK
  PROVE  /\ IsFiniteSet(rows) /\ rows \subseteq Visits
         /\ Cardinality(rows) \in Nat /\ Cardinality(rows) <= Cardinality(Visits)
         /\ Cardinality(Visits) \in Nat
<1>1. rows \in SUBSET Visits
  BY DEF TypeOK
<1> QED
  BY <1>1, FS_Subset, FS_CardinalityType

LEMMA CountInit == Init => CountInv
<1> SUFFICES ASSUME Init PROVE CountInv
  OBVIOUS
<1>1. /\ Cardinality(Old) \in Nat /\ Cardinality(Visits) \in Nat
      /\ Cardinality(Old) <= Cardinality(Visits)
  BY FS_Subset, FS_CardinalityType
<1>2. rows = {v \in Visits : visit[v] = "done"}
  BY DEF Init
<1>3. NoRequest \in Request
  BY <1>1 DEF NoRequest, Request, Totals
<1>4. TypeOK
  <2>1. visit \in [Visits -> {"new", "checked", "read", "skipped", "done", "undone"}]
    BY DEF Init
  <2>2. /\ repeat \in [Visits -> BOOLEAN]
        /\ read \in [Visits -> Totals]
        /\ total \in Totals
    BY <1>1 DEF Init, Totals
  <2>3. /\ request \in [Readers -> Request]
        /\ summary \in Summary \cup {None}
        /\ page \in [name : {"analytics", "public", "none"}, days : Days]
        /\ figures \in [data : Summary \cup {None}, failed : BOOLEAN]
        /\ chart \in Series \cup {None}
        /\ deleted \in BOOLEAN /\ overlapped \in BOOLEAN /\ raced \in BOOLEAN
    BY <1>3 DEF Init, Days
  <2> QED
    BY <1>2, <2>1, <2>2, <2>3 DEF TypeOK
<1> QED
  BY <1>1, <1>4 DEF Init, CountInv, Bounded, Skips, Exact, UnderWay

\* A step of the first statement of a visit.
LEMMA CountCheckPrior ==
  ASSUME CountInv, NEW v \in Visits, CheckPrior(v)
  PROVE  CountInv'
<1> USE DEF CountInv, Skips, CheckPrior, Goes, browser
<1>1. TypeOK'
  BY DEF TypeOK
<1>2. \A u \in Visits : u # v => visit'[u] = visit[u]
  BY DEF TypeOK
<1>3. visit'[v] = "checked"
  BY DEF TypeOK
<1>4. Bounded'
  BY <1>2, <1>3 DEF Bounded
<1>5. Exact'
  <2> SUFFICES ASSUME ~ overlapped'
               PROVE  /\ ~ deleted => total = Cardinality(rows)
                      /\ \A x, y \in Visits : UnderWay(x)' /\ UnderWay(y)' => x = y
                      /\ \A x \in Visits : visit'[x] = "read" => read[x] = total
    BY DEF Exact
  <2>1. ~ overlapped /\ \A x \in Visits : ~ UnderWay(x)
    OBVIOUS
  <2>2. \A x \in Visits : UnderWay(x)' => x = v
    BY <1>2, <2>1 DEF UnderWay
  <2>3. \A x \in Visits : visit'[x] # "read"
    BY <1>3, <2>2 DEF UnderWay
  <2> QED
    BY <2>1, <2>2, <2>3 DEF Exact
<1> QED
  BY <1>1, <1>4, <1>5

LEMMA CountReadTotal ==
  ASSUME CountInv, NEW v \in Visits, ReadTotal(v)
  PROVE  CountInv'
<1> USE DEF CountInv, Skips, ReadTotal, Goes, browser, history
<1>1. TypeOK'
  BY DEF TypeOK
<1>2. \A u \in Visits : u # v => visit'[u] = visit[u] /\ read'[u] = read[u]
  BY DEF TypeOK
<1>3. visit'[v] = "read" /\ read'[v] = total /\ visit[v] = "checked"
  BY DEF TypeOK
<1>4. Bounded'
  BY <1>2, <1>3 DEF Bounded
<1>5. Exact'
  BY <1>2, <1>3 DEF Exact, UnderWay
<1> QED
  BY <1>1, <1>4, <1>5

LEMMA CountReadNothing ==
  ASSUME CountInv, NEW v \in Visits, ReadNothing(v)
  PROVE  CountInv'
<1> USE DEF CountInv, Skips, ReadNothing, Goes, browser, history
<1>1. TypeOK'
  BY DEF TypeOK
<1>2. \A u \in Visits : u # v => visit'[u] = visit[u]
  BY DEF TypeOK
<1>3. visit'[v] = "skipped" /\ visit[v] = "checked"
  BY DEF TypeOK
<1>4. Bounded'
  BY <1>2, <1>3 DEF Bounded
<1>5. Exact'
  BY <1>2, <1>3 DEF Exact, UnderWay
<1>6. Skips'
  BY <1>2
<1> QED
  BY <1>1, <1>4, <1>5, <1>6

LEMMA CountDeleteLink ==
  ASSUME CountInv, DeleteLink
  PROVE  CountInv'
BY DEF CountInv, DeleteLink, TypeOK, Bounded, Skips, Exact, UnderWay, browser, history

LEMMA CountCommitVisit ==
  ASSUME CountInv, NEW v \in Visits, CommitVisit(v)
  PROVE  CountInv'
<1> USE DEF CountInv, CommitVisit, Goes, browser
<1>1. \A u \in Visits : u # v => visit'[u] = visit[u] /\ read'[u] = read[u]
  BY DEF TypeOK
<1>2. visit'[v] = "done" /\ visit[v] \in {"read", "skipped"} /\ v \notin rows
  BY DEF TypeOK
<1>3. Cardinality(rows') = Cardinality(rows) + 1
  BY <1>2, RowsFinite, FS_AddElement
<1>4. rows' = {u \in Visits : visit'[u] = "done"}
  BY <1>1, <1>2 DEF TypeOK
<1>5. /\ visit[v] = "read" => /\ read[v] \in Nat /\ read[v] <= Cardinality(rows)
                              /\ total' = read[v] + 1
      /\ visit[v] = "skipped" => deleted /\ total' = total
      /\ total \in Nat /\ total <= Cardinality(rows)
  BY <1>2 DEF TypeOK, Bounded, Skips, Totals
<1>6. Cardinality(rows') <= Cardinality(Visits) /\ Cardinality(Visits) \in Nat
  <2>1. rows' \in SUBSET Visits
    BY <1>4
  <2> QED
    BY <2>1, FS_Subset, FS_CardinalityType
<1>7. total' \in Nat /\ total' <= Cardinality(rows')
  BY <1>2, <1>3, <1>5, RowsFinite
<1>8. total' \in Totals /\ 0 \in Totals
  BY <1>3, <1>6, <1>7, RowsFinite DEF Totals
<1>9. TypeOK'
  BY <1>4, <1>8 DEF TypeOK
<1>10. Bounded'
  <2>1. \A u \in Visits : visit'[u] = "read" => u # v /\ read'[u] <= Cardinality(rows)
    BY <1>1, <1>2 DEF Bounded
  <2>2. \A u \in Visits : read'[u] \in Nat
    BY <1>9 DEF TypeOK, Totals
  <2>3. \A u \in Visits : visit'[u] = "read" => read'[u] <= Cardinality(rows')
    <3> SUFFICES ASSUME NEW u \in Visits, visit'[u] = "read"
                 PROVE  read'[u] <= Cardinality(rows')
      OBVIOUS
    <3>1. read'[u] <= Cardinality(rows) /\ read'[u] \in Nat
      BY <2>1, <2>2
    <3>2. Cardinality(rows) \in Nat
      BY RowsFinite
    <3> HIDE DEF CommitVisit
    <3> QED
      BY <1>3, <3>1, <3>2
  <2> QED
    BY <1>7, <2>3 DEF Bounded
<1>11. Skips'
  BY <1>1, <1>2 DEF Skips
<1>12. Exact'
  <2> SUFFICES ASSUME ~ overlapped
               PROVE  /\ ~ deleted => total' = Cardinality(rows')
                      /\ \A x, y \in Visits : UnderWay(x)' /\ UnderWay(y)' => x = y
                      /\ \A x \in Visits : visit'[x] = "read" => read'[x] = total'
    BY DEF Exact
  <2>1. \A x, y \in Visits : UnderWay(x) /\ UnderWay(y) => x = y
    BY DEF Exact
  <2>2. UnderWay(v) /\ \A x \in Visits : ~ UnderWay(x)'
    BY <1>1, <1>2, <2>1 DEF UnderWay
  <2>3. ~ deleted => total' = Cardinality(rows')
    BY <1>2, <1>3, <1>5 DEF Exact
  <2> QED
    BY <2>2, <2>3 DEF UnderWay
<1> QED
  BY <1>9, <1>10, <1>11, <1>12

LEMMA CountRollBack ==
  ASSUME CountInv, NEW v \in Visits, RollBack(v)
  PROVE  CountInv'
<1> USE DEF CountInv, Skips, RollBack, browser, history
<1>1. \A u \in Visits : u # v => visit'[u] = visit[u] /\ read'[u] = read[u]
  BY DEF TypeOK
<1>2. visit'[v] = "undone" /\ visit[v] # "done"
  BY DEF TypeOK, UnderWay
<1>3. 0 \in Totals
  BY RowsFinite DEF Totals
<1>4. TypeOK'
  <2>1. rows' = {u \in Visits : visit'[u] = "done"}
    BY <1>1, <1>2 DEF TypeOK
  <2> QED
    BY <1>3, <2>1 DEF TypeOK
<1>5. Bounded'
  BY <1>1, <1>2 DEF Bounded
<1>6. Exact'
  BY <1>1, <1>2 DEF Exact, UnderWay
<1> QED
  BY <1>4, <1>5, <1>6

\* ------------------------------------------------------------- the readers
\* The readers and the browser leave the server alone.
LEMMA CountUntouched ==
  ASSUME CountInv, UNCHANGED <<server, overlapped>>, TypeOK'
  PROVE  CountInv'
BY DEF CountInv, Bounded, Skips, Exact, UnderWay, server

LEMMA TypeAnswer ==
  ASSUME TypeOK, NEW r \in Readers, NEW s \in Summary, Answer(r, s),
         summary' \in Summary \cup {None}, UNCHANGED history
  PROVE  TypeOK'
<1>1. NoRequest \in Request
  BY RowsFinite DEF NoRequest, Request, Totals
<1>2. request' \in [Readers -> Request]
  BY <1>1 DEF TypeOK, Answer
<1>3. figures' \in [data : Summary \cup {None}, failed : BOOLEAN]
  BY DEF TypeOK, Answer
<1> QED
  BY <1>2, <1>3 DEF TypeOK, Answer, server, history

LEMMA TypeReader ==
  ASSUME TypeOK, NEW r \in Readers, GetAnalytics(r) \/ RequestFails(r)
  PROVE  TypeOK' /\ UNCHANGED <<server, overlapped>>
<1> USE DEF history
<1>1. request[r] \in Request
  BY DEF TypeOK
<1>2. CASE LookupHit(r)
  <2>1. summary \in Summary
    BY <1>2 DEF LookupHit, TypeOK
  <2> QED
    BY <1>2, <2>1, TypeAnswer DEF LookupHit, Answer
<1>3. CASE LookupMiss(r)
  <2>1. [request[r] EXCEPT !.at = "missed", !.total = total] \in Request
    BY <1>1 DEF Request, TypeOK
  <2>2. request' = [request EXCEPT ![r] = [request[r] EXCEPT !.at = "missed", !.total = total]]
    BY <1>3, <1>1 DEF LookupMiss, TypeOK, Request
  <2>3. request' \in [Readers -> Request]
    BY <2>1, <2>2 DEF TypeOK
  <2> QED
    BY <1>3, <2>3 DEF LookupMiss, TypeOK, server, browser
<1>4. CASE Aggregate(r)
  <2>1. [request[r] EXCEPT !.at = "counted", !.seen = rows] \in Request
    BY <1>1 DEF Request, TypeOK
  <2>2. request' = [request EXCEPT ![r] = [request[r] EXCEPT !.at = "counted", !.seen = rows]]
    BY <1>4, <1>1 DEF Aggregate, TypeOK, Request
  <2>3. request' \in [Readers -> Request]
    BY <2>1, <2>2 DEF TypeOK
  <2> QED
    BY <1>4, <2>3 DEF Aggregate, TypeOK, server, browser
<1>5. CASE Remember(r)
  <2> DEFINE s == [total |-> request[r].total, seen |-> request[r].seen]
  <2>1. s \in Summary
    BY <1>1 DEF Request, Summary
  <2>2. summary' \in Summary \cup {None} /\ Answer(r, s) /\ UNCHANGED history
    BY <1>5, <2>1 DEF Remember, TypeOK
  <2> QED
    BY <2>1, <2>2, TypeAnswer DEF Answer
<1>6. CASE RequestFails(r)
  <2>1. NoRequest \in Request
    BY RowsFinite DEF NoRequest, Request, Totals
  <2>2. request' \in [Readers -> Request]
    BY <1>6, <2>1 DEF TypeOK, RequestFails
  <2>3. figures' \in [data : Summary \cup {None}, failed : BOOLEAN]
    BY <1>6 DEF TypeOK, RequestFails
  <2> QED
    BY <1>6, <2>2, <2>3 DEF RequestFails, TypeOK, server
<1> QED
  BY <1>2, <1>3, <1>4, <1>5, <1>6 DEF GetAnalytics

\* -------------------------------------------------------------- the browser
PageStep ==
  \/ Expire
  \/ \E name \in {"analytics", "public"} : Visit(name)
  \/ \E d \in Days : SetDays(d)
  \/ SeriesAnswered \/ Focus \/ Leave \/ Evict

LEMMA TypeObserve ==
  ASSUME TypeOK, ObserveSummary
  PROVE  /\ request' \in [Readers -> Request]
         /\ figures' \in [data : Summary \cup {None}, failed : BOOLEAN]
<1>1. Here \in Readers /\ request[Here] \in Request
  BY DEF TypeOK, Readers
<1>2. [request[Here] EXCEPT !.at = "asked"] \in Request
  BY <1>1 DEF Request
<1>3. [figures EXCEPT !.failed = @ /\ figures.data # None]
        \in [data : Summary \cup {None}, failed : BOOLEAN]
  BY DEF TypeOK
<1> QED
  BY <1>1, <1>2, <1>3 DEF ObserveSummary, TypeOK

LEMMA TypePage ==
  ASSUME TypeOK, PageStep
  PROVE  TypeOK' /\ UNCHANGED <<server, overlapped>>
<1> USE DEF history, server, browser
<1>1. CASE Expire
  BY <1>1 DEF Expire, TypeOK
<1>2. ASSUME NEW name \in {"analytics", "public"}, Visit(name)
      PROVE  TypeOK' /\ UNCHANGED <<server, overlapped>>
  <2>1. /\ request' \in [Readers -> Request]
        /\ figures' \in [data : Summary \cup {None}, failed : BOOLEAN]
    BY <1>2, TypeObserve DEF Visit
  <2> QED
    BY <1>2, <2>1 DEF Visit, ObserveSeries, TypeOK, Days
<1>3. ASSUME NEW d \in Days, SetDays(d)
      PROVE  TypeOK' /\ UNCHANGED <<server, overlapped>>
  BY <1>3 DEF SetDays, ObserveSeries, TypeOK
<1>4. CASE SeriesAnswered
  BY <1>4 DEF SeriesAnswered, TypeOK, Series, InWindow
<1>5. CASE Focus
  <2>1. /\ request' \in [Readers -> Request]
        /\ figures' \in [data : Summary \cup {None}, failed : BOOLEAN]
    BY <1>5, TypeObserve DEF Focus
  <2> QED
    BY <1>5, <2>1 DEF Focus, TypeOK
<1>6. CASE Leave
  BY <1>6 DEF Leave, TypeOK, Days
<1>7. CASE Evict
  BY <1>7 DEF Evict, TypeOK
<1> QED
  BY <1>1, <1>2, <1>3, <1>4, <1>5, <1>6, <1>7 DEF PageStep

LEMMA CountStep == CountInv /\ [Next]_vars => CountInv'
<1> SUFFICES ASSUME CountInv, [Next]_vars PROVE CountInv'
  OBVIOUS
<1>0. TypeOK
  BY DEF CountInv
<1>1. ASSUME NEW v \in Visits, Redirect(v) \/ RollBack(v) PROVE CountInv'
  BY <1>1, CountCheckPrior, CountReadTotal, CountReadNothing, CountCommitVisit, CountRollBack
     DEF Redirect
<1>2. ASSUME NEW r \in Readers, GetAnalytics(r) \/ RequestFails(r) PROVE CountInv'
  BY <1>0, <1>2, TypeReader, CountUntouched
<1>3. CASE PageStep
  BY <1>0, <1>3, TypePage, CountUntouched
<1>4. CASE UNCHANGED vars
  <2>1. TypeOK'
    BY <1>0, <1>4 DEF TypeOK, vars, server, browser, history
  <2> QED
    BY <1>4, <2>1, CountUntouched DEF vars, server, history
<1> QED
  BY <1>1, <1>2, <1>3, <1>4, CountDeleteLink DEF Next, PageStep

\* Every reachable state of the redirects, the summary and the pages is well-typed; in
\* particular the counter never exceeds the visits.
THEOREM TypeCorrect == Spec => []TypeOK
<1>1. CountInv => TypeOK
  BY DEF CountInv
<1> QED
  BY <1>1, CountInit, CountStep, PTL DEF Spec

\* However many redirects overlap, the counter counts no click that is not there, and while
\* none overlap and the link is not deleted it counts each of them (increment_clicks,
\* repositories/url.py:97 and services/url.py:313).
THEOREM CounterIsSound == Spec => []CountIsRows
<1>1. CountInv => CountIsRows
  BY DEF CountInv, Bounded, Exact, CountIsRows
<1> QED
  BY <1>1, CountInit, CountStep, PTL DEF Spec

\* ------------------------------------------------------------ the first click
\* A click that is called a repeat has a committed first one to be a repeat of; while no
\* two visits overlapped a visit that found none is still alone with its visitor.
SameVisitor(u, v) == VisitorOf[u] = VisitorOf[v]

Grounded ==
  \A v \in Visits : (UnderWay(v) \/ v \in rows) /\ repeat[v] =>
    \E u \in rows : SameVisitor(u, v) /\ ~ repeat[u]

Unrivalled ==
  ~ overlapped =>
    /\ \A v \in Visits, u \in rows : UnderWay(v) /\ ~ repeat[v] => ~ SameVisitor(u, v)
    /\ \A u, v \in rows : SameVisitor(u, v) /\ ~ repeat[u] /\ ~ repeat[v] => u = v

FirstInv == CountInv /\ Grounded /\ Unrivalled

LEMMA FirstInit == Init => FirstInv
BY CountInit DEF Init, FirstInv, Grounded, Unrivalled, UnderWay, SameVisitor

LEMMA FirstRedirect ==
  ASSUME FirstInv, NEW v \in Visits, Redirect(v) \/ RollBack(v)
  PROVE  Grounded' /\ Unrivalled'
<1> USE DEF FirstInv, CountInv, SameVisitor
<1>0. /\ \A u \in Visits : u # v => visit'[u] = visit[u] /\ repeat'[u] = repeat[u]
      /\ rows = {u \in Visits : visit[u] = "done"}
      /\ v \notin rows
  BY DEF Redirect, CheckPrior, ReadTotal, ReadNothing, CommitVisit, RollBack, Goes, UnderWay, TypeOK
<1>1. CASE CheckPrior(v)
  <2>1. /\ rows' = rows /\ visit[v] = "new" /\ visit'[v] = "checked"
        /\ repeat'[v] = \E u \in rows : SameVisitor(u, v)
        /\ ~ overlapped' => ~ overlapped /\ \A u \in Visits : ~ UnderWay(u)
    BY <1>1 DEF CheckPrior, Goes, TypeOK
  <2>2. \A u \in rows : \E w \in rows : SameVisitor(u, w) /\ ~ repeat[w]
    BY DEF Grounded, TypeOK
  <2>3. \A u \in rows : u \in Visits /\ u # v /\ repeat'[u] = repeat[u]
    BY <1>0
  <2>4. Grounded'
    <3> SUFFICES ASSUME NEW x \in Visits, (UnderWay(x) \/ x \in rows)', repeat'[x]
                 PROVE  \E u \in rows' : SameVisitor(u, x) /\ ~ repeat'[u]
      BY DEF Grounded
    <3>1. CASE x = v
      <4>1. PICK u \in rows : SameVisitor(u, v)
        BY <2>1, <3>1
      <4> QED
        BY <2>1, <2>2, <2>3, <3>1, <4>1
    <3>2. CASE x # v
      <4>1. (UnderWay(x) \/ x \in rows) /\ repeat[x]
        BY <1>0, <2>1, <3>2 DEF UnderWay
      <4> QED
        BY <2>1, <2>3, <4>1 DEF Grounded
    <3> QED
      BY <3>1, <3>2
  <2>5. Unrivalled'
    <3> SUFFICES ASSUME ~ overlapped'
                 PROVE  /\ \A x \in Visits, u \in rows' :
                             UnderWay(x)' /\ ~ repeat'[x] => ~ SameVisitor(u, x)
                        /\ \A u, x \in rows' :
                             SameVisitor(u, x) /\ ~ repeat'[u] /\ ~ repeat'[x] => u = x
      BY DEF Unrivalled
    <3>1. \A x \in Visits : UnderWay(x)' => x = v
      BY <1>0, <2>1 DEF UnderWay
    <3>2. \A u \in rows : ~ repeat'[v] => ~ SameVisitor(u, v)
      BY <2>1
    <3>3. \A u, x \in rows : SameVisitor(u, x) /\ ~ repeat[u] /\ ~ repeat[x] => u = x
      BY <2>1 DEF Unrivalled
    <3> QED
      BY <2>1, <2>3, <3>1, <3>2, <3>3
  <2> QED
    BY <2>4, <2>5
<1>2. CASE ReadTotal(v)
  <2>1. rows' = rows /\ repeat' = repeat /\ overlapped' = overlapped /\ UnderWay(v)
    BY <1>2 DEF ReadTotal, Goes, UnderWay, history
  <2> QED
    BY <1>0, <2>1 DEF Grounded, Unrivalled, UnderWay
<1>3. CASE CommitVisit(v)
  <2>1. /\ rows' = rows \cup {v} /\ repeat' = repeat /\ overlapped' = overlapped
        /\ UnderWay(v) /\ ~ UnderWay(v)'
    BY <1>3 DEF CommitVisit, Goes, UnderWay, TypeOK
  <2>2. Grounded'
    BY <1>0, <2>1 DEF Grounded, UnderWay
  <2>3. Unrivalled'
    BY <1>0, <2>1 DEF Unrivalled, Exact, UnderWay
  <2> QED
    BY <2>2, <2>3
<1>4. CASE RollBack(v)
  <2>1. rows' = rows /\ overlapped' = overlapped /\ ~ UnderWay(v)' /\ ~ repeat'[v]
    BY <1>4 DEF RollBack, UnderWay, TypeOK, history
  <2> QED
    BY <1>0, <2>1 DEF Grounded, Unrivalled, UnderWay
<1>5. CASE ReadNothing(v)
  <2>1. rows' = rows /\ repeat' = repeat /\ overlapped' = overlapped /\ UnderWay(v)
    BY <1>5 DEF ReadNothing, Goes, UnderWay, history
  <2> QED
    BY <1>0, <2>1 DEF Grounded, Unrivalled, UnderWay
<1> QED
  BY <1>1, <1>2, <1>3, <1>4, <1>5 DEF Redirect

LEMMA FirstStep == FirstInv /\ [Next]_vars => FirstInv'
<1> SUFFICES ASSUME FirstInv, [Next]_vars PROVE Grounded' /\ Unrivalled'
  BY CountStep DEF FirstInv
<1>0. TypeOK
  BY DEF FirstInv, CountInv
<1>1. ASSUME NEW v \in Visits, Redirect(v) \/ RollBack(v) PROVE Grounded' /\ Unrivalled'
  BY <1>1, FirstRedirect
<1>2. CASE UNCHANGED <<visit, repeat, rows, overlapped>>
  BY <1>2 DEF FirstInv, Grounded, Unrivalled, UnderWay
<1>3. ASSUME NEW r \in Readers, GetAnalytics(r) \/ RequestFails(r)
      PROVE  UNCHANGED <<server, overlapped>>
  BY <1>0, <1>3, TypeReader
<1>4. PageStep => UNCHANGED <<server, overlapped>>
  BY <1>0, TypePage
<1>5. UNCHANGED vars \/ DeleteLink => UNCHANGED <<visit, repeat, rows, overlapped>>
  BY DEF vars, server, history, DeleteLink
<1> QED
  BY <1>1, <1>2, <1>3, <1>4, <1>5 DEF Next, PageStep, server

\* Of the clicks of a visitor one is not a repeat, and exactly one while no two redirects
\* overlap (has_prior_click, repositories/click.py:51, before the insert).
THEOREM FirstClickIsFirst == Spec => []FirstClickIsNew
<1>1. ASSUME FirstInv PROVE FirstClickIsNew
  <2> SUFFICES ASSUME NEW v \in rows
               PROVE  LET new == {u \in rows : SameVisitor(u, v) /\ ~ repeat[u]}
                      IN  new # {} /\ (~ overlapped => Cardinality(new) = 1)
    BY DEF FirstClickIsNew, SameVisitor
  <2> DEFINE new == {u \in rows : SameVisitor(u, v) /\ ~ repeat[u]}
  <2>1. PICK u \in rows : SameVisitor(u, v) /\ ~ repeat[u]
    BY <1>1 DEF FirstInv, CountInv, TypeOK, Grounded, SameVisitor
  <2>2. ~ overlapped => new = {u}
    BY <1>1, <2>1 DEF FirstInv, Unrivalled, SameVisitor
  <2>3. Cardinality({u}) = 1
    BY FS_Singleton
  <2> QED
    BY <2>1, <2>2, <2>3
<1> QED
  BY <1>1, FirstInit, FirstStep, PTL DEF Spec

\* ------------------------------------------------------------------ figures
\* What is known of a total and the clicks that were aggregated for it, wherever the two
\* are: with a request, in Redis, or on a page.
Exactly == ~ raced /\ ~ overlapped

Real(n, seen) ==
  /\ n <= Cardinality(rows)
  /\ seen \subseteq rows
  /\ Exactly => n = Cardinality(seen)

RealSummary(s) == s # None => Real(s.total, s.seen)

RealRequests ==
  \A r \in Readers :
    /\ request[r].at = "missed" => /\ request[r].total <= Cardinality(rows)
                                   /\ Exactly => request[r].total = Cardinality(rows)
    /\ request[r].at = "counted" => Real(request[r].total, request[r].seen)

RealChart == chart # None => chart.seen \subseteq InWindow(page.days)

SeenInv ==
  CountInv /\ RealSummary(summary) /\ RealSummary(figures.data) /\ RealRequests /\ RealChart

LEMMA SeenInit == Init => SeenInv
BY CountInit DEF Init, SeenInv, RealSummary, RealRequests, RealChart, NoRequest

LEMMA SeenRedirect ==
  ASSUME SeenInv, NEW v \in Visits, Redirect(v) \/ RollBack(v)
  PROVE  SeenInv'
<1>0. TypeOK /\ CountInv /\ CountInv'
  BY CountCheckPrior, CountReadTotal, CountReadNothing, CountCommitVisit, CountRollBack
     DEF SeenInv, CountInv, Redirect
<1>1. /\ rows \subseteq rows' /\ UNCHANGED <<summary, request, page, figures, chart>>
      /\ Exactly' => Exactly
  <2>1. rows \subseteq rows' /\ UNCHANGED <<summary, request, page, figures, chart>>
    BY DEF Redirect, CheckPrior, ReadTotal, ReadNothing, CommitVisit, RollBack, browser
  <2>2. raced => raced'
    BY <1>0 DEF Redirect, CheckPrior, ReadTotal, ReadNothing, CommitVisit, RollBack, history, TypeOK
  <2>3. overlapped => overlapped'
    BY <1>0 DEF Redirect, CheckPrior, ReadTotal, ReadNothing, CommitVisit, RollBack, history, TypeOK
  <2> QED
    BY <2>1, <2>2, <2>3 DEF Exactly
<1>2. rows' # rows /\ Exactly' => \A r \in Readers : request[r].at # "missed"
  BY DEF Redirect, CheckPrior, ReadTotal, ReadNothing, CommitVisit, RollBack, Exactly
<1>3. /\ Cardinality(rows) \in Nat /\ Cardinality(rows') \in Nat
      /\ Cardinality(rows) <= Cardinality(rows')
  <2>1. IsFiniteSet(rows')
    <3>1. rows' \subseteq Visits
      BY <1>0 DEF CountInv, TypeOK
    <3> QED
      BY <3>1, FS_Subset
  <2> QED
    BY <1>1, <2>1, FS_Subset, FS_CardinalityType
<1>4. ASSUME NEW n \in Totals, NEW seen, Real(n, seen)
      PROVE  /\ n <= Cardinality(rows') /\ seen \subseteq rows'
             /\ Exactly' => n = Cardinality(seen)
  <2>1. n \in Nat
    BY RowsFinite, <1>0 DEF Totals
  <2> QED
    BY <1>1, <1>3, <1>4, <2>1 DEF Real
<1>5. RealSummary(summary)' /\ RealSummary(figures.data)'
  BY <1>0, <1>1, <1>4 DEF SeenInv, RealSummary, Real, Summary, TypeOK
<1>6. RealRequests'
  <2> SUFFICES ASSUME NEW r \in Readers
               PROVE  /\ request[r].at = "missed" =>
                           /\ request[r].total <= Cardinality(rows')
                           /\ Exactly' => request[r].total = Cardinality(rows')
                      /\ request[r].at = "counted" =>
                           /\ request[r].total <= Cardinality(rows')
                           /\ request[r].seen \subseteq rows'
                           /\ Exactly' => request[r].total = Cardinality(request[r].seen)
    BY <1>1 DEF RealRequests, Real
  <2>1. request[r].total \in Totals /\ request[r].total \in Nat
    BY <1>0, RowsFinite DEF TypeOK, Request, Totals
  <2>2. CASE request[r].at = "missed"
    BY <1>1, <1>2, <1>3, <2>1, <2>2 DEF SeenInv, RealRequests
  <2>3. CASE request[r].at = "counted"
    BY <1>4, <2>1, <2>3 DEF SeenInv, RealRequests
  <2> QED
    BY <2>2, <2>3
<1>7. RealChart'
  BY <1>1 DEF SeenInv, RealChart, InWindow
<1> QED
  BY <1>0, <1>5, <1>6, <1>7 DEF SeenInv

LEMMA SeenAnswer ==
  ASSUME SeenInv, NEW r \in Readers, NEW s \in Summary, RealSummary(s), Answer(r, s),
         summary' \in {summary, s}, UNCHANGED history
  PROVE  RealSummary(summary)' /\ RealSummary(figures.data)' /\ RealRequests' /\ RealChart'
<1>1. UNCHANGED <<rows, page, chart, raced, overlapped>>
  BY DEF Answer, server, history
<1>2. figures'.data \in {s, figures.data}
  BY DEF Answer
<1>3. \A q \in Readers : request'[q] = request[q] \/ request'[q].at = "idle"
  BY DEF Answer, NoRequest, SeenInv, CountInv, TypeOK
<1>4. RealSummary(summary)' /\ RealSummary(figures.data)'
  BY <1>1, <1>2 DEF SeenInv, RealSummary, Real, Exactly
<1>5. RealRequests'
  BY <1>1, <1>3 DEF SeenInv, RealRequests, Real, Exactly
<1>6. RealChart'
  BY <1>1 DEF SeenInv, RealChart, InWindow
<1> QED
  BY <1>4, <1>5, <1>6

LEMMA SeenReader ==
  ASSUME SeenInv, NEW r \in Readers, GetAnalytics(r) \/ RequestFails(r)
  PROVE  SeenInv'
<1>0. /\ TypeOK /\ request[r] \in Request /\ UNCHANGED <<server, overlapped>> /\ CountInv'
  BY TypeReader, CountUntouched DEF SeenInv, CountInv, TypeOK
<1>1. UNCHANGED <<rows, overlapped>>
  BY <1>0 DEF server
<1>2. CASE LookupHit(r)
  <2>1. summary \in Summary /\ RealSummary(summary) /\ Answer(r, summary)
        /\ summary' = summary /\ UNCHANGED history
    BY <1>0, <1>2 DEF LookupHit, TypeOK, SeenInv
  <2> QED
    BY <1>0, <2>1, SeenAnswer DEF SeenInv
<1>3. CASE LookupMiss(r)
  <2>1. /\ UNCHANGED <<rows, summary, page, figures, chart, overlapped>>
        /\ Exactly' => Exactly /\ ~ deleted
    BY <1>3 DEF LookupMiss, server, browser, Exactly
  <2>2. /\ request'[r].at = "missed" /\ request'[r].total = total
        /\ \A q \in Readers : q # r => request'[q] = request[q]
    BY <1>0, <1>3 DEF LookupMiss, TypeOK, Request
  <2>3. total <= Cardinality(rows) /\ (~ overlapped => total = Cardinality(rows))
    BY <1>3 DEF LookupMiss, SeenInv, CountInv, Bounded, Exact
  <2>4. RealSummary(summary)' /\ RealSummary(figures.data)' /\ RealChart'
    BY <2>1 DEF SeenInv, RealSummary, Real, RealChart, InWindow
  <2>5. RealRequests'
    BY <2>1, <2>2, <2>3 DEF SeenInv, RealRequests, Real, Exactly
  <2> QED
    BY <1>0, <2>4, <2>5 DEF SeenInv
<1>4. CASE Aggregate(r)
  <2>1. UNCHANGED <<rows, summary, page, figures, chart, overlapped, raced>>
    BY <1>4 DEF Aggregate, server, browser, history
  <2>2. /\ request[r].at = "missed"
        /\ request'[r].at = "counted" /\ request'[r].total = request[r].total
        /\ request'[r].seen = rows
        /\ \A q \in Readers : q # r => request'[q] = request[q]
    BY <1>0, <1>4 DEF Aggregate, TypeOK, Request
  <2>3. RealSummary(summary)' /\ RealSummary(figures.data)' /\ RealChart'
    BY <2>1 DEF SeenInv, RealSummary, Real, RealChart, InWindow, Exactly
  <2>4. RealRequests'
    BY <2>1, <2>2 DEF SeenInv, RealRequests, Real, Exactly
  <2> QED
    BY <1>0, <2>3, <2>4 DEF SeenInv
<1>5. CASE Remember(r)
  <2> DEFINE s == [total |-> request[r].total, seen |-> request[r].seen]
  <2>1. s \in Summary
    BY <1>0 DEF Request, Summary
  <2>2. RealSummary(s)
    BY <1>5 DEF SeenInv, RealRequests, Remember, RealSummary
  <2>3. summary' \in {summary, s} /\ Answer(r, s) /\ UNCHANGED history
    BY <1>5 DEF Remember
  <2> QED
    BY <1>0, <2>1, <2>2, <2>3, SeenAnswer DEF SeenInv
<1>6. CASE RequestFails(r)
  <2>1. /\ UNCHANGED <<rows, summary, page, chart, overlapped, raced>>
        /\ figures'.data = figures.data
        /\ \A q \in Readers : request'[q] = request[q] \/ request'[q].at = "idle"
    BY <1>0, <1>6 DEF RequestFails, server, history, NoRequest, TypeOK
  <2>2. RealSummary(summary)' /\ RealSummary(figures.data)' /\ RealChart'
    BY <2>1 DEF SeenInv, RealSummary, Real, RealChart, InWindow, Exactly
  <2>3. RealRequests'
    BY <2>1 DEF SeenInv, RealRequests, Real, Exactly
  <2> QED
    BY <1>0, <2>2, <2>3 DEF SeenInv
<1> QED
  BY <1>2, <1>3, <1>4, <1>5, <1>6 DEF GetAnalytics

LEMMA SeenPage ==
  ASSUME SeenInv, PageStep
  PROVE  SeenInv'
<1>0. TypeOK /\ UNCHANGED <<server, overlapped>> /\ CountInv'
  BY TypePage, CountUntouched DEF SeenInv, CountInv
<1>1. /\ UNCHANGED <<rows, overlapped, raced>>
      /\ summary' \in {summary, None} /\ figures'.data \in {figures.data, None}
      /\ \A q \in Readers : request'[q] = request[q] \/ request'[q].at = "asked"
  <2>1. Here \in Readers
    BY DEF Readers
  <2>2. ObserveSummary => /\ figures'.data = figures.data
                          /\ \A q \in Readers : request'[q] = request[q]
                                              \/ request'[q].at = "asked"
    BY <1>0, <2>1 DEF ObserveSummary, TypeOK, Request
  <2> QED
    BY <1>0, <2>2 DEF PageStep, Expire, Visit, SetDays, SeriesAnswered, Focus, Leave, Evict,
                      server, browser, history
<1>2. RealSummary(summary)' /\ RealSummary(figures.data)'
  BY <1>1 DEF SeenInv, RealSummary, Real, Exactly
<1>3. RealRequests'
  BY <1>1 DEF SeenInv, RealRequests, Real, Exactly
<1>4. RealChart'
  <2>1. \/ chart' = None
        \/ chart' = chart /\ page'.days = page.days
        \/ chart'.seen = InWindow(page.days) /\ page' = page
    BY <1>0 DEF PageStep, Expire, Visit, SetDays, SeriesAnswered, Focus, Leave, Evict,
                ObserveSeries, browser, TypeOK
  <2> QED
    BY <1>1, <2>1 DEF SeenInv, RealChart, InWindow
<1> QED
  BY <1>0, <1>2, <1>3, <1>4 DEF SeenInv

LEMMA SeenStep == SeenInv /\ [Next]_vars => SeenInv'
<1> SUFFICES ASSUME SeenInv, [Next]_vars PROVE SeenInv'
  OBVIOUS
<1>1. CASE UNCHANGED vars
  <2>1. CountInv'
    BY CountStep DEF SeenInv
  <2>2. UNCHANGED <<rows, summary, request, page, figures, chart, overlapped, raced>>
    BY <1>1 DEF vars, server, browser, history
  <2> QED
    BY <2>1, <2>2 DEF SeenInv, RealSummary, RealRequests, RealChart, Real, Exactly, InWindow
<1>2. CASE DeleteLink
  <2>1. CountInv'
    BY CountStep DEF SeenInv, Next
  <2>2. UNCHANGED <<rows, summary, request, page, figures, chart, overlapped, raced>>
    BY <1>2 DEF DeleteLink, browser, history
  <2> QED
    BY <2>1, <2>2 DEF SeenInv, RealSummary, RealRequests, RealChart, Real, Exactly, InWindow
<1> QED
  BY <1>1, <1>2, SeenRedirect, SeenReader, SeenPage DEF Next, PageStep

\* No more visitors than clicks
LEMMA VisitorsBounded ==
  ASSUME TypeOK, NEW seen, seen \subseteq rows
  PROVE  /\ Cardinality({VisitorOf[v] : v \in seen}) \in Nat /\ Cardinality(seen) \in Nat
         /\ Cardinality({VisitorOf[v] : v \in seen}) <= Cardinality(seen)
<1> DEFINE who == {VisitorOf[v] : v \in seen}
           f == [v \in seen |-> VisitorOf[v]]
<1>1. IsFiniteSet(seen)
  BY RowsFinite, FS_Subset
<1>2. f \in Surjection(seen, who)
  BY DEF Surjection
<1>3. IsFiniteSet(who) /\ Cardinality(who) <= Cardinality(seen)
  BY <1>1, <1>2, FS_Surjection
<1> QED
  BY <1>1, <1>3, FS_CardinalityType

\* The pages count no click that is not there and chart those of their window; they have no
\* more visitors than clicks as long as no click came between the two reads of a summary
\* and none was lost to the counter (analytics.py:124 and api/v1/analytics.py:38).
THEOREM FiguresAlwaysReal == Spec => []FiguresAreReal
<1>1. ASSUME SeenInv PROVE FiguresAreReal
  <2>1. TypeOK
    BY <1>1 DEF SeenInv, CountInv
  <2>2. TotalClicks <= Cardinality(rows) /\ (Exactly => UniqueVisitors <= TotalClicks)
    <3>1. CASE figures.data = None
      BY <2>1, <3>1, RowsFinite DEF TotalClicks, UniqueVisitors
    <3>2. CASE figures.data # None
      <4>1. Real(figures.data.total, figures.data.seen)
        BY <1>1, <3>2 DEF SeenInv, RealSummary
      <4> QED
        BY <2>1, <3>2, <4>1, VisitorsBounded DEF Real, TotalClicks, UniqueVisitors
    <3> QED
      BY <3>1, <3>2
  <2>3. Chart \subseteq InWindow(page.days)
    BY <1>1 DEF Chart, SeenInv, RealChart
  <2> QED
    BY <2>2, <2>3 DEF FiguresAreReal, Exactly
<1> QED
  BY <1>1, SeenInit, SeenStep, PTL DEF Spec

\* ------------------------------------------------------------- no way back
\* While no two summaries were built at once and none was built over another, one request
\* at most builds one, nothing is cached meanwhile, and each of what the page shows, what
\* Redis has and what is being built is no less than the one before.
Builds(r) == request[r].at \in {"missed", "counted"}

Ordered ==
  Exactly =>
    /\ \A q, r \in Readers : Builds(q) /\ Builds(r) => q = r
    /\ \A r \in Readers : Builds(r) =>
         summary = None /\ (figures.data # None => figures.data.total <= request[r].total)
    /\ figures.data # None /\ summary # None => figures.data.total <= summary.total

LEMMA OrderedInit == Init => Ordered
BY DEF Init, Ordered, Builds, NoRequest

\* Nothing of it changes, but requests and cached data that go away.
LEMMA OrderedLess ==
  ASSUME Ordered, Exactly' => Exactly, summary' \in {summary, None},
         figures'.data \in {figures.data, None},
         \A r \in Readers : Builds(r)' => Builds(r) /\ request'[r].total = request[r].total
  PROVE  Ordered'
BY DEF Ordered

LEMMA OrderedReader ==
  ASSUME SeenInv, Ordered, NEW r \in Readers, GetAnalytics(r) \/ RequestFails(r)
  PROVE  Ordered'
<1>0. TypeOK /\ request[r] \in Request
  BY DEF SeenInv, CountInv, TypeOK
<1>1. ASSUME NEW s, Answer(r, s)
      PROVE  /\ ~ Builds(r)'
             /\ \A q \in Readers : q # r => request'[q] = request[q]
             /\ figures'.data \in {figures.data, s}
  BY <1>0, <1>1 DEF Answer, NoRequest, Builds, TypeOK
<1>2. CASE LookupHit(r)
  <2>1. /\ summary # None /\ summary' = summary /\ (Exactly' <=> Exactly)
        /\ ~ Builds(r)' /\ \A q \in Readers : q # r => request'[q] = request[q]
        /\ figures'.data \in {figures.data, summary}
    BY <1>1, <1>2 DEF LookupHit, Answer, Exactly, history
  <2>2. summary.total <= summary.total
    BY <1>0, <2>1, RowsFinite DEF TypeOK, Summary, Totals
  <2> QED
    BY <2>1, <2>2 DEF Ordered, Builds
<1>3. CASE LookupMiss(r)
  <2>1. /\ UNCHANGED <<summary, figures>>
        /\ Exactly' => Exactly /\ summary = None /\ \A q \in Readers : ~ Builds(q)
        /\ request'[r].total = total
        /\ \A q \in Readers : q # r => request'[q] = request[q]
    BY <1>0, <1>3 DEF LookupMiss, browser, Exactly, Builds, TypeOK, Request
  <2>2. Exactly /\ figures.data # None => figures.data.total <= total
    BY <1>3 DEF LookupMiss, SeenInv, RealSummary, Real, CountInv, Exact, Exactly
  <2> QED
    BY <2>1, <2>2 DEF Ordered, Builds
<1>4. CASE Aggregate(r)
  <2>1. /\ UNCHANGED <<summary, figures, raced, overlapped>>
        /\ Builds(r) /\ request'[r].total = request[r].total
        /\ \A q \in Readers : q # r => request'[q] = request[q]
    BY <1>0, <1>4 DEF Aggregate, browser, history, Builds, TypeOK, Request
  <2> QED
    BY <2>1, OrderedLess DEF Exactly, Builds
<1>5. CASE Remember(r)
  <2> DEFINE s == [total |-> request[r].total, seen |-> request[r].seen]
  <2>1. /\ Builds(r) /\ summary' \in {summary, s} /\ (Exactly' <=> Exactly)
        /\ ~ Builds(r)' /\ \A q \in Readers : q # r => request'[q] = request[q]
        /\ figures'.data \in {figures.data, s}
    BY <1>1, <1>5 DEF Remember, Answer, Builds, Exactly, history
  <2>2. s.total = request[r].total /\ s.total <= s.total
    BY <1>0, RowsFinite DEF Request, Totals
  <2> HIDE DEF s
  <2> QED
    BY <2>1, <2>2 DEF Ordered, Builds
<1>6. CASE RequestFails(r)
  <2>1. /\ UNCHANGED <<summary, raced, overlapped>> /\ figures'.data = figures.data
        /\ ~ Builds(r)' /\ \A q \in Readers : q # r => request'[q] = request[q]
    BY <1>0, <1>6 DEF RequestFails, history, NoRequest, Builds, TypeOK
  <2> QED
    BY <2>1, OrderedLess DEF Exactly, Builds
<1> QED
  BY <1>2, <1>3, <1>4, <1>5, <1>6 DEF GetAnalytics

LEMMA OrderedStep == SeenInv /\ Ordered /\ [Next]_vars => Ordered'
<1> SUFFICES ASSUME SeenInv, Ordered, [Next]_vars PROVE Ordered'
  OBVIOUS
<1>0. TypeOK
  BY DEF SeenInv, CountInv
<1>1. ASSUME NEW v \in Visits, Redirect(v) \/ RollBack(v) PROVE Ordered'
  <2>1. UNCHANGED <<summary, request, figures>> /\ (Exactly' => Exactly)
    BY <1>0, <1>1 DEF Redirect, CheckPrior, ReadTotal, ReadNothing, CommitVisit, RollBack, browser, history,
                      Exactly, TypeOK
  <2> QED
    BY <2>1, OrderedLess DEF Builds
<1>2. CASE PageStep
  <2>1. Here \in Readers
    BY DEF Readers
  <2>2. ObserveSummary => /\ figures'.data = figures.data
                          /\ \A q \in Readers : request'[q] = request[q] \/ ~ Builds(q)'
    BY <1>0, <2>1 DEF ObserveSummary, TypeOK, Request, Builds
  <2>3. /\ UNCHANGED <<raced, overlapped>> /\ summary' \in {summary, None}
        /\ figures'.data \in {figures.data, None}
        /\ \A q \in Readers : request'[q] = request[q] \/ ~ Builds(q)'
    BY <1>2, <2>2 DEF PageStep, Expire, Visit, SetDays, SeriesAnswered, Focus, Leave, Evict,
                      browser, history
  <2> QED
    BY <2>3, OrderedLess DEF Exactly, Builds
<1>3. CASE UNCHANGED vars \/ DeleteLink
  <2>1. UNCHANGED <<summary, request, figures, raced, overlapped>>
    BY <1>3 DEF vars, DeleteLink, browser, history
  <2> QED
    BY <2>1, OrderedLess DEF Exactly, Builds
<1> QED
  BY <1>1, <1>2, <1>3, OrderedReader DEF Next, PageStep

\* A step of a page that stays, or of anyone else
LEMMA NoStepBack ==
  ASSUME SeenInv, Ordered, [Next]_vars,
         FiguresShown, FiguresShown', ~ overlapped', ~ raced'
  PROVE  TotalClicks' >= TotalClicks
<1>0. /\ TypeOK /\ SeenInv' /\ page.name # "none"
      /\ \A s \in Summary : s.total \in Nat
  BY SeenStep, RowsFinite DEF SeenInv, CountInv, FiguresShown, PublicShown, DashboardShown,
     Summary, Totals
<1>1. TotalClicks' \in Nat /\ TotalClicks \in Nat
  BY <1>0 DEF SeenInv, CountInv, TypeOK, TotalClicks
<1>2. CASE figures.data = None
  BY <1>1, <1>2 DEF TotalClicks
<1>3. CASE figures'.data = figures.data
  BY <1>1, <1>3 DEF TotalClicks
<1>4. CASE figures.data # None /\ figures'.data # figures.data
  <2>1. ~ \E v \in Visits : Redirect(v) \/ RollBack(v)
    BY <1>4 DEF Redirect, CheckPrior, ReadTotal, ReadNothing, CommitVisit, RollBack, browser
  <2>2. ~ PageStep /\ ~ DeleteLink /\ ~ UNCHANGED vars
    BY <1>0, <1>4 DEF PageStep, DeleteLink, Expire, Visit, SetDays, SeriesAnswered, Focus, Leave, Evict,
                      ObserveSummary, TypeOK, browser, vars
  <2>3. PICK r \in Readers : GetAnalytics(r) \/ RequestFails(r)
    BY <2>1, <2>2 DEF Next, PageStep
  <2>4. CASE LookupHit(r)
    <3>1. figures'.data = summary /\ summary # None /\ Exactly
      BY <1>4, <2>4 DEF LookupHit, Answer, Exactly, history
    <3> QED
      BY <1>4, <3>1 DEF Ordered, TotalClicks
  <2>5. CASE Remember(r)
    <3>1. /\ figures'.data = [total |-> request[r].total, seen |-> request[r].seen]
          /\ Builds(r) /\ Exactly
      BY <1>4, <2>5 DEF Remember, Answer, Builds, Exactly, history
    <3>2. figures.data.total <= figures'.data.total /\ figures'.data # None
      BY <1>0, <1>4, <3>1 DEF Ordered, TypeOK, Request, Summary
    <3> QED
      BY <1>1, <1>4, <3>2 DEF TotalClicks
  <2>6. ~ LookupMiss(r) /\ ~ Aggregate(r) /\ ~ RequestFails(r)
    BY <1>0, <1>4 DEF LookupMiss, Aggregate, RequestFails, browser, TypeOK
  <2> QED
    BY <2>3, <2>4, <2>5, <2>6 DEF GetAnalytics
<1> QED
  BY <1>2, <1>3, <1>4

\* The total a page shows does not go down while the page stays, unless two redirects lost
\* a click or two summaries were built at once (analytics.py:122 and :160).
THEOREM TotalNeverGoesDown == Spec => TotalNeverShrinks
<1>1. SeenInv /\ Ordered /\ [Next]_vars =>
        [FiguresShown /\ FiguresShown' /\ ~ overlapped' /\ ~ raced'
           => TotalClicks' >= TotalClicks]_vars
  BY NoStepBack
<1> QED
  BY <1>1, SeenInit, SeenStep, OrderedInit, OrderedStep, PTL DEF Spec, TotalNeverShrinks
=============================================================================

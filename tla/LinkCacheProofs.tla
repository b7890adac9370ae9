-------------------------- MODULE LinkCacheProofs ---------------------------
(***************************************************************************)
(* Theorems about LinkCache for every number of creates, writes, redirects *)
(* and cleanups, and every pattern of faults.                              *)
(***************************************************************************)
EXTENDS LinkCache, TLAPS

Busy == {"checked", "flushed", "cached", "published"}

\* What the stage of a request presupposes: a write found a row and knows what it
\* was asked, a cleanup found a row, a reader past the lookup holds an entry.
Prepared ==
  /\ \A q \in Writers \cup Cleaners : pc[q] \in Busy => row # NoRow
  /\ \A w \in Writers : pc[w] \in Busy => op[w] \in Ops
  /\ \A r \in Readers : pc[r] \in {"loaded", "found"} => read[r] \in Cached

\* The target of an entry is the one its create set, or a committed one.
Grounded(e) == e.target = e.id \/ e.target \in committed

\* The row and its first target are committed; entries, wherever they are, are
\* grounded; so an entry that refers to the row has a committed target.
GroundedInv ==
  /\ row # NoRow => row.id \in committed /\ row.target \in committed
  /\ cache # Miss => Grounded(cache)
  /\ \A r \in Readers : pc[r] \in {"loaded", "found"} => Grounded(read[r])
  /\ RedirectsOnlyCommitted

IInv == TypeOK /\ Prepared /\ GroundedInv

LEMMA InvInit == ConstantsAssumption /\ Init => IInv
<1> SUFFICES ASSUME ConstantsAssumption, Init
             PROVE  IInv
  OBVIOUS
<1>1. TypeOK
  BY DEF Init, TypeOK, Requests, Stage, Answer, Targets
<1>2. Prepared
  BY DEF Init, Prepared, Busy, Requests
<1>3. GroundedInv
  BY DEF Init, GroundedInv, RedirectsOnlyCommitted, Requests, ConstantsAssumption, Answer
<1> QED
  BY <1>1, <1>2, <1>3 DEF IInv

LEMMA NewRowIsRow ==
  ASSUME ConstantsAssumption, NEW c \in Creators
  PROVE  /\ NewRow(c) \in Row /\ NewRow(c).id = c /\ NewRow(c).target = c
         /\ EntryOf(NewRow(c)) \in Cached
         /\ EntryOf(NewRow(c)).target = EntryOf(NewRow(c)).id
BY DEF NewRow, Row, EntryOf, Cached, ConstantsAssumption, Targets

LEMMA EntryOfRow ==
  ASSUME NEW r \in Row
  PROVE  /\ EntryOf(r) \in Cached
         /\ EntryOf(r).id = r.id
         /\ EntryOf(r).target = r.target
BY DEF EntryOf, Row, Cached

\* A write changes a row into a row of the same link; its target stays or is the
\* write's own.
LEMMA ApplyIsRow ==
  ASSUME NEW w \in Writers, NEW r \in Row
  PROVE  /\ Apply(w, r) \in Row
         /\ Apply(w, r).id = r.id
         /\ Apply(w, r).target \in Targets
BY DEF Apply, Row, Targets

-----------------------------------------------------------------------------
LEMMA InvCreate ==
  ASSUME ConstantsAssumption, IInv, NEW c \in Creators, Create(c)
  PROVE  IInv'
<1> USE DEF IInv, jobs, history, Goto
<1>0. /\ c \in Requests
      /\ \A q \in Requests : q # c => pc'[q] = pc[q]
      /\ \A r \in Readers \cup Writers \cup Cleaners : r # c /\ r \in Requests
  <2>1. \A r \in Readers \cup Writers \cup Cleaners : r # c /\ r \in Requests
    BY DEF Requests, Targets, ConstantsAssumption
  <2>2. c \in Requests /\ pc \in [Requests -> Stage]
    BY DEF Requests, TypeOK
  <2>3. \A q \in Requests : q # c => pc'[q] = pc[q]
    BY <2>2 DEF Create, CheckAlias, FlushCreate, CacheCreate, PublishCreated, CommitCreate
  <2> QED
    BY <2>1, <2>2, <2>3
<1>1. CASE CheckAlias(c)
  <2>1. TypeOK'
    <3>1. pc' \in [Requests -> Stage]
      <4>1. pc' = [pc EXCEPT ![c] = "refused"] \/ pc' = [pc EXCEPT ![c] = "checked"]
        BY <1>1 DEF CheckAlias
      <4> QED
        BY <4>1 DEF TypeOK, Stage
    <3>2. answer' \in [Creators \cup Readers -> Answer \cup Targets]
      BY <1>1 DEF CheckAlias, TypeOK, Answer
    <3> QED
      BY <1>1, <3>1, <3>2 DEF CheckAlias, TypeOK
  <2>2. Prepared' /\ GroundedInv'
    BY <1>0, <1>1 DEF CheckAlias, TypeOK, Prepared, GroundedInv, Grounded, RedirectsOnlyCommitted
  <2> QED
    BY <2>1, <2>2
<1>2. CASE FlushCreate(c)
  <2>1. TypeOK'
    <3>1. pc' \in [Requests -> Stage]
      <4>1. pc' = [pc EXCEPT ![c] = "refused"] \/ pc' = [pc EXCEPT ![c] = "flushed"]
        BY <1>2 DEF FlushCreate
      <4> QED
        BY <4>1 DEF TypeOK, Stage
    <3>2. answer' \in [Creators \cup Readers -> Answer \cup Targets]
      BY <1>2 DEF FlushCreate, TypeOK, Answer
    <3>3. lock' \in Targets \cup {Free}
      BY <1>2 DEF FlushCreate, TypeOK, Targets
    <3> QED
      BY <1>2, <3>1, <3>2, <3>3 DEF FlushCreate, TypeOK
  <2>2. Prepared' /\ GroundedInv'
    BY <1>0, <1>2 DEF FlushCreate, TypeOK, Prepared, GroundedInv, Grounded, RedirectsOnlyCommitted
  <2> QED
    BY <2>1, <2>2
<1>3. CASE CacheCreate(c)
  <2>1. TypeOK'
    <3>1. pc' \in [Requests -> Stage]
      BY <1>0, <1>3 DEF CacheCreate, TypeOK, Stage
    <3>2. cache' \in Cached \cup {Miss} /\ faults' \in Nat
      BY <1>3, NewRowIsRow DEF CacheCreate, CacheSet, Fault, TypeOK
    <3> QED
      BY <1>3, <3>1, <3>2 DEF CacheCreate, TypeOK
  <2>2. Prepared'
    BY <1>0, <1>3 DEF CacheCreate, TypeOK, Prepared
  <2>3. GroundedInv'
    BY <1>0, <1>3, NewRowIsRow
    DEF CacheCreate, CacheSet, TypeOK, GroundedInv, Grounded, RedirectsOnlyCommitted
  <2> QED
    BY <2>1, <2>2, <2>3
<1>4. CASE PublishCreated(c)
  <2>1. TypeOK'
    BY <1>0, <1>4 DEF PublishCreated, TypeOK, Stage
  <2>2. Prepared' /\ GroundedInv'
    BY <1>0, <1>4 DEF PublishCreated, TypeOK, Prepared, GroundedInv, Grounded, RedirectsOnlyCommitted
  <2> QED
    BY <2>1, <2>2
<1>5. CASE CommitCreate(c)
  <2>1. TypeOK'
    BY <1>0, <1>5, NewRowIsRow DEF CommitCreate, TypeOK, Stage, Answer, Targets
  <2>2. Prepared'
    BY <1>0, <1>5, NewRowIsRow DEF CommitCreate, TypeOK, Prepared, ConstantsAssumption
  <2>3. GroundedInv'
    BY <1>0, <1>5, NewRowIsRow
    DEF CommitCreate, TypeOK, GroundedInv, Grounded, RedirectsOnlyCommitted
  <2> QED
    BY <2>1, <2>2, <2>3
<1> QED
  BY <1>1, <1>2, <1>3, <1>4, <1>5 DEF Create

LEMMA InvWrite ==
  ASSUME ConstantsAssumption, IInv, NEW w \in Writers, Write(w)
  PROVE  IInv'
<1> USE DEF IInv, jobs, history, Goto
<1>0. /\ w \in Requests
      /\ \A q \in Requests : q # w => pc'[q] = pc[q]
      /\ \A q \in Readers \cup Cleaners : q # w /\ q \in Requests
      /\ Writers \subseteq Requests
  <2>1. \A q \in Readers \cup Cleaners : q # w /\ q \in Requests
    BY DEF Requests, Targets, ConstantsAssumption
  <2>2. w \in Requests /\ pc \in [Requests -> Stage]
    BY DEF Requests, TypeOK
  <2>3. \A q \in Requests : q # w => pc'[q] = pc[q]
    BY <2>2 DEF Write, ReadForWrite, FlushWrite, Uncache, PublishChanged, CommitWrite
  <2> QED
    BY <2>1, <2>2, <2>3 DEF Requests
<1>1. ASSUME NEW o \in Ops, ReadForWrite(w, o)
      PROVE  IInv'
  <2>1. TypeOK'
    <3>1. pc' \in [Requests -> Stage]
      <4>1. pc' = [pc EXCEPT ![w] = "refused"] \/ pc' = [pc EXCEPT ![w] = "checked"]
        BY <1>1 DEF ReadForWrite
      <4> QED
        BY <4>1 DEF TypeOK, Stage
    <3>2. op' \in [Writers -> Ops \cup {"none"}]
      BY <1>1 DEF ReadForWrite, TypeOK
    <3>3. read' \in [Writers \cup Readers -> Row \cup Cached \cup {Miss}]
      BY <1>1 DEF ReadForWrite, TypeOK, Visible
    <3> QED
      BY <1>1, <3>1, <3>2, <3>3 DEF ReadForWrite, TypeOK
  <2>2. \A r \in Readers : pc'[r] = pc[r] /\ read'[r] = read[r]
    BY <1>0, <1>1 DEF ReadForWrite, TypeOK
  <2>3. Prepared'
    <3>1. \A v \in Writers : pc'[v] \in Busy => op'[v] \in Ops
      BY <1>0, <1>1 DEF ReadForWrite, TypeOK, Prepared, Busy
    <3>2. \A q \in Writers \cup Cleaners : pc'[q] \in Busy => row' # NoRow
      BY <1>0, <1>1 DEF ReadForWrite, TypeOK, Prepared, Busy, Visible
    <3> QED
      BY <1>1, <2>2, <3>1, <3>2 DEF Prepared
  <2>4. GroundedInv'
    BY <1>1, <2>2 DEF ReadForWrite, GroundedInv, Grounded, RedirectsOnlyCommitted
  <2> QED
    BY <2>1, <2>3, <2>4
<1>2. CASE FlushWrite(w)
  <2>1. TypeOK'
    <3>1. pc' \in [Requests -> Stage]
      BY <1>0, <1>2 DEF FlushWrite, TypeOK, Stage
    <3>2. lock' \in Targets \cup {Free}
      BY <1>2 DEF FlushWrite, TypeOK, Targets
    <3> QED
      BY <1>2, <3>1, <3>2 DEF FlushWrite, TypeOK
  <2>2. Prepared' /\ GroundedInv'
    BY <1>0, <1>2 DEF FlushWrite, TypeOK, Prepared, Busy, GroundedInv, Grounded,
                      RedirectsOnlyCommitted
  <2> QED
    BY <2>1, <2>2
<1>3. CASE Uncache(w)
  <2>1. TypeOK'
    <3>1. pc' \in [Requests -> Stage]
      BY <1>0, <1>3 DEF Uncache, TypeOK, Stage
    <3>2. cache' \in Cached \cup {Miss} /\ faults' \in Nat
      BY <1>3 DEF Uncache, CacheSet, Fault, TypeOK
    <3> QED
      BY <1>3, <3>1, <3>2 DEF Uncache, TypeOK
  <2>2. Prepared'
    BY <1>0, <1>3 DEF Uncache, TypeOK, Prepared, Busy
  <2>3. GroundedInv'
    BY <1>0, <1>3 DEF Uncache, CacheSet, TypeOK, GroundedInv, Grounded, RedirectsOnlyCommitted
  <2> QED
    BY <2>1, <2>2, <2>3
<1>4. CASE PublishChanged(w)
  <2>1. TypeOK'
    <3>1. pc' \in [Requests -> Stage]
      BY <1>0, <1>4 DEF PublishChanged, TypeOK, Stage
    <3> QED
      BY <1>4, <3>1 DEF PublishChanged, TypeOK
  <2>2. Prepared' /\ GroundedInv'
    BY <1>0, <1>4 DEF PublishChanged, TypeOK, Prepared, Busy, GroundedInv, Grounded,
                      RedirectsOnlyCommitted
  <2> QED
    BY <2>1, <2>2
<1>5. CASE CommitWrite(w)
  <2>1. row # NoRow /\ row \in Row
    BY <1>5 DEF CommitWrite, TypeOK, Prepared, Busy
  <2>2. row' \in Row /\ row' # NoRow /\ row'.id = row.id
    BY <1>5, <2>1, ApplyIsRow DEF CommitWrite, ConstantsAssumption
  <2>3. /\ committed \subseteq committed'
        /\ committed' \subseteq Targets
        /\ row'.target \in committed'
    BY <1>5, <2>1, ApplyIsRow DEF CommitWrite, TypeOK, GroundedInv
  <2>4. TypeOK'
    <3>1. pc' \in [Requests -> Stage]
      BY <1>0, <1>5 DEF CommitWrite, TypeOK, Stage
    <3>2. lock' \in Targets \cup {Free}
      BY <1>5 DEF CommitWrite, TypeOK
    <3> QED
      BY <1>5, <2>2, <2>3, <3>1, <3>2 DEF CommitWrite, TypeOK
  <2>5. Prepared'
    BY <1>0, <1>5, <2>2 DEF CommitWrite, TypeOK, Prepared, Busy
  <2>6. GroundedInv'
    BY <1>0, <1>5, <2>1, <2>2, <2>3
    DEF CommitWrite, TypeOK, GroundedInv, Grounded, RedirectsOnlyCommitted
  <2> QED
    BY <2>4, <2>5, <2>6
<1> QED
  BY <1>1, <1>2, <1>3, <1>4, <1>5 DEF Write

\* An activity that ends early keeps the row and every entry.
LEMMA InvEnds ==
  ASSUME ConstantsAssumption, IInv, NEW q \in Creators \cup Writers \cup Cleaners,
         PublishRaises(q) \/ Abort(q)
  PROVE  IInv'
<1> USE DEF IInv, jobs, history, Goto
<1>1. /\ q \in Requests /\ q \notin Readers
      /\ pc \in [Requests -> Stage]
      /\ Readers \cup Writers \cup Cleaners \subseteq Requests
  BY DEF Requests, TypeOK, Targets, ConstantsAssumption
<1>2. pc' = [pc EXCEPT ![q] = "enqueue failed"] \/ pc' = [pc EXCEPT ![q] = "aborted"]
  BY DEF PublishRaises, Abort
<1>3. /\ pc' \in [Requests -> Stage]
      /\ \A p \in Requests : p # q => pc'[p] = pc[p]
      /\ pc'[q] \notin Busy
  BY <1>1, <1>2 DEF Stage, Busy
<1>4. lock' \in Targets \cup {Free} /\ faults' \in Nat
  <2>1. faults' = faults + 1 /\ (lock' = Free \/ lock' = lock)
    BY DEF PublishRaises, Abort, Unlock, Fault
  <2> QED
    BY <2>1 DEF TypeOK
<1>5. warm' \subseteq Creators /\ inval' \in Nat
  <2>1. \/ warm' = warm /\ inval' = inval
        \/ q \in Creators /\ warm' = warm \cup {q} /\ inval' = inval
        \/ inval' = inval + 1 /\ warm' = warm
    BY DEF PublishRaises, Abort
  <2> QED
    BY <2>1 DEF TypeOK
<1>6. UNCHANGED <<row, cache, late, op, read, answer, committed, began, expired, raced>>
  BY DEF PublishRaises, Abort
<1>7. TypeOK'
  BY <1>3, <1>4, <1>5, <1>6 DEF TypeOK
<1>8. Prepared' /\ GroundedInv'
  BY <1>1, <1>3, <1>6 DEF Prepared, GroundedInv, Grounded, RedirectsOnlyCommitted
<1> QED
  BY <1>7, <1>8

-----------------------------------------------------------------------------
LEMMA InvVisit ==
  ASSUME ConstantsAssumption, IInv, NEW r \in Readers, Visit(r)
  PROVE  IInv'
<1> USE DEF IInv, jobs, history, Goto
<1>0. /\ r \in Requests /\ pc \in [Requests -> Stage]
      /\ Readers \cup Writers \cup Cleaners \subseteq Requests
      /\ r \notin Writers \cup Cleaners
      /\ r \in Writers \cup Readers /\ r \in Creators \cup Readers
      /\ read \in [Writers \cup Readers -> Row \cup Cached \cup {Miss}]
      /\ answer \in [Creators \cup Readers -> Answer \cup Targets]
  BY DEF Requests, TypeOK, Targets, ConstantsAssumption
<1>1. /\ \A q \in Requests : q # r => pc'[q] = pc[q]
      /\ \A q \in Writers \cup Readers : q # r => read'[q] = read[q]
      /\ \A q \in Creators \cup Readers : q # r => answer'[q] = answer[q]
      /\ UNCHANGED <<row, lock, jobs, late, op, committed>>
  BY <1>0 DEF Visit, Lookup, ReadRow, Fill, Redirect, Reply, Begin
<1>2. Prepared' <=> Prepared /\ (pc'[r] \in {"loaded", "found"} => read'[r] \in Cached)
  BY <1>0, <1>1 DEF Prepared
<1>3. ASSUME cache' = cache \/ (cache' = read[r] /\ pc[r] = "loaded"),
             pc'[r] \in {"loaded", "found"} => Grounded(read'[r]),
             answer'[r] \in Targets => answer[r] = answer'[r] \/ answer'[r] \in committed
      PROVE  GroundedInv'
  BY <1>0, <1>1, <1>3 DEF GroundedInv, Grounded, RedirectsOnlyCommitted
<1>4. ASSUME NEW e, Verdict(e) # "redirect"
      PROVE  Verdict(e) \in {"404", "410"}
  BY <1>4 DEF Verdict
<1>5. CASE Lookup(r)
  <2>1. \/ /\ cache # Miss
           /\ pc' = [pc EXCEPT ![r] = "found"]
           /\ read' = [read EXCEPT ![r] = cache]
           /\ answer' = answer
        \/ /\ pc' = [pc EXCEPT ![r] = "answered"]
           /\ \E a \in {"404", "410"} : answer' = [answer EXCEPT ![r] = a]
           /\ read' = read
        \/ /\ pc' = [pc EXCEPT ![r] = "missed"]
           /\ UNCHANGED <<read, answer>>
    BY <1>4, <1>5 DEF Lookup, Reply
  <2>2. cache \in Cached \cup {Miss}
    BY DEF TypeOK
  <2>3. pc' \in [Requests -> Stage]
    BY <1>0, <2>1 DEF Stage
  <2>4. read' \in [Writers \cup Readers -> Row \cup Cached \cup {Miss}]
    BY <1>0, <2>1, <2>2
  <2>5. answer' \in [Creators \cup Readers -> Answer \cup Targets]
    BY <1>0, <2>1 DEF Answer
  <2>6. faults' \in Nat
    BY <1>5 DEF Lookup, Fault, TypeOK
  <2>7. began' \in [Readers -> SUBSET Writers] /\ expired' \subseteq Readers
    BY <1>5 DEF Lookup, Begin, TypeOK
  <2>8. TypeOK'
    BY <1>5, <2>3, <2>4, <2>5, <2>6, <2>7 DEF Lookup, TypeOK
  <2>9. Prepared'
    BY <1>0, <1>2, <2>1, <2>2
  <2>10. pc'[r] \in {"loaded", "found"} => Grounded(read'[r])
    BY <1>0, <2>1 DEF GroundedInv
  <2>11. answer'[r] \in Targets => answer[r] = answer'[r]
    BY <1>0, <2>1 DEF ConstantsAssumption, Answer
  <2>12. GroundedInv'
    BY <1>3, <1>5, <2>10, <2>11 DEF Lookup
  <2> QED
    BY <2>8, <2>9, <2>12
<1>6. CASE ReadRow(r)
  <2>1. \/ /\ row # NoRow
           /\ pc' = [pc EXCEPT ![r] = "loaded"]
           /\ read' = [read EXCEPT ![r] = EntryOf(row)]
           /\ answer' = answer
        \/ /\ pc' = [pc EXCEPT ![r] = "answered"]
           /\ \E a \in {"404", "410"} : answer' = [answer EXCEPT ![r] = a]
           /\ read' = read
    BY <1>4, <1>6 DEF ReadRow, Reply, Visible
  <2>2. row # NoRow => EntryOf(row) \in Cached /\ EntryOf(row).target = row.target
    BY EntryOfRow DEF TypeOK
  <2>3. pc' \in [Requests -> Stage]
    BY <1>0, <2>1 DEF Stage
  <2>4. read' \in [Writers \cup Readers -> Row \cup Cached \cup {Miss}]
    BY <1>0, <2>1, <2>2
  <2>5. answer' \in [Creators \cup Readers -> Answer \cup Targets]
    BY <1>0, <2>1 DEF Answer
  <2>6. raced' \in BOOLEAN
    BY <1>6 DEF ReadRow, TypeOK
  <2>7. TypeOK'
    BY <1>6, <2>3, <2>4, <2>5, <2>6 DEF ReadRow, TypeOK
  <2>8. Prepared'
    BY <1>0, <1>2, <2>1, <2>2
  <2>9. pc'[r] \in {"loaded", "found"} => Grounded(read'[r])
    BY <1>0, <2>1, <2>2 DEF GroundedInv, Grounded
  <2>10. answer'[r] \in Targets => answer[r] = answer'[r]
    BY <1>0, <2>1 DEF ConstantsAssumption, Answer
  <2>11. GroundedInv'
    BY <1>3, <1>6, <2>9, <2>10 DEF ReadRow
  <2> QED
    BY <2>7, <2>8, <2>11
<1>7. CASE Fill(r)
  <2>1. /\ pc[r] = "loaded" /\ pc' = [pc EXCEPT ![r] = "found"]
        /\ cache' = read[r] \/ cache' = cache
        /\ UNCHANGED <<read, answer>>
    BY <1>7 DEF Fill, CacheSet
  <2>2. read[r] \in Cached /\ Grounded(read[r])
    BY <2>1 DEF Prepared, GroundedInv
  <2>3. pc' \in [Requests -> Stage]
    BY <1>0, <2>1 DEF Stage
  <2>4. cache' \in Cached \cup {Miss} /\ faults' \in Nat /\ raced' \in BOOLEAN
    BY <1>7, <2>1, <2>2 DEF Fill, CacheSet, Fault, TypeOK
  <2>5. TypeOK'
    BY <1>7, <2>3, <2>4 DEF Fill, TypeOK
  <2>6. Prepared' /\ GroundedInv'
    BY <1>0, <1>2, <1>3, <2>1, <2>2
  <2> QED
    BY <2>5, <2>6
<1>8. CASE Redirect(r)
  <2>1. /\ pc[r] = "found" /\ pc' = [pc EXCEPT ![r] = "answered"]
        /\ \/ Refers(read[r]) /\ answer' = [answer EXCEPT ![r] = read[r].target]
           \/ answer' = [answer EXCEPT ![r] = "500"]
        /\ UNCHANGED <<cache, read>>
    BY <1>8 DEF Redirect, Reply
  <2>2. read[r] \in Cached /\ read[r].target \in Targets /\ Grounded(read[r])
    BY <2>1 DEF Prepared, GroundedInv, Cached
  <2>3. Refers(read[r]) => read[r].target \in committed'
    BY <1>1, <2>2 DEF Refers, GroundedInv, Grounded
  <2>4. pc' \in [Requests -> Stage]
    BY <1>0, <2>1 DEF Stage
  <2>5. answer' \in [Creators \cup Readers -> Answer \cup Targets]
    BY <1>0, <2>1, <2>2 DEF Answer
  <2>6. faults' \in Nat
    BY <1>8 DEF Redirect, Fault, TypeOK
  <2>7. TypeOK'
    BY <1>8, <2>4, <2>5, <2>6 DEF Redirect, TypeOK
  <2>8. answer'[r] \in Targets => answer'[r] \in committed'
    BY <1>0, <2>1, <2>3 DEF ConstantsAssumption, Answer
  <2>9. Prepared' /\ GroundedInv'
    BY <1>0, <1>1, <1>2, <1>3, <2>1, <2>8
  <2> QED
    BY <2>7, <2>9
<1> QED
  BY <1>5, <1>6, <1>7, <1>8 DEF Visit

-----------------------------------------------------------------------------
LEMMA InvCleanup ==
  ASSUME ConstantsAssumption, IInv, NEW k \in Cleaners, Cleanup(k)
  PROVE  IInv'
<1> USE DEF IInv, jobs, history, Goto
<1>0. /\ k \in Requests /\ pc \in [Requests -> Stage]
      /\ Readers \cup Writers \cup Cleaners \subseteq Requests
      /\ k \notin Readers
  BY DEF Requests, TypeOK, ConstantsAssumption
<1>1. /\ pc' \in [Requests -> Stage]
      /\ \A q \in Requests : q # k => pc'[q] = pc[q]
      /\ UNCHANGED <<cache, op, read, answer, committed>>
  BY <1>0 DEF Cleanup, SelectExpired, PublishExpired, Deactivate, Stage
<1>2. row # NoRow /\ row \in Row
  BY DEF Cleanup, SelectExpired, PublishExpired, Deactivate, Visible, Prepared, Busy, TypeOK
<1>3. row' \in Row /\ row'.id = row.id /\ row'.target = row.target
  BY <1>2 DEF Cleanup, SelectExpired, PublishExpired, Deactivate, Row
<1>4. row' # NoRow
  BY <1>3 DEF ConstantsAssumption
<1>5. TypeOK'
  BY <1>1, <1>3 DEF Cleanup, SelectExpired, PublishExpired, Deactivate, TypeOK
<1>6. Prepared'
  BY <1>0, <1>1, <1>4, k \notin Writers DEF Prepared, ConstantsAssumption, Targets
<1>7. GroundedInv'
  BY <1>0, <1>1, <1>2, <1>3 DEF GroundedInv, Grounded, RedirectsOnlyCommitted
<1> QED
  BY <1>5, <1>6, <1>7

\* A job and the environment touch the entry and nothing a request holds.
LEMMA InvJobs ==
  ASSUME ConstantsAssumption, IInv, Job \/ CacheExpires \/ Deadline
  PROVE  IInv'
<1> USE DEF IInv, jobs, history
<1>1. \A c \in Creators : WarmEntry(c) \in Cached /\ WarmEntry(c).target = WarmEntry(c).id
  BY DEF WarmEntry, Cached, Targets
<1>2. \/ cache' = cache
      \/ cache' = Miss
      \/ \E c \in Creators : cache' = WarmEntry(c)
  BY DEF Job, WarmCache, InvalidateCache, CacheSet, CacheExpires, Deadline
<1>3. UNCHANGED <<row, lock, pc, op, read, answer, committed, began, expired, raced>>
  BY DEF Job, WarmCache, InvalidateCache, CacheExpires, Deadline
<1>4. /\ warm' \subseteq Creators /\ inval' \in Nat
      /\ late' \in BOOLEAN /\ faults' \in Nat
  <2>1. faults' \in Nat
    BY DEF Job, WarmCache, InvalidateCache, CacheSet, CacheExpires, Deadline, Fault, TypeOK
  <2>2. late' \in BOOLEAN
    BY DEF Job, WarmCache, InvalidateCache, CacheExpires, Deadline, TypeOK
  <2>3. warm' \subseteq warm
    BY DEF Job, WarmCache, InvalidateCache, CacheExpires, Deadline
  <2>4. inval' = inval \/ (inval > 0 /\ inval' = inval - 1)
    BY DEF Job, WarmCache, InvalidateCache, CacheExpires, Deadline
  <2> QED
    BY <2>1, <2>2, <2>3, <2>4 DEF TypeOK
<1>5. cache' \in Cached \cup {Miss} /\ (cache' # Miss => Grounded(cache'))
  BY <1>1, <1>2 DEF TypeOK, GroundedInv, Grounded
<1>6. TypeOK'
  BY <1>3, <1>4, <1>5 DEF TypeOK
<1>7. Prepared' /\ GroundedInv'
  BY <1>3, <1>5 DEF Prepared, GroundedInv, Grounded, RedirectsOnlyCommitted
<1> QED
  BY <1>6, <1>7

LEMMA InvStep == ConstantsAssumption /\ IInv /\ [Next]_vars => IInv'
<1> SUFFICES ASSUME ConstantsAssumption, IInv, [Next]_vars
             PROVE  IInv'
  OBVIOUS
<1>1. CASE Next
  BY <1>1, InvCreate, InvWrite, InvEnds, InvVisit, InvCleanup, InvJobs DEF Next
<1>2. CASE UNCHANGED vars
  BY <1>2 DEF vars, history, jobs, IInv, TypeOK, Prepared, GroundedInv, Grounded,
              RedirectsOnlyCommitted
<1> QED
  BY <1>1, <1>2

\* Whatever fails or overlaps, the row, the entry and every request's memory keep
\* their shape; a job of a rolled-back create leaves a well-formed entry as well.
THEOREM TypeCorrect == Spec => []TypeOK
<1>1. Init => IInv
  BY InvInit, ConstantsAssumption
<1>2. IInv /\ [Next]_vars => IInv'
  BY InvStep, ConstantsAssumption
<1>3. IInv => TypeOK
  BY DEF IInv
<1> QED
  BY <1>1, <1>2, <1>3, PTL DEF Spec

\* A redirect leads only to a target that a commit made visible, for any number of
\* creates racing for the code, of writes, cleanups, jobs and faults.
THEOREM OnlyCommittedTargets == Spec => []RedirectsOnlyCommitted
<1>1. Init => IInv
  BY InvInit, ConstantsAssumption
<1>2. IInv /\ [Next]_vars => IInv'
  BY InvStep, ConstantsAssumption
<1>3. IInv => RedirectsOnlyCommitted
  BY DEF IInv, GroundedInv
<1> QED
  BY <1>1, <1>2, <1>3, PTL DEF Spec

LEMMA IInvAlways == Spec => []IInv
<1>1. Init => IInv
  BY InvInit, ConstantsAssumption
<1>2. IInv /\ [Next]_vars => IInv'
  BY InvStep, ConstantsAssumption
<1> QED
  BY <1>1, <1>2, PTL DEF Spec

-----------------------------------------------------------------------------
(* A cache without background workers                                      *)

\* No job runs, and no cleanup: the only entries are those of a create and of a refill.
Unattended == \A k \in Cleaners : pc[k] = "idle"

LEMMA UnattendedStep ==
  ASSUME ~ Background, ConstantsAssumption, TypeOK, Unattended, [Next]_vars
  PROVE  Unattended' /\ ~ Job /\ \A k \in Cleaners : ~ (Cleanup(k) \/ PublishRaises(k) \/ Abort(k))
<1>1. ~ Job /\ \A k \in Cleaners : ~ (Cleanup(k) \/ PublishRaises(k) \/ Abort(k))
  BY DEF Job, WarmCache, InvalidateCache, Cleanup, SelectExpired, PublishExpired, Deactivate,
         PublishRaises, Abort, Goto, Unattended
<1>2. \A q \in Creators \cup Writers \cup Readers : q \notin Cleaners
  BY DEF ConstantsAssumption, Targets
<1>3. \/ UNCHANGED pc
      \/ \E q \in Creators \cup Writers \cup Readers, st \in Stage : pc' = [pc EXCEPT ![q] = st]
  <2>1. ASSUME NEW c \in Creators, Create(c)
        PROVE  \E st \in Stage : pc' = [pc EXCEPT ![c] = st]
    BY <2>1 DEF Create, CheckAlias, FlushCreate, CacheCreate, PublishCreated, CommitCreate,
                Goto, Stage
  <2>2. ASSUME NEW w \in Writers, Write(w)
        PROVE  \E st \in Stage : pc' = [pc EXCEPT ![w] = st]
    BY <2>2 DEF Write, ReadForWrite, FlushWrite, Uncache, PublishChanged, CommitWrite, Goto, Stage
  <2>3. ASSUME NEW q \in Creators \cup Writers, PublishRaises(q) \/ Abort(q)
        PROVE  \E st \in Stage : pc' = [pc EXCEPT ![q] = st]
    BY <2>3 DEF PublishRaises, Abort, Goto, Stage
  <2>4. ASSUME NEW r \in Readers, Visit(r)
        PROVE  \E st \in Stage : pc' = [pc EXCEPT ![r] = st]
    BY <2>4 DEF Visit, Lookup, ReadRow, Fill, Redirect, Reply, Goto, Stage
  <2>5. CacheExpires \/ Deadline \/ UNCHANGED vars => UNCHANGED pc
    BY DEF CacheExpires, Deadline, vars
  <2> QED
    BY <1>1, <2>1, <2>2, <2>3, <2>4, <2>5 DEF Next
<1>4. Cleaners \subseteq Requests
  BY DEF Requests
<1> QED
  BY <1>1, <1>2, <1>3, <1>4 DEF TypeOK, Unattended

\* ------------------------------------------------------------------- expiry
\* Whatever carries the expiry of the link carries the one it was created with, and a
\* redirect that began too late has found nothing.
SameExpiry ==
  /\ row # NoRow => row.expires = Timed
  /\ cache # Miss => cache.expires = Timed
  /\ \A r \in Readers : pc[r] = "loaded" => read[r].expires = Timed

TooLate ==
  \A r \in expired :
    Timed /\ late /\ pc[r] \in {"missed", "answered"} /\ answer[r] \notin Targets

Unanswered == \A r \in Readers : pc[r] # "answered" => answer[r] = "none"

ExpiryInv == IInv /\ Unattended /\ SameExpiry /\ TooLate /\ Unanswered

LEMMA ExpiryInit == ConstantsAssumption /\ Init => ExpiryInv
BY InvInit DEF Init, ExpiryInv, Unattended, SameExpiry, TooLate, Unanswered, Requests

LEMMA ExpiryStep ==
  ASSUME ~ Background, Ops \cap {"expire", "extend"} = {}, ConstantsAssumption,
         ExpiryInv, [Next]_vars
  PROVE  ExpiryInv'
<1>0. /\ IInv /\ TypeOK /\ IInv' /\ TypeOK' /\ Unattended'
      /\ ~ Job /\ \A k \in Cleaners : ~ (Cleanup(k) \/ PublishRaises(k) \/ Abort(k))
  BY InvStep, UnattendedStep DEF ExpiryInv, IInv
<1>1. /\ pc \in [Requests -> Stage] /\ Readers \subseteq Requests
      /\ \A q \in Creators \cup Writers : q \notin Readers /\ q \in Requests
      /\ expired \subseteq Readers
      /\ read \in [Writers \cup Readers -> Row \cup Cached \cup {Miss}]
      /\ answer \in [Creators \cup Readers -> Answer \cup Targets]
  BY <1>0 DEF TypeOK, Requests, ConstantsAssumption, Targets
\* What the readers have does not change.
<1>2. ASSUME \A r \in Readers : pc'[r] = pc[r] /\ read'[r] = read[r] /\ answer'[r] = answer[r],
             late => late', late' \in BOOLEAN, expired' = expired,
             row' # NoRow => row'.expires = Timed,
             cache' # Miss => cache'.expires = Timed
      PROVE  ExpiryInv'
  <2>1. SameExpiry'
    BY <1>2 DEF ExpiryInv, SameExpiry
  <2>2. TooLate'
    <3> SUFFICES ASSUME NEW r \in expired
                 PROVE  Timed /\ late' /\ pc'[r] \in {"missed", "answered"}
                        /\ answer'[r] \notin Targets
      BY <1>2 DEF TooLate
    <3>1. r \in Readers /\ Timed /\ late /\ pc[r] \in {"missed", "answered"}
          /\ answer[r] \notin Targets
      BY <1>1 DEF ExpiryInv, TooLate
    <3> QED
      BY <1>2, <3>1
  <2>3. Unanswered'
    BY <1>2 DEF ExpiryInv, Unanswered
  <2> QED
    BY <1>0, <2>1, <2>2, <2>3 DEF ExpiryInv
<1>3. ASSUME NEW c \in Creators, Create(c)
      PROVE  ExpiryInv'
  <2>1. /\ \A r \in Readers : pc'[r] = pc[r] /\ read'[r] = read[r] /\ answer'[r] = answer[r]
        /\ late' = late /\ expired' = expired
    BY <1>1, <1>3 DEF Create, CheckAlias, FlushCreate, CacheCreate, PublishCreated, CommitCreate,
                      Goto, history
  <2>2. NewRow(c).expires = Timed /\ EntryOf(NewRow(c)).expires = Timed
    BY DEF NewRow, EntryOf
  <2>3. row' \in {row, NewRow(c)} /\ cache' \in {cache, EntryOf(NewRow(c))}
    BY <1>3 DEF Create, CheckAlias, FlushCreate, CacheCreate, PublishCreated, CommitCreate,
                CacheSet
  <2> QED
    BY <1>0, <1>2, <2>1, <2>2, <2>3 DEF ExpiryInv, SameExpiry, TypeOK
<1>4. ASSUME NEW w \in Writers, Write(w)
      PROVE  ExpiryInv'
  <2>1. /\ \A r \in Readers : pc'[r] = pc[r] /\ read'[r] = read[r] /\ answer'[r] = answer[r]
        /\ late' = late /\ expired' = expired
    BY <1>1, <1>4 DEF Write, ReadForWrite, FlushWrite, Uncache, PublishChanged, CommitWrite,
                      Goto, history
  <2>2. cache' \in {cache, Miss} /\ row' \in {row, Apply(w, row)}
    BY <1>4 DEF Write, ReadForWrite, FlushWrite, Uncache, PublishChanged, CommitWrite, CacheSet
  <2>3. row # NoRow => Apply(w, row).expires = row.expires
    <3>1. op[w] # "expire" /\ op[w] # "extend"
      BY <1>0 DEF TypeOK
    <3> QED
      BY <1>0, <3>1 DEF Apply, TypeOK, Row
  <2>4. row' # NoRow => row # NoRow
    BY <1>0, <1>4 DEF IInv, Prepared, Busy, Write, ReadForWrite, FlushWrite, Uncache,
                      PublishChanged, CommitWrite, Goto
  <2> QED
    BY <1>0, <1>2, <2>1, <2>2, <2>3, <2>4 DEF ExpiryInv, SameExpiry, TypeOK
<1>5. ASSUME NEW q \in Creators \cup Writers, PublishRaises(q) \/ Abort(q)
      PROVE  ExpiryInv'
  <2>1. /\ \A r \in Readers : pc'[r] = pc[r] /\ read'[r] = read[r] /\ answer'[r] = answer[r]
        /\ UNCHANGED <<row, cache, late, expired>>
    BY <1>1, <1>5 DEF PublishRaises, Abort, Goto, history
  <2> QED
    BY <1>0, <1>2, <2>1 DEF ExpiryInv, SameExpiry, TypeOK
<1>6. ASSUME NEW r \in Readers, Visit(r)
      PROVE  ExpiryInv'
  <2>1. /\ \A q \in Readers : q # r => pc'[q] = pc[q] /\ read'[q] = read[q]
                                     /\ answer'[q] = answer[q]
        /\ UNCHANGED <<row, late>>
    BY <1>1, <1>6 DEF Visit, Lookup, ReadRow, Fill, Redirect, Reply, Goto
  <2>2. ASSUME cache' # Miss => cache'.expires = Timed,
               pc'[r] = "loaded" => read'[r].expires = Timed,
               expired' \in {expired, expired \cup {r}},
               r \in expired' => Timed /\ late /\ pc'[r] \in {"missed", "answered"}
                                /\ answer'[r] \notin Targets,
               pc'[r] # "answered" => answer'[r] = "none"
        PROVE  ExpiryInv'
    <3>1. SameExpiry'
      BY <1>1, <2>1, <2>2 DEF ExpiryInv, SameExpiry
    <3>2. TooLate'
      BY <1>1, <2>1, <2>2 DEF ExpiryInv, TooLate
    <3>3. Unanswered'
      BY <1>1, <2>1, <2>2 DEF ExpiryInv, Unanswered
    <3> QED
      BY <1>0, <3>1, <3>2, <3>3 DEF ExpiryInv
  <2>3. ASSUME NEW e, e.expires = Timed, Timed, late
        PROVE  Verdict(e) \in {"404", "410"}
    BY <2>3 DEF Verdict, Expired
  <2>4. /\ "404" \notin Targets /\ "410" \notin Targets /\ "500" \notin Targets
        /\ "none" \notin Targets
    BY DEF ConstantsAssumption, Answer
  <2>5. /\ pc[r] # "answered" => answer[r] = "none"
        /\ r \in expired => Timed /\ late /\ pc[r] \in {"missed", "answered"}
                             /\ answer[r] \notin Targets
        /\ cache # Miss => cache.expires = Timed
        /\ row # NoRow => row.expires = Timed
        /\ pc[r] = "loaded" => read[r].expires = Timed
    BY DEF ExpiryInv, Unanswered, TooLate, SameExpiry
  <2>6. CASE Lookup(r)
    <3>1. /\ UNCHANGED <<cache, late>> /\ pc[r] = "idle" /\ pc'[r] # "loaded"
          /\ expired' \in {expired, expired \cup {r}}
          /\ r \notin expired /\ answer[r] = "none"
      BY <1>1, <2>5, <2>6 DEF Lookup, Begin, Reply
    <3>2. r \in expired' => row # NoRow /\ row.expires /\ late
      BY <2>6, <3>1 DEF Lookup, Begin, Visible, Expired
    <3>3. r \in expired' => Timed /\ late
      BY <2>5, <3>2
    <3>4. ASSUME Timed, late
          PROVE  pc'[r] \in {"missed", "answered"} /\ answer'[r] \in {"none", "404", "410"}
      <4>1. cache # Miss => Verdict(cache) \in {"404", "410"}
        BY <2>3, <2>5, <3>4
      <4> QED
        BY <1>1, <2>6, <3>1, <4>1 DEF Lookup, Reply
    <3>5. pc'[r] # "answered" => answer'[r] = "none"
      BY <1>1, <2>6, <3>1 DEF Lookup, Reply
    <3>6. r \in expired' => Timed /\ late /\ pc'[r] \in {"missed", "answered"}
                            /\ answer'[r] \notin Targets
      BY <2>4, <3>3, <3>4
    <3> QED
      BY <2>2, <2>5, <3>1, <3>5, <3>6
  <2>7. CASE ReadRow(r)
    <3>1. UNCHANGED <<cache, expired>> /\ pc[r] = "missed" /\ answer[r] = "none"
      BY <2>5, <2>7 DEF ReadRow
    <3>2. CASE /\ Visible /\ Verdict(row) = "redirect"
               /\ pc' = [pc EXCEPT ![r] = "loaded"]
               /\ read' = [read EXCEPT ![r] = EntryOf(row)]
               /\ UNCHANGED answer
      <4>1. row # NoRow /\ row.expires = Timed
        BY <2>5, <3>2 DEF Visible
      <4>2. r \notin expired
        <5>1. ~ (Timed /\ late)
          BY <2>3, <3>2, <4>1
        <5> QED
          BY <2>5, <5>1
      <4>3. pc'[r] = "loaded" /\ read'[r].expires = Timed
        BY <1>1, <3>2, <4>1 DEF EntryOf
      <4> QED
        BY <2>2, <2>5, <3>1, <3>2, <4>2, <4>3
    <3>3. CASE /\ UNCHANGED read
               /\ \/ Reply(r, "404")
                  \/ Verdict(row) # "redirect" /\ Reply(r, Verdict(row))
      <4>1. Verdict(row) # "redirect" => Verdict(row) \in {"404", "410"}
        BY DEF Verdict
      <4>2. pc'[r] = "answered" /\ answer'[r] \in {"404", "410"}
        BY <1>1, <3>3, <4>1 DEF Reply
      <4> QED
        BY <2>2, <2>4, <2>5, <3>1, <4>2
    <3> QED
      BY <2>7, <3>2, <3>3 DEF ReadRow
  <2>8. CASE Fill(r)
    <3>1. /\ pc[r] = "loaded" /\ pc'[r] = "found" /\ answer' = answer /\ expired' = expired
          /\ cache' \in {cache, read[r]}
      BY <1>1, <2>8 DEF Fill, CacheSet, Goto
    <3> QED
      BY <2>2, <2>5, <3>1
  <2>9. CASE Redirect(r)
    <3>1. pc[r] = "found" /\ pc'[r] = "answered" /\ cache' = cache /\ expired' = expired
      BY <1>1, <2>9 DEF Redirect, Reply, history
    <3> QED
      BY <2>2, <2>5, <3>1
  <2> QED
    BY <1>6, <2>6, <2>7, <2>8, <2>9 DEF Visit
<1>7. CASE CacheExpires
  BY <1>0, <1>2, <1>7 DEF CacheExpires, history, ExpiryInv, SameExpiry, TypeOK
<1>8. CASE Deadline
  BY <1>0, <1>2, <1>8 DEF Deadline, history, ExpiryInv, SameExpiry, TypeOK
<1>9. CASE UNCHANGED vars
  BY <1>0, <1>2, <1>9 DEF vars, history, ExpiryInv, SameExpiry, TypeOK
<1> QED
  BY <1>0, <1>3, <1>4, <1>5, <1>6, <1>7, <1>8, <1>9 DEF Next

\* Without the workers and without a change of the expiry, a redirect that began when the
\* link had expired leads nowhere, whatever the cache holds: every entry carries the expiry
\* the link was created with (create_short_url and the refill of get_original_url).
THEOREM ExpiredAlwaysRefused ==
  ASSUME ~ Background, Ops \cap {"expire", "extend"} = {}
  PROVE  Spec => []ExpiredNeverRedirects
<1>1. Init => ExpiryInv
  BY ExpiryInit, ConstantsAssumption
<1>2. ExpiryInv /\ [Next]_vars => ExpiryInv'
  BY ExpiryStep, ConstantsAssumption
<1>3. ExpiryInv => ExpiredNeverRedirects
  BY DEF ExpiryInv, TooLate, ExpiredNeverRedirects
<1> QED
  BY <1>1, <1>2, <1>3, PTL DEF Spec

-----------------------------------------------------------------------------
\* ---------------------------------------------------------------- freshness
Holding == {"flushed", "cached", "published"}

\* Who holds the row lock is between its flush and its commit; a create in between holds
\* it (a write does only when it changes something).
LockInv ==
  /\ lock # Free => pc[lock] \in Holding
  /\ \A c \in Creators : pc[c] \in Holding => lock = c

\* Between two writes the entry says what the row says.  While a create is under way it
\* says nothing yet or what the row will say; once a write has deleted it, nothing.
Coherent ==
  /\ lock = Free => Fresh
  /\ lock \in Creators =>
       /\ row = NoRow
       /\ cache = Miss \/ (/\ pc[lock] \in {"cached", "published"}
                           /\ cache = EntryOf(NewRow(lock)))
  /\ lock \in Writers /\ pc[lock] \in {"cached", "published"} => cache = Miss

FreshInv == IInv /\ Unattended /\ LockInv /\ (~ raced /\ faults = 0 => Coherent)

LEMMA FreshInit == ConstantsAssumption /\ Init => FreshInv
<1> SUFFICES ASSUME ConstantsAssumption, Init
             PROVE  FreshInv
  OBVIOUS
<1>1. IInv
  BY InvInit
<1>2. Unattended /\ LockInv
  BY DEF Init, Unattended, LockInv, Requests, Targets, Holding
<1>3. Coherent
  BY DEF Init, Coherent, Fresh, ConstantsAssumption, Targets
<1> QED
  BY <1>1, <1>2, <1>3 DEF FreshInv

LEMMA FreshStep ==
  ASSUME ~ Background, ConstantsAssumption, FreshInv, [Next]_vars
  PROVE  FreshInv'
<1>0. /\ IInv /\ TypeOK /\ IInv' /\ TypeOK' /\ Unattended'
      /\ ~ Job /\ \A k \in Cleaners : ~ (Cleanup(k) \/ PublishRaises(k) \/ Abort(k))
  BY InvStep, UnattendedStep DEF FreshInv, IInv
<1>1. /\ pc \in [Requests -> Stage] /\ Targets \subseteq Requests
      /\ \A q \in Creators : q \notin Readers /\ q \notin Writers /\ q # Free
      /\ \A q \in Writers : q \notin Readers /\ q # Free
      /\ lock \in Targets \cup {Free} /\ faults \in Nat
  BY <1>0 DEF TypeOK, Requests, ConstantsAssumption, Targets
<1>2. LockInv /\ (~ raced /\ faults = 0 => Coherent)
  BY DEF FreshInv
<1>3. ASSUME LockInv', ~ raced' /\ faults' = 0 => Coherent'
      PROVE  FreshInv'
  BY <1>0, <1>3 DEF FreshInv
\* Nothing of the row changes hands, and the entry stays or goes.
<1>4. ASSUME row' = row, lock' = lock, cache' \in {cache, Miss},
             \A q \in Targets : \/ pc'[q] = pc[q]
                                \/ q # lock /\ (q \in Writers \/ pc'[q] \notin Holding)
                                \/ pc[q] = "cached" /\ pc'[q] = "published",
             raced' \/ ~ raced, faults' = 0 => faults = 0
      PROVE  FreshInv'
  <2>1. LockInv'
    BY <1>1, <1>2, <1>4 DEF LockInv, Holding, Targets
  <2>2. ASSUME Coherent PROVE Coherent'
    BY <1>1, <1>2, <1>4, <2>2 DEF Coherent, Fresh, Visible, LockInv, Holding, Targets
  <2> QED
    BY <1>2, <1>3, <1>4, <2>1, <2>2
<1>5. ASSUME NEW c \in Creators, Create(c)
      PROVE  FreshInv'
  <2>1. /\ c \in Targets /\ c \in Requests
        /\ \A q \in Requests : q # c => pc'[q] = pc[q]
        /\ raced' = raced
    BY <1>1, <1>5 DEF Targets, Create, CheckAlias, FlushCreate, CacheCreate, PublishCreated,
                      CommitCreate, Goto, history
  <2>2. CASE CheckAlias(c)
    <3>1. pc[c] = "idle" /\ pc'[c] \notin Holding /\ UNCHANGED <<row, lock, cache, faults>>
      BY <1>1, <2>1, <2>2 DEF CheckAlias, Holding
    <3>2. c # lock
      BY <1>1, <1>2, <3>1 DEF LockInv, Holding
    <3> QED
      BY <1>1, <1>4, <2>1, <3>1, <3>2
  <2>3. CASE FlushCreate(c) /\ row # NoRow
    <3>1. pc[c] = "checked" /\ pc'[c] = "refused" /\ UNCHANGED <<row, lock, cache, faults>>
      BY <1>1, <2>1, <2>3 DEF FlushCreate
    <3>2. c # lock /\ "refused" \notin Holding
      BY <1>1, <1>2, <3>1 DEF LockInv, Holding
    <3> QED
      BY <1>1, <1>4, <2>1, <3>1, <3>2
  <2>4. CASE FlushCreate(c) /\ row = NoRow
    <3>1. /\ lock = Free /\ lock' = c /\ pc'[c] = "flushed" /\ row' = NoRow
          /\ UNCHANGED <<cache, faults>>
      BY <1>1, <2>1, <2>4 DEF FlushCreate, Writing
    <3>2. LockInv'
      BY <1>1, <1>2, <2>1, <3>1 DEF LockInv, Holding, Targets
    <3>3. Coherent => cache = Miss
      BY <2>4, <3>1 DEF Coherent, Fresh, Visible
    <3>4. Coherent => Coherent'
      BY <1>1, <2>1, <3>1, <3>3 DEF Coherent
    <3> QED
      BY <1>2, <1>3, <2>1, <3>1, <3>2, <3>4
  <2>5. CASE CacheCreate(c)
    <3>1. /\ pc[c] = "flushed" /\ pc'[c] = "cached" /\ UNCHANGED <<row, lock>>
          /\ faults' = 0 => cache' = EntryOf(NewRow(c)) /\ faults = 0
      BY <1>1, <2>1, <2>5 DEF CacheCreate, CacheSet, Fault, Goto
    <3>2. lock = c
      BY <1>2, <3>1 DEF LockInv, Holding
    <3>3. LockInv'
      BY <1>1, <1>2, <2>1, <3>1, <3>2 DEF LockInv, Holding, Targets
    <3>4. ASSUME ~ raced', faults' = 0 PROVE Coherent'
      <4>1. cache' = EntryOf(NewRow(c)) /\ ~ raced /\ faults = 0
        BY <2>1, <3>1, <3>4
      <4>2. row' = NoRow
        BY <1>2, <3>1, <3>2, <4>1 DEF Coherent
      <4> QED
        BY <1>1, <3>1, <3>2, <4>1, <4>2 DEF Coherent
    <3> QED
      BY <1>3, <3>3, <3>4
  <2>6. CASE PublishCreated(c)
    <3>1. pc[c] = "cached" /\ pc'[c] = "published" /\ UNCHANGED <<row, lock, cache, faults>>
      BY <1>1, <2>1, <2>6 DEF PublishCreated, Goto
    <3> QED
      BY <1>1, <1>4, <2>1, <3>1
  <2>7. CASE CommitCreate(c)
    <3>1. /\ pc[c] = "published" /\ pc'[c] = "acked" /\ row' = NewRow(c) /\ lock' = Free
          /\ UNCHANGED <<cache, faults>>
      BY <1>1, <2>1, <2>7 DEF CommitCreate, Goto
    <3>2. lock = c
      BY <1>2, <3>1 DEF LockInv, Holding
    <3>3. LockInv'
      BY <1>1, <1>2, <2>1, <3>1, <3>2 DEF LockInv, Holding, Targets
    <3>4. ASSUME Coherent PROVE Coherent'
      <4>1. cache' = Miss \/ cache' = EntryOf(row')
        BY <3>1, <3>2, <3>4 DEF Coherent
      <4>2. row' # NoRow /\ ~ row'.deleted
        BY <3>1, NewRowIsRow DEF NewRow, ConstantsAssumption
      <4> QED
        BY <1>1, <3>1, <4>1, <4>2 DEF Coherent, Fresh, Visible, ConstantsAssumption, Targets
    <3> QED
      BY <1>2, <1>3, <2>1, <3>1, <3>3, <3>4
  <2> QED
    BY <1>5, <2>2, <2>3, <2>4, <2>5, <2>6, <2>7 DEF Create
<1>6. ASSUME NEW w \in Writers, Write(w)
      PROVE  FreshInv'
  <2>1. /\ w \in Targets /\ w \in Requests
        /\ \A q \in Requests : q # w => pc'[q] = pc[q]
        /\ raced' = raced
    BY <1>1, <1>6 DEF Targets, Write, ReadForWrite, FlushWrite, Uncache, PublishChanged,
                      CommitWrite, Goto, history
  <2>2. ASSUME NEW o \in Ops, ReadForWrite(w, o)
        PROVE  FreshInv'
    <3>1. pc[w] = "idle" /\ UNCHANGED <<row, lock, cache, faults>>
      BY <2>2 DEF ReadForWrite
    <3>2. w # lock
      BY <1>1, <1>2, <3>1 DEF LockInv, Holding
    <3> QED
      BY <1>1, <1>4, <2>1, <3>1, <3>2
  <2>3. CASE FlushWrite(w)
    <3>1. pc[w] = "checked" /\ pc'[w] = "flushed" /\ UNCHANGED <<row, cache, faults>>
      BY <1>1, <2>1, <2>3 DEF FlushWrite, Goto
    <3>2. w # lock
      BY <1>1, <1>2, <3>1 DEF LockInv, Holding
    <3>3. CASE UNCHANGED lock
      BY <1>1, <1>4, <2>1, <3>1, <3>2, <3>3
    <3>4. CASE lock = Free /\ lock' = w
      <4>1. LockInv'
        BY <1>1, <1>2, <2>1, <3>1, <3>4 DEF LockInv, Holding, Targets
      <4>2. Coherent'
        BY <1>1, <2>1, <3>1, <3>4 DEF Coherent
      <4> QED
        BY <1>3, <4>1, <4>2
    <3> QED
      BY <2>3, <3>3, <3>4 DEF FlushWrite, Writing
  <2>4. CASE Uncache(w)
    <3>1. /\ pc[w] = "flushed" /\ pc'[w] = "cached" /\ UNCHANGED <<row, lock>>
          /\ faults' = 0 => cache' = Miss /\ faults = 0
      BY <1>1, <2>1, <2>4 DEF Uncache, CacheSet, Fault, Goto
    <3>2. LockInv'
      BY <1>1, <1>2, <2>1, <3>1 DEF LockInv, Holding, Targets
    <3>3. ASSUME ~ raced', faults' = 0 PROVE Coherent'
      <4>1. cache' = Miss /\ ~ raced /\ faults = 0
        BY <2>1, <3>1, <3>3
      <4> QED
        BY <1>1, <1>2, <2>1, <3>1, <4>1 DEF Coherent, Fresh
    <3> QED
      BY <1>3, <3>2, <3>3
  <2>5. CASE PublishChanged(w)
    <3>1. pc[w] = "cached" /\ pc'[w] = "published" /\ UNCHANGED <<row, lock, cache, faults>>
      BY <1>1, <2>1, <2>5 DEF PublishChanged, Goto
    <3> QED
      BY <1>1, <1>4, <2>1, <3>1
  <2>6. CASE CommitWrite(w)
    <3>1. pc[w] = "published" /\ pc'[w] = "acked" /\ UNCHANGED <<cache, faults>>
      BY <1>1, <2>1, <2>6 DEF CommitWrite, Goto
    <3>2. CASE lock # w
      <4>1. UNCHANGED <<row, lock>>
        BY <2>6, <3>2 DEF CommitWrite
      <4> QED
        BY <1>1, <1>4, <2>1, <3>1, <3>2, <4>1
    <3>3. CASE lock = w
      <4>1. lock' = Free
        BY <2>6, <3>3 DEF CommitWrite
      <4>2. LockInv'
        BY <1>1, <1>2, <2>1, <3>1, <3>3, <4>1 DEF LockInv, Holding, Targets
      <4>3. ASSUME Coherent PROVE Coherent'
        BY <1>1, <3>1, <3>3, <4>1, <4>3 DEF Coherent, Fresh, ConstantsAssumption, Targets
      <4> QED
        BY <1>2, <1>3, <2>1, <3>1, <4>2, <4>3
    <3> QED
      BY <3>2, <3>3
  <2> QED
    BY <1>6, <2>2, <2>3, <2>4, <2>5, <2>6 DEF Write
<1>7. ASSUME NEW q \in Targets, PublishRaises(q) \/ Abort(q)
      PROVE  FreshInv'
  <2>1. /\ q \in Requests /\ pc'[q] \notin Holding
        /\ \A p \in Requests : p # q => pc'[p] = pc[p]
        /\ lock' = IF lock = q THEN Free ELSE lock
        /\ faults' = faults + 1
    BY <1>1, <1>7 DEF PublishRaises, Abort, Goto, Fault, Unlock, Holding
  <2>2. LockInv'
    BY <1>1, <1>2, <2>1 DEF LockInv, Targets
  <2>3. faults' # 0
    BY <1>1, <2>1
  <2> QED
    BY <1>3, <2>2, <2>3
<1>8. ASSUME NEW r \in Readers, Visit(r)
      PROVE  FreshInv'
  <2>1. \A q \in Targets : pc'[q] = pc[q]
    BY <1>1, <1>8 DEF Targets, Visit, Lookup, ReadRow, Fill, Redirect, Reply, Goto
  <2>2. row' = row /\ lock' = lock /\ (faults' = 0 => faults = 0)
    <3>1. faults' = faults \/ faults' = faults + 1
      BY <1>8 DEF Visit, Lookup, ReadRow, Fill, Redirect, CacheSet, Fault
    <3> QED
      BY <1>1, <1>8, <3>1 DEF Visit, Lookup, ReadRow, Fill, Redirect
  <2>6. raced => raced'
    BY <1>8, Zenon DEF Visit, Lookup, ReadRow, Fill, Redirect, history
  <2>3. CASE cache' = cache
    BY <1>4, <2>1, <2>2, <2>3, <2>6
  <2>4. CASE Fill(r) /\ cache' # cache
    <3>1. cache' = read[r] /\ (~ raced' => ~ Writing /\ Visible /\ read[r] = EntryOf(row))
      BY <2>4 DEF Fill, CacheSet
    <3>2. LockInv'
      BY <1>1, <1>2, <2>1, <2>2 DEF LockInv, Targets
    <3>3. ~ raced' => Coherent'
      BY <1>1, <2>1, <2>2, <3>1 DEF Coherent, Fresh, Visible, Writing, ConstantsAssumption, Targets
    <3> QED
      BY <1>3, <3>2, <3>3
  <2>5. cache' = cache \/ Fill(r)
    BY <1>8 DEF Visit, Lookup, ReadRow, Redirect
  <2> QED
    BY <2>3, <2>4, <2>5
<1>9. CASE CacheExpires
  BY <1>4, <1>9 DEF CacheExpires, history
<1>10. CASE Deadline
  BY <1>4, <1>10 DEF Deadline, history
<1>11. CASE UNCHANGED vars
  <2>1. row' = row /\ lock' = lock /\ cache' \in {cache, Miss}
    BY <1>11 DEF vars
  <2>2. \A q \in Targets : pc'[q] = pc[q]
    BY <1>11 DEF vars
  <2>3. faults' = 0 => faults = 0
    BY <1>11 DEF vars
  <2>4. raced => raced'
    BY <1>11 DEF vars
  <2> QED
    BY <1>4, <2>1, <2>2, <2>3, <2>4
<1> QED
  BY <1>0, <1>5, <1>6, <1>7, <1>8, <1>9, <1>10, <1>11 DEF Next, Targets

\* Without the workers and without errors, and unless a refill overlapped a write, the
\* entry agrees with the row whenever no write is under way: although update_url and
\* create_short_url touch the cache before get_db commits, the row lock they hold
\* meanwhile keeps every other write out.
THEOREM FreshAlwaysUnlessRaced ==
  ASSUME ~ Background
  PROVE  Spec => []FreshUnlessRaced
<1>1. Init => FreshInv
  BY FreshInit, ConstantsAssumption
<1>2. FreshInv /\ [Next]_vars => FreshInv'
  BY FreshStep, ConstantsAssumption
<1>3. FreshInv => FreshUnlessRaced
  BY ConstantsAssumption
  DEF FreshInv, IInv, TypeOK, LockInv, Coherent, FreshUnlessRaced, Settled, Holding
<1> QED
  BY <1>1, <1>2, <1>3, PTL DEF Spec

=============================================================================

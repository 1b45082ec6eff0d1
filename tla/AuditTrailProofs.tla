-------------------------- MODULE AuditTrailProofs --------------------------
(* Proofs about AuditTrail, for any requests, page sizes and bounds.       *)
EXTENDS AuditTrail, FiniteSetTheorems, TLAPS

-----------------------------------------------------------------------------
(* The inductive invariant                                                 *)

\* How far a request has come, told by its effect and its rows.
ProgressInv ==
  \A q \in Requests :
    /\ effect[q] => kind[q] # "page" /\ pc[q] \in {"logging", "ok", "failed", "refused"}
    /\ q \in audit => kind[q] \in Audited /\ pc[q] \in {"ok", "refused"}
    /\ pc[q] = "logging" =>
         /\ kind[q] \in Audited
         /\ effect[q] \/ (kind[q] = "replay" /\ "revoke" \in logged[q])
    /\ pc[q] \in {"recording", "handler", "forbidden"} => kind[q] \in Protected
    /\ kind[q] = "change" /\ pc[q] = "handler" =>
         \/ \E d \in decisions : d.of = q /\ d.allowed
         \/ "decision" \in logged[q]

\* The decisions of a request: a change has none until it has been checked, and
\* none that denies it once its handler runs.
DecisionInv ==
  \A d \in decisions :
    /\ kind[d.of] \in Protected
    /\ kind[d.of] = "change" =>
         /\ pc[d.of] \notin {"start", "recording"}
         /\ pc[d.of] = "handler" => d.allowed

\* The decisions that stand above d in every answer.
Newer(d) == {e \in decisions : e.created_at > d.created_at}

\* A row still owed stands at or below the offset of the next page.
PagingInv ==
  /\ IsFiniteSet(decisions)
  /\ \A q \in Requests : turn[q] = 0 => offset[q] = 0
  /\ \A q \in Requests : \A d \in owed[q] :
       AloneAt(d) /\ d \notin seen[q] => Cardinality(Newer(d)) >= offset[q]

TrailInv == ProgressInv /\ DecisionInv /\ TrailTellsTruth /\ MissesAreLogged

IInv == TypeOK /\ TrailInv /\ PagingInv /\ NothingMissed

LEMMA InitInv == Init => IInv
<1> SUFFICES ASSUME Init PROVE IInv
  OBVIOUS
<1> USE LimitsAssumption DEF Init
<1>1. TypeOK
  BY DEF TypeOK, PC
<1>2. TrailInv
  BY DEF TrailInv, ProgressInv, DecisionInv, TrailTellsTruth, MissesAreLogged
<1>3. PagingInv /\ NothingMissed
  BY FS_EmptySet DEF PagingInv, NothingMissed
<1>4. QED
  BY <1>1, <1>2, <1>3 DEF IInv

-----------------------------------------------------------------------------
(* Types                                                                   *)

LEMMA PageSize ==
  ASSUME NEW want \in Wants
  PROVE  ParsePagination(want) \in Nat \ {0}
BY LimitsAssumption DEF ParsePagination

LEMMA PageRows ==
  ASSUME NEW limit, NEW off, NEW rows \in ListForOrg(limit, off)
  PROVE  rows \subseteq decisions
BY DEF ListForOrg, First

LEMMA TypeStep == TypeOK /\ IsFiniteSet(decisions) /\ [Next]_vars => TypeOK'
<1> SUFFICES ASSUME TypeOK, IsFiniteSet(decisions), [Next]_vars PROVE TypeOK'
  OBVIOUS
<1> USE LimitsAssumption DEF TypeOK, PC, Answered, Kinds, paging
<1>1. ASSUME NEW q \in Requests, CheckPermission(q) PROVE TypeOK'
  <2>1. PICK a \in BOOLEAN :
          row' = [row EXCEPT ![q] = [of |-> q, turn |-> turn[q],
                                     allowed |-> a, created_at |-> clock]]
    BY <1>1 DEF CheckPermission
  <2>2. [of |-> q, turn |-> turn[q], allowed |-> a, created_at |-> clock] \in Decision
    BY <1>1 DEF CheckPermission, Decision
  <2>3. row' \in [Requests -> Decision \cup {NoRow}]
    BY <2>1, <2>2
  <2>4. row'[q].of = q /\ row'[q].created_at <= clock /\ row'[q] \in Decision
    BY <2>1, <2>2
  <2>5. \A p \in Requests \ {q} : row'[p] = row[p] /\ pc'[p] = pc[p]
    BY <1>1, <2>1 DEF CheckPermission
  <2>6. QED
    BY <1>1, <2>3, <2>4, <2>5 DEF CheckPermission
<1>2. ASSUME NEW q \in Requests, CheckFails(q) \/ ListFails(q) PROVE TypeOK'
  BY <1>2 DEF CheckFails, ListFails
<1>3. ASSUME NEW q \in Requests, RecordDecision(q) PROVE TypeOK'
  <2>1. decisions \subseteq decisions' /\ decisions' \subseteq Decision
    BY <1>3 DEF RecordDecision
  <2>2. logged' \in [Requests -> SUBSET {"decision", "revoke", "entry"}]
    BY <1>3 DEF RecordDecision
  <2>3. turn[q] < MaxTurns
    BY <1>3 DEF RecordDecision
  <2>4. row' \in [Requests -> Decision \cup {NoRow}] /\ pc' \in [Requests -> PC]
    BY <1>3 DEF RecordDecision
  <2>5. \A p \in Requests :
          IF pc'[p] = "recording"
          THEN row'[p] \in Decision /\ row'[p].of = p /\ row'[p].created_at <= clock
          ELSE row'[p] = NoRow
    BY <1>3 DEF RecordDecision
  <2>6. QED
    BY <1>3, <2>1, <2>2, <2>3, <2>4, <2>5 DEF RecordDecision
<1>4. ASSUME NEW q \in Requests, Handle(q) PROVE TypeOK'
  BY <1>4 DEF Handle, Outcome
<1>5. ASSUME NEW q \in Requests, Commit(q) PROVE TypeOK'
  BY <1>5 DEF Commit, Outcome
<1>6. ASSUME NEW q \in Requests, RevokeFamily(q) PROVE TypeOK'
  BY <1>6 DEF RevokeFamily, Outcome
<1>7. ASSUME NEW q \in Requests, Log(q) PROVE TypeOK'
  BY <1>7 DEF Log
<1>8. ASSUME NEW q \in Requests, List(q) PROVE TypeOK'
  <2>1. PICK want \in Wants : \E rows \in ListForOrg(ParsePagination(want), offset[q]) :
          /\ seen' = [seen EXCEPT ![q] = @ \cup rows]
          /\ offset' = [offset EXCEPT ![q] = @ + Cardinality(rows)]
          /\ pc' = [pc EXCEPT ![q] = IF rows = {} THEN "ok" ELSE "start"]
    BY <1>8 DEF List
  <2>2. PICK rows \in ListForOrg(ParsePagination(want), offset[q]) :
          /\ seen' = [seen EXCEPT ![q] = @ \cup rows]
          /\ offset' = [offset EXCEPT ![q] = @ + Cardinality(rows)]
          /\ pc' = [pc EXCEPT ![q] = IF rows = {} THEN "ok" ELSE "start"]
    BY <2>1
  <2>3. rows \subseteq decisions
    BY PageRows
  <2>4. Cardinality(rows) \in Nat
    BY <2>3, FS_Subset, FS_CardinalityType
  <2>5. seen' \in [Requests -> SUBSET decisions] /\ offset' \in [Requests -> Nat]
    BY <2>2, <2>3, <2>4
  <2>6. turn' \in [Requests -> 0..MaxTurns] /\ owed' \in [Requests -> SUBSET decisions]
    BY <1>8 DEF List
  <2>7. \A p \in Requests : pc'[p] \in {"recording", "handler"} =>
          pc'[p] = pc[p] /\ turn'[p] = turn[p]
    BY <1>8, <2>2 DEF List
  <2>8. \A p \in Requests : pc[p] = "recording" => pc'[p] = "recording"
    BY <1>8, <2>2 DEF List
  <2>9. pc' \in [Requests -> PC]
    BY <2>2
  <2>10. UNCHANGED <<kind, effect, logged, row, audit, decisions, clock>>
    BY <1>8 DEF List
  <2>11. QED
    BY <2>5, <2>6, <2>7, <2>8, <2>9, <2>10
<1>9. CASE Tick
  BY <1>9 DEF Tick, Decision
<1>10. CASE UNCHANGED vars
  BY <1>10 DEF vars
<1>11. QED
  BY <1>1, <1>2, <1>3, <1>4, <1>5, <1>6, <1>7, <1>8, <1>9, <1>10 DEF Next

-----------------------------------------------------------------------------
(* What the trails tell                                                    *)

\* A step that leaves the requests' progress alone keeps what the trails tell.
LEMMA TrailUnchanged ==
  ASSUME TrailInv, UNCHANGED <<pc, kind, effect, logged, audit, decisions>>
  PROVE  TrailInv'
BY DEF TrailInv, ProgressInv, DecisionInv, TrailTellsTruth, MissesAreLogged

\* List moves a paging client between "handler", "start" and "ok" and writes no
\* row.
LEMMA ListTrail ==
  ASSUME TypeOK, TrailInv, NEW q \in Requests, List(q)
  PROVE  TrailInv'
<1>1. kind[q] = "page" /\ pc[q] = "handler"
  BY DEF List
<1>2. /\ pc'[q] \in {"ok", "start"}
      /\ \A r \in Requests : r # q => pc'[r] = pc[r]
  BY DEF List, TypeOK
<1>3. UNCHANGED <<kind, effect, logged, row, audit, decisions>>
  BY DEF List
<1>4. ~ effect[q] /\ q \notin audit /\ kind[q] \notin Audited
  BY <1>1 DEF TrailInv, ProgressInv, Audited
<1>5. ProgressInv'
  BY <1>1, <1>2, <1>3, <1>4 DEF TrailInv, ProgressInv
<1>6. DecisionInv'
  BY <1>1, <1>2, <1>3 DEF TrailInv, DecisionInv, TypeOK, Decision
<1>7. TrailTellsTruth' /\ MissesAreLogged'
  BY <1>1, <1>2, <1>3, <1>4 DEF TrailInv, TrailTellsTruth, MissesAreLogged
<1>8. QED
  BY <1>5, <1>6, <1>7 DEF TrailInv

\* The row a decision leaves tells what the check said; its loss is logged.
LEMMA RecordTrail ==
  ASSUME TypeOK, TrailInv, NEW q \in Requests, RecordDecision(q)
  PROVE  TrailInv'
<1>1. PICK o \in Outcome :
        /\ decisions' = IF o.done THEN decisions \cup {row[q]} ELSE decisions
        /\ logged' = IF o.err THEN [logged EXCEPT ![q] = @ \cup {"decision"}]
                              ELSE logged
  BY DEF RecordDecision
<1>2. /\ pc[q] = "recording"
      /\ pc'[q] = IF row[q].allowed THEN "handler" ELSE "forbidden"
      /\ \A r \in Requests : r # q => pc'[r] = pc[r]
      /\ UNCHANGED <<kind, effect, audit>>
  BY DEF RecordDecision, TypeOK
<1>3. row[q] \in Decision /\ row[q].of = q /\ row[q].allowed \in BOOLEAN
  BY <1>2 DEF TypeOK, Decision
<1>4. /\ kind[q] \in Protected /\ kind[q] \notin Audited
      /\ ~ effect[q] /\ q \notin audit
  BY <1>2 DEF TrailInv, ProgressInv, Protected, Audited
<1>5. /\ decisions \subseteq decisions'
      /\ \A d \in decisions' : d \in decisions \/ d = row[q]
      /\ row[q] \in decisions' \/ "decision" \in logged'[q]
  BY <1>1 DEF TypeOK, Outcome
<1>6. \A r \in Requests : logged[r] \subseteq logged'[r]
  BY <1>1 DEF TypeOK
<1>7. ProgressInv'
  <2> SUFFICES ASSUME NEW r \in Requests PROVE ProgressInv!(r)'
    BY DEF ProgressInv
  <2>1. CASE r = q
    BY <2>1, <1>2, <1>3, <1>4, <1>5 DEF TrailInv, ProgressInv
  <2>2. CASE r # q
    BY <2>2, <1>2, <1>5, <1>6 DEF TrailInv, ProgressInv
  <2>3. QED
    BY <2>1, <2>2
<1>8. DecisionInv'
  <2> SUFFICES ASSUME NEW d \in decisions' PROVE DecisionInv!(d)'
    BY DEF DecisionInv
  <2>1. CASE d = row[q]
    BY <2>1, <1>2, <1>3, <1>4
  <2>2. CASE d \in decisions
    <3>1. d.of \in Requests
      BY <2>2 DEF TypeOK, Decision
    <3>2. CASE d.of = q
      BY <3>2, <2>2, <1>2, <1>4 DEF TrailInv, DecisionInv
    <3>3. CASE d.of # q
      BY <3>1, <3>3, <2>2, <1>2 DEF TrailInv, DecisionInv
    <3>4. QED
      BY <3>2, <3>3
  <2>3. QED
    BY <2>1, <2>2, <1>5
<1>9. TrailTellsTruth'
  BY <1>2, <1>3, <1>4, <1>5, <1>6 DEF TrailInv, TrailTellsTruth, TypeOK
<1>10. MissesAreLogged'
  <2> SUFFICES ASSUME NEW r \in Requests PROVE MissesAreLogged!(r)'
    BY DEF MissesAreLogged
  <2>1. CASE r = q
    BY <2>1, <1>2, <1>3, <1>4, <1>5
  <2>2. CASE r # q
    BY <2>2, <1>2, <1>5, <1>6 DEF TrailInv, MissesAreLogged
  <2>3. QED
    BY <2>1, <2>2
<1>11. QED
  BY <1>7, <1>8, <1>9, <1>10 DEF TrailInv

LEMMA TrailStep == TypeOK /\ TrailInv /\ [Next]_vars => TrailInv'
<1> SUFFICES ASSUME TypeOK, TrailInv, [Next]_vars PROVE TrailInv'
  OBVIOUS
<1> USE DEF TypeOK, TrailInv, ProgressInv, DecisionInv, TrailTellsTruth,
            MissesAreLogged, Audited, Protected
<1>0. \A d \in decisions : d.of \in Requests
  BY DEF Decision
<1>1. ASSUME NEW q \in Requests, CheckPermission(q) PROVE TrailInv'
  BY <1>0, <1>1 DEF CheckPermission
<1>2. ASSUME NEW q \in Requests, CheckFails(q) \/ ListFails(q) PROVE TrailInv'
  BY <1>0, <1>2 DEF CheckFails, ListFails
<1>3. ASSUME NEW q \in Requests, RecordDecision(q) PROVE TrailInv'
  BY <1>3, RecordTrail
<1>4. ASSUME NEW q \in Requests, Handle(q) PROVE TrailInv'
  BY <1>0, <1>4 DEF Handle, Outcome
<1>5. ASSUME NEW q \in Requests, Commit(q) PROVE TrailInv'
  BY <1>0, <1>5 DEF Commit, Outcome
<1>6. ASSUME NEW q \in Requests, RevokeFamily(q) PROVE TrailInv'
  BY <1>0, <1>6 DEF RevokeFamily, Outcome
<1>7. ASSUME NEW q \in Requests, Log(q) PROVE TrailInv'
  BY <1>0, <1>7 DEF Log, Outcome
<1>8. ASSUME NEW q \in Requests, List(q) PROVE TrailInv'
  BY <1>8, ListTrail
<1>9. CASE Tick
  BY <1>9, TrailUnchanged DEF Tick
<1>10. CASE UNCHANGED vars
  BY <1>10, TrailUnchanged DEF vars
<1>11. QED
  BY <1>1, <1>2, <1>3, <1>4, <1>5, <1>6, <1>7, <1>8, <1>9, <1>10 DEF Next

-----------------------------------------------------------------------------
(* Paging                                                                  *)

\* A row whose stamp no other has is among the first n rows exactly when fewer
\* than n rows are newer.
LEMMA Place ==
  ASSUME IsFiniteSet(decisions), decisions \subseteq Decision,
         NEW n \in Nat, NEW U \in First(n), NEW d \in decisions, AloneAt(d)
  PROVE  /\ U \subseteq decisions
         /\ d \in U => Cardinality(Newer(d)) < n
         /\ d \notin U => Cardinality(U) = n /\ Cardinality(Newer(d)) >= n
<1>1. /\ U \in SUBSET decisions
      /\ Cardinality(U) = n \/ (U = decisions /\ Cardinality(decisions) < n)
      /\ \A x \in U, e \in decisions \ U : x.created_at >= e.created_at
  BY DEF First
<1>2. \A e \in decisions : e.created_at \in Nat
  BY LimitsAssumption DEF Decision
<1>3. /\ IsFiniteSet(U) /\ IsFiniteSet(Newer(d))
      /\ Cardinality(U) \in Nat /\ Cardinality(Newer(d)) \in Nat
      /\ Cardinality(U) <= n
  <2>1. Newer(d) \in SUBSET decisions
    BY DEF Newer
  <2>2. IsFiniteSet(U) /\ IsFiniteSet(Newer(d))
    BY <1>1, <2>1, FS_Subset
  <2>3. Cardinality(U) \in Nat /\ Cardinality(Newer(d)) \in Nat
    BY <2>2, FS_CardinalityType
  <2>4. QED
    BY <1>1, <2>2, <2>3
<1>4. ASSUME d \in U PROVE Cardinality(Newer(d)) < n
  <2>1. Newer(d) \subseteq U
    BY <1>1, <1>2, <1>4 DEF Newer
  <2>2. d \notin Newer(d)
    BY <1>2 DEF Newer
  <2>3. Cardinality(Newer(d) \cup {d}) = Cardinality(Newer(d)) + 1
    BY <1>3, <2>2, FS_AddElement
  <2>4. Newer(d) \cup {d} \in SUBSET U
    BY <2>1, <1>4
  <2>5. Cardinality(Newer(d) \cup {d}) <= Cardinality(U)
    BY <1>3, <2>4, FS_Subset
  <2>6. QED
    BY <1>3, <2>3, <2>5
<1>5. ASSUME d \notin U PROVE Cardinality(U) = n /\ Cardinality(Newer(d)) >= n
  <2>1. Cardinality(U) = n
    BY <1>1, <1>5
  <2>2. U \in SUBSET Newer(d)
    BY <1>1, <1>2, <1>5 DEF Newer, AloneAt
  <2>3. Cardinality(U) <= Cardinality(Newer(d))
    BY <1>3, <2>2, FS_Subset
  <2>4. QED
    BY <1>3, <2>1, <2>3
<1>6. QED
  BY <1>1, <1>4, <1>5

\* A page that does not show such a row, at an offset the row has not passed,
\* is full, and leaves the row at or below the next offset.
LEMMA PageAdvances ==
  ASSUME IsFiniteSet(decisions), decisions \subseteq Decision,
         NEW limit \in Nat \ {0}, NEW off \in Nat, NEW rows \in ListForOrg(limit, off),
         NEW d \in decisions, AloneAt(d), d \notin rows,
         Cardinality(Newer(d)) >= off
  PROVE  /\ rows # {}
         /\ Cardinality(Newer(d)) >= off + Cardinality(rows)
<1>1. PICK U \in First(off), V \in First(off + limit) : U \subseteq V /\ rows = V \ U
  BY DEF ListForOrg
<1>2. U \subseteq decisions /\ V \subseteq decisions
  BY DEF First
<1>3. Cardinality(Newer(d)) \in Nat
  <2>1. Newer(d) \in SUBSET decisions
    BY DEF Newer
  <2>2. QED
    BY <2>1, FS_Subset, FS_CardinalityType
<1>4. d \notin U /\ Cardinality(U) = off
  BY <1>3, Place
<1>5. d \notin V
  BY <1>1, <1>4
<1>6. Cardinality(V) = off + limit /\ Cardinality(Newer(d)) >= off + limit
  <2>1. off + limit \in Nat
    OBVIOUS
  <2>2. QED
    BY <1>5, <2>1, Place
<1>7. Cardinality(rows) = limit
  <2>1. V \cap U = U
    BY <1>1
  <2>2. IsFiniteSet(V)
    BY <1>2, FS_Subset
  <2>3. Cardinality(V \ U) = Cardinality(V) - Cardinality(V \cap U)
    BY <2>2, FS_Difference
  <2>4. Cardinality(V \cap U) = off
    BY <1>4, <2>1
  <2>5. Cardinality(V \ U) = limit
    BY <1>6, <2>3, <2>4
  <2>6. QED
    BY <1>1, <2>5
<1>8. rows # {}
  BY <1>7, FS_EmptySet
<1>9. QED
  BY <1>6, <1>7, <1>8

\* Rows that are added only push a row that is owed further down.
LEMMA GrowthKeepsPaging ==
  ASSUME TypeOK, PagingInv, NothingMissed,
         decisions \subseteq decisions', IsFiniteSet(decisions'),
         UNCHANGED <<kind, paging>>,
         \A q \in Requests : kind[q] = "page" /\ pc'[q] = "ok" => pc[q] = "ok"
  PROVE  PagingInv' /\ NothingMissed'
<1>1. \A q \in Requests : owed[q] \subseteq decisions
  BY DEF TypeOK
<1>2. \A d \in decisions : AloneAt(d)' => AloneAt(d)
  BY DEF AloneAt
<1>3. \A d \in decisions :
        /\ Cardinality(Newer(d)) \in Nat /\ Cardinality(Newer(d)') \in Nat
        /\ Cardinality(Newer(d)) <= Cardinality(Newer(d)')
  <2> SUFFICES ASSUME NEW d \in decisions
               PROVE  /\ Cardinality(Newer(d)) \in Nat /\ Cardinality(Newer(d)') \in Nat
                      /\ Cardinality(Newer(d)) <= Cardinality(Newer(d)')
    OBVIOUS
  <2>1. Newer(d) \in SUBSET Newer(d)' /\ Newer(d)' \in SUBSET decisions'
    BY DEF Newer
  <2>2. IsFiniteSet(Newer(d)') /\ IsFiniteSet(Newer(d))
    BY <2>1, FS_Subset
  <2>3. QED
    BY <2>1, <2>2, FS_Subset, FS_CardinalityType
<1>4. \A q \in Requests : \A d \in owed[q] :
        AloneAt(d)' /\ d \notin seen[q] => Cardinality(Newer(d)') >= offset[q]
  BY <1>1, <1>2, <1>3 DEF PagingInv, TypeOK
<1>5. PagingInv'
  BY <1>4 DEF PagingInv, paging
<1>6. NothingMissed'
  BY <1>1, <1>2 DEF NothingMissed, paging
<1>7. QED
  BY <1>5, <1>6

\* A page: the rows it does not show and the client is owed are still to come.
LEMMA ListPages ==
  ASSUME TypeOK, PagingInv, NothingMissed, NEW q \in Requests, List(q)
  PROVE  PagingInv' /\ NothingMissed'
<1>1. PICK want \in Wants : \E rows \in ListForOrg(ParsePagination(want), offset[q]) :
        /\ seen' = [seen EXCEPT ![q] = @ \cup rows]
        /\ offset' = [offset EXCEPT ![q] = @ + Cardinality(rows)]
        /\ pc' = [pc EXCEPT ![q] = IF rows = {} THEN "ok" ELSE "start"]
  BY DEF List
<1>2. PICK rows \in ListForOrg(ParsePagination(want), offset[q]) :
        /\ seen' = [seen EXCEPT ![q] = @ \cup rows]
        /\ offset' = [offset EXCEPT ![q] = @ + Cardinality(rows)]
        /\ pc' = [pc EXCEPT ![q] = IF rows = {} THEN "ok" ELSE "start"]
  BY <1>1
<1>3. /\ turn' = [turn EXCEPT ![q] = @ + 1]
      /\ owed' = [owed EXCEPT ![q] = IF turn[q] = 0 THEN decisions ELSE @]
      /\ UNCHANGED <<kind, decisions>>
  BY DEF List
<1>4. /\ IsFiniteSet(decisions) /\ decisions \subseteq Decision
      /\ ParsePagination(want) \in Nat \ {0} /\ offset[q] \in Nat
  BY PageSize DEF PagingInv, TypeOK
<1>5. ASSUME NEW d \in owed'[q], AloneAt(d)', d \notin seen'[q]
      PROVE  rows # {} /\ Cardinality(Newer(d)) >= offset'[q]
  <2>1. d \in decisions /\ AloneAt(d) /\ d \notin rows /\ d \notin seen[q]
    BY <1>2, <1>3, <1>5 DEF TypeOK, AloneAt
  <2>2. Cardinality(Newer(d)) >= offset[q]
    <3>1. CASE turn[q] = 0
      <4>1. Newer(d) \in SUBSET decisions
        BY DEF Newer
      <4>2. Cardinality(Newer(d)) \in Nat
        BY <4>1, <1>4, FS_Subset, FS_CardinalityType
      <4>3. offset[q] = 0
        BY <3>1 DEF PagingInv
      <4>4. QED
        BY <4>2, <4>3
    <3>2. CASE turn[q] # 0
      BY <3>2, <2>1, <1>3, <1>5 DEF PagingInv, TypeOK
    <3>3. QED
      BY <3>1, <3>2
  <2>3. rows # {} /\ Cardinality(Newer(d)) >= offset[q] + Cardinality(rows)
    BY <1>4, <2>1, <2>2, PageAdvances
  <2>4. offset'[q] = offset[q] + Cardinality(rows)
    BY <1>2 DEF TypeOK
  <2>5. QED
    BY <2>3, <2>4
<1>6. \A r \in Requests \ {q} :
        /\ offset'[r] = offset[r] /\ seen'[r] = seen[r] /\ pc'[r] = pc[r]
        /\ turn'[r] = turn[r] /\ owed'[r] = owed[r]
  BY <1>2, <1>3 DEF TypeOK
<1>7. turn'[q] # 0
  BY <1>3 DEF TypeOK
<1>8. \A d : Newer(d)' = Newer(d) /\ (AloneAt(d)' <=> AloneAt(d))
  BY <1>3 DEF Newer, AloneAt
<1>9. PagingInv'
  <2>1. \A r \in Requests : turn'[r] = 0 => offset'[r] = 0
    BY <1>6, <1>7 DEF PagingInv
  <2>2. \A r \in Requests : \A d \in owed'[r] :
          AloneAt(d)' /\ d \notin seen'[r] => Cardinality(Newer(d)') >= offset'[r]
    <3> SUFFICES ASSUME NEW r \in Requests, NEW d \in owed'[r],
                        AloneAt(d)', d \notin seen'[r]
                 PROVE  Cardinality(Newer(d)) >= offset'[r]
      BY <1>8
    <3>1. CASE r = q
      BY <3>1, <1>5
    <3>2. CASE r # q
      BY <3>2, <1>6, <1>8 DEF PagingInv
    <3>3. QED
      BY <3>1, <3>2
  <2>3. QED
    BY <1>3, <2>1, <2>2 DEF PagingInv
<1>10. NothingMissed'
  <2> SUFFICES ASSUME NEW r \in Requests, kind'[r] = "page", pc'[r] = "ok",
                      NEW d \in owed'[r], AloneAt(d)'
               PROVE  d \in seen'[r]
    BY DEF NothingMissed
  <2>1. CASE r = q
    <3>1. rows = {}
      BY <2>1, <1>2 DEF TypeOK
    <3>2. QED
      BY <3>1, <2>1, <1>5
  <2>2. CASE r # q
    BY <2>2, <1>3, <1>6, <1>8 DEF NothingMissed
  <2>3. QED
    BY <2>1, <2>2
<1>11. QED
  BY <1>9, <1>10

LEMMA PagingStep ==
  TypeOK /\ TrailInv /\ PagingInv /\ NothingMissed /\ [Next]_vars
    => PagingInv' /\ NothingMissed'
<1> SUFFICES ASSUME TypeOK, TrailInv, PagingInv, NothingMissed, [Next]_vars
             PROVE  PagingInv' /\ NothingMissed'
  OBVIOUS
<1>1. ASSUME NEW q \in Requests, List(q) PROVE PagingInv' /\ NothingMissed'
  BY <1>1, ListPages
<1>2. ASSUME NEW q \in Requests,
             \/ CheckPermission(q) \/ CheckFails(q) \/ RecordDecision(q) \/ Handle(q)
             \/ Commit(q) \/ RevokeFamily(q) \/ Log(q) \/ ListFails(q)
      PROVE  PagingInv' /\ NothingMissed'
  <2>1. decisions \subseteq decisions' /\ UNCHANGED <<kind, paging>>
    BY <1>2 DEF CheckPermission, CheckFails, RecordDecision, Handle, Commit,
                RevokeFamily, Log, ListFails
  <2>2. decisions' = decisions \/ decisions' = decisions \cup {row[q]}
    BY <1>2 DEF CheckPermission, CheckFails, RecordDecision, Handle, Commit,
                RevokeFamily, Log, ListFails
  <2>3. IsFiniteSet(decisions')
    BY <2>2, FS_AddElement DEF PagingInv
  <2>4. ASSUME NEW r \in Requests, kind[r] = "page", pc'[r] = "ok", pc[r] # "ok"
        PROVE  FALSE
    <3>1. kind[q] # "page" \/ pc'[q] # "ok" \/ pc[q] = "ok"
      BY <1>2 DEF CheckPermission, CheckFails, RecordDecision, Handle, Commit,
                  RevokeFamily, Log, ListFails, TypeOK, TrailInv, ProgressInv, Audited
    <3>2. \A p \in Requests : p # q => pc'[p] = pc[p]
      BY <1>2 DEF CheckPermission, CheckFails, RecordDecision, Handle, Commit,
                  RevokeFamily, Log, ListFails, TypeOK
    <3>3. QED
      BY <2>4, <3>1, <3>2
  <2>5. QED
    BY <2>1, <2>3, <2>4, GrowthKeepsPaging
<1>3. CASE Tick \/ UNCHANGED vars
  <2>1. UNCHANGED <<decisions, pc, kind, paging>>
    BY <1>3 DEF Tick, vars, paging
  <2>2. QED
    BY <2>1, GrowthKeepsPaging DEF PagingInv
<1>4. QED
  BY <1>1, <1>2, <1>3 DEF Next

-----------------------------------------------------------------------------
(* The theorems                                                            *)

\* The invariant that carries the theorems below: how far each request of
\* authz.go and service.go has come, and where its page stands.
THEOREM Invariant == Spec => []IInv
<1>1. IInv /\ [Next]_vars => IInv'
  BY TypeStep, TrailStep, PagingStep DEF IInv, PagingInv
<1>2. QED
  BY InitInv, <1>1, PTL DEF Spec

\* The variables of the trails keep their types.
THEOREM TypeCorrect == Spec => []TypeOK
BY Invariant, PTL DEF IInv

\* An entry or a decision never tells what did not happen (service.go:121-137,
\* 337-364; authz.go:44-60).
THEOREM TrailsAreTrue == Spec => []TrailTellsTruth
<1>1. IInv => TrailTellsTruth
  BY DEF IInv, TrailInv
<1>2. QED
  BY Invariant, <1>1, PTL

\* A row that is missing was reported to the service's log (authz.go:46-54,
\* service.go:125-137).
THEOREM LossesAreLogged == Spec => []MissesAreLogged
<1>1. IInv => MissesAreLogged
  BY DEF IInv, TrailInv
<1>2. QED
  BY Invariant, <1>1, PTL

\* A client that pages to the end misses no decision there was when it began
\* (authz/repository.go:43-49, utils/pagination.go:11-25).
THEOREM PagingMissesNothing == Spec => []NothingMissed
<1>1. IInv => NothingMissed
  BY DEF IInv
<1>2. QED
  BY Invariant, <1>1, PTL
=============================================================================

------------------------- MODULE ClaudeLanesProofs -------------------------
(***************************************************************************)
(* The lanes of ClaudeLanes keep their slots and the order of their queue  *)
(* for every finite set of calls, every set of lanes and every limit.      *)
(***************************************************************************)
EXTENDS ClaudeLanes, FiniteSetTheorems, SequenceTheorems, TLAPS

\* The calls that hold a slot are finitely many.
LEMMA HoldingFinite ==
  ASSUME NEW l \in Lanes
  PROVE  IsFiniteSet(Holding(l)) /\ Cardinality(Holding(l)) \in Nat
<1>1. Holding(l) \subseteq Calls
  BY DEF Holding
<1> QED
  BY <1>1, CallsAssumption, FS_Subset, FS_CardinalityType

\* A step that moves no call to or from a slot or a queue keeps the invariant.
LEMMA StayKeeps ==
  ASSUME LaneInvariant,
         UNCHANGED <<active, waiters>>,
         pc' \in [Calls -> {"idle", "waiting", "granted", "invoking"}],
         \A c \in Calls : pc'[c] # pc[c] => {pc[c], pc'[c]} \subseteq {"granted", "invoking"},
         resume' \in [Calls -> BOOLEAN], aborted' \in [Calls -> BOOLEAN],
         blocked' \in BOOLEAN, soft' \in BOOLEAN
  PROVE  LaneInvariant'
<1>1. \A l \in Lanes : Holding(l)' = Holding(l)
  BY DEF Holding
<1>2. SlotsConserved'
  BY <1>1 DEF LaneInvariant, SlotsConserved
<1>3. QueueShape'
  <2> SUFFICES ASSUME NEW l \in Lanes
               PROVE  /\ \A i \in DOMAIN waiters[l] :
                           LaneOf[waiters[l][i]] = l /\ pc'[waiters[l][i]] = "waiting"
                      /\ \A i, j \in DOMAIN waiters[l] : waiters[l][i] = waiters[l][j] => i = j
    BY DEF QueueShape
  <2>1. \A i \in DOMAIN waiters[l] : waiters[l][i] \in Calls
    BY DEF LaneInvariant, TypeOK
  <2> QED
    BY <2>1 DEF LaneInvariant, QueueShape
<1>4. TypeOK' /\ NoIdleSlot' /\ QueueBounded'
  BY DEF LaneInvariant, TypeOK, NoIdleSlot, QueueBounded
<1> QED
  BY <1>2, <1>3, <1>4 DEF LaneInvariant

\* A call that asks takes a free slot or joins the queue of a full lane.
LEMMA AskKeeps ==
  ASSUME LaneInvariant, NEW c \in Calls, Ask(c)
  PROVE  LaneInvariant'
<1> DEFINE l == LaneOf[c]
<1>0. l \in Lanes /\ active[l] \in Nat /\ MaxConcurrency[l] \in Nat /\ MaxPending \in Nat
  BY CallsAssumption, LimitsAssumption DEF LaneInvariant, TypeOK
<1>1. waiters \in [Lanes -> Seq(Calls)] /\ active \in [Lanes -> Nat]
  BY DEF LaneInvariant, TypeOK
<1>2. pc[c] = "idle" /\ Len(waiters[l]) <= MaxPending
  BY DEF Ask
<1>3. \A k \in Lanes : \A i \in DOMAIN waiters[k] : waiters[k][i] \in Calls /\ waiters[k][i] # c
  BY <1>1, <1>2 DEF LaneInvariant, QueueShape
<1>4. CASE /\ active[l] < MaxConcurrency[l]
           /\ active' = [active EXCEPT ![l] = @ + 1]
           /\ pc' = [pc EXCEPT ![c] = "granted"]
           /\ UNCHANGED waiters
  <2>1. TypeOK'
    BY <1>0, <1>4 DEF Ask, circuit, LaneInvariant, TypeOK
  <2>2. QueueShape'
    BY <1>3, <1>4 DEF LaneInvariant, TypeOK, QueueShape
  <2>3. Holding(l)' = Holding(l) \cup {c} /\ c \notin Holding(l)
    BY <1>2, <1>4 DEF Holding, LaneInvariant, TypeOK
  <2>4. \A k \in Lanes \ {l} : Holding(k)' = Holding(k)
    BY <1>4 DEF Holding, LaneInvariant, TypeOK
  <2>5. Cardinality(Holding(l)') = Cardinality(Holding(l)) + 1
    BY <1>0, <2>3, HoldingFinite, FS_AddElement
  <2>6. SlotsConserved'
    BY <1>0, <1>1, <1>4, <2>4, <2>5 DEF LaneInvariant, SlotsConserved
  <2>7. waiters[l] = <<>>
    BY <1>0, <1>4 DEF LaneInvariant, NoIdleSlot
  <2>8. NoIdleSlot' /\ QueueBounded'
    BY <1>1, <1>4, <2>7 DEF LaneInvariant, NoIdleSlot, QueueBounded
  <2> QED
    BY <2>1, <2>2, <2>6, <2>8 DEF LaneInvariant
<1>5. CASE /\ active[l] >= MaxConcurrency[l]
           /\ waiters' = [waiters EXCEPT ![l] = Append(@, c)]
           /\ pc' = [pc EXCEPT ![c] = "waiting"]
           /\ UNCHANGED active
  <2>1. waiters[l] \in Seq(Calls) /\ Append(waiters[l], c) \in Seq(Calls)
    BY <1>0, <1>1, AppendProperties
  <2>2. TypeOK'
    BY <1>0, <1>5, <2>1 DEF Ask, circuit, LaneInvariant, TypeOK
  <2>3. /\ waiters'[l] = Append(waiters[l], c)
        /\ \A k \in Lanes \ {l} : waiters'[k] = waiters[k]
    BY <1>0, <1>1, <1>5
  <2>4. \A k \in Lanes : Holding(k)' = Holding(k)
    BY <1>2, <1>5 DEF Holding, LaneInvariant, TypeOK
  <2>5. SlotsConserved'
    BY <1>5, <2>4 DEF LaneInvariant, SlotsConserved
  <2>6. active[l] = MaxConcurrency[l]
    BY <1>0, <1>5 DEF LaneInvariant, SlotsConserved
  <2>7. NoIdleSlot'
    BY <1>5, <2>3, <2>6 DEF LaneInvariant, NoIdleSlot
  <2>8. Len(waiters'[l]) = Len(waiters[l]) + 1 /\ Len(waiters[l]) \in Nat
    BY <2>1, <2>3, AppendProperties, LenProperties
  <2>9. QueueBounded'
    BY <1>0, <1>2, <2>3, <2>8 DEF LaneInvariant, QueueBounded
  <2>10. QueueShape'
    <3> SUFFICES ASSUME NEW k \in Lanes
                 PROVE  /\ \A i \in DOMAIN waiters'[k] :
                             LaneOf[waiters'[k][i]] = k /\ pc'[waiters'[k][i]] = "waiting"
                        /\ \A i, j \in DOMAIN waiters'[k] :
                             waiters'[k][i] = waiters'[k][j] => i = j
      BY DEF QueueShape
    <3>1. CASE k # l
      BY <1>3, <1>5, <2>3, <3>1 DEF LaneInvariant, TypeOK, QueueShape
    <3>2. CASE k = l
      <4>1. /\ DOMAIN waiters'[l] = 1..(Len(waiters[l]) + 1)
            /\ DOMAIN waiters[l] = 1..Len(waiters[l])
            /\ \A i \in 1..Len(waiters[l]) : waiters'[l][i] = waiters[l][i]
            /\ waiters'[l][Len(waiters[l]) + 1] = c
        BY <2>1, <2>3, <2>8, AppendProperties, LenProperties
      <4>2. pc'[c] = "waiting" /\ LaneOf[c] = l /\ \A d \in Calls \ {c} : pc'[d] = pc[d]
        BY <1>5 DEF LaneInvariant, TypeOK
      <4> HIDE DEF l
      <4>3. ASSUME NEW i \in DOMAIN waiters'[l]
            PROVE  LaneOf[waiters'[l][i]] = l /\ pc'[waiters'[l][i]] = "waiting"
        <5>1. CASE i = Len(waiters[l]) + 1
          BY <4>1, <4>2, <5>1
        <5>2. CASE i \in 1..Len(waiters[l])
          BY <1>0, <1>3, <4>1, <4>2, <5>2 DEF LaneInvariant, QueueShape
        <5> QED
          BY <2>8, <4>1, <5>1, <5>2
      <4>4. ASSUME NEW i \in DOMAIN waiters'[l], NEW j \in DOMAIN waiters'[l],
                   waiters'[l][i] = waiters'[l][j]
            PROVE  i = j
        <5>1. \A h \in 1..Len(waiters[l]) : waiters[l][h] # c
          BY <1>0, <1>3, <4>1
        <5>2. CASE i \in 1..Len(waiters[l]) /\ j \in 1..Len(waiters[l])
          <6>1. waiters[l][i] = waiters[l][j]
            BY <4>1, <4>4, <5>2
          <6> QED
            BY <1>0, <4>1, <5>2, <6>1 DEF LaneInvariant, QueueShape
        <5>3. CASE i = Len(waiters[l]) + 1 /\ j = Len(waiters[l]) + 1
          BY <5>3
        <5>4. CASE i = Len(waiters[l]) + 1 /\ j \in 1..Len(waiters[l])
          BY <4>1, <4>4, <5>1, <5>4
        <5>5. CASE i \in 1..Len(waiters[l]) /\ j = Len(waiters[l]) + 1
          BY <4>1, <4>4, <5>1, <5>5
        <5>6. /\ i \in 1..Len(waiters[l]) \/ i = Len(waiters[l]) + 1
              /\ j \in 1..Len(waiters[l]) \/ j = Len(waiters[l]) + 1
          BY <2>8, <4>1
        <5> QED
          BY <5>2, <5>3, <5>4, <5>5, <5>6
      <4> QED
        BY <3>2, <4>3, <4>4
    <3> QED
      BY <3>1, <3>2
  <2> QED
    BY <2>2, <2>5, <2>7, <2>9, <2>10 DEF LaneInvariant
<1> QED
  BY <1>4, <1>5 DEF Ask

\* A call that leaves hands its slot to the first waiter, or frees it when
\* nobody waits: the counter is not touched in the first case.
LEMMA LeaveKeeps ==
  ASSUME LaneInvariant, NEW c \in Calls, pc[c] \in {"granted", "invoking"}, Leave(c),
         blocked' \in BOOLEAN, soft' \in BOOLEAN
  PROVE  LaneInvariant'
<1> DEFINE l == LaneOf[c]
<1>0. l \in Lanes /\ active[l] \in Nat /\ MaxConcurrency[l] \in Nat
  BY CallsAssumption, LimitsAssumption DEF LaneInvariant, TypeOK
<1>1. waiters \in [Lanes -> Seq(Calls)] /\ active \in [Lanes -> Nat]
  BY DEF LaneInvariant, TypeOK
<1>2. c \in Holding(l)
  BY DEF Holding
<1>3. /\ active[l] = Cardinality(Holding(l))
      /\ active[l] <= MaxConcurrency[l]
      /\ active[l] >= 1
  <2>1. Cardinality(Holding(l)) # 0
    BY <1>0, <1>2, HoldingFinite, FS_EmptySet
  <2> QED
    BY <1>0, <2>1 DEF LaneInvariant, SlotsConserved
<1>4. \A k \in Lanes : \A i \in DOMAIN waiters[k] :
        /\ waiters[k][i] \in Calls /\ waiters[k][i] # c
        /\ LaneOf[waiters[k][i]] = k /\ pc[waiters[k][i]] = "waiting"
  BY <1>1 DEF LaneInvariant, QueueShape
<1>5. resume' \in [Calls -> BOOLEAN] /\ aborted' \in [Calls -> BOOLEAN]
  BY DEF Leave, LaneInvariant, TypeOK
<1>6. CASE waiters[l] = <<>>
  <2>1. /\ pc' = [pc EXCEPT ![c] = "idle"]
        /\ active' = [active EXCEPT ![l] = @ - 1]
        /\ waiters' = waiters
    BY <1>6 DEF Leave
  <2>2. TypeOK'
    BY <1>0, <1>3, <1>5, <2>1 DEF LaneInvariant, TypeOK
  <2>3. QueueShape'
    BY <1>4, <2>1 DEF LaneInvariant, TypeOK, QueueShape
  <2>4. /\ Holding(l)' = Holding(l) \ {c}
        /\ \A k \in Lanes \ {l} : Holding(k)' = Holding(k)
    BY <2>1 DEF Holding, LaneInvariant, TypeOK
  <2>5. Cardinality(Holding(l)') = Cardinality(Holding(l)) - 1
    <3>1. IsFiniteSet(Holding(l))
      BY <1>0, HoldingFinite
    <3>2. Cardinality(Holding(l) \ {c}) = Cardinality(Holding(l)) - 1
      BY <1>2, <3>1, FS_RemoveElement
    <3> QED
      BY <2>4, <3>2
  <2> HIDE DEF l
  <2>6. SlotsConserved'
    <3> SUFFICES ASSUME NEW k \in Lanes
                 PROVE  active'[k] = Cardinality(Holding(k)') /\ active'[k] <= MaxConcurrency[k]
      BY DEF SlotsConserved
    <3>1. CASE k = l
      <4>1. active'[l] = active[l] - 1
        BY <1>0, <1>1, <2>1
      <4> QED
        BY <1>0, <1>3, <2>5, <3>1, <4>1
    <3>2. CASE k # l
      <4>1. active'[k] = active[k] /\ Holding(k)' = Holding(k)
        BY <1>1, <2>1, <2>4, <3>2
      <4> QED
        BY <4>1 DEF LaneInvariant, SlotsConserved
    <3> QED
      BY <3>1, <3>2
  <2>7. NoIdleSlot' /\ QueueBounded'
    BY <1>0, <1>1, <1>6, <2>1 DEF LaneInvariant, NoIdleSlot, QueueBounded
  <2> QED
    BY <2>2, <2>3, <2>6, <2>7 DEF LaneInvariant
<1>7. CASE waiters[l] # <<>>
  <2> DEFINE n == Head(waiters[l])
  <2>0. waiters[l] \in Seq(Calls)
    BY <1>0, <1>1
  <2>1. /\ pc' = [pc EXCEPT ![c] = "idle", ![n] = "granted"]
        /\ active' = active
        /\ waiters' = [waiters EXCEPT ![l] = Tail(@)]
    BY <1>0, <1>3, <1>7 DEF Leave
  <2>2. /\ n = waiters[l][1] /\ 1 \in DOMAIN waiters[l]
        /\ Tail(waiters[l]) \in Seq(Calls)
        /\ Len(Tail(waiters[l])) = Len(waiters[l]) - 1
        /\ DOMAIN Tail(waiters[l]) = 1..(Len(waiters[l]) - 1)
        /\ DOMAIN waiters[l] = 1..Len(waiters[l])
        /\ \A i \in 1..(Len(waiters[l]) - 1) : Tail(waiters[l])[i] = waiters[l][i + 1]
        /\ Len(waiters[l]) \in Nat
    BY <1>7, <2>0, HeadTailProperties, LenProperties, EmptySeq
  <2>3. n \in Calls /\ n # c /\ LaneOf[n] = l /\ pc[n] = "waiting"
    BY <1>0, <1>4, <2>2
  <2>4. /\ waiters'[l] = Tail(waiters[l])
        /\ \A k \in Lanes \ {l} : waiters'[k] = waiters[k]
    BY <1>0, <1>1, <2>1
  <2>5. pc'[c] = "idle" /\ pc'[n] = "granted" /\ \A d \in Calls \ {c, n} : pc'[d] = pc[d]
    BY <2>1, <2>3 DEF LaneInvariant, TypeOK
  <2>6. TypeOK'
    BY <1>0, <1>5, <2>1, <2>2, <2>3 DEF LaneInvariant, TypeOK
  <2> HIDE DEF l, n
  <2>7. QueueShape'
    <3> SUFFICES ASSUME NEW k \in Lanes
                 PROVE  /\ \A i \in DOMAIN waiters'[k] :
                             LaneOf[waiters'[k][i]] = k /\ pc'[waiters'[k][i]] = "waiting"
                        /\ \A i, j \in DOMAIN waiters'[k] :
                             waiters'[k][i] = waiters'[k][j] => i = j
      BY DEF QueueShape
    <3>1. CASE k # l
      BY <1>4, <2>3, <2>4, <2>5, <3>1 DEF LaneInvariant, QueueShape
    <3>2. CASE k = l
      <4>1. ASSUME NEW i \in 1..(Len(waiters[l]) - 1)
            PROVE  /\ i + 1 \in DOMAIN waiters[l]
                   /\ waiters'[l][i] = waiters[l][i + 1]
                   /\ waiters[l][i + 1] # n
        BY <1>0, <2>2, <2>4 DEF LaneInvariant, QueueShape
      <4>2. \A i \in DOMAIN waiters'[l] :
              LaneOf[waiters'[l][i]] = l /\ pc'[waiters'[l][i]] = "waiting"
        <5> SUFFICES ASSUME NEW i \in 1..(Len(waiters[l]) - 1)
                     PROVE  /\ LaneOf[waiters'[l][i]] = l
                            /\ pc'[waiters'[l][i]] = "waiting"
          BY <2>2, <2>4
        <5>1. LET w == waiters[l][i + 1]
              IN  w \in Calls \ {c, n} /\ LaneOf[w] = l /\ pc[w] = "waiting"
          BY <1>0, <1>4, <4>1
        <5> QED
          BY <2>5, <4>1, <5>1
      <4>3. ASSUME NEW i \in DOMAIN waiters'[l], NEW j \in DOMAIN waiters'[l],
                   waiters'[l][i] = waiters'[l][j]
            PROVE  i = j
        <5>1. i \in 1..(Len(waiters[l]) - 1) /\ j \in 1..(Len(waiters[l]) - 1)
          BY <2>2, <2>4
        <5>2. /\ i + 1 \in DOMAIN waiters[l] /\ j + 1 \in DOMAIN waiters[l]
              /\ waiters[l][i + 1] = waiters[l][j + 1]
          BY <4>1, <4>3, <5>1
        <5>3. \A a, b \in DOMAIN waiters[l] : waiters[l][a] = waiters[l][b] => a = b
          BY <1>0 DEF LaneInvariant, QueueShape
        <5>4. i + 1 = j + 1
          BY <5>2, <5>3
        <5> QED
          BY <2>2, <5>1, <5>4
      <4> QED
        BY <3>2, <4>2, <4>3
    <3> QED
      BY <3>1, <3>2
  <2>8. /\ Holding(l)' = (Holding(l) \ {c}) \cup {n}
        /\ n \notin Holding(l) \ {c}
    BY <2>3, <2>5, <1>2 DEF Holding
  <2>9. \A k \in Lanes \ {l} : Holding(k)' = Holding(k)
    <3>1. LaneOf[c] = l
      BY DEF l
    <3> QED
      BY <2>3, <2>5, <3>1 DEF Holding
  <2>10. Cardinality(Holding(l)') = Cardinality(Holding(l))
    <3>1. /\ IsFiniteSet(Holding(l)) /\ IsFiniteSet(Holding(l) \ {c})
          /\ Cardinality(Holding(l) \ {c}) = Cardinality(Holding(l)) - 1
      BY <1>0, <1>2, HoldingFinite, FS_RemoveElement
    <3>2. Cardinality(Holding(l)') = Cardinality(Holding(l) \ {c}) + 1
      BY <2>8, <3>1, FS_AddElement
    <3> QED
      BY <1>0, <3>1, <3>2, HoldingFinite
  <2>11. SlotsConserved'
    BY <2>1, <2>9, <2>10 DEF LaneInvariant, SlotsConserved
  <2>12. NoIdleSlot'
    BY <1>0, <1>7, <2>1, <2>4 DEF LaneInvariant, NoIdleSlot
  <2>13. QueueBounded'
    <3> SUFFICES ASSUME NEW k \in Lanes PROVE Len(waiters'[k]) <= MaxPending + 1
      BY DEF QueueBounded
    <3>1. Len(waiters[k]) <= MaxPending + 1 /\ MaxPending \in Nat
      BY LimitsAssumption DEF LaneInvariant, QueueBounded
    <3>2. CASE k = l
      <4>1. Len(waiters'[l]) = Len(waiters[l]) - 1
        BY <2>2, <2>4
      <4> QED
        BY <2>2, <3>1, <3>2, <4>1
    <3> QED
      BY <2>4, <3>1, <3>2
  <2> QED
    BY <2>6, <2>7, <2>11, <2>12, <2>13 DEF LaneInvariant
<1> QED
  BY <1>6, <1>7

\* A failed call keeps its slot for the cold retry, or leaves.
LEMMA FailKeeps ==
  ASSUME LaneInvariant, NEW c \in Calls, pc[c] \in {"granted", "invoking"}, Fail(c),
         UNCHANGED circuit
  PROVE  LaneInvariant'
<1>1. blocked' \in BOOLEAN /\ soft' \in BOOLEAN
  BY DEF circuit, LaneInvariant, TypeOK
<1>2. CASE TryCold(c)
  <2>1. /\ pc' = [pc EXCEPT ![c] = "granted"]
        /\ resume' = [resume EXCEPT ![c] = FALSE]
        /\ UNCHANGED <<active, waiters, aborted>>
    BY <1>2 DEF TryCold
  <2>2. /\ pc' \in [Calls -> {"idle", "waiting", "granted", "invoking"}]
        /\ resume' \in [Calls -> BOOLEAN] /\ aborted' \in [Calls -> BOOLEAN]
        /\ \A d \in Calls : pc'[d] # pc[d] => {pc[d], pc'[d]} \subseteq {"granted", "invoking"}
    BY <2>1 DEF LaneInvariant, TypeOK
  <2> QED
    BY <1>1, <2>1, <2>2, StayKeeps
<1>3. CASE Leave(c)
  BY <1>1, <1>3, LeaveKeeps
<1> QED
  BY <1>2, <1>3 DEF Fail

\* The invariant of the lanes is inductive.
LEMMA LaneStep ==
  ASSUME LaneInvariant, [Next]_vars
  PROVE  LaneInvariant'
<1> USE DEF circuit
<1>0. TypeOK
  BY DEF LaneInvariant
<1>1. CASE UNCHANGED vars \/ Circuit
  BY <1>0, <1>1, StayKeeps DEF vars, Circuit, TypeOK
<1>2. ASSUME NEW c \in Calls, Invoke(c)
      PROVE  LaneInvariant'
  <2>1. UNCHANGED circuit /\ pc[c] = "granted" /\ blocked' \in BOOLEAN /\ soft' \in BOOLEAN
    BY <1>0, <1>2 DEF Invoke, TypeOK
  <2>2. CASE Leave(c)
    BY <2>1, <2>2, LeaveKeeps
  <2>3. CASE Fail(c)
    BY <2>1, <2>3, FailKeeps
  <2>4. CASE pc' = [pc EXCEPT ![c] = "invoking"] /\ UNCHANGED <<active, waiters, resume, aborted>>
    <3>1. /\ pc' \in [Calls -> {"idle", "waiting", "granted", "invoking"}]
          /\ \A d \in Calls : pc'[d] # pc[d] => {pc[d], pc'[d]} \subseteq {"granted", "invoking"}
      BY <1>0, <2>1, <2>4 DEF TypeOK
    <3> QED
      BY <1>0, <2>1, <2>4, <3>1, StayKeeps DEF TypeOK
  <2> QED
    BY <1>2, <2>2, <2>3, <2>4 DEF Invoke
<1>3. ASSUME NEW c \in Calls, Settle(c)
      PROVE  LaneInvariant'
  <2>1. pc[c] = "invoking" /\ soft' \in BOOLEAN /\ blocked' \in BOOLEAN
    BY <1>0, <1>3 DEF Settle, TypeOK, Arms
  <2>2. CASE Leave(c)
    BY <2>1, <2>2, LeaveKeeps
  <2>3. CASE Fail(c) /\ UNCHANGED circuit
    BY <2>1, <2>3, FailKeeps
  <2> QED
    BY <1>3, <2>2, <2>3 DEF Settle
<1>4. ASSUME NEW c \in Calls, Abort(c)
      PROVE  LaneInvariant'
  BY <1>0, <1>4, StayKeeps DEF Abort, TypeOK
<1> QED
  BY <1>1, <1>2, <1>3, <1>4, AskKeeps DEF Next

\* Idle lanes satisfy the invariant.
LEMMA LaneStart == Init => LaneInvariant
<1> SUFFICES ASSUME Init PROVE LaneInvariant
  OBVIOUS
<1>1. TypeOK
  BY CallsAssumption, EmptySeq DEF Init, TypeOK
<1>2. \A l \in Lanes : waiters[l] = <<>> /\ active[l] = 0
  BY DEF Init
<1>3. \A l \in Lanes : Holding(l) = {}
  BY DEF Init, Holding
<1>4. SlotsConserved
  BY <1>2, <1>3, FS_EmptySet, LimitsAssumption DEF SlotsConserved
<1>5. QueueShape /\ NoIdleSlot /\ QueueBounded
  BY <1>2, LimitsAssumption DEF QueueShape, NoIdleSlot, QueueBounded
<1> QED
  BY <1>1, <1>4, <1>5 DEF LaneInvariant

\* The conjunction every theorem below is read off.
THEOREM LaneSafety == Spec => []LaneInvariant
  BY LaneStart, LaneStep, PTL DEF Spec

\* Semaphore._active is a natural number in every behaviour.
THEOREM LaneTypes == Spec => []TypeOK
<1>1. LaneInvariant => TypeOK
  BY DEF LaneInvariant
<1> QED
  BY <1>1, LaneSafety, PTL

\* The counter of a lane counts the calls holding its slots, within the limit.
THEOREM LaneSlots == Spec => []SlotsConserved
<1>1. LaneInvariant => SlotsConserved
  BY DEF LaneInvariant
<1> QED
  BY <1>1, LaneSafety, PTL

\* Nobody waits in a lane with a free slot.
THEOREM LaneWorks == Spec => []NoIdleSlot
<1>1. LaneInvariant => NoIdleSlot
  BY DEF LaneInvariant
<1> QED
  BY <1>1, LaneSafety, PTL

\* At most one call joins a queue that has reached MAX_PENDING.
THEOREM LaneQueue == Spec => []QueueBounded
<1>1. LaneInvariant => QueueBounded
  BY DEF LaneInvariant
<1> QED
  BY <1>1, LaneSafety, PTL

-----------------------------------------------------------------------------
\* Every call that waits is in the queue of its lane.
Queued ==
  \A c \in Calls : pc[c] = "waiting" =>
    \E i \in DOMAIN waiters[LaneOf[c]] : waiters[LaneOf[c]][i] = c

\* What the end of a call does: it goes idle, and nobody else moves but the
\* first of its queue, which gets the slot.
LEMMA LeaveMoves ==
  ASSUME LaneInvariant, NEW c \in Calls, pc[c] \in {"granted", "invoking"}, Leave(c)
  PROVE  LET q == waiters[LaneOf[c]]
         IN  \/ /\ q = <<>> /\ waiters' = waiters
                /\ pc' = [pc EXCEPT ![c] = "idle"]
             \/ /\ q # <<>> /\ q \in Seq(Calls)
                /\ Head(q) \in Calls \ {c} /\ LaneOf[Head(q)] = LaneOf[c]
                /\ q[1] = Head(q)
                /\ waiters' = [waiters EXCEPT ![LaneOf[c]] = Tail(@)]
                /\ pc' = [pc EXCEPT ![c] = "idle", ![Head(q)] = "granted"]
<1> DEFINE l == LaneOf[c]
<1>0. l \in Lanes /\ active[l] \in Nat /\ MaxConcurrency[l] \in Nat
  BY CallsAssumption, LimitsAssumption DEF LaneInvariant, TypeOK
<1>1. waiters[l] \in Seq(Calls)
  BY <1>0 DEF LaneInvariant, TypeOK
<1>2. CASE waiters[l] = <<>>
  BY <1>2 DEF Leave
<1>3. CASE waiters[l] # <<>>
  <2>1. active[l] - 1 < MaxConcurrency[l]
    BY <1>0 DEF LaneInvariant, SlotsConserved
  <2>2. /\ Head(waiters[l]) = waiters[l][1] /\ 1 \in DOMAIN waiters[l]
        /\ Head(waiters[l]) \in Calls
    BY <1>1, <1>3, HeadTailProperties, LenProperties, EmptySeq
  <2>3. LaneOf[waiters[l][1]] = l /\ pc[waiters[l][1]] = "waiting"
    BY <1>0, <2>2 DEF LaneInvariant, QueueShape
  <2> QED
    BY <1>1, <1>3, <2>1, <2>2, <2>3 DEF Leave
<1> QED
  BY <1>2, <1>3

\* A call that waits elsewhere in the queue keeps its place when the first is
\* taken out.
LEMMA RestKeepsPlace ==
  ASSUME NEW S, NEW q \in Seq(S), q # <<>>, NEW d, d # Head(q),
         NEW i \in DOMAIN q, q[i] = d
  PROVE  /\ 1 \in DOMAIN q /\ q[1] = Head(q) /\ 1 < i
         /\ \E j \in DOMAIN Tail(q) : Tail(q)[j] = d
<1>1. /\ q[1] = Head(q) /\ Len(q) \in Nat /\ DOMAIN q = 1..Len(q)
      /\ Tail(q) \in Seq(S) /\ Len(Tail(q)) = Len(q) - 1
      /\ DOMAIN Tail(q) = 1..(Len(q) - 1)
      /\ \A j \in 1..(Len(q) - 1) : Tail(q)[j] = q[j + 1]
  BY HeadTailProperties, LenProperties, EmptySeq
<1>2. i # 1 /\ i \in 1..Len(q)
  BY <1>1
<1>3. i - 1 \in 1..(Len(q) - 1) /\ (i - 1) + 1 = i
  BY <1>1, <1>2
<1>4. Tail(q)[i - 1] = d
  BY <1>1, <1>3
<1> QED
  BY <1>1, <1>2, <1>3, <1>4

\* What a step does to the calls: one asks, one leaves, or one that has its
\* slot goes on with it.
LEMMA StepShapes ==
  ASSUME LaneInvariant, [Next]_vars
  PROVE  \/ \E c \in Calls : Ask(c)
         \/ \E c \in Calls : pc[c] \in {"granted", "invoking"} /\ Leave(c)
         \/ /\ waiters' = waiters
            /\ \A c \in Calls : pc'[c] # pc[c] => {pc[c], pc'[c]} \subseteq {"granted", "invoking"}
<1>0. pc \in [Calls -> {"idle", "waiting", "granted", "invoking"}]
  BY DEF LaneInvariant, TypeOK
<1>1. CASE UNCHANGED vars \/ Circuit
  BY <1>1 DEF vars, Circuit
<1>2. ASSUME NEW c \in Calls, pc[c] \in {"granted", "invoking"}, TryCold(c)
      PROVE  /\ waiters' = waiters
             /\ \A d \in Calls : pc'[d] # pc[d] => {pc[d], pc'[d]} \subseteq {"granted", "invoking"}
  BY <1>0, <1>2 DEF TryCold
<1>3. ASSUME NEW c \in Calls, Invoke(c), ~Leave(c)
      PROVE  /\ waiters' = waiters
             /\ \A d \in Calls : pc'[d] # pc[d] => {pc[d], pc'[d]} \subseteq {"granted", "invoking"}
  <2>1. CASE TryCold(c)
    BY <1>2, <1>3, <2>1 DEF Invoke
  <2>2. CASE pc' = [pc EXCEPT ![c] = "invoking"] /\ UNCHANGED <<active, waiters, resume, aborted>>
    BY <1>0, <1>3, <2>2 DEF Invoke
  <2> QED
    BY <1>3, <2>1, <2>2 DEF Invoke, Fail
<1>4. ASSUME NEW c \in Calls, Settle(c), ~Leave(c)
      PROVE  /\ waiters' = waiters
             /\ \A d \in Calls : pc'[d] # pc[d] => {pc[d], pc'[d]} \subseteq {"granted", "invoking"}
  BY <1>2, <1>4 DEF Settle, Fail
<1>5. ASSUME NEW c \in Calls, Abort(c)
      PROVE  waiters' = waiters /\ pc' = pc
  BY <1>5 DEF Abort
<1>6. ASSUME NEW c \in Calls, Invoke(c) \/ Settle(c)
      PROVE  pc[c] \in {"granted", "invoking"}
  BY <1>6 DEF Invoke, Settle
<1> QED
  BY <1>1, <1>3, <1>4, <1>5, <1>6 DEF Next

\* A call that starts to wait is put in the queue; it leaves it with its slot.
LEMMA QueuedStep ==
  ASSUME LaneInvariant, Queued, [Next]_vars
  PROVE  Queued'
<1>0. /\ pc \in [Calls -> {"idle", "waiting", "granted", "invoking"}]
      /\ waiters \in [Lanes -> Seq(Calls)]
      /\ LaneOf \in [Calls -> Lanes]
  BY CallsAssumption DEF LaneInvariant, TypeOK
<1> SUFFICES ASSUME NEW d \in Calls, pc'[d] = "waiting"
             PROVE  \E i \in DOMAIN waiters'[LaneOf[d]] : waiters'[LaneOf[d]][i] = d
  BY DEF Queued
<1> DEFINE q == waiters[LaneOf[d]]
<1>1. q \in Seq(Calls) /\ LaneOf[d] \in Lanes
  BY <1>0
<1>2. pc[d] = "waiting" => \E i \in DOMAIN q : q[i] = d
  BY DEF Queued
<1>3. ASSUME NEW c \in Calls, Ask(c)
      PROVE  \E i \in DOMAIN waiters'[LaneOf[d]] : waiters'[LaneOf[d]][i] = d
  <2>1. CASE pc' = [pc EXCEPT ![c] = "granted"] /\ UNCHANGED waiters
    BY <1>0, <1>2, <2>1
  <2>2. CASE /\ waiters' = [waiters EXCEPT ![LaneOf[c]] = Append(@, c)]
             /\ pc' = [pc EXCEPT ![c] = "waiting"]
    <3>1. CASE LaneOf[d] # LaneOf[c]
      BY <1>0, <1>1, <1>2, <2>2, <3>1
    <3>2. CASE LaneOf[d] = LaneOf[c]
      <4>1. waiters'[LaneOf[d]] = Append(q, c)
        BY <1>0, <1>1, <2>2, <3>2
      <4>2. /\ DOMAIN Append(q, c) = 1..(Len(q) + 1) /\ DOMAIN q = 1..Len(q)
            /\ Len(q) \in Nat
            /\ \A i \in 1..Len(q) : Append(q, c)[i] = q[i]
            /\ Append(q, c)[Len(q) + 1] = c
        BY <1>1, AppendProperties, LenProperties
      <4>3. c = d \/ pc[d] = "waiting"
        BY <1>0, <2>2
      <4> HIDE DEF q
      <4> QED
        BY <1>2, <4>1, <4>2, <4>3
    <3> QED
      BY <3>1, <3>2
  <2> QED
    BY <1>3, <2>1, <2>2 DEF Ask
<1>4. ASSUME NEW c \in Calls, pc[c] \in {"granted", "invoking"}, Leave(c)
      PROVE  \E i \in DOMAIN waiters'[LaneOf[d]] : waiters'[LaneOf[d]][i] = d
  <2>1. CASE waiters' = waiters /\ pc' = [pc EXCEPT ![c] = "idle"]
    BY <1>0, <1>2, <2>1
  <2> DEFINE p == waiters[LaneOf[c]]
  <2>2. CASE /\ p # <<>> /\ Head(p) \in Calls \ {c} /\ LaneOf[Head(p)] = LaneOf[c]
             /\ waiters' = [waiters EXCEPT ![LaneOf[c]] = Tail(@)]
             /\ pc' = [pc EXCEPT ![c] = "idle", ![Head(p)] = "granted"]
    <3>1. pc[d] = "waiting" /\ d # Head(p)
      BY <1>0, <2>2
    <3>2. PICK i \in DOMAIN q : q[i] = d
      BY <1>2, <3>1
    <3>3. CASE LaneOf[d] # LaneOf[c]
      BY <1>0, <1>1, <2>2, <3>2, <3>3
    <3>4. CASE LaneOf[d] = LaneOf[c]
      <4>1. waiters'[LaneOf[d]] = Tail(q) /\ p = q
        BY <1>0, <1>1, <2>2, <3>4
      <4>2. \E j \in DOMAIN Tail(q) : Tail(q)[j] = d
        <5>1. q \in Seq(Calls) /\ q # <<>> /\ d # Head(q)
          BY <1>1, <2>2, <3>1, <4>1
        <5> HIDE DEF q, p
        <5> QED
          BY <3>2, <5>1, RestKeepsPlace
      <4> QED
        BY <4>1, <4>2
    <3> QED
      BY <3>3, <3>4
  <2> QED
    BY <1>4, <2>1, <2>2, LeaveMoves
<1>5. ASSUME waiters' = waiters,
             \A c \in Calls : pc'[c] # pc[c] => {pc[c], pc'[c]} \subseteq {"granted", "invoking"}
      PROVE  \E i \in DOMAIN waiters'[LaneOf[d]] : waiters'[LaneOf[d]][i] = d
  BY <1>0, <1>2, <1>5
<1> QED
  BY <1>3, <1>4, <1>5, StepShapes

\* A call gets a slot from idle when nobody waits, and from waiting when it is
\* the first of its queue.
LEMMA OrderStep ==
  ASSUME LaneInvariant, Queued, [Next]_vars,
         NEW c \in Calls, NEW d \in Calls, LaneOf[c] = LaneOf[d], d # c,
         pc[c] \in {"idle", "waiting"}, pc'[c] = "granted", pc[d] = "waiting"
  PROVE  Ahead(c, d)
<1>0. /\ pc \in [Calls -> {"idle", "waiting", "granted", "invoking"}]
      /\ waiters \in [Lanes -> Seq(Calls)] /\ active \in [Lanes -> Nat]
      /\ LaneOf \in [Calls -> Lanes] /\ MaxConcurrency \in [Lanes -> Nat \ {0}]
  BY CallsAssumption, LimitsAssumption DEF LaneInvariant, TypeOK
<1> DEFINE q == waiters[LaneOf[d]]
<1>1. PICK i \in DOMAIN q : q[i] = d
  BY DEF Queued
<1>2. q \in Seq(Calls) /\ q # <<>>
  BY <1>0, <1>1, EmptySeq
<1>3. ASSUME NEW e \in Calls, Ask(e)
      PROVE  FALSE
  <2>1. active[LaneOf[d]] = MaxConcurrency[LaneOf[d]]
    BY <1>0, <1>2 DEF LaneInvariant, NoIdleSlot
  <2>2. CASE pc' = [pc EXCEPT ![e] = "granted"] /\ active[LaneOf[e]] < MaxConcurrency[LaneOf[e]]
    <3>1. e = c
      BY <1>0, <2>2
    <3> QED
      BY <1>0, <2>1, <2>2, <3>1
  <2>3. CASE pc' = [pc EXCEPT ![e] = "waiting"]
    BY <1>0, <2>3
  <2> QED
    BY <1>3, <2>2, <2>3 DEF Ask
<1>4. ASSUME NEW e \in Calls, pc[e] \in {"granted", "invoking"}, Leave(e)
      PROVE  Ahead(c, d)
  <2> DEFINE p == waiters[LaneOf[e]]
  <2>1. CASE pc' = [pc EXCEPT ![e] = "idle"]
    BY <1>0, <2>1
  <2>2. CASE /\ p # <<>> /\ Head(p) \in Calls \ {e} /\ LaneOf[Head(p)] = LaneOf[e]
             /\ p[1] = Head(p) /\ pc' = [pc EXCEPT ![e] = "idle", ![Head(p)] = "granted"]
    <3>1. c = Head(p)
      BY <1>0, <2>2
    <3>2. p = q
      BY <2>2, <3>1
    <3>3. 1 \in DOMAIN q /\ q[1] = c /\ 1 < i
      BY <1>1, <1>2, <3>1, <3>2, RestKeepsPlace
    <3> QED
      BY <1>1, <3>3 DEF Ahead
  <2> QED
    BY <1>4, <2>1, <2>2, LeaveMoves
<1> QED
  BY <1>3, <1>4, StepShapes

\* No call overtakes another of its lane on the way to a slot.
THEOREM LaneOrder == Spec => NoOvertaking
<1>1. Init => Queued
  BY DEF Init, Queued
<1>2. LaneInvariant /\ Queued /\ [Next]_vars => Queued'
  BY QueuedStep
<1>3. ASSUME LaneInvariant, Queued, [Next]_vars
      PROVE  [\A c, d \in Calls :
                LaneOf[c] = LaneOf[d] /\ pc[c] \in {"idle", "waiting"} /\ pc'[c] = "granted"
                /\ pc[d] = "waiting" /\ d # c => Ahead(c, d)]_vars
  BY <1>3, OrderStep
<1> QED
  BY <1>1, <1>2, <1>3, LaneSafety, PTL DEF Spec, NoOvertaking
=============================================================================

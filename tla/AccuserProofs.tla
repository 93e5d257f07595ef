--------------------------- MODULE AccuserProofs ---------------------------
(* Theorems about Accuser: its types for every value of the constants, and *)
(* which clusters give a new live leader the time to be elected.           *)
EXTENDS Accuser, FiniteSetTheorems, TLAPS

-----------------------------------------------------------------------------
(* Types                                                                   *)

State == [lastAccuse : 0..AccuseInterval, lastAccuseTerm : Int, termToAccuse : Nat,
          lastHeatbeat : 0..MaxTolerance+1, tolerance : Tolerance..MaxTolerance,
          hasHeatbeat : BOOLEAN]

\* The constants are numbers.
LEMMA Numbers ==
  /\ N \in Nat /\ AccuseInterval \in Nat \ {0} /\ AccuseAvailable \in Nat \ {0}
  /\ Tolerance \in Nat \ {0} /\ MaxTolerance \in Nat \ {0} /\ StartPause \in Nat \ {0}
  /\ ElectionTime \in Nat \ {0} /\ MaxOutage \in Nat \ {0}
  /\ Tolerance <= MaxTolerance /\ StartPause <= AccuseInterval
  /\ MaxFaultyN \in Int /\ AccuseQuorumN \in Int
<1>1. ((N - 1) \div 3) \in Int
  BY AccuserAssumption
<1> QED BY <1>1, AccuserAssumption DEF MaxFaultyN, AccuseQuorumN

\* Live is a finite set of N nodes without the dead ones.
LEMMA LiveNodes ==
  /\ IsFiniteSet(Live)
  /\ Cardinality(Dead) \in 1..MaxFaultyN
  /\ Cardinality(Live) = N - Cardinality(Dead)
<1>1. IsFiniteSet(Node) /\ Cardinality(Node) = N
  <2>1. N \in Nat \ {0} /\ 0 \in Int /\ N - 1 \in Int
    BY AccuserAssumption
  <2> QED BY <2>1, FS_Interval DEF Node
<1>2. Cardinality(Dead) \in 1..MaxFaultyN /\ MaxFaultyN <= N - 1
  BY AccuserAssumption DEF MaxFaultyN
<1>3. Dead \subseteq Node
  <2>1. Dead = 0..(Cardinality(Dead) - 1)
    BY AccuserAssumption
  <2>2. 0..(Cardinality(Dead) - 1) \subseteq 0..(N - 1)
    BY <1>2, Numbers
  <2> QED BY <2>1, <2>2 DEF Node
<1>4. Node \cap Dead = Dead
  BY <1>3
<1>5. IsFiniteSet(Node \ Dead) /\ Cardinality(Node \ Dead) = Cardinality(Node) - Cardinality(Dead)
  BY <1>1, <1>4, FS_Difference
<1> QED BY <1>1, <1>2, <1>5 DEF Live

\* An accuser with some of its fields replaced.
LEMMA Replace ==
  ASSUME NEW a \in State
  PROVE  /\ \A t \in Int : [a EXCEPT !.lastAccuse = 0, !.lastAccuseTerm = t] \in State
         /\ \A t \in Nat : [a EXCEPT !.termToAccuse = t, !.lastHeatbeat = 0,
                                     !.hasHeatbeat = TRUE] \in State
         /\ \A p \in 0..AccuseInterval, t \in Int, d \in Tolerance..MaxTolerance :
              [a EXCEPT !.lastAccuse = p, !.lastAccuseTerm = t, !.tolerance = d,
                        !.hasHeatbeat = TRUE] \in State
         /\ \A p \in 0..AccuseInterval, h \in 0..MaxTolerance+1 :
              [a EXCEPT !.lastAccuse = p, !.lastHeatbeat = h] \in State
<1>1. 0 \in 0..AccuseInterval /\ 0 \in 0..MaxTolerance+1
  BY Numbers
<1>2. ASSUME NEW p \in 0..AccuseInterval, NEW t \in Int
      PROVE  [a EXCEPT !.lastAccuse = p, !.lastAccuseTerm = t] \in State
  BY Zenon DEF State
<1>3. ASSUME NEW p \in 0..AccuseInterval, NEW h \in 0..MaxTolerance+1
      PROVE  [a EXCEPT !.lastAccuse = p, !.lastHeatbeat = h] \in State
  BY Zenon DEF State
<1>4. ASSUME NEW t \in Nat, NEW h \in 0..MaxTolerance+1
      PROVE  [a EXCEPT !.termToAccuse = t, !.lastHeatbeat = h, !.hasHeatbeat = TRUE] \in State
  BY Zenon DEF State
<1>5. ASSUME NEW p \in 0..AccuseInterval, NEW t \in Int, NEW d \in Tolerance..MaxTolerance
      PROVE  [a EXCEPT !.lastAccuse = p, !.lastAccuseTerm = t, !.tolerance = d,
                       !.hasHeatbeat = TRUE] \in State
  BY Zenon DEF State
<1> QED BY <1>1, <1>2, <1>3, <1>4, <1>5

\* The stored accuses after one more.
LEMMA HeldType ==
  ASSUME TypeOK, NEW n \in Live, NEW t \in Int
  PROVE  HandleWeakAccuse(n, t) \in [Live -> Age \cup {None}]
  BY Numbers DEF TypeOK, HandleWeakAccuse, Available, Age

\* What an accuse does to the store and the accusers.
LEMMA BroadcastType ==
  ASSUME TypeOK, NEW n \in Live, NEW t \in Int, NEW accusers \in [Live -> State],
         Broadcast(n, t, accusers)
  PROVE  /\ term' \in Nat /\ weakAccuses' \in [Live -> Age \cup {None}]
         /\ accuser' \in [Live -> State] /\ wait' \in 0..ElectionTime
<1> DEFINE held == HandleWeakAccuse(n, t)
           strong == t = term /\ Cardinality(Held(held)) >= AccuseQuorumN
<1>1. held \in [Live -> Age \cup {None}]
  BY HeldType
<1>2. /\ term' = IF strong THEN term + 1 ELSE term
      /\ weakAccuses' = IF strong THEN [m \in Live |-> None] ELSE held
      /\ accuser' = IF strong THEN [m \in Live |-> [accusers[m] EXCEPT !.termToAccuse = term + 1]]
                    ELSE accusers
      /\ wait' = IF strong THEN 0 ELSE wait
  BY DEF Broadcast
<1> HIDE DEF held, strong
<1>3. term \in Nat /\ term + 1 \in Nat /\ wait \in 0..ElectionTime /\ 0 \in 0..ElectionTime
  BY Numbers DEF TypeOK
<1>4. [m \in Live |-> [accusers[m] EXCEPT !.termToAccuse = term + 1]] \in [Live -> State]
  BY <1>3 DEF State
<1> QED BY <1>1, <1>2, <1>3, <1>4

\* Accuser.accuse.
LEMMA AccuseType ==
  ASSUME TypeOK, NEW n \in Live, NEW t \in Int, NEW a \in State, Accuse(n, t, a)
  PROVE  /\ term' \in Nat /\ weakAccuses' \in [Live -> Age \cup {None}]
         /\ accuser' \in [Live -> State] /\ wait' \in 0..ElectionTime
<1>1. accuser \in [Live -> State]
  BY DEF TypeOK, State
<1>2. CASE ~MayAccuse(a, t)
  BY <1>1, <1>2 DEF Accuse, TypeOK
<1>3. CASE MayAccuse(a, t)
  <2> DEFINE b == [a EXCEPT !.lastAccuse = 0, !.lastAccuseTerm = t]
  <2>1. b \in State
    BY Replace, Zenon
  <2>2. Broadcast(n, t, [accuser EXCEPT ![n] = b])
    BY <1>3 DEF Accuse
  <2> HIDE DEF b
  <2>3. [accuser EXCEPT ![n] = b] \in [Live -> State]
    BY <1>1, <2>1
  <2> QED BY <2>2, <2>3, BroadcastType
<1> QED BY <1>2, <1>3

\* The state a node's timer leaves: the tolerance doubles up to its maximum.
LEMMA ToleranceType ==
  ASSUME NEW a \in State
  PROVE  [a EXCEPT !.tolerance = Min(2 * a.tolerance, MaxTolerance)] \in State
<1>1. a.tolerance \in Tolerance..MaxTolerance
  BY DEF State
<1>2. Min(2 * a.tolerance, MaxTolerance) \in Tolerance..MaxTolerance
  BY <1>1, Numbers DEF Min
<1> QED BY <1>2 DEF State

LEMMA TypeInit == Init => TypeOK
<1> SUFFICES ASSUME Init PROVE TypeOK
  OBVIOUS
<1>1. NewAccuser \in State
  BY Numbers DEF NewAccuser, State
<1>2. ASSUME NEW p \in Pauses PROVE OldAccusers(p) \subseteq State
  <2>1. p \in 0..AccuseInterval /\ Tolerances \subseteq Tolerance..MaxTolerance /\ 0 \in Int
    BY AccuserAssumption
  <2>2. \A d \in Tolerances :
          [NewAccuser EXCEPT !.lastAccuse = p, !.lastAccuseTerm = 0, !.tolerance = d,
                             !.hasHeatbeat = TRUE] \in State
    BY <1>1, <2>1, Replace, Zenon
  <2> QED BY <2>2, Zenon DEF OldAccusers
<1>3. accuser \in [Live -> State]
  <2>1. UNION {OldAccusers(p) : p \in Pauses} \subseteq State
    BY <1>2, Zenon
  <2> QED BY <1>1, <2>1 DEF Init
<1>4. weakAccuses \in [Live -> Age \cup {None}] /\ over \in BOOLEAN
  BY DEF Init, StoredAccuses
<1>5. term \in Nat /\ outage \in 0..MaxOutage+1 /\ wait \in 0..ElectionTime
  BY Numbers DEF Init
<1> QED BY <1>3, <1>4, <1>5 DEF TypeOK, State

LEMMA TypeStep == TypeOK /\ [Next]_vars => TypeOK'
<1> SUFFICES ASSUME TypeOK, [Next]_vars PROVE TypeOK'
  OBVIOUS
<1>0. /\ accuser \in [Live -> State] /\ term \in Nat /\ wait \in 0..ElectionTime
      /\ outage \in 0..MaxOutage+1 /\ weakAccuses \in [Live -> Age \cup {None}]
      /\ over \in BOOLEAN
  BY DEF TypeOK, State
<1>1. ASSUME NEW n \in Live, CheckHeartbeat(n) PROVE TypeOK'
  <2>1. /\ accuser[n] \in State /\ accuser[n].termToAccuse \in Int
        /\ [accuser[n] EXCEPT !.tolerance = Min(2 * accuser[n].tolerance, MaxTolerance)] \in State
    BY <1>0, ToleranceType DEF State
  <2>2. /\ term' \in Nat /\ weakAccuses' \in [Live -> Age \cup {None}]
        /\ accuser' \in [Live -> State] /\ wait' \in 0..ElectionTime
    <3>1. \E b \in State : Accuse(n, accuser[n].termToAccuse, b)
      BY <1>1, <2>1 DEF CheckHeartbeat
    <3> QED BY <2>1, <3>1, AccuseType
  <2>3. outage' = outage /\ over' = over
    BY <1>0, <1>1 DEF CheckHeartbeat
  <2> QED BY <1>0, <2>2, <2>3 DEF TypeOK, State
<1>2. ASSUME NEW n \in Live, TxOverdue(n) PROVE TypeOK'
  <2>1. accuser[n] \in State /\ term \in Int
    BY <1>0
  <2>2. Accuse(n, term, accuser[n]) /\ UNCHANGED <<outage, over>>
    BY <1>2 DEF TxOverdue
  <2>3. /\ term' \in Nat /\ weakAccuses' \in [Live -> Age \cup {None}]
        /\ accuser' \in [Live -> State] /\ wait' \in 0..ElectionTime
    BY <2>1, <2>2, AccuseType
  <2> QED BY <1>0, <2>2, <2>3 DEF TypeOK, State
<1>3. CASE DoHeatbeat
  <2> DEFINE elected(n) == [accuser[n] EXCEPT !.termToAccuse = term, !.lastHeatbeat = 0,
                                              !.hasHeatbeat = TRUE]
  <2>1. \A n \in Live : elected(n) \in State
    BY <1>0, Replace, Zenon
  <2>2. accuser' = [n \in Live |-> elected(n)]
    BY <1>3, Zenon DEF DoHeatbeat
  <2> HIDE DEF elected
  <2>3. accuser' \in [Live -> State]
    BY <2>1, <2>2
  <2> QED BY <1>0, <1>3, <2>3 DEF DoHeatbeat, TypeOK, State
<1>4. CASE Tick
  <2> DEFINE older(n) == [accuser[n] EXCEPT
                            !.lastAccuse = Min(accuser[n].lastAccuse + 1, AccuseInterval),
                            !.lastHeatbeat = Min(accuser[n].lastHeatbeat + 1, MaxTolerance + 1)]
  <2>0. ASSUME NEW n \in Live PROVE older(n) \in State
    <3>1. /\ accuser[n] \in State
          /\ accuser[n].lastAccuse \in 0..AccuseInterval
          /\ accuser[n].lastHeatbeat \in 0..MaxTolerance+1
      BY <1>0 DEF State
    <3>2. /\ Min(accuser[n].lastAccuse + 1, AccuseInterval) \in 0..AccuseInterval
          /\ Min(accuser[n].lastHeatbeat + 1, MaxTolerance + 1) \in 0..MaxTolerance+1
      BY <3>1, Numbers DEF Min
    <3> QED BY <3>1, <3>2, Replace, Zenon
  <2>1. accuser' = [n \in Live |-> older(n)]
    BY <1>4, Zenon DEF Tick
  <2>2. accuser' \in [Live -> State]
    <3> HIDE DEF older
    <3> QED BY <2>0, <2>1
  <2>3. \A n \in Live : weakAccuses[n] # None =>
          Min(weakAccuses[n] + 1, AccuseAvailable + 1) \in Age
    BY <1>0, Numbers DEF Age, Min
  <2>4. weakAccuses' \in [Live -> Age \cup {None}]
    BY <1>4, <2>3 DEF Tick
  <2>5. outage' \in 0..MaxOutage+1 /\ wait' \in 0..ElectionTime
    <3>1. outage' = Min(outage + 1, MaxOutage + 1) /\ wait' = Min(wait + 1, ElectionTime)
      BY <1>4, Zenon DEF Tick
    <3> QED BY <1>0, <3>1, Numbers DEF Min
  <2> QED BY <1>0, <1>4, <2>2, <2>4, <2>5 DEF Tick, TypeOK, State
<1>5. CASE UNCHANGED vars
  BY <1>5 DEF vars, TypeOK
<1> QED BY <1>1, <1>2, <1>3, <1>4, <1>5 DEF Next

\* Every variable keeps its type: the ages stay below their caps and no tolerance
\* exceeds maxHeatbeatIntervalTolerance, however often it doubles.
THEOREM TypeCorrect == Spec => []TypeOK
<1> QED BY TypeInit, TypeStep, PTL DEF Spec

-----------------------------------------------------------------------------
(* The leader that follows the dead ones                                   *)

\* An election takes less than what is left of a pause when the accuse expires.
ElectionInPause == AccuseAvailable + ElectionTime < AccuseInterval

\* As many nodes are down as leave too few to accuse beside those that have to
\* pause: with 3f+1 nodes, all f of them.
FewLive == N - Cardinality(Dead) < 2 * AccuseQuorumN

\* An accuse that is stored and has not expired is the last one of its node.
StoredInv ==
  \A n \in Live : weakAccuses[n] # None /\ weakAccuses[n] <= AccuseAvailable
                    => accuser[n].lastAccuse <= weakAccuses[n]

\* Enough accuses are never left in the store.
FewInv == Cardinality(Held(weakAccuses)) < AccuseQuorumN

\* P brought down the last dead leader, and pauses since.
Pausing(P) ==
  /\ Cardinality(P) >= AccuseQuorumN
  /\ \A n \in P : weakAccuses[n] = None /\ accuser[n].lastAccuse <= AccuseAvailable + wait

PauseInv == term = MaxTerm => \E P \in SUBSET Live : Pausing(P)

IInv == TypeOK /\ StoredInv /\ FewInv /\ LiveLeaderStays /\ PauseInv

\* Nodes that hold something are finitely many.
LEMMA HeldFinite ==
  ASSUME NEW w
  PROVE  Held(w) \subseteq Live /\ IsFiniteSet(Held(w)) /\ Cardinality(Held(w)) \in Nat
<1>1. Held(w) \subseteq Live
  BY DEF Held
<1> QED BY <1>1, LiveNodes, FS_Subset, FS_CardinalityType

\* The leader of the last term of the outage is live.
LEMMA LeaderIsLive == LeaderNodeOfTerm(MaxTerm) \in Live
<1>1. Cardinality(Dead) \in 1..MaxFaultyN /\ MaxFaultyN <= N - 1
  BY AccuserAssumption DEF MaxFaultyN
<1>2. Cardinality(Dead) % N = Cardinality(Dead)
  BY <1>1, Numbers
<1>3. Cardinality(Dead) \in Node
  BY <1>1, Numbers DEF Node
<1>4. Cardinality(Dead) \notin Dead
  <2>1. Dead = 0..(Cardinality(Dead) - 1)
    BY AccuserAssumption
  <2> DEFINE d == Cardinality(Dead)
  <2>2. d \notin 0..(d - 1)
    <3>1. d \in Int
      BY <1>1, Numbers
    <3> HIDE DEF d
    <3> QED BY <3>1
  <2> QED BY <2>1, <2>2
<1> QED BY <1>2, <1>3, <1>4 DEF LeaderNodeOfTerm, MaxTerm, Live

\* The fields an accuse sets.
LEMMA AccuseFields ==
  ASSUME NEW a \in State, NEW t \in Int
  PROVE  [a EXCEPT !.lastAccuse = 0, !.lastAccuseTerm = t].lastAccuse = 0
  BY Zenon DEF State

\* One accuse, of a node whose pause is over: the store gets it, or a new term
\* begins, but never beyond the first live leader.
LEMMA BroadcastStep ==
  ASSUME IInv, ElectionInPause, FewLive, NEW n \in Live, NEW t \in Int,
         accuser[n].lastAccuse >= AccuseInterval,
         NEW b \in State, b.lastAccuse = 0,
         Broadcast(n, t, [accuser EXCEPT ![n] = b]), accuser' \in [Live -> State]
  PROVE  StoredInv' /\ FewInv' /\ LiveLeaderStays' /\ PauseInv'
<1> DEFINE H == HandleWeakAccuse(n, t)
           A == [accuser EXCEPT ![n] = b]
           strong == t = term /\ Cardinality(Held(H)) >= AccuseQuorumN
<1>0. /\ accuser \in [Live -> State] /\ term \in Nat /\ wait \in 0..ElectionTime
      /\ weakAccuses \in [Live -> Age \cup {None}] /\ None \notin Int
  BY AccuserAssumption DEF IInv, TypeOK, State
<1>1. /\ term' = IF strong THEN term + 1 ELSE term
      /\ weakAccuses' = IF strong THEN [m \in Live |-> None] ELSE H
      /\ accuser' = IF strong THEN [m \in Live |-> [A[m] EXCEPT !.termToAccuse = term + 1]] ELSE A
      /\ wait' = IF strong THEN 0 ELSE wait
  BY DEF Broadcast
<1>2. A \in [Live -> State] /\ A[n] = b /\ \A m \in Live \ {n} : A[m] = accuser[m]
  BY <1>0
<1>3. \/ H = weakAccuses /\ ~strong
      \/ /\ \A m \in Live \ {n} : H[m] = None \/ (H[m] = weakAccuses[m] /\ H[m] <= AccuseAvailable)
         /\ H[n] = 0 /\ t = term
         /\ H \in [Live -> Age \cup {None}]
  <2>1. CASE t # term \/ Cardinality(Held(weakAccuses)) >= AccuseQuorumN \/ weakAccuses[n] # None
    <3>1. H = weakAccuses
      BY <2>1 DEF HandleWeakAccuse
    <3>2. ~(Cardinality(Held(weakAccuses)) >= AccuseQuorumN)
      BY HeldFinite, Numbers DEF IInv, FewInv
    <3> QED BY <3>1, <3>2
  <2>2. CASE ~(t # term \/ Cardinality(Held(weakAccuses)) >= AccuseQuorumN \/ weakAccuses[n] # None)
    <3>1. H = [Available(weakAccuses) EXCEPT ![n] = 0]
      BY <2>2 DEF HandleWeakAccuse
    <3>2. \A m \in Live : \/ Available(weakAccuses)[m] = None
                          \/ /\ Available(weakAccuses)[m] = weakAccuses[m]
                             /\ weakAccuses[m] <= AccuseAvailable
      BY <1>0, Numbers DEF Available, Age
    <3>3. H \in [Live -> Age \cup {None}]
      BY HeldType DEF IInv
    <3>4. H[n] = 0 /\ \A m \in Live \ {n} : H[m] = Available(weakAccuses)[m]
      BY <3>1 DEF Available
    <3> HIDE DEF H
    <3> QED BY <2>2, <3>2, <3>3, <3>4
  <2> QED BY <2>1, <2>2
<1>4. Cardinality(Held(H)) \in Nat /\ IsFiniteSet(Held(H))
  BY HeldFinite
<1>5. \A m \in Live : H[m] # None /\ H[m] <= AccuseAvailable => A[m].lastAccuse <= H[m]
  <2>1. \A m \in Live \ {n} : H[m] # None => H[m] = weakAccuses[m]
    BY <1>3
  <2>2. H[n] # None => H[n] >= 0
    BY <1>0, <1>3, Numbers DEF Age
  <2> HIDE DEF H, A
  <2> QED BY <1>2, <2>1, <2>2 DEF IInv, StoredInv
<1>6. ASSUME NEW P \in SUBSET Live, Pausing(P)
      PROVE  /\ n \notin P
             /\ \A m \in P : H[m] = None /\ A[m] = accuser[m]
  <2>1. n \notin P
    BY <1>0, <1>6, Numbers DEF Pausing, ElectionInPause, State
  <2>2. \A m \in P : H[m] = None
    BY <1>3, <1>6, <2>1 DEF Pausing
  <2> QED BY <1>2, <2>1, <2>2
<1>7. strong => term # MaxTerm
  <2> SUFFICES ASSUME strong, term = MaxTerm PROVE FALSE
    OBVIOUS
  <2>1. PICK P \in SUBSET Live : Pausing(P)
    BY DEF IInv, PauseInv
  <2>2. IsFiniteSet(P) /\ Cardinality(P) \in Nat
    BY LiveNodes, FS_Subset, FS_CardinalityType
  <2>3. Held(H) \subseteq Live \ P
    BY <1>6, <2>1 DEF Held
  <2>4. Live \cap P = P
    OBVIOUS
  <2>5. IsFiniteSet(Live \ P) /\ Cardinality(Live \ P) = Cardinality(Live) - Cardinality(P)
    <3>1. IsFiniteSet(Live)
      BY LiveNodes
    <3> HIDE DEF H, A, strong
    <3>2. /\ IsFiniteSet(Live \ P)
          /\ Cardinality(Live \ P) = Cardinality(Live) - Cardinality(Live \cap P)
      BY <3>1, FS_Difference
    <3> QED BY <2>4, <3>2
  <2>6. Cardinality(Held(H)) <= Cardinality(Live \ P)
    BY <2>3, <2>5, FS_Subset
  <2>7. /\ Cardinality(P) >= AccuseQuorumN /\ Cardinality(Held(H)) >= AccuseQuorumN
        /\ Cardinality(Live) = N - Cardinality(Dead) /\ Cardinality(Dead) \in Int
    BY <2>1, LiveNodes, Numbers DEF Pausing
  <2> HIDE DEF H
  <2> QED BY <1>4, <2>2, <2>5, <2>6, <2>7, Numbers DEF FewLive
<1>8. MaxTerm \in Nat /\ AccuseQuorumN > 0
  BY LiveNodes, Numbers DEF MaxTerm, AccuseQuorumN
<1>9. CASE strong
  <2>1. weakAccuses' = [m \in Live |-> None] /\ wait' = 0 /\ term' = term + 1
    BY <1>1, <1>9, Zenon
  <2>2. \A m \in Live : accuser'[m].lastAccuse = A[m].lastAccuse
    <3>1. accuser' = [m \in Live |-> [A[m] EXCEPT !.termToAccuse = term + 1]]
      BY <1>1, <1>9, Zenon
    <3>2. \A m \in Live : A[m] \in State
      BY <1>2
    <3> HIDE DEF A
    <3> QED BY <3>1, <3>2 DEF State
  <2>3. \A m \in Live : weakAccuses'[m] = None
    BY <2>1
  <2>4. StoredInv'
    BY <2>3 DEF StoredInv
  <2>5. FewInv'
    <3>1. Held(weakAccuses') = {}
      BY <2>3 DEF Held
    <3> QED BY <1>8, <3>1, FS_EmptySet DEF FewInv
  <2>6. LiveLeaderStays'
    <3>1. term <= MaxTerm /\ term # MaxTerm
      BY <1>7, <1>9 DEF IInv, LiveLeaderStays
    <3>2. MaxTerm' = MaxTerm
      BY DEF MaxTerm
    <3> QED BY <1>0, <1>8, <2>1, <3>1 DEF LiveLeaderStays
  <2>7. \A m \in Held(H) : A[m].lastAccuse <= AccuseAvailable
    <3>1. \A m \in Held(H) : m \in Live /\ H[m] # None
      BY DEF Held
    <3>2. \A m \in Held(H) : H[m] \in Int /\ H[m] <= AccuseAvailable
      BY <1>0, <1>3, <1>9, <3>1, Numbers DEF Age
    <3>3. \A m \in Live : A[m].lastAccuse \in Int
      BY <1>2 DEF State
    <3> HIDE DEF H, A
    <3> QED BY <1>5, <3>1, <3>2, <3>3, Numbers
  <2>8. PICK P \in SUBSET Live : P = Held(H)
    BY HeldFinite
  <2>9. Pausing(P)'
    <3>1. Cardinality(P) >= AccuseQuorumN
      BY <1>9, <2>8
    <3> HIDE DEF H, A
    <3>2. \A m \in P : /\ weakAccuses'[m] = None
                       /\ accuser'[m].lastAccuse <= AccuseAvailable + wait'
      BY <2>1, <2>2, <2>3, <2>7, <2>8, Numbers
    <3> QED BY <3>1, <3>2 DEF Pausing
  <2>10. PauseInv'
    BY <2>9 DEF PauseInv
  <2> QED BY <2>4, <2>5, <2>6, <2>10
<1>10. CASE ~strong
  <2>1. term' = term /\ weakAccuses' = H /\ accuser' = A /\ wait' = wait
    BY <1>1, <1>10, Zenon
  <2>2. StoredInv'
    BY <1>5, <2>1 DEF StoredInv
  <2>3. FewInv'
    <3>1. Cardinality(Held(H)) < AccuseQuorumN
      <4>1. CASE H = weakAccuses
        BY <4>1 DEF IInv, FewInv
      <4>2. CASE t = term
        BY <1>4, <1>10, <4>2, Numbers
      <4> QED BY <1>3, <4>1, <4>2
    <3> QED BY <2>1, <3>1 DEF FewInv
  <2>4. LiveLeaderStays'
    BY <2>1 DEF IInv, LiveLeaderStays, MaxTerm
  <2>5. PauseInv'
    <3> SUFFICES ASSUME term = MaxTerm PROVE \E P \in SUBSET Live : Pausing(P)'
      BY <2>1 DEF PauseInv, MaxTerm
    <3>1. PICK P \in SUBSET Live : Pausing(P)
      BY DEF IInv, PauseInv
    <3>2. \A m \in P : H[m] = None /\ A[m] = accuser[m]
      BY <1>6, <3>1
    <3> HIDE DEF H, A
    <3>3. Pausing(P)'
      BY <2>1, <3>1, <3>2 DEF Pausing
    <3> QED BY <3>3
  <2> QED BY <2>2, <2>3, <2>4, <2>5
<1> QED BY <1>9, <1>10

\* The step of an accuser that wants to accuse.
LEMMA AccuseStep ==
  ASSUME IInv, ElectionInPause, FewLive, NEW n \in Live, NEW t \in Int,
         NEW a \in State, a.lastAccuse = accuser[n].lastAccuse, Accuse(n, t, a)
  PROVE  StoredInv' /\ FewInv' /\ LiveLeaderStays' /\ PauseInv'
<1>0. accuser \in [Live -> State]
  BY DEF IInv, TypeOK, State
<1>1. CASE ~MayAccuse(a, t)
  <2>1. accuser' = [accuser EXCEPT ![n] = a] /\ UNCHANGED <<term, weakAccuses, wait>>
    BY <1>1 DEF Accuse
  <2>2. \A m \in Live : accuser'[m].lastAccuse = accuser[m].lastAccuse
    BY <1>0, <2>1
  <2>3. StoredInv'
    BY <2>1, <2>2 DEF IInv, StoredInv
  <2>4. FewInv' /\ LiveLeaderStays'
    BY <2>1 DEF IInv, FewInv, Held, LiveLeaderStays, MaxTerm
  <2>5. \A P \in SUBSET Live : Pausing(P) => Pausing(P)'
    BY <2>1, <2>2 DEF Pausing
  <2>6. PauseInv'
    BY <2>1, <2>5 DEF IInv, PauseInv, MaxTerm
  <2> QED BY <2>3, <2>4, <2>6
<1>2. CASE MayAccuse(a, t)
  <2> DEFINE b == [a EXCEPT !.lastAccuse = 0, !.lastAccuseTerm = t]
  <2>1. b \in State
    BY Replace, Zenon
  <2>2. b.lastAccuse = 0
    BY AccuseFields
  <2>3. Broadcast(n, t, [accuser EXCEPT ![n] = b])
    BY <1>2 DEF Accuse
  <2>4. accuser[n].lastAccuse >= AccuseInterval
    BY <1>2, Numbers DEF MayAccuse, State
  <2>5. accuser' \in [Live -> State]
    BY AccuseType DEF IInv
  <2> HIDE DEF b
  <2> QED BY <2>1, <2>2, <2>3, <2>4, <2>5, BroadcastStep
<1> QED BY <1>1, <1>2

LEMMA IInvInit == Init => IInv
<1> SUFFICES ASSUME Init PROVE IInv
  OBVIOUS
<1>1. TypeOK
  BY TypeInit
<1>2. StoredInv
  <2> SUFFICES ASSUME NEW n \in Live, weakAccuses[n] # None, weakAccuses[n] <= AccuseAvailable
               PROVE  accuser[n].lastAccuse <= weakAccuses[n]
    BY DEF StoredInv
  <2>1. accuser[n].lastAccuse \in Int
    BY <1>1, Numbers DEF TypeOK
  <2>2. weakAccuses[n] \in {None, Min(accuser[n].lastAccuse, AccuseAvailable + 1), AccuseAvailable + 1}
    BY DEF Init, StoredAccuses
  <2> QED BY <2>1, <2>2, Numbers DEF Min
<1>3. FewInv
  BY DEF Init, StoredAccuses, FewInv
<1>4. 0 < MaxTerm /\ term = 0
  BY LiveNodes, Numbers DEF Init, MaxTerm
<1>5. LiveLeaderStays /\ PauseInv
  BY <1>4, LiveNodes, Numbers DEF LiveLeaderStays, PauseInv, MaxTerm
<1> QED BY <1>1, <1>2, <1>3, <1>5 DEF IInv

LEMMA IInvStep ==
  ASSUME ElectionInPause, FewLive
  PROVE  IInv /\ [Next]_vars => IInv'
<1> SUFFICES ASSUME IInv, [Next]_vars PROVE IInv'
  OBVIOUS
<1>0. /\ accuser \in [Live -> State] /\ term \in Nat /\ wait \in 0..ElectionTime
      /\ weakAccuses \in [Live -> Age \cup {None}] /\ None \notin Int
  BY AccuserAssumption DEF IInv, TypeOK, State
<1>t. TypeOK'
  BY TypeStep DEF IInv
<1>1. ASSUME NEW n \in Live, CheckHeartbeat(n)
      PROVE  StoredInv' /\ FewInv' /\ LiveLeaderStays' /\ PauseInv'
  <2> DEFINE a == accuser[n]
             b == [a EXCEPT !.tolerance = Min(2 * a.tolerance, MaxTolerance)]
  <2>1. a \in State /\ a.termToAccuse \in Int /\ b \in State
    BY <1>0, ToleranceType DEF State
  <2>2. b.lastAccuse = a.lastAccuse
    BY <2>1 DEF State
  <2>3. Accuse(n, a.termToAccuse, a) \/ Accuse(n, a.termToAccuse, b)
    BY <1>1 DEF CheckHeartbeat
  <2> HIDE DEF b
  <2> QED BY <2>1, <2>2, <2>3, AccuseStep
<1>2. ASSUME NEW n \in Live, TxOverdue(n)
      PROVE  StoredInv' /\ FewInv' /\ LiveLeaderStays' /\ PauseInv'
  <2>1. accuser[n] \in State /\ term \in Int /\ Accuse(n, term, accuser[n])
    BY <1>0, <1>2 DEF TxOverdue
  <2> QED BY <2>1, AccuseStep
<1>3. CASE DoHeatbeat
  <2>1. UNCHANGED <<term, weakAccuses, wait>>
    BY <1>3 DEF DoHeatbeat
  <2>2. \A m \in Live : accuser'[m].lastAccuse = accuser[m].lastAccuse
    <3>1. ASSUME NEW a \in State
          PROVE  [a EXCEPT !.termToAccuse = term, !.lastHeatbeat = 0,
                           !.hasHeatbeat = TRUE].lastAccuse = a.lastAccuse
      BY Zenon DEF State
    <3>2. \A m \in Live : accuser'[m] = [accuser[m] EXCEPT !.termToAccuse = term, !.lastHeatbeat = 0,
                                                          !.hasHeatbeat = TRUE]
      BY <1>3, Zenon DEF DoHeatbeat
    <3> QED BY <1>0, <3>1, <3>2, Zenon
  <2>3. StoredInv' /\ FewInv' /\ LiveLeaderStays'
    BY <2>1, <2>2 DEF IInv, StoredInv, FewInv, Held, LiveLeaderStays, MaxTerm
  <2>4. \A P \in SUBSET Live : Pausing(P) => Pausing(P)'
    BY <2>1, <2>2 DEF Pausing
  <2>5. PauseInv'
    BY <2>1, <2>4 DEF IInv, PauseInv, MaxTerm
  <2> QED BY <1>t, <2>3, <2>5 DEF IInv
<1>4. CASE Tick
  <2>1. /\ UNCHANGED term /\ wait' = Min(wait + 1, ElectionTime)
        /\ LeaderNodeOfTerm(term) \in Live => wait < ElectionTime
    BY <1>4, Zenon DEF Tick
  <2>2. ASSUME NEW m \in Live
        PROVE  /\ accuser[m].lastAccuse \in Int /\ accuser'[m].lastAccuse \in Int
               /\ accuser'[m].lastAccuse <= accuser[m].lastAccuse + 1
    <3>1. ASSUME NEW a \in State, NEW p, NEW h
          PROVE  [a EXCEPT !.lastAccuse = p, !.lastHeatbeat = h].lastAccuse = p
      BY Zenon DEF State
    <3>2. accuser'[m] = [accuser[m] EXCEPT
                           !.lastAccuse = Min(accuser[m].lastAccuse + 1, AccuseInterval),
                           !.lastHeatbeat = Min(accuser[m].lastHeatbeat + 1, MaxTolerance + 1)]
      BY <1>4, Zenon DEF Tick
    <3>3. accuser'[m].lastAccuse = Min(accuser[m].lastAccuse + 1, AccuseInterval)
      <4>1. accuser[m] \in State
        BY <1>0
      <4>2. [accuser[m] EXCEPT
               !.lastAccuse = Min(accuser[m].lastAccuse + 1, AccuseInterval),
               !.lastHeatbeat = Min(accuser[m].lastHeatbeat + 1, MaxTolerance + 1)].lastAccuse
               = Min(accuser[m].lastAccuse + 1, AccuseInterval)
        BY <3>1, <4>1, Zenon
      <4> QED BY <3>2, <4>2, Zenon
    <3>4. accuser[m].lastAccuse \in Nat
      BY <1>0, Numbers DEF State
    <3> QED BY <3>3, <3>4, Numbers DEF Min
  <2>3. \A m \in Live : weakAccuses'[m] = IF weakAccuses[m] = None THEN None
                                          ELSE Min(weakAccuses[m] + 1, AccuseAvailable + 1)
    BY <1>4, Zenon DEF Tick
  <2>4. \A m \in Live : /\ weakAccuses'[m] = None <=> weakAccuses[m] = None
                        /\ weakAccuses[m] # None =>
                             /\ weakAccuses[m] \in Int /\ weakAccuses'[m] \in Int
                             /\ \/ weakAccuses'[m] = weakAccuses[m] + 1
                                \/ weakAccuses'[m] > AccuseAvailable
    BY <1>0, <2>3, Numbers DEF Age, Min
  <2>5. StoredInv'
    BY <2>2, <2>4, Numbers DEF IInv, StoredInv
  <2>6. FewInv'
    <3>1. Held(weakAccuses') = Held(weakAccuses)
      BY <2>4 DEF Held
    <3> QED BY <3>1 DEF IInv, FewInv
  <2>7. LiveLeaderStays'
    BY <2>1 DEF IInv, LiveLeaderStays, MaxTerm
  <2>8. PauseInv'
    <3> SUFFICES ASSUME term = MaxTerm PROVE \E P \in SUBSET Live : Pausing(P)'
      BY <2>1 DEF PauseInv, MaxTerm
    <3>1. LeaderNodeOfTerm(term) \in Live
      BY LeaderIsLive
    <3>2. wait' = wait + 1
      BY <1>0, <2>1, <3>1, Numbers DEF Min
    <3>3. PICK P \in SUBSET Live : Pausing(P)
      BY DEF IInv, PauseInv
    <3>4. Pausing(P)'
      BY <1>0, <2>2, <2>4, <3>2, <3>3, Numbers DEF Pausing
    <3> QED BY <3>4
  <2> QED BY <1>t, <2>5, <2>6, <2>7, <2>8 DEF IInv
<1>5. CASE UNCHANGED vars
  <2>1. UNCHANGED <<term, weakAccuses, accuser, wait>>
    BY <1>5 DEF vars
  <2> QED BY <1>t, <2>1 DEF IInv, StoredInv, FewInv, Held, LiveLeaderStays, PauseInv, Pausing, MaxTerm
<1> QED BY <1>t, <1>1, <1>2, <1>3, <1>4, <1>5 DEF Next, IInv

\* The live leader that follows the dead ones is not accused out of its term
\* before it can be elected, although OnTermChange leaves the time of the last
\* heartbeat alone, if an election fits into the pause of those who brought
\* down its predecessor and the other live nodes are too few to accuse.
THEOREM NewLeaderStays ==
  ASSUME ElectionInPause, FewLive
  PROVE  Spec => []LiveLeaderStays
<1>1. Init => IInv
  BY IInvInit
<1>2. IInv /\ [Next]_vars => IInv'
  BY IInvStep
<1>3. IInv => LiveLeaderStays
  BY DEF IInv
<1> QED BY <1>1, <1>2, <1>3, PTL DEF Spec

=============================================================================

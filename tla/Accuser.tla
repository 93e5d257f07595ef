------------------------------- MODULE Accuser -------------------------------
(***************************************************************************)
(* How the cluster gets rid of a dead leader: the accuser of every live    *)
(* node with its timer, tolerance and pauses, and the weak accuses the     *)
(* block stores hold until they expire.  Time goes in steps of two         *)
(* seconds, heartbeatInterval; what the code compares are differences, so  *)
(* the model keeps ages, capped where nothing tells larger ones apart.     *)
(* Every timer fires once in a step: a node for which that changes         *)
(* something is Due, and acts before the step ends, in any order.  What a  *)
(* live node broadcasts reaches all live nodes within the step, so that    *)
(* they hold the same weak accuses and have the same term.  The model      *)
(* follows one outage: it starts when the leader of term 0 dies and ends   *)
(* with the first heartbeat of a live leader.                              *)
(***************************************************************************)
EXTENDS Integers, FiniteSets

CONSTANTS
  N,               \* cluster size
  Dead,            \* the nodes that are down
  AccuseInterval,  \* 180 s: pause between two accuses of a node
  AccuseAvailable, \* 60 s: accuseAvailableDuration
  Tolerance,       \* 60 s: defaultHeatbeatIntervalTolerance
  MaxTolerance,    \* 180 s: maxHeatbeatIntervalTolerance
  StartPause,      \* a node that has just started accused this long ago (20 s)
  Pauses,          \* the ages of the last accuse to start from
  Tolerances,      \* the tolerances to start from: they are never lowered
  ElectionTime,    \* a live leader is elected within this time
  TxAccusers,      \* nodes with transactions that may become overdue
  TxInterval,      \* 10 s: the timer of TxStore, here in phase at all nodes
  MaxOutage,       \* the outage may last this long
  None             \* nil

Node == 0..N-1
Live == Node \ Dead
MaxFaultyN == (N - 1) \div 3
AccuseQuorumN == MaxFaultyN + 1
MaxTerm == Cardinality(Dead)

ASSUME AccuserAssumption ==
  /\ N \in Nat \ {0}
  /\ Dead = 0..Cardinality(Dead)-1 /\ Cardinality(Dead) \in 1..MaxFaultyN
  /\ {AccuseInterval, AccuseAvailable, Tolerance, MaxTolerance, StartPause, TxInterval, ElectionTime,
    MaxOutage}
       \subseteq Nat \ {0}
  /\ Pauses \subseteq 0..AccuseInterval /\ Tolerances \subseteq Tolerance..MaxTolerance
  /\ Tolerance <= MaxTolerance /\ StartPause <= AccuseInterval
  /\ TxAccusers \in {{}, Live} /\ None \notin Int

Min(a, b) == IF a < b THEN a ELSE b

VARIABLES
  term,          \* of every live node
  weakAccuses,   \* in every database: the age of each node's accuse, or None
  accuser,       \* of each live node
  outage,        \* how long there has been no live leader
  wait,          \* how long the leader of the term has had to be elected
  over           \* a live leader has sent a heartbeat

vars == <<term, weakAccuses, accuser, outage, wait, over>>

\* LeaderNodeOfTerm, when every node of the list is marked normal.
LeaderNodeOfTerm(t) == t % N

Age == 0..AccuseAvailable+1

Held(held) == {n \in Live : held[n] # None}

-----------------------------------------------------------------------------
\* An accuser that has run for long, or one that NewAccuser has just made.
NewAccuser ==
  [lastAccuse |-> StartPause, lastAccuseTerm |-> -1, termToAccuse |-> 0, lastHeatbeat |-> 0,
   tolerance |-> Tolerance, hasHeatbeat |-> FALSE]

OldAccusers(pause) ==
  {[NewAccuser EXCEPT !.lastAccuse = pause, !.lastAccuseTerm = 0, !.tolerance = tolerance,
                      !.hasHeatbeat = TRUE] : tolerance \in Tolerances}

\* A node's last accuse of this term may still be stored, or an expired one that
\* made its repetition be dropped.
StoredAccuses ==
  /\ weakAccuses \in {w \in [Live -> Age \cup {None}] : Cardinality(Held(w)) < AccuseQuorumN}
  /\ \A n \in Live : weakAccuses[n] \in {None, Min(accuser[n].lastAccuse, AccuseAvailable + 1),
                                       AccuseAvailable + 1}
  /\ \A n \in Live : accuser[n].lastAccuseTerm = -1 => weakAccuses[n] = None

\* The leader of term 0 has just sent its last heartbeat.  The live nodes are
\* interchangeable (Live is TxAccusers or TxAccusers is empty), so one order of
\* their pauses stands for all.
Init ==
  /\ term = 0
  /\ accuser \in [Live -> {NewAccuser} \cup UNION {OldAccusers(p) : p \in Pauses}]
  /\ \A n, m \in Live : n < m => \/ accuser[n].hasHeatbeat /\ ~accuser[m].hasHeatbeat
                                 \/ /\ accuser[n].hasHeatbeat = accuser[m].hasHeatbeat
                                    /\ accuser[n].lastAccuse <= accuser[m].lastAccuse
  /\ StoredAccuses
  /\ outage = 0 /\ wait = 0 /\ over = FALSE

\* The accuses left after those older than accuseAvailableDuration are deleted.
Available(held) == [n \in Live |-> IF held[n] # None /\ held[n] > AccuseAvailable THEN None ELSE held[n]]

\* handleWeakAccuse: an accuse of a node that has one stored is dropped, even
\* when the stored one has expired; so is one more when there are enough.
HandleWeakAccuse(n, t) ==
  IF t # term \/ Cardinality(Held(weakAccuses)) >= AccuseQuorumN \/ weakAccuses[n] # None
  THEN weakAccuses
  ELSE [Available(weakAccuses) EXCEPT ![n] = 0]

\* NewWeakAccuse, NewStrongAccuse and StrongAccuseProcessed: the accuse, and
\* the new term when it makes AccuseQuorumN.  A new term does not reset the
\* time of the last heartbeat.
Broadcast(n, t, accusers) ==
  LET held == HandleWeakAccuse(n, t)
      strong == t = term /\ Cardinality(Held(held)) >= AccuseQuorumN
  IN
  /\ term' = IF strong THEN term + 1 ELSE term
  /\ weakAccuses' = IF strong THEN [m \in Live |-> None] ELSE held
  /\ accuser' = IF strong THEN [m \in Live |-> [accusers[m] EXCEPT !.termToAccuse = term + 1]]
                ELSE accusers
  /\ wait' = IF strong THEN 0 ELSE wait

\* Mutant: a node accuses a term only once.
MayAccuseOnce(a, t) == t > a.lastAccuseTerm /\ a.lastAccuse >= AccuseInterval

\* Mutant: only the cooldown of the same term, no AccuseInterval.
MayAccuseUnpaused(a, t) ==
  t > a.lastAccuseTerm \/ (t = a.lastAccuseTerm /\ a.lastAccuse >= StartPause \div 2)

\* A node accuses when its last accuse is AccuseInterval ago (the cooldown of
\* 10 s for the same term is shorter than that).
MayAccuse(a, t) == t >= a.lastAccuseTerm /\ a.lastAccuse >= AccuseInterval

\* Accuser.accuse
Accuse(n, t, a) ==
  IF MayAccuse(a, t)
  THEN Broadcast(n, t, [accuser EXCEPT ![n] = [a EXCEPT !.lastAccuse = 0, !.lastAccuseTerm = t]])
  ELSE /\ accuser' = [accuser EXCEPT ![n] = a]
       /\ UNCHANGED <<term, weakAccuses, wait>>

\* No heartbeat since it started, and a term it has not accused: the tolerance
\* doubles.
Doubles(a) == ~a.hasHeatbeat /\ a.termToAccuse > a.lastAccuseTerm

\* The timer finds the heartbeat overdue and changes something.
Due(a) ==
  /\ a.lastHeatbeat > a.tolerance
  /\ MayAccuse(a, a.termToAccuse) \/ (Doubles(a) /\ a.tolerance < MaxTolerance)

\* Mutant: the tolerance doubles without a limit.
CheckHeartbeatUncapped(n) ==
  LET a == accuser[n]
  IN  /\ ~over /\ Due(a)
      /\ Accuse(n, a.termToAccuse, IF Doubles(a) THEN [a EXCEPT !.tolerance = 2 * @] ELSE a)
      /\ UNCHANGED <<outage, over>>

\* The timer of Accuser.Run.
CheckHeartbeat(n) ==
  LET a == accuser[n]
      longer == [a EXCEPT !.tolerance = Min(2 * @, MaxTolerance)]
  IN  /\ ~over /\ Due(a)
      /\ Accuse(n, a.termToAccuse, IF Doubles(a) THEN longer ELSE a)
      /\ UNCHANGED <<outage, over>>

\* TxStore.doHeartbeat finds an overdue transaction: TriggerByTxStore.
TxOverdue(n) ==
  /\ n \in TxAccusers /\ outage % TxInterval = 0 /\ ~over
  /\ MayAccuse(accuser[n], term)
  /\ Accuse(n, term, accuser[n])
  /\ UNCHANGED <<outage, over>>

\* A live leader is elected and sends its heartbeat to all.
DoHeatbeat ==
  /\ LeaderNodeOfTerm(term) \in Live /\ ~over
  /\ over' = TRUE
  /\ accuser' = [n \in Live |-> [accuser[n] EXCEPT !.termToAccuse = term, !.lastHeatbeat = 0,
                                                   !.hasHeatbeat = TRUE]]
  /\ UNCHANGED <<term, weakAccuses, outage, wait>>

\* Two seconds pass.
Tick ==
  /\ ~over /\ \A n \in Live : ~Due(accuser[n])
  /\ LeaderNodeOfTerm(term) \in Live => wait < ElectionTime
  /\ weakAccuses' = [n \in Live |-> IF weakAccuses[n] = None THEN None
                                    ELSE Min(weakAccuses[n] + 1, AccuseAvailable + 1)]
  /\ accuser' = [n \in Live |-> [accuser[n] EXCEPT !.lastAccuse = Min(@ + 1, AccuseInterval),
                                                   !.lastHeatbeat = Min(@ + 1, MaxTolerance + 1)]]
  /\ outage' = Min(outage + 1, MaxOutage + 1)
  /\ wait' = Min(wait + 1, ElectionTime)
  /\ UNCHANGED <<term, over>>

Next == (\E n \in Live : CheckHeartbeat(n) \/ TxOverdue(n)) \/ DoHeatbeat \/ Tick

Spec == Init /\ [][Next]_vars

-----------------------------------------------------------------------------
(* Properties.                                                             *)

\* Types and ranges of the variables.
TypeOK ==
  /\ term \in Nat
  /\ weakAccuses \in [Live -> Age \cup {None}]
  /\ accuser \in [Live -> [lastAccuse : 0..AccuseInterval, lastAccuseTerm : Int, termToAccuse : Nat,
                           lastHeatbeat : 0..MaxTolerance+1, tolerance : Tolerance..MaxTolerance,
                           hasHeatbeat : BOOLEAN]]
  /\ outage \in 0..MaxOutage+1 /\ wait \in 0..ElectionTime
  /\ over \in BOOLEAN

\* However the accuses of the live nodes are spread over their pauses, and
\* whichever of them is dropped because an expired one is still stored
\* (handleWeakAccuse), enough of them meet within accuseAvailableDuration: the
\* cluster leaves the terms of dead leaders, and has a live one, within
\* MaxOutage.  Three live nodes of four accuse at most AccuseInterval / 3 apart,
\* just within accuseAvailableDuration.  From seven nodes on with all MaxFaultyN
\* down it fails for every bound: five nodes that accuse 36 seconds apart never
\* have three accuses within 60 seconds, and go on like this for ever.
OutageEnds == outage <= MaxOutage

\* A new live leader gets the time it needs to be elected.  A new term
\* (OnTermChange) does not reset the time of the last heartbeat, so every node
\* may accuse it at once; what saves it is that those who brought down its
\* predecessor have to pause, and the others are too few.  With fewer nodes down
\* than the cluster tolerates the others are enough, and it may lose its term.
LiveLeaderStays == term <= MaxTerm

=============================================================================

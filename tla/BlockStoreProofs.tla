-------------------------- MODULE BlockStoreProofs --------------------------
(* Theorems about BlockStore, for every cluster, every set of messages the *)
(* other nodes may send and every number of terms and crashes.             *)
EXTENDS BlockStore, FiniteSetTheorems, TLAPS

-----------------------------------------------------------------------------
(* The strengthening                                                       *)

\* What a handler reads and writes under the lock, and the events it leaves.
HandlerTypes ==
  /\ term \in Term
  /\ top \in Term \cup {-1} /\ votie \in Term \cup {-1}
  /\ fresh \in Pack \cup {None}
  /\ weakAccuses \subseteq Node
  /\ prepareCache \in [Term -> SUBSET Node]
  /\ commitCache \in [Term -> SUBSET Node]
  /\ events \subseteq Event
  /\ ignored \subseteq Term

\* The senders counted, in the caches and in fresh, have sent a message of the
\* very term they are counted for; fresh is of the node term.
CountedInv ==
  /\ \A t \in Term : /\ prepareCache[t] \subseteq PreparesReceived(t)
                     /\ commitCache[t] \subseteq CommitsReceived(t)
  /\ fresh # None => /\ fresh.term = term
                     /\ fresh.prepares \subseteq PreparesReceived(term)
                     /\ fresh.commits \subseteq CommitsReceived(term)

\* An event that waits for its goroutine: the votie has been written before a
\* NewPreparedEvent is left, and only a term that has a next one is accused.
EventInv ==
  \A e \in events : /\ e.type = "prepared" => votie >= e.term
                    /\ e.type = "strongAccuse" => e.term # MaxTerm

\* What every handler preserves.
HandlerInv == HandlerTypes /\ CountedInv /\ EventInv /\ QuorumBehind

IInv == TypeOK /\ CountedInv /\ EventInv /\ QuorumBehind /\ CommitHasVotie

-----------------------------------------------------------------------------
(* Quorums of received messages                                            *)

\* A set of nodes is no larger than one that contains it.
LEMMA NodeSets ==
  ASSUME NEW S, NEW T, S \subseteq T, T \subseteq Node
  PROVE  /\ Cardinality(S) \in Nat /\ Cardinality(T) \in Nat
         /\ Cardinality(S) <= Cardinality(T)
<1>1. IsFiniteSet(T)
  BY StoreAssumption, FS_Subset
<1> QED BY <1>1, FS_Subset, FS_CardinalityType

\* The quorum is a number.
LEMMA QuorumIsNumber == QuorumN \in Int /\ AccuseQuorumN \in Int
<1>1. Cardinality(Node) \in Nat
  BY StoreAssumption, FS_CardinalityType
<1>2. ((Cardinality(Node) - 1) \div 3) \in Int
  BY <1>1
<1> QED BY <1>1, <1>2 DEF QuorumN, AccuseQuorumN, MaxFaultyN, ClusterSize

\* What has been received stays received.
ReceivedGrows ==
  \A t \in Term : /\ PreparesReceived(t) \subseteq PreparesReceived(t)'
                  /\ CommitsReceived(t) \subseteq CommitsReceived(t)'

\* An inbox that only shrinks and broadcasts that only grow.
LEMMA ReceivedIsKept ==
  ASSUME inbox' \subseteq inbox, prepared \subseteq prepared',
         committed \subseteq committed'
  PROVE  ReceivedGrows
  BY DEF ReceivedGrows, PreparesReceived, CommitsReceived

\* Whoever is counted is a member.
LEMMA ReceivedAreNodes ==
  ASSUME NEW t
  PROVE  /\ PreparesReceived(t) \subseteq Node /\ CommitsReceived(t) \subseteq Node
         /\ PreparesReceived(t)' \subseteq Node /\ CommitsReceived(t)' \subseteq Node
  BY StoreAssumption DEF PreparesReceived, CommitsReceived

\* A quorum behind a term stays behind it.
LEMMA QuorumsAreKept ==
  ASSUME ReceivedGrows, NEW t \in Term
  PROVE  /\ Cardinality(PreparesReceived(t)) >= QuorumN
              => Cardinality(PreparesReceived(t)') >= QuorumN
         /\ Cardinality(CommitsReceived(t)) >= QuorumN
              => Cardinality(CommitsReceived(t)') >= QuorumN
<1>1. /\ PreparesReceived(t) \subseteq PreparesReceived(t)'
      /\ CommitsReceived(t) \subseteq CommitsReceived(t)'
  BY DEF ReceivedGrows
<1>2. PreparesReceived(t)' \subseteq Node /\ CommitsReceived(t)' \subseteq Node
  BY ReceivedAreNodes
<1>3. /\ Cardinality(PreparesReceived(t)) \in Nat
      /\ Cardinality(PreparesReceived(t)') \in Nat
      /\ Cardinality(PreparesReceived(t)) <= Cardinality(PreparesReceived(t)')
  BY <1>1, <1>2, NodeSets
<1>4. /\ Cardinality(CommitsReceived(t)) \in Nat
      /\ Cardinality(CommitsReceived(t)') \in Nat
      /\ Cardinality(CommitsReceived(t)) <= Cardinality(CommitsReceived(t)')
  BY <1>1, <1>2, NodeSets
<1> QED BY <1>3, <1>4, QuorumIsNumber

\* A step that moves neither the votie nor the commit top.
LEMMA QuorumBehindKept ==
  ASSUME HandlerTypes, QuorumBehind, ReceivedGrows, votie' = votie, top' = top
  PROVE  QuorumBehind'
<1>1. votie # -1 => votie \in Term
  BY DEF HandlerTypes
<1>2. top # -1 => top \in Term
  BY DEF HandlerTypes
<1> QED BY <1>1, <1>2, QuorumsAreKept DEF QuorumBehind

-----------------------------------------------------------------------------
(* Each handler preserves what the handlers rely on                        *)

\* Before the handler writes anything, what it finds counted has been received.
LEMMA StillReceived ==
  ASSUME HandlerTypes, CountedInv, ReceivedGrows
  PROVE  /\ \A t \in Term : /\ prepareCache[t] \subseteq PreparesReceived(t)'
                            /\ commitCache[t] \subseteq CommitsReceived(t)'
         /\ \A t \in Term : fresh # None /\ t = term =>
                            /\ fresh.prepares \subseteq PreparesReceived(t)'
                            /\ fresh.commits \subseteq CommitsReceived(t)'
<1>1. term \in Term
  BY DEF HandlerTypes
<1> QED BY <1>1 DEF CountedInv, ReceivedGrows

\* A handler that counts nobody.
LEMMA CountedKept ==
  ASSUME HandlerTypes, CountedInv, ReceivedGrows,
         UNCHANGED <<term, fresh, prepareCache, commitCache>>
  PROVE  CountedInv'
<1>1. term \in Term
  BY DEF HandlerTypes
<1>2. /\ \A t \in Term : /\ prepareCache'[t] \subseteq PreparesReceived(t)'
                         /\ commitCache'[t] \subseteq CommitsReceived(t)'
      /\ \A t \in Term : fresh' # None /\ t = term' =>
                         /\ fresh'.prepares \subseteq PreparesReceived(t)'
                         /\ fresh'.commits \subseteq CommitsReceived(t)'
  BY StillReceived
<1>3. fresh' # None => /\ fresh'.prepares \subseteq PreparesReceived(term)'
                       /\ fresh'.commits \subseteq CommitsReceived(term)'
  BY <1>1, <1>2
<1> QED BY <1>2, <1>3 DEF CountedInv

\* An event left before is left with the same votie or a higher one.
LEMMA EventsKept ==
  ASSUME HandlerTypes, EventInv, NEW pending, pending \subseteq events,
         votie' \in Int, votie' >= votie
  PROVE  \A e \in pending : /\ e.type = "prepared" => votie' >= e.term
                            /\ e.type = "strongAccuse" => e.term # MaxTerm
<1>1. votie \in Int /\ \A e \in events : e.term \in Int
  BY StoreAssumption DEF HandlerTypes, Event, Term
<1> QED BY <1>1 DEF EventInv

\* handleInitMsg.
LEMMA InitStep ==
  ASSUME HandlerInv, ReceivedGrows, NEW t \in Term, t >= term,
         NEW pending, pending \subseteq events, HandleInitMsg(t, pending)
  PROVE  HandlerInv' /\ votie' >= votie
<1>0. HandlerTypes /\ CountedInv /\ EventInv /\ QuorumBehind
  BY DEF HandlerInv
<1>1. votie \in Int /\ votie' = votie /\ top' = top /\ ignored' = ignored /\ term' = t
      /\ weakAccuses' \subseteq Node
  BY <1>0, StoreAssumption DEF HandleInitMsg, HandlerTypes, Term
<1>2. votie' >= votie
  BY <1>1
<1>3. QuorumBehind'
  BY <1>0, <1>1, QuorumBehindKept
<1>4. CASE AcceptInit(t, pending)
  <2>1. /\ fresh' = [term |-> t, prepares |-> prepareCache[t], commits |-> commitCache[t]]
        /\ prepareCache' = [prepareCache EXCEPT ![t] = {}]
        /\ commitCache' = [commitCache EXCEPT ![t] = {}]
        /\ events' = pending \cup {[type |-> "inited", term |-> t]}
    BY <1>4 DEF AcceptInit
  <2>2. fresh' \in Pack
    BY <1>0, <2>1 DEF HandlerTypes, Pack
  <2>3. [type |-> "inited", term |-> t] \in Event
    BY DEF Event
  <2>4. HandlerTypes'
    BY <1>0, <1>1, <2>1, <2>2, <2>3 DEF HandlerTypes
  <2>5. CountedInv'
    BY <1>0, <1>1, <2>1, StillReceived DEF CountedInv, HandlerTypes
  <2>6. EventInv'
    BY <1>0, <1>1, <1>2, <2>1, EventsKept DEF EventInv
  <2> QED BY <1>2, <1>3, <2>4, <2>5, <2>6 DEF HandlerInv
<1>5. CASE ~AcceptInit(t, pending)
  <2>1. /\ fresh' = IF t > term THEN None ELSE fresh
        /\ events' = pending /\ UNCHANGED <<prepareCache, commitCache>>
    BY <1>5 DEF HandleInitMsg, caches
  <2>2. HandlerTypes'
    BY <1>0, <1>1, <2>1 DEF HandlerTypes
  <2>3. term \in Int /\ t \in Int
    BY <1>0, StoreAssumption DEF HandlerTypes, Term
  <2>4. fresh' # None => term' = term /\ fresh' = fresh
    BY <1>1, <2>1, <2>3
  <2>5. CountedInv'
    BY <1>0, <1>1, <2>1, <2>4, StillReceived DEF CountedInv
  <2>6. EventInv'
    BY <1>0, <1>1, <1>2, <2>1, EventsKept DEF EventInv
  <2> QED BY <1>2, <1>3, <2>2, <2>5, <2>6 DEF HandlerInv
<1> QED BY <1>4, <1>5

\* updateVotie keeps the higher term.
LEMMA VotieGrows ==
  ASSUME HandlerTypes, NEW t \in Term
  PROVE  /\ votie \in Int /\ t \in Int
         /\ Max2(votie, t) \in Term \cup {-1} /\ Max2(votie, t) \in Int
         /\ Max2(votie, t) >= votie /\ Max2(votie, t) >= t
         /\ Max2(votie, t) = votie \/ Max2(votie, t) = t
<1>1. votie \in Int /\ t \in Int
  BY StoreAssumption DEF HandlerTypes, Term
<1>2. CASE votie < t
  <2>1. Max2(votie, t) = t
    BY <1>2 DEF Max2
  <2> QED BY <1>1, <1>2, <2>1
<1>3. CASE ~(votie < t)
  <2>1. Max2(votie, t) = votie
    BY <1>3 DEF Max2
  <2> QED BY <1>1, <1>3, <2>1 DEF HandlerTypes
<1> QED BY <1>2, <1>3

\* handlePrepareMsg, for a prepare that has been received or is being sent.
LEMMA PrepareStep ==
  ASSUME HandlerInv, ReceivedGrows, NEW t \in Term, NEW k \in Node,
         k \in PreparesReceived(t)',
         NEW pending, pending \subseteq events, HandlePrepareMsg(t, k, pending)
  PROVE  HandlerInv' /\ votie' >= votie
<1>0. HandlerTypes /\ CountedInv /\ EventInv /\ QuorumBehind
  BY DEF HandlerInv
<1>1. votie \in Int
  BY <1>0, VotieGrows
<1>2. CASE CachePrepare(t, k, pending)
  <2>1. /\ prepareCache' = [prepareCache EXCEPT ![t] = @ \cup {k}]
        /\ events' = pending
        /\ UNCHANGED <<term, top, votie, fresh, weakAccuses, commitCache, ignored>>
    BY <1>2 DEF CachePrepare, stored
  <2>2. HandlerTypes'
    BY <1>0, <2>1 DEF HandlerTypes
  <2>3. CountedInv'
    BY <1>0, <2>1, StillReceived DEF CountedInv, HandlerTypes
  <2>4. votie' >= votie /\ votie' \in Int
    BY <1>1, <2>1
  <2>5. EventInv'
    BY <1>0, <2>1, <2>4, EventsKept DEF EventInv
  <2> QED BY <1>0, <2>1, <2>2, <2>3, <2>4, <2>5, QuorumBehindKept DEF HandlerInv
<1>3. CASE CountPrepare(t, k, pending)
  <2> DEFINE P == fresh.prepares \cup {k}
  <2>1. /\ t = term /\ fresh # None
        /\ fresh' = [fresh EXCEPT !.prepares = P]
        /\ UNCHANGED <<term, top, weakAccuses, prepareCache, commitCache, ignored>>
    BY <1>3 DEF CountPrepare, Counts, caches
  <2>2. fresh \in Pack
    BY <1>0, <2>1 DEF HandlerTypes
  <2>3. /\ fresh' \in Pack /\ fresh'.term = fresh.term
        /\ fresh'.prepares = P /\ fresh'.commits = fresh.commits
    BY <2>1, <2>2 DEF Pack
  <2>4. P \subseteq PreparesReceived(t)'
    BY <1>0, <2>1, StillReceived
  <2>5. CountedInv'
    BY <1>0, <2>1, <2>3, <2>4, StillReceived DEF CountedInv
  <2>6. CASE Cardinality(P) >= QuorumN
    <3>1. /\ votie' = Max2(votie, t)
          /\ events' = pending \cup {[type |-> "prepared", term |-> t]}
      BY <1>3, <2>6 DEF CountPrepare
    <3>2. /\ votie' \in Term \cup {-1} /\ votie' \in Int /\ votie' >= votie /\ votie' >= t
          /\ votie' = votie \/ votie' = t
      BY <1>0, <3>1, VotieGrows
    <3>3. [type |-> "prepared", term |-> t] \in Event
      BY DEF Event
    <3>4. HandlerTypes'
      BY <1>0, <2>1, <2>3, <3>1, <3>2, <3>3 DEF HandlerTypes
    <3>5. EventInv'
      BY <1>0, <3>1, <3>2, EventsKept DEF EventInv
    <3>6. PreparesReceived(t)' \subseteq Node
      BY ReceivedAreNodes
    <3>7. /\ Cardinality(P) \in Nat /\ Cardinality(PreparesReceived(t)') \in Nat
          /\ Cardinality(P) <= Cardinality(PreparesReceived(t)')
      BY <2>4, <3>6, NodeSets
    <3>8. Cardinality(PreparesReceived(t)') >= QuorumN
      BY <2>6, <3>7, QuorumIsNumber
    <3>9. CASE votie' = t
      <4>1. top' # -1 => Cardinality(CommitsReceived(top)') >= QuorumN
        BY <1>0, <2>1, QuorumsAreKept DEF QuorumBehind, HandlerTypes
      <4>2. QuorumBehind'
        BY <2>1, <3>8, <3>9, <4>1 DEF QuorumBehind
      <4> QED BY <2>5, <3>2, <3>4, <3>5, <4>2 DEF HandlerInv
    <3>10. CASE votie' = votie
      <4>1. QuorumBehind'
        BY <1>0, <2>1, <3>10, QuorumBehindKept
      <4> QED BY <2>5, <3>2, <3>4, <3>5, <4>1 DEF HandlerInv
    <3> QED BY <3>2, <3>9, <3>10
  <2>7. CASE ~(Cardinality(P) >= QuorumN)
    <3>1. votie' = votie /\ events' = pending
      BY <1>3, <2>7 DEF CountPrepare
    <3>2. HandlerTypes'
      BY <1>0, <2>1, <2>3, <3>1 DEF HandlerTypes
    <3>3. votie' >= votie /\ votie' \in Int
      BY <1>1, <3>1
    <3>4. EventInv'
      BY <1>0, <3>1, <3>3, EventsKept DEF EventInv
    <3>5. QuorumBehind'
      BY <1>0, <2>1, <3>1, QuorumBehindKept
    <3> QED BY <2>5, <3>2, <3>3, <3>4, <3>5 DEF HandlerInv
  <2> QED BY <2>6, <2>7
<1>4. CASE IgnorePrepare(t, k, pending)
  <2>1. /\ events' = pending /\ ignored' \subseteq Term
        /\ UNCHANGED <<term, top, votie, fresh, weakAccuses, prepareCache, commitCache>>
    BY <1>0, <1>4 DEF IgnorePrepare, stored, caches, HandlerTypes
  <2>2. HandlerTypes'
    BY <1>0, <2>1 DEF HandlerTypes
  <2>3. CountedInv'
    BY <1>0, <2>1, CountedKept
  <2>4. votie' >= votie /\ votie' \in Int
    BY <1>1, <2>1
  <2>5. EventInv'
    BY <1>0, <2>1, <2>4, EventsKept DEF EventInv
  <2> QED BY <1>0, <2>1, <2>2, <2>3, <2>4, <2>5, QuorumBehindKept DEF HandlerInv
<1> QED BY <1>2, <1>3, <1>4 DEF HandlePrepareMsg

\* handleCommitMsg, for a commit that has been received or is being sent.
LEMMA CommitStep ==
  ASSUME HandlerInv, ReceivedGrows, NEW t \in Term, NEW k \in Node,
         k \in CommitsReceived(t)',
         NEW pending, pending \subseteq events, HandleCommitMsg(t, k, pending)
  PROVE  HandlerInv' /\ votie' >= votie
<1>0. HandlerTypes /\ CountedInv /\ EventInv /\ QuorumBehind
  BY DEF HandlerInv
<1>1. votie \in Int /\ events' = pending /\ ignored' = ignored
  BY <1>0, VotieGrows DEF HandleCommitMsg
<1>2. CASE CacheCommit(t, k)
  <2>1. /\ commitCache' = [commitCache EXCEPT ![t] = @ \cup {k}]
        /\ UNCHANGED <<term, top, votie, fresh, weakAccuses, prepareCache>>
    BY <1>2 DEF CacheCommit, stored
  <2>2. HandlerTypes'
    BY <1>0, <1>1, <2>1 DEF HandlerTypes
  <2>3. CountedInv'
    BY <1>0, <2>1, StillReceived DEF CountedInv, HandlerTypes
  <2>4. votie' >= votie /\ votie' \in Int
    BY <1>1, <2>1
  <2>5. EventInv'
    BY <1>0, <1>1, <2>4, EventsKept DEF EventInv
  <2> QED BY <1>0, <2>1, <2>2, <2>3, <2>4, <2>5, QuorumBehindKept DEF HandlerInv
<1>3. CASE Counts(t) /\ CountCommit(t, k)
  <2> DEFINE C == fresh.commits \cup {k}
  <2>1. /\ t = term /\ fresh # None
        /\ UNCHANGED <<term, weakAccuses, prepareCache, commitCache>>
    BY <1>3 DEF CountCommit, Counts, caches
  <2>2. fresh \in Pack
    BY <1>0, <2>1 DEF HandlerTypes
  <2>3. C \subseteq CommitsReceived(t)'
    BY <1>0, <2>1, StillReceived
  <2>4. CASE Cardinality(C) >= QuorumN
    <3>1. top' = t /\ votie' = Max2(votie, t) /\ fresh' = None
      BY <1>3, <2>4 DEF CountCommit
    <3>2. /\ votie' \in Term \cup {-1} /\ votie' \in Int /\ votie' >= votie
          /\ votie' = votie \/ votie' = t
      BY <1>0, <3>1, VotieGrows
    <3>3. HandlerTypes'
      BY <1>0, <1>1, <2>1, <3>1, <3>2 DEF HandlerTypes
    <3>4. EventInv'
      BY <1>0, <1>1, <3>2, EventsKept DEF EventInv
    <3>5. CountedInv'
      BY <1>0, <2>1, <3>1, StillReceived DEF CountedInv
    <3>6. CommitsReceived(t)' \subseteq Node
      BY ReceivedAreNodes
    <3>7. /\ Cardinality(C) \in Nat /\ Cardinality(CommitsReceived(t)') \in Nat
          /\ Cardinality(C) <= Cardinality(CommitsReceived(t)')
      BY <2>3, <3>6, NodeSets
    <3>8. Cardinality(CommitsReceived(t)') >= QuorumN
      BY <2>4, <3>7, QuorumIsNumber
    <3>9. CASE votie' = t
      <4>1. QuorumBehind'
        BY <3>1, <3>8, <3>9 DEF QuorumBehind
      <4> QED BY <3>2, <3>3, <3>4, <3>5, <4>1 DEF HandlerInv
    <3>10. CASE votie' = votie
      <4>1. votie' # -1 => \/ Cardinality(PreparesReceived(votie)') >= QuorumN
                           \/ Cardinality(CommitsReceived(votie)') >= QuorumN
        BY <1>0, <3>10, QuorumsAreKept DEF QuorumBehind, HandlerTypes
      <4>2. QuorumBehind'
        BY <3>1, <3>8, <4>1 DEF QuorumBehind
      <4> QED BY <3>2, <3>3, <3>4, <3>5, <4>2 DEF HandlerInv
    <3> QED BY <3>2, <3>9, <3>10
  <2>5. CASE ~(Cardinality(C) >= QuorumN)
    <3>1. fresh' = [fresh EXCEPT !.commits = C] /\ top' = top /\ votie' = votie
      BY <1>3, <2>5 DEF CountCommit
    <3>2. /\ fresh' \in Pack /\ fresh'.term = fresh.term
          /\ fresh'.prepares = fresh.prepares /\ fresh'.commits = C
      BY <2>2, <3>1 DEF Pack
    <3>3. HandlerTypes'
      BY <1>0, <1>1, <2>1, <3>1, <3>2 DEF HandlerTypes
    <3>4. CountedInv'
      BY <1>0, <2>1, <2>3, <3>2, StillReceived DEF CountedInv
    <3>5. votie' >= votie /\ votie' \in Int
      BY <1>1, <3>1
    <3>6. EventInv'
      BY <1>0, <1>1, <3>5, EventsKept DEF EventInv
    <3>7. QuorumBehind'
      BY <1>0, <3>1, QuorumBehindKept
    <3> QED BY <3>3, <3>4, <3>5, <3>6, <3>7 DEF HandlerInv
  <2> QED BY <2>4, <2>5
<1>4. CASE IgnoreCommit(t, k)
  <2>1. UNCHANGED <<term, top, votie, fresh, weakAccuses, prepareCache, commitCache>>
    BY <1>4 DEF IgnoreCommit, stored, caches
  <2>2. HandlerTypes'
    BY <1>0, <1>1, <2>1 DEF HandlerTypes
  <2>3. CountedInv'
    BY <1>0, <2>1, CountedKept
  <2>4. votie' >= votie /\ votie' \in Int
    BY <1>1, <2>1
  <2>5. EventInv'
    BY <1>0, <1>1, <2>4, EventsKept DEF EventInv
  <2> QED BY <1>0, <2>1, <2>2, <2>3, <2>4, <2>5, QuorumBehindKept DEF HandlerInv
<1> QED BY <1>2, <1>3, <1>4 DEF HandleCommitMsg

\* handleWeakAccuse, of a term that has a next one.
LEMMA WeakAccuseStep ==
  ASSUME HandlerInv, ReceivedGrows, NEW t \in Term, t # MaxTerm, NEW k \in Node,
         NEW pending, pending \subseteq events, HandleWeakAccuse(t, k, pending)
  PROVE  HandlerInv' /\ votie' >= votie
<1>0. HandlerTypes /\ CountedInv /\ EventInv /\ QuorumBehind
  BY DEF HandlerInv
<1> DEFINE accuse == [type |-> "strongAccuse", term |-> t]
<1>1. /\ weakAccuses' \subseteq Node
      /\ events' \subseteq pending \cup {accuse}
      /\ UNCHANGED <<term, top, votie, fresh, prepareCache, commitCache, ignored>>
  BY <1>0 DEF HandleWeakAccuse, HandlerTypes, caches
<1>2. accuse \in Event
  BY DEF Event
<1>3. HandlerTypes'
  BY <1>0, <1>1, <1>2 DEF HandlerTypes
<1>4. CountedInv'
  BY <1>0, <1>1, CountedKept
<1>5. votie' >= votie /\ votie' \in Int
  BY <1>0, <1>1, VotieGrows
<1>6. EventInv'
  BY <1>0, <1>1, <1>5, EventsKept DEF EventInv
<1> QED BY <1>0, <1>1, <1>3, <1>4, <1>5, <1>6, QuorumBehindKept DEF HandlerInv

\* handleStrongAccuse, of a term that has a next one.
LEMMA StrongAccuseStep ==
  ASSUME HandlerInv, ReceivedGrows, NEW t \in Term, t # MaxTerm,
         NEW pending, pending \subseteq events, HandleStrongAccuse(t, pending)
  PROVE  HandlerInv' /\ votie' >= votie
<1>0. HandlerTypes /\ CountedInv /\ EventInv /\ QuorumBehind
  BY DEF HandlerInv
<1>1. events' = pending /\ UNCHANGED <<top, votie, ignored>>
  BY DEF HandleStrongAccuse
<1>2. t + 1 \in Term
  BY StoreAssumption DEF Term
<1>3. \/ /\ term' = t + 1 /\ weakAccuses' = {} /\ fresh' = None
         /\ prepareCache' = [prepareCache EXCEPT ![t] = {}]
         /\ commitCache' = [commitCache EXCEPT ![t] = {}]
      \/ UNCHANGED <<term, weakAccuses, fresh, prepareCache, commitCache>>
  BY DEF HandleStrongAccuse, caches
<1>4. HandlerTypes'
  BY <1>0, <1>1, <1>2, <1>3 DEF HandlerTypes
<1>5. CountedInv'
  BY <1>0, <1>3, StillReceived DEF CountedInv, HandlerTypes
<1>6. votie' >= votie /\ votie' \in Int
  BY <1>0, <1>1, VotieGrows
<1>7. EventInv'
  BY <1>0, <1>1, <1>6, EventsKept DEF EventInv
<1> QED BY <1>0, <1>1, <1>4, <1>5, <1>6, <1>7, QuorumBehindKept DEF HandlerInv

-----------------------------------------------------------------------------
(* Each step preserves the strengthening                                   *)

\* What a message holds, by its type.
LEMMA MsgFields ==
  ASSUME NEW m \in Msg
  PROVE  /\ m.term \in Term
         /\ m.type \in {"prepare", "commit"} =>
              /\ m.node \in Node \ {Self}
              /\ m = [type |-> m.type, term |-> m.term, node |-> m.node]
         /\ m.type = "weakAccuse" => m.node \in Node /\ m.term # MaxTerm
         /\ m.type = "strongAccuse" => m.term # MaxTerm
<1>1. CASE m \in [type : {"init"}, term : Term]
  BY <1>1
<1>2. CASE m \in [type : {"prepare", "commit"}, term : Term, node : Node \ {Self}]
  BY <1>2
<1>3. CASE m \in [type : {"weakAccuse"}, term : Term \ {MaxTerm}, node : Node]
  BY <1>3
<1>4. CASE m \in [type : {"strongAccuse"}, term : Term \ {MaxTerm}]
  BY <1>4
<1> QED BY <1>1, <1>2, <1>3, <1>4 DEF Msg

\* The parts of the strengthening that a handler preserves are all of it but the
\* history of the node.
LEMMA HandlerToIInv ==
  ASSUME IInv, HandlerInv', votie' >= votie, inbox' \subseteq inbox,
         prepared' \subseteq Term, committed' \subseteq Term, crashes' \in 0..MaxCrash,
         \A t \in committed' : t \in committed \/ votie >= t
  PROVE  IInv'
<1>1. votie \in Int /\ votie' \in Int /\ \A t \in committed' : t \in Int
  BY StoreAssumption DEF IInv, TypeOK, HandlerInv, HandlerTypes, Term
<1>2. CommitHasVotie'
  BY <1>1 DEF IInv, CommitHasVotie
<1>3. inbox' \subseteq Msg
  BY DEF IInv, TypeOK
<1>4. TypeOK'
  BY <1>3 DEF HandlerInv, HandlerTypes, TypeOK
<1> QED BY <1>2, <1>4 DEF IInv, HandlerInv

\* A message is received.
LEMMA ReceiveStep ==
  ASSUME IInv, NEW m \in inbox, Receive(m)
  PROVE  IInv'
<1>1. m \in Msg /\ HandlerInv
  BY DEF IInv, TypeOK, HandlerInv, HandlerTypes
<1>2. /\ m.term \in Term
      /\ m.type \in {"prepare", "commit"} =>
           /\ m.node \in Node \ {Self}
           /\ m = [type |-> m.type, term |-> m.term, node |-> m.node]
      /\ m.type = "weakAccuse" => m.node \in Node /\ m.term # MaxTerm
      /\ m.type = "strongAccuse" => m.term # MaxTerm
  BY <1>1, MsgFields
<1>3. /\ m.term >= term /\ inbox' = inbox \ {m}
      /\ UNCHANGED <<prepared, committed, crashes>>
  BY DEF Receive
<1>4. ReceivedGrows
  BY <1>3, ReceivedIsKept
<1>5. m.type = "prepare" => m.node \in PreparesReceived(m.term)'
  BY <1>2, <1>3 DEF PreparesReceived
<1>6. m.type = "commit" => m.node \in CommitsReceived(m.term)'
  BY <1>2, <1>3 DEF CommitsReceived
<1>7. HandlerInv' /\ votie' >= votie
  <2>1. CASE m.type = "init" /\ HandleInitMsg(m.term, events)
    BY <1>1, <1>2, <1>3, <1>4, <2>1, InitStep
  <2>2. CASE m.type = "prepare" /\ HandlePrepareMsg(m.term, m.node, events)
    BY <1>1, <1>2, <1>4, <1>5, <2>2, PrepareStep
  <2>3. CASE m.type = "commit" /\ HandleCommitMsg(m.term, m.node, events)
    BY <1>1, <1>2, <1>4, <1>6, <2>3, CommitStep
  <2>4. CASE m.type = "weakAccuse" /\ HandleWeakAccuse(m.term, m.node, events)
    BY <1>1, <1>2, <1>4, <2>4, WeakAccuseStep
  <2>5. CASE m.type = "strongAccuse" /\ HandleStrongAccuse(m.term, events)
    BY <1>1, <1>2, <1>4, <2>5, StrongAccuseStep
  <2> QED BY <2>1, <2>2, <2>3, <2>4, <2>5 DEF Receive
<1>8. prepared' \subseteq Term /\ committed' \subseteq Term /\ crashes' \in 0..MaxCrash
  BY <1>3 DEF IInv, TypeOK
<1> QED BY <1>3, <1>7, <1>8, HandlerToIInv

\* An event left by an earlier handler is run.
LEMMA EventStep ==
  ASSUME IInv, NEW e \in events, OnInited(e) \/ OnPrepared(e) \/ OnStrongAccuse(e)
  PROVE  IInv'
<1>1. e.term \in Term /\ HandlerInv
  BY DEF IInv, TypeOK, HandlerInv, HandlerTypes, Event
<1>2. prepared \subseteq Term /\ committed \subseteq Term /\ crashes \in 0..MaxCrash
  BY DEF IInv, TypeOK
<1>3. CASE OnInited(e)
  <2>1. /\ prepared' = prepared \cup {e.term}
        /\ UNCHANGED <<inbox, committed, crashes>>
        /\ HandlePrepareMsg(e.term, Self, events \ {e})
    BY <1>3 DEF OnInited
  <2>2. ReceivedGrows
    BY <2>1, ReceivedIsKept
  <2>3. Self \in PreparesReceived(e.term)'
    BY <2>1 DEF PreparesReceived
  <2>4. HandlerInv' /\ votie' >= votie
    BY <1>1, <2>1, <2>2, <2>3, StoreAssumption, PrepareStep
  <2> QED BY <1>1, <1>2, <2>1, <2>4, HandlerToIInv
<1>4. CASE OnPrepared(e)
  <2>1. /\ e.type = "prepared" /\ committed' = committed \cup {e.term}
        /\ UNCHANGED <<inbox, prepared, crashes>>
        /\ HandleCommitMsg(e.term, Self, events \ {e})
    BY <1>4 DEF OnPrepared
  <2>2. ReceivedGrows
    BY <2>1, ReceivedIsKept
  <2>3. Self \in CommitsReceived(e.term)'
    BY <2>1 DEF CommitsReceived
  <2>4. HandlerInv' /\ votie' >= votie
    BY <1>1, <2>1, <2>2, <2>3, StoreAssumption, CommitStep
  <2>5. votie >= e.term
    \* The votie was written before the event was left.
    BY <2>1 DEF IInv, EventInv
  <2> QED BY <1>1, <1>2, <2>1, <2>4, <2>5, HandlerToIInv
<1>5. CASE OnStrongAccuse(e)
  <2>1. /\ e.type = "strongAccuse" /\ UNCHANGED <<inbox, prepared, committed, crashes>>
        /\ HandleStrongAccuse(e.term, events \ {e})
    BY <1>5 DEF OnStrongAccuse
  <2>2. ReceivedGrows
    BY <2>1, ReceivedIsKept
  <2>3. e.term # MaxTerm
    BY <2>1 DEF IInv, EventInv
  <2>4. HandlerInv' /\ votie' >= votie
    BY <1>1, <2>1, <2>2, <2>3, StrongAccuseStep
  <2> QED BY <1>2, <2>1, <2>4, HandlerToIInv
<1> QED BY <1>3, <1>4, <1>5

\* What is lost in a crash was not needed.
LEMMA CrashStep ==
  ASSUME IInv, Crash
  PROVE  IInv'
<1>1. /\ crashes < MaxCrash /\ crashes' = crashes + 1
      /\ prepareCache' = [t \in Term |-> {}] /\ commitCache' = [t \in Term |-> {}]
      /\ events' = {}
      /\ UNCHANGED <<term, top, votie, fresh, weakAccuses, inbox, prepared, committed, ignored>>
  BY DEF Crash, stored
<1>2. crashes' \in 0..MaxCrash
  BY <1>1, StoreAssumption DEF IInv, TypeOK
<1>3. TypeOK'
  BY <1>1, <1>2 DEF IInv, TypeOK
<1>4. ReceivedGrows /\ HandlerTypes
  BY <1>1, ReceivedIsKept DEF IInv, TypeOK, HandlerTypes
<1>5. QuorumBehind'
  BY <1>1, <1>4, QuorumBehindKept DEF IInv
<1>6. \A t \in Term : PreparesReceived(t)' = PreparesReceived(t)
                      /\ CommitsReceived(t)' = CommitsReceived(t)
  BY <1>1 DEF PreparesReceived, CommitsReceived
<1>7. CountedInv'
  BY <1>1, <1>4, <1>6 DEF IInv, CountedInv, HandlerTypes
<1>8. EventInv' /\ CommitHasVotie'
  BY <1>1 DEF IInv, EventInv, CommitHasVotie
<1> QED BY <1>3, <1>5, <1>7, <1>8 DEF IInv

-----------------------------------------------------------------------------
(* The theorems                                                            *)

\* The strengthening is an invariant of one node's BlockStore.
THEOREM Invariance == Spec => []IInv
<1>1. Init => IInv
  <2> SUFFICES ASSUME Init PROVE IInv
    OBVIOUS
  <2>1. TypeOK
    BY StoreAssumption DEF Init, TypeOK, Term
  <2>2. CountedInv /\ EventInv /\ QuorumBehind /\ CommitHasVotie
    BY DEF Init, CountedInv, EventInv, QuorumBehind, CommitHasVotie
  <2> QED BY <2>1, <2>2 DEF IInv
<1>2. IInv /\ [Next]_vars => IInv'
  <2> SUFFICES ASSUME IInv, [Next]_vars PROVE IInv'
    OBVIOUS
  <2>1. CASE UNCHANGED vars
    BY <2>1 DEF vars, stored, caches, history, IInv, TypeOK, CountedInv, EventInv,
                QuorumBehind, CommitHasVotie, PreparesReceived, CommitsReceived
  <2> QED BY <2>1, ReceiveStep, EventStep, CrashStep DEF Next
<1> QED BY <1>1, <1>2, PTL DEF Spec

\* Every variable keeps its type; in particular no handler and no event moves the
\* node beyond the last term.
THEOREM TypeCorrect == Spec => []TypeOK
<1>1. IInv => TypeOK
  BY DEF IInv
<1> QED BY <1>1, Invariance, PTL

\* The votie and the commit top always rest on QuorumN distinct senders of their
\* very term, whatever the order of inits, prepares, commits, accuses and crashes
\* and whatever went through the caches.
THEOREM QuorumBehindTops == Spec => []QuorumBehind
<1>1. IInv => QuorumBehind
  BY DEF IInv
<1> QED BY <1>1, Invariance, PTL

\* A commit never leaves the node before the votie it stands for is written.
THEOREM VotieBeforeCommit == Spec => []CommitHasVotie
<1>1. IInv => CommitHasVotie
  BY DEF IInv
<1> QED BY <1>1, Invariance, PTL
=============================================================================

----------------------------- MODULE BlockStore -----------------------------
(***************************************************************************)
(* The BlockStore of one node during the agreement on one height, with     *)
(* what Braft leaves out: the messages counted one by one, the caches for  *)
(* those that come before the init, the events that run after the lock is  *)
(* released, and the weak accuses.  The other nodes are the inbox: every   *)
(* message one of them may send for this height arrives once, in any order *)
(* or never.  A leader proposes one block per term and height (proved of   *)
(* Braft), so a message is told by its term and its sender.                *)
(***************************************************************************)
EXTENDS Integers, FiniteSets

CONSTANTS
  Node,      \* the cluster members
  Self,      \* the node of this BlockStore
  MaxTerm,   \* bound: terms are 0..MaxTerm
  MaxCrash,  \* bound: how often the node crashes
  Inboxes,   \* bound: sets of messages the other nodes may send
  None       \* nil

Term == 0..MaxTerm

ClusterSize == Cardinality(Node)
MaxFaultyN == (ClusterSize - 1) \div 3
QuorumN == ClusterSize - MaxFaultyN
AccuseQuorumN == MaxFaultyN + 1

Pack == [term : Term, prepares : SUBSET Node, commits : SUBSET Node]
Msg == [type : {"init"}, term : Term]
       \cup [type : {"prepare", "commit"}, term : Term, node : Node \ {Self}]
       \cup [type : {"weakAccuse"}, term : Term \ {MaxTerm}, node : Node]
       \cup [type : {"strongAccuse"}, term : Term \ {MaxTerm}]

ASSUME StoreAssumption ==
  /\ IsFiniteSet(Node) /\ Self \in Node
  /\ MaxTerm \in Nat /\ MaxCrash \in Nat
  /\ Inboxes \subseteq SUBSET Msg
  /\ None \notin Pack

Event == [type : {"inited", "prepared", "strongAccuse"}, term : Term]

VARIABLES
  term,          \* the node term, in the database
  top,           \* the term in which this height was committed, or -1
  votie,         \* the highest term in which it was prepared here, or -1
  fresh,         \* the pack under agreement, in the database, or None
  weakAccuses,   \* the accusers of the current term, in the database
  prepareCache,  \* by term: senders of prepares that came before the init
  commitCache,   \* by term: senders of commits that came before the init
  events,        \* events of handlers that have released the lock
  inbox,         \* messages not yet received
  prepared,      \* terms in which this node has broadcast a prepare
  committed,     \* terms in which this node has broadcast a commit
  ignored,       \* terms in which a prepare was ignored as one too many
  crashes

stored == <<term, top, votie, fresh, weakAccuses>>
caches == <<prepareCache, commitCache>>
history == <<prepared, committed, ignored, crashes>>
vars == <<stored, caches, events, inbox, history>>

TypeOK ==
  /\ term \in Term
  /\ top \in Term \cup {-1}
  /\ votie \in Term \cup {-1}
  /\ fresh \in Pack \cup {None}
  /\ weakAccuses \subseteq Node
  /\ prepareCache \in [Term -> SUBSET Node]
  /\ commitCache \in [Term -> SUBSET Node]
  /\ events \subseteq Event
  /\ inbox \subseteq Msg
  /\ prepared \subseteq Term /\ committed \subseteq Term /\ ignored \subseteq Term
  /\ crashes \in 0..MaxCrash

-----------------------------------------------------------------------------
(* The handlers.  pending: the events left when the handler ends, its own  *)
(* not counted.                                                            *)

Max2(a, b) == IF a < b THEN b ELSE a

IsCommitted == top # -1

\* A message of this term and of the next height counts; one of a higher term
\* or height only asks for a sync, one of a lower term or height is dropped.
Counts(t) == t = term /\ ~IsCommitted

\* Mutant: the caches are not kept apart by term.
AcceptInitAnyTerm(t, pending) ==
  /\ fresh' = [term |-> t, prepares |-> UNION {prepareCache[u] : u \in Term},
               commits |-> UNION {commitCache[u] : u \in Term}]
  /\ prepareCache' = [prepareCache EXCEPT ![t] = {}]
  /\ commitCache' = [commitCache EXCEPT ![t] = {}]
  /\ events' = pending \cup {[type |-> "inited", term |-> t]}

\* Mutant: the caches are emptied and not merged.
AcceptInitNoMerge(t, pending) ==
  /\ fresh' = [term |-> t, prepares |-> {}, commits |-> {}]
  /\ prepareCache' = [prepareCache EXCEPT ![t] = {}]
  /\ commitCache' = [commitCache EXCEPT ![t] = {}]
  /\ events' = pending \cup {[type |-> "inited", term |-> t]}

\* handleInitMsg of an init that is accepted: the messages that came before it
\* are in the caches.
AcceptInit(t, pending) ==
  /\ fresh' = [term |-> t, prepares |-> prepareCache[t], commits |-> commitCache[t]]
  /\ prepareCache' = [prepareCache EXCEPT ![t] = {}]
  /\ commitCache' = [commitCache EXCEPT ![t] = {}]
  /\ events' = pending \cup {[type |-> "inited", term |-> t]}

\* Of a higher term the init, which then carries the votes that prove a leader,
\* moves the node there first.  It may be refused (its transactions or its votes
\* are not valid).
HandleInitMsg(t, pending) ==
  /\ term' = t
  /\ weakAccuses' = IF t > term THEN {} ELSE weakAccuses
  /\ \/ ~IsCommitted /\ AcceptInit(t, pending)
     \/ /\ fresh' = IF t > term THEN None ELSE fresh
        /\ events' = pending
        /\ UNCHANGED caches
  /\ UNCHANGED <<top, votie, ignored>>

TooMany(S) == Cardinality(S) > QuorumN

CachePrepare(t, k, pending) ==
  /\ Counts(t)
  /\ fresh = None
  /\ prepareCache' = [prepareCache EXCEPT ![t] = @ \cup {k}]
  /\ events' = pending
  /\ UNCHANGED <<stored, commitCache, ignored>>

\* Mutant: the votie is left to the commit.
CountPrepareNoVotie(t, k, pending) ==
  LET P == fresh.prepares \cup {k}
  IN  /\ Counts(t)
      /\ fresh # None
      /\ k \notin fresh.prepares
      /\ ~TooMany(fresh.prepares)
      /\ fresh' = [fresh EXCEPT !.prepares = P]
      /\ events' = IF Cardinality(P) >= QuorumN
                   THEN pending \cup {[type |-> "prepared", term |-> t]} ELSE pending
      /\ UNCHANGED <<term, top, votie, weakAccuses, caches, ignored>>

CountPrepare(t, k, pending) ==
  LET P == fresh.prepares \cup {k}
  IN  /\ Counts(t)
      /\ fresh # None
      /\ k \notin fresh.prepares
      /\ ~TooMany(fresh.prepares)
      /\ fresh' = [fresh EXCEPT !.prepares = P]
      /\ IF Cardinality(P) >= QuorumN
         THEN /\ votie' = Max2(votie, t)
              /\ events' = pending \cup {[type |-> "prepared", term |-> t]}
         ELSE /\ events' = pending
              /\ UNCHANGED votie
      /\ UNCHANGED <<term, top, weakAccuses, caches, ignored>>

IgnorePrepare(t, k, pending) ==
  /\ Counts(t) => fresh # None /\ (k \in fresh.prepares \/ TooMany(fresh.prepares))
  /\ ignored' = IF Counts(t) /\ k \notin fresh.prepares THEN ignored \cup {t}
                                                        ELSE ignored
  /\ events' = pending
  /\ UNCHANGED <<stored, caches>>

HandlePrepareMsg(t, k, pending) ==
  \/ CachePrepare(t, k, pending)
  \/ CountPrepare(t, k, pending)
  \/ IgnorePrepare(t, k, pending)

CacheCommit(t, k) ==
  /\ fresh = None
  /\ commitCache' = [commitCache EXCEPT ![t] = @ \cup {k}]
  /\ UNCHANGED <<stored, prepareCache>>

\* The QuorumN-th commit commits the block.
CountCommit(t, k) ==
  LET C == fresh.commits \cup {k}
  IN  /\ fresh # None
      /\ k \notin fresh.commits
      /\ IF Cardinality(C) >= QuorumN
         THEN top' = t /\ votie' = Max2(votie, t) /\ fresh' = None
         ELSE fresh' = [fresh EXCEPT !.commits = C] /\ UNCHANGED <<top, votie>>
      /\ UNCHANGED <<term, weakAccuses, caches>>

IgnoreCommit(t, k) ==
  /\ Counts(t) => fresh # None /\ k \in fresh.commits
  /\ UNCHANGED <<stored, caches>>

HandleCommitMsg(t, k, pending) ==
  /\ \/ Counts(t) /\ CacheCommit(t, k)
     \/ Counts(t) /\ CountCommit(t, k)
     \/ IgnoreCommit(t, k)
  /\ events' = pending
  /\ UNCHANGED ignored

\* Mutant: one accuse more than can be held is waited for.
HandleWeakAccuseLate(t, k, pending) ==
  /\ IF t # term \/ Cardinality(weakAccuses) >= AccuseQuorumN \/ k \in weakAccuses
     THEN UNCHANGED weakAccuses /\ events' = pending
     ELSE \E expired \in SUBSET weakAccuses :
            /\ weakAccuses' = (weakAccuses \ expired) \cup {k}
            /\ events' = IF Cardinality(weakAccuses') > AccuseQuorumN
                         THEN pending \cup {[type |-> "strongAccuse", term |-> t]}
                         ELSE pending
  /\ UNCHANGED <<term, top, votie, fresh, caches, ignored>>

\* The accuses already held may have expired.
HandleWeakAccuse(t, k, pending) ==
  /\ IF t # term \/ Cardinality(weakAccuses) >= AccuseQuorumN \/ k \in weakAccuses
     THEN UNCHANGED weakAccuses /\ events' = pending
     ELSE \E expired \in SUBSET weakAccuses :
            /\ weakAccuses' = (weakAccuses \ expired) \cup {k}
            /\ events' = IF Cardinality(weakAccuses') >= AccuseQuorumN
                         THEN pending \cup {[type |-> "strongAccuse", term |-> t]}
                         ELSE pending
  /\ UNCHANGED <<term, top, votie, fresh, caches, ignored>>

\* Mutant: the term after the accused one is skipped.
HandleStrongAccuseSkip(t, pending) ==
  /\ IF t >= term
     THEN /\ term' = t + 2
          /\ weakAccuses' = {}
          /\ fresh' = None
     ELSE UNCHANGED <<term, weakAccuses, fresh>>
  /\ events' = pending
  /\ UNCHANGED <<top, votie, caches, ignored>>

HandleStrongAccuse(t, pending) ==
  /\ IF t >= term
     THEN /\ term' = t + 1
          /\ weakAccuses' = {}
          /\ fresh' = None
          /\ prepareCache' = [prepareCache EXCEPT ![t] = {}]
          /\ commitCache' = [commitCache EXCEPT ![t] = {}]
     ELSE UNCHANGED <<term, weakAccuses, fresh, caches>>
  /\ events' = pending
  /\ UNCHANGED <<top, votie, ignored>>

-----------------------------------------------------------------------------
(* Steps                                                                   *)

\* A message arrives.  One of a lower term would change nothing.
Receive(m) ==
  /\ m.term >= term
  /\ inbox' = inbox \ {m}
  /\ \/ m.type = "init" /\ HandleInitMsg(m.term, events)
     \/ m.type = "prepare" /\ HandlePrepareMsg(m.term, m.node, events)
     \/ m.type = "commit" /\ HandleCommitMsg(m.term, m.node, events)
     \/ m.type = "weakAccuse" /\ HandleWeakAccuse(m.term, m.node, events)
     \/ m.type = "strongAccuse" /\ HandleStrongAccuse(m.term, events)
  /\ UNCHANGED <<prepared, committed, crashes>>

\* NewInitedEvent, NewPreparedEvent and NewStrongAccuseEvent: the node handles
\* its own message and then broadcasts it.
OnInited(e) ==
  /\ e.type = "inited"
  /\ HandlePrepareMsg(e.term, Self, events \ {e})
  /\ prepared' = prepared \cup {e.term}
  /\ UNCHANGED <<inbox, committed, crashes>>

OnPrepared(e) ==
  /\ e.type = "prepared"
  /\ HandleCommitMsg(e.term, Self, events \ {e})
  /\ committed' = committed \cup {e.term}
  /\ UNCHANGED <<inbox, prepared, crashes>>

OnStrongAccuse(e) ==
  /\ e.type = "strongAccuse"
  /\ HandleStrongAccuse(e.term, events \ {e})
  /\ UNCHANGED <<inbox, prepared, committed, crashes>>

\* A crash loses the caches and the events that have not run; what one handler
\* writes to the database is taken to be written together.
Crash ==
  /\ crashes < MaxCrash
  /\ crashes' = crashes + 1
  /\ prepareCache' = [t \in Term |-> {}]
  /\ commitCache' = [t \in Term |-> {}]
  /\ events' = {}
  /\ UNCHANGED <<stored, inbox, prepared, committed, ignored>>

Init ==
  /\ term = 0
  /\ top = -1
  /\ votie = -1
  /\ fresh = None
  /\ weakAccuses = {}
  /\ prepareCache = [t \in Term |-> {}]
  /\ commitCache = [t \in Term |-> {}]
  /\ events = {}
  /\ inbox \in Inboxes
  /\ prepared = {} /\ committed = {} /\ ignored = {}
  /\ crashes = 0

Next ==
  \/ \E m \in inbox : Receive(m)
  \/ \E e \in events : OnInited(e) \/ OnPrepared(e) \/ OnStrongAccuse(e)
  \/ Crash

Spec == Init /\ [][Next]_vars

\* A handler's goroutine runs its events right after the lock is released.
EventFairness ==
  \A e \in Event : WF_vars(e \in events /\ (OnInited(e) \/ OnPrepared(e) \/ OnStrongAccuse(e)))

FairSpec == Spec /\ EventFairness

-----------------------------------------------------------------------------
(* Properties                                                              *)

PreparesReceived(t) ==
  {k \in Node \ {Self} : [type |-> "prepare", term |-> t, node |-> k] \notin inbox}
    \cup {k \in {Self} : t \in prepared}

CommitsReceived(t) ==
  {k \in Node \ {Self} : [type |-> "commit", term |-> t, node |-> k] \notin inbox}
    \cup {k \in {Self} : t \in committed}

\* The votie and the commit top rest on a quorum of distinct senders of that very
\* term, though the messages were counted in two places (the caches and fresh),
\* across inits, term changes and crashes.
QuorumBehind ==
  /\ votie # -1 => \/ Cardinality(PreparesReceived(votie)) >= QuorumN
                   \/ Cardinality(CommitsReceived(votie)) >= QuorumN
  /\ top # -1 => Cardinality(CommitsReceived(top)) >= QuorumN

\* A node has the votie in its database before its commit leaves, even when it
\* changes term or crashes between the handler and NewPreparedEvent.
CommitHasVotie == \A t \in committed : votie >= t

\* handlePrepareMsg ignores a prepare as one too many only when the node has
\* prepared, as its comment says: "it can already commit".  With up to six nodes
\* nothing is ever ignored (more than QuorumN held means that all are held); with
\* seven the claim is false.
IgnoredWhenPrepared == \A t \in ignored : votie >= t

\* With all prepares and commits of its term received, before or after the
\* init, a node that has accepted the init commits it or leaves the term.
\* Term 0 is the one the node starts in, so none of them came too early.  A
\* crash may lose the event that sends the commit (NewPreparedEvent).
AllReceivedIsResolved ==
  (/\ fresh # None /\ fresh.term = 0
   /\ Cardinality(PreparesReceived(0) \ {Self}) = ClusterSize - 1
   /\ Cardinality(CommitsReceived(0) \ {Self}) = ClusterSize - 1)
    ~> (fresh = None \/ term > 0 \/ crashes > 0)

\* AccuseQuorumN weak accuses held move the node to the next term, unless a
\* crash loses NewStrongAccuseEvent: then handleWeakAccuse returns early for
\* every later accuse of the term.
AccusesAreResolved ==
  Cardinality(weakAccuses) >= AccuseQuorumN ~> (weakAccuses = {} \/ crashes > 0)
=============================================================================

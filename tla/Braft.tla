------------------------------- MODULE Braft -------------------------------
(***************************************************************************)
(* The replication protocol of the gateway, BRAFT: a three phase agreement *)
(* (init, prepare, commit) under an elected leader, with accusations that  *)
(* move the cluster to the next term.  The module composes, for a cluster  *)
(* of fixed membership, the handlers of primitives/blockstore.go, the      *)
(* leader of node/leader.go, the vote daemon and the event wiring of       *)
(* node/node.go and the block sync of node/sync_daemon.go.                 *)
(*                                                                         *)
(* A message, once sent, stays sent: its handler may run at any later      *)
(* time, several times, or never, so delay, reordering, duplication and    *)
(* loss need no actions of their own.  A BlockStore handler runs under one *)
(* lock and its events run after the unlock; what those events send is     *)
(* sent by the handler's action here, which is the same as sending it      *)
(* later to receivers that may wait.  The prepares and commits a node has  *)
(* collected are not copied per node: the handler of the QuorumN-th one is *)
(* enabled once a quorum of them has been sent.  Leader.term follows the   *)
(* node term: a leader that has not yet seen NewTermEvent creates nothing, *)
(* because tryCreateBlockImpl compares the two.                            *)
(***************************************************************************)
EXTENDS Integers, Sequences, FiniteSets

CONSTANTS
  Node,         \* the cluster members
  NodeList,     \* [0..N-1 -> Node], cluster.NodeList
  Block,        \* block digests
  Genesis,      \* the digest of GenesisBlockPack
  PrevBlockId,  \* [Block \ {Genesis} -> Block]
  Height,       \* [Block -> Nat]
  MaxTerm,      \* bound: terms are 0..MaxTerm
  Crashers,     \* bound: the nodes that may crash and restart
  Syncers,      \* bound: the nodes whose sync daemon runs
  None          \* nil

ClusterSize == Cardinality(Node)
MaxFaultyN == (ClusterSize - 1) \div 3
QuorumN == ClusterSize - MaxFaultyN
AccuseQuorumN == MaxFaultyN + 1

ASSUME NodeAssumption ==
  /\ IsFiniteSet(Node) /\ Node # {}
  /\ NodeList \in [0..(ClusterSize - 1) -> Node]
  /\ Crashers \subseteq Node
  /\ Syncers \subseteq Node

\* A block names its predecessor by digest, so the digests form a tree.
ASSUME BlockAssumption ==
  /\ Genesis \in Block
  /\ PrevBlockId \in [Block \ {Genesis} -> Block]
  /\ Height \in [Block -> Nat]
  /\ Height[Genesis] = 0
  /\ \A b \in Block \ {Genesis} : Height[b] = Height[PrevBlockId[b]] + 1

ASSUME TermAssumption == MaxTerm \in Nat

Term == 0..MaxTerm

\* A pack stands for a BlockPack and for the Votie made from it.
Pack == [term : Term, block : Block]
Vote == [node : Node, term : Term, votie : Pack]

\* maxVotie is GetMaxVotie(init.Votes), None when no votes are attached.
InitMsg == [term : Term, block : Block, maxVotie : Pack \cup {None}]

ASSUME NoneAssumption == None \notin Block /\ None \notin Pack

VARIABLES
  term,      \* the node term, in the database
  chain,     \* the committed packs by height, in the database; the genesis
             \* pack lies below index 1
  votie,     \* the highest prepared pack, in the database
  fresh,     \* the pack under agreement, in the database, or None
  votePool,  \* Leader.votePool: votes received, of use to a later scan
  votes,     \* Leader.votes: the votes for the leader's current term
  initing,   \* Leader.initing: the block the leader is driving, or None
  syncing,   \* a synced pack that passed checkBlockPack, not yet stored
  inits,     \* the init messages sent
  prepares,  \* prepares[p]: the nodes that have sent a prepare for pack p
  commits,   \* commits[p]: the nodes that have sent a commit for pack p
  accused    \* the terms for which a strong accuse has formed

stored == <<term, chain, votie, fresh>>
leader == <<votePool, votes, initing>>
network == <<inits, prepares, commits>>
vars == <<term, chain, votie, fresh, votePool, votes, initing, syncing,
          inits, prepares, commits, accused>>

TypeOK ==
  /\ term \in [Node -> Term]
  /\ chain \in [Node -> Seq(Pack)]
  /\ votie \in [Node -> Pack]
  /\ fresh \in [Node -> Pack \cup {None}]
  /\ votePool \subseteq Vote
  /\ votes \in [Node -> SUBSET Vote]
  /\ initing \in [Node -> Block \cup {None}]
  /\ syncing \in [Node -> Pack \cup {None}]
  /\ inits \subseteq InitMsg
  /\ prepares \in [Pack -> SUBSET Node]
  /\ commits \in [Pack -> SUBSET Node]
  /\ accused \subseteq 0..(MaxTerm - 1)

-----------------------------------------------------------------------------
(* Helpers                                                                 *)

LeaderNodeOfTerm(t) == NodeList[t % ClusterSize]

GenesisPack == [term |-> 0, block |-> Genesis]

HasLessTermHeightThan(v, w) ==
  \/ v.term < w.term
  \/ v.term = w.term /\ Height[v.block] < Height[w.block]

IsPrev(p, b) == b # Genesis /\ PrevBlockId[b] = p

GetCommitHeight(n) == Len(chain[n])

GetCommitTop(n) ==
  IF chain[n] = <<>> THEN GenesisPack ELSE chain[n][Len(chain[n])]

\* The index of block ids; it keeps a block that is overwritten, but no block
\* ever is by another one (ImplementsLedger).
IsCommitted(n, b) ==
  b = Genesis \/ \E i \in DOMAIN chain[n] : chain[n][i].block = b

IsConnectingTop(n, p) ==
  LET top == GetCommitTop(n)
  IN  /\ IsPrev(top.block, p.block)
      /\ p.term >= top.term
      /\ Height[p.block] = GetCommitHeight(n) + 1

\* A chain with this top has left votie v behind or ends in its block.
Fits(top, v) == HasLessTermHeightThan(v, top) \/ v.block = top.block

\* Mutant: the leader takes any votie, not a maximal one.
AnyVotie(v, voteSet) == \E x \in voteSet : x.votie = v

\* Go's map order breaks ties: any of several maximal voties may be taken.
IsMaxVotie(v, voteSet) ==
  /\ \E x \in voteSet : x.votie = v
  /\ \A x \in voteSet : ~HasLessTermHeightThan(v, x.votie)

\* Mutant: the votie is compared by term only.
UpdateVotieByTerm(n, p) ==
  votie' = [votie EXCEPT ![n] = IF @.term < p.term THEN p ELSE @]

UpdateVotie(n, p) ==
  votie' = [votie EXCEPT ![n] = IF HasLessTermHeightThan(@, p) THEN p ELSE @]

IsQuorum(S) == Cardinality(S) >= QuorumN

SendPrepare(n, p) == prepares' = [prepares EXCEPT ![p] = @ \cup {n}]
SendCommit(n, p) == commits' = [commits EXCEPT ![p] = @ \cup {n}]

-----------------------------------------------------------------------------
(* The votes                                                               *)

IsInCharge(n) ==
  /\ LeaderNodeOfTerm(term[n]) = n
  /\ Cardinality(votes[n]) >= QuorumN

\* scanVotePool of node n in term t above commit top top: the pooled votes
\* that fit the chain join the votes held, until n is in charge.
ScanVotePool(n, t, top, pool, held) ==
  IF LeaderNodeOfTerm(t) = n /\ Cardinality(held) < QuorumN
  THEN held \cup {v \in pool : /\ v.term = t
                              /\ \A x \in held : x.node # v.node
                              /\ \/ Fits(top, v.votie)
                                 \/ IsPrev(top.block, v.votie.block)}
  ELSE held

\* What is left in the pool: not the votes of past terms, and not those that
\* no scan will look at again (their node's vote is held, or n is in charge).
Pooled(n, t, pool, held) ==
  {v \in pool : LeaderNodeOfTerm(v.term) = n =>
     \/ v.term > t
     \/ v.term = t /\ Cardinality(held) < QuorumN
                   /\ \A x \in held : x.node # v.node}

\* A vote of node n for term t reaches the leader of that term: the end of
\* voteDaemon's round and the leader's addVote.  The daemon looks at fresh,
\* the node term, the commit top and the votie one after the other and takes
\* the lock for each look only.  When it comes to the votie, the first three
\* may have moved on, so of the conditions it tested (no fresh; height 0 or a
\* term above the top's) none need still hold; what remains is that the term
\* it read is not above the node's.  VoteDaemon.tla has the four reads.
CastVote(n, t) ==
  LET ld == LeaderNodeOfTerm(t)
      v == [node |-> n, term |-> t, votie |-> votie[n]]
      pool == {x \in votePool : x.node # n \/ x.term # t} \cup {v}
      held == ScanVotePool(ld, term[ld], GetCommitTop(ld), pool, votes[ld])
  IN  /\ t <= term[n]
      /\ t >= term[ld]
      /\ votePool' = Pooled(ld, term[ld], pool, held)
      /\ votes' = [votes EXCEPT ![ld] = held]
      /\ UNCHANGED <<stored, initing, syncing, network, accused>>

-----------------------------------------------------------------------------
(* The leader                                                              *)

\* The block to propose on top of the chain: the maximal votie when it is
\* ahead of the chain, else a new block.
BlockToInit(n, mv, b) ==
  LET top == GetCommitTop(n)
  IN  /\ IsPrev(top.block, b)
      /\ HasLessTermHeightThan(top, mv) /\ mv.block # top.block => b = mv.block

\* Mutant: a fresh block does not stop the leader.
TryCreateBlockOverFresh(n, mv, b) ==
  /\ IsInCharge(n)
  /\ initing[n] = None
  /\ IsMaxVotie(mv, votes[n])
  /\ BlockToInit(n, mv, b)
  /\ initing' = [initing EXCEPT ![n] = b]

\* tryCreateBlock up to the setting of Leader.initing.
TryCreateBlock(n, mv, b) ==
  /\ IsInCharge(n)
  /\ initing[n] = None
  /\ fresh[n] = None
  /\ IsMaxVotie(mv, votes[n])
  /\ BlockToInit(n, mv, b)
  /\ initing' = [initing EXCEPT ![n] = b]

\* The leader handles its own init: it stores the block as fresh and
\* broadcasts the init and its prepare.
CreateBlock(n, mv, b) ==
  LET top == GetCommitTop(n)
      p == [term |-> term[n], block |-> b]
      withVotes == top.term < term[n] \/ top.block = mv.block
  IN  /\ TryCreateBlock(n, mv, b)
      /\ IsConnectingTop(n, p)
      /\ fresh' = [fresh EXCEPT ![n] = p]
      /\ inits' = inits \cup {[term |-> p.term, block |-> b,
                               maxVotie |-> IF withVotes THEN mv ELSE None]}
      /\ SendPrepare(n, p)
      /\ UNCHANGED <<term, chain, votie, votePool, votes, syncing, commits,
                     accused>>

\* Or the init comes to nothing: the transactions do not validate, or the
\* term or the chain moves between the creation and the handler.
CreateBlockInVain(n, mv, b) ==
  /\ TryCreateBlock(n, mv, b)
  /\ UNCHANGED <<stored, votePool, votes, syncing, network, accused>>

-----------------------------------------------------------------------------
(* The handlers of BlockStore                                              *)

\* The node term and the Leader.updateTerm that NewTermEvent triggers.
SetNodeTerm(n, t) ==
  /\ term' = [term EXCEPT ![n] = t]
  /\ IF t > term[n]
     THEN LET held == ScanVotePool(n, t, GetCommitTop(n), votePool, {})
          IN  /\ votes' = [votes EXCEPT ![n] = held]
              /\ votePool' = Pooled(n, t, votePool, held)
              /\ initing' = [initing EXCEPT ![n] = None]
     ELSE UNCHANGED leader

\* An init of a higher term is looked at only if its votes prove a leader
\* and its height is in reach; otherwise the node asks for a sync or drops it.
InitInTerm(n, m) ==
  \/ m.term = term[n]
  \/ /\ m.term > term[n]
     /\ m.maxVotie # None
     /\ Height[m.block] <= GetCommitHeight(n) + 1

IsInitSupportedByVotes(n, m) ==
  /\ m.maxVotie # None
  /\ Fits(GetCommitTop(n), m.maxVotie) \/ m.maxVotie.block = m.block

HandleInitMsg(n, m) ==
  LET p == [term |-> m.term, block |-> m.block]
  IN  /\ InitInTerm(n, m)
      /\ ~IsCommitted(n, m.block)
      /\ IsConnectingTop(n, p)
      /\ m.term > GetCommitTop(n).term => IsInitSupportedByVotes(n, m)
      /\ SetNodeTerm(n, m.term)
      /\ fresh' = [fresh EXCEPT ![n] = p]
      /\ SendPrepare(n, p)
      /\ UNCHANGED <<chain, votie, syncing, inits, commits, accused>>

\* updateNodeTermWithInit has run and the init itself is then refused: wrong
\* height, transactions that do not validate, or votes that do not support it.
RefuseInitMsg(n, m) ==
  /\ InitInTerm(n, m)
  /\ m.term > term[n]
  /\ SetNodeTerm(n, m.term)
  /\ fresh' = [fresh EXCEPT ![n] = None]
  /\ UNCHANGED <<chain, votie, syncing, network, accused>>

\* Mutant: the prepared pack is not kept as votie.
HandlePrepareMsgNoVotie(n) ==
  /\ fresh[n] # None
  /\ fresh[n].term = term[n]
  /\ Height[fresh[n].block] = GetCommitHeight(n) + 1
  /\ IsQuorum(prepares[fresh[n]])
  /\ SendCommit(n, fresh[n])
  /\ UNCHANGED <<stored, leader, syncing, inits, prepares, accused>>

\* handlePrepareMsg of the QuorumN-th prepare, and NewPreparedEvent.
HandlePrepareMsg(n) ==
  /\ fresh[n] # None
  /\ fresh[n].term = term[n]
  /\ Height[fresh[n].block] = GetCommitHeight(n) + 1
  /\ IsQuorum(prepares[fresh[n]])
  /\ UpdateVotie(n, fresh[n])
  /\ SendCommit(n, fresh[n])
  /\ UNCHANGED <<term, chain, fresh, leader, syncing, inits, prepares, accused>>

\* Leader.Run on newCommittedChan; the chain has its new top already.
OnNewCommitted(n, b) ==
  LET held == ScanVotePool(n, term[n], GetCommitTop(n)', votePool, votes[n])
  IN  /\ initing' = IF IsInCharge(n) /\ initing[n] = b
                    THEN [initing EXCEPT ![n] = None] ELSE initing
      /\ votes' = [votes EXCEPT ![n] = held]
      /\ votePool' = Pooled(n, term[n], votePool, held)

\* Mutant: one commit too few is enough.
HandleCommitMsgEarly(n) ==
  /\ fresh[n] # None
  /\ fresh[n].term = term[n]
  /\ Height[fresh[n].block] = GetCommitHeight(n) + 1
  /\ Cardinality(commits[fresh[n]]) >= QuorumN - 1
  /\ chain' = [chain EXCEPT ![n] = Append(@, fresh[n])]
  /\ UpdateVotie(n, fresh[n])
  /\ fresh' = [fresh EXCEPT ![n] = None]
  /\ OnNewCommitted(n, fresh[n].block)
  /\ UNCHANGED <<term, syncing, network, accused>>

\* handleCommitMsg of the QuorumN-th commit, and commitBlockWithCheck.  The
\* term cannot rise here: fresh is always of the node's term.
HandleCommitMsg(n) ==
  /\ fresh[n] # None
  /\ fresh[n].term = term[n]
  /\ Height[fresh[n].block] = GetCommitHeight(n) + 1
  /\ IsQuorum(commits[fresh[n]])
  /\ chain' = [chain EXCEPT ![n] = Append(@, fresh[n])]
  /\ UpdateVotie(n, fresh[n])
  /\ fresh' = [fresh EXCEPT ![n] = None]
  /\ OnNewCommitted(n, fresh[n].block)
  /\ UNCHANGED <<term, syncing, network, accused>>

\* handleWrongHeightProgressMsg: node n committed its top in a lower term
\* than the one in which the sender is still agreeing on the same block.
CommittedInLowerTerm(n, p) ==
  /\ p.term = term[n]
  /\ p.block = GetCommitTop(n).block
  /\ p.term > GetCommitTop(n).term
  /\ UNCHANGED <<stored, leader, syncing, inits, accused>>

\* CommittedInLowerTermEvent: answer with a message of the same phase.  The
\* answer goes to the sender alone; here any node may count it, which only adds
\* behaviours.
AnswerPrepare(n, p) ==
  /\ prepares[p] # {}
  /\ CommittedInLowerTerm(n, p)
  /\ SendPrepare(n, p)
  /\ UNCHANGED commits

AnswerCommit(n, p) ==
  /\ commits[p] # {}
  /\ CommittedInLowerTerm(n, p)
  /\ SendCommit(n, p)
  /\ UNCHANGED prepares

\* AccuseQuorumN weak accuses of node n's term have reached n.  Accusing is
\* driven by timers and may happen at any time; a node accuses only the
\* leader of a term it has reached.
NewStrongAccuse(n) ==
  /\ term[n] < MaxTerm
  /\ Cardinality({k \in Node : term[k] >= term[n]}) >= AccuseQuorumN
  /\ accused' = accused \cup {term[n]}
  /\ UNCHANGED <<stored, leader, syncing, network>>

\* Mutant: the term after the accused one is skipped.
HandleStrongAccuseSkip(n, t) ==
  /\ t >= term[n]
  /\ SetNodeTerm(n, t + 2)
  /\ fresh' = [fresh EXCEPT ![n] = None]
  /\ UNCHANGED <<chain, votie, syncing, network, accused>>

HandleStrongAccuse(n, t) ==
  /\ t >= term[n]
  /\ SetNodeTerm(n, t + 1)
  /\ fresh' = [fresh EXCEPT ![n] = None]
  /\ UNCHANGED <<chain, votie, syncing, network, accused>>

-----------------------------------------------------------------------------
(* The sync daemon.  The check of a pack and its commit are not under one  *)
(* lock.  What else a SyncUpResponse carries (the peer's fresh and its     *)
(* last strong accuse) goes through the handlers above.                    *)

\* Mutant: the predecessor of a synced block need not be committed.
CheckBlockPackUnlinked(n, p) ==
  /\ n \in Syncers
  /\ syncing[n] = None
  /\ ~IsCommitted(n, p.block)
  /\ Cardinality({k \in Node : IsCommitted(k, p.block)}) >= AccuseQuorumN
  /\ syncing' = [syncing EXCEPT ![n] = p]
  /\ UNCHANGED <<stored, leader, network, accused>>

CheckBlockPack(n, p) ==
  /\ n \in Syncers
  /\ syncing[n] = None
  /\ ~IsCommitted(n, p.block)
  /\ IsCommitted(n, PrevBlockId[p.block])
  /\ Cardinality({k \in Node : IsCommitted(k, p.block)}) >= AccuseQuorumN
  /\ syncing' = [syncing EXCEPT ![n] = p]
  /\ UNCHANGED <<stored, leader, network, accused>>

\* The height is the key: a pack committed meanwhile is overwritten.  Neither
\* the votie, nor fresh, nor the term follows.
JustCommitIt(n) ==
  LET p == syncing[n]
      h == Height[p.block]
  IN  /\ p # None
      /\ chain' = [chain EXCEPT ![n] = IF h <= Len(@) THEN [@ EXCEPT ![h] = p]
                                                      ELSE Append(@, p)]
      /\ syncing' = [syncing EXCEPT ![n] = None]
      /\ OnNewCommitted(n, p.block)
      /\ UNCHANGED <<term, votie, fresh, network, accused>>

-----------------------------------------------------------------------------
\* A crash loses what is not in the database.  What one handler writes to the
\* database is taken to be written together.
Restart(n) ==
  /\ n \in Crashers
  /\ votes' = [votes EXCEPT ![n] = {}]
  /\ initing' = [initing EXCEPT ![n] = None]
  /\ votePool' = {v \in votePool : LeaderNodeOfTerm(v.term) # n}
  /\ syncing' = [syncing EXCEPT ![n] = None]
  /\ UNCHANGED <<stored, network, accused>>

Init ==
  /\ term = [n \in Node |-> 0]
  /\ chain = [n \in Node |-> <<>>]
  /\ votie = [n \in Node |-> GenesisPack]
  /\ fresh = [n \in Node |-> None]
  /\ votePool = {}
  /\ votes = [n \in Node |-> {}]
  /\ initing = [n \in Node |-> None]
  /\ syncing = [n \in Node |-> None]
  /\ inits = {}
  /\ prepares = [p \in Pack |-> {}]
  /\ commits = [p \in Pack |-> {}]
  /\ accused = {}

Next ==
  \E n \in Node :
    \/ \E t \in Term : CastVote(n, t)
    \/ \E v \in votes[n], b \in Block : CreateBlock(n, v.votie, b)
    \/ \E v \in votes[n], b \in Block : CreateBlockInVain(n, v.votie, b)
    \/ \E m \in inits : HandleInitMsg(n, m)
    \/ \E m \in inits : RefuseInitMsg(n, m)
    \/ HandlePrepareMsg(n)
    \/ HandleCommitMsg(n)
    \/ \E p \in Pack : AnswerPrepare(n, p)
    \/ \E p \in Pack : AnswerCommit(n, p)
    \/ NewStrongAccuse(n)
    \/ \E t \in accused : HandleStrongAccuse(n, t)
    \/ \E k \in Node : \E i \in DOMAIN chain[k] : CheckBlockPack(n, chain[k][i])
    \/ JustCommitIt(n)
    \/ Restart(n)

Spec == Init /\ [][Next]_vars

-----------------------------------------------------------------------------
(* Properties                                                              *)

\* No two nodes ever hold different blocks at one height, whatever mix of
\* commits, re-inits in later terms, syncs and restarts filled their chains.
Agreement ==
  \A m, n \in Node : \A i \in DOMAIN chain[m] \cap DOMAIN chain[n] :
    chain[m][i].block = chain[n][i].block

\* A pack is chosen when a quorum has sent commits for it: some node may
\* commit it now or at any later time.
Chosen(p) == IsQuorum(commits[p])

\* Once a block is chosen, leaders of later terms propose only that block or
\* blocks above it: tryCreateBlockImpl never loses a block through an election.
ChosenIsKept ==
  \A p \in Pack, m \in inits :
    Chosen(p) /\ m.term > p.term /\ Height[m.block] <= Height[p.block]
      => m.block = p.block

\* In one term the leader proposes at most one block per height, even if it
\* restarts and is elected again in that term: fresh, which is in the
\* database, stops tryCreateBlockImpl when Leader.initing is lost.
OneBlockPerTermHeight ==
  \A m1, m2 \in inits :
    m1.term = m2.term /\ Height[m1.block] = Height[m2.block]
      => m1.block = m2.block

AllVotes == votePool \cup UNION {votes[n] : n \in Node}

\* p was already chosen, as the same block, in a lower term.
ChosenBelow(p) ==
  \E q \in Pack : q.block = p.block /\ q.term < p.term /\ Chosen(q)

\* A vote reports everything its node has helped to choose in lower terms: its
\* votie is at least as high as every pack for which the node sent a commit
\* before, unless that commit only answered for a block chosen still earlier
\* (CommittedInLowerTermEvent leaves the votie alone).  It rests on updateVotie
\* running under the lock that handled the last prepare and on the daemon
\* reading the term before the votie.
VoteCoversCommits ==
  \A v \in AllVotes, p \in Pack :
    v.node \in commits[p] /\ p.term < v.term
      => ~HasLessTermHeightThan(v.votie, p) \/ ChosenBelow(p)

\* What a node has committed, by handleCommitMsg or by sync, was chosen in
\* exactly the term its pack records.
CommittedIsChosen == \A n \in Node : \A i \in DOMAIN chain[n] : Chosen(chain[n][i])

Blocks(packs) == [i \in DOMAIN packs |-> packs[i].block]

Promised == INSTANCE Ledger WITH ledger <- [n \in Node |-> Blocks(chain[n])]

\* The cluster implements the single growing chain: every commitBlockWithCheck
\* and every JustCommitIt either adds a block above everything committed
\* anywhere, or takes over the block other nodes have at that height, or
\* changes nothing but a pack's term.  So no committed block is ever replaced
\* or dropped, although JustCommitIt stores by height without looking.
ImplementsLedger == Promised!Spec

\* The same of every step that touches a chain, wherever the behaviour starts.
TakesLedgerSteps ==
  [][chain' # chain => \/ Promised!Next
                       \/ \A n \in Node : Blocks(chain'[n]) = Blocks(chain[n])]_vars
=============================================================================

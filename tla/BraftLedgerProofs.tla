------------------------- MODULE BraftLedgerProofs -------------------------
(* Theorems about what the elections of Braft keep: no block chosen in one *)
(* term is lost in a later one, no two nodes commit different blocks at    *)
(* one height, and the cluster implements the single chain of Ledger.      *)
EXTENDS BraftProofs, WellFoundedInduction

-----------------------------------------------------------------------------
(* The strengthening                                                       *)

\* The leader of p's term has proposed p.
IsProposed(p, msgs) == \E m \in msgs : m.term = p.term /\ m.block = p.block

\* Whatever a node agrees on, votes with or sends was proposed by a leader.
OriginInv ==
  /\ \A n \in Node : fresh[n] # None => IsProposed(fresh[n], inits)
  /\ \A n \in Node : votie[n] = GenesisPack \/ IsProposed(votie[n], inits)
  /\ \A v \in AllVotes : v.votie = GenesisPack \/ IsProposed(v.votie, inits)
  /\ \A p \in Pack : prepares[p] # {} \/ commits[p] # {} => IsProposed(p, inits)

\* The votes a leader counts are of its term and of different nodes.
ElectionInv ==
  /\ \A v, w \in votePool : v.node = w.node /\ v.term = w.term => v = w
  /\ \A n \in Node : \A v \in votes[n] : v.term = term[n]
  /\ \A n \in Node : \A v, w \in votes[n] : v.node = w.node => v = w

\* A quorum has left p's term without a commit for p, and sends none later.
NeverChosen(p) ==
  \E Q \in SUBSET Node :
    IsQuorum(Q) /\ \A n \in Q : term[n] > p.term /\ n \notin commits[p]

\* ChosenIsKept also of the packs that are not chosen yet.
KeptInv ==
  \A m \in inits, p \in Pack :
    m.term > p.term /\ Height[m.block] <= Height[p.block]
      => m.block = p.block \/ NeverChosen(p)

\* The block at height h of a chain.
BlockAt(packs, h) == IF h = 0 THEN Genesis ELSE packs[h].block

\* The block below b is the one the chain has there.
LinksTo(packs, b) ==
  /\ Height[b] \in 1..(Len(packs) + 1)
  /\ PrevBlockId[b] = BlockAt(packs, Height[b] - 1)

\* The key under which a block is stored is its height; what waits to be
\* committed, by agreement or by sync, links to the chain.
LinkInv ==
  /\ \A n \in Node : \A i \in DOMAIN chain[n] : Height[chain[n][i].block] = i
  /\ \A n \in Node : fresh[n] # None => LinksTo(chain[n], fresh[n].block)
  /\ \A n \in Node : syncing[n] # None => LinksTo(chain[n], syncing[n].block)

LedgerInv ==
  /\ IInv
  /\ OriginInv
  /\ ElectionInv
  /\ KeptInv
  /\ LinkInv

-----------------------------------------------------------------------------
(* Quorums                                                                 *)

\* Every nonempty set of numbers has a least one.
LEMMA LeastOfSet ==
  ASSUME NEW T \in SUBSET Nat, T # {}
  PROVE  \E x \in T : \A y \in T : x <= y
<1> DEFINE R == OpToRel(<, Nat)
<1>1. IsWellFoundedOn(R, Nat)
  BY NatLessThanWellFounded
<1>2. \A x, y \in Nat : x < y => <<x, y>> \in R
  BY DEF OpToRel
<1> HIDE DEF R
<1>3. PICK x \in T : \A y \in T : ~(<<y, x>> \in R)
  BY <1>1, WFMin
<1>4. \A y \in T : ~(y < x)
  BY <1>2, <1>3
<1>5. \A y \in T : x <= y
  BY <1>4
<1> QED BY <1>5

\* QuorumN is more than half of the cluster.
LEMMA QuorumSize ==
  /\ ClusterSize \in Nat
  /\ QuorumN \in Nat
  /\ QuorumN > 0
  /\ QuorumN + QuorumN > ClusterSize
<1>1. ClusterSize \in Nat \ {0}
  BY NodeAssumption, FS_CardinalityType, FS_EmptySet DEF ClusterSize
<1> QED BY <1>1 DEF QuorumN, MaxFaultyN

\* Two quorums have a node in common.
LEMMA QuorumsMeet ==
  ASSUME NEW S \in SUBSET Node, NEW T \in SUBSET Node, IsQuorum(S), IsQuorum(T)
  PROVE  \E n \in S : n \in T
<1>1. IsFiniteSet(S) /\ IsFiniteSet(T)
  BY NodeAssumption, FS_Subset
<1>2. Cardinality(S) \in Nat /\ Cardinality(T) \in Nat
  BY <1>1, FS_CardinalityType
<1>3. Cardinality(S) + Cardinality(T) > Cardinality(Node)
  BY <1>2, QuorumSize DEF IsQuorum, ClusterSize
<1>4. S \cap T # {}
  BY <1>3, NodeAssumption, FS_MajoritiesIntersect
<1> QED BY <1>4

\* A chosen pack has been sent commits for.
LEMMA ChosenHasCommits ==
  ASSUME TypeOK, NEW p \in Pack, Chosen(p)
  PROVE  commits[p] # {}
<1>1. Cardinality({}) = 0
  BY FS_EmptySet
<1>2. CASE commits[p] = {}
  BY <1>1, <1>2, QuorumSize DEF Chosen, IsQuorum
<1> QED BY <1>2

\* What can no longer be chosen is not chosen.
LEMMA NeverChosenIsNotChosen ==
  ASSUME TypeOK, NEW p \in Pack, NeverChosen(p)
  PROVE  ~Chosen(p)
<1> SUFFICES ASSUME Chosen(p) PROVE FALSE
  OBVIOUS
<1>1. PICK Q \in SUBSET Node : IsQuorum(Q) /\ \A n \in Q : n \notin commits[p]
  BY DEF NeverChosen
<1>2. commits[p] \in SUBSET Node /\ IsQuorum(commits[p])
  BY DEF TypeOK, Chosen
<1> QED BY <1>1, <1>2, QuorumsMeet

\* A node sends commits in its own term only.
LEMMA NewCommits ==
  ASSUME TypeOK, [Next]_vars, NEW p \in Pack, NEW k \in commits'[p],
         k \notin commits[p]
  PROVE  p.term = term[k]
<1>0. Footprint
  BY StepFootprint
<1>1. ASSUME NEW n \in Node, HandlePrepareMsg(n) PROVE p.term = term[k]
  <2>1. fresh[n] \in Pack /\ fresh[n].term = term[n] /\ SendCommit(n, fresh[n])
    BY <1>1 DEF HandlePrepareMsg, TypeOK
  <2>2. p = fresh[n] /\ k = n
    BY <2>1 DEF SendCommit, TypeOK
  <2> QED BY <2>1, <2>2
<1>2. ASSUME NEW n \in Node, NEW q \in Pack, AnswerCommit(n, q)
      PROVE  p.term = term[k]
  <2>1. q.term = term[n] /\ SendCommit(n, q)
    BY <1>2 DEF AnswerCommit, CommittedInLowerTerm
  <2>2. p = q /\ k = n
    BY <2>1 DEF SendCommit, TypeOK
  <2> QED BY <2>1, <2>2
<1> QED BY <1>0, <1>1, <1>2 DEF Footprint, ChangesCommits

\* A node that has left a term sends no commit of it.
LEMMA NeverChosenIsStable ==
  ASSUME TypeOK, TypeOK', [Next]_vars, NEW p \in Pack, NeverChosen(p)
  PROVE  NeverChosen(p)'
<1>1. PICK Q \in SUBSET Node :
        IsQuorum(Q) /\ \A n \in Q : term[n] > p.term /\ n \notin commits[p]
  BY DEF NeverChosen
<1>2. ASSUME NEW n \in Q PROVE term'[n] > p.term /\ n \notin commits'[p]
  <2>0. n \in Node /\ p.term \in Nat /\ term[n] \in Nat /\ term'[n] \in Nat
    BY TermAssumption DEF TypeOK, Pack, Term
  <2>1. term[n] <= term'[n] /\ term[n] > p.term
    BY <1>1, <2>0, Growth
  <2>2. n \notin commits'[p]
    BY <1>1, <2>0, <2>1, NewCommits
  <2> QED BY <2>0, <2>1, <2>2
<1>3. IsQuorum(Q)'
  BY <1>1 DEF IsQuorum
<1> QED BY <1>1, <1>2, <1>3 DEF NeverChosen

-----------------------------------------------------------------------------
(* Each part of the strengthening is preserved                             *)

\* A handler stores and sends only packs that a leader has proposed.
LEMMA OriginInvStep ==
  ASSUME TypeOK, TypeOK', OriginInv, [Next]_vars
  PROVE  OriginInv'
<1>0. Footprint
  BY StepFootprint
<1>1. \A p : IsProposed(p, inits) => IsProposed(p, inits')
  BY Growth DEF IsProposed
<1>2. ASSUME NEW n \in Node, NEW v \in votes[n], NEW b \in Block,
             CreateBlock(n, v.votie, b)
      PROVE  /\ IsProposed([term |-> term[n], block |-> b], inits')
             /\ fresh' = [fresh EXCEPT ![n] = [term |-> term[n], block |-> b]]
             /\ SendPrepare(n, [term |-> term[n], block |-> b])
  <2>1. /\ fresh' = [fresh EXCEPT ![n] = [term |-> term[n], block |-> b]]
        /\ SendPrepare(n, [term |-> term[n], block |-> b])
    BY <1>2 DEF CreateBlock
  <2>2. PICK mv : [term |-> term[n], block |-> b, maxVotie |-> mv] \in inits'
    BY <1>2 DEF CreateBlock
  <2>3. IsProposed([term |-> term[n], block |-> b], inits')
    BY <2>2 DEF IsProposed
  <2> QED BY <2>1, <2>3
<1>3. ASSUME NEW n \in Node, NEW m \in inits, HandleInitMsg(n, m)
      PROVE  /\ IsProposed([term |-> m.term, block |-> m.block], inits)
             /\ fresh' = [fresh EXCEPT ![n] = [term |-> m.term, block |-> m.block]]
             /\ SendPrepare(n, [term |-> m.term, block |-> m.block])
  BY <1>3 DEF HandleInitMsg, IsProposed
<1>4. ASSUME NEW k \in Node, fresh'[k] # None PROVE IsProposed(fresh'[k], inits')
  <2>1. CASE fresh'[k] = fresh[k]
    BY <1>1, <1>4, <2>1 DEF OriginInv
  <2>2. ASSUME NEW n \in Node, NEW v \in votes[n], NEW b \in Block,
               CreateBlock(n, v.votie, b), fresh'[k] # fresh[k]
        PROVE  IsProposed(fresh'[k], inits')
    <3>0. fresh' = [fresh EXCEPT ![n] = [term |-> term[n], block |-> b]]
      BY <1>2, <2>2
    <3>1. fresh'[k] = [term |-> term[n], block |-> b]
      BY <2>2, <3>0 DEF TypeOK
    <3> QED BY <1>2, <2>2, <3>1 DEF IsProposed
  <2>3. ASSUME NEW n \in Node, NEW m \in inits, HandleInitMsg(n, m),
               fresh'[k] # fresh[k]
        PROVE  IsProposed(fresh'[k], inits')
    <3>0. fresh' = [fresh EXCEPT ![n] = [term |-> m.term, block |-> m.block]]
      BY <1>3, <2>3
    <3>1. fresh'[k] = [term |-> m.term, block |-> m.block]
      BY <2>3, <3>0 DEF TypeOK
    <3> QED BY <1>1, <1>3, <2>3, <3>1 DEF IsProposed
  <2>4. ASSUME NEW n \in Node, fresh' = [fresh EXCEPT ![n] = None] \/ fresh' = fresh
        PROVE  fresh'[k] = fresh[k]
    BY <1>4, <2>4 DEF TypeOK
  <2> QED
    BY <1>0, <2>1, <2>2, <2>3, <2>4
    DEF Footprint, ChangesTerm, ChangesInits, ChangesChain, RefuseInitMsg,
        HandleStrongAccuse, HandleCommitMsg, JustCommitIt
<1>5. ASSUME NEW k \in Node PROVE votie'[k] = GenesisPack \/ IsProposed(votie'[k], inits')
  <2>1. CASE votie'[k] = votie[k]
    <3>1. votie[k] = GenesisPack \/ IsProposed(votie[k], inits)
      BY DEF OriginInv
    <3> QED BY <1>1, <2>1, <3>1 DEF IsProposed
  <2>2. ASSUME NEW n \in Node, HandlePrepareMsg(n) \/ HandleCommitMsg(n),
               votie'[k] # votie[k]
        PROVE  IsProposed(votie'[k], inits')
    <3>1. fresh[n] # None /\ UpdateVotie(n, fresh[n])
      BY <2>2 DEF HandlePrepareMsg, HandleCommitMsg
    <3>2. votie'[k] = fresh[n]
      BY <2>2, <3>1 DEF UpdateVotie, TypeOK
    <3>3. IsProposed(fresh[n], inits)
      BY <3>1 DEF OriginInv
    <3> QED BY <1>1, <3>2, <3>3 DEF IsProposed
  <2> QED BY <1>0, <2>1, <2>2 DEF Footprint, ChangesVotie
<1>6. ASSUME NEW v \in AllVotes' PROVE v.votie = GenesisPack \/ IsProposed(v.votie, inits')
  <2>1. CASE v \in AllVotes
    BY <1>1, <2>1 DEF OriginInv, IsProposed
  <2>2. CASE IsNewVote(v)
    <3>1. PICK n \in Node : v.votie = votie[n]
      BY <2>2 DEF IsNewVote
    <3> QED BY <1>1, <3>1 DEF OriginInv, IsProposed
  <2> QED BY <2>1, <2>2, StepVotes DEF VotesAreCast
<1>7. ASSUME NEW p \in Pack, prepares'[p] # {} \/ commits'[p] # {} PROVE IsProposed(p, inits')
  <2>1. CASE prepares[p] # {} \/ commits[p] # {}
    BY <1>1, <2>1 DEF OriginInv
  <2>2. ASSUME NEW n \in Node, NEW q \in Pack, SendPrepare(n, q), prepares[p] = {},
               prepares'[p] # {}
        PROVE  p = q
    BY <2>2 DEF SendPrepare, TypeOK
  <2>3. ASSUME NEW n \in Node, NEW q \in Pack, SendCommit(n, q), commits[p] = {},
               commits'[p] # {}
        PROVE  p = q
    BY <2>3 DEF SendCommit, TypeOK
  <2>4. CASE prepares[p] = {} /\ prepares'[p] # {}
    <3>1. ASSUME NEW n \in Node, NEW v \in votes[n], NEW b \in Block,
                 CreateBlock(n, v.votie, b)
          PROVE  IsProposed(p, inits')
      <4>1. [term |-> term[n], block |-> b] \in Pack
        BY DEF TypeOK, Pack
      <4> QED BY <1>2, <2>2, <2>4, <3>1, <4>1
    <3>2. ASSUME NEW n \in Node, NEW m \in inits, HandleInitMsg(n, m)
          PROVE  IsProposed(p, inits')
      <4>1. [term |-> m.term, block |-> m.block] \in Pack
        BY DEF TypeOK, InitMsg, Pack
      <4> QED BY <1>1, <1>3, <2>2, <2>4, <3>2, <4>1
    <3>3. ASSUME NEW n \in Node, NEW q \in Pack, AnswerPrepare(n, q)
          PROVE  IsProposed(p, inits')
      <4>1. p = q /\ prepares[q] # {}
        BY <2>2, <2>4, <3>3 DEF AnswerPrepare
      <4> QED BY <2>4, <4>1
    <3> QED BY <1>0, <2>4, <3>1, <3>2, <3>3 DEF Footprint, ChangesPrepares
  <2>5. CASE commits[p] = {} /\ commits'[p] # {}
    <3>1. ASSUME NEW n \in Node, HandlePrepareMsg(n) PROVE IsProposed(p, inits')
      <4>1. fresh[n] \in Pack /\ fresh[n] # None /\ SendCommit(n, fresh[n])
        BY <3>1 DEF HandlePrepareMsg, TypeOK
      <4>2. p = fresh[n]
        BY <2>3, <2>5, <4>1
      <4> QED BY <1>1, <4>1, <4>2 DEF OriginInv
    <3>2. ASSUME NEW n \in Node, NEW q \in Pack, AnswerCommit(n, q)
          PROVE  IsProposed(p, inits')
      <4>1. p = q /\ commits[q] # {}
        BY <2>3, <2>5, <3>2 DEF AnswerCommit
      <4> QED BY <2>5, <4>1
    <3> QED BY <1>0, <2>5, <3>1, <3>2 DEF Footprint, ChangesCommits
  <2> QED BY <1>7, <2>1, <2>4, <2>5
<1> QED BY <1>4, <1>5, <1>6, <1>7 DEF OriginInv, IsProposed

\* What happens to the votes: one is cast, the leader changes term, its chain
\* grows, or it restarts.
VotesFootprint ==
  \/ UNCHANGED <<term, votePool, votes>>
  \/ \E n \in Node, t \in Term : CastVote(n, t)
  \/ \E n \in Node, t \in Term : t >= term[n] /\ SetNodeTerm(n, t)
  \/ \E n \in Node, b \in Block : OnNewCommitted(n, b) /\ UNCHANGED term
  \/ \E n \in Node : Restart(n)

\* No other action touches the votes.
LEMMA StepVotesFootprint ==
  ASSUME TypeOK, [Next]_vars
  PROVE  VotesFootprint
<1> USE DEF stored, leader, network
<1>1. CASE UNCHANGED <<term, votePool, votes>>
  BY <1>1 DEF VotesFootprint
<1>2. ASSUME NEW n \in Node, NEW t \in Term, CastVote(n, t) PROVE VotesFootprint
  BY <1>2 DEF VotesFootprint
<1>3. ASSUME NEW n \in Node, NEW v \in votes[n], NEW b \in Block,
             CreateBlock(n, v.votie, b) \/ CreateBlockInVain(n, v.votie, b)
      PROVE  UNCHANGED <<term, votePool, votes>>
  BY <1>3 DEF CreateBlock, CreateBlockInVain
<1>4. ASSUME NEW n \in Node, NEW m \in inits, HandleInitMsg(n, m) \/ RefuseInitMsg(n, m)
      PROVE  VotesFootprint
  <2>1. m.term \in Term /\ m.term \in Nat /\ term[n] \in Nat
    BY TermAssumption DEF TypeOK, InitMsg, Term
  <2>2. SetNodeTerm(n, m.term) /\ m.term >= term[n]
    BY <1>4, <2>1 DEF HandleInitMsg, RefuseInitMsg, InitInTerm
  <2> QED BY <2>1, <2>2 DEF VotesFootprint
<1>5. ASSUME NEW n \in Node, NEW t \in accused, HandleStrongAccuse(n, t)
      PROVE  VotesFootprint
  <2>1. t + 1 \in Term /\ t \in Int /\ term[n] \in Nat
    BY TermAssumption DEF TypeOK, Term
  <2>2. SetNodeTerm(n, t + 1) /\ t + 1 >= term[n]
    BY <1>5, <2>1 DEF HandleStrongAccuse
  <2> QED BY <2>1, <2>2 DEF VotesFootprint
<1>6. ASSUME NEW n \in Node,
             \/ HandlePrepareMsg(n)
             \/ NewStrongAccuse(n)
             \/ \E p \in Pack : AnswerPrepare(n, p) \/ AnswerCommit(n, p)
             \/ \E k \in Node : \E i \in DOMAIN chain[k] : CheckBlockPack(n, chain[k][i])
      PROVE  UNCHANGED <<term, votePool, votes>>
  BY <1>6 DEF HandlePrepareMsg, NewStrongAccuse, AnswerPrepare, AnswerCommit,
              CommittedInLowerTerm, CheckBlockPack
<1>7. ASSUME NEW n \in Node, HandleCommitMsg(n) PROVE VotesFootprint
  <2>1. fresh[n].block \in Block
    BY <1>7 DEF HandleCommitMsg, TypeOK, Pack
  <2> QED BY <1>7, <2>1 DEF HandleCommitMsg, VotesFootprint
<1>8. ASSUME NEW n \in Node, JustCommitIt(n) PROVE VotesFootprint
  <2>1. syncing[n].block \in Block
    BY <1>8 DEF JustCommitIt, TypeOK, Pack
  <2> QED BY <1>8, <2>1 DEF JustCommitIt, VotesFootprint
<1>9. ASSUME NEW n \in Node, Restart(n) PROVE VotesFootprint
  BY <1>9 DEF VotesFootprint
<1>10. CASE UNCHANGED vars
  BY <1>10, <1>1 DEF vars
<1> QED
  BY <1>1, <1>2, <1>3, <1>4, <1>5, <1>6, <1>7, <1>8, <1>9, <1>10 DEF Next

\* The votes of a set are of different nodes.
OnePerNode(S) == \A v, w \in S : v.node = w.node => v = w

\* A pool has room for one vote per node and term.
OnePerTerm(S) == \A v, w \in S : v.node = w.node /\ v.term = w.term => v = w

\* A scan adds votes of its term, one per node that is not held yet.
LEMMA ScanIsElection ==
  ASSUME NEW n, NEW t, NEW top, NEW pool, NEW held,
         OnePerTerm(pool), OnePerNode(held), \A v \in held : v.term = t
  PROVE  /\ OnePerNode(ScanVotePool(n, t, top, pool, held))
         /\ \A v \in ScanVotePool(n, t, top, pool, held) : v.term = t
<1>1. \A v \in ScanVotePool(n, t, top, pool, held) :
         v \in held \/ (v \in pool /\ v.term = t /\ \A x \in held : x.node # v.node)
  BY DEF ScanVotePool
<1> QED BY <1>1 DEF OnePerNode, OnePerTerm

\* The votes held follow the node's term and stay one per node.
LEMMA ElectionInvStep ==
  ASSUME TypeOK, ElectionInv, [Next]_vars
  PROVE  ElectionInv'
<1> DEFINE Fine(k, t, S) == OnePerNode(S) /\ \A v \in S : v.term = t
<1>1. OnePerTerm(votePool) /\ \A k \in Node : Fine(k, term[k], votes[k])
  BY DEF ElectionInv, OnePerTerm, OnePerNode
<1> SUFFICES OnePerTerm(votePool') /\ \A k \in Node : Fine(k, term'[k], votes'[k])
  BY DEF ElectionInv, OnePerTerm, OnePerNode
<1>2. ASSUME NEW S, S \subseteq votePool PROVE OnePerTerm(S)
  BY <1>1, <1>2 DEF OnePerTerm
<1>3. CASE UNCHANGED <<term, votePool, votes>>
  BY <1>1, <1>3
<1>4. ASSUME NEW n \in Node, NEW t \in Term, CastVote(n, t)
      PROVE  OnePerTerm(votePool') /\ \A k \in Node : Fine(k, term'[k], votes'[k])
  <2> DEFINE ld == LeaderNodeOfTerm(t)
             v == [node |-> n, term |-> t, votie |-> votie[n]]
             pool == {x \in votePool : x.node # n \/ x.term # t} \cup {v}
             held == ScanVotePool(ld, term[ld], GetCommitTop(ld), pool, votes[ld])
  <2>1. /\ votePool' = Pooled(ld, term[ld], pool, held)
        /\ votes' = [votes EXCEPT ![ld] = held]
        /\ UNCHANGED term
    BY <1>4 DEF CastVote, stored
  <2>2. OnePerTerm(pool)
    BY <1>1 DEF OnePerTerm
  <2>3. ld \in Node
    BY LeaderIsNode
  <2> HIDE DEF ld, v, pool
  <2>4. Fine(ld, term[ld], held)
    BY <1>1, <2>2, <2>3, ScanIsElection
  <2> HIDE DEF held
  <2>5. OnePerTerm(votePool')
    BY <2>1, <2>2 DEF Pooled, OnePerTerm
  <2>6. \A k \in Node : votes'[k] = IF k = ld THEN held ELSE votes[k]
    BY <2>1 DEF TypeOK
  <2> QED BY <1>1, <2>1, <2>4, <2>5, <2>6
<1>5. ASSUME NEW n \in Node, NEW t \in Term, t >= term[n], SetNodeTerm(n, t)
      PROVE  OnePerTerm(votePool') /\ \A k \in Node : Fine(k, term'[k], votes'[k])
  <2> DEFINE held == ScanVotePool(n, t, GetCommitTop(n), votePool, {})
  <2>1. Fine(n, t, held)
    <3>1. OnePerNode({})
      BY DEF OnePerNode
    <3> QED BY <1>1, <3>1, ScanIsElection
  <2> HIDE DEF held
  <2>2. term' = [term EXCEPT ![n] = t] /\ t \in Nat /\ term[n] \in Nat
    BY <1>5, TermAssumption DEF SetNodeTerm, TypeOK, Term
  <2>3. CASE t > term[n]
    <3>1. /\ votes' = [votes EXCEPT ![n] = held]
          /\ votePool' = Pooled(n, t, votePool, held)
      BY <1>5, <2>3 DEF SetNodeTerm, held
    <3>2. OnePerTerm(votePool')
      BY <1>2, <3>1 DEF Pooled
    <3>3. \A k \in Node : /\ votes'[k] = IF k = n THEN held ELSE votes[k]
                          /\ term'[k] = IF k = n THEN t ELSE term[k]
      BY <2>2, <3>1 DEF TypeOK
    <3> QED BY <1>1, <2>1, <3>2, <3>3
  <2>4. CASE t = term[n]
    <3>1. UNCHANGED <<votes, votePool>>
      BY <1>5, <2>2, <2>4 DEF SetNodeTerm, leader
    <3>2. \A k \in Node : term'[k] = term[k]
      BY <2>2, <2>4 DEF TypeOK
    <3> QED BY <1>1, <3>1, <3>2
  <2> QED BY <1>5, <2>2, <2>3, <2>4
<1>6. ASSUME NEW n \in Node, NEW b \in Block, OnNewCommitted(n, b), UNCHANGED term
      PROVE  OnePerTerm(votePool') /\ \A k \in Node : Fine(k, term'[k], votes'[k])
  <2> DEFINE held == ScanVotePool(n, term[n], GetCommitTop(n)', votePool, votes[n])
  <2>1. Fine(n, term[n], held)
    BY <1>1, ScanIsElection
  <2> HIDE DEF held
  <2>2. /\ votes' = [votes EXCEPT ![n] = held]
        /\ votePool' = Pooled(n, term[n], votePool, held)
    BY <1>6 DEF OnNewCommitted, held
  <2>3. OnePerTerm(votePool')
    BY <1>2, <2>2 DEF Pooled
  <2>4. \A k \in Node : votes'[k] = IF k = n THEN held ELSE votes[k]
    BY <2>2 DEF TypeOK
  <2> QED BY <1>1, <1>6, <2>1, <2>3, <2>4
<1>7. ASSUME NEW n \in Node, Restart(n)
      PROVE  OnePerTerm(votePool') /\ \A k \in Node : Fine(k, term'[k], votes'[k])
  <2>1. OnePerTerm(votePool')
    BY <1>2, <1>7 DEF Restart
  <2>2. \A k \in Node : votes'[k] = {} \/ votes'[k] = votes[k]
    BY <1>7 DEF Restart, TypeOK
  <2>3. UNCHANGED term
    BY <1>7 DEF Restart, stored
  <2> QED BY <1>1, <2>1, <2>2, <2>3 DEF OnePerNode
<1> HIDE DEF Fine
<1> QED BY <1>3, <1>4, <1>5, <1>6, <1>7, StepVotesFootprint DEF VotesFootprint

\* Only the genesis block has height 0; a block is one higher than the block
\* below it.
LEMMA BlockHeights ==
  ASSUME NEW b \in Block
  PROVE  /\ Height[b] \in Nat
         /\ b # Genesis => Height[b] > 0
         /\ \A a : IsPrev(a, b) => a \in Block /\ Height[b] = Height[a] + 1
<1>1. ASSUME b # Genesis
      PROVE  PrevBlockId[b] \in Block /\ Height[b] = Height[PrevBlockId[b]] + 1
  BY <1>1, BlockAssumption
<1>2. ASSUME b # Genesis PROVE Height[b] > 0
  <2>1. Height[PrevBlockId[b]] \in Nat
    BY <1>1, <1>2, BlockAssumption
  <2> QED BY <1>1, <1>2, <2>1
<1>3. Height[b] \in Nat
  BY BlockAssumption
<1> QED BY <1>1, <1>2, <1>3 DEF IsPrev

\* The top of a chain is the genesis pack or was proposed by a leader.
LEMMA TopIsProposed ==
  ASSUME TypeOK, ChosenInv, OriginInv, NEW n \in Node
  PROVE  /\ GetCommitTop(n) \in Pack
         /\ GetCommitTop(n) = GenesisPack \/ IsProposed(GetCommitTop(n), inits)
<1>1. CASE chain[n] = <<>>
  BY <1>1, GenesisPackType DEF GetCommitTop
<1>2. CASE chain[n] # <<>>
  <2>1. /\ Len(chain[n]) \in DOMAIN chain[n]
        /\ GetCommitTop(n) = chain[n][Len(chain[n])]
        /\ GetCommitTop(n) \in Pack
    BY <1>2, EmptySeq, LenProperties, ElementOfSeq DEF GetCommitTop, TypeOK
  <2>2. Chosen(GetCommitTop(n))
    BY <2>1 DEF ChosenInv, CommittedIsChosen
  <2>3. commits[GetCommitTop(n)] # {}
    BY <2>1, <2>2, ChosenHasCommits
  <2> QED BY <2>1, <2>3 DEF OriginInv
<1> QED BY <1>1, <1>2

\* A proposal that is not below p is of p's block or above it, or p is lost.
LEMMA NotBelow ==
  ASSUME OneBlockPerTermHeight, KeptInv,
         NEW p \in Pack, p.block # Genesis, IsProposed(p, inits),
         NEW q \in Pack, q = GenesisPack \/ IsProposed(q, inits),
         ~HasLessTermHeightThan(q, p)
  PROVE  \/ NeverChosen(p)
         \/ q.block = p.block
         \/ Height[q.block] > Height[p.block]
<1>1. /\ p.term \in Nat /\ q.term \in Nat /\ p.block \in Block /\ q.block \in Block
      /\ Height[p.block] \in Nat /\ Height[q.block] \in Nat /\ Height[p.block] > 0
  BY BlockHeights, TermAssumption DEF Pack, Term
<1>2. q.term > p.term \/ (q.term = p.term /\ Height[q.block] >= Height[p.block])
  BY <1>1 DEF HasLessTermHeightThan
<1>3. CASE q = GenesisPack
  <2>1. q.term = 0 /\ Height[q.block] = 0
    BY <1>3, BlockAssumption DEF GenesisPack
  <2> QED BY <1>1, <1>2, <2>1
<1>4. CASE IsProposed(q, inits)
  <2>1. PICK m \in inits : m.term = q.term /\ m.block = q.block
    BY <1>4 DEF IsProposed
  <2>2. PICK mp \in inits : mp.term = p.term /\ mp.block = p.block
    BY DEF IsProposed
  <2>3. CASE q.term > p.term
    BY <1>1, <2>1, <2>3 DEF KeptInv
  <2>4. CASE q.term = p.term /\ Height[q.block] = Height[p.block]
    BY <2>1, <2>2, <2>4 DEF OneBlockPerTermHeight
  <2> QED BY <1>1, <1>2, <2>3, <2>4
<1> QED BY <1>3, <1>4

\* tryCreateBlockImpl: with a maximal votie that is not below p the leader
\* proposes p's block or a higher one, unless p is lost.
LEMMA LeaderKeeps ==
  ASSUME TypeOK, ChosenInv, OneBlockPerTermHeight, OriginInv, KeptInv,
         NEW n \in Node, NEW mv \in Pack, NEW b \in Block,
         mv = GenesisPack \/ IsProposed(mv, inits),
         BlockToInit(n, mv, b),
         NEW p \in Pack, p.block # Genesis, IsProposed(p, inits),
         ~HasLessTermHeightThan(mv, p),
         Height[b] <= Height[p.block]
  PROVE  b = p.block \/ NeverChosen(p)
<1> SUFFICES ASSUME ~NeverChosen(p) PROVE b = p.block
  OBVIOUS
<1> DEFINE top == GetCommitTop(n)
<1>1. top \in Pack /\ (top = GenesisPack \/ IsProposed(top, inits))
  BY TopIsProposed
<1>2. mv.block = p.block \/ Height[mv.block] > Height[p.block]
  BY NotBelow
<1>3. /\ IsPrev(top.block, b)
      /\ HasLessTermHeightThan(top, mv) /\ mv.block # top.block => b = mv.block
  BY DEF BlockToInit
<1> HIDE DEF top
<1>4. Height[b] = Height[top.block] + 1
  BY <1>3, BlockHeights
<1>5. /\ Height[top.block] \in Nat /\ Height[p.block] \in Nat
      /\ Height[mv.block] \in Nat
  BY <1>1, BlockHeights DEF Pack
<1>6. CASE b = mv.block
  BY <1>2, <1>5, <1>6
<1>7. CASE mv.block = top.block
  BY <1>2, <1>4, <1>5, <1>7
<1>8. CASE ~HasLessTermHeightThan(top, mv)
  <2>1. ~HasLessTermHeightThan(top, p)
    BY <1>1, <1>8, PackOrder
  <2>2. top.block = p.block \/ Height[top.block] > Height[p.block]
    BY <1>1, <2>1, NotBelow
  <2> QED BY <1>4, <1>5, <2>2
<1> QED BY <1>3, <1>6, <1>7, <1>8

\* The nodes behind a leader's votes are a quorum.
LEMMA VotersAreQuorum ==
  ASSUME TypeOK, ElectionInv, NEW n \in Node, IsInCharge(n)
  PROVE  /\ {v.node : v \in votes[n]} \in SUBSET Node
         /\ IsQuorum({v.node : v \in votes[n]})
<1> DEFINE Q == {v.node : v \in votes[n]}
           f == [v \in votes[n] |-> v.node]
<1>1. Q \in SUBSET Node
  BY DEF TypeOK, Vote
<1>2. IsFiniteSet(Q)
  BY <1>1, NodeAssumption, FS_Subset
<1>3. f \in Injection(votes[n], Q)
  <2>1. f \in [votes[n] -> Q]
    OBVIOUS
  <2>2. \A v, w \in votes[n] : f[v] = f[w] => v = w
    BY DEF ElectionInv
  <2> QED BY <2>1, <2>2 DEF Injection, IsInjective
<1> HIDE DEF Q, f
<1>4. IsFiniteSet(votes[n]) /\ Cardinality(votes[n]) <= Cardinality(Q)
  BY <1>2, <1>3, FS_Injection
<1>5. Cardinality(votes[n]) \in Nat /\ Cardinality(Q) \in Nat
  BY <1>2, <1>4, FS_CardinalityType
<1>6. IsQuorum(Q)
  BY <1>4, <1>5, QuorumSize DEF IsInCharge, IsQuorum
<1> QED BY <1>1, <1>6 DEF Q

\* What was chosen below a pack was chosen a first time.
LEMMA FirstChosen ==
  ASSUME NEW p \in Pack, ChosenBelow(p)
  PROVE  \E q \in Pack : /\ q.block = p.block
                         /\ q.term < p.term
                         /\ Chosen(q)
                         /\ ~ChosenBelow(q)
<1> DEFINE S == {q \in Pack : q.block = p.block /\ q.term < p.term /\ Chosen(q)}
           T == {q.term : q \in S}
<1>1. \A q \in Pack : q.term \in Nat
  BY TermAssumption DEF Pack, Term
<1>2. T \in SUBSET Nat /\ T # {}
  BY <1>1 DEF ChosenBelow
<1>3. PICK t \in T : \A u \in T : t <= u
  BY <1>2, LeastOfSet
<1>4. PICK q \in S : q.term = t
  BY <1>3
<1>5. ASSUME ChosenBelow(q) PROVE FALSE
  <2>1. PICK r \in Pack : r.block = q.block /\ r.term < q.term /\ Chosen(r)
    BY <1>5 DEF ChosenBelow
  <2>2. r \in S
    BY <1>1, <1>4, <2>1
  <2>3. t <= r.term
    BY <1>3, <2>2
  <2> QED BY <1>1, <1>4, <2>1, <2>3
<1> QED BY <1>4, <1>5

\* The votes behind a leader report every pack that is or may yet be chosen in
\* a lower term, or the same block from the term in which it was first chosen.
LEMMA VotesReport ==
  ASSUME TypeOK, VotieInv, VoteCoversCommits, ElectionInv,
         NEW n \in Node, IsInCharge(n), NEW p \in Pack, p.term < term[n]
  PROVE  \/ NeverChosen(p)
         \/ \E q \in Pack, v \in votes[n] :
              /\ q.block = p.block
              /\ q = p \/ Chosen(q)
              /\ commits[q] # {}
              /\ ~HasLessTermHeightThan(v.votie, q)
<1> DEFINE Q == {v.node : v \in votes[n]}
<1>1. Q \in SUBSET Node /\ IsQuorum(Q)
  BY VotersAreQuorum
<1>2. \A v \in votes[n] : /\ v \in AllVotes /\ v.term = term[n] /\ v.node \in Node
                          /\ term[n] <= term[v.node]
  <2>1. \A v \in votes[n] : v \in AllVotes /\ v.term = term[n]
    BY DEF AllVotes, ElectionInv
  <2>2. \A v \in votes[n] : v.node \in Node
    BY DEF TypeOK, Vote
  <2> QED BY <2>1, <2>2 DEF VotieInv
<1>3. /\ \A q \in Pack : q.term \in Nat
      /\ \A k \in Node : term[k] \in Nat
  BY TermAssumption DEF TypeOK, Pack, Term
<1>4. CASE \A k \in Q : k \notin commits[p]
  <2>1. \A k \in Q : term[k] > p.term
    BY <1>2, <1>3
  <2> QED BY <1>1, <1>4, <2>1 DEF NeverChosen
<1>5. CASE \E k \in Q : k \in commits[p]
  <2>1. PICK v \in votes[n] : v.node \in commits[p]
    BY <1>5
  <2>2. ~HasLessTermHeightThan(v.votie, p) \/ ChosenBelow(p)
    BY <1>2, <2>1 DEF VoteCoversCommits
  <2>3. CASE ~HasLessTermHeightThan(v.votie, p)
    BY <2>1, <2>3
  <2>4. CASE ChosenBelow(p)
    <3>1. PICK q \in Pack :
            q.block = p.block /\ q.term < p.term /\ Chosen(q) /\ ~ChosenBelow(q)
      BY <2>4, FirstChosen
    <3>2. commits[q] \in SUBSET Node /\ IsQuorum(commits[q])
      BY <3>1 DEF TypeOK, Chosen
    <3>3. PICK k \in Q : k \in commits[q]
      BY <1>1, <3>2, QuorumsMeet
    <3>4. PICK w \in votes[n] : w.node \in commits[q]
      BY <3>3
    <3>5. q.term < w.term
      BY <1>2, <1>3, <3>1
    <3>6. ~HasLessTermHeightThan(w.votie, q)
      BY <1>2, <3>1, <3>4, <3>5 DEF VoteCoversCommits
    <3> QED BY <3>1, <3>4, <3>6
  <2> QED BY <2>2, <2>3, <2>4
<1> QED BY <1>4, <1>5

\* A new init keeps what may have been chosen in lower terms.
LEMMA KeptInvStep ==
  ASSUME IInv, TypeOK', OriginInv, ElectionInv, KeptInv, [Next]_vars
  PROVE  KeptInv'
<1>0. Footprint
  BY StepFootprint
<1>a. TypeOK /\ FreshInv /\ ChosenInv /\ OneBlockPerTermHeight /\ VotieInv
      /\ VoteCoversCommits
  BY DEF IInv
<1> SUFFICES ASSUME NEW m \in inits', NEW p \in Pack,
                    m.term > p.term, Height[m.block] <= Height[p.block],
                    m.block # p.block
             PROVE  NeverChosen(p)'
  BY DEF KeptInv
<1>1. CASE m \in inits
  BY <1>a, <1>1, NeverChosenIsStable DEF KeptInv
<1>2. ASSUME NEW n \in Node, NEW x \in votes[n], NEW b \in Block,
             CreateBlock(n, x.votie, b), m \notin inits
      PROVE  NeverChosen(p)
  <2> DEFINE mv == x.votie
  <2>1. m.term = term[n] /\ m.block = b
    BY <1>2, <1>a, CreateBlockEffect
  <2>2. IsInCharge(n) /\ IsMaxVotie(mv, votes[n]) /\ BlockToInit(n, mv, b)
    BY <1>2 DEF CreateBlock, TryCreateBlock
  <2>3. \A v \in votes[n] : v \in AllVotes /\ v.votie \in Pack
    BY <1>a DEF AllVotes, TypeOK, Vote
  <2>4. mv = GenesisPack \/ IsProposed(mv, inits)
    BY <2>3 DEF OriginInv
  <2>5. p.term < term[n]
    BY <1>a, <2>1, TermAssumption DEF TypeOK, Pack, Term
  <2> SUFFICES ASSUME NEW q \in Pack, NEW v \in votes[n],
                      q.block = p.block, q = p \/ Chosen(q), commits[q] # {},
                      ~HasLessTermHeightThan(v.votie, q)
               PROVE  NeverChosen(p)
    BY <1>a, <2>2, <2>5, VotesReport
  <2>6. ~HasLessTermHeightThan(mv, q)
    <3>1. ~HasLessTermHeightThan(mv, v.votie)
      BY <2>2 DEF IsMaxVotie
    <3> QED BY <2>3, <3>1, PackOrder
  <2>7. q.block # Genesis /\ IsProposed(q, inits)
    BY <1>a DEF FreshInv, OriginInv
  <2>8. NeverChosen(q)
    <3> HIDE DEF mv
    <3>1. mv \in Pack
      BY <2>3 DEF mv
    <3> QED BY <1>a, <2>1, <2>2, <2>4, <2>6, <2>7, <3>1, LeaderKeeps
  <2>9. ~Chosen(q)
    BY <1>a, <2>8, NeverChosenIsNotChosen
  <2> QED BY <2>8, <2>9
<1>3. ASSUME NeverChosen(p) PROVE NeverChosen(p)'
  BY <1>a, <1>3, NeverChosenIsStable
<1> QED BY <1>0, <1>1, <1>2, <1>3 DEF Footprint, ChangesInits

\* Two chosen packs of one height are of one block.
LEMMA ChosenIsUnique ==
  ASSUME TypeOK, OneBlockPerTermHeight, OriginInv, KeptInv,
         NEW p \in Pack, NEW q \in Pack, Chosen(p), Chosen(q),
         Height[p.block] = Height[q.block]
  PROVE  p.block = q.block
<1>1. IsProposed(p, inits) /\ IsProposed(q, inits)
  BY ChosenHasCommits DEF OriginInv
<1>2. PICK mp \in inits : mp.term = p.term /\ mp.block = p.block
  BY <1>1 DEF IsProposed
<1>3. PICK mq \in inits : mq.term = q.term /\ mq.block = q.block
  BY <1>1 DEF IsProposed
<1>4. ~NeverChosen(p) /\ ~NeverChosen(q)
  BY NeverChosenIsNotChosen
<1>5. /\ p.term \in Nat /\ q.term \in Nat
      /\ Height[p.block] \in Nat /\ Height[q.block] \in Nat
  BY BlockHeights, TermAssumption DEF Pack, Term
<1>6. CASE p.term = q.term
  BY <1>2, <1>3, <1>6 DEF OneBlockPerTermHeight
<1>7. CASE p.term < q.term
  BY <1>3, <1>4, <1>5, <1>7 DEF KeptInv
<1>8. CASE q.term < p.term
  BY <1>2, <1>4, <1>5, <1>8 DEF KeptInv
<1> QED BY <1>5, <1>6, <1>7, <1>8

SameBlocks(s, t) ==
  Len(s) = Len(t) /\ \A i \in 1..Len(s) : s[i].block = t[i].block

\* A chain that keeps its blocks or grows keeps what links to it.
LEMMA LinksAreKept ==
  ASSUME NEW s \in Seq(Pack), NEW t \in Seq(Pack), NEW b \in Block, LinksTo(s, b),
         SameBlocks(s, t) \/ \E p \in Pack : t = Append(s, p)
  PROVE  LinksTo(t, b)
<1>1. Len(s) \in Nat /\ Len(t) \in Nat /\ Height[b] \in Nat
  BY LenProperties, BlockHeights
<1>2. Len(s) <= Len(t) /\ \A i \in 1..Len(s) : s[i].block = t[i].block
  <2>1. CASE SameBlocks(s, t)
    BY <1>1, <2>1 DEF SameBlocks
  <2>2. ASSUME NEW p \in Pack, t = Append(s, p)
        PROVE  Len(s) <= Len(t) /\ \A i \in 1..Len(s) : s[i].block = t[i].block
    <3>1. Len(t) = Len(s) + 1 /\ \A i \in 1..Len(s) : t[i] = s[i]
      BY <2>2, AppendProperties
    <3> QED BY <1>1, <3>1
  <2> QED BY <2>1, <2>2
<1>3. BlockAt(t, Height[b] - 1) = BlockAt(s, Height[b] - 1)
  BY <1>1, <1>2 DEF LinksTo, BlockAt
<1> QED BY <1>1, <1>2, <1>3 DEF LinksTo

\* A step that touches chains touches one: it puts a chosen block that links to
\* the chain on top, or changes no block.
ChainFootprint ==
  \/ UNCHANGED chain
  \/ \E n \in Node :
       /\ \A k \in Node \ {n} : chain'[k] = chain[k]
       /\ \/ SameBlocks(chain[n], chain'[n])
          \/ \E p \in Pack : /\ chain'[n] = Append(chain[n], p)
                             /\ Chosen(p)
                             /\ LinksTo(chain[n], p.block)
                             /\ Height[p.block] = Len(chain[n]) + 1

\* handleCommitMsg adds fresh; JustCommitIt adds the synced pack or finds its
\* block already there.
LEMMA StepChainFootprint ==
  ASSUME TypeOK, ChosenInv, OneBlockPerTermHeight, OriginInv, KeptInv, LinkInv,
         [Next]_vars
  PROVE  ChainFootprint
<1>0. Footprint
  BY StepFootprint
<1>1. ASSUME NEW n \in Node, HandleCommitMsg(n) PROVE ChainFootprint
  <2>1. /\ fresh[n] \in Pack
        /\ Chosen(fresh[n])
        /\ LinksTo(chain[n], fresh[n].block)
        /\ Height[fresh[n].block] = Len(chain[n]) + 1
    BY <1>1 DEF HandleCommitMsg, GetCommitHeight, Chosen, LinkInv, TypeOK
  <2>2. chain' = [chain EXCEPT ![n] = Append(chain[n], fresh[n])]
    BY <1>1 DEF HandleCommitMsg
  <2>3. /\ chain'[n] = Append(chain[n], fresh[n])
        /\ \A k \in Node \ {n} : chain'[k] = chain[k]
    BY <2>2 DEF TypeOK
  <2> QED BY <2>1, <2>3 DEF ChainFootprint
<1>2. ASSUME NEW n \in Node, JustCommitIt(n) PROVE ChainFootprint
  <2> DEFINE p == syncing[n]
             h == Height[p.block]
             new == IF h <= Len(chain[n]) THEN [chain[n] EXCEPT ![h] = p]
                                          ELSE Append(chain[n], p)
  <2>1. p \in Pack /\ Chosen(p) /\ LinksTo(chain[n], p.block)
    BY <1>2 DEF JustCommitIt, ChosenInv, LinkInv, TypeOK
  <2>2. chain[n] \in Seq(Pack) /\ Len(chain[n]) \in Nat /\ h \in 1..(Len(chain[n]) + 1)
    BY <2>1, LenProperties DEF LinksTo, TypeOK
  <2>3. chain' = [chain EXCEPT ![n] = new]
    BY <1>2 DEF JustCommitIt
  <2>4. chain'[n] = new /\ \A k \in Node \ {n} : chain'[k] = chain[k]
    BY <2>3 DEF TypeOK
  <2>5. CASE h <= Len(chain[n])
    <3>1. new = [chain[n] EXCEPT ![h] = p]
      BY <2>5
    <3>2. /\ h \in DOMAIN chain[n]
          /\ chain[n][h] \in Pack
          /\ Chosen(chain[n][h])
          /\ Height[chain[n][h].block] = h
      BY <2>2, <2>5, LenProperties, ElementOfSeq
      DEF ChosenInv, CommittedIsChosen, LinkInv
    <3>3. chain[n][h].block = p.block
      BY <2>1, <3>2, ChosenIsUnique
    <3> HIDE DEF p, h
    <3>4. SameBlocks(chain[n], [chain[n] EXCEPT ![h] = p])
      BY <2>2, <3>3 DEF SameBlocks
    <3> QED BY <2>4, <3>1, <3>4 DEF ChainFootprint
  <2>6. CASE h = Len(chain[n]) + 1
    <3>1. new = Append(chain[n], p)
      BY <2>2, <2>6
    <3> QED BY <2>1, <2>4, <2>6, <3>1 DEF ChainFootprint
  <2> QED BY <2>2, <2>5, <2>6
<1> QED BY <1>0, <1>1, <1>2 DEF Footprint, ChangesChain, ChainFootprint

\* The chains, fresh and what is being synced stay linked.
LEMMA LinkInvStep ==
  ASSUME TypeOK, TypeOK', FreshInv, ChosenInv, OneBlockPerTermHeight, OriginInv,
         KeptInv, LinkInv, [Next]_vars
  PROVE  LinkInv'
<1>0. Footprint /\ ChainFootprint
  BY StepFootprint, StepChainFootprint
<1>1. \A k \in Node : chain[k] \in Seq(Pack) /\ chain'[k] \in Seq(Pack)
  BY DEF TypeOK
<1>2. ASSUME NEW k \in Node
      PROVE  \/ SameBlocks(chain[k], chain'[k])
             \/ \E p \in Pack : /\ chain'[k] = Append(chain[k], p)
                                /\ Height[p.block] = Len(chain[k]) + 1
  <2>1. SameBlocks(chain[k], chain[k])
    BY DEF SameBlocks
  <2> QED BY <1>0, <2>1 DEF ChainFootprint
<1>3. ASSUME NEW k \in Node, NEW b \in Block, LinksTo(chain[k], b)
      PROVE  LinksTo(chain'[k], b)
  BY <1>1, <1>2, <1>3, LinksAreKept
<1>4. ASSUME NEW k \in Node, NEW i \in DOMAIN chain'[k]
      PROVE  Height[chain'[k][i].block] = i
  <2>1. i \in 1..Len(chain'[k]) /\ Len(chain[k]) \in Nat
    BY <1>1, LenProperties
  <2>2. \A j \in 1..Len(chain[k]) : Height[chain[k][j].block] = j
    BY <1>1, LenProperties DEF LinkInv
  <2>3. CASE SameBlocks(chain[k], chain'[k])
    BY <2>1, <2>2, <2>3 DEF SameBlocks
  <2>4. ASSUME NEW p \in Pack, chain'[k] = Append(chain[k], p),
               Height[p.block] = Len(chain[k]) + 1
        PROVE  Height[chain'[k][i].block] = i
    <3>1. /\ Len(chain'[k]) = Len(chain[k]) + 1
          /\ \A j \in 1..Len(chain[k]) : chain'[k][j] = chain[k][j]
          /\ chain'[k][Len(chain[k]) + 1] = p
      BY <1>1, <2>4, AppendProperties
    <3> QED BY <2>1, <2>2, <2>4, <3>1
  <2> QED BY <1>2, <2>3, <2>4
<1>5. ASSUME NEW k \in Node, fresh'[k] # None
      PROVE  LinksTo(chain'[k], fresh'[k].block)
  <2>1. CASE fresh'[k] = fresh[k]
    <3>1. fresh[k].block \in Block /\ LinksTo(chain[k], fresh[k].block)
      BY <1>5, <2>1 DEF TypeOK, Pack, LinkInv
    <3> QED BY <1>3, <2>1, <3>1
  <2>2. ASSUME NEW b \in Block, NEW t, IsConnectingTop(k, [term |-> t, block |-> b])
        PROVE  LinksTo(chain[k], b)
    <3>1. IsPrev(GetCommitTop(k).block, b) /\ Height[b] = Len(chain[k]) + 1
      BY <2>2 DEF IsConnectingTop, GetCommitHeight
    <3>2. PrevBlockId[b] = GetCommitTop(k).block
      BY <3>1 DEF IsPrev
    <3>3. /\ Len(chain[k]) \in Nat
          /\ chain[k] = <<>> <=> Len(chain[k]) = 0
      BY <1>1, LenProperties, EmptySeq
    <3>4. GetCommitTop(k).block = BlockAt(chain[k], Len(chain[k]))
      BY <3>3 DEF GetCommitTop, BlockAt, GenesisPack
    <3> QED BY <3>1, <3>2, <3>3, <3>4 DEF LinksTo
  <2>3. ASSUME NEW n \in Node, NEW v \in votes[n], NEW b \in Block,
               CreateBlock(n, v.votie, b), fresh'[k] # fresh[k]
        PROVE  LinksTo(chain'[k], fresh'[k].block)
    <3>1. /\ fresh' = [fresh EXCEPT ![n] = [term |-> term[n], block |-> b]]
          /\ IsConnectingTop(n, [term |-> term[n], block |-> b])
      BY <2>3 DEF CreateBlock
    <3>2. k = n /\ fresh'[k].block = b
      BY <2>3, <3>1 DEF TypeOK
    <3> QED BY <1>3, <2>2, <3>1, <3>2
  <2>4. ASSUME NEW n \in Node, NEW m \in inits, HandleInitMsg(n, m),
               fresh'[k] # fresh[k]
        PROVE  LinksTo(chain'[k], fresh'[k].block)
    <3>1. /\ fresh' = [fresh EXCEPT ![n] = [term |-> m.term, block |-> m.block]]
          /\ IsConnectingTop(n, [term |-> m.term, block |-> m.block])
      BY <2>4 DEF HandleInitMsg
    <3>2. k = n /\ fresh'[k].block = m.block /\ m.block \in Block
      BY <2>4, <3>1 DEF TypeOK, InitMsg
    <3> QED BY <1>3, <2>2, <3>1, <3>2
  <2>5. ASSUME NEW n \in Node, fresh' = [fresh EXCEPT ![n] = None] \/ fresh' = fresh
        PROVE  fresh'[k] = fresh[k]
    BY <1>5, <2>5 DEF TypeOK
  <2> QED
    BY <1>0, <2>1, <2>3, <2>4, <2>5
    DEF Footprint, ChangesTerm, ChangesInits, ChangesChain, RefuseInitMsg,
        HandleStrongAccuse, HandleCommitMsg, JustCommitIt
<1>6. ASSUME NEW k \in Node, syncing'[k] # None
      PROVE  LinksTo(chain'[k], syncing'[k].block)
  <2>1. CASE syncing'[k] = syncing[k]
    <3>1. syncing[k].block \in Block /\ LinksTo(chain[k], syncing[k].block)
      BY <1>6, <2>1 DEF TypeOK, Pack, LinkInv
    <3> QED BY <1>3, <2>1, <3>1
  <2>2. ASSUME NEW n \in Node, NEW j \in Node, NEW i \in DOMAIN chain[j],
               CheckBlockPack(n, chain[j][i]), syncing'[k] # syncing[k]
        PROVE  LinksTo(chain'[k], syncing'[k].block)
    <3> DEFINE p == chain[j][i]
               b == p.block
    <3>1. syncing' = [syncing EXCEPT ![n] = p] /\ IsCommitted(n, PrevBlockId[b])
      BY <2>2 DEF CheckBlockPack
    <3>2. k = n /\ syncing'[k] = p
      BY <2>2, <3>1 DEF TypeOK
    <3>3. p \in Pack /\ b \in Block /\ Chosen(p)
      <4>1. p \in Pack
        BY DEF TypeOK
      <4>2. Chosen(p)
        BY DEF ChosenInv, CommittedIsChosen
      <4> QED BY <4>1, <4>2 DEF Pack
    <3> HIDE DEF p
    <3>4. b # Genesis
      BY <3>3, ChosenHasCommits DEF FreshInv
    <3>5. /\ PrevBlockId[b] \in Block
          /\ Height[b] = Height[PrevBlockId[b]] + 1
          /\ Height[PrevBlockId[b]] \in Nat
      BY <3>3, <3>4, BlockAssumption
    <3>6. LinksTo(chain[n], b)
      <4>1. CASE PrevBlockId[b] = Genesis
        <5>1. Len(chain[n]) \in Nat /\ Height[b] = 1
          BY <1>1, <3>5, <4>1, LenProperties, BlockAssumption
        <5> QED BY <4>1, <5>1 DEF LinksTo, BlockAt
      <4>2. CASE PrevBlockId[b] # Genesis
        <5>1. PICK h \in DOMAIN chain[n] : chain[n][h].block = PrevBlockId[b]
          BY <3>1, <4>2 DEF IsCommitted
        <5>2. Height[PrevBlockId[b]] = h
          BY <5>1 DEF LinkInv
        <5>3. h \in 1..Len(chain[n]) /\ Len(chain[n]) \in Nat
          BY <1>1, <5>1, LenProperties
        <5> QED BY <3>5, <5>1, <5>2, <5>3 DEF LinksTo, BlockAt
      <4> QED BY <4>1, <4>2
    <3>7. LinksTo(chain'[n], b)
      BY <1>3, <3>3, <3>6
    <3> QED BY <3>2, <3>7
  <2>3. ASSUME NEW n \in Node, JustCommitIt(n) \/ Restart(n)
        PROVE  syncing'[k] = syncing[k]
    BY <1>6, <2>3 DEF JustCommitIt, Restart, TypeOK
  <2> QED BY <1>0, <2>1, <2>2, <2>3 DEF Footprint, ChangesSyncing
<1> QED BY <1>4, <1>5, <1>6 DEF LinkInv

-----------------------------------------------------------------------------
(* The theorems                                                            *)

\* The strengthening holds of a fresh database.
LEMMA LedgerInvInit == Init => LedgerInv
<1> SUFFICES ASSUME Init PROVE LedgerInv
  OBVIOUS
<1>1. IInv
  BY IInvInit
<1>2. AllVotes = {}
  BY DEF Init, AllVotes
<1>3. OriginInv
  BY <1>2 DEF Init, OriginInv
<1>4. ElectionInv /\ KeptInv
  BY DEF Init, ElectionInv, KeptInv
<1>5. LinkInv
  BY DEF Init, LinkInv
<1> QED BY <1>1, <1>3, <1>4, <1>5 DEF LedgerInv

\* Every action preserves the strengthening.
LEMMA LedgerInvStep == LedgerInv /\ [Next]_vars => LedgerInv'
<1> SUFFICES ASSUME LedgerInv, [Next]_vars PROVE LedgerInv'
  OBVIOUS
<1>1. IInv /\ IInv' /\ OriginInv /\ ElectionInv /\ KeptInv /\ LinkInv
  BY IInvStep DEF LedgerInv
<1>2. TypeOK /\ TypeOK' /\ FreshInv /\ ChosenInv /\ OneBlockPerTermHeight
  BY <1>1 DEF IInv
<1>3. OriginInv'
  BY <1>1, <1>2, OriginInvStep
<1>4. ElectionInv'
  BY <1>1, <1>2, ElectionInvStep
<1>5. KeptInv'
  BY <1>1, <1>2, KeptInvStep
<1>6. LinkInv'
  BY <1>1, <1>2, LinkInvStep
<1> QED BY <1>1, <1>3, <1>4, <1>5, <1>6 DEF LedgerInv

\* The strengthening is an invariant of the cluster.
THEOREM LedgerInvariance == Spec => []LedgerInv
<1>1. Init => LedgerInv
  BY LedgerInvInit
<1>2. LedgerInv /\ [Next]_vars => LedgerInv'
  BY LedgerInvStep
<1> QED BY <1>1, <1>2, PTL DEF Spec

\* The facts about chosen packs that the steps of the ledger rest on.
LEMMA LedgerInvParts ==
  ASSUME LedgerInv
  PROVE  /\ TypeOK /\ FreshInv /\ ChosenInv /\ OneBlockPerTermHeight
         /\ OriginInv /\ KeptInv /\ LinkInv
  BY DEF LedgerInv, IInv

\* No election loses a block: once a quorum has sent commits for a block, no
\* leader of a later term proposes another one at its height or below.
THEOREM ElectionsKeepChosen == Spec => []ChosenIsKept
<1>1. LedgerInv => ChosenIsKept
  BY LedgerInvParts, NeverChosenIsNotChosen DEF KeptInv, ChosenIsKept
<1> QED BY <1>1, LedgerInvariance, PTL

\* No two nodes ever hold different blocks at one height, however elections,
\* syncs and restarts interleave.
THEOREM NodesAgree == Spec => []Agreement
<1>1. LedgerInv => Agreement
  <2> SUFFICES ASSUME LedgerInv, NEW m \in Node, NEW n \in Node,
                      NEW i \in DOMAIN chain[m], i \in DOMAIN chain[n]
               PROVE  chain[m][i].block = chain[n][i].block
    BY DEF Agreement
  <2>1. /\ TypeOK /\ ChosenInv /\ OneBlockPerTermHeight
        /\ OriginInv /\ KeptInv /\ LinkInv
    BY LedgerInvParts
  <2>2. chain[m][i] \in Pack /\ chain[n][i] \in Pack
    BY <2>1 DEF TypeOK
  <2>3. Chosen(chain[m][i]) /\ Chosen(chain[n][i])
    BY <2>1 DEF ChosenInv, CommittedIsChosen
  <2>4. Height[chain[m][i].block] = Height[chain[n][i].block]
    BY <2>1 DEF LinkInv
  <2> QED BY <2>1, <2>2, <2>3, <2>4, ChosenIsUnique
<1> QED BY <1>1, LedgerInvariance, PTL

\* The blocks of a chain are as many as its packs, and its top is the block the
\* next one has to name.
LEMMA BlocksOfChain ==
  ASSUME NEW s \in Seq(Pack)
  PROVE  /\ Blocks(s) \in Seq(Block)
         /\ Len(Blocks(s)) = Len(s)
         /\ \A i \in 1..Len(s) : Blocks(s)[i] = s[i].block
         /\ Promised!TopBlock(Blocks(s)) = BlockAt(s, Len(s))
<1>1. Len(s) \in Nat /\ DOMAIN s = 1..Len(s)
  BY LenProperties
<1>2. \A i \in 1..Len(s) : s[i].block \in Block
  <2>1. \A i \in 1..Len(s) : s[i] \in Pack
    BY ElementOfSeq
  <2> QED BY <2>1 DEF Pack
<1>3. Blocks(s) \in Seq(Block) /\ Len(Blocks(s)) = Len(s)
  <2>1. Blocks(s) = [i \in 1..Len(s) |-> s[i].block]
    BY <1>1 DEF Blocks
  <2>2. Blocks(s) \in [1..Len(s) -> Block]
    BY <1>2, <2>1
  <2>3. Blocks(s) \in Seq(Block)
    BY <1>1, <2>2, SeqDef
  <2> QED BY <1>1, <2>1, <2>3
<1>4. \A i \in 1..Len(s) : Blocks(s)[i] = s[i].block
  BY <1>1 DEF Blocks
<1>5. Blocks(s) = <<>> <=> Len(s) = 0
  BY <1>1, <1>3, EmptySeq
<1>6. Promised!TopBlock(Blocks(s)) = BlockAt(s, Len(s))
  BY <1>1, <1>3, <1>4, <1>5 DEF Promised!TopBlock, BlockAt
<1> QED BY <1>3, <1>4, <1>6

\* A pack put on top of a chain puts its block on top of the blocks.
LEMMA BlocksOfAppend ==
  ASSUME NEW s \in Seq(Pack), NEW p \in Pack
  PROVE  Blocks(Append(s, p)) = Append(Blocks(s), p.block)
<1>1. Len(s) \in Nat /\ DOMAIN s = 1..Len(s) /\ p.block \in Block
  BY LenProperties DEF Pack
<1>2. /\ Append(s, p) \in Seq(Pack)
      /\ Len(Append(s, p)) = Len(s) + 1
      /\ \A i \in 1..Len(s) : Append(s, p)[i] = s[i]
      /\ Append(s, p)[Len(s) + 1] = p
  BY AppendProperties
<1>3. /\ Blocks(Append(s, p)) \in Seq(Block)
      /\ Len(Blocks(Append(s, p))) = Len(s) + 1
      /\ \A i \in 1..(Len(s) + 1) : Blocks(Append(s, p))[i] = Append(s, p)[i].block
  BY <1>2, BlocksOfChain
<1>4. /\ Append(Blocks(s), p.block) \in Seq(Block)
      /\ Len(Append(Blocks(s), p.block)) = Len(s) + 1
      /\ \A i \in 1..Len(s) : Append(Blocks(s), p.block)[i] = s[i].block
      /\ Append(Blocks(s), p.block)[Len(s) + 1] = p.block
  BY <1>1, BlocksOfChain, AppendProperties
<1>5. \A i \in 1..(Len(s) + 1) :
         Blocks(Append(s, p))[i] = Append(Blocks(s), p.block)[i]
  BY <1>1, <1>2, <1>3, <1>4
<1> QED BY <1>3, <1>4, <1>5, SeqEqual

\* Every step that touches a chain is a step of the ledger or changes no block.
LEMMA LedgerSteps ==
  ASSUME LedgerInv, TypeOK', [Next]_vars
  PROVE  \/ Promised!Next
         \/ \A n \in Node : Blocks(chain'[n]) = Blocks(chain[n])
<1>1. /\ TypeOK /\ FreshInv /\ ChosenInv /\ OneBlockPerTermHeight
      /\ OriginInv /\ KeptInv /\ LinkInv
  BY LedgerInvParts
<1>2. ChainFootprint
  BY <1>1, StepChainFootprint
<1>3. \A k \in Node : /\ chain[k] \in Seq(Pack) /\ chain'[k] \in Seq(Pack)
                      /\ Len(chain[k]) \in Nat
  BY <1>1, LenProperties DEF TypeOK
<1>4. CASE UNCHANGED chain
  BY <1>4
<1>5. ASSUME NEW n \in Node, \A k \in Node \ {n} : chain'[k] = chain[k],
             SameBlocks(chain[n], chain'[n])
      PROVE  \A k \in Node : Blocks(chain'[k]) = Blocks(chain[k])
  <2>1. /\ Blocks(chain[n]) \in Seq(Block) /\ Blocks(chain'[n]) \in Seq(Block)
        /\ Len(Blocks(chain'[n])) = Len(Blocks(chain[n]))
        /\ Len(Blocks(chain[n])) = Len(chain[n])
    BY <1>3, <1>5, BlocksOfChain DEF SameBlocks
  <2>2. \A i \in 1..Len(chain[n]) : Blocks(chain'[n])[i] = Blocks(chain[n])[i]
    BY <1>3, <1>5, BlocksOfChain DEF SameBlocks
  <2>3. Blocks(chain'[n]) = Blocks(chain[n])
    BY <2>1, <2>2, SeqEqual
  <2> QED BY <1>5, <2>3
<1>6. ASSUME NEW n \in Node, \A k \in Node \ {n} : chain'[k] = chain[k],
             NEW p \in Pack, chain'[n] = Append(chain[n], p), Chosen(p),
             LinksTo(chain[n], p.block), Height[p.block] = Len(chain[n]) + 1
      PROVE  Promised!Next
  <2> DEFINE L == [k \in Node |-> Blocks(chain[k])]
             b == p.block
  <2>1. b \in Block /\ b # Genesis
    BY <1>3, <1>6, BlockAssumption DEF Pack
  <2>2. PrevBlockId[b] = Promised!TopBlock(L[n])
    <3>1. PrevBlockId[b] = BlockAt(chain[n], Len(chain[n]))
      BY <1>3, <1>6 DEF LinksTo
    <3> QED BY <1>3, <3>1, BlocksOfChain
  <2>3. ASSUME NEW k \in Node, Len(L[k]) > Len(L[n]) PROVE L[k][Len(L[n]) + 1] = b
    <3>1. Len(L[k]) = Len(chain[k]) /\ Len(L[n]) = Len(chain[n])
      BY <1>3, BlocksOfChain
    <3> DEFINE h == Len(chain[n]) + 1
    <3>2. h \in 1..Len(chain[k])
      BY <1>3, <2>3, <3>1
    <3>3. h \in DOMAIN chain[k] /\ chain[k][h] \in Pack
      BY <1>3, <3>2, LenProperties, ElementOfSeq
    <3>4. Chosen(chain[k][h]) /\ Height[chain[k][h].block] = h
      BY <1>1, <3>3 DEF ChosenInv, CommittedIsChosen, LinkInv
    <3>5. chain[k][h].block = b
      BY <1>1, <1>6, <3>3, <3>4, ChosenIsUnique
    <3>6. L[k][h] = chain[k][h].block
      BY <1>3, <3>2, BlocksOfChain
    <3> QED BY <3>1, <3>5, <3>6
  <2>4. [k \in Node |-> Blocks(chain'[k])] = [L EXCEPT ![n] = Append(L[n], b)]
    <3>1. Blocks(chain'[n]) = Append(L[n], b)
      BY <1>3, <1>6, BlocksOfAppend
    <3> HIDE DEF b
    <3> QED BY <1>6, <3>1
  <2>5. Promised!Commit(n, b)
    BY <2>1, <2>2, <2>3, <2>4 DEF Promised!Commit
  <2> QED BY <2>1, <2>5 DEF Promised!Next
<1> QED BY <1>2, <1>4, <1>5, <1>6 DEF ChainFootprint

\* From any state the cluster reaches, a step that touches a chain adds one block
\* to one chain as the ledger allows, or changes only the term of a pack.
THEOREM StepsAreLedgerSteps == Spec => TakesLedgerSteps
<1>1. LedgerInv /\ LedgerInv' /\ [Next]_vars
        => [chain' # chain => \/ Promised!Next
                              \/ \A n \in Node : Blocks(chain'[n]) = Blocks(chain[n])]_vars
  <2>1. LedgerInv' => TypeOK'
    BY DEF LedgerInv, IInv
  <2> QED BY <2>1, LedgerSteps
<1> QED BY <1>1, LedgerInvariance, PTL DEF Spec, TakesLedgerSteps

\* The cluster implements the single growing chain of Ledger, of which every
\* node holds a beginning.
THEOREM ClusterImplementsLedger == Spec => ImplementsLedger
<1>1. Init => Promised!Init
  BY DEF Init, Promised!Init, Blocks
<1>2. LedgerInv /\ LedgerInv' /\ [Next]_vars
        => [Promised!Next]_([n \in Node |-> Blocks(chain[n])])
  <2>1. LedgerInv' => TypeOK'
    BY DEF LedgerInv, IInv
  <2> QED BY <2>1, LedgerSteps
<1> QED BY <1>1, <1>2, LedgerInvariance, PTL DEF Spec, ImplementsLedger, Promised!Spec
=============================================================================

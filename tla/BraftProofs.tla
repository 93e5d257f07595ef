---------------------------- MODULE BraftProofs ----------------------------
(* Theorems about Braft for every cluster, every tree of blocks and every  *)
(* bound on the terms.                                                     *)
EXTENDS Braft, FiniteSetTheorems, SequenceTheorems, TLAPS

-----------------------------------------------------------------------------
(* Types                                                                   *)

\* The pack of InitDB is a pack.
LEMMA GenesisPackType == GenesisPack \in Pack
  BY BlockAssumption, TermAssumption DEF GenesisPack, Pack, Term

\* A scan adds pooled votes only and the pool only loses votes.
LEMMA ScanIsWithinPool ==
  ASSUME NEW n, NEW t, NEW top, NEW pool, NEW held
  PROVE  /\ ScanVotePool(n, t, top, pool, held) \subseteq held \cup pool
         /\ Pooled(n, t, pool, held) \subseteq pool
<1>1. ScanVotePool(n, t, top, pool, held) \subseteq held \cup pool
  BY DEF ScanVotePool
<1>2. Pooled(n, t, pool, held) \subseteq pool
  BY DEF Pooled
<1> QED BY <1>1, <1>2

\* A term change leaves the leader's votes, pool and initing well typed.
LEMMA SetNodeTermType ==
  ASSUME TypeOK, NEW n \in Node, NEW t \in Term, SetNodeTerm(n, t)
  PROVE  /\ term' \in [Node -> Term]
         /\ votePool' \subseteq Vote
         /\ votes' \in [Node -> SUBSET Vote]
         /\ initing' \in [Node -> Block \cup {None}]
<1> DEFINE held == ScanVotePool(n, t, GetCommitTop(n), votePool, {})
<1>1. held \subseteq Vote
  BY ScanIsWithinPool DEF TypeOK
<1> HIDE DEF held
<1>2. Pooled(n, t, votePool, held) \subseteq Vote
  BY DEF Pooled, TypeOK
<1>3. CASE t > term[n]
  <2>1. /\ votes' = [votes EXCEPT ![n] = held]
        /\ votePool' = Pooled(n, t, votePool, held)
        /\ initing' = [initing EXCEPT ![n] = None]
    BY <1>3 DEF SetNodeTerm, held
  <2> QED BY <2>1, <1>1, <1>2 DEF SetNodeTerm, TypeOK
<1>4. CASE ~(t > term[n])
  BY <1>4 DEF SetNodeTerm, leader, TypeOK
<1> QED BY <1>3, <1>4

\* So does what the leader does on a new committed block.
LEMMA OnNewCommittedType ==
  ASSUME TypeOK, NEW n \in Node, NEW b, OnNewCommitted(n, b)
  PROVE  /\ votePool' \subseteq Vote
         /\ votes' \in [Node -> SUBSET Vote]
         /\ initing' \in [Node -> Block \cup {None}]
<1> DEFINE held == ScanVotePool(n, term[n], GetCommitTop(n)', votePool, votes[n])
<1>1. held \subseteq Vote
  BY ScanIsWithinPool DEF TypeOK
<1> HIDE DEF held
<1>2. Pooled(n, term[n], votePool, held) \subseteq Vote
  BY DEF Pooled, TypeOK
<1>3. /\ initing' = IF IsInCharge(n) /\ initing[n] = b
                    THEN [initing EXCEPT ![n] = None] ELSE initing
      /\ votes' = [votes EXCEPT ![n] = held]
      /\ votePool' = Pooled(n, term[n], votePool, held)
  BY DEF OnNewCommitted, held
<1> QED BY <1>1, <1>2, <1>3 DEF TypeOK

\* Storing a pack by height, as JustCommitIt does, keeps a chain a sequence of
\* packs: it replaces one or adds one at the end.
LEMMA StoreType ==
  ASSUME NEW s \in Seq(Pack), NEW h \in Nat, NEW p \in Pack
  PROVE  (IF h <= Len(s) THEN [s EXCEPT ![h] = p] ELSE Append(s, p)) \in Seq(Pack)
<1>1. CASE h \in 1..Len(s)
  <2>1. [s EXCEPT ![h] = p] \in Seq(Pack)
    BY <1>1, ExceptSeq
  <2> QED BY <1>1, <2>1
<1>2. CASE h = 0
  <2>1. /\ DOMAIN [s EXCEPT ![h] = p] = DOMAIN s
        /\ \A i \in DOMAIN s : [s EXCEPT ![h] = p][i] = s[i]
    BY <1>2
  <2>2. [s EXCEPT ![h] = p] = s
    BY <2>1
  <2>3. h <= Len(s)
    BY <1>2, LenProperties
  <2> QED BY <2>2, <2>3, Zenon
<1>3. CASE h > Len(s)
  <2>1. Append(s, p) \in Seq(Pack)
    BY AppendProperties
  <2>2. ~(h <= Len(s))
    BY <1>3, LenProperties
  <2> QED BY <2>1, <2>2, Zenon
<1>4. Len(s) \in Nat
  BY LenProperties
<1> QED BY <1>1, <1>2, <1>3, <1>4

\* updateVotie stores a pack.
LEMMA UpdateVotieType ==
  ASSUME TypeOK, NEW n \in Node, NEW p \in Pack, UpdateVotie(n, p)
  PROVE  votie' \in [Node -> Pack]
  BY DEF UpdateVotie, TypeOK

\* Sending a prepare or a commit adds a node to the senders of a pack.
LEMMA SendType ==
  ASSUME TypeOK, NEW n \in Node, NEW p \in Pack
  PROVE  /\ SendPrepare(n, p) => prepares' \in [Pack -> SUBSET Node]
         /\ SendCommit(n, p) => commits' \in [Pack -> SUBSET Node]
<1>1. ASSUME SendPrepare(n, p) PROVE prepares' \in [Pack -> SUBSET Node]
  BY <1>1 DEF SendPrepare, TypeOK
<1>2. ASSUME SendCommit(n, p) PROVE commits' \in [Pack -> SUBSET Node]
  BY <1>2 DEF SendCommit, TypeOK
<1> QED BY <1>1, <1>2

\* Every handler, leader step, sync step and restart keeps the types.
LEMMA TypeOKStep == TypeOK /\ [Next]_vars => TypeOK'
<1> SUFFICES ASSUME TypeOK, [Next]_vars PROVE TypeOK'
  OBVIOUS
<1> USE DEF stored, leader, network
<1>1. ASSUME NEW n \in Node, NEW t \in Term, CastVote(n, t) PROVE TypeOK'
  <2> DEFINE ld == LeaderNodeOfTerm(t)
             v == [node |-> n, term |-> t, votie |-> votie[n]]
             pool == {x \in votePool : x.node # n \/ x.term # t} \cup {v}
             held == ScanVotePool(ld, term[ld], GetCommitTop(ld), pool, votes[ld])
  <2>1. /\ votePool' = Pooled(ld, term[ld], pool, held)
        /\ votes' = [votes EXCEPT ![ld] = held]
        /\ UNCHANGED <<stored, initing, syncing, network, accused>>
    BY <1>1 DEF CastVote
  <2>2. v \in Vote
    BY DEF TypeOK, Vote
  <2>3. pool \subseteq Vote
    BY <2>2 DEF TypeOK
  <2> HIDE DEF ld, v, pool
  <2>4. ld \in Node => held \subseteq Vote
    BY <2>3, ScanIsWithinPool DEF TypeOK
  <2> HIDE DEF held
  <2>5. Pooled(ld, term[ld], pool, held) \subseteq Vote
    BY <2>3 DEF Pooled
  <2>6. votes' \in [Node -> SUBSET Vote]
    BY <2>1, <2>4 DEF TypeOK
  <2> QED BY <2>1, <2>5, <2>6 DEF TypeOK
<1>2. ASSUME NEW n \in Node, NEW v \in votes[n], NEW b \in Block,
             CreateBlock(n, v.votie, b)
      PROVE  TypeOK'
  <2>1. v.votie \in Pack
    BY DEF TypeOK, Vote
  <2>2. [term |-> term[n], block |-> b] \in Pack
    BY DEF TypeOK, Pack
  <2>3. initing' \in [Node -> Block \cup {None}]
    BY <1>2 DEF CreateBlock, TryCreateBlock, TypeOK
  <2>4. prepares' \in [Pack -> SUBSET Node]
    BY <1>2, <2>2, SendType DEF CreateBlock
  <2>5. inits' \subseteq InitMsg
    BY <1>2, <2>1 DEF CreateBlock, InitMsg, TypeOK
  <2>6. fresh' \in [Node -> Pack \cup {None}]
    BY <1>2, <2>2 DEF CreateBlock, TypeOK
  <2> QED BY <1>2, <2>3, <2>4, <2>5, <2>6 DEF CreateBlock, TypeOK
<1>3. ASSUME NEW n \in Node, NEW v \in votes[n], NEW b \in Block,
             CreateBlockInVain(n, v.votie, b)
      PROVE  TypeOK'
  BY <1>3 DEF CreateBlockInVain, TryCreateBlock, TypeOK
<1>4. ASSUME NEW n \in Node, NEW m \in inits, HandleInitMsg(n, m) PROVE TypeOK'
  <2>1. m.term \in Term /\ [term |-> m.term, block |-> m.block] \in Pack
    BY DEF TypeOK, InitMsg, Pack
  <2>2. prepares' \in [Pack -> SUBSET Node]
    BY <1>4, <2>1, SendType DEF HandleInitMsg
  <2>3. fresh' \in [Node -> Pack \cup {None}]
    BY <1>4, <2>1 DEF HandleInitMsg, TypeOK
  <2>4. SetNodeTerm(n, m.term)
    BY <1>4 DEF HandleInitMsg
  <2> QED BY <1>4, <2>1, <2>2, <2>3, <2>4, SetNodeTermType DEF HandleInitMsg, TypeOK
<1>5. ASSUME NEW n \in Node, NEW m \in inits, RefuseInitMsg(n, m) PROVE TypeOK'
  <2>1. m.term \in Term
    BY DEF TypeOK, InitMsg
  <2>2. SetNodeTerm(n, m.term)
    BY <1>5 DEF RefuseInitMsg
  <2> QED BY <1>5, <2>1, <2>2, SetNodeTermType DEF RefuseInitMsg, TypeOK
<1>6. ASSUME NEW n \in Node, HandlePrepareMsg(n) PROVE TypeOK'
  <2>1. fresh[n] \in Pack
    BY <1>6 DEF HandlePrepareMsg, TypeOK
  <2>2. votie' \in [Node -> Pack] /\ commits' \in [Pack -> SUBSET Node]
    BY <1>6, <2>1, UpdateVotieType, SendType DEF HandlePrepareMsg
  <2> QED BY <1>6, <2>2 DEF HandlePrepareMsg, TypeOK
<1>7. ASSUME NEW n \in Node, HandleCommitMsg(n) PROVE TypeOK'
  <2>1. fresh[n] \in Pack
    BY <1>7 DEF HandleCommitMsg, TypeOK
  <2>2. votie' \in [Node -> Pack]
    BY <1>7, <2>1, UpdateVotieType DEF HandleCommitMsg
  <2>3. chain' \in [Node -> Seq(Pack)]
    BY <1>7, <2>1 DEF HandleCommitMsg, TypeOK
  <2>4. OnNewCommitted(n, fresh[n].block)
    BY <1>7 DEF HandleCommitMsg
  <2> QED BY <1>7, <2>2, <2>3, <2>4, OnNewCommittedType DEF HandleCommitMsg, TypeOK
<1>8. ASSUME NEW n \in Node, NEW p \in Pack, AnswerPrepare(n, p) PROVE TypeOK'
  BY <1>8, SendType DEF AnswerPrepare, CommittedInLowerTerm, TypeOK
<1>9. ASSUME NEW n \in Node, NEW p \in Pack, AnswerCommit(n, p) PROVE TypeOK'
  BY <1>9, SendType DEF AnswerCommit, CommittedInLowerTerm, TypeOK
<1>10. ASSUME NEW n \in Node, NewStrongAccuse(n) PROVE TypeOK'
  <2>1. term[n] \in 0..(MaxTerm - 1)
    BY <1>10, TermAssumption DEF NewStrongAccuse, TypeOK, Term
  <2> QED BY <1>10, <2>1 DEF NewStrongAccuse, TypeOK
<1>11. ASSUME NEW n \in Node, NEW t \in accused, HandleStrongAccuse(n, t)
       PROVE  TypeOK'
  <2>1. t + 1 \in Term
    BY TermAssumption DEF TypeOK, Term
  <2>2. SetNodeTerm(n, t + 1)
    BY <1>11 DEF HandleStrongAccuse
  <2> QED BY <1>11, <2>1, <2>2, SetNodeTermType DEF HandleStrongAccuse, TypeOK
<1>12. ASSUME NEW n \in Node, NEW k \in Node, NEW i \in DOMAIN chain[k],
              CheckBlockPack(n, chain[k][i])
       PROVE  TypeOK'
  <2>1. chain[k][i] \in Pack
    BY DEF TypeOK
  <2> QED BY <1>12, <2>1 DEF CheckBlockPack, TypeOK
<1>13. ASSUME NEW n \in Node, JustCommitIt(n) PROVE TypeOK'
  <2>1. syncing[n] \in Pack
    BY <1>13 DEF JustCommitIt, TypeOK
  <2>2. chain' \in [Node -> Seq(Pack)]
    <3> DEFINE p == syncing[n]
               h == Height[p.block]
               new == IF h <= Len(chain[n]) THEN [chain[n] EXCEPT ![h] = p]
                                            ELSE Append(chain[n], p)
    <3>1. chain[n] \in Seq(Pack)
      BY DEF TypeOK
    <3>2. h \in Nat
      BY <2>1, BlockAssumption DEF Pack
    <3> HIDE DEF p, h
    <3>3. new \in Seq(Pack)
      BY <2>1, <3>1, <3>2, StoreType DEF p
    <3>4. chain' = [chain EXCEPT ![n] = new]
      BY <1>13 DEF JustCommitIt, p, h
    <3> QED BY <3>3, <3>4 DEF TypeOK
  <2>3. OnNewCommitted(n, syncing[n].block)
    BY <1>13 DEF JustCommitIt
  <2>4. syncing' \in [Node -> Pack \cup {None}]
    BY <1>13 DEF JustCommitIt, TypeOK
  <2> QED BY <1>13, <2>2, <2>3, <2>4, OnNewCommittedType DEF JustCommitIt, TypeOK
<1>14. ASSUME NEW n \in Node, Restart(n) PROVE TypeOK'
  BY <1>14 DEF Restart, TypeOK
<1>15. CASE UNCHANGED vars
  BY <1>15 DEF vars, TypeOK
<1> QED
  BY <1>1, <1>2, <1>3, <1>4, <1>5, <1>6, <1>7, <1>8, <1>9, <1>10, <1>11, <1>12,
     <1>13, <1>14, <1>15 DEF Next

\* What InitDB and NewLeader leave is well typed.
LEMMA TypeOKInit == Init => TypeOK
  BY GenesisPackType, TermAssumption DEF Init, TypeOK, Term

\* Every variable keeps its type, whatever the order of the handlers.
THEOREM TypeCorrect == Spec => []TypeOK
<1>1. Init => TypeOK
  BY TypeOKInit
<1>2. TypeOK /\ [Next]_vars => TypeOK'
  BY TypeOKStep
<1> QED BY <1>1, <1>2, PTL DEF Spec

-----------------------------------------------------------------------------
(* The strengthening.  Terms, chains, voties and commits only grow; fresh  *)
(* belongs to the node's term; a leader has behind it, or as its fresh,    *)
(* everything it proposed in its term; a node has as votie, or knows       *)
(* chosen below, everything it sent a commit for.                          *)

\* fresh is of the node's term; no one proposes or agrees on the genesis block.
FreshOfTerm ==
  \A n \in Node : fresh[n] # None => /\ fresh[n].term = term[n]
                                     /\ fresh[n].block # Genesis

FreshInv ==
  /\ FreshOfTerm
  /\ \A m \in inits : m.block # Genesis
  /\ \A p \in Pack : prepares[p] # {} \/ commits[p] # {} => p.block # Genesis

\* Also what waits to be stored by a sync was chosen.
ChosenInv ==
  /\ CommittedIsChosen
  /\ \A n \in Node : syncing[n] # None => Chosen(syncing[n])

\* What the leader of a term has proposed in it is its fresh, or at a height
\* it has committed, or the leader has left the term.
ProposedInv ==
  \A m \in inits :
    LET ld == LeaderNodeOfTerm(m.term)
    IN  /\ m.term <= term[ld]
        /\ m.term = term[ld] => \/ fresh[ld] = [term |-> m.term, block |-> m.block]
                                \/ Height[m.block] <= Len(chain[ld])

\* Votes and commits are of terms their nodes have reached, and the votie of
\* a node is at least as high as what it has sent a commit for.
VotieInv ==
  /\ \A v \in AllVotes : v.term <= term[v.node]
  /\ \A p \in Pack : \A n \in commits[p] :
       /\ p.term <= term[n]
       /\ ~HasLessTermHeightThan(votie[n], p) \/ ChosenBelow(p)

IInv ==
  /\ TypeOK
  /\ FreshInv
  /\ ChosenInv
  /\ ProposedInv
  /\ OneBlockPerTermHeight
  /\ VotieInv
  /\ VoteCoversCommits

-----------------------------------------------------------------------------
(* Which actions touch what                                                *)

ChangesTerm ==
  \E n \in Node :
    \/ \E m \in inits : HandleInitMsg(n, m) \/ RefuseInitMsg(n, m)
    \/ \E t \in accused : HandleStrongAccuse(n, t)

ChangesCommits ==
  \E n \in Node : HandlePrepareMsg(n) \/ \E p \in Pack : AnswerCommit(n, p)

ChangesPrepares ==
  \E n \in Node :
    \/ \E v \in votes[n], b \in Block : CreateBlock(n, v.votie, b)
    \/ \E m \in inits : HandleInitMsg(n, m)
    \/ \E p \in Pack : AnswerPrepare(n, p)

ChangesChain == \E n \in Node : HandleCommitMsg(n) \/ JustCommitIt(n)

ChangesVotie == \E n \in Node : HandlePrepareMsg(n) \/ HandleCommitMsg(n)

ChangesInits ==
  \E n \in Node : \E v \in votes[n], b \in Block : CreateBlock(n, v.votie, b)

ChangesSyncing ==
  \E n \in Node :
    \/ \E k \in Node : \E i \in DOMAIN chain[k] : CheckBlockPack(n, chain[k][i])
    \/ JustCommitIt(n)
    \/ Restart(n)

Footprint ==
  /\ UNCHANGED term \/ ChangesTerm
  /\ UNCHANGED commits \/ ChangesCommits
  /\ UNCHANGED prepares \/ ChangesPrepares
  /\ UNCHANGED chain \/ ChangesChain
  /\ UNCHANGED votie \/ ChangesVotie
  /\ UNCHANGED inits \/ ChangesInits
  /\ UNCHANGED syncing \/ ChangesSyncing
  /\ UNCHANGED fresh \/ ChangesTerm \/ ChangesInits \/ ChangesChain

\* Only the actions named above touch the variable in question.
LEMMA StepFootprint ==
  ASSUME [Next]_vars
  PROVE  Footprint
<1> USE DEF stored, leader, network, Footprint
<1>1. ASSUME NEW n \in Node, NEW t \in Term, CastVote(n, t) PROVE Footprint
  BY <1>1 DEF CastVote
<1>2. ASSUME NEW n \in Node, NEW v \in votes[n], NEW b \in Block,
             CreateBlock(n, v.votie, b)
      PROVE  Footprint
  <2>1. ChangesInits /\ ChangesPrepares
    BY <1>2 DEF ChangesInits, ChangesPrepares
  <2> QED BY <1>2, <2>1 DEF CreateBlock
<1>3. ASSUME NEW n \in Node, NEW v \in votes[n], NEW b \in Block,
             CreateBlockInVain(n, v.votie, b)
      PROVE  Footprint
  BY <1>3 DEF CreateBlockInVain
<1>4. ASSUME NEW n \in Node, NEW m \in inits, HandleInitMsg(n, m) PROVE Footprint
  <2>1. ChangesTerm /\ ChangesPrepares
    BY <1>4 DEF ChangesTerm, ChangesPrepares
  <2> QED BY <1>4, <2>1 DEF HandleInitMsg
<1>5. ASSUME NEW n \in Node, NEW m \in inits, RefuseInitMsg(n, m) PROVE Footprint
  <2>1. ChangesTerm
    BY <1>5 DEF ChangesTerm
  <2> QED BY <1>5, <2>1 DEF RefuseInitMsg
<1>6. ASSUME NEW n \in Node, HandlePrepareMsg(n) PROVE Footprint
  <2>1. ChangesCommits /\ ChangesVotie
    BY <1>6 DEF ChangesCommits, ChangesVotie
  <2> QED BY <1>6, <2>1 DEF HandlePrepareMsg
<1>7. ASSUME NEW n \in Node, HandleCommitMsg(n) PROVE Footprint
  <2>1. ChangesChain /\ ChangesVotie
    BY <1>7 DEF ChangesChain, ChangesVotie
  <2> QED BY <1>7, <2>1 DEF HandleCommitMsg
<1>8. ASSUME NEW n \in Node, NEW p \in Pack, AnswerPrepare(n, p) PROVE Footprint
  <2>1. ChangesPrepares
    BY <1>8 DEF ChangesPrepares
  <2> QED BY <1>8, <2>1 DEF AnswerPrepare, CommittedInLowerTerm
<1>9. ASSUME NEW n \in Node, NEW p \in Pack, AnswerCommit(n, p) PROVE Footprint
  <2>1. ChangesCommits
    BY <1>9 DEF ChangesCommits
  <2> QED BY <1>9, <2>1 DEF AnswerCommit, CommittedInLowerTerm
<1>10. ASSUME NEW n \in Node, NewStrongAccuse(n) PROVE Footprint
  BY <1>10 DEF NewStrongAccuse
<1>11. ASSUME NEW n \in Node, NEW t \in accused, HandleStrongAccuse(n, t)
       PROVE  Footprint
  <2>1. ChangesTerm
    BY <1>11 DEF ChangesTerm
  <2> QED BY <1>11, <2>1 DEF HandleStrongAccuse
<1>12. ASSUME NEW n \in Node, NEW k \in Node, NEW i \in DOMAIN chain[k],
              CheckBlockPack(n, chain[k][i])
       PROVE  Footprint
  <2>1. ChangesSyncing
    BY <1>12 DEF ChangesSyncing
  <2> QED BY <1>12, <2>1 DEF CheckBlockPack
<1>13. ASSUME NEW n \in Node, JustCommitIt(n) PROVE Footprint
  <2>1. ChangesChain /\ ChangesSyncing
    BY <1>13 DEF ChangesChain, ChangesSyncing
  <2> QED BY <1>13, <2>1 DEF JustCommitIt
<1>14. ASSUME NEW n \in Node, Restart(n) PROVE Footprint
  <2>1. ChangesSyncing
    BY <1>14 DEF ChangesSyncing
  <2> QED BY <1>14, <2>1 DEF Restart
<1>15. CASE UNCHANGED vars
  BY <1>15 DEF vars
<1> HIDE DEF Footprint
<1> QED
  BY <1>1, <1>2, <1>3, <1>4, <1>5, <1>6, <1>7, <1>8, <1>9, <1>10, <1>11, <1>12,
     <1>13, <1>14, <1>15 DEF Next

\* The only new vote of a step is the one CastVote casts.
IsNewVote(v) ==
  \E n \in Node, t \in Term :
    /\ t <= term[n]
    /\ v = [node |-> n, term |-> t, votie |-> votie[n]]
    /\ UNCHANGED <<stored, network>>

VotesAreCast == \A v \in AllVotes' : v \in AllVotes \/ IsNewVote(v)

\* No step makes up a vote: scans and term changes only move votes about.
LEMMA StepVotes ==
  ASSUME TypeOK, [Next]_vars
  PROVE  VotesAreCast
<1> USE DEF leader
<1>1. ASSUME NEW n \in Node, NEW t \in Term, CastVote(n, t) PROVE VotesAreCast
  <2> DEFINE ld == LeaderNodeOfTerm(t)
             v == [node |-> n, term |-> t, votie |-> votie[n]]
             pool == {x \in votePool : x.node # n \/ x.term # t} \cup {v}
             held == ScanVotePool(ld, term[ld], GetCommitTop(ld), pool, votes[ld])
  <2>1. /\ votePool' = Pooled(ld, term[ld], pool, held)
        /\ votes' = [votes EXCEPT ![ld] = held]
        /\ t <= term[n]
        /\ UNCHANGED <<stored, network>>
    BY <1>1 DEF CastVote
  <2>2. IsNewVote(v)
    BY <2>1 DEF IsNewVote
  <2>3. pool \subseteq votePool \cup {v}
    OBVIOUS
  <2> HIDE DEF ld, v, pool
  <2>4. held \subseteq votes[ld] \cup pool
    BY ScanIsWithinPool
  <2> HIDE DEF held
  <2>5. votePool' \subseteq votePool \cup {v}
    BY <2>1, <2>3 DEF Pooled
  <2>6. \A k \in Node : votes'[k] \subseteq votes[k] \cup votePool \cup {v}
    BY <2>1, <2>3, <2>4 DEF TypeOK
  <2> QED BY <2>2, <2>5, <2>6 DEF AllVotes, VotesAreCast
<1>2. ASSUME \/ UNCHANGED <<votePool, votes>>
             \/ /\ votePool' \subseteq votePool
                /\ \A k \in Node : votes'[k] \subseteq votes[k] \cup votePool
      PROVE  VotesAreCast
  BY <1>2 DEF AllVotes, VotesAreCast
<1>3. ASSUME NEW n \in Node, NEW t \in Term, SetNodeTerm(n, t) PROVE VotesAreCast
  <2> DEFINE held == ScanVotePool(n, t, GetCommitTop(n), votePool, {})
  <2>1. held \subseteq votePool
    BY ScanIsWithinPool
  <2> HIDE DEF held
  <2>2. CASE t > term[n]
    <3>1. /\ votes' = [votes EXCEPT ![n] = held]
          /\ votePool' = Pooled(n, t, votePool, held)
      BY <1>3, <2>2 DEF SetNodeTerm, held
    <3>2. votePool' \subseteq votePool
      BY <3>1 DEF Pooled
    <3>3. \A k \in Node : votes'[k] \subseteq votes[k] \cup votePool
      BY <3>1, <2>1 DEF TypeOK
    <3> QED BY <3>2, <3>3, <1>2
  <2>3. CASE ~(t > term[n])
    BY <1>3, <2>3, <1>2 DEF SetNodeTerm
  <2> QED BY <2>2, <2>3
<1>4. ASSUME NEW n \in Node, NEW b, OnNewCommitted(n, b) PROVE VotesAreCast
  <2> DEFINE held == ScanVotePool(n, term[n], GetCommitTop(n)', votePool, votes[n])
  <2>1. held \subseteq votes[n] \cup votePool
    BY ScanIsWithinPool
  <2> HIDE DEF held
  <2>2. /\ votes' = [votes EXCEPT ![n] = held]
        /\ votePool' = Pooled(n, term[n], votePool, held)
    BY <1>4 DEF OnNewCommitted, held
  <2>3. votePool' \subseteq votePool
    BY <2>2 DEF Pooled
  <2>4. \A k \in Node : votes'[k] \subseteq votes[k] \cup votePool
    BY <2>1, <2>2 DEF TypeOK
  <2> QED BY <2>3, <2>4, <1>2
<1>5. ASSUME NEW n \in Node, Restart(n) PROVE VotesAreCast
  <2>1. votePool' \subseteq votePool
    BY <1>5 DEF Restart
  <2>2. \A k \in Node : votes'[k] \subseteq votes[k] \cup votePool
    BY <1>5 DEF Restart, TypeOK
  <2> QED BY <2>1, <2>2, <1>2
<1>6. ASSUME NEW n \in Node, NEW m \in inits, HandleInitMsg(n, m) PROVE VotesAreCast
  <2>1. m.term \in Term
    BY DEF TypeOK, InitMsg
  <2>2. SetNodeTerm(n, m.term)
    BY <1>6 DEF HandleInitMsg
  <2> QED BY <1>3, <2>1, <2>2
<1>7. ASSUME NEW n \in Node, NEW m \in inits, RefuseInitMsg(n, m) PROVE VotesAreCast
  <2>1. m.term \in Term
    BY DEF TypeOK, InitMsg
  <2>2. SetNodeTerm(n, m.term)
    BY <1>7 DEF RefuseInitMsg
  <2> QED BY <1>3, <2>1, <2>2
<1>8. ASSUME NEW n \in Node, NEW t \in accused, HandleStrongAccuse(n, t) PROVE VotesAreCast
  <2>1. t + 1 \in Term
    BY TermAssumption DEF TypeOK, Term
  <2> QED BY <1>3, <1>8, <2>1 DEF HandleStrongAccuse
<1>9. ASSUME NEW n \in Node, HandleCommitMsg(n) PROVE VotesAreCast
  BY <1>4, <1>9 DEF HandleCommitMsg
<1>10. ASSUME NEW n \in Node, JustCommitIt(n) PROVE VotesAreCast
  BY <1>4, <1>10 DEF JustCommitIt
<1>11. ASSUME NEW n \in Node, NEW v \in votes[n], NEW b \in Block,
              CreateBlock(n, v.votie, b)
       PROVE  VotesAreCast
  BY <1>2, <1>11 DEF CreateBlock
<1>12. ASSUME NEW n \in Node, NEW v \in votes[n], NEW b \in Block,
              CreateBlockInVain(n, v.votie, b)
       PROVE  VotesAreCast
  BY <1>2, <1>12 DEF CreateBlockInVain
<1>13. ASSUME NEW n \in Node, HandlePrepareMsg(n) PROVE VotesAreCast
  BY <1>2, <1>13 DEF HandlePrepareMsg
<1>14. ASSUME NEW n \in Node, NewStrongAccuse(n) PROVE VotesAreCast
  BY <1>2, <1>14 DEF NewStrongAccuse
<1>15. ASSUME NEW n \in Node, NEW p \in Pack, AnswerPrepare(n, p) PROVE VotesAreCast
  BY <1>2, <1>15 DEF AnswerPrepare, CommittedInLowerTerm
<1>16. ASSUME NEW n \in Node, NEW p \in Pack, AnswerCommit(n, p) PROVE VotesAreCast
  BY <1>2, <1>16 DEF AnswerCommit, CommittedInLowerTerm
<1>17. ASSUME NEW n \in Node, NEW k \in Node, NEW i \in DOMAIN chain[k],
              CheckBlockPack(n, chain[k][i])
       PROVE  VotesAreCast
  BY <1>2, <1>17 DEF CheckBlockPack
<1>18. CASE UNCHANGED vars
  BY <1>18, <1>2 DEF vars
<1> QED
  BY <1>1, <1>5, <1>6, <1>7, <1>8, <1>9, <1>10, <1>11, <1>12, <1>13, <1>14,
     <1>15, <1>16, <1>17, <1>18 DEF Next

-----------------------------------------------------------------------------
(* What only grows                                                         *)

\* Every term has a leader in the cluster.
LEMMA LeaderIsNode ==
  ASSUME NEW t \in Term
  PROVE  LeaderNodeOfTerm(t) \in Node
<1>1. ClusterSize \in Nat \ {0}
  BY NodeAssumption, FS_CardinalityType, FS_EmptySet DEF ClusterSize
<1>2. t \in Nat
  BY TermAssumption DEF Term
<1>3. t % ClusterSize \in 0..(ClusterSize - 1)
  BY <1>1, <1>2
<1> QED BY <1>3, NodeAssumption DEF LeaderNodeOfTerm

\* The order of packs: by term, then by height.
LEMMA PackOrder ==
  ASSUME NEW a \in Pack, NEW b \in Pack, NEW c \in Pack
  PROVE  /\ ~HasLessTermHeightThan(a, a)
         /\ HasLessTermHeightThan(a, b) => ~HasLessTermHeightThan(b, a)
         /\ ~HasLessTermHeightThan(a, b) /\ ~HasLessTermHeightThan(b, c)
              => ~HasLessTermHeightThan(a, c)
<1>1. \A x \in Pack : x.term \in Nat /\ Height[x.block] \in Nat
  BY BlockAssumption, TermAssumption DEF Pack, Term
<1> QED BY <1>1 DEF HasLessTermHeightThan

\* updateVotie never lowers a votie and covers the pack it is given.
LEMMA UpdateVotieGrows ==
  ASSUME TypeOK, NEW n \in Node, NEW p \in Pack, UpdateVotie(n, p)
  PROVE  /\ \A k \in Node : ~HasLessTermHeightThan(votie'[k], votie[k])
         /\ ~HasLessTermHeightThan(votie'[n], p)
<1>1. \A k \in Node : votie[k] \in Pack
  BY DEF TypeOK
<1>2. \A k \in Node \ {n} : votie'[k] = votie[k]
  BY DEF UpdateVotie, TypeOK
<1>3. votie'[n] = IF HasLessTermHeightThan(votie[n], p) THEN p ELSE votie[n]
  BY DEF UpdateVotie, TypeOK
<1> QED BY <1>1, <1>2, <1>3, PackOrder

\* Node terms, sent commits, voties and sent inits never go back, in any handler.
LEMMA Growth ==
  ASSUME TypeOK, [Next]_vars
  PROVE  /\ \A n \in Node : term[n] <= term'[n]
         /\ \A p \in Pack : commits[p] \subseteq commits'[p]
         /\ \A n \in Node : ~HasLessTermHeightThan(votie'[n], votie[n])
         /\ inits \subseteq inits'
<1>0. Footprint
  BY StepFootprint
<1>1. \A n \in Node : term[n] \in Nat
  BY TermAssumption DEF TypeOK, Term
<1>2. \A n \in Node : term[n] <= term'[n]
  <2>1. CASE UNCHANGED term
    BY <1>1, <2>1
  <2>2. ASSUME NEW n \in Node, NEW m \in inits,
               HandleInitMsg(n, m) \/ RefuseInitMsg(n, m)
        PROVE  \A k \in Node : term[k] <= term'[k]
    <3>1. m.term \in Nat
      BY TermAssumption DEF TypeOK, InitMsg, Term
    <3>2. m.term >= term[n]
      BY <2>2, <3>1, <1>1 DEF HandleInitMsg, RefuseInitMsg, InitInTerm
    <3>3. term' = [term EXCEPT ![n] = m.term]
      BY <2>2 DEF HandleInitMsg, RefuseInitMsg, SetNodeTerm
    <3> QED BY <1>1, <3>1, <3>2, <3>3 DEF TypeOK
  <2>3. ASSUME NEW n \in Node, NEW t \in accused, HandleStrongAccuse(n, t)
        PROVE  \A k \in Node : term[k] <= term'[k]
    <3>1. t \in Int
      BY DEF TypeOK
    <3>2. t >= term[n] /\ term' = [term EXCEPT ![n] = t + 1]
      BY <2>3 DEF HandleStrongAccuse, SetNodeTerm
    <3> QED BY <1>1, <3>1, <3>2 DEF TypeOK
  <2> QED BY <1>0, <2>1, <2>2, <2>3 DEF Footprint, ChangesTerm
<1>3. \A p \in Pack : commits[p] \subseteq commits'[p]
  <2>1. CASE UNCHANGED commits
    BY <2>1
  <2>2. ASSUME NEW n \in Node, NEW q \in Pack, SendCommit(n, q)
        PROVE  \A p \in Pack : commits[p] \subseteq commits'[p]
    BY <2>2 DEF SendCommit, TypeOK
  <2>3. ASSUME NEW n \in Node, HandlePrepareMsg(n)
        PROVE  \A p \in Pack : commits[p] \subseteq commits'[p]
    <3>1. fresh[n] \in Pack
      BY <2>3 DEF HandlePrepareMsg, TypeOK
    <3> QED BY <2>2, <2>3, <3>1 DEF HandlePrepareMsg
  <2> QED BY <1>0, <2>1, <2>2, <2>3 DEF Footprint, ChangesCommits, AnswerCommit
<1>4. \A n \in Node : ~HasLessTermHeightThan(votie'[n], votie[n])
  <2>1. CASE UNCHANGED votie
    BY <2>1, PackOrder DEF TypeOK
  <2>2. ASSUME NEW n \in Node, HandlePrepareMsg(n) \/ HandleCommitMsg(n)
        PROVE  \A k \in Node : ~HasLessTermHeightThan(votie'[k], votie[k])
    <3>1. fresh[n] \in Pack /\ UpdateVotie(n, fresh[n])
      BY <2>2 DEF HandlePrepareMsg, HandleCommitMsg, TypeOK
    <3> QED BY <3>1, UpdateVotieGrows
  <2> QED BY <1>0, <2>1, <2>2 DEF Footprint, ChangesVotie
<1>5. inits \subseteq inits'
  BY <1>0 DEF Footprint, ChangesInits, CreateBlock
<1> QED BY <1>2, <1>3, <1>4, <1>5

\* A chosen pack stays chosen.
LEMMA ChosenIsStable ==
  ASSUME TypeOK, TypeOK', [Next]_vars, NEW p \in Pack
  PROVE  /\ Chosen(p) => Chosen(p)'
         /\ ChosenBelow(p) => ChosenBelow(p)'
<1>1. ASSUME NEW q \in Pack, Chosen(q) PROVE Chosen(q)'
  <2>1. commits[q] \subseteq commits'[q] /\ commits'[q] \subseteq Node
    BY Growth DEF TypeOK
  <2>2. IsFiniteSet(commits'[q])
    BY <2>1, NodeAssumption, FS_Subset
  <2>3. /\ Cardinality(commits[q]) <= Cardinality(commits'[q])
        /\ IsFiniteSet(commits[q])
    BY <2>1, <2>2, FS_Subset
  <2>4. Cardinality(commits[q]) \in Nat /\ Cardinality(commits'[q]) \in Nat
    BY <2>2, <2>3, FS_CardinalityType
  <2>5. QuorumN \in Int
    BY NodeAssumption, FS_CardinalityType DEF QuorumN, MaxFaultyN, ClusterSize
  <2> QED BY <1>1, <2>3, <2>4, <2>5 DEF Chosen, IsQuorum
<1> QED BY <1>1 DEF ChosenBelow

-----------------------------------------------------------------------------
(* Each part of IInv is preserved                                          *)

\* Every handler that changes the term resets fresh or sets it in the new term.
LEMMA FreshInvStep ==
  ASSUME TypeOK, TypeOK', FreshInv, [Next]_vars
  PROVE  FreshInv'
<1>0. Footprint
  BY StepFootprint
<1>1. \A m \in inits' : m.block # Genesis
  <2>1. ASSUME NEW n \in Node, NEW v \in votes[n], NEW b \in Block,
               CreateBlock(n, v.votie, b)
        PROVE  \A m \in inits' : m.block # Genesis
    BY <2>1 DEF CreateBlock, TryCreateBlock, BlockToInit, IsPrev, FreshInv
  <2> QED BY <1>0, <2>1 DEF Footprint, ChangesInits, FreshInv
<1>2. FreshOfTerm'
  <2>1. ASSUME NEW n \in Node, NEW v \in votes[n], NEW b \in Block,
               CreateBlock(n, v.votie, b)
        PROVE  FreshOfTerm'
    <3>1. /\ fresh' = [fresh EXCEPT ![n] = [term |-> term[n], block |-> b]]
          /\ b # Genesis
          /\ term' = term
      BY <2>1 DEF CreateBlock, TryCreateBlock, BlockToInit, IsPrev
    <3> QED BY <3>1 DEF FreshInv, FreshOfTerm, TypeOK
  <2>2. ASSUME NEW n \in Node, NEW m \in inits, HandleInitMsg(n, m) PROVE FreshOfTerm'
    <3>1. /\ fresh' = [fresh EXCEPT ![n] = [term |-> m.term, block |-> m.block]]
          /\ m.block # Genesis
          /\ term' = [term EXCEPT ![n] = m.term]
      BY <2>2 DEF HandleInitMsg, SetNodeTerm, FreshInv
    <3> QED BY <3>1 DEF FreshInv, FreshOfTerm, TypeOK
  <2>3. ASSUME NEW n \in Node, fresh' = [fresh EXCEPT ![n] = None],
               \A k \in Node \ {n} : term'[k] = term[k]
        PROVE  FreshOfTerm'
    BY <2>3 DEF FreshInv, FreshOfTerm, TypeOK
  <2>4. ASSUME NEW n \in Node, NEW m \in inits, RefuseInitMsg(n, m) PROVE FreshOfTerm'
    BY <2>3, <2>4 DEF RefuseInitMsg, SetNodeTerm, TypeOK
  <2>5. ASSUME NEW n \in Node, NEW t \in accused, HandleStrongAccuse(n, t) PROVE FreshOfTerm'
    BY <2>3, <2>5 DEF HandleStrongAccuse, SetNodeTerm, TypeOK
  <2>6. ASSUME NEW n \in Node, HandleCommitMsg(n) PROVE FreshOfTerm'
    BY <2>3, <2>6 DEF HandleCommitMsg
  <2>7. ASSUME NEW n \in Node, JustCommitIt(n) PROVE FreshOfTerm'
    BY <2>7 DEF JustCommitIt, FreshInv, FreshOfTerm
  <2>8. CASE UNCHANGED <<fresh, term>>
    BY <2>8 DEF FreshInv, FreshOfTerm
  <2> QED
    BY <1>0, <2>1, <2>2, <2>4, <2>5, <2>6, <2>7, <2>8
    DEF Footprint, ChangesTerm, ChangesInits, ChangesChain
<1>3. ASSUME NEW p \in Pack, prepares'[p] # {} \/ commits'[p] # {}
      PROVE  p.block # Genesis
  <2>1. CASE prepares[p] # {} \/ commits[p] # {}
    BY <2>1 DEF FreshInv
  <2>2. ASSUME NEW n \in Node, NEW v \in votes[n], NEW b \in Block,
               CreateBlock(n, v.votie, b), prepares[p] = {}, commits[p] = {}
        PROVE  p.block # Genesis
    <3>1. b # Genesis /\ commits' = commits
      BY <2>2 DEF CreateBlock, TryCreateBlock, BlockToInit, IsPrev
    <3>2. p = [term |-> term[n], block |-> b]
      BY <1>3, <2>2, <3>1 DEF CreateBlock, SendPrepare, TypeOK
    <3> QED BY <3>1, <3>2
  <2>3. ASSUME NEW n \in Node, NEW m \in inits, HandleInitMsg(n, m),
               prepares[p] = {}, commits[p] = {}
        PROVE  p.block # Genesis
    <3>1. p = [term |-> m.term, block |-> m.block]
      BY <1>3, <2>3 DEF HandleInitMsg, SendPrepare, TypeOK
    <3> QED BY <3>1 DEF FreshInv
  <2>4. ASSUME NEW n \in Node, NEW q \in Pack, AnswerPrepare(n, q),
               prepares[p] = {}, commits[p] = {}
        PROVE  p.block # Genesis
    <3>1. p = q
      BY <1>3, <2>4 DEF AnswerPrepare, SendPrepare, TypeOK
    <3> QED BY <3>1, <2>4 DEF AnswerPrepare
  <2>5. ASSUME NEW n \in Node, NEW q \in Pack, AnswerCommit(n, q),
               prepares[p] = {}, commits[p] = {}
        PROVE  p.block # Genesis
    <3>1. p = q
      BY <1>3, <2>5 DEF AnswerCommit, SendCommit, TypeOK
    <3> QED BY <3>1, <2>5 DEF AnswerCommit
  <2>6. ASSUME NEW n \in Node, HandlePrepareMsg(n), prepares[p] = {}, commits[p] = {}
        PROVE  p.block # Genesis
    <3>1. p = fresh[n]
      BY <1>3, <2>6 DEF HandlePrepareMsg, SendCommit, TypeOK
    <3> QED BY <3>1, <2>6 DEF HandlePrepareMsg, FreshInv, FreshOfTerm
  <2> QED BY <1>0, <1>3, <2>1, <2>2, <2>3, <2>4, <2>5, <2>6
          DEF Footprint, ChangesPrepares, ChangesCommits
<1> QED BY <1>1, <1>2, <1>3 DEF FreshInv

\* handleCommitMsg stores a chosen pack; a sync takes one from a chain.
LEMMA ChosenInvStep ==
  ASSUME TypeOK, TypeOK', ChosenInv, [Next]_vars
  PROVE  ChosenInv'
<1>0. Footprint
  BY StepFootprint
<1>1. \A p \in Pack : Chosen(p) => IsQuorum(commits'[p])
  BY ChosenIsStable DEF Chosen
<1>2. CommittedIsChosen'
  <2>1. CASE UNCHANGED chain
    BY <1>1, <2>1 DEF ChosenInv, CommittedIsChosen, Chosen, TypeOK
  <2>2. ASSUME NEW n \in Node, NEW p \in Pack, Chosen(p),
               \A k \in Node \ {n} : chain'[k] = chain[k],
               \A i \in DOMAIN chain'[n] :
                 chain'[n][i] = p \/ (i \in DOMAIN chain[n] /\ chain'[n][i] = chain[n][i])
        PROVE  CommittedIsChosen'
    <3> SUFFICES ASSUME NEW k \in Node, NEW i \in DOMAIN chain'[k]
                 PROVE  IsQuorum(commits'[chain'[k][i]])
      BY DEF CommittedIsChosen, Chosen
    <3>1. chain'[k][i] \in Pack
      BY DEF TypeOK
    <3>2. Chosen(chain'[k][i])
      BY <2>2 DEF ChosenInv, CommittedIsChosen, TypeOK
    <3> QED BY <1>1, <3>1, <3>2
  <2>3. ASSUME NEW n \in Node, HandleCommitMsg(n) PROVE CommittedIsChosen'
    <3>1. fresh[n] \in Pack /\ Chosen(fresh[n]) /\ chain[n] \in Seq(Pack)
      BY <2>3 DEF HandleCommitMsg, Chosen, TypeOK
    <3>2. chain' = [chain EXCEPT ![n] = Append(chain[n], fresh[n])]
      BY <2>3 DEF HandleCommitMsg
    <3>3. /\ chain'[n] = Append(chain[n], fresh[n])
          /\ \A k \in Node \ {n} : chain'[k] = chain[k]
      BY <3>2 DEF TypeOK
    <3>4. \A i \in DOMAIN chain'[n] : \/ chain'[n][i] = fresh[n]
                                      \/ i \in DOMAIN chain[n] /\ chain'[n][i] = chain[n][i]
      BY <3>1, <3>3
    <3> QED BY <2>2, <3>1, <3>3, <3>4
  <2>4. ASSUME NEW n \in Node, JustCommitIt(n) PROVE CommittedIsChosen'
    <3> DEFINE p == syncing[n]
               h == Height[p.block]
               new == IF h <= Len(chain[n]) THEN [chain[n] EXCEPT ![h] = p]
                                            ELSE Append(chain[n], p)
    <3>1. p \in Pack /\ Chosen(p) /\ chain[n] \in Seq(Pack)
      BY <2>4 DEF JustCommitIt, ChosenInv, TypeOK
    <3>2. h \in Nat
      BY <3>1, BlockAssumption DEF Pack
    <3>3. chain' = [chain EXCEPT ![n] = new]
      BY <2>4 DEF JustCommitIt
    <3> HIDE DEF p, h
    <3>4. \A i \in DOMAIN new :
             new[i] = p \/ (i \in DOMAIN chain[n] /\ new[i] = chain[n][i])
      BY <3>1, <3>2
    <3> HIDE DEF new
    <3>5. chain'[n] = new /\ \A k \in Node \ {n} : chain'[k] = chain[k]
      BY <3>3 DEF TypeOK
    <3> QED BY <2>2, <3>1, <3>4, <3>5
  <2> QED BY <1>0, <2>1, <2>3, <2>4 DEF Footprint, ChangesChain
<1>3. ASSUME NEW k \in Node, syncing'[k] # None PROVE IsQuorum(commits'[syncing'[k]])
  <2>1. syncing'[k] \in Pack
    BY <1>3 DEF TypeOK
  <2>2. CASE syncing'[k] = syncing[k]
    BY <1>1, <1>3, <2>1, <2>2 DEF ChosenInv
  <2>3. ASSUME NEW n \in Node, NEW j \in Node, NEW i \in DOMAIN chain[j],
               CheckBlockPack(n, chain[j][i])
        PROVE  IsQuorum(commits'[syncing'[k]])
    <3>1. syncing'[k] = syncing[k] \/ syncing'[k] = chain[j][i]
      BY <2>3 DEF CheckBlockPack, TypeOK
    <3>2. Chosen(chain[j][i])
      BY DEF ChosenInv, CommittedIsChosen
    <3> QED BY <1>1, <2>1, <2>2, <3>1, <3>2
  <2>4. ASSUME NEW n \in Node, JustCommitIt(n) \/ Restart(n)
        PROVE  syncing'[k] = syncing[k]
    BY <1>3, <2>4 DEF JustCommitIt, Restart, TypeOK
  <2> QED BY <1>0, <2>2, <2>3, <2>4 DEF Footprint, ChangesSyncing
<1> QED BY <1>2, <1>3 DEF ChosenInv, Chosen

\* A chain only gets longer.
LEMMA ChainGrows ==
  ASSUME TypeOK, [Next]_vars, NEW k \in Node
  PROVE  /\ Len(chain[k]) \in Nat
         /\ Len(chain'[k]) \in Nat
         /\ Len(chain[k]) <= Len(chain'[k])
<1>0. Footprint
  BY StepFootprint
<1>1. chain[k] \in Seq(Pack) /\ Len(chain[k]) \in Nat
  BY LenProperties DEF TypeOK
<1>2. CASE UNCHANGED chain
  BY <1>1, <1>2
<1>3. ASSUME NEW n \in Node, HandleCommitMsg(n)
      PROVE  Len(chain'[k]) \in Nat /\ Len(chain[k]) <= Len(chain'[k])
  <2>1. chain' = [chain EXCEPT ![n] = Append(chain[n], fresh[n])]
    BY <1>3 DEF HandleCommitMsg
  <2>2. chain'[k] = chain[k] \/ chain'[k] = Append(chain[k], fresh[n])
    BY <2>1 DEF TypeOK
  <2>3. fresh[n] \in Pack
    BY <1>3 DEF HandleCommitMsg, TypeOK
  <2> QED BY <1>1, <2>2, <2>3, AppendProperties
<1>4. ASSUME NEW n \in Node, JustCommitIt(n)
      PROVE  Len(chain'[k]) \in Nat /\ Len(chain[k]) <= Len(chain'[k])
  <2> DEFINE p == syncing[n]
             h == Height[p.block]
  <2>1. p \in Pack
    BY <1>4 DEF JustCommitIt, TypeOK
  <2>2. h \in Nat
    BY <2>1, BlockAssumption DEF Pack
  <2>3. \/ chain'[k] = chain[k]
        \/ h <= Len(chain[k]) /\ chain'[k] = [chain[k] EXCEPT ![h] = p]
        \/ chain'[k] = Append(chain[k], p)
    BY <1>4 DEF JustCommitIt, TypeOK
  <2> HIDE DEF p, h
  <2>4. Len([chain[k] EXCEPT ![h] = p]) = Len(chain[k])
    BY <1>1
  <2>5. Len(Append(chain[k], p)) = Len(chain[k]) + 1
    BY <1>1, <2>1, AppendProperties
  <2> QED BY <1>1, <2>3, <2>4, <2>5
<1> QED BY <1>0, <1>1, <1>2, <1>3, <1>4 DEF Footprint, ChangesChain

\* What tryCreateBlock relies on and what its init leaves behind.
LEMMA CreateBlockEffect ==
  ASSUME TypeOK, NEW n \in Node, NEW mv, NEW b \in Block, CreateBlock(n, mv, b)
  PROVE  /\ LeaderNodeOfTerm(term[n]) = n
         /\ fresh[n] = None
         /\ fresh' = [fresh EXCEPT ![n] = [term |-> term[n], block |-> b]]
         /\ Height[b] = Len(chain[n]) + 1
         /\ UNCHANGED <<term, chain>>
         /\ \A m \in inits' : m \in inits \/ (m.term = term[n] /\ m.block = b)
  BY DEF CreateBlock, TryCreateBlock, IsInCharge, IsConnectingTop, GetCommitHeight

\* The leader's fresh leaves the database only with its term or when the chain
\* has reached its height.
LEMMA ProposedInvStep ==
  ASSUME TypeOK, TypeOK', ProposedInv, [Next]_vars
  PROVE  ProposedInv'
<1>0. Footprint
  BY StepFootprint
<1> SUFFICES ASSUME NEW m \in inits', NEW ld \in Node, ld = LeaderNodeOfTerm(m.term)
             PROVE  /\ m.term <= term'[ld]
                    /\ m.term = term'[ld] =>
                         \/ fresh'[ld] = [term |-> m.term, block |-> m.block]
                         \/ Height[m.block] <= Len(chain'[ld])
  <2>1. \A m \in inits' : LeaderNodeOfTerm(m.term) \in Node
    BY LeaderIsNode DEF TypeOK, InitMsg
  <2> QED BY <2>1 DEF ProposedInv
<1>1. /\ m.term \in Nat /\ m.block \in Block
      /\ term[ld] \in Nat /\ term'[ld] \in Nat /\ Height[m.block] \in Nat
  BY TermAssumption, BlockAssumption DEF TypeOK, InitMsg, Term
<1>2. term[ld] <= term'[ld]
  BY Growth
<1>3. /\ Len(chain[ld]) \in Nat /\ Len(chain'[ld]) \in Nat
      /\ Len(chain[ld]) <= Len(chain'[ld])
  BY ChainGrows
<1>4. CASE m \in inits
  <2> DEFINE p == [term |-> m.term, block |-> m.block]
  <2>1. /\ m.term <= term[ld]
        /\ m.term = term[ld] => fresh[ld] = p \/ Height[m.block] <= Len(chain[ld])
    BY <1>4 DEF ProposedInv
  <2>2. m.term <= term'[ld]
    BY <1>1, <1>2, <2>1
  <2> SUFFICES ASSUME m.term = term'[ld], fresh[ld] = p
               PROVE  fresh'[ld] = p \/ Height[m.block] <= Len(chain'[ld])
    BY <1>1, <1>2, <1>3, <2>1, <2>2
  <2>3. term[ld] = m.term
    BY <1>1, <1>2, <2>1
  <2>4. p \in Pack /\ fresh[ld] = p /\ fresh[ld].block = m.block
    BY <1>4 DEF Pack, TypeOK, InitMsg
  <2>5. CASE fresh'[ld] = fresh[ld]
    BY <2>5
  <2>6. ASSUME NEW n \in Node, NEW v \in votes[n], NEW b \in Block,
               CreateBlock(n, v.votie, b)
        PROVE  fresh'[ld] = fresh[ld]
    <3>1. n # ld
      BY <2>4, <2>6, CreateBlockEffect, NoneAssumption
    <3> QED BY <2>6, <3>1, CreateBlockEffect DEF TypeOK
  <2>7. ASSUME NEW n \in Node, NEW m2 \in inits, HandleInitMsg(n, m2)
        PROVE  fresh'[ld] = p
    <3> DEFINE q == [term |-> m2.term, block |-> m2.block]
    <3>1. /\ fresh' = [fresh EXCEPT ![n] = q]
          /\ term' = [term EXCEPT ![n] = m2.term]
          /\ Height[m2.block] = Len(chain[n]) + 1
      BY <2>7 DEF HandleInitMsg, SetNodeTerm, IsConnectingTop, GetCommitHeight
    <3>2. CASE n # ld
      BY <3>1, <3>2 DEF TypeOK
    <3>3. CASE n = ld
      <4>1. m2.term = m.term
        BY <3>1, <3>3 DEF TypeOK
      <4>2. fresh[ld] = q \/ Height[m2.block] <= Len(chain[ld])
        BY <2>3, <4>1 DEF ProposedInv
      <4>3. fresh[ld] = q
        BY <1>3, <3>1, <3>3, <4>2
      <4>4. fresh'[ld] = q
        BY <3>1, <3>3 DEF TypeOK
      <4> QED BY <4>3, <4>4
    <3> QED BY <3>2, <3>3
  <2>8. ASSUME NEW n \in Node, NEW m2 \in inits, RefuseInitMsg(n, m2)
        PROVE  fresh'[ld] = fresh[ld]
    <3>1. /\ fresh' = [fresh EXCEPT ![n] = None]
          /\ term' = [term EXCEPT ![n] = m2.term]
          /\ m2.term > term[n]
      BY <2>8 DEF RefuseInitMsg, SetNodeTerm
    <3>2. n # ld
      BY <1>1, <2>3, <3>1 DEF TypeOK
    <3> QED BY <3>1, <3>2 DEF TypeOK
  <2>9. ASSUME NEW n \in Node, NEW t \in accused, HandleStrongAccuse(n, t)
        PROVE  fresh'[ld] = fresh[ld]
    <3>1. /\ fresh' = [fresh EXCEPT ![n] = None]
          /\ term' = [term EXCEPT ![n] = t + 1]
          /\ t >= term[n]
          /\ t \in Int
      BY <2>9 DEF HandleStrongAccuse, SetNodeTerm, TypeOK
    <3>2. n # ld
      BY <1>1, <2>3, <3>1 DEF TypeOK
    <3> QED BY <3>1, <3>2 DEF TypeOK
  <2>10. ASSUME NEW n \in Node, HandleCommitMsg(n)
         PROVE  fresh'[ld] = p \/ Height[m.block] <= Len(chain'[ld])
    <3>1. /\ fresh' = [fresh EXCEPT ![n] = None]
          /\ chain' = [chain EXCEPT ![n] = Append(chain[n], fresh[n])]
          /\ Height[fresh[n].block] = Len(chain[n]) + 1
      BY <2>10 DEF HandleCommitMsg, GetCommitHeight
    <3>2. CASE n # ld
      BY <3>1, <3>2 DEF TypeOK
    <3>3. CASE n = ld
      <4>1. chain[ld] \in Seq(Pack) /\ chain'[ld] = Append(chain[ld], p)
        BY <3>1, <3>3 DEF TypeOK
      <4>2. Len(chain'[ld]) = Len(chain[ld]) + 1
        BY <2>4, <4>1, AppendProperties
      <4>3. Height[m.block] = Len(chain[ld]) + 1
        BY <2>4, <3>1, <3>3
      <4>4. Height[m.block] = Len(chain'[ld])
        BY <4>2, <4>3, Zenon
      <4>5. Len(chain'[ld]) <= Len(chain'[ld])
        BY <1>3
      <4> QED BY <4>4, <4>5, Zenon
    <3> QED BY <3>2, <3>3
  <2>11. ASSUME NEW n \in Node, JustCommitIt(n) PROVE fresh'[ld] = fresh[ld]
    BY <2>11 DEF JustCommitIt
  <2> QED BY <1>0, <2>5, <2>6, <2>7, <2>8, <2>9, <2>10, <2>11
          DEF Footprint, ChangesTerm, ChangesInits, ChangesChain
<1>5. ASSUME NEW n \in Node, NEW v \in votes[n], NEW b \in Block,
             CreateBlock(n, v.votie, b), m \notin inits
      PROVE  /\ m.term <= term'[ld]
             /\ fresh'[ld] = [term |-> m.term, block |-> m.block]
  <2>1. m.term = term[n] /\ m.block = b /\ n = ld /\ term' = term
    BY <1>5, CreateBlockEffect
  <2>2. fresh' = [fresh EXCEPT ![n] = [term |-> term[n], block |-> b]]
    BY <1>5, CreateBlockEffect
  <2> QED BY <1>1, <2>1, <2>2 DEF TypeOK
<1> QED BY <1>0, <1>4, <1>5 DEF Footprint, ChangesInits

\* A leader without fresh is above all it has proposed in its term.
LEMMA OneBlockStep ==
  ASSUME TypeOK, TypeOK', ProposedInv, OneBlockPerTermHeight, [Next]_vars
  PROVE  OneBlockPerTermHeight'
<1>0. Footprint
  BY StepFootprint
<1>1. CASE UNCHANGED inits
  BY <1>1 DEF OneBlockPerTermHeight
<1>2. ASSUME NEW n \in Node, NEW v \in votes[n], NEW b \in Block,
             CreateBlock(n, v.votie, b)
      PROVE  OneBlockPerTermHeight'
  <2>1. ASSUME NEW m \in inits, m.term = term[n] PROVE Height[m.block] # Height[b]
    <3>1. LeaderNodeOfTerm(m.term) = n /\ fresh[n] = None
      BY <1>2, <2>1, CreateBlockEffect
    <3>2. [term |-> m.term, block |-> m.block] \in Pack
      BY DEF TypeOK, InitMsg, Pack
    <3>3. Height[m.block] <= Len(chain[n])
      BY <2>1, <3>1, <3>2, NoneAssumption DEF ProposedInv
    <3>4. Height[b] = Len(chain[n]) + 1 /\ Len(chain[n]) \in Nat
      BY <1>2, CreateBlockEffect, ChainGrows
    <3> QED BY <3>2, <3>3, <3>4, BlockAssumption DEF Pack
  <2>2. \A m \in inits' : m \in inits \/ (m.term = term[n] /\ m.block = b)
    BY <1>2, CreateBlockEffect
  <2> QED BY <2>1, <2>2 DEF OneBlockPerTermHeight
<1> QED BY <1>0, <1>1, <1>2 DEF Footprint, ChangesInits

\* A commit is sent with its pack as votie, or for a block chosen below.
LEMMA VotieInvStep ==
  ASSUME TypeOK, TypeOK', FreshInv, ChosenInv, VotieInv, [Next]_vars
  PROVE  VotieInv'
<1>0. Footprint
  BY StepFootprint
<1>1. \A n \in Node : term[n] \in Nat /\ term'[n] \in Nat /\ term[n] <= term'[n]
  BY Growth, TermAssumption DEF TypeOK, Term
<1>2. \A v \in AllVotes' : v.term <= term'[v.node]
  <2> SUFFICES ASSUME NEW v \in AllVotes' PROVE v.term <= term'[v.node]
    OBVIOUS
  <2>1. v.node \in Node /\ v.term \in Nat
    BY TermAssumption DEF AllVotes, TypeOK, Vote, Term
  <2>2. CASE v \in AllVotes
    BY <1>1, <2>1, <2>2 DEF VotieInv
  <2>3. CASE IsNewVote(v)
    BY <1>1, <2>1, <2>3 DEF IsNewVote
  <2> QED BY <2>2, <2>3, StepVotes DEF VotesAreCast
<1>3. ASSUME NEW p \in Pack, NEW k \in commits'[p]
      PROVE  /\ p.term <= term'[k]
             /\ ~HasLessTermHeightThan(votie'[k], p) \/ ChosenBelow(p)'
  <2>0. commits' \in [Pack -> SUBSET Node] /\ votie \in [Node -> Pack]
        /\ votie' \in [Node -> Pack]
    BY DEF TypeOK
  <2>1. k \in Node /\ p.term \in Nat /\ votie[k] \in Pack /\ votie'[k] \in Pack
    <3>1. k \in Node
      BY <2>0
    <3>2. p.term \in Nat
      BY TermAssumption DEF Pack, Term
    <3> QED BY <2>0, <3>1, <3>2
  <2>2. CASE k \in commits[p]
    <3>1. p.term <= term[k] /\ (~HasLessTermHeightThan(votie[k], p) \/ ChosenBelow(p))
      BY <2>2 DEF VotieInv
    <3>2. ~HasLessTermHeightThan(votie'[k], votie[k])
      BY <2>1, Growth
    <3>3. ChosenBelow(p) => ChosenBelow(p)'
      BY ChosenIsStable
    <3>4. ~HasLessTermHeightThan(votie[k], p) => ~HasLessTermHeightThan(votie'[k], p)
      BY <2>1, <3>2, PackOrder
    <3> QED BY <1>1, <2>1, <3>1, <3>3, <3>4
  <2>3. ASSUME NEW n \in Node, HandlePrepareMsg(n), k \notin commits[p]
        PROVE  p.term <= term'[k] /\ ~HasLessTermHeightThan(votie'[k], p)
    <3>1. fresh[n] \in Pack /\ fresh[n].term = term[n]
      BY <2>3 DEF HandlePrepareMsg, TypeOK
    <3>2. p = fresh[n] /\ k = n
      BY <2>3, <3>1 DEF HandlePrepareMsg, SendCommit, TypeOK
    <3>3. ~HasLessTermHeightThan(votie'[n], fresh[n])
      BY <2>3, <3>1, UpdateVotieGrows DEF HandlePrepareMsg
    <3> QED BY <1>1, <3>1, <3>2, <3>3
  <2>4. ASSUME NEW n \in Node, NEW q \in Pack, AnswerCommit(n, q), k \notin commits[p]
        PROVE  p.term <= term'[k] /\ ChosenBelow(p)'
    <3>1. p = q /\ k = n
      BY <2>4 DEF AnswerCommit, SendCommit, TypeOK
    <3>2. /\ p.term = term[n]
          /\ p.block = GetCommitTop(n).block
          /\ p.term > GetCommitTop(n).term
          /\ commits[p] # {}
      BY <2>4, <3>1 DEF AnswerCommit, CommittedInLowerTerm
    <3>3. p.block # Genesis
      BY <3>2 DEF FreshInv
    <3>4. chain[n] \in Seq(Pack) /\ chain[n] # <<>>
      BY <3>2, <3>3 DEF GetCommitTop, GenesisPack, TypeOK
    <3>5. /\ Len(chain[n]) \in DOMAIN chain[n]
          /\ GetCommitTop(n) = chain[n][Len(chain[n])]
          /\ GetCommitTop(n) \in Pack
      BY <3>4, EmptySeq, LenProperties, ElementOfSeq DEF GetCommitTop
    <3>6. Chosen(GetCommitTop(n))
      BY <3>5 DEF ChosenInv, CommittedIsChosen
    <3>7. GetCommitTop(n).term < p.term
      BY <2>1, <3>2, <3>5, TermAssumption DEF Pack, Term
    <3>8. ChosenBelow(p)
      BY <3>2, <3>5, <3>6, <3>7 DEF ChosenBelow
    <3> QED BY <1>1, <3>1, <3>2, <3>8, ChosenIsStable
  <2> QED BY <1>0, <2>2, <2>3, <2>4 DEF Footprint, ChangesCommits
<1> QED BY <1>2, <1>3 DEF VotieInv

\* A new vote carries the votie of that moment; a new commit of a voter is not of
\* a term below its vote, or is for a block chosen below.
LEMMA VoteCoversStep ==
  ASSUME TypeOK, TypeOK', FreshInv, VotieInv, VoteCoversCommits, [Next]_vars
  PROVE  VoteCoversCommits'
<1>0. Footprint
  BY StepFootprint
<1> SUFFICES ASSUME NEW v \in AllVotes', NEW p \in Pack,
                    v.node \in commits'[p], p.term < v.term
             PROVE  ~HasLessTermHeightThan(v.votie, p) \/ ChosenBelow(p)'
  BY DEF VoteCoversCommits
<1>1. ChosenBelow(p) => ChosenBelow(p)'
  BY ChosenIsStable
<1>2. /\ v \in Vote /\ v.node \in Node /\ v.term \in Nat /\ p.term \in Nat
      /\ term[v.node] \in Nat
  BY TermAssumption DEF AllVotes, TypeOK, Vote, Pack, Term
<1>3. CASE v \in AllVotes
  \* A commit sent now is of the node's term, which is not below the vote's.
  <2>1. v.term <= term[v.node]
    BY <1>3 DEF VotieInv
  <2>2. ASSUME NEW n \in Node, HandlePrepareMsg(n) PROVE v.node \in commits[p]
    <3>1. fresh[n] \in Pack /\ fresh[n].term = term[n]
      BY <2>2 DEF HandlePrepareMsg, TypeOK
    <3>2. v.node \in commits[p] \/ (p = fresh[n] /\ v.node = n)
      BY <2>2, <3>1 DEF HandlePrepareMsg, SendCommit, TypeOK
    <3> QED BY <1>2, <2>1, <3>1, <3>2
  <2>3. ASSUME NEW n \in Node, NEW q \in Pack, AnswerCommit(n, q)
        PROVE  v.node \in commits[p]
    <3>1. v.node \in commits[p] \/ (p = q /\ v.node = n)
      BY <2>3 DEF AnswerCommit, SendCommit, TypeOK
    <3>2. q.term = term[n]
      BY <2>3 DEF AnswerCommit, CommittedInLowerTerm
    <3> QED BY <1>2, <2>1, <3>1, <3>2
  <2>4. v.node \in commits[p]
    BY <1>0, <2>2, <2>3 DEF Footprint, ChangesCommits
  <2> QED BY <1>1, <1>3, <2>4 DEF VoteCoversCommits
<1>4. CASE IsNewVote(v)
  \* The votie is read when the vote is made, and covers the node's commits.
  <2>1. v.votie = votie[v.node] /\ v.node \in commits[p]
    BY <1>4 DEF IsNewVote, network
  <2> QED BY <1>1, <2>1 DEF VotieInv
<1> QED BY <1>3, <1>4, StepVotes DEF VotesAreCast

-----------------------------------------------------------------------------
(* The theorems                                                            *)

\* The strengthening holds of a fresh database.
LEMMA IInvInit == Init => IInv
<1> SUFFICES ASSUME Init PROVE IInv
  OBVIOUS
<1>1. TypeOK
  BY TypeOKInit
<1>2. AllVotes = {}
  BY DEF Init, AllVotes
<1>3. FreshInv /\ ProposedInv /\ OneBlockPerTermHeight
  BY DEF Init, FreshInv, FreshOfTerm, ProposedInv, OneBlockPerTermHeight
<1>4. ChosenInv
  BY DEF Init, ChosenInv, CommittedIsChosen
<1>5. VotieInv /\ VoteCoversCommits
  BY <1>2 DEF Init, VotieInv, VoteCoversCommits
<1> QED BY <1>1, <1>3, <1>4, <1>5 DEF IInv

\* Every action preserves the strengthening.
LEMMA IInvStep == IInv /\ [Next]_vars => IInv'
<1> SUFFICES ASSUME IInv, [Next]_vars PROVE IInv'
  OBVIOUS
<1>1. TypeOK /\ TypeOK'
  BY TypeOKStep DEF IInv
<1> QED
  BY <1>1, FreshInvStep, ChosenInvStep, ProposedInvStep, OneBlockStep,
     VotieInvStep, VoteCoversStep DEF IInv

\* The strengthening is an invariant of the cluster, for any membership, block
\* tree, number of terms, crashing nodes and syncing nodes.
THEOREM Invariance == Spec => []IInv
<1>1. Init => IInv
  BY IInvInit
<1>2. IInv /\ [Next]_vars => IInv'
  BY IInvStep
<1> QED BY <1>1, <1>2, PTL DEF Spec

\* What any node has committed, in its own round or by sync, a quorum of the
\* cluster sent commits for, in the term the pack records.
THEOREM CommittedIsAlwaysChosen == Spec => []CommittedIsChosen
<1>1. IInv => CommittedIsChosen
  BY DEF IInv, ChosenInv
<1> QED BY <1>1, Invariance, PTL

\* A leader never proposes two blocks for one height in one term, across any
\* number of restarts of its node.
THEOREM LeaderNeverEquivocates == Spec => []OneBlockPerTermHeight
<1>1. IInv => OneBlockPerTermHeight
  BY DEF IInv
<1> QED BY <1>1, Invariance, PTL

\* Every vote a leader may count reports all that its voter helped to choose.
THEOREM VotesCoverCommits == Spec => []VoteCoversCommits
<1>1. IInv => VoteCoversCommits
  BY DEF IInv
<1> QED BY <1>1, Invariance, PTL
=============================================================================

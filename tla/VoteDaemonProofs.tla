-------------------------- MODULE VoteDaemonProofs --------------------------
(* Theorems about VoteDaemon, for every number of terms and heights.       *)
EXTENDS VoteDaemon, TLAPS

-----------------------------------------------------------------------------
(* The strengthening                                                       *)

\* fresh is of the node term; every waiting NewTermEvent is of a different term;
\* the daemon has read a term the node has reached; the top may have been put
\* back to a lower term.
StoreInv ==
  /\ fresh # None => fresh.term = term
  /\ newTerms <= term
  /\ seen <= term
  /\ top.term <= topTerm
  /\ syncing # None => syncing.height > 0

\* The votie covers what the node has sent commits for, in terms up to its own.
CommitsInv ==
  \A p \in commits : p.term <= term /\ ~HasLessTermHeightThan(votie, p)

\* A block answered for is on the chain.
AnswersInv == \A p \in answers : p.height <= top.height

VotesInv == \A v \in votes : v.term <= term

\* A term the daemon has not seen has left it a signal.
SignalInv == pc = "top" => seen = term \/ newTerms > 0

IInv ==
  /\ TypeOK
  /\ StoreInv
  /\ CommitsInv
  /\ AnswersInv
  /\ VotesInv
  /\ VoteCoversCommits
  /\ SignalInv
  /\ SleepsOnlyWithoutNeed

-----------------------------------------------------------------------------
(* Packs                                                                   *)

\* Terms and heights are numbers.
LEMMA PackNumbers ==
  ASSUME NEW p \in Pack
  PROVE  p.term \in Nat /\ p.height \in Nat /\ p.term \in Term /\ p.height \in 0..MaxHeight
  BY DaemonAssumption DEF Pack, Term

\* updateVotie: the higher of two packs is a pack that is below neither, nor
\* below what the first one covered.
LEMMA HigherCovers ==
  ASSUME NEW v \in Pack, NEW w \in Pack
  PROVE  /\ Higher(v, w) \in Pack
         /\ ~HasLessTermHeightThan(Higher(v, w), w)
         /\ \A p \in Pack : ~HasLessTermHeightThan(v, p)
                              => ~HasLessTermHeightThan(Higher(v, w), p)
<1>1. \A p \in Pack : p.term \in Nat /\ p.height \in Nat
  BY PackNumbers
<1> QED BY <1>1 DEF Higher, HasLessTermHeightThan

\* Storing a pack no lower than the top, whatever its term.
LEMMA SetTopKeeps ==
  ASSUME IInv, NEW p \in Pack, SetTop(p), p.height >= top.height, p.height > 0,
         answers' = answers, votes' = votes, commits' = commits, fresh' \in {fresh, None},
         term' = term
  PROVE  /\ top' \in Pack /\ topTerm' \in Term /\ top'.term <= topTerm'
         /\ AnswersInv' /\ VoteCoversCommits'
         /\ fresh' = fresh => (NeedsVote' => NeedsVote)
<1>0. TypeOK /\ StoreInv /\ AnswersInv /\ VoteCoversCommits
  BY DEF IInv
<1>1. /\ top' = p
      /\ topTerm' = IF p.term > topTerm THEN p.term ELSE topTerm
  BY DEF SetTop
<1>2. /\ top \in Pack /\ topTerm \in Term /\ term \in Term /\ answers \subseteq Pack
      /\ \A q \in Pack : q.term \in Nat /\ q.height \in Nat /\ q.term \in Term
      /\ \A t \in Term : t \in Nat
  BY <1>0, DaemonAssumption, PackNumbers DEF TypeOK, Term
<1>3. top'.term <= topTerm' /\ topTerm' \in Term /\ topTerm <= topTerm'
  BY <1>1, <1>2
<1>4. AnswersInv'
  BY <1>0, <1>1, <1>2 DEF AnswersInv
<1>5. VoteCoversCommits'
  <2> SUFFICES ASSUME NEW v \in votes, NEW a \in answers, a.term < v.term
               PROVE  ~HasLessTermHeightThan(v.votie, a) \/ a.height <= top'.height
    BY <1>0 DEF VoteCoversCommits
  <2> QED BY <1>4 DEF AnswersInv
<1>6. ASSUME fresh' = fresh, NeedsVote' PROVE NeedsVote
  BY <1>1, <1>2, <1>3, <1>6 DEF NeedsVote
<1> QED BY <1>1, <1>3, <1>4, <1>5, <1>6

-----------------------------------------------------------------------------
(* Each action preserves the strengthening                                 *)

\* The handlers of the store, at any point of the daemon's round.
LEMMA StoreStep ==
  ASSUME IInv,
         \/ \E t \in Term : HandleInitMsg(t) \/ EnterTerm(t) \/ CheckBlockPack(t)
         \/ HandlePrepareMsg
         \/ HandleCommitMsg
         \/ AnswerCommit
         \/ JustCommitIt
  PROVE  IInv'
<1> USE DEF daemon, store, sent
<1>0. /\ TypeOK /\ StoreInv /\ CommitsInv /\ AnswersInv /\ VotesInv
      /\ VoteCoversCommits /\ SignalInv /\ SleepsOnlyWithoutNeed
  BY DEF IInv
<1>1. /\ term \in Nat /\ seen \in Nat /\ newTerms \in Nat
      /\ \A t \in Term : t \in Nat
      /\ \A p \in Pack : p.term \in Nat /\ p.height \in Nat
  BY <1>0, DaemonAssumption, PackNumbers DEF TypeOK, Term
<1>2. ASSUME NEW t \in Term, HandleInitMsg(t) PROVE IInv'
  <2>1. /\ t >= term /\ top.height < MaxHeight
        /\ term' = t
        /\ fresh' = [term |-> t, height |-> top.height + 1]
        /\ newTerms' = IF t > term THEN newTerms + 1 ELSE newTerms
        /\ UNCHANGED <<top, votie, syncing, sent, topTerm, armed, ticked, pc, seen, votes>>
    BY <1>2 DEF HandleInitMsg
  <2>2. fresh' \in Pack
    BY <1>0, <1>1, <2>1, DaemonAssumption DEF TypeOK, Pack
  <2>3. newTerms' \in 0..MaxTerm /\ newTerms' <= term' /\ newTerms' >= newTerms
    BY <1>0, <1>1, <2>1, DaemonAssumption DEF StoreInv, Term
  <2>4. TypeOK'
    BY <1>0, <2>1, <2>2, <2>3 DEF TypeOK
  <2>5. StoreInv'
    BY <1>0, <1>1, <2>1, <2>3 DEF StoreInv
  <2>6. CommitsInv' /\ AnswersInv' /\ VotesInv' /\ VoteCoversCommits'
    <3>1. CommitsInv' /\ AnswersInv'
      BY <1>0, <1>1, <2>1 DEF CommitsInv, AnswersInv, TypeOK
    <3>2. VotesInv'
      <4>1. \A v \in votes : v.term \in Nat
        BY <1>0, <1>1 DEF TypeOK
      <4> QED BY <1>0, <1>1, <2>1, <4>1 DEF VotesInv
    <3>3. VoteCoversCommits'
      BY <1>0, <2>1 DEF VoteCoversCommits
    <3> QED BY <3>1, <3>2, <3>3
  <2>7. SignalInv'
    BY <1>0, <1>1, <2>1, <2>3 DEF SignalInv
  <2>8. SleepsOnlyWithoutNeed'
    BY <2>1, <2>2, DaemonAssumption DEF SleepsOnlyWithoutNeed, NeedsVote
  <2> QED BY <2>4, <2>5, <2>6, <2>7, <2>8 DEF IInv
<1>3. ASSUME NEW t \in Term, EnterTerm(t) PROVE IInv'
  <2>1. /\ t > term
        /\ term' = t
        /\ fresh' = None
        /\ newTerms' = newTerms + 1
        /\ UNCHANGED <<top, votie, syncing, sent, topTerm, armed, ticked, pc, seen, votes>>
    BY <1>3 DEF EnterTerm
  <2>2. newTerms' \in 0..MaxTerm /\ newTerms' <= term' /\ newTerms' > 0
    BY <1>0, <1>1, <2>1, DaemonAssumption DEF StoreInv, Term
  <2>3. TypeOK'
    BY <1>0, <2>1, <2>2 DEF TypeOK
  <2>4. StoreInv'
    BY <1>0, <1>1, <2>1, <2>2 DEF StoreInv
  <2>5. CommitsInv' /\ AnswersInv'
    BY <1>0, <1>1, <2>1 DEF CommitsInv, AnswersInv, TypeOK
  <2>6. VotesInv'
    <3>1. \A v \in votes : v.term \in Nat
      BY <1>0, <1>1 DEF TypeOK
    <3> QED BY <1>0, <1>1, <2>1, <3>1 DEF VotesInv
  <2>7. VoteCoversCommits'
    BY <1>0, <2>1 DEF VoteCoversCommits
  <2>8. SignalInv' /\ SleepsOnlyWithoutNeed'
    BY <2>2 DEF SignalInv, SleepsOnlyWithoutNeed
  <2> QED BY <2>3, <2>4, <2>5, <2>6, <2>7, <2>8 DEF IInv
<1>4. ASSUME NEW t \in Term, CheckBlockPack(t) PROVE IInv'
  <2>1. /\ top.height < MaxHeight
        /\ syncing' = [term |-> t, height |-> top.height + 1]
        /\ UNCHANGED <<term, top, votie, fresh, commits, answers, topTerm, newTerms,
                       armed, ticked, pc, seen, votes>>
    BY <1>4 DEF CheckBlockPack
  <2>2. syncing' \in Pack
    BY <1>0, <1>1, <2>1, DaemonAssumption DEF TypeOK, Pack
  <2>3. TypeOK'
    BY <1>0, <2>1, <2>2 DEF TypeOK
  <2>4. StoreInv'
    <3>1. syncing'.height > 0
      BY <1>0, <1>1, <2>1 DEF TypeOK
    <3> QED BY <1>0, <2>1, <3>1 DEF StoreInv
  <2>5. /\ CommitsInv' /\ AnswersInv' /\ VotesInv' /\ VoteCoversCommits'
        /\ SignalInv' /\ SleepsOnlyWithoutNeed'
    BY <1>0, <2>1 DEF CommitsInv, AnswersInv, VotesInv, VoteCoversCommits,
                      SignalInv, SleepsOnlyWithoutNeed, NeedsVote
  <2> QED BY <2>3, <2>4, <2>5 DEF IInv
<1>5. ASSUME HandlePrepareMsg PROVE IInv'
  <2>1. /\ fresh \in Pack /\ fresh.term = term
        /\ votie' = Higher(votie, fresh)
        /\ commits' = commits \cup {fresh}
        /\ UNCHANGED <<term, top, fresh, syncing, answers, topTerm, newTerms, armed,
                       ticked, pc, seen, votes>>
    BY <1>0, <1>5 DEF HandlePrepareMsg, InProgress, StoreInv, TypeOK
  <2>2. votie \in Pack /\ commits \subseteq Pack
    BY <1>0 DEF TypeOK
  <2>3. TypeOK'
    BY <1>0, <2>1, <2>2, HigherCovers DEF TypeOK
  <2>4. StoreInv' /\ AnswersInv' /\ VotesInv' /\ SignalInv'
    BY <1>0, <2>1 DEF StoreInv, AnswersInv, VotesInv, SignalInv
  <2>5. CommitsInv'
    <3> SUFFICES ASSUME NEW p \in commits'
                 PROVE  p.term <= term /\ ~HasLessTermHeightThan(votie', p)
      BY <2>1 DEF CommitsInv
    <3>1. CASE p = fresh
      BY <1>1, <2>1, <2>2, <3>1, HigherCovers
    <3>2. CASE p \in commits
      BY <1>0, <2>1, <2>2, <3>2, HigherCovers DEF CommitsInv
    <3> QED BY <2>1, <3>1, <3>2
  <2>6. VoteCoversCommits'
    \* The commit sent now is of the node term, and no vote is of a higher one.
    <3> SUFFICES ASSUME NEW v \in votes, NEW p \in commits', p.term < v.term
                 PROVE  ~HasLessTermHeightThan(v.votie, p)
      BY <1>0, <2>1 DEF VoteCoversCommits
    <3>1. v.term <= term /\ v.term \in Nat
      BY <1>0, <1>1 DEF VotesInv, TypeOK
    <3>2. p # fresh
      BY <1>1, <2>1, <3>1
    <3> QED BY <1>0, <2>1, <3>2 DEF VoteCoversCommits
  <2>7. SleepsOnlyWithoutNeed'
    BY <1>0, <2>1 DEF SleepsOnlyWithoutNeed, NeedsVote
  <2> QED BY <2>3, <2>4, <2>5, <2>6, <2>7 DEF IInv
<1>6. ASSUME HandleCommitMsg PROVE IInv'
  <2>1. /\ fresh \in Pack /\ fresh.term = term /\ fresh.height = top.height + 1
        /\ SetTop(fresh)
        /\ votie' = Higher(votie, fresh)
        /\ fresh' = None
        /\ UNCHANGED <<term, syncing, commits, answers, newTerms, armed, ticked, pc,
                       seen, votes>>
    BY <1>0, <1>6 DEF HandleCommitMsg, InProgress, StoreInv, TypeOK
  <2>2. votie \in Pack /\ commits \subseteq Pack /\ top \in Pack
    BY <1>0 DEF TypeOK
  <2>3. /\ top' \in Pack /\ topTerm' \in Term /\ top'.term <= topTerm'
        /\ AnswersInv' /\ VoteCoversCommits'
    <3>1. fresh.height >= top.height /\ fresh.height > 0
      BY <1>1, <2>1, <2>2
    <3> QED BY <2>1, <3>1, SetTopKeeps
  <2>4. TypeOK'
    BY <1>0, <2>1, <2>2, <2>3, HigherCovers DEF TypeOK
  <2>5. StoreInv' /\ VotesInv' /\ SignalInv'
    BY <1>0, <2>1, <2>3 DEF StoreInv, VotesInv, SignalInv
  <2>6. CommitsInv'
    BY <1>0, <2>1, <2>2, HigherCovers DEF CommitsInv
  <2>7. ~NeedsVote'
    <3>1. top' = fresh /\ topTerm' \in Nat
      BY <1>1, <2>1, <2>3 DEF SetTop
    <3> QED BY <1>1, <2>1, <2>2, <2>3, <3>1 DEF NeedsVote
  <2>8. SleepsOnlyWithoutNeed'
    BY <2>7 DEF SleepsOnlyWithoutNeed
  <2> QED BY <2>3, <2>4, <2>5, <2>6, <2>8 DEF IInv
<1>7. ASSUME AnswerCommit PROVE IInv'
  <2> DEFINE p == [term |-> term, height |-> top.height]
  <2>1. /\ answers' = answers \cup {p}
        /\ UNCHANGED <<term, top, votie, fresh, syncing, commits, topTerm, newTerms,
                       armed, ticked, pc, seen, votes>>
    BY <1>7 DEF AnswerCommit
  <2>2. p \in Pack /\ p.height <= top.height
    BY <1>0, <1>1, DaemonAssumption DEF TypeOK, Pack
  <2>3. TypeOK'
    BY <1>0, <2>1, <2>2 DEF TypeOK
  <2>4. AnswersInv'
    BY <1>0, <2>1, <2>2 DEF AnswersInv
  <2>5. VoteCoversCommits'
    BY <1>0, <2>1, <2>4 DEF VoteCoversCommits, AnswersInv
  <2>6. StoreInv' /\ CommitsInv' /\ VotesInv' /\ SignalInv' /\ SleepsOnlyWithoutNeed'
    BY <1>0, <2>1 DEF StoreInv, CommitsInv, VotesInv, SignalInv, SleepsOnlyWithoutNeed,
                      NeedsVote
  <2> QED BY <2>3, <2>4, <2>5, <2>6 DEF IInv
<1>8. ASSUME JustCommitIt PROVE IInv'
  <2>1. /\ syncing \in Pack /\ syncing' = None
        /\ UNCHANGED <<term, votie, fresh, commits, answers, newTerms, armed, ticked,
                       pc, seen, votes>>
    BY <1>0, <1>8 DEF JustCommitIt, TypeOK
  <2>2. /\ top' \in Pack /\ topTerm' \in Term /\ top'.term <= topTerm'
        /\ AnswersInv' /\ VoteCoversCommits'
        /\ NeedsVote' => NeedsVote
    <3>1. CASE syncing.height >= top.height /\ syncing.height > 0
      <4>1. SetTop(syncing)
        BY <1>8, <3>1 DEF JustCommitIt
      <4> QED BY <2>1, <3>1, <4>1, SetTopKeeps
    <3>2. CASE ~(syncing.height >= top.height)
      <4>1. UNCHANGED <<top, topTerm>>
        BY <1>8, <3>2 DEF JustCommitIt
      <4> QED BY <1>0, <2>1, <4>1 DEF TypeOK, StoreInv, AnswersInv, VoteCoversCommits,
                                      NeedsVote
    <3>3. syncing.height > 0
      BY <1>0, <1>8 DEF JustCommitIt, StoreInv
    <3> QED BY <3>1, <3>2, <3>3
  <2>3. TypeOK'
    BY <1>0, <2>1, <2>2 DEF TypeOK
  <2>4. StoreInv' /\ CommitsInv' /\ VotesInv' /\ SignalInv'
    BY <1>0, <2>1, <2>2 DEF StoreInv, CommitsInv, VotesInv, SignalInv
  <2>5. SleepsOnlyWithoutNeed'
    BY <1>0, <2>1, <2>2 DEF SleepsOnlyWithoutNeed
  <2> QED BY <2>2, <2>3, <2>4, <2>5 DEF IInv
<1> QED BY <1>2, <1>3, <1>4, <1>5, <1>6, <1>7, <1>8

\* The daemon's reads, its timer and its vote.
LEMMA DaemonStep ==
  ASSUME IInv, Tick \/ Wake \/ GetFresh \/ GetNodeTerm \/ GetCommitTop \/ GetVotie
  PROVE  IInv'
<1> USE DEF store, sent
<1>0. /\ TypeOK /\ StoreInv /\ CommitsInv /\ AnswersInv /\ VotesInv
      /\ VoteCoversCommits /\ SignalInv /\ SleepsOnlyWithoutNeed
  BY DEF IInv
<1>1. /\ term \in Nat /\ seen \in Nat /\ newTerms \in Nat
      /\ top.term \in Nat /\ top.height \in Nat /\ topTerm \in Nat
      /\ 0 \in Term
  BY <1>0, DaemonAssumption, PackNumbers DEF TypeOK, Term
<1>2. ASSUME UNCHANGED <<store, votes>>
      PROVE  /\ CommitsInv' /\ AnswersInv' /\ VotesInv' /\ VoteCoversCommits'
             /\ NeedsVote' <=> NeedsVote
  BY <1>0, <1>2 DEF CommitsInv, AnswersInv, VotesInv, VoteCoversCommits, NeedsVote
<1>3. ASSUME Tick PROVE IInv'
  <2>1. /\ armed' = FALSE /\ ticked' = TRUE
        /\ UNCHANGED <<store, newTerms, pc, seen, votes>>
    BY <1>3 DEF Tick
  <2>2. TypeOK'
    BY <1>0, <2>1 DEF TypeOK
  <2>3. StoreInv' /\ SignalInv'
    BY <1>0, <2>1 DEF StoreInv, SignalInv
  <2>4. SleepsOnlyWithoutNeed'
    BY <2>1 DEF SleepsOnlyWithoutNeed
  <2> QED BY <1>2, <2>1, <2>2, <2>3, <2>4 DEF IInv
<1>4. ASSUME Wake PROVE IInv'
  <2>1. /\ pc' = "fresh"
        /\ UNCHANGED <<store, armed, seen, votes>>
        /\ \/ newTerms' = newTerms
           \/ newTerms > 0 /\ newTerms' = newTerms - 1
    BY <1>4 DEF Wake
  <2>5. newTerms' \in 0..MaxTerm /\ newTerms' <= newTerms
    BY <1>0, <1>1, <2>1, DaemonAssumption DEF TypeOK
  <2>6. ticked' \in BOOLEAN
    BY <1>0, <1>4 DEF Wake, TypeOK
  <2>2. TypeOK'
    BY <1>0, <2>1, <2>5, <2>6 DEF TypeOK
  <2>3. StoreInv'
    BY <1>0, <1>1, <2>1, <2>5 DEF StoreInv
  <2>4. SignalInv' /\ SleepsOnlyWithoutNeed'
    BY <2>1 DEF SignalInv, SleepsOnlyWithoutNeed
  <2> QED BY <1>2, <2>1, <2>2, <2>3, <2>4 DEF IInv
<1>5. ASSUME GetFresh PROVE IInv'
  <2>1. /\ UNCHANGED <<store, newTerms, ticked, votes>>
        /\ seen' \in {0, seen}
        /\ armed' \in BOOLEAN /\ pc' \in {"term", "select"}
        /\ pc' = "select" => fresh # None
    BY <1>0, <1>5 DEF GetFresh, EndRound, TypeOK
  <2>2. TypeOK' /\ StoreInv' /\ SignalInv'
    BY <1>0, <1>1, <2>1 DEF TypeOK, StoreInv, SignalInv
  <2>3. SleepsOnlyWithoutNeed'
    BY <2>1 DEF SleepsOnlyWithoutNeed, NeedsVote
  <2> QED BY <1>2, <2>1, <2>2, <2>3 DEF IInv
<1>6. ASSUME GetNodeTerm PROVE IInv'
  <2>1. /\ UNCHANGED <<store, newTerms, armed, ticked, votes>>
        /\ seen' = term /\ pc' = "top"
    BY <1>6 DEF GetNodeTerm
  <2>2. TypeOK' /\ StoreInv' /\ SignalInv' /\ SleepsOnlyWithoutNeed'
    BY <1>0, <1>1, <2>1 DEF TypeOK, StoreInv, SignalInv, SleepsOnlyWithoutNeed
  <2> QED BY <1>2, <2>1, <2>2 DEF IInv
<1>7. ASSUME GetCommitTop PROVE IInv'
  <2>1. /\ UNCHANGED <<store, newTerms, ticked, votes>>
        /\ seen' \in {0, seen}
        /\ armed' \in BOOLEAN /\ pc' \in {"votie", "select"} /\ pc = "top"
        /\ pc' = "select" => ~(top.height = 0 \/ seen > top.term)
    BY <1>0, <1>7 DEF GetCommitTop, EndRound, TypeOK
  <2>2. TypeOK' /\ StoreInv' /\ SignalInv'
    BY <1>0, <1>1, <2>1 DEF TypeOK, StoreInv, SignalInv
  <2>3. SleepsOnlyWithoutNeed'
    BY <1>0, <1>1, <2>1 DEF SleepsOnlyWithoutNeed, NeedsVote, SignalInv, StoreInv
  <2> QED BY <1>2, <2>1, <2>2, <2>3 DEF IInv
<1>8. ASSUME GetVotie PROVE IInv'
  <2> DEFINE new == [term |-> seen, votie |-> votie]
  <2>1. /\ UNCHANGED <<store, newTerms, ticked>>
        /\ seen' = 0 /\ armed' = TRUE /\ pc' = "select"
        /\ votes' = votes \cup {new} \/ votes' = votes
    BY <1>8 DEF GetVotie, EndRound
  <2>2. TypeOK'
    BY <1>0, <1>1, <2>1 DEF TypeOK
  <2>3. StoreInv' /\ SignalInv' /\ SleepsOnlyWithoutNeed' /\ CommitsInv' /\ AnswersInv'
    BY <1>0, <1>1, <2>1 DEF StoreInv, SignalInv, SleepsOnlyWithoutNeed, CommitsInv,
                            AnswersInv
  <2>4. VotesInv'
    BY <1>0, <2>1 DEF VotesInv, StoreInv
  <2>5. VoteCoversCommits'
    \* The votie read now covers every commit sent so far.
    BY <1>0, <2>1 DEF VoteCoversCommits, CommitsInv, AnswersInv
  <2> QED BY <2>2, <2>3, <2>4, <2>5 DEF IInv
<1> QED BY <1>3, <1>4, <1>5, <1>6, <1>7, <1>8

-----------------------------------------------------------------------------
(* The theorems                                                            *)

\* The strengthening is an invariant of the daemon and its store.
THEOREM Invariance == Spec => []IInv
<1>1. Init => IInv
  <2> SUFFICES ASSUME Init PROVE IInv
    OBVIOUS
  <2>4. 0 \in Term /\ 0 \in 0..MaxHeight
    BY DaemonAssumption DEF Term
  <2>5. [term |-> 0, height |-> 0] \in Pack
    BY <2>4 DEF Pack
  <2>1. TypeOK
    BY <2>4, <2>5 DEF Init, TypeOK, Term
  <2>2. StoreInv /\ CommitsInv /\ AnswersInv /\ VotesInv /\ VoteCoversCommits
    BY DEF Init, StoreInv, CommitsInv, AnswersInv, VotesInv, VoteCoversCommits
  <2>3. SignalInv /\ SleepsOnlyWithoutNeed
    BY DEF Init, SignalInv, SleepsOnlyWithoutNeed
  <2> QED BY <2>1, <2>2, <2>3 DEF IInv
<1>2. IInv /\ [Next]_vars => IInv'
  <2> SUFFICES ASSUME IInv, [Next]_vars PROVE IInv'
    OBVIOUS
  <2>1. CASE UNCHANGED vars
    BY <2>1 DEF vars, store, sent, daemon, IInv, TypeOK, StoreInv, CommitsInv,
                AnswersInv, VotesInv, VoteCoversCommits, SignalInv, SleepsOnlyWithoutNeed, NeedsVote
  <2> QED BY <2>1, StoreStep, DaemonStep DEF Next
<1> QED BY <1>1, <1>2, PTL DEF Spec

\* Every variable keeps its type; no more than MaxTerm handlers wait to signal
\* the daemon.
THEOREM TypeCorrect == Spec => []TypeOK
<1>1. IInv => TypeOK
  BY DEF IInv
<1> QED BY <1>1, Invariance, PTL

\* A vote reports all the node has helped to choose in lower terms, although its
\* term and its votie are read under two locks, or the node only answered for a
\* block that is on its own chain.
THEOREM VotesCoverCommits == Spec => []VoteCoversCommits
<1>1. IInv => VoteCoversCommits
  BY DEF IInv
<1> QED BY <1>1, Invariance, PTL

\* The daemon never sleeps in a term that has no block yet, even when a late
\* JustCommitIt puts the top back to a lower term.
THEOREM SleepIsSafe == Spec => []SleepsOnlyWithoutNeed
<1>1. IInv => SleepsOnlyWithoutNeed
  BY DEF IInv
<1> QED BY <1>1, Invariance, PTL
=============================================================================

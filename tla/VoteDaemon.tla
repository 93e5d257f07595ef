----------------------------- MODULE VoteDaemon -----------------------------
(***************************************************************************)
(* The vote daemon of one node and the BlockStore it reads.  A round of    *)
(* the daemon takes the store's lock four times, once per value, and the   *)
(* handlers run in between.  NewTermEvent and a timer wake the daemon; it  *)
(* stops the timer when its term needs no vote.                            *)
(*                                                                         *)
(* Of a pack only the term and the height are kept.  The handlers are      *)
(* those of Braft, reduced to what the daemon can see.                     *)
(***************************************************************************)
EXTENDS Integers

CONSTANTS
  MaxTerm,    \* bound: terms are 0..MaxTerm
  MaxHeight,  \* bound: heights are 0..MaxHeight
  None        \* nil

Term == 0..MaxTerm
Pack == [term : Term, height : 0..MaxHeight]

ASSUME DaemonAssumption ==
  MaxTerm \in Nat /\ MaxHeight \in Nat /\ None \notin Pack

VARIABLES
  term, top, votie, fresh,  \* in the database
  syncing,   \* a synced pack that passed checkBlockPack, not yet stored
  commits,   \* the packs for which NewPreparedEvent has sent a commit
  answers,   \* those for which CommittedInLowerTermEvent has sent one
  topTerm,   \* history: the highest term the commit top has had
  newTerms,  \* handlers blocked in NewTermEvent, sending to newTermChan
  armed,     \* the timer is running
  ticked,    \* timer.C holds a tick
  pc,        \* what the daemon does next
  seen,      \* the node term it has read
  votes      \* the votes sent

sent == <<commits, answers>>
store == <<term, top, votie, fresh, syncing, sent, topTerm>>
daemon == <<armed, ticked, pc, seen, votes>>
vars == <<store, newTerms, daemon>>

TypeOK ==
  /\ term \in Term /\ seen \in Term
  /\ top \in Pack /\ votie \in Pack
  /\ fresh \in Pack \cup {None} /\ syncing \in Pack \cup {None}
  /\ commits \subseteq Pack /\ answers \subseteq Pack
  /\ topTerm \in Term
  /\ newTerms \in 0..MaxTerm
  /\ armed \in BOOLEAN /\ ticked \in BOOLEAN
  /\ pc \in {"select", "fresh", "term", "top", "votie"}
  /\ votes \subseteq [term : Term, votie : Pack]

HasLessTermHeightThan(v, w) ==
  \/ v.term < w.term
  \/ v.term = w.term /\ v.height < w.height

Higher(v, w) == IF HasLessTermHeightThan(v, w) THEN w ELSE v

SetTop(p) ==
  /\ top' = p
  /\ topTerm' = IF p.term > topTerm THEN p.term ELSE topTerm

-----------------------------------------------------------------------------
(* The store                                                               *)

\* An accepted init, in the node's term or moving it to a higher one.
HandleInitMsg(t) ==
  /\ t >= term
  /\ t >= top.term
  /\ top.height < MaxHeight
  /\ term' = t
  /\ fresh' = [term |-> t, height |-> top.height + 1]
  /\ newTerms' = IF t > term THEN newTerms + 1 ELSE newTerms
  /\ UNCHANGED <<top, votie, syncing, sent, topTerm, daemon>>

\* Mutant: NewTermEvent is not emitted.
EnterTermSilently(t) ==
  /\ t > term
  /\ term' = t
  /\ fresh' = None
  /\ UNCHANGED <<top, votie, syncing, sent, topTerm, newTerms, daemon>>

\* A strong accuse or an init that is refused after it has moved the term.
EnterTerm(t) ==
  /\ t > term
  /\ term' = t
  /\ fresh' = None
  /\ newTerms' = newTerms + 1
  /\ UNCHANGED <<top, votie, syncing, sent, topTerm, daemon>>

InProgress == fresh # None /\ fresh.height = top.height + 1

\* Mutant: the prepared pack is not kept as votie.
HandlePrepareMsgNoVotie ==
  /\ InProgress
  /\ commits' = commits \cup {fresh}
  /\ UNCHANGED <<term, top, votie, fresh, syncing, answers, topTerm, newTerms, daemon>>

HandlePrepareMsg ==
  /\ InProgress
  /\ votie' = Higher(votie, fresh)
  /\ commits' = commits \cup {fresh}
  /\ UNCHANGED <<term, top, fresh, syncing, answers, topTerm, newTerms, daemon>>

HandleCommitMsg ==
  /\ InProgress
  /\ SetTop(fresh)
  /\ votie' = Higher(votie, fresh)
  /\ fresh' = None
  /\ UNCHANGED <<term, syncing, sent, newTerms, daemon>>

\* handleWrongHeightProgressMsg: the sender of a commit is still agreeing, in
\* the node's term, on the block this node committed in a lower one.  The answer
\* leaves the votie alone.
AnswerCommit ==
  /\ top.height > 0 /\ term > top.term
  /\ answers' = answers \cup {[term |-> term, height |-> top.height]}
  /\ UNCHANGED <<term, top, votie, fresh, syncing, commits, topTerm, newTerms, daemon>>

\* The sync daemon has a pack for the next height, of the term in which the
\* others committed it.
CheckBlockPack(t) ==
  /\ syncing = None
  /\ top.height < MaxHeight
  /\ syncing' = [term |-> t, height |-> top.height + 1]
  /\ UNCHANGED <<term, top, votie, fresh, sent, topTerm, newTerms, daemon>>

\* The check held no lock and the pack is stored by its height: if the block was
\* committed meanwhile its pack is overwritten, by one of whatever term.
JustCommitIt ==
  /\ syncing # None
  /\ IF syncing.height >= top.height THEN SetTop(syncing) ELSE UNCHANGED <<top, topTerm>>
  /\ syncing' = None
  /\ UNCHANGED <<term, votie, fresh, sent, newTerms, daemon>>

-----------------------------------------------------------------------------
(* The daemon                                                              *)

Tick ==
  /\ armed
  /\ armed' = FALSE
  /\ ticked' = TRUE
  /\ UNCHANGED <<store, newTerms, pc, seen, votes>>

\* Mutant: a round starts without a signal.
WakeUnasked ==
  /\ pc = "select"
  /\ newTerms' = newTerms - 1
  /\ pc' = "fresh"
  /\ UNCHANGED <<store, armed, ticked, seen, votes>>

Wake ==
  /\ pc = "select"
  /\ \/ newTerms > 0 /\ newTerms' = newTerms - 1 /\ UNCHANGED ticked
     \/ ticked /\ ticked' = FALSE /\ UNCHANGED newTerms
  /\ pc' = "fresh"
  /\ UNCHANGED <<store, armed, seen, votes>>

\* The end of a round: timer.Stop or timer.Reset, and the loop's variables go.
EndRound(again) == armed' = again /\ pc' = "select" /\ seen' = 0

GetFresh ==
  /\ pc = "fresh"
  /\ IF fresh = None THEN pc' = "term" /\ UNCHANGED <<armed, seen>> ELSE EndRound(FALSE)
  /\ UNCHANGED <<store, newTerms, ticked, votes>>

GetNodeTerm ==
  /\ pc = "term"
  /\ seen' = term
  /\ pc' = "top"
  /\ UNCHANGED <<store, newTerms, armed, ticked, votes>>

\* Mutant: above the genesis block no vote is made, and the timer runs on.
GetCommitTopNotGenesis ==
  /\ pc = "top"
  /\ IF seen > top.term THEN pc' = "votie" /\ UNCHANGED <<armed, seen>> ELSE EndRound(TRUE)
  /\ UNCHANGED <<store, newTerms, ticked, votes>>

GetCommitTop ==
  /\ pc = "top"
  /\ IF top.height = 0 \/ seen > top.term
     THEN pc' = "votie" /\ UNCHANGED <<armed, seen>>
     ELSE EndRound(FALSE)
  /\ UNCHANGED <<store, newTerms, ticked, votes>>

\* MakeVote with GetVotie, and NotifyVote; signing may fail.
GetVotie ==
  /\ pc = "votie"
  /\ \/ votes' = votes \cup {[term |-> seen, votie |-> votie]}
     \/ UNCHANGED votes
  /\ EndRound(TRUE)
  /\ UNCHANGED <<store, newTerms, ticked>>

Init ==
  /\ term = 0 /\ seen = 0
  /\ top = [term |-> 0, height |-> 0]
  /\ votie = [term |-> 0, height |-> 0]
  /\ fresh = None
  /\ syncing = None
  /\ commits = {} /\ answers = {}
  /\ topTerm = 0
  /\ newTerms = 0
  /\ armed = TRUE
  /\ ticked = FALSE
  /\ pc = "select"
  /\ votes = {}

Next ==
  \/ \E t \in Term : HandleInitMsg(t) \/ EnterTerm(t) \/ CheckBlockPack(t)
  \/ HandlePrepareMsg
  \/ HandleCommitMsg
  \/ AnswerCommit
  \/ JustCommitIt
  \/ Tick
  \/ Wake
  \/ GetFresh
  \/ GetNodeTerm
  \/ GetCommitTop
  \/ GetVotie

\* Timers fire and the daemon's goroutine runs; messages need not come.
Spec ==
  /\ Init
  /\ [][Next]_vars
  /\ WF_vars(Tick)
  /\ WF_vars(Wake \/ GetFresh \/ GetNodeTerm \/ GetCommitTop \/ GetVotie)

-----------------------------------------------------------------------------
(* Properties                                                              *)

\* A vote reports what the node has helped to choose in lower terms, although
\* its term and its votie are read under two locks: it rests on the order.  A
\* commit that only answered may be missing from it; its block was chosen still
\* earlier and is on this node's own chain.
VoteCoversCommits ==
  \A v \in votes :
    /\ \A p \in commits : p.term < v.term => ~HasLessTermHeightThan(v.votie, p)
    /\ \A p \in answers : p.term < v.term =>
         ~HasLessTermHeightThan(v.votie, p) \/ p.height <= top.height

\* No block is under way and none of this term has been committed here.  The
\* daemon asks for term > top.term, which is weaker: a late JustCommitIt may put
\* a pack of a lower term back at the top, and nothing wakes the daemon then.
NeedsVote == fresh = None /\ (top.height = 0 \/ term > topTerm)

\* The daemon does not go to sleep in a term that has yet to elect its leader,
\* whatever the handlers and the sync daemon did between its reads and
\* timer.Stop.
SleepsOnlyWithoutNeed ==
  pc = "select" /\ ~armed /\ ~ticked /\ newTerms = 0 => ~NeedsVote

\* While a term stays without a block the daemon makes its vote again and again,
\* so that a lost vote is replaced.
KeepsVoting == <>[]NeedsVote => []<>(pc = "votie")
=============================================================================

---------------------------- MODULE MCBraftLater ----------------------------
(* Braft started from states it reaches in term 0, so that the behaviours  *)
(* of interest, a second height and a third term, are within TLC's reach.  *)
EXTENDS MCBraft

CONSTANTS p1, p2

\* The leader of term 0 has proposed this pack.
First == [term |-> 0, block |-> <<p1>>]

\* prepared: the nodes that have seen a quorum of prepares for it.
Proposed(prepared) ==
  /\ votie = [n \in Node |-> IF n \in prepared THEN First ELSE GenesisPack]
  /\ votePool = {}
  /\ syncing = [n \in Node |-> None]
  /\ inits = {[term |-> 0, block |-> First.block, maxVotie |-> GenesisPack]}
  /\ prepares = [p \in Pack |-> IF p = First THEN Node ELSE {}]
  /\ commits = [p \in Pack |-> IF p = First THEN prepared ELSE {}]

\* Everyone has sent a commit for it and all but the leader n1 have committed it.
InitAtHeight1 ==
  /\ Proposed(Node)
  /\ term = [n \in Node |-> 0]
  /\ chain = [n \in Node |-> IF n = n1 THEN <<>> ELSE <<First>>]
  /\ fresh = [n \in Node |-> IF n = n1 THEN First ELSE None]
  /\ votes = [n \in Node |-> IF n # n1 THEN {} ELSE
                [node : {n1, n2, n3}, term : {0}, votie : {GenesisPack}]]
  /\ initing = [n \in Node |-> IF n = n1 THEN First.block ELSE None]
  /\ accused = {}

\* No one has committed it and all have moved on to term 1.
InitAtTerm1 ==
  \E prepared \in {{n1}, {n1, n4}, {n1, n2, n4}} :
    /\ Proposed(prepared)
    /\ term = [n \in Node |-> 1]
    /\ chain = [n \in Node |-> <<>>]
    /\ fresh = [n \in Node |-> None]
    /\ votes = [n \in Node |-> {}]
    /\ initing = [n \in Node |-> None]
    /\ accused = {0}

SpecAtHeight1 == InitAtHeight1 /\ [][Next]_vars
SpecAtTerm1 == InitAtTerm1 /\ [][Next]_vars

\* A second block only where it can compete with another one.
SecondBlocks == {<<>>, <<p1>>, <<p1, p1>>, <<p1, p2>>}
FirstBlocks == {<<>>, <<p1>>, <<p2>>}
=============================================================================

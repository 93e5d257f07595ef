---------------------------- MODULE MCBlockStore ----------------------------
(* Small instances of BlockStore for TLC.                                  *)
EXTENDS BlockStore, TLC

CONSTANTS n1, n4

Symmetric == Permutations(Node \ {Self})

\* Two terms of agreement; a strong accuse may end the first.  Node n4 falls
\* silent after its first prepare: the others are still a quorum.
TwoTerms ==
  {m \in Msg : /\ m.type # "weakAccuse"
               /\ (m.type = "commit" \/ (m.type = "prepare" /\ m.term = 1)) => m.node # n4}

\* One term of agreement, and the weak accuses that may end it.
OneTerm == {m \in Msg : m.term = 0 /\ m.type # "strongAccuse"}

BothInboxes == {TwoTerms, OneTerm}
OneInbox == {OneTerm}
=============================================================================

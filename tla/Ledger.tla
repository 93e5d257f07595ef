------------------------------- MODULE Ledger -------------------------------
(***************************************************************************)
(* What the gateway's replication promises: one growing chain of blocks,   *)
(* of which every node holds a beginning.                                  *)
(***************************************************************************)
EXTENDS Naturals, Sequences

CONSTANTS
  Node,
  Block,        \* block digests
  Genesis,      \* the digest below every chain
  PrevBlockId   \* [Block \ {Genesis} -> Block]

VARIABLE ledger \* [Node -> Seq(Block)]

TopBlock(s) == IF s = <<>> THEN Genesis ELSE s[Len(s)]

Init == ledger = [n \in Node |-> <<>>]

\* Node n commits block b: a new block above everything committed anywhere, or
\* the one that every node ahead of n already holds there.
Commit(n, b) ==
  /\ b # Genesis
  /\ PrevBlockId[b] = TopBlock(ledger[n])
  /\ \A k \in Node : Len(ledger[k]) > Len(ledger[n])
                       => ledger[k][Len(ledger[n]) + 1] = b
  /\ ledger' = [ledger EXCEPT ![n] = Append(@, b)]

Next == \E n \in Node, b \in Block : Commit(n, b)

Spec == Init /\ [][Next]_ledger
=============================================================================

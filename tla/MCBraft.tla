------------------------------ MODULE MCBraft ------------------------------
(* Small instances of Braft for TLC. A block is the sequence of payloads   *)
(* from height 1 up to it.                                                 *)
EXTENDS Braft, TLC, SequencesExt

CONSTANTS n1, n2, n3, n4, Payload, MaxHeight

MCNodeList == [i \in 0..3 |-> <<n1, n2, n3, n4>>[i + 1]]
MCBlock == UNION {[1..h -> Payload] : h \in 0..MaxHeight}
MCPrevBlockId == [b \in Block \ {<<>>} |-> Front(b)]
MCHeight == [b \in Block |-> Len(b)]
MCGenesis == <<>>

\* n1 and n2 lead terms 0 and 1; the other two lead no term within the bounds.
Symmetric == Permutations(Payload) \cup Permutations({n3, n4})
=============================================================================

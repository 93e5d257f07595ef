------------------------------ MODULE MCPayments ------------------------------
(* Payments from a later state: every node has signed the first payment,    *)
(* node 1 has received a quorum of the signatures and sent it, nodes 0 and 2 *)
(* have received one result, waited for signTimeout and queued the deposit   *)
(* again; the other results are lost.                                        *)
EXTENDS Payments

First == [term |-> 0, newly |-> 1]

InitSent ==
  /\ kind = "coin" /\ kind \in Kinds
  /\ term = [n \in Node |-> 0] /\ currTerm = term
  /\ watched = Node /\ fresh = {0, 2} /\ adding = {} /\ picked = {} /\ owed = Node
  /\ mem = [n \in Node |-> None]
  /\ doneAt = [n \in Node |-> {}] /\ unmarked = doneAt /\ failed = doneAt /\ sending = doneAt
  /\ signing = doneAt
  /\ req = [n \in Node |-> IF n \in {0, 2} THEN None ELSE First]
  /\ cache = [n \in Node |->
       IF n = 1 THEN [sigs |-> {[node |-> s, newly |-> 1] : s \in Node \ {3}},
                      err |-> 0, done |-> TRUE]
       ELSE None]
  /\ waiting = [mem EXCEPT ![1] = [newly |-> 1, inMem |-> FALSE]]
  /\ prop = [n \in Node |-> "none"]
  /\ requests = doneAt /\ results = [n \in Receivers |-> {}]
  /\ signers = [k \in Newly |-> IF k = 1 THEN Node ELSE {}]
  /\ created = 1 /\ chain = [k \in Newly |-> IF k = 1 THEN "sent" ELSE "none"]
  /\ approve = [n \in Node |-> "none"]
  /\ ledger = {} /\ crashes = 0

SpecSent == InitSent /\ [][Next]_vars

=============================================================================

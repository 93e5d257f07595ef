--------------------------- MODULE PaymentsProofs ---------------------------
(* Theorems about Payments, for every cluster size, kind of deposit, set of *)
(* watchers and receivers, and number of terms, payments and crashes.       *)
EXTENDS Payments, FiniteSetTheorems, WellFoundedInduction, TLAPS

-----------------------------------------------------------------------------
(* The strengthening, by the variables it is about                         *)

QueuePart ==
  /\ watched \subseteq Node /\ fresh \subseteq Node /\ adding \subseteq Node
  /\ picked \subseteq Node /\ owed \subseteq Node

MemPart == mem \in [Node -> Newly \cup {None}]

DonePart == doneAt \in [Node -> SUBSET Newly] /\ unmarked \in [Node -> SUBSET Newly]

Sent == [term : Term, newly : Newly, sigs : SUBSET Signature]

SignPart ==
  /\ req \in [Node -> Request \cup {None}] /\ failed \in [Node -> SUBSET Term]
  /\ sending \in [Node -> SUBSET Sent]
  /\ prop \in [Node -> {"none", "new", "dealing", "success", "failed"}]

HandlingPart == signing \in [Node -> SUBSET Signing]

CachePart == cache \in [Node -> Cache \cup {None}]

WaitPart == waiting \in [Node -> Waiting \cup {None}]

NetPart ==
  /\ requests \in [Node -> SUBSET Request] /\ results \in [Receivers -> SUBSET Result]
  /\ signers \in [Newly -> SUBSET Node]

WorldPart ==
  /\ kind \in Kinds
  /\ created \in 0..MaxNewly /\ chain \in [Newly -> {"none", "sent", "seen", "confirmed"}]
  /\ approve \in [Node -> {"none", "sent", "ok", "failed"}]
  /\ ledger \subseteq Newly /\ crashes \in 0..MaxCrash

TermPart == term \in [Node -> Term] /\ currTerm \in [Node -> Term]

\* A transaction enters the memory pool only once its payment is confirmed, and
\* a confirmed payment stays so: what a leader puts into a block has been paid.
PaidPart ==
  /\ \A n \in Node : mem[n] # None => chain[mem[n]] = "confirmed"
  /\ LedgerOnlyPaid

\* Signatures, at most one of a node, each of a payment that the node has signed.
Genuine(sigs, by) ==
  /\ IsFiniteSet(sigs)
  /\ \A s \in sigs : s.newly # None => s.node \in by[s.newly]
  /\ \A s, u \in sigs : s.node = u.node => s = u

\* Results, caches and payments being sent hold genuine signatures, a payment being
\* sent QuorumN of them; none of the three is used on ETH.
SignedPart ==
  /\ \A d \in Receivers : \A r \in results[d] :
       kind # "eth" /\ (r.newly # None => r.node \in signers[r.newly])
  /\ \A n \in Node : cache[n] # None => Genuine(cache[n].sigs, signers)
  /\ \A n \in Node : \A x \in sending[n] :
       kind # "eth" /\ Genuine(x.sigs, signers) /\ Cardinality(x.sigs) >= QuorumN
  /\ PaidOnlySigned

TypePart ==
  /\ QueuePart /\ MemPart /\ DonePart /\ SignPart /\ HandlingPart /\ CachePart /\ WaitPart
  /\ NetPart /\ WorldPart /\ TermPart

IInv == TypePart /\ PaidPart /\ SignedPart /\ NothingForgotten

-----------------------------------------------------------------------------
(* What leaves a part alone                                                *)

\* Each part is about the variables it names.
LEMMA PartsKept ==
  /\ QueuePart /\ UNCHANGED <<watched, fresh, adding, picked, owed>> => QueuePart'
  /\ MemPart /\ UNCHANGED mem => MemPart'
  /\ DonePart /\ UNCHANGED <<doneAt, unmarked>> => DonePart'
  /\ SignPart /\ UNCHANGED <<req, failed, sending, prop>> => SignPart'
  /\ HandlingPart /\ UNCHANGED signing => HandlingPart'
  /\ CachePart /\ UNCHANGED cache => CachePart'
  /\ WaitPart /\ UNCHANGED waiting => WaitPart'
  /\ NetPart /\ UNCHANGED <<requests, results, signers>> => NetPart'
  /\ WorldPart /\ UNCHANGED <<kind, created, chain, approve, ledger, crashes>> => WorldPart'
  /\ TermPart /\ UNCHANGED terms => TermPart'
  /\ PaidPart /\ UNCHANGED <<mem, chain, ledger>> => PaidPart'
  /\ SignedPart /\ UNCHANGED <<kind, results, signers, cache, sending, chain, approve>>
       => SignedPart'
  /\ NothingForgotten /\ UNCHANGED <<kind, owed, fresh, adding, picked, req, mem, doneAt>>
       => NothingForgotten'
  BY DEF QueuePart, MemPart, DonePart, SignPart, HandlingPart, CachePart, WaitPart, NetPart,
         WorldPart, TermPart, terms, PaidPart, LedgerOnlyPaid, SignedPart, Genuine, PaidOnlySigned,
         NothingForgotten, IsDeposit

\* Facts about the constants.
LEMMA Constants ==
  /\ 1 \in Newly /\ Receivers \subseteq Node /\ 0 \in Term
  /\ None \notin Request /\ None \notin Cache /\ None \notin Waiting /\ None \notin Newly
  BY PaymentsAssumption DEF Newly, Term

-----------------------------------------------------------------------------
(* Signatures and quorums                                                  *)

\* QuorumN is a number, and the cluster is finite.
LEMMA QuorumSize == QuorumN \in Int /\ IsFiniteSet(Node)
<1>1. QuorumN \in Int
  BY PaymentsAssumption DEF QuorumN, F
<1>2. IsFiniteSet(0..N-1)
  BY PaymentsAssumption, FS_Interval
<1> QED BY <1>1, <1>2 DEF Node

\* Of QuorumN signatures or more, the loop of doSave over the node list takes at
\* least QuorumN.
LEMMA ChosenEnough ==
  ASSUME NEW sigs \in SUBSET Signature, IsFiniteSet(sigs), Cardinality(sigs) >= QuorumN
  PROVE  Cardinality(Chosen(sigs)) >= QuorumN
<1> DEFINE left == {s.node : s \in sigs \ Chosen(sigs)}
           R == OpToRel(<, Nat)
<1>1. /\ Chosen(sigs) \in SUBSET sigs
      /\ IsFiniteSet(Chosen(sigs)) /\ Cardinality(Chosen(sigs)) \in Nat
  <2>1. Chosen(sigs) \in SUBSET sigs
    BY DEF Chosen
  <2> QED BY <2>1, FS_Subset, FS_CardinalityType
<1>2. CASE sigs = Chosen(sigs)
  BY <1>2
<1>3. CASE sigs # Chosen(sigs)
  <2>1. left # {} /\ left \in SUBSET Nat
    <3>1. PICK s \in sigs : s \notin Chosen(sigs)
      BY <1>1, <1>3
    <3>2. \A x \in sigs : x.node \in Nat
      BY PaymentsAssumption DEF Signature, Node
    <3> QED BY <3>1, <3>2
  <2>2. IsWellFoundedOn(R, Nat)
    BY NatLessThanWellFounded
  <2>3. \A i, j \in Nat : i < j => <<i, j>> \in R
    BY DEF OpToRel
  <2> HIDE DEF R
  <2>4. PICK i \in left : \A j \in left : ~(<<j, i>> \in R)
    BY <2>1, <2>2, WFMin
  <2>5. PICK s \in sigs \ Chosen(sigs) : s.node = i
    BY <2>4
  <2> DEFINE before == {x \in sigs : x.node < s.node}
  <2>6. before \in SUBSET Chosen(sigs)
    <3> SUFFICES ASSUME NEW x \in sigs, x.node < s.node, x \notin Chosen(sigs) PROVE FALSE
      OBVIOUS
    <3>1. x.node \in left /\ x.node \in Nat /\ i \in Nat
      BY <2>1, <2>4
    <3> QED BY <2>3, <2>4, <2>5, <3>1
  <2>7. Cardinality(before) <= Cardinality(Chosen(sigs)) /\ Cardinality(before) \in Nat
    BY <1>1, <2>6, FS_Subset, FS_CardinalityType
  <2>8. ~(Cardinality(before) < QuorumN)
    BY <2>5 DEF Chosen
  <2> QED BY <1>1, <2>7, <2>8, QuorumSize
<1> QED BY <1>2, <1>3

\* Genuine signatures of one payment are those of as many nodes that signed it.
LEMMA SignersEnough ==
  ASSUME NEW sigs, NEW by \in [Newly -> SUBSET Node], Genuine(sigs, by), NEW k \in Newly,
         \A s \in sigs : s.newly = k, Cardinality(sigs) >= QuorumN
  PROVE  Cardinality(by[k]) >= QuorumN
<1> DEFINE f == [s \in sigs |-> s.node]
<1>1. \A s \in sigs : s.node \in by[k]
  BY Constants DEF Genuine
<1>2. f \in Injection(sigs, by[k])
  BY <1>1 DEF Genuine, Injection, IsInjective
<1>3. IsFiniteSet(by[k])
  BY QuorumSize, FS_Subset
<1>4. Cardinality(sigs) <= Cardinality(by[k])
  BY <1>2, <1>3, FS_Injection
<1>5. Cardinality(sigs) \in Nat /\ Cardinality(by[k]) \in Nat
  BY <1>3, FS_CardinalityType DEF Genuine
<1> QED BY <1>4, <1>5, QuorumSize

\* More signers leave signatures genuine.
LEMMA GenuineKept ==
  ASSUME NEW sigs \in SUBSET Signature, NEW by, NEW more, Genuine(sigs, by),
         \A k \in Newly : by[k] \subseteq more[k]
  PROVE  Genuine(sigs, more)
  BY DEF Genuine, Signature

\* What a step may do to results, caches, payments being sent and the chain.
LEMMA SignedStep ==
  ASSUME IInv, NetPart', UNCHANGED kind,
         \A k \in Newly : signers[k] \subseteq signers'[k],
         \A d \in Receivers : \A r \in results'[d] :
            \/ r \in results[d]
            \/ kind # "eth" /\ (r.newly # None => r.node \in signers'[r.newly]),
         \A n \in Node :
            \/ cache'[n] = None
            \/ cache[n] # None /\ cache'[n] = cache[n]
            \/ Genuine(cache'[n].sigs, signers'),
         \A n \in Node : \A x \in sending'[n] :
            \/ x \in sending[n]
            \/ kind # "eth" /\ Genuine(x.sigs, signers') /\ Cardinality(x.sigs) >= QuorumN,
         \A n \in Node : approve[n] = "ok" => approve'[n] = "ok",
         \A k \in Newly : chain'[k] # "none" =>
            \/ chain[k] # "none"
            \/ kind = "eth" /\ Cardinality({n \in Node : approve'[n] = "ok"}) >= QuorumN
            \/ kind # "eth" /\ Cardinality(signers'[k]) >= QuorumN
  PROVE  SignedPart'
<1>1. /\ signers \in [Newly -> SUBSET Node] /\ signers' \in [Newly -> SUBSET Node]
      /\ results \in [Receivers -> SUBSET Result]
  BY DEF IInv, TypePart, NetPart
<1>2. ASSUME NEW d \in Receivers, NEW r \in results'[d]
      PROVE  kind # "eth" /\ (r.newly # None => r.node \in signers'[r.newly])
  <2>1. CASE r \in results[d]
    <3>1. r \in Result /\ r.newly \in Newly \cup {None}
      BY <1>1, <2>1 DEF Result
    <3> QED BY <2>1, <3>1 DEF IInv, SignedPart
  <2> QED BY <2>1
<1>3. ASSUME NEW n \in Node, cache'[n] # None PROVE Genuine(cache'[n].sigs, signers')
  <2>1. CASE cache[n] # None /\ cache'[n] = cache[n]
    <3>1. cache[n].sigs \in SUBSET Signature
      BY <2>1 DEF IInv, TypePart, CachePart, Cache
    <3>2. Genuine(cache[n].sigs, signers)
      BY <2>1 DEF IInv, SignedPart
    <3> QED BY <2>1, <3>1, <3>2, GenuineKept
  <2> QED BY <1>3, <2>1
<1>4. ASSUME NEW n \in Node, NEW x \in sending'[n]
      PROVE  kind # "eth" /\ Genuine(x.sigs, signers') /\ Cardinality(x.sigs) >= QuorumN
  <2>1. CASE x \in sending[n]
    <3>1. x.sigs \in SUBSET Signature
      BY <2>1 DEF IInv, TypePart, SignPart, Sent
    <3>2. kind # "eth" /\ Genuine(x.sigs, signers) /\ Cardinality(x.sigs) >= QuorumN
      BY <2>1 DEF IInv, SignedPart
    <3> QED BY <3>1, <3>2, GenuineKept
  <2> QED BY <2>1
<1>5. PaidOnlySigned'
  <2> DEFINE old == {n \in Node : approve[n] = "ok"}
             new == {n \in Node : approve'[n] = "ok"}
  <2>1. Cardinality(old) \in Nat /\ Cardinality(new) \in Nat /\ Cardinality(old) <= Cardinality(new)
    <3>1. old \in SUBSET new /\ new \in SUBSET Node
      OBVIOUS
    <3> HIDE DEF old, new
    <3>2. IsFiniteSet(new)
      BY <3>1, QuorumSize, FS_Subset
    <3> QED BY <3>1, <3>2, FS_Subset, FS_CardinalityType
  <2>2. \A k \in Newly : /\ Cardinality(signers[k]) \in Nat /\ Cardinality(signers'[k]) \in Nat
                        /\ Cardinality(signers[k]) <= Cardinality(signers'[k])
    <3> TAKE k \in Newly
    <3>1. signers[k] \in SUBSET signers'[k] /\ signers'[k] \in SUBSET Node
      BY <1>1
    <3>2. IsFiniteSet(signers'[k])
      BY <3>1, QuorumSize, FS_Subset
    <3> QED BY <3>1, <3>2, FS_Subset, FS_CardinalityType
  <2>3. \A k \in Newly : chain[k] # "none" =>
          IF kind = "eth" THEN Cardinality(old) >= QuorumN ELSE Cardinality(signers[k]) >= QuorumN
    BY DEF IInv, SignedPart, PaidOnlySigned
  <2> HIDE DEF old
  <2>4. \A k \in Newly : chain'[k] # "none" =>
          IF kind = "eth" THEN Cardinality(new) >= QuorumN ELSE Cardinality(signers'[k]) >= QuorumN
    BY <2>1, <2>2, <2>3, QuorumSize
  <2> QED BY <2>4 DEF PaidOnlySigned
<1> QED BY <1>2, <1>3, <1>4, <1>5 DEF SignedPart

-----------------------------------------------------------------------------
(* TxStore                                                                 *)

\* The pool may only gain a transaction whose payment is confirmed.
LEMMA PaidStep ==
  ASSUME PaidPart, MemPart, MemPart', UNCHANGED <<chain, ledger>>,
         \A n \in Node : mem'[n] \in {mem[n], None} \/ chain[mem'[n]] = "confirmed"
  PROVE  PaidPart'
  BY DEF PaidPart, LedgerOnlyPaid, MemPart

\* A step of node n holds the deposit of every other node as before.
LEMMA HeldStep ==
  ASSUME IInv, NEW n \in Node, UNCHANGED kind,
         owed' \subseteq owed \cup {n},
         fresh \ {n} \subseteq fresh', adding \ {n} \subseteq adding',
         picked \ {n} \subseteq picked',
         \A p \in Node \ {n} : req'[p] = req[p] /\ mem'[p] = mem[p] /\ doneAt'[p] = doneAt[p],
         IsDeposit /\ n \in owed' =>
            \/ n \in fresh' \cup adding' \cup picked'
            \/ req'[n] # None \/ mem'[n] # None \/ doneAt'[n] # {}
  PROVE  NothingForgotten'
<1>1. owed \subseteq Node
  BY DEF IInv, TypePart, QueuePart
<1>2. IsDeposit' = IsDeposit
  BY DEF IsDeposit
<1>3. ASSUME IsDeposit, NEW p \in owed', p # n
      PROVE  \/ p \in fresh' \cup adding' \cup picked'
             \/ req'[p] # None \/ mem'[p] # None \/ doneAt'[p] # {}
  <2>1. p \in owed /\ p \in Node
    BY <1>1, <1>3
  <2>2. \/ p \in fresh \cup adding \cup picked
        \/ req[p] # None \/ mem[p] # None \/ doneAt[p] # {}
    BY <1>3, <2>1 DEF IInv, NothingForgotten
  <2> QED BY <1>3, <2>1, <2>2
<1> QED BY <1>2, <1>3 DEF NothingForgotten

\* A watcher pushes the deposit, or an operator adds it.
LEMMA WatchStep ==
  ASSUME IInv, NEW n \in Node, AddWatchedTx(n) \/ AddWatchedInfo(n)
  PROVE  IInv'
<1>1. UNCHANGED <<adding, picked, mem, doneAt, signs, net, world, terms>>
  BY DEF AddWatchedTx, AddWatchedInfo
<1>2. QueuePart'
  BY <1>1 DEF IInv, TypePart, QueuePart, AddWatchedTx, AddWatchedInfo, EnterPools
<1>3. NothingForgotten'
  <2>1. CASE AddWatchedTx(n)
    BY <1>1, <2>1, HeldStep DEF AddWatchedTx, EnterPools, signs, world, IsDeposit
  <2>2. CASE AddWatchedInfo(n)
    BY <1>1, <2>2, PartsKept DEF IInv, AddWatchedInfo, signs, world
  <2> QED BY <2>1, <2>2
<1> QED BY <1>1, <1>2, <1>3, PartsKept DEF IInv, TypePart, signs, world, net

\* The queue: a deposit queued again, taken by the leader, given back.
LEMMA QueueStep ==
  ASSUME IInv, NEW n \in Node, AddFresh(n) \/ GetFreshWatchedTxs(n) \/ GiveBack(n)
  PROVE  IInv'
<1>1. UNCHANGED <<watched, mem, doneAt, signs, net, world, terms>>
  BY DEF AddFresh, GetFreshWatchedTxs, GiveBack
<1>2. QueuePart'
  BY <1>1 DEF IInv, TypePart, QueuePart, AddFresh, GetFreshWatchedTxs, GiveBack,
              AfterAddFreshWatchedTx
<1>3. NothingForgotten'
  <2>1. IsDeposit => kind # "distribution"
    BY DEF IsDeposit
  <2>2. CASE AddFresh(n)
    BY <1>1, <2>2, HeldStep DEF AddFresh, signs, world
  <2>3. CASE GetFreshWatchedTxs(n)
    BY <1>1, <2>3, HeldStep DEF GetFreshWatchedTxs, Settled, signs, world
  <2>4. CASE GiveBack(n)
    BY <1>1, <2>1, <2>4, HeldStep DEF GiveBack, AfterAddFreshWatchedTx, Settled, signs, world
  <2> QED BY <2>2, <2>3, <2>4
<1> QED BY <1>1, <1>2, <1>3, PartsKept DEF IInv, TypePart, signs, world, net

\* The transaction enters the pool; the deposit leaves the queue only if there is
\* a sign request.
LEMMA InnerTxStep ==
  ASSUME IInv, NEW n \in Node, NEW k \in Newly, chain[k] = "confirmed", CreateInnerTx(n, k),
         UNCHANGED <<adding, picked, doneAt, owed, req, kind, chain, ledger>>
  PROVE  QueuePart' /\ MemPart' /\ PaidPart' /\ NothingForgotten'
<1>1. QueuePart'
  BY DEF IInv, TypePart, QueuePart, CreateInnerTx
<1>2. MemPart'
  BY DEF IInv, TypePart, MemPart, CreateInnerTx
<1>3. \A p \in Node : mem'[p] = mem[p] \/ (p = n /\ mem'[p] = k)
  BY DEF IInv, TypePart, MemPart, CreateInnerTx
<1>4. PaidPart'
  BY <1>2, <1>3, PaidStep DEF IInv, TypePart
<1>5. NothingForgotten'
  <2>1. fresh \ {n} \subseteq fresh' /\ \A p \in Node \ {n} : mem'[p] = mem[p]
    BY <1>3 DEF CreateInnerTx
  <2>2. CASE req[n] = None
    BY <2>2, PartsKept DEF IInv, CreateInnerTx
  <2>3. CASE req[n] # None
    BY <2>1, <2>3, HeldStep
  <2> QED BY <2>2, <2>3
<1> QED BY <1>1, <1>2, <1>4, <1>5

\* A payment of a block is marked, or a deposit found to be done is dropped.
LEMMA DoneStep ==
  ASSUME IInv, NEW n \in Node,
         DoHeartbeat(n) \/ \E k \in Newly : CleanUpOnNewCommitted(n, k)
  PROVE  IInv'
<1>1. CASE DoHeartbeat(n)
  <2>1. UNCHANGED <<adding, picked, doneAt, owed, signs, net, world, terms>>
    BY <1>1 DEF DoHeartbeat
  <2>2. QueuePart'
    BY <1>1, <2>1 DEF IInv, TypePart, QueuePart, DoHeartbeat
  <2>3. MemPart'
    BY <1>1 DEF IInv, TypePart, MemPart, DoHeartbeat
  <2>4. \A p \in Node : mem'[p] = mem[p] \/ (p = n /\ mem'[p] = None)
    BY <1>1 DEF IInv, TypePart, MemPart, DoHeartbeat
  <2>5. PaidPart'
    BY <2>1, <2>3, <2>4, PaidStep DEF IInv, TypePart, world
  <2>6. NothingForgotten'
    BY <1>1, <2>1, <2>4, HeldStep DEF DoHeartbeat, signs, world
  <2> QED BY <2>1, <2>2, <2>3, <2>5, <2>6, PartsKept DEF IInv, TypePart, signs, world, net
<1>2. ASSUME NEW k \in Newly, CleanUpOnNewCommitted(n, k) PROVE IInv'
  <2>1. UNCHANGED <<adding, picked, owed, req, failed, signing, cache, sending, prop, net,
                    kind, created, chain, approve, ledger, crashes, terms>>
    BY <1>2 DEF CleanUpOnNewCommitted
  <2>2. QueuePart'
    BY <1>2, <2>1 DEF IInv, TypePart, QueuePart, CleanUpOnNewCommitted
  <2>3. MemPart' /\ DonePart' /\ WaitPart'
    BY <1>2 DEF IInv, TypePart, MemPart, DonePart, WaitPart, CleanUpOnNewCommitted
  <2>4. \A p \in Node : mem'[p] = mem[p] \/ (p = n /\ mem'[p] = None)
    BY <1>2 DEF IInv, TypePart, MemPart, CleanUpOnNewCommitted
  <2>5. \A p \in Node : doneAt'[p] = IF p = n THEN doneAt[p] \cup {k} ELSE doneAt[p]
    BY <1>2 DEF IInv, TypePart, DonePart, CleanUpOnNewCommitted
  <2>6. PaidPart'
    BY <2>1, <2>3, <2>4, PaidStep DEF IInv, TypePart
  <2>7. NothingForgotten'
    BY <1>2, <2>1, <2>4, <2>5, HeldStep DEF CleanUpOnNewCommitted
  <2> QED BY <2>1, <2>2, <2>3, <2>6, <2>7, PartsKept DEF IInv, TypePart, net
<1> QED BY <1>1, <1>2

-----------------------------------------------------------------------------
(* The leader and the nodes that sign                                      *)

\* A leader asks for a payment to be signed.
LEMMA CreateStep ==
  ASSUME IInv, NEW n \in Node, CreateTransaction(n) \/ WatchFormerMultisig(n)
  PROVE  IInv'
<1>1. UNCHANGED <<watched, fresh, adding, mem, doneAt, signs, results, signers, kind,
                  chain, approve, ledger, unmarked, crashes, terms>>
  BY DEF CreateTransaction, WatchFormerMultisig, pools
<1>2. QueuePart'
  BY <1>1 DEF IInv, TypePart, QueuePart, CreateTransaction, WatchFormerMultisig, pools
<1>3. created \in 0..MaxNewly /\ created' \in 0..MaxNewly
  BY PaymentsAssumption DEF IInv, TypePart, WorldPart, CreateTransaction, WatchFormerMultisig
<1>4. WorldPart'
  BY <1>1, <1>3 DEF IInv, TypePart, WorldPart
<1>5. \E m \in Request : Broadcast(m) \/ UNCHANGED requests
  <2>1. term[n] \in Term
    BY DEF IInv, TypePart, TermPart
  <2>2. CASE CreateTransaction(n)
    <3>1. NewlyTx \in Newly
      BY <1>3, <2>2, PaymentsAssumption DEF NewlyTx, Newly, CreateTransaction
    <3>2. [term |-> term[n], newly |-> NewlyTx] \in Request
      BY <2>1, <3>1 DEF Request
    <3> QED BY <2>2, <3>2 DEF CreateTransaction
  <2>3. CASE WatchFormerMultisig(n)
    <3>1. [term |-> term[n], newly |-> 1] \in Request
      BY <2>1, Constants DEF Request
    <3> QED BY <2>3, <3>1 DEF WatchFormerMultisig
  <2> QED BY <2>2, <2>3
<1>6. NetPart'
  BY <1>1, <1>5 DEF IInv, TypePart, NetPart, Broadcast
<1>7. NothingForgotten'
  <2>1. CASE CreateTransaction(n)
    BY <1>1, <2>1, HeldStep DEF CreateTransaction, signs
  <2>2. CASE WatchFormerMultisig(n)
    BY <2>2, PartsKept DEF IInv, WatchFormerMultisig, pools, signs
  <2> QED BY <2>1, <2>2
<1> QED BY <1>1, <1>2, <1>4, <1>6, <1>7, PartsKept DEF IInv, TypePart, signs, net

\* A node decides on a sign request, whatever the verdict.
LEMMA HandleStep ==
  ASSUME IInv, NEW n \in Node, NEW m \in requests[n], HandleSignTx(n, m)
  PROVE  IInv'
<1>1. UNCHANGED <<adding, picked, mem, doneAt, req, failed, cache, sending, waiting, prop, results,
                  signers, kind, created, chain, ledger, unmarked, crashes, terms>>
  BY DEF HandleSignTx
<1>2. m \in Request /\ requests' = [requests EXCEPT ![n] = @ \ {m}]
  BY DEF IInv, TypePart, NetPart, HandleSignTx
<1>3. EnterPools(n) \/ UNCHANGED <<watched, fresh, owed>>
  BY DEF HandleSignTx
<1>4. approve' = approve \/ (approve[n] # "ok" /\ approve' = [approve EXCEPT ![n] = "sent"])
  BY DEF HandleSignTx, SignEth
<1>5. HandlingPart'
  <2>1. \A signed \in BOOLEAN, newly \in Newly \cup {None} :
          Handle(n, m, signed, newly) => HandlingPart'
    <3>1. term[n] \in Term
      BY DEF IInv, TypePart, TermPart
    <3>2. \A signed \in BOOLEAN, newly \in Newly \cup {None} :
            [req |-> m, term |-> term[n], signed |-> signed, newly |-> newly, stored |-> FALSE]
              \in Signing
      BY <1>2, <3>1 DEF Signing
    <3> QED BY <3>2 DEF IInv, TypePart, HandlingPart, Handle
  <2>2. Reject(n, m) \/ signing' = signing => HandlingPart'
    BY <2>1 DEF Reject, IInv, TypePart, HandlingPart
  <2>3. m.newly \in Newly
    BY <1>2 DEF Request
  <2>4. Sign(n, m) \/ SignEth(n, m) => HandlingPart'
    BY <2>1, <2>2, <2>3 DEF Sign, SignEth
  <2> QED BY <2>2, <2>4 DEF HandleSignTx
<1>6. QueuePart'
  BY <1>1, <1>3 DEF IInv, TypePart, QueuePart, EnterPools
<1>7. NetPart'
  BY <1>1, <1>2 DEF IInv, TypePart, NetPart
<1>8. WorldPart'
  BY <1>1, <1>4 DEF IInv, TypePart, WorldPart
<1>9. NothingForgotten'
  <2>1. CASE UNCHANGED <<watched, fresh, owed>>
    BY <1>1, <2>1, PartsKept DEF IInv
  <2>2. CASE EnterPools(n) /\ ~UNCHANGED <<fresh, owed>>
    <3>1. fresh' = fresh \cup {n} /\ owed' = owed \cup {n}
      BY <2>2 DEF EnterPools
    <3> QED BY <1>1, <3>1, HeldStep
  <2> QED BY <1>1, <1>3, <2>1, <2>2, PartsKept DEF IInv
<1>10. SignedPart'
  <2>1. \A p \in Node : approve[p] = "ok" => approve'[p] = "ok"
    BY <1>4 DEF IInv, TypePart, WorldPart
  <2> QED BY <1>1, <1>7, <2>1, SignedStep
<1> QED BY <1>1, <1>5, <1>6, <1>7, <1>8, <1>9, <1>10, PartsKept DEF IInv, TypePart

\* The request is stored, and from then on is what the node has of the deposit.
LEMMA StoreStep ==
  ASSUME IInv, NEW n \in Node, NEW o \in signing[n], SetSignMsg(n, o)
  PROVE  IInv'
<1>1. UNCHANGED <<watched, adding, picked, mem, doneAt, failed, cache, sending, waiting, prop, net,
                  world, terms>>
  BY DEF SetSignMsg
<1>2. o \in Signing /\ o.req \in Request /\ [o EXCEPT !.stored = TRUE] \in Signing
  <2>1. o \in Signing
    BY DEF IInv, TypePart, HandlingPart
  <2> QED BY <2>1 DEF Signing
<1>3. HandlingPart'
  BY <1>2 DEF IInv, TypePart, HandlingPart, SetSignMsg
<1>4. SignPart' /\ \A p \in Node : req'[p] = IF p = n THEN o.req ELSE req[p]
  BY <1>1, <1>2 DEF IInv, TypePart, SignPart, SetSignMsg
<1>5. QueuePart'
  BY <1>1 DEF IInv, TypePart, QueuePart, SetSignMsg
<1>6. NothingForgotten'
  <2>1. req'[n] # None
    BY <1>2, <1>4, Constants
  <2>2. fresh \ {n} \subseteq fresh' /\ owed' = owed \cup {n}
    BY DEF SetSignMsg
  <2> QED BY <1>1, <1>4, <2>1, <2>2, HeldStep DEF world
<1> QED BY <1>1, <1>3, <1>4, <1>5, <1>6, PartsKept DEF IInv, TypePart, net, world

\* The result goes out: what it holds the node has signed now.
LEMMA AnswerStep ==
  ASSUME IInv, NEW n \in Node, NEW o \in signing[n], SignHandledEvent(n, o)
  PROVE  IInv'
<1> DEFINE r == [node |-> n, term |-> o.term, signed |-> o.signed, newly |-> o.newly]
<1>1. /\ UNCHANGED <<watched, adding, picked, mem, doneAt, req, failed, cache, sending, waiting,
                     prop, requests, world, terms>>
      /\ kind # "eth" /\ fresh' = fresh \ {n}
      /\ owed' = IF n \in fresh /\ req[n] = None THEN owed \ {n} ELSE owed
      /\ results' = [d \in Receivers |-> results[d] \cup {r}]
      /\ signers' = IF o.newly = None THEN signers ELSE [signers EXCEPT ![o.newly] = @ \cup {n}]
  BY DEF SignHandledEvent
<1>2. o \in Signing /\ o.newly \in Newly \cup {None}
  BY DEF IInv, TypePart, HandlingPart, Signing
<1>3. r \in Result /\ r.node = n /\ r.newly = o.newly
  BY <1>2 DEF Result, Signing
<1> HIDE DEF r
<1>4. HandlingPart'
  BY DEF IInv, TypePart, HandlingPart, SignHandledEvent
<1>5. QueuePart'
  BY <1>1 DEF IInv, TypePart, QueuePart
<1>6. /\ requests \in [Node -> SUBSET Request] /\ results \in [Receivers -> SUBSET Result]
      /\ signers \in [Newly -> SUBSET Node]
  BY DEF IInv, TypePart, NetPart
<1>7. NetPart'
  BY <1>1, <1>2, <1>3, <1>6 DEF NetPart
<1>8. NothingForgotten'
  <2>1. n \in owed' => n \in owed /\ (n \notin fresh \/ req[n] # None)
    BY <1>1
  <2>2. IsDeposit /\ n \in owed =>
          n \in fresh \cup adding \cup picked \/ req[n] # None \/ mem[n] # None \/ doneAt[n] # {}
    BY DEF IInv, NothingForgotten
  <2> QED BY <1>1, <2>1, <2>2, HeldStep DEF world
<1>9. SignedPart'
  <2>1. \A k \in Newly : signers[k] \subseteq signers'[k]
    BY <1>1, <1>2, <1>6
  <2>2. r.newly # None => r.node \in signers'[r.newly]
    BY <1>1, <1>2, <1>3, <1>6
  <2> QED BY <1>1, <1>7, <2>1, <2>2, SignedStep DEF world
<1> QED BY <1>1, <1>4, <1>5, <1>7, <1>8, <1>9, PartsKept DEF IInv, TypePart, world

\* On ETH the node waits for its approve transaction.
LEMMA ApproveStep ==
  ASSUME IInv, NEW n \in Node, NEW o \in signing[n], SignedTxEvent(n, o)
  PROVE  IInv'
<1>1. UNCHANGED <<pools, req, failed, cache, sending, prop, net, world, terms>>
  BY DEF SignedTxEvent
<1>2. HandlingPart'
  BY DEF IInv, TypePart, HandlingPart, SignedTxEvent
<1>3. [newly |-> o.newly, inMem |-> FALSE] \in Waiting
  BY DEF IInv, TypePart, HandlingPart, Signing, Waiting
<1>4. WaitPart'
  BY <1>3 DEF IInv, TypePart, WaitPart, SignedTxEvent
<1> QED BY <1>1, <1>2, <1>4, PartsKept DEF IInv, TypePart, pools, net, world

-----------------------------------------------------------------------------
(* The signed results                                                      *)

\* clearOnFail queues a deposit again before it forgets the request.
LEMMA ClearStep ==
  ASSUME IInv, NEW n \in Node, NEW t \in Term, NEW inWaiting, ClearOnFail(n, t, inWaiting),
         UNCHANGED <<kind, fresh, picked, mem, doneAt, owed>>
  PROVE  /\ QueuePart' /\ CachePart' /\ NothingForgotten'
         /\ (sending' \in [Node -> SUBSET Sent] => SignPart')
         /\ \A p \in Node : cache'[p] \in {None, cache[p]}
<1>1. QueuePart'
  BY DEF IInv, TypePart, QueuePart, ClearOnFail, AfterAddFreshWatchedTx
<1>2. CachePart'
  BY DEF IInv, TypePart, CachePart, ClearOnFail
<1>3. SetStatus(n, "failed") \in [Node -> {"none", "new", "dealing", "success", "failed"}]
  BY DEF IInv, TypePart, SignPart, SetStatus
<1>4. /\ prop' \in [Node -> {"none", "new", "dealing", "success", "failed"}]
      /\ req' \in [Node -> Request \cup {None}] /\ failed' \in [Node -> SUBSET Term]
  BY <1>3 DEF IInv, TypePart, SignPart, ClearOnFail
<1>5. NothingForgotten'
  <2>1. CASE req' = req /\ adding' = adding
    BY <2>1, PartsKept DEF IInv
  <2>2. CASE req' = [req EXCEPT ![n] = None] /\ adding' = AfterAddFreshWatchedTx(n)
    <3>1. \A p \in Node \ {n} : req'[p] = req[p]
      BY <2>2 DEF IInv, TypePart, SignPart
    <3> QED BY <2>2, <3>1, HeldStep DEF AfterAddFreshWatchedTx, Settled
  <2>3. CASE ~IsDeposit
    BY <2>3 DEF NothingForgotten, IsDeposit
  <2> QED BY <2>1, <2>2, <2>3 DEF ClearOnFail, IsDeposit
<1>6. \A p \in Node : cache'[p] \in {None, cache[p]}
  BY DEF IInv, TypePart, CachePart, ClearOnFail
<1> QED BY <1>1, <1>2, <1>4, <1>5, <1>6 DEF SignPart

\* A node that stops forgets the deposit altogether.
LEMMA LoseStep ==
  ASSUME IInv, NEW n \in Node, Lose(n), NetPart',
         \A d \in Receivers : results'[d] \subseteq results[d]
  PROVE  IInv'
<1>1. UNCHANGED <<doneAt, req, failed, requests, signers, kind, created, chain, approve, ledger,
                  term>>
  BY DEF Lose
<1>2. QueuePart'
  BY DEF IInv, TypePart, QueuePart, Lose
<1>3. MemPart' /\ DonePart' /\ HandlingPart' /\ CachePart' /\ WaitPart'
  BY <1>1 DEF IInv, TypePart, MemPart, DonePart, HandlingPart, CachePart, WaitPart, Lose
<1>4. SignPart'
  BY <1>1 DEF IInv, TypePart, SignPart, Lose
<1>5. WorldPart'
  BY <1>1, PaymentsAssumption DEF IInv, TypePart, WorldPart, Lose
<1>6. TermPart'
  BY <1>1, Constants DEF IInv, TypePart, TermPart, Lose
<1>7. \A p \in Node : mem'[p] = IF p = n THEN None ELSE mem[p]
  BY DEF IInv, TypePart, MemPart, Lose
<1>8. PaidPart'
  BY <1>1, <1>3, <1>7, PaidStep DEF IInv, TypePart
<1>9. NothingForgotten'
  BY <1>1, <1>7, HeldStep DEF Lose
<1>10. SignedPart'
  <2>1. \A p \in Node : /\ cache'[p] = IF p = n THEN None ELSE cache[p]
                        /\ sending'[p] = IF p = n THEN {} ELSE sending[p]
    BY DEF IInv, TypePart, CachePart, SignPart, Lose
  <2> QED BY <1>1, <2>1, SignedStep
<1> QED BY <1>2, <1>3, <1>4, <1>5, <1>6, <1>8, <1>9, <1>10 DEF IInv, TypePart

\* The process ends and starts again.
LEMMA CrashStep ==
  ASSUME IInv, NEW n \in Node, Crash(n)
  PROVE  IInv'
<1>1. NetPart'
  BY DEF IInv, TypePart, NetPart, Crash, Lose
<1> QED BY <1>1, LoseStep DEF Crash

\* The cache with one more result.
LEMMA CountedType ==
  ASSUME IInv, NEW n \in Node, NEW r \in Result
  PROVE  Counted(n, r) \in Cache /\ [Counted(n, r) EXCEPT !.done = TRUE] \in Cache
<1> DEFINE c == CacheOf(n)
<1>1. EmptyCache \in Cache
  BY DEF EmptyCache, Cache
<1>2. c \in Cache
  BY <1>1 DEF IInv, TypePart, CachePart, CacheOf
<1> HIDE DEF c
<1>3. [node |-> r.node, newly |-> r.newly] \in Signature
  BY DEF Result, Signature
<1>4. [c EXCEPT !.sigs = @ \cup {[node |-> r.node, newly |-> r.newly]}] \in Cache
  BY <1>2, <1>3 DEF Cache
<1>5. c.err + 1 \in Nat
  BY <1>2 DEF Cache
<1>6. [c EXCEPT !.err = @ + 1] \in Cache
  BY <1>2, <1>5 DEF Cache
<1>7. Counted(n, r) \in Cache
  BY <1>4, <1>6 DEF Counted, c
<1>8. \A x \in Cache : [x EXCEPT !.done = TRUE] \in Cache
  BY DEF Cache
<1> QED BY <1>7, <1>8

\* A second result of a node is refused, so the cache has one signature of each.
LEMMA CountedGenuine ==
  ASSUME IInv, NEW n \in Receivers, n \in Node, NEW r \in results[n], r \in Result, ~Refused(n, r)
  PROVE  Genuine(Counted(n, r).sigs, signers)
<1> DEFINE c == CacheOf(n)
           new == [node |-> r.node, newly |-> r.newly]
<1>1. c \in Cache /\ Genuine(c.sigs, signers)
  <2>1. EmptyCache \in Cache /\ Genuine(EmptyCache.sigs, signers)
    BY FS_EmptySet DEF EmptyCache, Cache, Genuine
  <2> QED BY <2>1 DEF IInv, TypePart, CachePart, SignedPart, CacheOf
<1>2. \A s \in c.sigs : s.node # r.node
  BY DEF Refused
<1> HIDE DEF c
<1>3. new.node = r.node /\ (new.newly # None => new.node \in signers[new.newly])
  BY DEF IInv, SignedPart
<1> HIDE DEF new
<1>4. Genuine(c.sigs \cup {new}, signers)
  BY <1>1, <1>2, <1>3, FS_AddElement DEF Genuine
<1>5. /\ [c EXCEPT !.sigs = @ \cup {new}].sigs = c.sigs \cup {new}
      /\ [c EXCEPT !.err = @ + 1].sigs = c.sigs
  BY <1>1 DEF Cache
<1> QED BY <1>1, <1>4, <1>5 DEF Counted, c, new

\* A result is counted, ignored, enough, or one too many that failed.
LEMMA SaveStep ==
  ASSUME IInv, NEW n \in Receivers, NEW r \in results[n], DoSave(n, r)
  PROVE  IInv'
<1> DEFINE c == Counted(n, r)
<1>0. n \in Node /\ r \in Result
  BY Constants DEF IInv, TypePart, NetPart
<1>1. UNCHANGED <<requests, signers>>
  BY DEF DoSave, Lose
<1>2. NetPart' /\ \A d \in Receivers : results'[d] \subseteq results[d]
  BY <1>1 DEF IInv, TypePart, NetPart, DoSave
<1>3. ASSUME UNCHANGED <<kind, approve, chain>>,
             \A p \in Node : \/ cache'[p] \in {None, cache[p]}
                             \/ Genuine(cache'[p].sigs, signers),
             \A p \in Node : \A x \in sending'[p] :
                \/ x \in sending[p]
                \/ kind # "eth" /\ Genuine(x.sigs, signers) /\ Cardinality(x.sigs) >= QuorumN
      PROVE  SignedPart'
  BY <1>1, <1>2, <1>3, SignedStep
<1>4. CASE UNCHANGED <<pools, signs, requests, signers, world, terms>>
  <2>1. SignedPart'
    BY <1>3, <1>4 DEF signs, world
  <2> QED BY <1>2, <1>4, <2>1, PartsKept DEF IInv, TypePart, pools, signs, world
<1>5. CASE Lose(n)
  BY <1>0, <1>2, <1>5, LoseStep
<1>6. c \in Cache /\ [c EXCEPT !.done = TRUE] \in Cache
  BY <1>0, CountedType
<1>7. ~Refused(n, r) => Genuine(c.sigs, signers)
  BY <1>0, CountedGenuine
<1> HIDE DEF c
<1>8. CASE /\ ~Refused(n, r) /\ cache' = [cache EXCEPT ![n] = c]
           /\ UNCHANGED <<pools, req, failed, signing, sending, waiting, prop, requests, signers,
                          world, terms>>
  <2>1. CachePart'
    BY <1>0, <1>6, <1>8 DEF IInv, TypePart, CachePart
  <2>2. \A p \in Node : cache'[p] = IF p = n THEN c ELSE cache[p]
    BY <1>0, <1>8 DEF IInv, TypePart, CachePart
  <2>3. SignedPart'
    BY <1>3, <1>7, <1>8, <2>2 DEF world
  <2> QED BY <1>2, <1>8, <2>1, <2>3, PartsKept DEF IInv, TypePart, pools, world
<1>9. CASE /\ ~Refused(n, r) /\ req[n] # None /\ Ready(c)
           /\ cache' = [cache EXCEPT ![n] = [c EXCEPT !.done = TRUE]]
           /\ sending' = [sending EXCEPT ![n] = @ \cup
                {[term |-> req[n].term, newly |-> req[n].newly, sigs |-> Chosen(c.sigs)]}]
           /\ UNCHANGED <<pools, req, failed, signing, waiting, prop, requests, signers, world,
                          terms>>
  <2> DEFINE x == [term |-> req[n].term, newly |-> req[n].newly, sigs |-> Chosen(c.sigs)]
  <2>1. CachePart'
    BY <1>0, <1>6, <1>9 DEF IInv, TypePart, CachePart
  <2>2. req[n] \in Request
    BY <1>0, <1>9 DEF IInv, TypePart, SignPart
  <2>3. c.sigs \in SUBSET Signature /\ Chosen(c.sigs) \in SUBSET c.sigs
    BY <1>6 DEF Chosen, Cache
  <2>4. x \in Sent
    BY <2>2, <2>3 DEF Request, Sent
  <2>5. /\ sending' \in [Node -> SUBSET Sent]
        /\ \A p \in Node : sending'[p] = IF p = n THEN sending[p] \cup {x} ELSE sending[p]
    BY <1>0, <1>9, <2>4 DEF IInv, TypePart, SignPart
  <2>6. SignPart'
    BY <1>9, <2>5 DEF IInv, TypePart, SignPart
  <2>7. Genuine(Chosen(c.sigs), signers) /\ Cardinality(Chosen(c.sigs)) >= QuorumN
    <3>1. Genuine(c.sigs, signers) /\ Cardinality(c.sigs) >= QuorumN
      BY <1>7, <1>9 DEF Ready
    <3>2. IsFiniteSet(c.sigs) /\ IsFiniteSet(Chosen(c.sigs))
      BY <2>3, <3>1, FS_Subset DEF Genuine
    <3> QED BY <2>3, <3>1, <3>2, ChosenEnough DEF Genuine
  <2>8. x.sigs = Chosen(c.sigs) /\ [c EXCEPT !.done = TRUE].sigs = c.sigs
    BY <1>6 DEF Cache
  <2>9. \A p \in Node : cache'[p] = IF p = n THEN [c EXCEPT !.done = TRUE] ELSE cache[p]
    BY <1>0, <1>9 DEF IInv, TypePart, CachePart
  <2> HIDE DEF x
  <2>10. kind # "eth"
    BY DEF IInv, SignedPart
  <2>11. SignedPart'
    BY <1>3, <1>7, <1>9, <2>5, <2>7, <2>8, <2>9, <2>10 DEF world
  <2> QED BY <1>2, <1>9, <2>1, <2>6, <2>11, PartsKept DEF IInv, TypePart, pools, world
<1>10. CASE /\ req[n] # None
            /\ ClearOnFail(n, req[n].term, waiting[n] # None)
            /\ UNCHANGED <<fresh, picked, mem, doneAt, owed, signing, sending, waiting,
                           requests, signers, world, terms>>
  <2>1. req[n].term \in Term
    BY <1>0, <1>10 DEF IInv, TypePart, SignPart, Request
  <2>2. /\ QueuePart' /\ CachePart' /\ NothingForgotten' /\ SignPart'
        /\ \A p \in Node : cache'[p] \in {None, cache[p]}
    BY <1>0, <1>10, <2>1, ClearStep DEF IInv, TypePart, SignPart, world
  <2>3. SignedPart'
    BY <1>3, <1>10, <2>2 DEF world
  <2> QED BY <1>2, <1>10, <2>2, <2>3, PartsKept DEF IInv, TypePart, world
<1> QED BY <1>4, <1>5, <1>8, <1>9, <1>10 DEF DoSave, c

\* The payment is sent, or cannot be merged.
LEMMA SendStep ==
  ASSUME IInv, NEW n \in Node, NEW x \in sending[n], SendTxToChain(n, x)
  PROVE  IInv'
<1> DEFINE wait(k) == waiting' = [waiting EXCEPT ![n] = [newly |-> k, inMem |-> FALSE]]
<1>0. x \in Sent /\ x.newly \in Newly /\ x.term \in Term
  BY DEF IInv, TypePart, SignPart, Sent
<1>1. CASE Lose(n) /\ UNCHANGED results
  BY <1>1, CrashStep DEF Crash
<1>2. CASE /\ sending' = [sending EXCEPT ![n] = @ \ {x}]
           /\ UNCHANGED <<fresh, picked, mem, doneAt, owed, signing, net,
                          kind, created, approve, ledger, unmarked, crashes, terms>>
           /\ \/ /\ ClearOnFail(n, x.term, waiting[n] # None)
                 /\ wait(IF kind \in {"xin", "eos"} THEN None ELSE x.newly)
                 /\ UNCHANGED chain
              \/ /\ \A s \in x.sigs : s.newly = x.newly
                 /\ wait(x.newly)
                 /\ \/ chain' = [chain EXCEPT ![x.newly] = IF @ = "none" THEN "sent" ELSE @]
                    \/ UNCHANGED chain
                 /\ UNCHANGED <<failed, cache, watched, req, prop, adding>>
  <2>1. sending' \in [Node -> SUBSET Sent]
    BY <1>2 DEF IInv, TypePart, SignPart
  <2>2. \A k \in Newly \cup {None} : [newly |-> k, inMem |-> FALSE] \in Waiting
    BY DEF Waiting
  <2>3. \A k \in Newly \cup {None} : wait(k) => WaitPart'
    BY <2>2 DEF IInv, TypePart, WaitPart
  <2> HIDE DEF wait
  <2>4. WaitPart'
    BY <1>0, <1>2, <2>3
  <2>5. chain \in [Newly -> {"none", "sent", "seen", "confirmed"}]
    BY DEF IInv, TypePart, WorldPart
  <2>6. /\ chain' \in [Newly -> {"none", "sent", "seen", "confirmed"}]
        /\ \A k \in Newly : chain[k] = "confirmed" => chain'[k] = "confirmed"
    BY <1>0, <1>2, <2>5
  <2>7. WorldPart'
    BY <1>2, <2>6 DEF IInv, TypePart, WorldPart
  <2>8. PaidPart'
    BY <1>2, <2>6 DEF IInv, TypePart, MemPart, WorldPart, PaidPart, LedgerOnlyPaid
  <2>9. /\ QueuePart' /\ CachePart' /\ SignPart' /\ NothingForgotten'
        /\ \A p \in Node : cache'[p] \in {None, cache[p]}
    <3>1. CASE ClearOnFail(n, x.term, waiting[n] # None)
      BY <1>0, <1>2, <2>1, <3>1, ClearStep
    <3>2. CASE UNCHANGED <<failed, cache, watched, req, prop, adding>>
      BY <1>2, <2>1, <3>2, PartsKept DEF IInv, TypePart, SignPart
    <3> QED BY <1>2, <3>1, <3>2
  <2>10. SignedPart'
    <3>1. /\ kind # "eth" /\ Genuine(x.sigs, signers) /\ Cardinality(x.sigs) >= QuorumN
          /\ signers \in [Newly -> SUBSET Node]
      BY DEF IInv, SignedPart, TypePart, NetPart
    <3>2. \A k \in Newly : chain'[k] # chain[k] =>
             k = x.newly /\ \A s \in x.sigs : s.newly = k
      BY <1>0, <1>2, <2>5
    <3>3. \A k \in Newly : chain'[k] # chain[k] => Cardinality(signers[k]) >= QuorumN
      BY <1>0, <3>1, <3>2, SignersEnough
    <3>4. \A p \in Node : sending'[p] \subseteq sending[p]
      BY <1>2 DEF IInv, TypePart, SignPart
    <3>5. NetPart' /\ UNCHANGED <<kind, results, signers, approve>>
      BY <1>2, PartsKept DEF IInv, TypePart, net
    <3> QED BY <2>9, <3>1, <3>3, <3>4, <3>5, SignedStep
  <2> QED BY <1>2, <2>4, <2>7, <2>8, <2>9, <2>10, PartsKept DEF IInv, TypePart, net
<1> QED BY <1>1, <1>2 DEF SendTxToChain

\* The timeout of the results.
LEMMA SignTimeoutStep ==
  ASSUME IInv, NEW n \in Node, DropDoneCache(n) \/ CheckSignTimeout(n)
  PROVE  IInv'
<1>1. UNCHANGED <<fresh, picked, mem, doneAt, owed, failed, signing, sending, waiting, prop,
                  net, world, terms>>
  BY DEF DropDoneCache, CheckSignTimeout, pools
<1>2. CachePart'
  BY DEF IInv, TypePart, CachePart, DropDoneCache, CheckSignTimeout
<1>3. QueuePart'
  BY <1>1 DEF IInv, TypePart, QueuePart, DropDoneCache, CheckSignTimeout, pools,
              AfterAddFreshWatchedTx
<1>4. SignPart'
  BY <1>1 DEF IInv, TypePart, SignPart, DropDoneCache, CheckSignTimeout
<1>5. NothingForgotten'
  <2>1. CASE req' = req /\ adding' = adding
    BY <1>1, <2>1, PartsKept DEF IInv, world
  <2>2. CASE req' = [req EXCEPT ![n] = None] /\ adding' = AfterAddFreshWatchedTx(n)
    <3>1. \A p \in Node \ {n} : req'[p] = req[p]
      BY <2>2 DEF IInv, TypePart, SignPart
    <3> QED BY <1>1, <2>2, <3>1, HeldStep DEF AfterAddFreshWatchedTx, Settled, world
  <2>3. CASE kind = "transfer"
    BY <1>1, <2>3 DEF NothingForgotten, IsDeposit, world
  <2> QED BY <2>1, <2>2, <2>3 DEF DropDoneCache, CheckSignTimeout, pools
<1>6. SignedPart'
  <2>1. \A p \in Node : cache'[p] \in {None, cache[p]}
    BY DEF IInv, TypePart, CachePart, DropDoneCache, CheckSignTimeout
  <2>2. NetPart'
    BY <1>1, PartsKept DEF IInv, TypePart, net
  <2> QED BY <1>1, <2>1, <2>2, SignedStep DEF net, world
<1> QED BY <1>1, <1>2, <1>3, <1>4, <1>5, <1>6, PartsKept DEF IInv, TypePart, world, net

-----------------------------------------------------------------------------
(* The payment on its chain                                                *)

\* The payment is not seen in time, or the approve transaction fails.
LEMMA ConfirmTimeoutStep ==
  ASSUME IInv, NEW n \in Node, ConfirmTimeout(n) \/ CheckApprove(n)
  PROVE  IInv'
<1>1. UNCHANGED <<fresh, picked, mem, doneAt, owed, signing, sending, net, world, terms>>
  BY DEF ConfirmTimeout, CheckApprove
<1>2. WaitPart'
  <2>1. waiting[n] # None => waiting[n] \in Waiting
    BY DEF IInv, TypePart, WaitPart
  <2>2. \A w \in Waiting : [w EXCEPT !.inMem = TRUE] \in Waiting
    BY DEF Waiting
  <2>3. \E w \in Waiting \cup {None} : waiting' = [waiting EXCEPT ![n] = w]
    BY <2>1, <2>2 DEF ConfirmTimeout, CheckApprove
  <2> QED BY <2>3 DEF IInv, TypePart, WaitPart
<1>3. /\ QueuePart' /\ CachePart' /\ SignPart' /\ NothingForgotten'
      /\ \A p \in Node : cache'[p] \in {None, cache[p]}
  <2>1. CASE UNCHANGED <<failed, cache, watched, req, prop, adding>>
    BY <1>1, <2>1, PartsKept DEF IInv, TypePart, world, net
  <2>2. CASE req[n] # None /\ ClearOnFail(n, req[n].term, FALSE)
    <3>1. req[n].term \in Term
      BY <2>2 DEF IInv, TypePart, SignPart, Request
    <3> QED BY <1>1, <2>2, <3>1, ClearStep DEF IInv, TypePart, SignPart, world
  <2> QED BY <2>1, <2>2 DEF ConfirmTimeout, CheckApprove
<1>4. SignedPart'
  <2>1. NetPart'
    BY <1>1, PartsKept DEF IInv, TypePart, net
  <2> QED BY <1>1, <1>3, <2>1, SignedStep DEF net, world
<1> QED BY <1>1, <1>2, <1>3, <1>4, PartsKept DEF IInv, TypePart, world, net

\* The payment is seen or confirmed.
LEMMA ConfirmStep ==
  ASSUME IInv, NEW n \in Node, CheckTxOnChain(n) \/ DealEthMint(n)
  PROVE  IInv'
<1>1. UNCHANGED <<adding, picked, doneAt, owed, req, failed, signing, cache, sending, net,
                  world, terms>>
  BY DEF CheckTxOnChain, DealEthMint
<1>2. WaitPart'
  <2>1. waiting[n] # None => waiting[n] \in Waiting
    BY DEF IInv, TypePart, WaitPart
  <2>2. \A w \in Waiting : [w EXCEPT !.inMem = TRUE] \in Waiting
    BY DEF Waiting
  <2>3. \E w \in Waiting \cup {None} : waiting' = [waiting EXCEPT ![n] = w]
    BY <2>1, <2>2 DEF CheckTxOnChain, DealEthMint
  <2> QED BY <2>3 DEF IInv, TypePart, WaitPart
<1>3. SignPart'
  <2>1. SetStatus(n, "success") \in [Node -> {"none", "new", "dealing", "success", "failed"}]
    BY DEF IInv, TypePart, SignPart, SetStatus
  <2> QED BY <1>1, <2>1 DEF IInv, TypePart, SignPart, CheckTxOnChain, DealEthMint
<1>4. QueuePart' /\ MemPart' /\ PaidPart' /\ NothingForgotten'
  <2>1. CASE UNCHANGED <<watched, fresh, mem>>
    BY <1>1, <2>1, PartsKept DEF IInv, TypePart, world, net
  <2>2. ASSUME NEW k \in Newly, chain[k] = "confirmed", CreateInnerTx(n, k)
        PROVE  QueuePart' /\ MemPart' /\ PaidPart' /\ NothingForgotten'
    BY <1>1, <2>2, InnerTxStep DEF world
  <2>3. waiting[n] # None /\ waiting[n].newly # None => waiting[n].newly \in Newly
    BY DEF IInv, TypePart, WaitPart, Waiting
  <2> QED BY <2>1, <2>2, <2>3, Constants DEF CheckTxOnChain, DealEthMint
<1> QED BY <1>1, <1>2, <1>3, <1>4, PartsKept DEF IInv, TypePart, world, net

\* The chains only ever bring a payment on.
LEMMA WorldStep ==
  ASSUME IInv, ChainStep
  PROVE  IInv'
<1>1. UNCHANGED <<pools, signs, net, kind, created, ledger, unmarked, crashes, terms>>
  BY DEF ChainStep
<1>2. /\ chain \in [Newly -> {"none", "sent", "seen", "confirmed"}]
      /\ approve \in [Node -> {"none", "sent", "ok", "failed"}]
  BY DEF IInv, TypePart, WorldPart
<1>3. /\ chain' \in [Newly -> {"none", "sent", "seen", "confirmed"}]
      /\ approve' \in [Node -> {"none", "sent", "ok", "failed"}]
      /\ \A k \in Newly : chain[k] = "confirmed" => chain'[k] = "confirmed"
  BY <1>2, Constants DEF ChainStep
<1>4. WorldPart'
  BY <1>1, <1>3 DEF IInv, TypePart, WorldPart
<1>5. PaidPart'
  BY <1>1, <1>3 DEF IInv, TypePart, MemPart, WorldPart, PaidPart, LedgerOnlyPaid, pools
<1>6. SignedPart'
  <2>1. \A p \in Node : approve[p] = "ok" => approve'[p] = "ok"
    BY <1>2 DEF ChainStep
  <2>2. \A k \in Newly : chain'[k] # "none" =>
          \/ chain[k] # "none"
          \/ kind = "eth" /\ Cardinality({p \in Node : approve'[p] = "ok"}) >= QuorumN
    BY <1>2, Constants DEF ChainStep
  <2>3. NetPart'
    BY <1>1, PartsKept DEF IInv, TypePart, net
  <2> QED BY <1>1, <2>1, <2>2, <2>3, SignedStep DEF signs, net
<1> QED BY <1>1, <1>4, <1>5, <1>6, PartsKept DEF IInv, TypePart, pools, signs, net

\* A block records the payment of its leader's transaction.
LEMMA CommitStep ==
  ASSUME IInv, NEW n \in Node, NEW k \in Newly, Commit(n, k)
  PROVE  IInv'
<1>1. /\ UNCHANGED <<pools, signs, net, kind, created, chain, approve, crashes, terms>>
      /\ mem[n] = k /\ ledger' = ledger \cup {k}
      /\ unmarked' = [p \in Node |-> unmarked[p] \cup {k}]
  BY DEF Commit
<1>2. DonePart'
  BY <1>1 DEF IInv, TypePart, DonePart, pools
<1>3. WorldPart'
  BY <1>1 DEF IInv, TypePart, WorldPart
<1>4. PaidPart'
  <2>1. chain[k] = "confirmed"
    BY <1>1, Constants DEF IInv, PaidPart
  <2> QED BY <1>1, <2>1 DEF IInv, PaidPart, LedgerOnlyPaid, pools
<1> QED BY <1>1, <1>2, <1>3, <1>4, PartsKept DEF IInv, TypePart, pools, signs, net

\* A proposal is added, executed or deleted; a term changes.
LEMMA ProposalStep ==
  ASSUME IInv, NEW n \in Node,
         \/ AddProposal(n) \/ ExecuteProposal(n) \/ DeleteProposal(n)
         \/ \E t \in Term : NewTerm(n, t)
  PROVE  IInv'
<1>1. CASE AddProposal(n) \/ ExecuteProposal(n) \/ DeleteProposal(n)
  <2>1. UNCHANGED <<adding, picked, mem, doneAt, owed, req, failed, signing, cache, sending,
                    waiting, net, world, terms>>
    BY <1>1 DEF AddProposal, ExecuteProposal, DeleteProposal, pools
  <2>2. QueuePart'
    BY <1>1, <2>1 DEF IInv, TypePart, QueuePart, AddProposal, ExecuteProposal, DeleteProposal, pools
  <2>3. SignPart'
    BY <1>1, <2>1 DEF IInv, TypePart, SignPart, AddProposal, ExecuteProposal, DeleteProposal
  <2>4. fresh \subseteq fresh'
    BY <1>1 DEF AddProposal, ExecuteProposal, DeleteProposal, pools
  <2>5. NothingForgotten'
    BY <2>1, <2>4 DEF IInv, NothingForgotten, IsDeposit, world
  <2> QED BY <2>1, <2>2, <2>3, <2>5, PartsKept DEF IInv, TypePart, world, net
<1>2. ASSUME NEW t \in Term, NewTerm(n, t) PROVE IInv'
  <2>1. TermPart' /\ UNCHANGED <<pools, signs, net, world>>
    BY <1>2 DEF IInv, TypePart, TermPart, NewTerm
  <2> QED BY <2>1, PartsKept DEF IInv, TypePart, pools, signs, world, net
<1> QED BY <1>1, <1>2

-----------------------------------------------------------------------------
(* The theorems                                                            *)

\* The strengthening holds throughout, for every interleaving of watchers,
\* leaders, signatures, timeouts, blocks, crashes and the chains.
THEOREM Invariance == Spec => []IInv
<1>1. Init => IInv
  <2> SUFFICES ASSUME Init PROVE IInv
    OBVIOUS
  <2>1. TypePart
    <3>1. QueuePart /\ MemPart /\ DonePart /\ SignPart /\ HandlingPart /\ CachePart /\ WaitPart
      BY DEF Init, QueuePart, MemPart, DonePart, SignPart, HandlingPart, CachePart, WaitPart
    <3>2. NetPart /\ TermPart
      BY Constants DEF Init, NetPart, TermPart
    <3>3. WorldPart
      BY PaymentsAssumption DEF Init, WorldPart
    <3> QED BY <3>1, <3>2, <3>3 DEF TypePart
  <2>2. PaidPart /\ NothingForgotten
    BY DEF Init, PaidPart, LedgerOnlyPaid, NothingForgotten
  <2>3. SignedPart
    BY DEF Init, SignedPart, PaidOnlySigned
  <2> QED BY <2>1, <2>2, <2>3 DEF IInv
<1>2. IInv /\ [Next]_vars => IInv'
  <2> SUFFICES ASSUME IInv, [Next]_vars PROVE IInv'
    OBVIOUS
  <2>1. CASE UNCHANGED vars
    BY <2>1, PartsKept DEF vars, pools, signs, net, world, IInv, TypePart
  <2>2. CASE Next
    BY <2>2, WatchStep, QueueStep, DoneStep, CreateStep, HandleStep, StoreStep, AnswerStep,
       ApproveStep, CrashStep, SaveStep, SendStep, SignTimeoutStep, ConfirmTimeoutStep,
       ConfirmStep, WorldStep, CommitStep, ProposalStep
    DEF Next
  <2> QED BY <2>1, <2>2
<1> QED BY <1>1, <1>2, PTL DEF Spec

\* Every variable keeps its type: a payment, a term or a signature that a node
\* stores, counts or sends is one that a leader or a node has made.
THEOREM TypeCorrect == Spec => []TypeOK
<1>1. IInv => TypeOK
  BY DEF IInv, TypePart, QueuePart, MemPart, DonePart, SignPart, HandlingPart, CachePart,
         WaitPart, NetPart, WorldPart, TermPart, Sent, TypeOK
<1> QED BY <1>1, Invariance, PTL

\* Blocks record only confirmed payments, in whatever order the nodes learn of the
\* payment, restart, change their terms and validate the leader's transaction.
THEOREM OnlyPaidRecorded == Spec => []LedgerOnlyPaid
<1>1. IInv => LedgerOnlyPaid
  BY DEF IInv, PaidPart
<1> QED BY <1>1, Invariance, PTL

\* A payment is on its chain only if QuorumN nodes have signed this very payment, on
\* ETH approved it: neither results counted before the request (doSave verifies
\* none of them) nor those of an earlier payment of the deposit help it there.
THEOREM QuorumSigns == Spec => []PaidOnlySigned
<1>1. IInv => PaidOnlySigned
  BY DEF IInv, SignedPart
<1> QED BY <1>1, Invariance, PTL

\* Whatever order the handlers of sign requests, results and timeouts run in, a node
\* keeps a deposit it has queued, or whose sign request it has stored, until it is done.
\* The exceptions are the leader's taking it out and one event: SignHandledEvent taking
\* out of the queue a deposit whose request has been given up.
THEOREM DepositsHeld == Spec => []NothingForgotten
<1>1. IInv => NothingForgotten
  BY DEF IInv
<1> QED BY <1>1, Invariance, PTL

-----------------------------------------------------------------------------
(* One payment of a deposit                                                *)

\* The node has signed payment k: the result has gone out, or the request is stored
\* and the result is about to.
HasSigned(n, k) == n \in signers[k] \/ \E o \in signing[n] : o.stored /\ o.newly = k

Signed(n) == \E k \in Newly : HasSigned(n, k)

\* The node has signed payment k, or has decided to.
Claims(n, k) == n \in signers[k] \/ \E o \in signing[n] : o.newly = k

\* A node that has signed drops its sign request before the deposit is done:
\* checkSignTimeout, clearOnFail and the timeout of checkTxOnChain do so.
GivesUp(n) == Signed(n) /\ doneAt[n] = {} /\ req[n] # None /\ req'[n] = None

KeepsRequests == [][\A n \in Node : ~GivesUp(n)]_vars

\* No node lets two payments of the deposit pass baseCheck before it has stored the
\* request of either: HandleSignTx takes no lock that would prevent it.
OneAtATime ==
  \A n \in Node : \A o, p \in signing[n] :
    ~o.stored /\ ~p.stored /\ o.newly # None /\ p.newly # None => o.newly = p.newly

\* A transfer of assets is in no queue: it is created and asked for once.
TransferPart ==
  kind = "transfer" =>
    /\ fresh = {} /\ adding = {} /\ picked = {}
    /\ \A n \in Node : prop[n] = "none" /\ \A m \in requests[n] : m.newly = 1

\* A node signs one payment of a deposit and remembers it, by its request or by the
\* payment itself; of a transfer there is one payment, and on ETH one mint.
OncePart ==
  /\ kind \notin {"eth", "transfer"} =>
       /\ \A n \in Node, j, k \in Newly : Claims(n, j) /\ Claims(n, k) => j = k
       /\ \A n \in Node : Signed(n) => req[n] # None \/ doneAt[n] # {}
  /\ kind = "transfer" => \A n \in Node, k \in Newly : Claims(n, k) => k = 1
  /\ kind = "eth" => \A k \in Newly : chain[k] # "none" => k = 1

\* A node decides to sign: it has no request of the deposit and it is not done.
Decides(n, m) ==
  /\ kind \notin {"eth", "transfer"} => req[n] = None /\ doneAt[n] = {}
  /\ UNCHANGED <<req, signers>>
  /\ \E o \in Signing : /\ ~o.stored /\ o.newly = m.newly
                        /\ signing' = [signing EXCEPT ![n] = @ \cup {o}]

\* The step adds no signature and no decision to sign.
AddsNone ==
  \A p \in Node, k \in Newly :
    /\ p \in signers'[k] => HasSigned(p, k)
    /\ \A o \in signing'[p] : o.newly = k => o \in signing[p]

\* Only a sign request that passes adds a decision to sign, and only SetSignMsg makes
\* it final; what is done stays done.
LEMMA ClaimsStep ==
  ASSUME IInv, [Next]_vars
  PROVE  /\ kind' = kind /\ \A n \in Node : doneAt[n] \subseteq doneAt'[n]
         /\ \/ AddsNone
            \/ \E n \in Node : \E m \in requests[n] : Decides(n, m)
            \/ \E n \in Node : \E o \in signing[n] : SetSignMsg(n, o)
<1> DEFINE Goal == /\ kind' = kind /\ \A n \in Node : doneAt[n] \subseteq doneAt'[n]
                   /\ \/ AddsNone
                      \/ \E n \in Node : \E m \in requests[n] : Decides(n, m)
                      \/ \E n \in Node : \E o \in signing[n] : SetSignMsg(n, o)
<1>0. /\ doneAt \in [Node -> SUBSET Newly] /\ signing \in [Node -> SUBSET Signing]
      /\ signers \in [Newly -> SUBSET Node]
  BY DEF IInv, TypePart, DonePart, HandlingPart, NetPart
<1>1. ASSUME UNCHANGED <<kind, signers>>, \A n \in Node : doneAt[n] \subseteq doneAt'[n],
             \A n \in Node : signing'[n] \subseteq signing[n]
      PROVE  Goal
  BY <1>1 DEF AddsNone, HasSigned
<1>2. ASSUME NEW n \in Node,
             \/ AddWatchedTx(n) \/ AddWatchedInfo(n) \/ AddFresh(n) \/ GetFreshWatchedTxs(n)
             \/ GiveBack(n) \/ CreateTransaction(n) \/ WatchFormerMultisig(n)
      PROVE  Goal
  BY <1>1, <1>2 DEF AddWatchedTx, AddWatchedInfo, AddFresh, GetFreshWatchedTxs, GiveBack,
                    CreateTransaction, WatchFormerMultisig, pools, signs, net, world
<1>3. ASSUME NEW n \in Node,
             \/ DropDoneCache(n) \/ CheckSignTimeout(n) \/ ConfirmTimeout(n) \/ CheckTxOnChain(n)
             \/ CheckApprove(n) \/ DealEthMint(n) \/ DoHeartbeat(n)
      PROVE  Goal
  BY <1>1, <1>3 DEF DropDoneCache, CheckSignTimeout, ConfirmTimeout, CheckTxOnChain, CheckApprove,
                    DealEthMint, DoHeartbeat, pools, signs, net, world
<1>4. ASSUME NEW n \in Node, Lose(n)
      PROVE  Goal
  <2>1. \A p \in Node : signing'[p] \subseteq signing[p]
    BY <1>0, <1>4 DEF Lose
  <2> QED BY <1>1, <1>4, <2>1 DEF Lose
<1>5. ASSUME NEW n \in Node,
             \/ AddProposal(n) \/ ExecuteProposal(n) \/ DeleteProposal(n) \/ Crash(n)
             \/ \E x \in sending[n] : SendTxToChain(n, x)
             \/ \E t \in Term : NewTerm(n, t)
             \/ \E k \in Newly : Commit(n, k)
      PROVE  Goal
  <2>1. CASE Lose(n)
    BY <1>4, <2>1
  <2>2. CASE ~Lose(n)
    BY <1>1, <1>5, <2>2 DEF AddProposal, ExecuteProposal, DeleteProposal, Crash, SendTxToChain,
                            NewTerm, Commit, pools, signs, net, world
  <2> QED BY <2>1, <2>2
<1>6. ASSUME NEW n \in Node, NEW k \in Newly, CleanUpOnNewCommitted(n, k)
      PROVE  Goal
  <2>1. \A p \in Node : doneAt[p] \subseteq doneAt'[p]
    BY <1>0, <1>6 DEF CleanUpOnNewCommitted
  <2> QED BY <1>1, <1>6, <2>1 DEF CleanUpOnNewCommitted, net
<1>7. ASSUME NEW n \in Receivers, NEW r \in results[n], DoSave(n, r)
      PROVE  Goal
  <2>1. CASE Lose(n)
    BY <1>4, <2>1, Constants
  <2>2. CASE ~Lose(n)
    BY <1>1, <1>7, <2>2 DEF DoSave, pools, signs, world
  <2> QED BY <2>1, <2>2
<1>8. ASSUME NEW n \in Node, NEW m \in requests[n], HandleSignTx(n, m)
      PROVE  Goal
  <2>1. UNCHANGED <<kind, doneAt, req, signers>> /\ m \in Request /\ term[n] \in Term
    BY <1>8 DEF HandleSignTx, IInv, TypePart, NetPart, TermPart
  <2>2. CASE signing' = signing
    BY <1>1, <2>1, <2>2
  <2>3. ASSUME NEW signed \in BOOLEAN, Handle(n, m, signed, None)
        PROVE  Goal
    <3>1. \A p \in Node : \A o \in signing'[p] : o.newly # None => o \in signing[p]
      BY <1>0, <2>3 DEF Handle
    <3>2. AddsNone
      BY <2>1, <3>1, Constants DEF AddsNone, HasSigned
    <3> QED BY <2>1, <3>2
  <2>4. ASSUME Handle(n, m, TRUE, m.newly),
               kind \notin {"eth", "transfer"} => req[n] = None /\ doneAt[n] = {}
        PROVE  Goal
    <3> DEFINE o == [req |-> m, term |-> term[n], signed |-> TRUE, newly |-> m.newly,
                     stored |-> FALSE]
    <3>1. o \in Signing /\ ~o.stored /\ o.newly = m.newly
      BY <2>1 DEF Signing, Request
    <3>2. signing' = [signing EXCEPT ![n] = @ \cup {o}]
      BY <2>4 DEF Handle
    <3> HIDE DEF o
    <3>3. Decides(n, m)
      BY <2>1, <2>4, <3>1, <3>2 DEF Decides
    <3> QED BY <2>1, <3>3
  <2>5. \/ signing' = signing
        \/ \E signed \in BOOLEAN : Handle(n, m, signed, None)
        \/ /\ Handle(n, m, TRUE, m.newly)
           /\ kind \notin {"eth", "transfer"} => req[n] = None /\ doneAt[n] = {}
    <3>1. CASE Reject(n, m)
      BY <3>1 DEF Reject
    <3>2. ASSUME NEW fetched \in BOOLEAN, Verdict(n, fetched, "pass")
          PROVE  kind \notin {"eth", "transfer"} => req[n] = None /\ doneAt[n] = {}
      BY <3>2 DEF Verdict, BaseCheck, Settled
    <3>3. Sign(n, m) \/ SignEth(n, m) =>
            \/ signing' = signing \/ Reject(n, m) \/ Handle(n, m, TRUE, None)
            \/ Handle(n, m, TRUE, m.newly)
      BY DEF Sign, SignEth
    <3> QED BY <1>8, <3>1, <3>2, <3>3 DEF HandleSignTx
  <2> QED BY <2>2, <2>3, <2>4, <2>5
<1>9. ASSUME NEW n \in Node, NEW o \in signing[n], SetSignMsg(n, o)
      PROVE  Goal
  BY <1>9 DEF SetSignMsg, world
<1>10. ASSUME NEW n \in Node, NEW o \in signing[n], SignHandledEvent(n, o) \/ SignedTxEvent(n, o)
       PROVE  Goal
  <2>1. UNCHANGED <<kind, doneAt>> /\ \A p \in Node : signing'[p] \subseteq signing[p]
    BY <1>0, <1>10 DEF SignHandledEvent, SignedTxEvent, pools, world
  <2>2. \A p \in Node, k \in Newly : p \in signers'[k] => HasSigned(p, k)
    <3>1. CASE signers' = signers
      BY <3>1 DEF HasSigned
    <3>2. CASE /\ o.stored /\ o.newly # None
               /\ signers' = [signers EXCEPT ![o.newly] = @ \cup {n}]
      <4>1. \A p \in Node, k \in Newly :
              p \in signers'[k] => p \in signers[k] \/ (p = n /\ k = o.newly)
        BY <1>0, <3>2
      <4> QED BY <3>2, <4>1 DEF HasSigned
    <3> QED BY <1>10, <3>1, <3>2 DEF SignHandledEvent, SignedTxEvent, net
  <2> QED BY <2>1, <2>2 DEF AddsNone
<1>11. CASE ChainStep
  BY <1>1, <1>11 DEF ChainStep, pools, signs, net
<1>12. CASE UNCHANGED vars
  BY <1>1, <1>12 DEF vars, pools, signs, net, world
<1> QED BY <1>2, <1>3, <1>5, <1>6, <1>7, <1>8, <1>9, <1>10, <1>11, <1>12 DEF Next

\* Nothing queues a transfer, and no second one is created.
LEMMA TransferStep ==
  ASSUME IInv, TransferPart, [Next]_vars
  PROVE  TransferPart'
<1> SUFFICES ASSUME kind = "transfer"
             PROVE  /\ fresh' = {} /\ adding' = {} /\ picked' = {}
                    /\ \A n \in Node : prop'[n] = "none" /\ \A m \in requests'[n] : m.newly = 1
  BY ClaimsStep DEF TransferPart
<1> DEFINE Goal == /\ fresh' = {} /\ adding' = {} /\ picked' = {}
                   /\ \A n \in Node : prop'[n] = "none" /\ \A m \in requests'[n] : m.newly = 1
<1>0. /\ fresh = {} /\ adding = {} /\ picked = {}
      /\ \A n \in Node : prop[n] = "none" /\ \A m \in requests[n] : m.newly = 1
      /\ requests \in [Node -> SUBSET Request]
      /\ prop \in [Node -> {"none", "new", "dealing", "success", "failed"}]
  BY DEF TransferPart, IInv, TypePart, NetPart, SignPart
<1>1. ASSUME fresh' \subseteq fresh, adding' = adding \/ adding' \subseteq adding,
             picked' \subseteq picked, prop' = prop, requests' = requests
      PROVE  Goal
  BY <1>0, <1>1
<1>2. ASSUME NEW n \in Node,
             \/ AddWatchedTx(n) \/ AddWatchedInfo(n) \/ AddFresh(n) \/ GetFreshWatchedTxs(n)
             \/ GiveBack(n) \/ CreateTransaction(n)
      PROVE  Goal
  BY <1>0, <1>2 DEF AddWatchedTx, AddWatchedInfo, AddFresh, GetFreshWatchedTxs, GiveBack,
                    CreateTransaction, IsDeposit
<1>3. ASSUME NEW n \in Node, WatchFormerMultisig(n)
      PROVE  Goal
  <2>1. /\ requests' = [d \in Node |-> requests[d] \cup {[term |-> term[n], newly |-> 1]}]
        /\ UNCHANGED <<fresh, adding, picked, prop>>
    BY <1>3 DEF WatchFormerMultisig, Broadcast, pools, signs
  <2>2. ASSUME NEW d \in Node, NEW m \in requests'[d] PROVE m.newly = 1
    BY <1>0, <2>1, <2>2
  <2> QED BY <1>0, <2>1, <2>2
<1>4. ASSUME NEW n \in Node, DropDoneCache(n) \/ CheckSignTimeout(n) \/ DoHeartbeat(n)
      PROVE  Goal
  BY <1>0, <1>4 DEF DropDoneCache, CheckSignTimeout, DoHeartbeat, pools, signs, net
<1>5. ASSUME NEW n \in Node, ConfirmTimeout(n) \/ CheckApprove(n)
      PROVE  Goal
  BY <1>0, <1>5 DEF ConfirmTimeout, CheckApprove, ClearOnFail, net
<1>6. ASSUME NEW n \in Node, CheckTxOnChain(n) \/ DealEthMint(n)
      PROVE  Goal
  BY <1>0, <1>6 DEF CheckTxOnChain, DealEthMint, CreateInnerTx, net
<1>7. ASSUME NEW n \in Node, AddProposal(n) \/ ExecuteProposal(n) \/ DeleteProposal(n)
      PROVE  Goal
  BY <1>0, <1>7 DEF AddProposal, ExecuteProposal, DeleteProposal
<1>8. ASSUME NEW n \in Node, Lose(n)
      PROVE  Goal
  BY <1>0, <1>8 DEF Lose
<1>9. ASSUME NEW n \in Node, NEW x \in sending[n], SendTxToChain(n, x)
      PROVE  Goal
  <2>1. CASE Lose(n)
    BY <1>8, <2>1
  <2>2. CASE ~Lose(n)
    BY <1>0, <1>9, <2>2 DEF SendTxToChain, ClearOnFail, net
  <2> QED BY <2>1, <2>2
<1>10. ASSUME NEW n \in Node, \/ \E t \in Term : NewTerm(n, t)
                              \/ \E k \in Newly : Commit(n, k) \/ CleanUpOnNewCommitted(n, k)
       PROVE  Goal
  BY <1>0, <1>10 DEF NewTerm, Commit, CleanUpOnNewCommitted, pools, signs, net
<1>11. ASSUME NEW n \in Receivers, NEW r \in results[n], DoSave(n, r)
       PROVE  Goal
  <2>1. n \in Node
    BY Constants
  <2>2. CASE Lose(n)
    BY <1>8, <2>1, <2>2
  <2>3. CASE ~Lose(n)
    BY <1>0, <1>11, <2>1, <2>3 DEF DoSave, ClearOnFail, pools, signs
  <2> QED BY <2>2, <2>3
<1>12. ASSUME NEW n \in Node, NEW m \in requests[n], HandleSignTx(n, m)
       PROVE  Goal
  <2>1. /\ requests' = [requests EXCEPT ![n] = @ \ {m}] /\ UNCHANGED <<adding, picked, prop>>
    BY <1>12 DEF HandleSignTx
  <2>2. fresh' = fresh
    BY <1>12 DEF HandleSignTx, Verdict
  <2> QED BY <1>0, <2>1, <2>2
<1>13. CASE ChainStep
  BY <1>1, <1>13 DEF ChainStep, pools, signs, net
<1>14. CASE UNCHANGED vars
  BY <1>1, <1>14 DEF vars, pools, signs, net
<1>15. ASSUME NEW n \in Node, NEW o \in signing[n],
              SetSignMsg(n, o) \/ SignHandledEvent(n, o) \/ SignedTxEvent(n, o)
       PROVE  Goal
  BY <1>1, <1>15 DEF SetSignMsg, SignHandledEvent, SignedTxEvent, pools, net
<1> QED BY <1>2, <1>3, <1>4, <1>5, <1>6, <1>7, <1>8, <1>9, <1>10, <1>11, <1>12, <1>13, <1>14,
           <1>15 DEF Next, Crash

\* On ETH only the mint changes the chain.
LEMMA MintStep ==
  ASSUME IInv, [Next]_vars, kind = "eth"
  PROVE  \A k \in Newly : chain'[k] # "none" => chain[k] # "none" \/ k = 1
<1> DEFINE Goal == \A k \in Newly : chain'[k] # "none" => chain[k] # "none" \/ k = 1
<1>0. chain \in [Newly -> {"none", "sent", "seen", "confirmed"}]
  BY DEF IInv, TypePart, WorldPart
<1>1. ASSUME UNCHANGED chain PROVE Goal
  BY <1>1
<1>2. ASSUME NEW n \in Node,
             \/ AddWatchedTx(n) \/ AddWatchedInfo(n) \/ AddFresh(n) \/ GetFreshWatchedTxs(n)
             \/ GiveBack(n) \/ CreateTransaction(n) \/ WatchFormerMultisig(n)
      PROVE  Goal
  BY <1>1, <1>2 DEF AddWatchedTx, AddWatchedInfo, AddFresh, GetFreshWatchedTxs, GiveBack,
                    CreateTransaction, WatchFormerMultisig, world
<1>3. ASSUME NEW n \in Node,
             \/ DropDoneCache(n) \/ CheckSignTimeout(n) \/ ConfirmTimeout(n) \/ CheckTxOnChain(n)
             \/ CheckApprove(n) \/ DealEthMint(n) \/ DoHeartbeat(n)
      PROVE  Goal
  BY <1>1, <1>3 DEF DropDoneCache, CheckSignTimeout, ConfirmTimeout, CheckTxOnChain, CheckApprove,
                    DealEthMint, DoHeartbeat, world
<1>4. ASSUME NEW n \in Node,
             \/ AddProposal(n) \/ ExecuteProposal(n) \/ DeleteProposal(n) \/ Crash(n)
             \/ \E m \in requests[n] : HandleSignTx(n, m)
             \/ \E o \in signing[n] :
                  SetSignMsg(n, o) \/ SignHandledEvent(n, o) \/ SignedTxEvent(n, o)
             \/ \E t \in Term : NewTerm(n, t)
             \/ \E k \in Newly : Commit(n, k) \/ CleanUpOnNewCommitted(n, k)
      PROVE  Goal
  BY <1>1, <1>4 DEF AddProposal, ExecuteProposal, DeleteProposal, Crash, Lose, HandleSignTx,
                    SetSignMsg, SignHandledEvent, SignedTxEvent, NewTerm, Commit,
                    CleanUpOnNewCommitted, world
<1>5. ASSUME NEW n \in Node, NEW x \in sending[n] PROVE FALSE
  BY <1>5 DEF IInv, SignedPart
<1>6. ASSUME NEW n \in Receivers, NEW r \in results[n] PROVE FALSE
  BY <1>6 DEF IInv, SignedPart
<1>7. CASE ChainStep
  BY <1>0, <1>1, <1>7 DEF ChainStep
<1>8. CASE UNCHANGED vars
  BY <1>1, <1>8 DEF vars, world
<1> QED BY <1>2, <1>3, <1>4, <1>5, <1>6, <1>7, <1>8 DEF Next

\* While no signer gives up its request and none decides on two payments at once, no
\* node signs a second payment.
LEMMA OnceStep ==
  ASSUME IInv, TransferPart, OncePart, [Next]_vars, [\A n \in Node : ~GivesUp(n)]_vars,
         OneAtATime'
  PROVE  OncePart'
<1>0. /\ req \in [Node -> Request \cup {None}] /\ signers \in [Newly -> SUBSET Node]
      /\ signing \in [Node -> SUBSET Signing]
      /\ requests \in [Node -> SUBSET Request] /\ None \notin Request
  BY Constants DEF IInv, TypePart, SignPart, NetPart, HandlingPart
<1>1. kind' = kind /\ \A n \in Node : doneAt[n] \subseteq doneAt'[n]
  BY ClaimsStep
<1>2. kind' = "eth" => \A k \in Newly : chain'[k] # "none" => k = 1
  BY <1>1, MintStep DEF OncePart
<1>3. CASE AddsNone
  <2>1. \A p \in Node, k \in Newly :
          (Claims(p, k)' => Claims(p, k)) /\ (HasSigned(p, k)' => HasSigned(p, k))
    BY <1>3 DEF AddsNone, Claims, HasSigned
  <2>2. \A p \in Node : Signed(p)' => Signed(p)
    BY <2>1 DEF Signed
  <2>3. ASSUME kind \notin {"eth", "transfer"}, NEW p \in Node, Signed(p)
        PROVE  req'[p] # None \/ doneAt'[p] # {}
    <3>1. req[p] # None \/ doneAt[p] # {}
      BY <2>3 DEF OncePart
    <3>2. ~GivesUp(p) \/ UNCHANGED req
      BY DEF vars, signs
    <3> QED BY <1>1, <2>3, <3>1, <3>2 DEF GivesUp
  <2> QED BY <1>1, <1>2, <2>1, <2>2, <2>3 DEF OncePart
<1>4. ASSUME NEW n \in Node, NEW m \in requests[n], Decides(n, m)
      PROVE  OncePart'
  <2>1. PICK o \in Signing : /\ ~o.stored /\ o.newly = m.newly
                             /\ signing' = [signing EXCEPT ![n] = @ \cup {o}]
    BY <1>4 DEF Decides
  <2>2. /\ m.newly \in Newly /\ UNCHANGED <<req, signers>>
        /\ \A p \in Node : signing'[p] = IF p = n THEN signing[p] \cup {o} ELSE signing[p]
    <3>1. m \in Request /\ m.newly \in Newly
      BY <1>0 DEF Request
    <3> QED BY <1>0, <1>4, <2>1, <3>1 DEF Decides
  <2>3. \A p \in Node, k \in Newly :
          /\ Claims(p, k)' => Claims(p, k) \/ (p = n /\ k = m.newly)
          /\ HasSigned(p, k)' => HasSigned(p, k)
    BY <2>1, <2>2 DEF Claims, HasSigned
  <2>4. ASSUME kind \notin {"eth", "transfer"}, NEW k \in Newly, Claims(n, k)
        PROVE  k = m.newly
    <3>1. ~Signed(n)
      BY <1>4, <2>4 DEF Decides, OncePart
    <3>2. PICK x \in signing[n] : x.newly = k /\ ~x.stored
      BY <2>4, <3>1 DEF Claims, Signed, HasSigned
    <3>3. x \in signing'[n] /\ o \in signing'[n]
      BY <2>2
    <3>4. x.newly # None /\ o.newly # None
      BY <2>1, <2>2, <3>2, Constants
    <3> QED BY <2>1, <3>2, <3>3, <3>4 DEF OneAtATime
  <2>5. ASSUME kind \notin {"eth", "transfer"}, NEW p \in Node, NEW j \in Newly, NEW k \in Newly,
               Claims(p, j)', Claims(p, k)'
        PROVE  j = k
    <3>1. CASE p = n
      BY <2>3, <2>4, <2>5, <3>1
    <3>2. CASE p # n
      <4>1. Claims(p, j) /\ Claims(p, k)
        BY <2>3, <2>5, <3>2
      <4> QED BY <2>5, <4>1 DEF OncePart
    <3> QED BY <3>1, <3>2
  <2>6. ASSUME kind \notin {"eth", "transfer"}, NEW p \in Node, Signed(p)'
        PROVE  req'[p] # None \/ doneAt'[p] # {}
    <3>1. Signed(p)
      BY <2>3, <2>6 DEF Signed
    <3>2. req[p] # None \/ doneAt[p] # {}
      BY <2>6, <3>1 DEF OncePart
    <3> QED BY <1>1, <2>2, <3>2
  <2>7. kind = "transfer" => \A p \in Node, k \in Newly : Claims(p, k)' => k = 1
    BY <2>3 DEF OncePart, TransferPart
  <2> QED BY <1>1, <1>2, <2>5, <2>6, <2>7 DEF OncePart
<1>5. ASSUME NEW n \in Node, NEW o \in signing[n], SetSignMsg(n, o)
      PROVE  OncePart'
  <2>1. o \in Signing /\ o.req \in Request /\ [o EXCEPT !.stored = TRUE].newly = o.newly
    BY <1>0 DEF Signing
  <2>2. /\ signers' = signers
        /\ \A p \in Node : req'[p] = IF p = n THEN o.req ELSE req[p]
        /\ \A p \in Node \ {n} : signing'[p] = signing[p]
        /\ \A x \in signing'[n] : x \in signing[n] \/ x = [o EXCEPT !.stored = TRUE]
    BY <1>0, <1>5 DEF SetSignMsg, net
  <2>3. \A p \in Node, k \in Newly : Claims(p, k)' => Claims(p, k)
    BY <2>1, <2>2 DEF Claims
  <2>4. ASSUME kind \notin {"eth", "transfer"}, NEW p \in Node, Signed(p)'
        PROVE  req'[p] # None \/ doneAt'[p] # {}
    <3>1. CASE p = n
      BY <1>0, <2>1, <2>2, <3>1
    <3>2. CASE p # n
      <4>1. Signed(p)
        BY <2>2, <2>4, <3>2 DEF Signed, HasSigned
      <4>2. req[p] # None \/ doneAt[p] # {}
        BY <2>4, <4>1 DEF OncePart
      <4> QED BY <1>1, <2>2, <3>2, <4>2
    <3> QED BY <3>1, <3>2
  <2> QED BY <1>1, <1>2, <2>3, <2>4 DEF OncePart
<1> QED BY <1>3, <1>4, <1>5, ClaimsStep

\* Two quorums have a node in common.
LEMMA QuorumsShare ==
  ASSUME NEW S \in SUBSET Node, NEW T \in SUBSET Node,
         Cardinality(S) >= QuorumN, Cardinality(T) >= QuorumN
  PROVE  \E n \in Node : n \in S /\ n \in T
<1>1. Cardinality(Node) = N
  <2>1. Cardinality(0..N-1) = N
    BY PaymentsAssumption, FS_Interval
  <2> QED BY <2>1 DEF Node
<1>2. 2 * QuorumN > N
  BY PaymentsAssumption DEF QuorumN, F
<1>3. /\ IsFiniteSet(S) /\ IsFiniteSet(T) /\ IsFiniteSet(S \cup T)
      /\ Cardinality(S \cup T) <= Cardinality(Node)
  <2>1. S \cup T \in SUBSET Node
    OBVIOUS
  <2> QED BY <2>1, QuorumSize, FS_Subset
<1>4. Cardinality(S \cup T) = Cardinality(S) + Cardinality(T) - Cardinality(S \cap T)
  BY <1>3, FS_Union
<1>5. Cardinality({}) = 0
  BY FS_EmptySet
<1>6. Cardinality(S) \in Nat /\ Cardinality(T) \in Nat /\ Cardinality(S \cup T) \in Nat
  BY <1>3, FS_CardinalityType
<1>7. ASSUME S \cap T = {} PROVE FALSE
  <2>1. Cardinality(S \cup T) = Cardinality(S) + Cardinality(T)
    <3>1. Cardinality(S \cap T) = 0
      BY <1>5, <1>7
    <3> QED BY <1>4, <1>6, <3>1
  <2> QED BY <1>1, <1>2, <1>3, <1>6, <2>1, QuorumSize, PaymentsAssumption
<1> QED BY <1>7

\* Two payments on the chain would have a signer in common.
LEMMA OncePaid ==
  ASSUME IInv, OncePart
  PROVE  NoDoublePayment
<1> DEFINE paid == {k \in Newly : chain[k] = "confirmed"}
<1>1. ASSUME NEW j \in paid, NEW k \in paid PROVE j = k
  <2>1. CASE kind = "eth"
    BY <1>1, <2>1 DEF OncePart
  <2>2. CASE kind # "eth"
    <3>1. /\ signers[j] \in SUBSET Node /\ signers[k] \in SUBSET Node
      BY <1>1 DEF IInv, TypePart, NetPart
    <3>2. Cardinality(signers[j]) >= QuorumN /\ Cardinality(signers[k]) >= QuorumN
      BY <1>1, <2>2 DEF IInv, SignedPart, PaidOnlySigned
    <3>3. PICK n \in Node : n \in signers[j] /\ n \in signers[k]
      BY <3>1, <3>2, QuorumsShare
    <3>4. Claims(n, j) /\ Claims(n, k)
      BY <3>3 DEF Claims
    <3> QED BY <1>1, <2>2, <3>4 DEF OncePart
  <2> QED BY <2>1, <2>2
<1>2. Cardinality(paid) <= 1
  <2>1. CASE paid = {}
    <3>1. Cardinality({}) = 0
      BY FS_EmptySet
    <3> QED BY <2>1, <3>1
  <2>2. CASE paid # {}
    <3>1. PICK k \in paid : TRUE
      BY <2>2
    <3>2. paid = {k}
      BY <1>1, <3>1
    <3>3. Cardinality({k}) = 1
      BY FS_Singleton
    <3> HIDE DEF paid
    <3> QED BY <3>2, <3>3
  <2> QED BY <2>1, <2>2
<1> QED BY <1>2 DEF NoDoublePayment

\* A deposit is paid at most once under two conditions: no node that has signed a
\* payment of it drops its sign request before the deposit is done, and none lets two
\* payments pass baseCheck before it has stored the request of either.  baseCheck then
\* refuses a second request of a node that still has the first, and a second payment
\* needs a node of the first one's quorum.  Lost, late and reordered results, changes
\* of term and crashes at any point do not matter.  The code ensures neither condition:
\* checkSignTimeout and checkTxOnChain give up requests of a payment that is on its
\* way (the run payments_double), and HandleSignTx takes no lock.
THEOREM PaidOnce == Spec /\ KeepsRequests /\ []OneAtATime => []NoDoublePayment
<1>1. Init => TransferPart /\ OncePart
  BY DEF Init, TransferPart, OncePart, Signed, HasSigned, Claims
<1>2. ASSUME IInv, TransferPart, OncePart, [Next]_vars, [\A n \in Node : ~GivesUp(n)]_vars,
             OneAtATime'
      PROVE  TransferPart' /\ OncePart'
  BY <1>2, TransferStep, OnceStep
<1>3. IInv /\ OncePart => NoDoublePayment
  BY OncePaid
<1>4. Spec => []IInv
  BY Invariance
<1> QED BY <1>1, <1>2, <1>3, <1>4, PTL DEF Spec, KeepsRequests
=============================================================================

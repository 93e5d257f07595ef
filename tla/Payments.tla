------------------------------ MODULE Payments ------------------------------
(***************************************************************************)
(* The way of one deposit through the gateway: every node's TxStore, the   *)
(* sign request of the leader, the signed results, the payment sent to the *)
(* target chain, the watch for its confirmation and the block that records *)
(* it.  The maps of the code are keyed by the id of the deposit, so one    *)
(* deposit stands for each of them; kind says which of the code's paths it *)
(* takes.  A payment (NewlyTx) is a number, one for each time a leader     *)
(* creates one; the chains are external and accept a payment at any later  *)
(* time.  How terms change and blocks are agreed on is the subject of      *)
(* Braft; here a term changes and a valid block commits at any time.       *)
(***************************************************************************)
EXTENDS Integers, FiniteSets

CONSTANTS
  N,          \* cluster size
  MaxTerm,    \* bound: terms are 0..MaxTerm
  MaxNewly,   \* bound: payments that leaders create
  MaxCrash,   \* bound: crashes
  MaxEvents,  \* bound: payments created and crashes together
  MaxSigning, \* bound: nodes that are handling requests at a time
  Receivers,  \* the nodes that receive signed results; to others they are lost
  Watchers,   \* the nodes whose own watcher sees the deposit; others fetch it
  Kinds,      \* the kinds of deposit to look at
  Faults,     \* what may fail: "fetch", "check", "sign", "keystore", "create", "send"
  None        \* nil

Node == 0..N-1
Term == 0..MaxTerm
Newly == 1..MaxNewly
F == (N - 1) \div 3
QuorumN == N - F
AccuseQuorumN == F + 1

Request == [term : Term, newly : Newly]
Signature == [node : Node, newly : Newly \cup {None}]
Result == [node : Node, term : Term, signed : BOOLEAN, newly : Newly \cup {None}]
Cache == [sigs : SUBSET Signature, err : Nat, done : BOOLEAN]
Waiting == [newly : Newly \cup {None}, inMem : BOOLEAN]
Signing == [req : Request, term : Term, signed : BOOLEAN, newly : Newly \cup {None},
            stored : BOOLEAN]

ASSUME PaymentsAssumption ==
  /\ N \in Nat \ {0} /\ MaxTerm \in Nat /\ MaxNewly \in Nat \ {0} /\ MaxCrash \in Nat
  /\ MaxEvents \in Nat /\ MaxSigning \in Nat
  /\ Receivers \subseteq Node /\ Watchers \subseteq Node
  /\ Faults \subseteq {"fetch", "check", "sign", "keystore", "create", "send"}
  /\ Kinds \subseteq {"coin", "xin", "eos", "eth", "transfer", "distribution"}
  /\ None \notin Int /\ None \notin Request /\ None \notin Cache /\ None \notin Waiting

VARIABLES
  kind,
  term, currTerm,   \* the node's term, and the one TxStore knows of
  watched, fresh,   \* the nodes with the deposit in watchedTxInfo, freshWatchedTxInfo
  adding,           \* nodes with a goroutine that sends it to addFreshChan
  picked,           \* nodes whose createTransaction holds it
  mem,              \* txInfoById: the payment of the inner transaction
  doneAt,           \* the payments a node has marked in its database
  req, failed,      \* the sign request and the failed terms, in the database
  signing,          \* requests that a node has decided on and not yet answered
  cache,            \* signedResultCache
  sending,          \* payments being sent, with the chosen signatures
  waiting,          \* waitingConfirmTxs
  prop,             \* status of the distribution proposal, in the database
  requests, results,  \* messages under way to each node
  created,          \* payments created so far
  chain,            \* external: what has become of each payment
  approve,          \* external: the node's approve transaction on ETH
  ledger, unmarked, \* payments in committed blocks; those not yet marked by a node
  crashes,
  owed,             \* history: nodes that queued the deposit and have not given it up
  signers           \* history: the nodes whose signature of a payment has gone out

pools == <<watched, fresh, adding, picked, mem, doneAt, owed>>
signs == <<req, failed, signing, cache, sending, waiting, prop>>
net == <<requests, results, signers>>
world == <<kind, created, chain, approve, ledger, unmarked, crashes>>
terms == <<term, currTerm>>
vars == <<pools, signs, net, world, terms>>

TypeOK ==
  /\ kind \in Kinds
  /\ term \in [Node -> Term] /\ currTerm \in [Node -> Term]
  /\ {watched, fresh, adding, picked, owed} \subseteq SUBSET Node
  /\ mem \in [Node -> Newly \cup {None}]
  /\ doneAt \in [Node -> SUBSET Newly] /\ unmarked \in [Node -> SUBSET Newly]
  /\ req \in [Node -> Request \cup {None}] /\ failed \in [Node -> SUBSET Term]
  /\ signing \in [Node -> SUBSET Signing] /\ cache \in [Node -> Cache \cup {None}]
  /\ sending \in [Node -> SUBSET [term : Term, newly : Newly, sigs : SUBSET Signature]]
  /\ waiting \in [Node -> Waiting \cup {None}]
  /\ prop \in [Node -> {"none", "new", "dealing", "success", "failed"}]
  /\ requests \in [Node -> SUBSET Request] /\ results \in [Receivers -> SUBSET Result]
  /\ signers \in [Newly -> SUBSET Node]
  /\ created \in 0..MaxNewly /\ chain \in [Newly -> {"none", "sent", "seen", "confirmed"}]
  /\ approve \in [Node -> {"none", "sent", "ok", "failed"}]
  /\ ledger \subseteq Newly /\ crashes \in 0..MaxCrash

Init ==
  /\ kind \in Kinds
  /\ term = [n \in Node |-> 0] /\ currTerm = term
  /\ watched = {} /\ fresh = {} /\ adding = {} /\ picked = {} /\ owed = {}
  /\ mem = [n \in Node |-> None]
  /\ doneAt = [n \in Node |-> {}] /\ unmarked = doneAt /\ failed = doneAt /\ sending = doneAt
  /\ signing = doneAt
  /\ req = mem /\ cache = mem /\ waiting = mem
  /\ prop = [n \in Node |-> "none"]
  /\ requests = [n \in Node |-> {}] /\ results = [n \in Receivers |-> {}]
  /\ signers = [k \in Newly |-> {}]
  /\ created = 0 /\ chain = [k \in Newly |-> "none"]
  /\ approve = [n \in Node |-> "none"]
  /\ ledger = {} /\ crashes = 0

InCharge(n) == term[n] % N = n
IsDeposit == kind \notin {"transfer", "distribution"}
Settled(n) == mem[n] # None \/ doneAt[n] # {}  \* HasTxInMemPool or HasTxInDB

-----------------------------------------------------------------------------
(* TxStore                                                                 *)

\* The case of Run for addWatchedTxChan.
EnterPools(n) ==
  /\ watched' = watched \cup {n}
  /\ IF n \in watched \/ kind = "distribution"
       THEN UNCHANGED <<fresh, owed>>
       ELSE fresh' = fresh \cup {n} /\ owed' = owed \cup {n}

\* A watcher pushes the deposit: watchNewTx, dealEthEvent, dealXINEvent, dealEOSEvent.
AddWatchedTx(n) ==
  /\ IsDeposit /\ n \in Watchers \ watched
  /\ EnterPools(n)
  /\ UNCHANGED <<adding, picked, mem, doneAt, signs, net, world, terms>>

\* An operator adds it by hand, to be validated against but not to be queued.
AddWatchedInfo(n) ==
  /\ IsDeposit /\ n \notin watched /\ doneAt[n] = {}
  /\ watched' = watched \cup {n}
  /\ UNCHANGED <<fresh, adding, picked, mem, doneAt, owed, signs, net, world, terms>>

\* AddFreshWatchedTx tests the pool and the database, then queues the deposit
\* from a goroutine of its own.
AfterAddFreshWatchedTx(n) == IF Settled(n) THEN adding ELSE adding \cup {n}

AddFresh(n) ==
  /\ n \in adding
  /\ adding' = adding \ {n} /\ fresh' = fresh \cup {n}
  /\ owed' = owed \cup {n}
  /\ UNCHANGED <<watched, picked, mem, doneAt, signs, net, world, terms>>

GetFreshWatchedTxs(n) ==
  /\ InCharge(n) /\ n \in fresh
  /\ ~(currTerm[n] \in failed[n] /\ kind # "distribution")
  /\ fresh' = fresh \ {n}
  /\ picked' = IF Settled(n) THEN picked ELSE picked \cup {n}
  /\ UNCHANGED <<watched, adding, mem, doneAt, owed, signs, net, world, terms>>

\* What CreateInnerTx and addTxs leave of the pools, for payment k.
CreateInnerTx(n, k) ==
  IF req[n] = None
    THEN UNCHANGED <<watched, fresh, mem>>
    ELSE /\ watched' = watched \ {n} /\ fresh' = fresh \ {n}
         /\ mem' = IF mem[n] = None /\ k \notin doneAt[n] THEN [mem EXCEPT ![n] = k] ELSE mem

\* NewCommittedEvent: onNewBlockCommitted of the node and of TxStore.
CleanUpOnNewCommitted(n, k) ==
  /\ k \in unmarked[n]
  /\ unmarked' = [unmarked EXCEPT ![n] = @ \ {k}]
  /\ waiting' = [waiting EXCEPT ![n] = None]
  /\ doneAt' = [doneAt EXCEPT ![n] = @ \cup {k}]
  /\ mem' = [mem EXCEPT ![n] = None]
  /\ watched' = watched \ {n} /\ fresh' = fresh \ {n}
  /\ UNCHANGED <<adding, picked, owed, req, failed, signing, cache, sending, prop, net,
                 kind, created, chain, approve, ledger, crashes, terms>>

\* An overdue deposit that is done is dropped; the others make the node accuse.
DoHeartbeat(n) ==
  /\ doneAt[n] # {}
  /\ IF mem[n] # None
       THEN mem' = [mem EXCEPT ![n] = None] /\ UNCHANGED <<watched, fresh>>
       ELSE n \in fresh /\ watched' = watched \ {n} /\ fresh' = fresh \ {n} /\ UNCHANGED mem
  /\ UNCHANGED <<adding, picked, doneAt, owed, signs, net, world, terms>>

-----------------------------------------------------------------------------
(* The leader                                                              *)

Broadcast(m) == requests' = [n \in Node |-> requests[n] \cup {m}]

\* The payment could not be created, or the node is not in charge any more.
GiveBack(n) ==
  /\ n \in picked /\ ("create" \in Faults \/ ~InCharge(n))
  /\ picked' = picked \ {n}
  /\ adding' = IF InCharge(n) /\ kind = "distribution" THEN adding ELSE AfterAddFreshWatchedTx(n)
  /\ UNCHANGED <<watched, fresh, mem, doneAt, owed, signs, net, world, terms>>

\* createBtcTx, createEthInput, createXINTx, createEOSTx: ETH input is the same
\* bytes every time, any other payment is a new one.
NewlyTx == IF kind = "eth" THEN 1 ELSE created + 1

\* When the keystore does not sign the request, the deposit is dropped.
CreateTransaction(n) ==
  /\ n \in picked /\ InCharge(n) /\ created < MaxNewly /\ created + crashes < MaxEvents
  /\ picked' = picked \ {n} /\ owed' = owed \ {n}
  /\ created' = created + 1
  /\ \/ Broadcast([term |-> term[n], newly |-> NewlyTx])
     \/ "keystore" \in Faults /\ UNCHANGED requests
  /\ UNCHANGED <<watched, fresh, adding, mem, doneAt, signs, results, signers, kind, chain,
                 approve, ledger, unmarked, crashes, terms>>

\* Assets of a former multisig address move to the present one; every transfer
\* has an id of its own.
WatchFormerMultisig(n) ==
  /\ kind = "transfer" /\ InCharge(n) /\ created = 0
  /\ created' = 1
  /\ Broadcast([term |-> term[n], newly |-> 1])
  /\ UNCHANGED <<pools, signs, results, signers, kind, chain, approve, ledger, unmarked, crashes,
                 terms>>

-----------------------------------------------------------------------------
(* The sign request at a node                                              *)

\* validateWatchedTx: fetched says that the deposit was not known and was read
\* from its chain; a proposal of another node is on no chain.
ValidateWatchedTx(n, fetched) ==
  IF fetched THEN n \notin watched /\ kind # "distribution" ELSE n \in watched

\* The verdict of baseCheck on a deposit that is valid.
BaseCheck(n) == IF Settled(n) \/ req[n] # None THEN "already" ELSE "pass"

\* validateTransferSignTx and what the others check after baseCheck: outputs
\* that are not those of the deposit, or a price that has expired, are wrong.
CheckOutputs(v) == v = "pass" \/ (v = "wrong" /\ "check" \in Faults)

\* validateBtcSignTx, validateEthSignTx, validateXINSignTx, validateEOSSignTx.
Verdict(n, fetched, v) ==
  \/ kind = "transfer" /\ ~fetched /\ CheckOutputs(v)
  \/ /\ kind # "transfer" /\ n \notin watched /\ ~fetched /\ v = "wrong"
     /\ kind = "distribution" \/ "fetch" \in Faults
  \/ /\ kind # "transfer" /\ ValidateWatchedTx(n, fetched)
     /\ IF BaseCheck(n) = "pass" THEN CheckOutputs(v) ELSE v = BaseCheck(n)

\* The node has decided what to answer to request m.
Handle(n, m, signed, newly) ==
  signing' = [signing EXCEPT ![n] = @ \cup
    {[req |-> m, term |-> term[n], signed |-> signed, newly |-> newly, stored |-> FALSE]}]

Reject(n, m) == Handle(n, m, FALSE, None)

\* The payment is signed: on failure a coin request is rejected, a XIN result
\* goes out empty, an EOS request is left as if it had not come.
Sign(n, m) ==
  \/ Handle(n, m, TRUE, m.newly)
  \/ /\ "sign" \in Faults
     /\ \/ kind \in {"coin", "transfer", "distribution"} /\ Reject(n, m)
        \/ kind = "xin" /\ Handle(n, m, TRUE, None)
        \/ kind = "eos" /\ UNCHANGED signing

\* On ETH every node sends its own approve transaction, again unless it is on chain.
SignEth(n, m) ==
  \/ "send" \in Faults /\ Reject(n, m) /\ UNCHANGED approve
  \/ /\ Handle(n, m, TRUE, m.newly)
     /\ approve' = IF approve[n] = "ok" THEN approve ELSE [approve EXCEPT ![n] = "sent"]

\* No lock is held from here to the answer: other requests of the deposit, results
\* and timeouts come in between.
HandleSignTx(n, m) ==
  /\ m \in requests[n]
  /\ Cardinality({p \in Node : p = n \/ signing[p] # {}}) <= MaxSigning
  /\ requests' = [requests EXCEPT ![n] = @ \ {m}]
  /\ \/ m.term < term[n] /\ UNCHANGED <<watched, fresh, owed, signing, approve>>
     \/ /\ m.term > term[n]
        /\ IF kind \in {"eos", "eth"} THEN UNCHANGED signing ELSE Reject(n, m)
        /\ UNCHANGED <<watched, fresh, owed, approve>>
     \/ /\ m.term = term[n]
        /\ \E fetched \in BOOLEAN, v \in {"pass", "wrong", "already"} :
             /\ Verdict(n, fetched, v)
             /\ IF fetched THEN EnterPools(n) ELSE UNCHANGED <<watched, fresh, owed>>
             /\ \/ v # "pass" /\ Reject(n, m) /\ UNCHANGED approve
                \/ v = "pass" /\ kind = "eth" /\ SignEth(n, m)
                \/ v = "pass" /\ kind # "eth" /\ Sign(n, m) /\ UNCHANGED approve
  /\ UNCHANGED <<adding, picked, mem, doneAt, req, failed, cache, sending, waiting, prop, results,
                 signers, kind, created, chain, ledger, unmarked, crashes, terms>>

\* SetSignMsg, on ETH after DeleteFresh.  No event follows when the approve
\* transaction was not sent, or the keystore does not sign the result.
SetSignMsg(n, o) ==
  /\ o \in signing[n] /\ ~o.stored
  /\ req' = [req EXCEPT ![n] = o.req] /\ owed' = owed \cup {n}
  /\ fresh' = IF kind = "eth" /\ o.newly # None THEN fresh \ {n} ELSE fresh
  /\ \/ /\ kind = "eth" => o.newly # None
        /\ signing' = [signing EXCEPT ![n] = (@ \ {o}) \cup {[o EXCEPT !.stored = TRUE]}]
     \/ /\ IF kind = "eth" THEN o.newly = None ELSE "keystore" \in Faults
        /\ signing' = [signing EXCEPT ![n] = @ \ {o}]
  /\ UNCHANGED <<watched, adding, picked, mem, doneAt, failed, cache, sending, waiting,
                 prop, net, world, terms>>

\* SignHandledEvent takes the deposit out of the queue, whatever has become of the
\* request meanwhile, and broadcasts the result.
SignHandledEvent(n, o) ==
  /\ kind # "eth" /\ o \in signing[n] /\ o.stored
  /\ signing' = [signing EXCEPT ![n] = @ \ {o}]
  /\ fresh' = fresh \ {n}
  /\ owed' = IF n \in fresh /\ req[n] = None THEN owed \ {n} ELSE owed
  /\ results' = [d \in Receivers |-> results[d] \cup
       {[node |-> n, term |-> o.term, signed |-> o.signed, newly |-> o.newly]}]
  /\ signers' = IF o.newly = None THEN signers ELSE [signers EXCEPT ![o.newly] = @ \cup {n}]
  /\ UNCHANGED <<watched, adding, picked, mem, doneAt, req, failed, cache, sending, waiting,
                 prop, requests, world, terms>>

\* SignedTxEvent on ETH: the node waits for its approve transaction.
SignedTxEvent(n, o) ==
  /\ kind = "eth" /\ o \in signing[n] /\ o.stored
  /\ signing' = [signing EXCEPT ![n] = @ \ {o}]
  /\ waiting' = [waiting EXCEPT ![n] = [newly |-> o.newly, inMem |-> FALSE]]
  /\ UNCHANGED <<pools, req, failed, cache, sending, prop, net, world, terms>>

-----------------------------------------------------------------------------
(* The signed results                                                      *)

SetStatus(n, status) == IF prop[n] = "none" THEN prop ELSE [prop EXCEPT ![n] = status]

\* clearOnFail for a request of term t.
ClearOnFail(n, t, inWaiting) ==
  /\ failed' = [failed EXCEPT ![n] = @ \cup {t}]
  /\ cache' = [cache EXCEPT ![n] = None]
  /\ IF kind = "transfer" \/ inWaiting
       THEN watched' = watched \ {n} /\ UNCHANGED <<req, prop, adding>>
       ELSE /\ req' = [req EXCEPT ![n] = None]
            /\ IF kind = "distribution"
                 THEN prop' = SetStatus(n, "failed") /\ UNCHANGED adding
                 ELSE adding' = AfterAddFreshWatchedTx(n) /\ UNCHANGED prop
            /\ UNCHANGED watched

\* What a node that stops has lost when it runs again; a proposal that was being
\* dealt with is taken for failed, and watched again (LoadFromDB).
Lose(n) ==
  /\ crashes < MaxCrash /\ created + crashes < MaxEvents /\ crashes' = crashes + 1
  /\ fresh' = fresh \ {n} /\ adding' = adding \ {n} /\ picked' = picked \ {n}
  /\ owed' = owed \ {n}
  /\ watched' = IF prop[n] \in {"none", "success"} THEN watched \ {n} ELSE watched \cup {n}
  /\ prop' = IF prop[n] = "dealing" THEN [prop EXCEPT ![n] = "failed"] ELSE prop
  /\ mem' = [mem EXCEPT ![n] = None] /\ cache' = [cache EXCEPT ![n] = None]
  /\ signing' = [signing EXCEPT ![n] = {}]
  /\ waiting' = [waiting EXCEPT ![n] = None] /\ sending' = [sending EXCEPT ![n] = {}]
  /\ unmarked' = [unmarked EXCEPT ![n] = {}]
  /\ currTerm' = [currTerm EXCEPT ![n] = 0]
  /\ UNCHANGED <<doneAt, req, failed, requests, signers, kind, created, chain, approve, ledger,
                 term>>

EmptyCache == [sigs |-> {}, err |-> 0, done |-> FALSE]
CacheOf(n) == IF cache[n] = None THEN EmptyCache ELSE cache[n]

\* The cache with result r counted; before the request is here nothing is verified.
Counted(n, r) ==
  IF r.signed /\ (req[n] = None \/ r.newly = req[n].newly)
    THEN [CacheOf(n) EXCEPT !.sigs = @ \cup {[node |-> r.node, newly |-> r.newly]}]
    ELSE [CacheOf(n) EXCEPT !.err = @ + 1]

\* The signatures merged: the first QuorumN in the order of the nodes.
Chosen(sigs) == {s \in sigs : Cardinality({x \in sigs : x.node < s.node}) < QuorumN}

Refused(n, r) == r.term \in failed[n] \/ \E s \in CacheOf(n).sigs : s.node = r.node

\* verifySign indexes the signature of a XIN result, also when there is none.
Panics(n, r) == req[n] # None /\ kind = "xin" /\ r.signed /\ r.newly = None

\* Mutant of Ready: as many signatures as it takes to accuse.
ReadyEarly(c) == Cardinality(c.sigs) >= AccuseQuorumN /\ ~c.done

Ready(c) == Cardinality(c.sigs) >= QuorumN /\ ~c.done

DoSave(n, r) ==
  LET c == Counted(n, r) IN
  /\ r \in results[n]
  /\ results' = [results EXCEPT ![n] = @ \ {r}]
  /\ \/ Refused(n, r) /\ UNCHANGED <<pools, signs, requests, signers, world, terms>>
     \/ ~Refused(n, r) /\ Panics(n, r) /\ Lose(n)
     \/ /\ ~Refused(n, r) /\ ~Panics(n, r)
        /\ req[n] = None \/ (~Ready(c) /\ c.err <= AccuseQuorumN)
        /\ cache' = [cache EXCEPT ![n] = c]
        /\ UNCHANGED <<pools, req, failed, signing, sending, waiting, prop, requests, signers,
                       world, terms>>
     \/ /\ ~Refused(n, r) /\ ~Panics(n, r) /\ req[n] # None /\ Ready(c)
        /\ cache' = [cache EXCEPT ![n] = [c EXCEPT !.done = TRUE]]
        /\ sending' = [sending EXCEPT ![n] = @ \cup
             {[term |-> req[n].term, newly |-> req[n].newly, sigs |-> Chosen(c.sigs)]}]
        /\ UNCHANGED <<pools, req, failed, signing, waiting, prop, requests, signers, world, terms>>
     \/ /\ ~Refused(n, r) /\ ~Panics(n, r) /\ req[n] # None /\ ~Ready(c) /\ c.err > AccuseQuorumN
        /\ ClearOnFail(n, req[n].term, waiting[n] # None)
        /\ UNCHANGED <<fresh, picked, mem, doneAt, owed, signing, sending, waiting,
                       requests, signers, world, terms>>

\* sendTxToChain with SignedTxEvent: also a payment that could not be merged
\* or sent is waited for.  Signatures of another payment do not merge.
SendTxToChain(n, x) ==
  LET good == \A s \in x.sigs : s.newly = x.newly
      wait(k) == waiting' = [waiting EXCEPT ![n] = [newly |-> k, inMem |-> FALSE]]
  IN
  /\ x \in sending[n]
  /\ \/ /\ \E s \in x.sigs : s.newly = None
        /\ Lose(n) /\ UNCHANGED results
     \/ /\ \A s \in x.sigs : s.newly # None
        /\ sending' = [sending EXCEPT ![n] = @ \ {x}]
        /\ \/ /\ ~good
              /\ ClearOnFail(n, x.term, waiting[n] # None)
              /\ wait(IF kind \in {"xin", "eos"} THEN None ELSE x.newly)
              /\ UNCHANGED chain
           \/ /\ good /\ wait(x.newly)
              /\ \/ chain' = [chain EXCEPT ![x.newly] = IF @ = "none" THEN "sent" ELSE @]
                 \/ "send" \in Faults /\ UNCHANGED chain
              /\ UNCHANGED <<failed, cache, watched, req, prop, adding>>
        /\ UNCHANGED <<fresh, picked, mem, doneAt, owed, signing, net,
                       kind, created, approve, ledger, unmarked, crashes, terms>>

\* cacheTimeout after the payment has been sent.
DropDoneCache(n) ==
  /\ cache[n] # None /\ cache[n].done
  /\ cache' = [cache EXCEPT ![n] = None]
  /\ UNCHANGED <<pools, req, failed, signing, sending, waiting, prop, net, world, terms>>

\* Mutant of CheckSignTimeout: the deposit is not queued again.
CheckSignTimeoutDrop(n) ==
  /\ cache[n] # None /\ ~cache[n].done
  /\ cache' = [cache EXCEPT ![n] = None]
  /\ req' = IF waiting[n] = None THEN [req EXCEPT ![n] = None] ELSE req
  /\ UNCHANGED <<pools, failed, signing, sending, waiting, prop, net, world, terms>>

\* signTimeout after the first result.
CheckSignTimeout(n) ==
  /\ cache[n] # None /\ ~cache[n].done
  /\ cache' = [cache EXCEPT ![n] = None]
  /\ IF req[n] = None \/ (kind # "transfer" /\ waiting[n] # None)
       THEN UNCHANGED <<req, adding, watched>>
       ELSE /\ req' = [req EXCEPT ![n] = None]
            /\ IF kind = "transfer"
                 THEN watched' = watched \ {n} /\ UNCHANGED adding
                 ELSE adding' = AfterAddFreshWatchedTx(n) /\ UNCHANGED watched
  /\ UNCHANGED <<fresh, picked, mem, doneAt, owed, failed, signing, sending, waiting, prop,
                 net, world, terms>>

-----------------------------------------------------------------------------
(* The watch for the payment                                               *)

\* checkTxOnChain: the payment has not been seen for ConfirmTolerance.
ConfirmTimeout(n) ==
  /\ waiting[n] # None /\ ~waiting[n].inMem
  /\ waiting' = [waiting EXCEPT ![n] = None]
  /\ IF req[n] = None
       THEN UNCHANGED <<failed, cache, watched, req, prop, adding>>
       ELSE ClearOnFail(n, req[n].term, FALSE)
  /\ UNCHANGED <<fresh, picked, mem, doneAt, owed, signing, sending, net, world, terms>>

\* Mutant of CheckTxOnChain: the confirmations are not counted.
CheckTxOnChainEarly(n) ==
  /\ waiting[n] # None /\ kind # "eth" /\ waiting[n].newly # None
  /\ chain[waiting[n].newly] \in {"seen", "confirmed"}
  /\ waiting' = [waiting EXCEPT ![n] = None]
  /\ CreateInnerTx(n, waiting[n].newly)
  /\ UNCHANGED <<adding, picked, doneAt, owed, req, failed, signing, cache, sending, prop,
                 net, world, terms>>

\* checkTxOnChain for BTC, BCH, XIN and EOS: the chain knows the payment.
CheckTxOnChain(n) ==
  /\ waiting[n] # None /\ kind # "eth" /\ waiting[n].newly # None
  /\ LET k == waiting[n].newly IN
     \/ /\ chain[k] = "seen" /\ waiting' = [waiting EXCEPT ![n].inMem = TRUE]
        /\ UNCHANGED <<watched, fresh, mem, prop>>
     \/ /\ chain[k] = "confirmed" /\ waiting' = [waiting EXCEPT ![n] = None]
        /\ CreateInnerTx(n, k)
        /\ prop' = IF kind = "distribution" THEN SetStatus(n, "success") ELSE prop
  /\ UNCHANGED <<adding, picked, doneAt, owed, req, failed, signing, cache, sending, net,
                 world, terms>>

\* checkTxOnChain for ETH, about the node's own approve transaction.
CheckApprove(n) ==
  /\ waiting[n] # None /\ kind = "eth"
  /\ \/ /\ approve[n] = "ok" /\ waiting' = [waiting EXCEPT ![n].inMem = TRUE]
        /\ UNCHANGED <<failed, cache, watched, req, prop, adding>>
     \/ /\ approve[n] = "failed" /\ waiting' = [waiting EXCEPT ![n] = None]
        /\ IF req[n] = None
             THEN UNCHANGED <<failed, cache, watched, req, prop, adding>>
             ELSE ClearOnFail(n, req[n].term, FALSE)
  /\ UNCHANGED <<fresh, picked, mem, doneAt, owed, signing, sending, net, world, terms>>

\* dealEthEvent: the contract has minted.
DealEthMint(n) ==
  /\ kind = "eth" /\ chain[1] = "confirmed"
  /\ CreateInnerTx(n, 1)
  /\ waiting' = [waiting EXCEPT ![n] = None]
  /\ UNCHANGED <<adding, picked, doneAt, owed, req, failed, signing, cache, sending, prop,
                 net, world, terms>>

\* External: payments spread and confirm; the contract mints once QuorumN approve.
ChainStep ==
  /\ \/ /\ kind # "eth" /\ UNCHANGED approve
        /\ \E k \in Newly :
             \/ chain[k] = "sent" /\ chain' = [chain EXCEPT ![k] = "seen"]
             \/ chain[k] = "seen" /\ chain' = [chain EXCEPT ![k] = "confirmed"]
     \/ /\ kind = "eth" /\ UNCHANGED chain
        /\ \E n \in Node, s \in {"ok", "failed"} :
             approve[n] = "sent" /\ approve' = [approve EXCEPT ![n] = s]
     \/ /\ kind = "eth" /\ UNCHANGED approve
        /\ chain[1] = "none" /\ Cardinality({n \in Node : approve[n] = "ok"}) >= QuorumN
        /\ chain' = [chain EXCEPT ![1] = "confirmed"]
  /\ UNCHANGED <<pools, signs, net, kind, created, ledger, unmarked, crashes, terms>>

-----------------------------------------------------------------------------
(* Blocks, terms, proposals, crashes                                       *)

\* validateTxs: the payment is in the pool, or watched and found on its chain.
Validates(n, k) ==
  \/ mem[n] = k
  \/ mem[n] = None /\ n \in watched /\ chain[k] \in {"seen", "confirmed"}

\* A leader's block with payment k is agreed on; every node will commit it.
Commit(l, k) ==
  /\ InCharge(l) /\ mem[l] = k /\ k \notin ledger
  /\ Cardinality({n \in Node : term[n] <= term[l] /\ Validates(n, k)}) >= QuorumN
  /\ ledger' = ledger \cup {k}
  /\ unmarked' = [n \in Node |-> unmarked[n] \cup {k}]
  /\ UNCHANGED <<pools, signs, net, kind, created, chain, approve, crashes, terms>>

\* Mutant of NewTerm: the term after the one accused is skipped.
NewTermSkip(n, t) ==
  /\ t > term[n]
  /\ term' = [term EXCEPT ![n] = t + 1] /\ currTerm' = [currTerm EXCEPT ![n] = t + 1]
  /\ UNCHANGED <<pools, signs, net, world>>

\* A strong accuse tells TxStore, an init of a later term does not.
NewTerm(n, t) ==
  /\ t > term[n]
  /\ term' = [term EXCEPT ![n] = t]
  /\ currTerm' \in {currTerm, [currTerm EXCEPT ![n] = t]}
  /\ UNCHANGED <<pools, signs, net, world>>

AddProposal(n) ==
  /\ kind = "distribution" /\ prop[n] = "none"
  /\ prop' = [prop EXCEPT ![n] = "new"]
  /\ watched' = watched \cup {n}
  /\ UNCHANGED <<fresh, adding, picked, mem, doneAt, owed, req, failed, signing, cache, sending,
                 waiting, net, world, terms>>

ExecuteProposal(n) ==
  /\ prop[n] \in {"new", "failed"}
  /\ prop' = [prop EXCEPT ![n] = "dealing"]
  /\ fresh' = IF n \in watched THEN fresh \cup {n} ELSE fresh
  /\ UNCHANGED <<watched, adding, picked, mem, doneAt, owed, req, failed, signing, cache, sending,
                 waiting, net, world, terms>>

DeleteProposal(n) ==
  /\ prop[n] \in {"new", "failed"}
  /\ prop' = [prop EXCEPT ![n] = "none"]
  /\ UNCHANGED <<pools, req, failed, signing, cache, sending, waiting, net, world, terms>>

Crash(n) == Lose(n) /\ UNCHANGED results

Next ==
  \/ \E n \in Node :
       \/ AddWatchedTx(n) \/ AddWatchedInfo(n) \/ AddFresh(n) \/ GetFreshWatchedTxs(n)
       \/ GiveBack(n) \/ CreateTransaction(n) \/ WatchFormerMultisig(n)
       \/ DropDoneCache(n) \/ CheckSignTimeout(n) \/ ConfirmTimeout(n) \/ CheckTxOnChain(n)
       \/ CheckApprove(n) \/ DealEthMint(n) \/ DoHeartbeat(n)
       \/ AddProposal(n) \/ ExecuteProposal(n) \/ DeleteProposal(n) \/ Crash(n)
       \/ \E m \in requests[n] : HandleSignTx(n, m)
       \/ \E o \in signing[n] : SetSignMsg(n, o) \/ SignHandledEvent(n, o) \/ SignedTxEvent(n, o)
       \/ \E x \in sending[n] : SendTxToChain(n, x)
       \/ \E k \in Newly : Commit(n, k) \/ CleanUpOnNewCommitted(n, k)
       \/ \E t \in Term : NewTerm(n, t)
  \/ \E n \in Receivers : \E r \in results[n] : DoSave(n, r)
  \/ ChainStep

Spec == Init /\ [][Next]_vars

-----------------------------------------------------------------------------
(* Properties                                                              *)

\* A deposit that a node has queued, or whose sign request it has stored, stays in its
\* hands: in a queue, with its sign request in the database, in the pool or done
\* (checkSignTimeout, clearOnFail and createTransaction put it back).  There are two ways
\* out: the leader takes it from the queue, and SignHandledEvent does when a timeout or a
\* failure has given up the request since SetSignMsg.  A payment under way or waited for
\* is not enough: neither outlives its own timeout.
NothingForgotten ==
  IsDeposit => \A n \in owed :
    \/ n \in fresh \cup adding \cup picked
    \/ req[n] # None \/ mem[n] # None \/ doneAt[n] # {}

\* Blocks record only payments that their chain has confirmed (checkTxOnChain,
\* dealEthEvent and validateTxs together).
LedgerOnlyPaid == \A k \in ledger : chain[k] = "confirmed"

\* A payment is on its chain only if QuorumN nodes have signed this very payment,
\* on ETH approved it: whatever results were lost, counted before the request was
\* here (unverified) or left over from an earlier payment of the same deposit.
PaidOnlySigned ==
  \A k \in Newly : chain[k] # "none" =>
    Cardinality(IF kind = "eth" THEN {n \in Node : approve[n] = "ok"} ELSE signers[k]) >= QuorumN

\* One deposit is paid at most once (baseCheck: "the steps that follow prevent
\* double spending").
NoDoublePayment == Cardinality({k \in Newly : chain[k] = "confirmed"}) <= 1

=============================================================================

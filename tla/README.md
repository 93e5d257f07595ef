# Verification of ofgp-core

TLA+ modules, TLC runs and TLAPS proofs for the gateway node of
`ofgp/ofgp-core`. A cluster of gateways watches several block chains, agrees on
what it has seen by a consensus of its own (BRAFT) and signs payments together.
The project has a model of the consensus, of the way of a deposit from the
watcher to the block that records its payment, of the change of members, and of
the timers that get rid of a dead leader.

## The system

| Part | Source | State | Operations |
|---|---|---|---|
| BlockStore | `primitives/blockstore.go`, `dbops.go` | in LevelDB: term, fresh (the block under agreement with the prepares and commits counted), votie (the highest prepared block), the chain, the weak accuses, the last strong accuse, sign records; in memory: the caches of early prepares and commits | handlers for init, prepare, commit, weak and strong accuse, sign, join, leave |
| Leader | `node/leader.go` | term, votes, votePool, initing, in memory | addVote, scanVotePool, updateTerm, tryCreateBlock, createTransaction, heartbeat |
| Vote daemon | `node/node.go:594` | a timer, the NewTermEvent channel | reads the store four times, sends a vote |
| SyncDaemon | `node/sync_daemon.go` | run state | asks a peer for blocks, checks and stores them |
| Accuser | `accuser/accuser.go` | termToAccuse, heartbeat time and tolerance, last accuse | timers and triggers of weak accuses |
| TxStore | `primitives/txstore.go` | watched, fresh and agreed transactions | add, hand out, clean up, accuse when overdue |
| Signing flow | `node/node_sign.go`, `blockstore.go:644`, `leader.go:421` | sign records, signed results, transactions waiting for confirmation | sign, collect, send, time out, confirm |
| Membership | `cluster/params.go`, `node/node.go` | node list, quorums, join and leave requests, snapshots | join, leave, recover, reconfiguration blocks |
| PeerManager | `cluster/peer_manager.go` | connection pools | broadcast, notify |
| Distribution | `distribution/` | proposals and their status | add, delete, execute, load |
| Events, tasks | `util/event.go`, `util/task` | handlers, queues | subscribe, emit, run after the unlock |
| Front ends, storage, crypto, prices | `httpsvr`, `node/http_handlers.go`, `dgwdb`, `crypto`, `price` | | I/O and queries |

How they interact. RPC goroutines call the handlers of BlockStore. Each handler
runs under one global lock and queues its events; the events run on the same
goroutine after the unlock, send messages, call further handlers, and send on
the unbuffered channels of the leader, the accuser and the vote daemon, which
are goroutines of their own. The leader's init goes back through the store of
its own node. A message of a higher term or height wakes the sync daemon.

What is hard. Messages are lost, repeated and reordered; prepares and commits
overtake the init. Handlers of a node interleave with the vote daemon, the sync
daemon and the leader, each of which looks at the store several times without
the lock. A node may crash between a handler and its events. An election must
not lose a block that some node has committed or may still commit. The list
`hazards` of `PROJECT.json` names the lines.

What makes each part correct:

- BlockStore: no two nodes commit different blocks at one height; what is
  counted is a real quorum; a commit is not sent before its votie is stored; a
  node that has received everything does not wait for ever.
- Leader: one block per term and height, across restarts; a block that may have
  been committed is proposed again.
- Vote daemon: a vote hides nothing its node helped to choose; the daemon does
  not sleep while its term has yet to elect a leader.
- SyncDaemon: a synced block never replaces another one.
- TxStore and the signing flow: one payment per deposit; a deposit is lost only by a
  late clean-up; a block records what has been paid.
- Conversion of a deposit: its addresses are not paid more than was deposited.
- Accuser: a dead leader is accused by enough nodes within the life of an
  accuse (four to six nodes; from seven on only with fewer down than tolerated); a
  live one gets the time to be elected.
- Membership: the quorums of any two nodes overlap while they learn of a change
  one after the other; sizes, lists and peers of a node fit; votes still elect.

## The modules

`Ledger` is the promise: a chain per node; a step appends to one chain the block
that the nodes ahead already have at that height, or, ahead of everyone, a new
one.

`Braft` is the cluster: per node the term, the chain, the votie and fresh of the
database, the leader's votes, vote pool and initing, and the block the sync
daemon is about to store; of the network, the inits, prepares, commits and
strong accuses sent. One action per handler:

| Action | Code |
|---|---|
| `CastVote` | the end of a round of `voteDaemon`, `Leader.addVote`, `scanVotePool` |
| `CreateBlock`, `CreateBlockInVain` | `tryCreateBlock` and the leader's handling of its own init |
| `HandleInitMsg`, `RefuseInitMsg` | `handleInitMsg`, `updateNodeTermWithInit`, `NewInitedEvent`, `Leader.updateTerm` |
| `HandlePrepareMsg` | `handlePrepareMsg` of the quorum's last prepare, `NewPreparedEvent` |
| `HandleCommitMsg` | `handleCommitMsg` of the quorum's last commit, `commitBlockWithCheck`, the leader's committed channel |
| `AnswerPrepare`, `AnswerCommit` | `handleWrongHeightProgressMsg`, `CommittedInLowerTermEvent` |
| `NewStrongAccuse`, `HandleStrongAccuse` | `handleWeakAccuse` of the last accuse, `handleStrongAccuse` |
| `CheckBlockPack`, `JustCommitIt` | the two halves of `processSyncUpResponse`; the lock is free in between |
| `Restart` | a crash and `NewLeader` |

Blocks are digests in a tree (`PrevBlockId`, `Height`); a vote carries a pack
(term and block). A sent message may be handled at any time, repeatedly or
never. The senders of prepares and commits are kept with the message, so a
handler is enabled when a quorum of them has been sent; that a node counts them
correctly one by one is the subject of `BlockStore`. The events of a handler are
part of its action where they only send, which equals sending later to
receivers that may wait.

`BlockStore` is one node and one height, message by message: the caches for
prepares and commits that come before the init, fresh with the senders counted,
the weak accuses with their expiry, the events that wait between the unlock and
their run, and a crash that loses caches and events. The other nodes are a set
of messages that arrive in any order, or not at all.

`VoteDaemon` is the daemon's loop with its four reads, its timer and channel,
against the handlers reduced to terms and heights. What the others do beside the
daemon is there as far as the daemon sees it: the sync daemon, whose check and
`JustCommitIt` are two steps, may store a pack of a lower term over the top, and
`CommittedInLowerTermEvent` sends commits that leave the votie alone
(`AnswerCommit`; the answering prepares change nothing here). It justifies `CastVote` of
`Braft`, which allows a vote for any term the node has reached with the votie of
this moment.

`Payments` is one deposit at every node: the queues of TxStore (`watched`,
`fresh`, the goroutine that adds to `fresh`), the leader's createTransaction,
the sign record and failed terms of the database, the cache of signed results,
the payment on its way to the chain, the watch for its confirmation, the inner
transaction, the blocks, and the distribution proposal. The maps of the code are
keyed by the deposit, so one deposit stands for each. `kind` selects the path:
BTC or BCH, XIN, EOS, ETH (where every node approves by itself), the transfer of
a former address's funds, and a distribution. A payment is a number; what the
chain makes of a payment that was sent is external and may come at any time.
`HandleSignTx` of BlockStore takes no lock, so a request is three steps here:
`signing` holds what a node has decided and not yet stored, or stored and not yet
answered, and requests, results and timeouts come in between. The history variable
`owed` is the set of nodes that NothingForgotten speaks about.

| Action | Code |
|---|---|
| `AddWatchedTx`, `AddWatchedInfo`, `AddFresh`, `GetFreshWatchedTxs`, `DoHeartbeat` | TxStore.Run and its channels, `AddSideTx`, `doHeartbeat` |
| `CreateTransaction`, `GiveBack`, `WatchFormerMultisig` | the leader's `createTransaction`, `watchFormerMultisig` |
| `HandleSignTx` | `handleSignTx` as far as its decision, with `validateWatchedTx`, `baseCheck` and the checks of the outputs |
| `SetSignMsg` | its write of the sign record, for each way it ends |
| `SignHandledEvent`, `SignedTxEvent` | the event it defers: `DeleteFresh` and the broadcast of the result; on ETH the wait for the approval |
| `DoSave`, `SendTxToChain`, `CheckSignTimeout`, `DropDoneCache` | `node_sign.go` |
| `ConfirmTimeout`, `CheckTxOnChain`, `CheckApprove`, `DealEthMint` | `checkTxOnChain`, `dealEthEvent` |
| `Commit`, `CleanUpOnNewCommitted` | `validateTxs`, the commit, and the clean-up by its event |
| `AddProposal`, `ExecuteProposal`, `DeleteProposal` | `distribution/proposal.go` |
| `NewTerm`, `Crash` | a term change, which TxStore may not hear of; a restart |

`Membership` gives every process its own copy of the package variables of
`cluster` and lets requests, reconfiguration blocks, syncs and restarts change
them one process at a time. The operators `AddNode`, `AddNodeInfo`,
`DeleteNode`, `RecoverNode` and `InitWithNodeList` are the functions of
`params.go`, including their two formulas for the quorum. A block is decided in
one step by nodes that hold the same chain, see the same leader and accept the
block; each of them commits it when its own quorum is reached, and handles the
event later, in two steps with the wait for transactions in between; a handler that
finds an id beyond its node list panics (`HandlerPanics`). The joining
process goes through `InitJoin`, the sync, the requests, and `OnJoined`.

`Accuser` follows one outage in steps of two seconds, the interval at which the
timer of every live node fires; a node for which that changes something (`Due`)
acts before the step ends, in any order. Its state is the accusers with their
tolerance, their pause between two accuses and the term they accuse, and the weak
accuses the stores hold with their age. The outage ends with a live leader's
heartbeat.

`Amounts` is the loop over the recharge list in `BtcToPbTx` and `EthToPbTx`, one
address per step, with the uint64 of the latter. It is used for a proof only.

`MCBraft`, `MCBraftLater`, `MCBlockStore` and `MCPayments` give constants values,
or later states to start from, for TLC. The theorems are in `BraftProofs`,
`BraftLedgerProofs`, `BlockStoreProofs`, `VoteDaemonProofs`, `MembershipProofs`,
`PaymentsProofs` and `AccuserProofs`, one for each module they extend (two for `Braft`), and in
`Amounts`.

## The runs

| Run | Instance | Shows |
|---|---|---|
| `braft_start` | 4 nodes, terms 0..1, height 1, two blocks, a syncing node, the leader of term 0 crashes at will | `Agreement`, `CommittedIsChosen`, `OneBlockPerTermHeight`, `VoteCoversCommits`, `TypeOK` |
| `braft_heights` | from height 1 with the leader behind, terms 0..1, two blocks at height 2, the leader syncs | `ChosenIsKept`, `TakesLedgerSteps` |
| `braft_terms` | from term 1 with a block prepared at one, two or three nodes, terms up to 2 | `ImplementsLedger` |
| `blockstore` | 4 nodes, the messages of two terms, or of one with weak accuses; one crash; fair events | `QuorumBehind`, `CommitHasVotie`, `AllReceivedIsResolved`, `AccusesAreResolved`, `TypeOK` |
| `blockstore_seven` | 7 nodes, one term | a violation of `IgnoredWhenPrepared` |
| `votedaemon` | terms 0..2, heights 0..1 | `VoteCoversCommits`, `SleepsOnlyWithoutNeed`, `KeepsVoting`, `TypeOK` |
| `payments` | 2 nodes, terms 0..1, two payments, all kinds of deposit, one crash, faults | `NothingForgotten`, `LedgerOnlyPaid`, `PaidOnlySigned`, `TypeOK` |
| `payments_double` | 4 nodes, one term, from a state where one payment is sent | a violation of `NoDoublePayment` |
| `membership` | 3 nodes, one joins, one leaves, two blocks, one restart, a syncing node, timers, lost answers | `QuorumsOverlap`, `SizesFitList`, `PeersFitList`, `KnowsFormer`, `TypeOK` |
| `membership_cancel` | 3 nodes, one leaves, fair timers and agreement | a violation of `RequestsAreSettled` |
| `membership_votes` | 4 nodes, one joins | a violation of `VotesElect` |
| `accuser` | 4 nodes, the leader of term 0 dead, six pauses and all tolerances and stored accuses to start from | `OutageEnds`, `LiveLeaderStays`, `TypeOK` |

Bounds. Four nodes is the smallest cluster with a quorum (3) that leaves one
out, so that quorums differ. Two terms and two payloads let a second leader
compete with a block of the first; a conflict of committed blocks needs a third
term when no one has committed in the first, hence `braft_terms`; a chain with a
predecessor to agree on needs two heights, hence `braft_heights`. These two
start from states of term 0 that the protocol reaches (all prepares sent, the
commits of the nodes that are prepared), since the whole way there is beyond
TLC. The symmetry permutes payloads and the nodes that lead no term within the
bounds; no run with symmetry checks liveness, and `ImplementsLedger` is a safety
property that is symmetric in them.

The properties of `payments` are about what each node holds and what the
ledger says; two nodes, each leader of one of two terms, give requests of its
own and of another leader, of the same and of another term, and two payments a
retry. One node's watcher sees the deposit, the other has to fetch it. `MaxEvents`
bounds payments and crashes together: two payments, or one and a crash.
`MaxSigning` = 1 lets one node at a time have requests in `signing`, as many as it
likes: the steps of two nodes in between touch no state of each other but
`requests` and `results`, which only grow by them. Both are bounds of the run (5.2
million states, two and a half minutes); the theorems have neither. A second
payment beside a first one needs a quorum that can do without a node, hence four
nodes in `payments_double`, which starts after the first payment is sent and where
only node 0 receives results from then on.

In `membership` a cluster of three that one node leaves and another joins goes
through the sizes two to four; three is one at which the two quorum formulas
differ. Node 0 crashes and
syncs, node 1 is the guide and watches over the leave, node 2 leaves, watches over
the join and may lose its answers to the joining process: the parts
are given to different nodes so that each happens in every combination with the
others. `VIEW` leaves out the number of prepares in the votie, on which no action
depends. In `accuser` the cluster is one of four, as in the configuration file,
with the durations of `accuser.go` in steps of two seconds: the pause of 180
seconds is 90 steps, the life of an accuse 30. The pauses to start from are
multiples of 36 seconds, the tolerances those that doubling leads to, and
transactions become overdue at the beats of `TxStore`'s timer (10 seconds, in phase
at all nodes), so that accuses meet at many distances. `MaxOutage`, 180 steps (six
minutes), is the least bound that holds. Three live nodes have three gaps between
accuses in a cycle of 180 seconds, one of which is at most the 60 seconds that an
accuse lives. With seven nodes, two of them down, this argument fails and so does
the property, for every bound: five nodes that accuse 36 seconds apart never have
three accuses within 60 seconds. TLC shows it in steps of 12 seconds. The
cluster then stays with its dead leader until the order of the accuses changes.

`votedaemon` needs three terms, so that a second `NewTermEvent` waits while the
daemon is in a round, and one height, at which a pack can be overwritten; with two
heights TLC also passes the invariants (19.6 million states, four and a half
minutes).

Deadlock is not checked: the bounds stop terms, heights and payments, and a
cluster without transactions is quiet.

Fairness. `BlockStore` assumes that queued events run: `ExecAll` is called by the
same goroutine right after the unlock. `VoteDaemon` assumes that an armed timer
fires and that the daemon's goroutine is scheduled. `Membership`, for the
violation of `RequestsAreSettled`, assumes that timers fire, leaders tick, nodes
that accept a block agree on it and event handlers run; nothing about requests.
Nothing is assumed about messages. `Braft`, `Payments` and `Accuser` have no
fairness: `OutageEnds` is a bound on the time.

Every property of a passing run has a mutant: an operator of the same module,
marked `Mutant`, that changes one definition the way a slip in the code would,
and under which TLC finds the property violated.

### What the violations show

`blockstore_seven`. `handlePrepareMsg` ignores a prepare when more than `QuorumN`
are held, "because it can already commit" (`blockstore.go:539`). But
`handleInitMsg` merges the prepares that came early into fresh without testing
for the quorum. With seven nodes, six early prepares exceed the quorum of five,
and the node's own prepare, which would have made it prepared, is ignored: it
stores no votie and sends no commit for this block. Agreement is not in danger,
progress is. With up to six nodes no prepare is ever ignored: more than `QuorumN`
held means that all are.

`payments_double`. `baseCheck` is there to "prevent double spending"
(`blockstore.go:1453`) and relies on the sign record. Two timeouts delete it:
`checkSignTimeout` on nodes that missed the signed results (the state the run starts
from), and `checkTxOnChain` on the node that sent the payment and does not see it in
time. The deposit is queued again, a second payment is created and signed by a
quorum, and both are confirmed.

`membership_cancel`. The loop that watches over a leave is to restore the node
when no agreement comes about (`blockstore.go:934`). The request has already
deleted the node from the list, so the loop finds it gone at its first turn. A
request that reached one of two nodes is proposed for ever and never withdrawn.

`membership_votes`. `checkVotie` compares the prepares in a votie with the quorum
of now, `updateVotie` keeps the quorum of then. After a join from four to five
nodes the votes of all members but the new one are refused: a change of term
before the next block is prepared elects no leader, in that term or a later one.

## The proofs

TLC checks the instances above; TLAPS proves the theorems below for every value
of the constants that the modules' assumptions admit. Each module's `IInv` (or
`LedgerInv`) is the inductive invariant: the theorem `Invariance` shows
`Spec => []IInv`, and the other theorems follow from it. Each strengthening was
an invariant of a TLC run before it was proved. The assumptions are those the
modules name (`NodeAssumption`, `StoreAssumption` and so on): finite, non-empty
clusters, bounds that are numbers, and a `None` that is no value. No size of the
cluster is assumed, except where the table names a further hypothesis; these are
needed, and each subsection says what goes wrong without them.

| Theorem | States | Run that checks it |
|---|---|---|
| `BraftProofs!TypeCorrect` | `[]TypeOK` | `braft_start` |
| `BraftProofs!CommittedIsAlwaysChosen` | `[]CommittedIsChosen` | `braft_start` |
| `BraftProofs!LeaderNeverEquivocates` | `[]OneBlockPerTermHeight` | `braft_start` |
| `BraftProofs!VotesCoverCommits` | `[]VoteCoversCommits` | `braft_start` |
| `BraftLedgerProofs!ElectionsKeepChosen` | `[]ChosenIsKept` | `braft_heights` |
| `BraftLedgerProofs!NodesAgree` | `[]Agreement` | `braft_start` |
| `BraftLedgerProofs!StepsAreLedgerSteps` | `TakesLedgerSteps` | `braft_heights` |
| `BraftLedgerProofs!ClusterImplementsLedger` | `ImplementsLedger` | `braft_terms` |
| `BlockStoreProofs!TypeCorrect` | `[]TypeOK` | `blockstore` |
| `BlockStoreProofs!QuorumBehindTops` | `[]QuorumBehind` | `blockstore` |
| `BlockStoreProofs!VotieBeforeCommit` | `[]CommitHasVotie` | `blockstore` |
| `VoteDaemonProofs!TypeCorrect` | `[]TypeOK` | `votedaemon` |
| `VoteDaemonProofs!VotesCoverCommits` | `[]VoteCoversCommits` | `votedaemon` |
| `VoteDaemonProofs!SleepIsSafe` | `[]SleepsOnlyWithoutNeed` | `votedaemon` |
| `MembershipProofs!TypeCorrect` | `[]TypeOK` | `membership` |
| `MembershipProofs!CountersFit` | `[]SizesFitList` | `membership` |
| `MembershipProofs!FormerAddressesKept` | `[]KnowsFormer` | `membership` |
| `MembershipProofs!MembersReach` | `[]MembersReachAll` | |
| `MembershipProofs!PeersInList` | `[]MembersInList` | |
| `MembershipProofs!QuorumsMeet` | `[]QuorumsOverlap`, if `FewMoves` | `membership` |
| `MembershipProofs!PeersFit` | `[]PeersFitList`, if `OneJoiner` and no losses or no restarts | `membership` |
| `PaymentsProofs!TypeCorrect` | `[]TypeOK` | `payments` |
| `PaymentsProofs!OnlyPaidRecorded` | `[]LedgerOnlyPaid` | `payments` |
| `PaymentsProofs!QuorumSigns` | `[]PaidOnlySigned` | `payments` |
| `PaymentsProofs!DepositsHeld` | `[]NothingForgotten` | `payments` |
| `PaymentsProofs!PaidOnce` | `[]NoDoublePayment`, if `KeepsRequests` and `[]OneAtATime` | `payments_double` refutes it without |
| `AccuserProofs!TypeCorrect` | `[]TypeOK` | `accuser` |
| `AccuserProofs!NewLeaderStays` | `[]LiveLeaderStays`, if `ElectionInPause` and `FewLive` | `accuser` |
| `Amounts!NeverPaysMore` | `[]PaysTheDeposit` | |

### The agreement: `BraftProofs` and `BraftLedgerProofs`

For every cluster, block tree and number of terms, any set of crashing and any
set of syncing nodes. The assumptions are a finite, non-empty cluster, a node
list that names its members, blocks that form a tree over genesis with heights,
and `None` different from blocks and packs.

`BraftProofs` treats what a single term and a single node guarantee. Its `IInv`
adds to the properties what makes them inductive:

- `FreshInv`: fresh is of the node's term, because every change of the term
  resets or replaces it; without it a commit could be counted for a pack of an
  earlier term. It is also why the guard `fresh[n].term = term[n]` of the model,
  which the code does not have, takes nothing away;
- `ChosenInv`: a block that waits to be stored by a sync was taken from a chain
  and so was chosen;
- `ProposedInv`: what a leader has proposed in its term is its fresh or lies at
  or below the top of its chain, so that a leader without fresh can only propose
  above; this is what a restart cannot take away;
- `VotieInv`: voties and commits are of terms their nodes have reached, and a
  node's votie is at least what it sent a commit for, unless the commit only
  answered for a block chosen below.

The argument is by footprint: a lemma lists which actions touch which variable,
another that terms, commits, voties and inits only grow, and the step lemma of
each conjunct looks at the actions that can disturb it.

`BraftLedgerProofs` treats the elections. `LedgerInv` adds to `IInv`:

- `OriginInv`: fresh, voties, votes, prepares and commits are of packs that some
  leader has proposed;
- `ElectionInv`: the votes a leader counts are of its term, one of a node;
- `KeptInv`: an init of a later term at or below the height of a pack is of the
  pack's block, or the pack can never be chosen: a quorum has left its term
  without a commit for it (`NeverChosen`). `ChosenIsKept` speaks of chosen packs
  only and is not inductive: a pack may be chosen after the later init was sent;
- `LinkInv`: the blocks of a chain are at their heights, and what is about to be
  committed, by agreement or by sync, has the top's block below it.

The heart is the step of a leader that proposes. Its votes are a quorum. A pack
of an earlier term is `NeverChosen`, or one of the voters has sent a commit for
it; a voter in a later term sends no more commits. By `VoteCoversCommits` that
vote's votie is not below the pack, unless the commit was an answer for a block
chosen in a lower term; then the argument runs with the least term in which that
block was chosen. So the highest votie is not below the pack either. It was itself
proposed, and `KeptInv` of that earlier init says that it is of the pack's block or
above it. `Agreement` follows: of two chosen packs of one height, the one of
the higher term is of an init that kept the other. The refinement maps each
node's chain to its blocks; a commit by agreement or by sync appends to one
chain, `LinkInv` and the uniqueness of chosen blocks make it a step of `Ledger`,
and every other action changes at most the term a block is stored with.

Two tests of the code are not needed for this: the check of `scanVotePool` that
the leader's own chain fits the highest votie, and `IsInitSupportedByVotes`,
where the other nodes check the votes in an init. The first one serves progress;
the second one serves against a leader that does not follow the code.

### One node: `BlockStoreProofs` and `VoteDaemonProofs`

`BlockStoreProofs`: for every cluster, every set of messages that the other
nodes may send, every number of terms and crashes. `CountedInv` says that a
sender counted in a cache or in fresh has sent a message of that very term,
which is what could go wrong when the caches are merged into a fresh of a later
term; `EventInv` that a waiting `NewPreparedEvent` finds its votie stored. With
these, a block on the chain has a quorum of commits behind it and every commit
this node sends a votie at least as high, across crashes.

`VoteDaemonProofs`: for every number of terms and heights. `StoreInv` and
`CommitsInv` relate fresh, votie and the commits sent to the node's term;
`SignalInv` says that a daemon that has not seen the present term has an event
waiting. The four reads without the lock do no harm, because the vote is built
from the votie of the last one and votie only grows. Two exceptions are part of
the statements. A commit that only answered for a block the node had from a lower
term is missing from its votie; `AnswersInv` says that this block is on its own
chain. And `NeedsVote` compares the term with the highest the top has had
(`topTerm`), where the code compares it with the top: after a late `JustCommitIt`
has put a pack of a lower term over the top, the code's own condition asks for a
vote and the sleeping daemon is not woken. The term has had a block then, so its
leader was elected, but this node's vote is not sent again.

### Members: `MembershipProofs`

For every number of configured, joining and leaving nodes, of blocks, terms and
restarts, and any choice of which node is a guide, loses answers or restarts.
`IInv` has a part per group of variables: views (the counters are those of the
list, and the quorum of any history of joins and leaves is more than half of
the nodes and the faulty ones together), the phases of a joining process,
requests, the chain with the events that wait to be handled, timers, and former
multisig addresses. `TimerPart` states a fact about the code that the proof
needs: a timer of a leave fires once, so the loop around it never comes to the
turn in which it would restore the node.

`MembersReach` and `PeersInList` state two facts that no run checks separately:
a running member has a connection to every normal node of its list, and a
member that does not restart has none beyond the end of its list.

`QuorumsMeet` proves that quorums of two running processes overlap although each
counts by its own copy of the cluster variables: one may have heard of a join or
leave and the other not, have synced past it, or have restarted with the list of
its configuration file. `ListInv` says what all these lists have in common: the
configured nodes come first, deleted at most where they may leave, and behind
them are processes that joined. So two lists share the configured nodes that do
not leave, and the rest is counting. The hypothesis `FewMoves` says that twice
the leaving nodes and the joining ones are fewer than the configured ones, or as
many if at most one joins: one join and one leave in a cluster of three, as in the
run. It is not true with more: for one of each in a cluster of two TLC finds two
processes without a common node.

`PeersFit` proves `PeersFitList` of every process, with one joining process and any
number of leaving ones (`OneJoiner`), if no answer to the joining process is lost
or no member restarts. `JoinInv` says how ids reach the chain: only members
propose a join, nothing of it happens before the joining process asks, joins
get their ids one after the other, and the joining process has in its list every
id on the part of the chain it has synced. A member that does not restart has
handled all joins below its own, so its list is long enough. Where no answer is
lost, a member is asked once and before it has any join to handle (`OncePart`), so
every join is for the first free id, which also a restarted node adds. With both
losses and restarts the property is false in general, although it still holds in the
run, where only node 2 loses answers and only node 0 restarts. Take N = 3, one joining process with guide
1, every node's answers possibly lost, node 0 restarting, MaxHeight = 2 and MaxTerm = 3. The
joining process has been agreed on with id 3, has lost the answer and asks again;
the nodes whose list has grown agree on a second join with id 4. Node 0 restarts
with the old list and commits the second join: `AddNode` refuses an id that is not
the length of the list, and the handler's `cluster.NodeList[nodeId]` (node.go:426)
panics. `FinishJoined` ends the process there (`HandlerPanics`); the process is not
started again. The last part of `PeersFitList` says that no handler has such an id
before it, so the theorem says that this branch is not taken under its hypotheses,
as the run shows for its instance.

### Payments: `PaymentsProofs` and `Amounts`

For every cluster size, every kind of deposit, any set of watchers and
receivers, any subset of the faults and every number of terms, payments and
crashes.

- `OnlyPaidRecorded` rests on `PaidPart`: a transaction comes into a memory pool
  only with a confirmed payment, and a confirmed payment stays confirmed.
- `QuorumSigns`: no payment reaches a chain unless `QuorumN` nodes have signed
  that very payment. A cache may hold signatures of another payment, counted
  before the request was here or left by an earlier one; `SignedPart` says that
  results, caches and payments being sent hold at most one signature of a node,
  each made by that node, and a payment being sent `QuorumN` of them. Signatures of
  another payment do not merge, which is what the chain's library does with them.
  On ETH the contract counts approvals. The history variable `signers` records
  which nodes' signatures of a payment have gone out; no action reads it.
- `DepositsHeld`: a deposit that a node has queued stays in its hands, in a queue,
  with a sign request in the database, in the memory pool or done. The code has two
  ways out, and `owed` drops a node exactly there: the leader's `createTransaction`
  takes the deposit out of the queue, and `SignHandledEvent` removes a deposit that a
  timeout or a failure has put back in the queue since `SetSignMsg`. It is inductive
  as it stands; a payment under way is not among its cases, since that ends with a
  timeout.
- `PaidOnce` separates what `baseCheck` does guarantee from what it does not. It
  has two hypotheses. `KeepsRequests`, a condition on steps: no node that has signed,
  or decided to, gives up its sign request before the deposit is done. `OneAtATime`,
  a condition on states: no node has two decisions to sign different payments of the
  deposit that it has not stored yet. Then a deposit is paid at most once: a node
  that has signed still has the request, or the payment in its database
  (`OncePart`), and refuses the next one; two payments would need two quorums, which
  share a node. A transfer of assets passes no such test, but only one is ever asked
  for (`TransferPart`), and on ETH the contract mints once. Lost results, changes of
  term and crashes do no harm, since requests are in the database. The code ensures
  neither hypothesis: `checkSignTimeout`, `clearOnFail` and the timeout of
  `checkTxOnChain` break the first, and run `payments_double` is what comes of it;
  nothing but the time between two requests of a leader keeps two of them from
  passing `baseCheck` before either is stored.

`Amounts` proves `NeverPaysMore`: what a deposit pays never exceeds the deposit,
on BTC and BCH for every recharge list, on ETH for a list of one address, for
every width of the amounts. The invariant `IInv` of that module says that what
is left and what is paid add up to the deposit as long as the loop runs, and
that the loop ends as soon as an address asks for more than is left. On ETH with
more addresses the subtraction wraps instead and the loop goes on; this is
listed as a hazard.

### Timers: `AccuserProofs`

The types hold for every value of the constants; the assumptions that the start
tolerance is at most the greatest one, and the start pause at most the interval,
are those of the constants of `accuser.go`.

`NewLeaderStays` says which clusters give a new live leader its time, with two
hypotheses. `ElectionInPause`: what is left of a node's pause when its accuse
expires (120 of 180 seconds) is longer than an election. `FewLive`: the live nodes
are fewer than twice `AccuseQuorumN`, which with 3f+1 nodes means that all f are
down. The invariant: an unexpired accuse in the store is the last one of its node
(`StoredInv`), the store never keeps enough of them (`FewInv`), and since the term
of the live leader began a set of `AccuseQuorumN` nodes has paused (`PauseInv`),
whose complement is too small to accuse. `FewLive` cannot be left out: with seven
nodes and one down, TLC finds that three nodes bring down the dead leader and the
other three, whose timers fire right after the new term has come, the live one
that follows. Nothing unsafe happens.

### Only model-checked

- `AllReceivedIsResolved`, `AccusesAreResolved` and `KeepsVoting`: liveness under
  fairness is out of the prover's reach.
- `OutageEnds` of `Accuser`: the number of steps it states is that of the values
  of the constants in `accuser.go`. A bound for all values would need an argument
  over the order of accuses through several pauses, in which accuses expire and
  repeated ones are dropped.
- `VotesElect` and `RequestsAreSettled` are refuted by their runs.
- Induction over data: an operator parameter cannot be instantiated by the
  installed provers. Where a proof needs a least term, block or node, it takes the
  least element of a set (`WFMin`) instead.

## Limits

- Messages that fail validation (`msg_validation.go`) and nodes that do not
  follow the code are not modelled: faults are crashes, losses and delays.
- The writes one handler makes to the database are taken together. A crash
  between two of them (`SetNodeTerm` and `SetFresh`; the two keys of
  `JustCommitIt`) is listed as a hazard.
- `Braft`, `BlockStore`, `Payments` and `Accuser` have a fixed membership;
  `Membership` decides a block in one step.
- A synced block is checked as soon as it is received; batches of blocks are
  taken one block at a time.
- `BlockStore` is for one height: what happens when the height changes under a
  fresh is in `Braft`.
- `Payments` is for one deposit, with amounts, fees and prices abstracted to
  whether a check passes. Locks are not modelled where an action is one
  critical section. A deposit can be forgotten by one node: after `SetSignMsg` a
  timeout or a failure gives up the request and queues the deposit again, and the
  `DeleteFresh` of the answer, which comes last, removes it. `NothingForgotten`
  excepts this case and no other; the deposit is then paid through another node's
  queue, or not at all if all nodes lose it so. `DoSave` is one action, although `saveSignedResult` starts a
  goroutine for each result and `doSave` takes no lock of its own: the same
  node's result, delivered twice and handled by two of them at the same time,
  could be counted twice, and the payment be sent with a signature too few.
  `PaidOnlySigned` says nothing about that case.
- `Accuser` takes what a live node broadcasts to reach all live nodes within two
  seconds. The gap argument behind `OutageEnds` has no slack: a cycle longer than
  180 seconds may leave three accuses just too far apart.

## Not modelled

- The mutex of an event, the unbuffered channels of the leader and the global
  lock as things a goroutine can wait for. The deadlocks they allow are listed
  as hazards; they need a model of one node's goroutines.
- The connection pool of `PeerManager`, the run state and batches of
  `SyncDaemon`, watch mode.
- Signatures, encodings, storage, prices, HTTP and RPC plumbing: I/O, libraries,
  queries and formatting. Generated code.
- `handleJoinRequest`, which nothing calls, and the test interfaces.

## The plan

Done: the agreement with its refinement, the components of one node, the
membership and the way of a deposit, each modelled, checked and, as far as
listed above, proved. Left:

1. A crash between the writes of one handler, with a fresh of an earlier term
   and mixed counts, and the assertion of `handleCommitMsg`.
2. A model of one node's goroutines, channels and locks, `doSave` included.

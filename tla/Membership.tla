---------------------------- MODULE Membership ----------------------------
(***************************************************************************)
(* How a node joins and leaves the cluster.  Every process has its own     *)
(* copy of the package variables of cluster (node list, sizes, quorums),   *)
(* changed by requests, by the events of reconfiguration blocks, by the    *)
(* sync of a joining node and by restarts; nothing changes two copies at   *)
(* once.  That the cluster agrees on one chain is the subject of Braft;    *)
(* here a block is decided in one step by a set of nodes that accept it,   *)
(* and each of them commits it, or another node syncs it, later.  The      *)
(* transactions of a block, and the signer snapshots stored per address,   *)
(* are left out.                                                           *)
(***************************************************************************)
EXTENDS Integers, Sequences, SequencesExt, FiniteSets

CONSTANTS
  N,          \* configured nodes, 0..N-1; a node's host is its id
  Joiners,    \* hosts that may ask to join
  Leavers,    \* nodes that may leave
  Guides,     \* nodes a joining process may have for its init_node_host
  Lossy,      \* nodes whose answers to a joining process may be lost
  JoinTimed, LeaveTimed,  \* nodes whose timers may fire; others' are slow
  Syncers,    \* nodes that may sync blocks instead of committing them
  Crashers,   \* nodes that may crash and restart
  MaxHeight,  \* bound: blocks
  MaxTerm,    \* bound: terms that leaders are looked for in
  MaxCrash,   \* bound: crashes
  None        \* nil, the empty host, node -1

Member == 0..N-1
Proc == Member \cup Joiners
Id == Nat

ASSUME MembershipAssumption ==
  /\ N \in Nat \ {0} /\ MaxHeight \in Nat /\ MaxTerm \in Nat /\ MaxCrash \in Nat
  /\ Joiners \cap Member = {} /\ IsFiniteSet(Joiners)
  /\ Leavers \subseteq Member /\ UNION {Guides, Lossy, JoinTimed, LeaveTimed, Crashers} \subseteq Member
  /\ Syncers \subseteq Proc
  /\ None \notin Proc \cup Id

Block == [type : {"TXS"}] \cup [type : {"JOIN"}, host : Joiners, id : Id]
                          \cup [type : {"LEAVE"}, id : Id]

VARIABLES
  view,      \* cluster: NodeList, ClusterSize, QuorumN
  peers,     \* PeerManager: the ids it keeps connections to
  phase, id, \* where a process is in its life, and its localNodeInfo.Id
  expected,  \* DGW.new_node_host
  height, joinInfo, leaveInfo,   \* in the database
  votie,     \* in the database: how many prepares the votie has, 0 for genesis
  newNodeHost, leavingNodeId,    \* of the leader
  chain,     \* the blocks, each with the nodes that accepted it
  events,    \* committed reconfiguration blocks whose event has not started
  joining, leaving,  \* the block whose JoinedEvent, LeavedEvent is being handled
  timers,    \* the goroutines that watch over a request
  curr, olds,        \* CurrMultiSig and MultiSigSnapshot
  used, mixed,       \* history: addresses of a node; handlers that overlapped
  asked,     \* a joining node: its guide, the snapshot, who has answered
  leaves,    \* leave requests under way
  crashes

clusterVars == <<view, peers>>
storeVars == <<height, joinInfo, leaveInfo, votie>>
leaderVars == <<newNodeHost, leavingNodeId>>
taskVars == <<events, joining, leaving>>
sigVars == <<curr, olds, used, mixed>>
vars == <<clusterVars, phase, id, expected, storeVars, leaderVars, chain, taskVars,
          timers, sigVars, asked, leaves, crashes>>

\* No action depends on the votie: TLC may take two states that differ in it
\* for one where no property is about it.
WithoutVotie == <<clusterVars, phase, id, expected, height, joinInfo, leaveInfo, leaderVars, chain,
                  taskVars, timers, sigVars, asked, leaves, crashes>>

-----------------------------------------------------------------------------
(* Package cluster.                                                        *)

F(n) == (n - 1) \div 3

\* Mutant of Quorum: a simple majority.
QuorumMajority(n) == n \div 2 + 1

\* QuorumN as Init, InitWithNodeList, AddNode, DeleteNode and RecoverNode set it.
Quorum(n) == n - F(n)

\* QuorumN as AddNodeInfo sets it.
QuorumOfInfo(n) == (n + F(n)) \div 2 + 1

Normal(list) == {i \in 0..Len(list)-1 : list[i+1].normal}

\* Init and InitWithNodeList: the variables for a given node list.
InitWithNodeList(list) ==
  [list |-> list, size |-> Cardinality(Normal(list)), quorum |-> Quorum(Cardinality(Normal(list)))]

Resized(list, n) == [list |-> list, size |-> n, quorum |-> Quorum(n)]

AddNode(v, host, i) ==
  IF i # Len(v.list) THEN v
  ELSE Resized(Append(v.list, [host |-> host, normal |-> TRUE]), v.size + 1)

AddNodeInfo(v, host) ==
  [list |-> Append(v.list, [host |-> host, normal |-> TRUE]),
   size |-> v.size + 1, quorum |-> QuorumOfInfo(v.size + 1)]

\* Mutant of DeleteNode: counts a node that is already deleted.
DeleteNodeTwice(v, i) ==
  IF i >= Len(v.list) THEN v
  ELSE Resized([v.list EXCEPT ![i+1].normal = FALSE], v.size - 1)

DeleteNode(v, i) ==
  IF i \notin Normal(v.list) THEN v
  ELSE Resized([v.list EXCEPT ![i+1].normal = FALSE], v.size - 1)

\* Raises ClusterSize whatever the node's state is.
RecoverNode(v, i) ==
  IF i >= Len(v.list) THEN v
  ELSE Resized([v.list EXCEPT ![i+1].normal = TRUE], v.size + 1)

LeaderNodeOfTerm(v, t) ==
  LET n == Len(v.list)
      at(k) == (t + k) % n
      k == CHOOSE k \in 0..n-1 : /\ at(k) \in Normal(v.list)
                                 /\ \A j \in 0..k-1 : at(j) \notin Normal(v.list)
  IN  at(k)

\* getFederationAddress: the address depends on the public keys of the normal
\* nodes and on QuorumN.
GetFederationAddress(v) == [keys |-> {v.list[i+1].host : i \in Normal(v.list)}, m |-> v.quorum]

\* Mutant of AddMultiSigInfo: keeps the last former address only.
AddMultiSigInfoLast(sigs, sig) == <<sig>>

AddMultiSigInfo(sigs, sig) ==
  IF sigs # <<>> /\ Last(sigs) = sig THEN sigs ELSE Append(sigs, sig)

Configured == InitWithNodeList([i \in 1..N |-> [host |-> i - 1, normal |-> TRUE]])

-----------------------------------------------------------------------------
NoTimer == [left |-> 0, fires |-> 0, who |-> None]

\* time.NewTimer fires once; the loop around it runs three times.
NewTimer(who) == [left |-> 3, fires |-> 1, who |-> who]

Running == {p \in Proc : phase[p] = "run"}

Committed(h) == {p \in Running : height[p] >= h}

Init ==
  /\ view = [p \in Proc |-> IF p \in Member THEN Configured ELSE InitWithNodeList(<<>>)]
  /\ peers = [p \in Proc |-> Normal(view[p].list)]
  /\ phase = [p \in Proc |-> IF p \in Member THEN "run" ELSE "new"]
  /\ id = [p \in Proc |-> IF p \in Member THEN p ELSE None]
  /\ expected \in [Proc -> Joiners \cup {None}]
  /\ \A p \in Joiners : expected[p] = None
  /\ \A p \in Member : expected[p] = None <=> Joiners = {}
  /\ height = [p \in Proc |-> 0] /\ votie = height
  /\ joinInfo = [p \in Proc |-> None] /\ leaveInfo = joinInfo
  /\ newNodeHost = joinInfo /\ leavingNodeId = joinInfo
  /\ chain = <<>>
  /\ events = [p \in Proc |-> {}]
  /\ joining = [p \in Proc |-> 0] /\ leaving = joining
  /\ timers = [p \in Proc |-> [join |-> NoTimer, leave |-> NoTimer]]
  /\ curr = [p \in Proc |-> GetFederationAddress(view[p])]
  /\ olds = [p \in Proc |-> <<>>]
  /\ used = [p \in Proc |-> IF p \in Member THEN {curr[p]} ELSE {}]
  /\ mixed = [p \in Proc |-> FALSE]
  /\ asked = [p \in Proc |-> None]
  /\ leaves = {} /\ crashes = 0

-----------------------------------------------------------------------------
(* The requests.                                                           *)

\* The hosts that the joining process still asks, again and again.
SendJoinCheckSyncedRequest(p) ==
  {view[p].list[i+1].host : i \in Normal(view[p].list)} \ asked[p].synced

\* Only where the operator configured the host, and while p's id is the next
\* one of n's list.
CheckJoinRequest(n, p) == expected[n] = p /\ id[p] = Len(view[n].list)

\* handleJoinCheckSyncedRequest of node n, called by the joining process p
\* and, when the answer arrives, counted by it.
HandleJoinCheckSyncedRequest(p, n) ==
  /\ phase[p] = "ask"
  /\ n \in Running \cap SendJoinCheckSyncedRequest(p)
  /\ CheckJoinRequest(n, p)
  /\ height[p] >= height[n]
  /\ joinInfo' = [joinInfo EXCEPT ![n] = p]
  /\ newNodeHost' = [newNodeHost EXCEPT ![n] = p]
  /\ timers' = [timers EXCEPT ![n].join = IF n \in JoinTimed THEN NewTimer(p) ELSE @]
  /\ \E answered \in {TRUE} \cup {n \notin Lossy} :
       asked' = IF answered THEN [asked EXCEPT ![p].synced = @ \cup {n}] ELSE asked
  /\ UNCHANGED <<clusterVars, phase, id, expected, height, leaveInfo, votie, leavingNodeId, chain,
                 taskVars, sigVars, leaves, crashes>>

\* What a process that ends, or starts, has in memory.
Forget(p, v) ==
  /\ view' = [view EXCEPT ![p] = v]
  /\ peers' = [peers EXCEPT ![p] = Normal(v.list)]
  /\ newNodeHost' = [newNodeHost EXCEPT ![p] = None]
  /\ leavingNodeId' = [leavingNodeId EXCEPT ![p] = None]
  /\ events' = [events EXCEPT ![p] = {}]
  /\ joining' = [joining EXCEPT ![p] = 0] /\ leaving' = [leaving EXCEPT ![p] = 0]
  /\ timers' = [timers EXCEPT ![p] = [join |-> NoTimer, leave |-> NoTimer]]
  /\ curr' = [curr EXCEPT ![p] = GetFederationAddress(v)]
  /\ mixed' = [mixed EXCEPT ![p] = TRUE]

\* LeaveCluster: a request to every normal peer, then the process ends.
LeaveCluster(p) ==
  /\ p \in Leavers \cap Running
  /\ leaves' = leaves \cup {[to |-> view[p].list[i+1].host, id |-> id[p]] :
                             i \in (peers[p] \cap Normal(view[p].list)) \ {id[p]}}
  /\ phase' = [phase EXCEPT ![p] = "left"]
  /\ Forget(p, InitWithNodeList(<<>>))
  /\ UNCHANGED <<id, expected, storeVars, chain, olds, used, asked, crashes>>

\* handleLeaveRequest with OnLeaveEvent: the node is deleted at once.
HandleLeaveRequest(m) ==
  LET n == m.to IN
  /\ m \in leaves /\ leaves' = leaves \ {m}
  /\ n \in Running
  /\ leaveInfo' = [leaveInfo EXCEPT ![n] = m.id]
  /\ view' = [view EXCEPT ![n] = DeleteNode(@, m.id)]
  /\ leavingNodeId' = [leavingNodeId EXCEPT ![n] = m.id]
  /\ timers' = [timers EXCEPT ![n].leave = IF n \in LeaveTimed THEN NewTimer(m.id) ELSE @]
  /\ UNCHANGED <<peers, phase, id, expected, height, votie, joinInfo, newNodeHost, chain, taskVars,
                 sigVars, asked, crashes>>

\* One turn of the loop that watches over a join.  A node that finds no
\* member with the host accuses; after the third turn JoinCancelEvent.
JoinTimer(n) ==
  LET t == timers[n].join
      joined == \E i \in 1..Len(view[n].list) : view[n].list[i].host = t.who
      left == IF joined THEN 0 ELSE t.left - 1
  IN
  /\ t.left > 0 /\ t.fires > 0
  /\ timers' = [timers EXCEPT ![n].join = IF left = 0 THEN NoTimer
                                          ELSE [t EXCEPT !.left = left, !.fires = @ - 1]]
  /\ newNodeHost' = [newNodeHost EXCEPT ![n] = IF left = 0 /\ ~joined THEN None ELSE @]
  /\ UNCHANGED <<clusterVars, phase, id, expected, storeVars, leavingNodeId, chain, taskVars,
                 sigVars, asked, leaves, crashes>>

\* The same for a leave, by the node's state; after the third turn
\* LeaveCancelEvent recovers the node.
LeaveTimer(n) ==
  LET t == timers[n].leave
      gone == t.who \notin Normal(view[n].list)
      left == IF gone THEN 0 ELSE t.left - 1
  IN
  /\ t.left > 0 /\ t.fires > 0
  /\ timers' = [timers EXCEPT ![n].leave = IF left = 0 THEN NoTimer
                                           ELSE [t EXCEPT !.left = left, !.fires = @ - 1]]
  /\ IF left = 0 /\ ~gone
     THEN /\ view' = [view EXCEPT ![n] = RecoverNode(@, t.who)]
          /\ leavingNodeId' = [leavingNodeId EXCEPT ![n] = None]
     ELSE UNCHANGED <<view, leavingNodeId>>
  /\ UNCHANGED <<peers, phase, id, expected, storeVars, newNodeHost, chain, taskVars, sigVars,
                 asked, leaves, crashes>>

-----------------------------------------------------------------------------
(* The blocks.                                                             *)

\* The block that leader l creates, or none: a join whose request is not
\* stored gives no block at all.
BlockToInit(l) ==
  IF newNodeHost[l] # None
  THEN IF joinInfo[l] # None
       THEN {[type |-> "JOIN", host |-> newNodeHost[l], id |-> Len(view[l].list)]} ELSE {}
  ELSE IF leavingNodeId[l] # None THEN {[type |-> "LEAVE", id |-> leavingNodeId[l]]}
  ELSE {[type |-> "TXS"]}

CheckReconfigBlock(n, b) ==
  CASE b.type = "JOIN"  -> joinInfo[n] = b.host /\ b.id = Len(view[n].list)
    [] b.type = "LEAVE" -> leaveInfo[n] = b.id
    [] OTHER -> TRUE

\* The agreement in one step: the nodes q hold the same chain, take l for the
\* leader of a term, accept its block and are as many as l's quorum.
DecideBlock(l, q) ==
  /\ Len(chain) < MaxHeight
  /\ l \in q /\ \A n \in q : height[n] = Len(chain)
  /\ Cardinality(q) >= view[l].quorum
  /\ \E t \in 0..MaxTerm : \A n \in q : LeaderNodeOfTerm(view[n], t) = id[l]
  /\ \E b \in BlockToInit(l) :
       /\ \A n \in q : CheckReconfigBlock(n, b)
       /\ chain' = Append(chain, [block |-> b, accepted |-> q])
  /\ UNCHANGED <<clusterVars, phase, id, expected, storeVars, leaderVars, taskVars, timers,
                 sigVars, asked, leaves, crashes>>

\* Mutant of CommitBlock: raises an event for every block.
CommitBlockAnyType(n) ==
  LET h == height[n] + 1 IN
  /\ h <= Len(chain) /\ n \in Running \cap chain[h].accepted
  /\ Cardinality(chain[h].accepted) >= view[n].quorum
  /\ height' = [height EXCEPT ![n] = h]
  /\ votie' = [votie EXCEPT ![n] = view[n].quorum]
  /\ events' = [events EXCEPT ![n] = @ \cup {h}]
  /\ UNCHANGED <<clusterVars, phase, id, expected, joinInfo, leaveInfo, leaderVars, chain,
                 joining, leaving, timers, sigVars, asked, leaves, crashes>>

\* commitBlockWithCheck: a node that accepted the block has counted its own
\* quorum of commits.  Its votie was stored with the QuorumN-th prepare (more
\* only where prepares came before the init) and is kept on commit.  A join
\* without a stored request raises no event.
CommitBlock(n) ==
  LET h == height[n] + 1
      b == chain[h].block
  IN
  /\ h <= Len(chain) /\ n \in Running \cap chain[h].accepted
  /\ Cardinality(chain[h].accepted) >= view[n].quorum
  /\ height' = [height EXCEPT ![n] = h]
  /\ votie' = [votie EXCEPT ![n] = view[n].quorum]
  /\ events' = [events EXCEPT ![n] =
                  IF b.type = "LEAVE" \/ (b.type = "JOIN" /\ joinInfo[n] # None)
                  THEN @ \cup {h} ELSE @]
  /\ UNCHANGED <<clusterVars, phase, id, expected, joinInfo, leaveInfo, leaderVars, chain,
                 joining, leaving, timers, sigVars, asked, leaves, crashes>>

\* processSyncUpResponse: a block that AccuseQuorumN nodes have is stored;
\* a reconfiguration block raises no event.
ProcessSyncUpResponse(n) ==
  LET h == height[n] + 1 IN
  /\ n \in Syncers \cap Running /\ h <= Len(chain)
  /\ Cardinality(Committed(h)) >= F(view[n].size) + 1
  /\ height' = [height EXCEPT ![n] = h]
  /\ UNCHANGED <<clusterVars, phase, id, expected, joinInfo, leaveInfo, votie, leaderVars, chain,
                 taskVars, timers, sigVars, asked, leaves, crashes>>

\* Emit holds the event's mutex, so a node handles one JoinedEvent at a time;
\* which of two waiting ones comes first is open.  The handler first clears
\* the request and keeps the current address, then waits for the
\* transactions under way.
StartJoined(n, h) ==
  /\ h \in events[n] /\ chain[h].block.type = "JOIN" /\ joining[n] = 0
  /\ events' = [events EXCEPT ![n] = @ \ {h}]
  /\ joining' = [joining EXCEPT ![n] = h]
  /\ joinInfo' = [joinInfo EXCEPT ![n] = None]
  /\ newNodeHost' = [newNodeHost EXCEPT ![n] = None]
  /\ olds' = [olds EXCEPT ![n] = AddMultiSigInfo(@, curr[n])]
  /\ mixed' = [mixed EXCEPT ![n] = @ \/ leaving[n] # 0]
  /\ UNCHANGED <<clusterVars, phase, id, expected, height, leaveInfo, votie, leavingNodeId, chain,
                 leaving, timers, curr, used, asked, leaves, crashes>>

\* The new address and the configuration that saveNewConfig keeps in memory;
\* it clears new_node_host.
Reconfigure(n, v) ==
  /\ view' = [view EXCEPT ![n] = v]
  /\ curr' = [curr EXCEPT ![n] = GetFederationAddress(v)]
  /\ used' = [used EXCEPT ![n] = @ \cup {GetFederationAddress(v)}]
  /\ expected' = [expected EXCEPT ![n] = None]

\* The handler's NodeList[nodeId] is out of range where AddNode has refused an id
\* beyond the list: it panics, and the process ends for good.
HandlerPanics(n) ==
  /\ phase' = [phase EXCEPT ![n] = "failed"]
  /\ Forget(n, InitWithNodeList(<<>>))
  /\ UNCHANGED <<id, expected, storeVars, chain, olds, used, asked, leaves, crashes>>

\* Mutant of FinishJoined: no connection to the new node.
FinishJoinedAlone(n) ==
  LET b == chain[joining[n]].block IN
  /\ joining[n] # 0
  /\ IF b.id > Len(view[n].list)
     THEN HandlerPanics(n)
     ELSE /\ joining' = [joining EXCEPT ![n] = 0]
          /\ Reconfigure(n, AddNode(view[n], b.host, b.id))
          /\ UNCHANGED <<peers, phase, id, storeVars, leaderVars, chain, events, leaving, timers,
                         olds, mixed, asked, leaves, crashes>>

FinishJoined(n) ==
  LET b == chain[joining[n]].block IN
  /\ joining[n] # 0
  /\ IF b.id > Len(view[n].list)
     THEN HandlerPanics(n)
     ELSE /\ joining' = [joining EXCEPT ![n] = 0]
          /\ Reconfigure(n, AddNode(view[n], b.host, b.id))
          /\ peers' = [peers EXCEPT ![n] = @ \cup {b.id}]
          /\ UNCHANGED <<phase, id, storeVars, leaderVars, chain, events, leaving, timers, olds,
                         mixed, asked, leaves, crashes>>

StartLeaved(n, h) ==
  /\ h \in events[n] /\ chain[h].block.type = "LEAVE" /\ leaving[n] = 0
  /\ events' = [events EXCEPT ![n] = @ \ {h}]
  /\ leaving' = [leaving EXCEPT ![n] = h]
  /\ leaveInfo' = [leaveInfo EXCEPT ![n] = None]
  /\ leavingNodeId' = [leavingNodeId EXCEPT ![n] = None]
  /\ olds' = [olds EXCEPT ![n] = AddMultiSigInfo(@, curr[n])]
  /\ mixed' = [mixed EXCEPT ![n] = @ \/ joining[n] # 0]
  /\ UNCHANGED <<clusterVars, phase, id, expected, height, votie, joinInfo, newNodeHost, chain,
                 joining, timers, curr, used, asked, leaves, crashes>>

FinishLeaved(n) ==
  /\ leaving[n] # 0 /\ leaving' = [leaving EXCEPT ![n] = 0]
  /\ Reconfigure(n, DeleteNode(view[n], chain[leaving[n]].block.id))
  /\ UNCHANGED <<peers, phase, id, storeVars, leaderVars, chain, events, joining, timers, olds,
                 mixed, asked, leaves, crashes>>

-----------------------------------------------------------------------------
(* The joining process.                                                    *)

\* What the guide g tells of the cluster.
GetClusterNodes(g) ==
  [list |-> view[g].list, quorum |-> view[g].quorum, sigs |-> olds[g], height |-> height[g]]

\* InitJoin: the guide's answer makes the first view, and the snapshot of the
\* cluster by which the process counts until it has joined.
InitJoin(p, g) ==
  LET res == GetClusterNodes(g)
      v == InitWithNodeList(res.list)
  IN
  /\ phase[p] = "new" /\ g \in Guides \cap Running
  /\ phase' = [phase EXCEPT ![p] = "sync"]
  /\ view' = [view EXCEPT ![p] = v]
  /\ peers' = [peers EXCEPT ![p] = Normal(v.list)]
  /\ id' = [id EXCEPT ![p] = Len(v.list)]
  /\ asked' = [asked EXCEPT ![p] =
       [guide |-> g, height |-> res.height, quorum |-> v.quorum, accuse |-> F(v.size) + 1,
        sigs |-> Append(res.sigs, [GetFederationAddress(v) EXCEPT !.m = res.quorum]),
        synced |-> {}]]
  /\ curr' = [curr EXCEPT ![p] = GetFederationAddress(v)]
  /\ UNCHANGED <<expected, storeVars, leaderVars, chain, taskVars, timers, olds, used, mixed,
                 leaves, crashes>>

\* processSimpleSyncUpResponse: one more block.  A join of an id that exists
\* goes the way of a leave.
ProcessSimpleSyncUpResponse(p) ==
  LET h == height[p] + 1
      b == chain[h].block
      join == b.type = "JOIN" /\ b.id >= Len(view[p].list)
      v == IF b.type = "TXS" \/ h <= asked[p].height THEN view[p]
           ELSE IF join THEN AddNodeInfo(view[p], b.host) ELSE DeleteNode(view[p], b.id)
  IN
  /\ phase[p] \in {"sync", "ask"} /\ h <= Len(chain)
  /\ Cardinality(Committed(h)) >= asked[p].accuse
  /\ height' = [height EXCEPT ![p] = h]
  /\ view' = [view EXCEPT ![p] = v]
  /\ peers' = [peers EXCEPT ![p] = IF b.type = "TXS" \/ h <= asked[p].height THEN @
                                   ELSE IF join THEN @ \cup {b.id} ELSE @ \ {b.id}]
  /\ curr' = [curr EXCEPT ![p] = IF b.type = "TXS" \/ h <= asked[p].height THEN @
                                 ELSE GetFederationAddress(v)]
  /\ UNCHANGED <<phase, id, expected, joinInfo, leaveInfo, votie, leaderVars, chain, taskVars, timers,
                 olds, used, mixed, asked, leaves, crashes>>

\* syncBeforeSendJoinReq ends once a node has nothing more to send: that node
\* is counted again in every round, until the count is QuorumN.
SyncedBeforeJoin(p) ==
  /\ phase[p] = "sync" /\ \E n \in Running : height[p] >= height[n]
  /\ phase' = [phase EXCEPT ![p] = "ask"]
  /\ UNCHANGED <<clusterVars, id, expected, storeVars, leaderVars, chain, taskVars, timers,
                 sigVars, asked, leaves, crashes>>

\* The guide lists the host as a normal node.
CheckJoinSuccess(p) ==
  LET g == asked[p].guide IN
  g \in Running /\ \E i \in Normal(view[g].list) : view[g].list[i+1].host = p

\* QuorumN nodes have answered and the guide lists the host: onJoined.
OnJoined(p) ==
  LET v == AddNodeInfo(view[p], p) IN
  /\ phase[p] = "ask" /\ Cardinality(asked[p].synced) >= asked[p].quorum
  /\ CheckJoinSuccess(p)
  /\ phase' = [phase EXCEPT ![p] = "run"]
  /\ view' = [view EXCEPT ![p] = v]
  /\ curr' = [curr EXCEPT ![p] = GetFederationAddress(v)]
  /\ olds' = [olds EXCEPT ![p] = asked[p].sigs]
  /\ used' = [used EXCEPT ![p] = {GetFederationAddress(v)}]
  /\ asked' = [asked EXCEPT ![p] = None]
  /\ UNCHANGED <<peers, id, expected, storeVars, leaderVars, chain, taskVars, timers, mixed,
                 leaves, crashes>>

\* checkJoinSuccess gives up after twenty tries and the process panics.
JoinFailed(p) ==
  /\ phase[p] = "ask" /\ Cardinality(asked[p].synced) >= asked[p].quorum
  /\ phase' = [phase EXCEPT ![p] = "failed"]
  /\ Forget(p, InitWithNodeList(<<>>))
  /\ asked' = [asked EXCEPT ![p] = None]
  /\ UNCHANGED <<id, expected, storeVars, chain, olds, used, leaves, crashes>>

\* A restart reads the configuration file, which saveNewConfig has not written.
Restart(n) ==
  /\ n \in Crashers \cap Running /\ crashes < MaxCrash /\ crashes' = crashes + 1
  /\ Forget(n, Configured)
  /\ \E host \in Joiners \cup {None} :
       /\ host = None <=> Joiners = {}
       /\ expected' = [expected EXCEPT ![n] = host]
  /\ UNCHANGED <<phase, id, storeVars, chain, olds, used, asked, leaves>>

-----------------------------------------------------------------------------
Next ==
  \/ \E p \in Joiners, n \in Proc : InitJoin(p, n) \/ HandleJoinCheckSyncedRequest(p, n)
  \/ \E p \in Joiners : \/ ProcessSimpleSyncUpResponse(p) \/ SyncedBeforeJoin(p)
                        \/ OnJoined(p) \/ JoinFailed(p)
  \/ \E p \in Leavers : LeaveCluster(p)
  \/ \E m \in leaves : HandleLeaveRequest(m)
  \/ \E l \in Running : \E q \in SUBSET Running : DecideBlock(l, q)
  \/ \E n \in Proc :
       \/ JoinTimer(n) \/ LeaveTimer(n)
       \/ CommitBlock(n) \/ ProcessSyncUpResponse(n)
       \/ \E h \in 1..MaxHeight : StartJoined(n, h) \/ StartLeaved(n, h)
       \/ FinishJoined(n) \/ FinishLeaved(n)
       \/ Restart(n)

Spec == Init /\ [][Next]_vars

\* The timers, the leaders' ticks, the agreement among the nodes that accept a
\* block and the handlers of events go on; requests may be lost, nobody has
\* to join, to leave or to crash.
Fairness ==
  /\ WF_vars(\E l \in Running : \E q \in SUBSET Running : DecideBlock(l, q))
  /\ \A n \in Proc : /\ WF_vars(JoinTimer(n)) /\ WF_vars(LeaveTimer(n))
                     /\ WF_vars(CommitBlock(n)) /\ WF_vars(ProcessSyncUpResponse(n))
                     /\ WF_vars(\E h \in 1..MaxHeight : StartJoined(n, h))
                     /\ WF_vars(\E h \in 1..MaxHeight : StartLeaved(n, h))
                     /\ WF_vars(FinishJoined(n)) /\ WF_vars(FinishLeaved(n))

FairSpec == Spec /\ Fairness

-----------------------------------------------------------------------------
(* Properties.                                                             *)

Address == [keys : SUBSET Proc, m : Nat]
View == [list : Seq([host : Proc, normal : BOOLEAN]), size : Nat, quorum : Int]
Timer == [left : 0..3, fires : 0..1, who : Proc \cup Id \cup {None}]

\* Types of the variables; a height is one of the chain, and an event stands
\* for a reconfiguration block its node has committed.
TypeOK ==
  /\ view \in [Proc -> View]
  /\ peers \in [Proc -> SUBSET Id]
  /\ phase \in [Proc -> {"new", "sync", "ask", "run", "left", "failed"}]
  /\ id \in [Proc -> Id \cup {None}]
  /\ expected \in [Proc -> Joiners \cup {None}]
  /\ joinInfo \in [Proc -> Joiners \cup {None}] /\ newNodeHost \in [Proc -> Joiners \cup {None}]
  /\ leaveInfo \in [Proc -> Id \cup {None}] /\ leavingNodeId \in [Proc -> Id \cup {None}]
  /\ chain \in Seq([block : Block, accepted : SUBSET Proc])
  /\ height \in [Proc -> 0..Len(chain)] /\ votie \in [Proc -> Nat]
  /\ \A p \in Proc : \A h \in events[p] \cup ({joining[p], leaving[p]} \ {0}) :
       h \in 1..height[p] /\ chain[h].block.type # "TXS"
  /\ timers \in [Proc -> [join : Timer, leave : Timer]]
  /\ curr \in [Proc -> Address] /\ olds \in [Proc -> Seq(Address)]
  /\ used \in [Proc -> SUBSET Address] /\ mixed \in [Proc -> BOOLEAN]

\* Whatever the order of requests, blocks, syncs and restarts, the counters of
\* every running node fit its list: ClusterSize counts the normal nodes,
\* although a leave is deleted twice, by the request and by the block, and two
\* quorums of QuorumN of them share more than MaxFaultyN nodes, for either of
\* the two formulas of params.go.
SizesFitList ==
  \A p \in Running :
    /\ view[p].size = Cardinality(Normal(view[p].list))
    /\ 2 * view[p].quorum > view[p].size + F(view[p].size)

\* A broadcast of a running node reaches every normal member it knows of, and
\* looks up no peer beyond the end of its node list, nor does the handler of a
\* join (an index out of range panics): the list grows in AddNode, AddNodeInfo
\* and by a restart, the peers in the event handlers, the ids of joins come
\* from the chain, and the three have to stay in step.
PeersFitList ==
  \A p \in Running :
    /\ {i \in Normal(view[p].list) : view[p].list[i+1].host # p} \subseteq peers[p]
    /\ peers[p] \subseteq 0..Len(view[p].list)-1
    /\ joining[p] # 0 => chain[joining[p]].block.id <= Len(view[p].list)

\* With one join and one leave under way, whichever nodes have heard of them,
\* synced past them or forgotten them in a restart, a quorum of one running
\* node and a quorum of another among all the hosts the two know have a member
\* in common: no two blocks are decided side by side.
QuorumsOverlap ==
  \A p, n \in Running :
    view[p].quorum + view[n].quorum >
      Cardinality(GetFederationAddress(view[p]).keys \cup GetFederationAddress(view[n]).keys)

\* A node that has changed its address keeps watching every address it used
\* before, unless it restarted or handled a join and a leave at the same time:
\* then the address in between is lost.
KnowsFormer ==
  \A p \in Running : ~mixed[p] =>
    used[p] \subseteq {curr[p]} \cup Range(olds[p])

\* checkVote of node n accepts a vote of p only if its votie is genesis or has
\* n's QuorumN of prepares.
CheckVote(n, p) == id[p] < Len(view[n].list) /\ (votie[p] = 0 \/ votie[p] >= view[n].quorum)

\* No request, block or event is under way and all see the same members.
Settled ==
  /\ \A p \in Running : /\ newNodeHost[p] = None /\ leavingNodeId[p] = None
                        /\ events[p] = {} /\ joining[p] = 0 /\ leaving[p] = 0
                        /\ height[p] = Len(chain)
  /\ \A p, n \in Running : view[p].list = view[n].list
  /\ \A n \in Running : GetFederationAddress(view[n]).keys = Running

\* A node for which every member votes becomes the leader (rpc_handlers.go says
\* so of NotifyVote).  The votes are checked with the quorum of today, the
\* voties in them have the prepares that were enough when they were stored.
VotesElect ==
  Settled => \A n \in Running : Cardinality({p \in Running : CheckVote(n, p)}) >= view[n].quorum

\* A join or leave request that brings no agreement is withdrawn in the end
\* (blockstore.go says so at the end of the loops around the timers).  Nothing
\* is said of behaviours that reach the bound on the blocks.
RequestsAreSettled ==
  \A n \in Member :
    /\ leavingNodeId[n] # None ~> (leavingNodeId[n] = None \/ Len(chain) = MaxHeight)
    /\ newNodeHost[n] # None ~> (newNodeHost[n] = None \/ Len(chain) = MaxHeight)

=============================================================================

-------------------------- MODULE MembershipProofs --------------------------
(* Theorems about Membership, for every number of configured, joining and  *)
(* leaving nodes, of blocks, terms and restarts.                           *)
EXTENDS Membership, FiniteSetTheorems, TLAPS

-----------------------------------------------------------------------------
(* The strengthening, by the variables it is about                         *)

Entry == [host : Proc, normal : BOOLEAN]

\* The counters of a view fit its list, also of a node that is not running.
Fits(v) ==
  /\ v.size = Cardinality(Normal(v.list))
  /\ 2 * v.quorum > v.size + F(v.size)

ViewPart ==
  /\ view \in [Proc -> View] /\ peers \in [Proc -> SUBSET Id]
  /\ \A p \in Proc : Fits(view[p])

Asked == [guide : Proc, height : Nat, quorum : Int, accuse : Int,
          sigs : Seq(Address), synced : SUBSET Proc]

\* A process that syncs before it joins has the answer of its guide.
PhasePart ==
  /\ phase \in [Proc -> {"new", "sync", "ask", "run", "left", "failed"}]
  /\ id \in [Proc -> Id \cup {None}]
  /\ expected \in [Proc -> Joiners \cup {None}]
  /\ leaves \subseteq [to : Proc, id : Id \cup {None}]
  /\ asked \in [Proc -> Asked \cup {None}]
  /\ \A p \in Proc : phase[p] \in {"sync", "ask"} => asked[p] \in Asked

RequestPart ==
  /\ joinInfo \in [Proc -> Joiners \cup {None}]
  /\ newNodeHost \in [Proc -> Joiners \cup {None}]
  /\ leaveInfo \in [Proc -> Id \cup {None}]
  /\ leavingNodeId \in [Proc -> Id \cup {None}]

\* Only a running node handles events, and each of its two handlers has a block
\* of its own type.
ChainPart ==
  /\ chain \in Seq([block : Block, accepted : SUBSET Proc])
  /\ height \in [Proc -> 0..Len(chain)] /\ votie \in [Proc -> Nat]
  /\ events \in [Proc -> SUBSET Nat]
  /\ joining \in [Proc -> Nat] /\ leaving \in [Proc -> Nat]
  /\ \A p \in Proc : \A h \in events[p] :
       h \in 1..height[p] /\ chain[h].block.type # "TXS"
  /\ \A p \in Proc : joining[p] # 0 =>
       joining[p] \in 1..height[p] /\ chain[joining[p]].block.type = "JOIN"
  /\ \A p \in Proc : leaving[p] # 0 =>
       leaving[p] \in 1..height[p] /\ chain[leaving[p]].block.type = "LEAVE"
  /\ \A p \in Proc : phase[p] # "run" =>
       events[p] = {} /\ joining[p] = 0 /\ leaving[p] = 0

\* A timer fires once, so the loop around it never comes to its third turn.
TimerPart ==
  /\ timers \in [Proc -> [join : Timer, leave : Timer]]
  /\ \A p \in Proc : timers[p].leave.fires > 0 => timers[p].leave.left \in {0, 3}

\* While a handler waits, the address it replaces is among the former ones.
SigPart ==
  /\ curr \in [Proc -> Address] /\ olds \in [Proc -> Seq(Address)]
  /\ used \in [Proc -> SUBSET Address] /\ mixed \in [Proc -> BOOLEAN]
  /\ \A p \in Proc : ~mixed[p] => joining[p] = 0 \/ leaving[p] = 0
  /\ \A p \in Proc : ~mixed[p] /\ (joining[p] # 0 \/ leaving[p] # 0) =>
       curr[p] \in Range(olds[p])
  /\ \A p \in Proc : phase[p] = "run" /\ ~mixed[p] =>
       used[p] \subseteq {curr[p]} \cup Range(olds[p])

IInv == ViewPart /\ PhasePart /\ RequestPart /\ ChainPart /\ TimerPart /\ SigPart

-----------------------------------------------------------------------------
(* Node lists and their counters                                           *)

\* The positions of the normal nodes of a list.
LEMMA NormalOfList ==
  ASSUME NEW list \in Seq(Entry)
  PROVE  /\ Len(list) \in Nat
         /\ Normal(list) \subseteq 0..Len(list)-1
         /\ IsFiniteSet(Normal(list)) /\ Cardinality(Normal(list)) \in Nat
<1>1. Len(list) \in Nat /\ Normal(list) \subseteq 0..Len(list)-1
  BY DEF Normal
<1>2. IsFiniteSet(0..Len(list)-1)
  BY <1>1, FS_Interval
<1>3. IsFiniteSet(Normal(list))
  BY <1>1, <1>2, FS_Subset
<1> QED BY <1>1, <1>3, FS_CardinalityType

\* AddNode and AddNodeInfo append a normal node.
LEMMA NormalAppend ==
  ASSUME NEW list \in Seq(Entry), NEW host \in Proc
  PROVE  LET new == Append(list, [host |-> host, normal |-> TRUE]) IN
         /\ new \in Seq(Entry) /\ Len(new) = Len(list) + 1
         /\ Normal(new) = Normal(list) \cup {Len(list)}
         /\ Cardinality(Normal(new)) = Cardinality(Normal(list)) + 1
<1> DEFINE e == [host |-> host, normal |-> TRUE]
           new == Append(list, e)
<1>1. e \in Entry /\ e.normal = TRUE
  BY DEF Entry
<1>2. /\ new \in Seq(Entry) /\ Len(new) = Len(list) + 1 /\ Len(list) \in Nat
      /\ \A i \in 1..Len(list) : new[i] = list[i]
      /\ new[Len(list) + 1] = e
  BY <1>1
<1> HIDE DEF new, e
<1>3. \A i \in 0..Len(list)-1 : new[i+1] = list[i+1]
  BY <1>2
<1>4. 0..Len(new)-1 = 0..Len(list)-1 \cup {Len(list)}
  BY <1>2
<1>5. Normal(new) = Normal(list) \cup {Len(list)}
  BY <1>1, <1>2, <1>3, <1>4 DEF Normal
<1>6. Len(list) \notin Normal(list) /\ IsFiniteSet(Normal(list))
  BY <1>2, NormalOfList
<1>7. Cardinality(Normal(new)) = Cardinality(Normal(list)) + 1
  BY <1>5, <1>6, FS_AddElement
<1> QED BY <1>2, <1>5, <1>7 DEF new, e

\* DeleteNode of a node that is normal.
LEMMA NormalDelete ==
  ASSUME NEW list \in Seq(Entry), NEW i \in Normal(list)
  PROVE  LET new == [list EXCEPT ![i+1].normal = FALSE] IN
         /\ new \in Seq(Entry) /\ Len(new) = Len(list)
         /\ Normal(new) = Normal(list) \ {i}
         /\ Cardinality(Normal(new)) = Cardinality(Normal(list)) - 1
         /\ \A j \in 1..Len(list) : new[j].host = list[j].host
<1> DEFINE new == [list EXCEPT ![i+1].normal = FALSE]
<1>1. /\ Len(list) \in Nat /\ i \in 0..Len(list)-1 /\ i+1 \in 1..Len(list)
      /\ IsFiniteSet(Normal(list))
  BY NormalOfList
<1>2. \A j \in 1..Len(list) : list[j] \in Entry
  OBVIOUS
<1>3. [list[i+1] EXCEPT !.normal = FALSE] \in Entry
  BY <1>1, <1>2 DEF Entry
<1>4. new \in Seq(Entry) /\ Len(new) = Len(list)
  BY <1>1, <1>3
<1>5. \A j \in 1..Len(list) : j # i+1 => new[j] = list[j]
  BY <1>1
<1>6. new[i+1].normal = FALSE /\ new[i+1].host = list[i+1].host
  BY <1>1, <1>2 DEF Entry
<1> HIDE DEF new
<1>7. \A j \in 0..Len(list)-1 : j # i => new[j+1] = list[j+1]
  BY <1>1, <1>5
<1>8. Normal(new) = Normal(list) \ {i}
  BY <1>1, <1>4, <1>6, <1>7 DEF Normal
<1>9. Cardinality(Normal(new)) = Cardinality(Normal(list)) - 1
  BY <1>1, <1>8, FS_RemoveElement
<1>10. \A j \in 1..Len(list) : new[j].host = list[j].host
  BY <1>1, <1>5, <1>6
<1> QED BY <1>4, <1>8, <1>9, <1>10 DEF new

\* Two quorums of QuorumN share more than MaxFaultyN nodes, by either formula.
LEMMA QuorumsFit ==
  ASSUME NEW n \in Nat
  PROVE  /\ F(n) \in Int /\ Quorum(n) \in Int /\ QuorumOfInfo(n) \in Int
         /\ 2 * Quorum(n) > n + F(n) /\ 2 * QuorumOfInfo(n) > n + F(n)
         /\ n + F(n) >= -1
<1>1. F(n) \in Int /\ F(n) >= -1
  BY DEF F
<1>2. 3 * F(n) <= n - 1
  BY DEF F
<1>3. n + F(n) \in Int /\ n + F(n) >= -1
  BY <1>1
<1>4. \A k \in Int : k \div 2 \in Int /\ 2 * (k \div 2) >= k - 1
  OBVIOUS
<1>5. PICK k \in Int : k = n + F(n)
  BY <1>3
<1>6. k \div 2 \in Int /\ 2 * (k \div 2) >= k - 1
  BY <1>4
<1>7. QuorumOfInfo(n) = k \div 2 + 1
  BY <1>5 DEF QuorumOfInfo
<1>8. QuorumOfInfo(n) \in Int /\ 2 * QuorumOfInfo(n) > n + F(n)
  BY <1>5, <1>6, <1>7
<1> QED BY <1>1, <1>2, <1>3, <1>8 DEF Quorum

\* A view that fits has a quorum that is a natural number and an address.
LEMMA ViewHasAddress ==
  ASSUME NEW v \in View, Fits(v)
  PROVE  v.quorum \in Nat /\ GetFederationAddress(v) \in Address
<1>1. v.list \in Seq(Entry) /\ v.size \in Nat /\ v.quorum \in Int
  BY DEF View, Entry
<1>2. F(v.size) \in Int /\ v.size + F(v.size) >= -1
  BY <1>1, QuorumsFit
<1>3. v.quorum \in Nat
  BY <1>1, <1>2 DEF Fits
<1>4. ASSUME NEW i \in Normal(v.list) PROVE v.list[i+1].host \in Proc
  <2>1. i \in 0..Len(v.list)-1 /\ Len(v.list) \in Nat
    BY <1>1, NormalOfList
  <2>2. i + 1 \in 1..Len(v.list)
    BY <2>1
  <2>3. v.list[i+1] \in Entry
    BY <1>1, <2>2
  <2> QED BY <2>3 DEF Entry
<1> QED BY <1>3, <1>4 DEF GetFederationAddress, Address

\* Init, InitWithNodeList and the answer of a guide.
LEMMA InitFits ==
  ASSUME NEW list \in Seq(Entry)
  PROVE  InitWithNodeList(list) \in View /\ Fits(InitWithNodeList(list))
  BY NormalOfList, QuorumsFit DEF InitWithNodeList, View, Fits, Entry

\* A process that has ended, and a node as its configuration file has it.
LEMMA ConfiguredFits ==
  /\ InitWithNodeList(<<>>) \in View /\ Fits(InitWithNodeList(<<>>))
  /\ Configured \in View /\ Fits(Configured)
<1>1. <<>> \in Seq(Entry)
  OBVIOUS
<1>2. \A i \in 1..N : [host |-> i - 1, normal |-> TRUE] \in Entry
  BY MembershipAssumption DEF Entry, Proc, Member
<1>3. [i \in 1..N |-> [host |-> i - 1, normal |-> TRUE]] \in Seq(Entry)
  BY <1>2, MembershipAssumption
<1> QED BY <1>1, <1>3, InitFits DEF Configured

\* AddNode and AddNodeInfo.
LEMMA AddFits ==
  ASSUME NEW v \in View, Fits(v), NEW host \in Proc, NEW i
  PROVE  /\ AddNode(v, host, i) \in View /\ Fits(AddNode(v, host, i))
         /\ AddNodeInfo(v, host) \in View /\ Fits(AddNodeInfo(v, host))
<1> DEFINE list == Append(v.list, [host |-> host, normal |-> TRUE])
<1>1. v.list \in Seq(Entry) /\ v.size \in Nat /\ v.quorum \in Int
  BY DEF View, Entry
<1>2. list \in Seq(Entry) /\ Cardinality(Normal(list)) = v.size + 1
  BY <1>1, NormalAppend DEF Fits
<1>3. v.size + 1 \in Nat
  BY <1>1
<1> HIDE DEF list
<1>4. /\ Quorum(v.size + 1) \in Int /\ QuorumOfInfo(v.size + 1) \in Int
      /\ 2 * Quorum(v.size + 1) > v.size + 1 + F(v.size + 1)
      /\ 2 * QuorumOfInfo(v.size + 1) > v.size + 1 + F(v.size + 1)
  BY <1>3, QuorumsFit
<1>5. /\ [list |-> list, size |-> v.size + 1, quorum |-> Quorum(v.size + 1)] \in View
      /\ [list |-> list, size |-> v.size + 1, quorum |-> QuorumOfInfo(v.size + 1)] \in View
  BY <1>2, <1>3, <1>4 DEF View, Entry
<1>6. Resized(list, v.size + 1) \in View /\ Fits(Resized(list, v.size + 1))
  BY <1>2, <1>4, <1>5 DEF Resized, Fits
<1>7. AddNode(v, host, i) \in View /\ Fits(AddNode(v, host, i))
  BY <1>6 DEF AddNode, list
<1>8. AddNodeInfo(v, host) = [list |-> list, size |-> v.size + 1, quorum |-> QuorumOfInfo(v.size + 1)]
  BY DEF AddNodeInfo, list
<1> QED BY <1>2, <1>4, <1>5, <1>7, <1>8 DEF Fits

\* DeleteNode, twice or of whatever id.
LEMMA DeleteFits ==
  ASSUME NEW v \in View, Fits(v), NEW i
  PROVE  DeleteNode(v, i) \in View /\ Fits(DeleteNode(v, i))
<1>1. CASE i \notin Normal(v.list)
  BY <1>1 DEF DeleteNode
<1>2. CASE i \in Normal(v.list)
  <2> DEFINE list == [v.list EXCEPT ![i+1].normal = FALSE]
  <2>1. v.list \in Seq(Entry) /\ v.size \in Nat /\ v.quorum \in Int
    BY DEF View, Entry
  <2>2. list \in Seq(Entry) /\ Cardinality(Normal(list)) = v.size - 1
    BY <1>2, <2>1, NormalDelete DEF Fits
  <2> HIDE DEF list
  <2>3. v.size - 1 \in Nat
    BY <2>2, NormalOfList
  <2>4. /\ Quorum(v.size - 1) \in Int
        /\ 2 * Quorum(v.size - 1) > v.size - 1 + F(v.size - 1)
    BY <2>3, QuorumsFit
  <2>5. Resized(list, v.size - 1) \in View
    BY <2>2, <2>3, <2>4 DEF View, Entry, Resized
  <2>6. Fits(Resized(list, v.size - 1))
    BY <2>2, <2>4 DEF Resized, Fits
  <2> QED BY <1>2, <2>5, <2>6 DEF DeleteNode, list
<1> QED BY <1>1, <1>2

\* AddMultiSigInfo keeps what it has and has the address it was given.
LEMMA FormerGrow ==
  ASSUME NEW sigs \in Seq(Address), NEW sig \in Address
  PROVE  /\ AddMultiSigInfo(sigs, sig) \in Seq(Address)
         /\ Range(sigs) \subseteq Range(AddMultiSigInfo(sigs, sig))
         /\ sig \in Range(AddMultiSigInfo(sigs, sig))
<1>1. CASE sigs # <<>> /\ Last(sigs) = sig
  <2>1. Len(sigs) \in 1..Len(sigs) /\ sigs[Len(sigs)] = sig
    BY <1>1 DEF Last
  <2>2. sig \in Range(sigs)
    BY <2>1 DEF Range
  <2> QED BY <1>1, <2>2 DEF AddMultiSigInfo
<1>2. CASE ~(sigs # <<>> /\ Last(sigs) = sig)
  <2>1. AddMultiSigInfo(sigs, sig) = Append(sigs, sig)
    BY <1>2 DEF AddMultiSigInfo
  <2>2. /\ Append(sigs, sig) \in Seq(Address)
        /\ DOMAIN sigs = 1..Len(sigs) /\ DOMAIN Append(sigs, sig) = 1..(Len(sigs) + 1)
        /\ \A i \in 1..Len(sigs) : Append(sigs, sig)[i] = sigs[i]
        /\ Append(sigs, sig)[Len(sigs) + 1] = sig /\ Len(sigs) \in Nat
    OBVIOUS
  <2>3. \A i \in DOMAIN sigs : i \in DOMAIN Append(sigs, sig)
    BY <2>2
  <2> QED BY <2>1, <2>2, <2>3 DEF Range
<1> QED BY <1>1, <1>2

-----------------------------------------------------------------------------
(* Each action preserves the strengthening                                 *)

\* A part whose variables do not change.
LEMMA PartsKept ==
  ASSUME IInv
  PROVE  /\ UNCHANGED <<view, peers>> => ViewPart'
         /\ UNCHANGED <<phase, id, expected, leaves, asked>> => PhasePart'
         /\ UNCHANGED <<joinInfo, newNodeHost, leaveInfo, leavingNodeId>> => RequestPart'
         /\ UNCHANGED <<chain, height, votie, events, joining, leaving, phase>> => ChainPart'
         /\ UNCHANGED timers => TimerPart'
         /\ UNCHANGED <<curr, olds, used, mixed, joining, leaving, phase>> => SigPart'
<1>1. UNCHANGED <<view, peers>> => ViewPart'
  BY DEF IInv, ViewPart
<1>2. UNCHANGED <<phase, id, expected, leaves, asked>> => PhasePart'
  BY DEF IInv, PhasePart
<1>3. UNCHANGED <<joinInfo, newNodeHost, leaveInfo, leavingNodeId>> => RequestPart'
  BY DEF IInv, RequestPart
<1>4. UNCHANGED <<chain, height, votie, events, joining, leaving, phase>> => ChainPart'
  BY DEF IInv, ChainPart
<1>5. UNCHANGED timers => TimerPart'
  BY DEF IInv, TimerPart
<1>6. UNCHANGED <<curr, olds, used, mixed, joining, leaving, phase>> => SigPart'
  BY DEF IInv, SigPart
<1> QED BY <1>1, <1>2, <1>3, <1>4, <1>5, <1>6

\* The timers a request starts and a turn of a loop leaves.
LEMMA TimerTypes ==
  /\ NoTimer \in Timer /\ NoTimer.left = 0
  /\ \A who \in Proc \cup Id \cup {None} :
       /\ NewTimer(who) \in Timer
       /\ NewTimer(who).left = 3
  BY DEF NoTimer, NewTimer, Timer

\* A timer of one node is replaced.
LEMMA TimerStep ==
  ASSUME IInv, NEW n \in Proc, NEW t \in Timer,
         \/ timers' = [timers EXCEPT ![n].join = t]
         \/ /\ timers' = [timers EXCEPT ![n].leave = t]
            /\ t.fires > 0 => t.left \in {0, 3}
  PROVE  TimerPart'
<1>1. timers \in [Proc -> [join : Timer, leave : Timer]]
  BY DEF IInv, TimerPart
<1>2. \A p \in Proc : timers[p].leave.fires > 0 => timers[p].leave.left \in {0, 3}
  BY DEF IInv, TimerPart
<1>3. CASE timers' = [timers EXCEPT ![n].join = t]
  <2>1. timers' \in [Proc -> [join : Timer, leave : Timer]]
    BY <1>1, <1>3
  <2>2. \A p \in Proc : timers'[p].leave = timers[p].leave
    BY <1>1, <1>3
  <2> QED BY <1>2, <2>1, <2>2 DEF TimerPart
<1>4. CASE /\ timers' = [timers EXCEPT ![n].leave = t]
           /\ t.fires > 0 => t.left \in {0, 3}
  <2>1. timers' \in [Proc -> [join : Timer, leave : Timer]]
    BY <1>1, <1>4
  <2>2. \A p \in Proc : timers'[p].leave = IF p = n THEN t ELSE timers[p].leave
    BY <1>1, <1>4
  <2> QED BY <1>2, <1>4, <2>1, <2>2 DEF TimerPart
<1> QED BY <1>3, <1>4

\* A joining process asks a node.
LEMMA JoinRequestStep ==
  ASSUME IInv, NEW p \in Joiners, NEW n \in Proc, HandleJoinCheckSyncedRequest(p, n)
  PROVE  IInv'
<1>1. p \in Proc /\ phase[p] = "ask"
  BY DEF Proc, HandleJoinCheckSyncedRequest
<1>2. /\ joinInfo' = [joinInfo EXCEPT ![n] = p]
      /\ newNodeHost' = [newNodeHost EXCEPT ![n] = p]
      /\ timers' = [timers EXCEPT ![n].join = IF n \in JoinTimed THEN NewTimer(p) ELSE @]
      /\ asked' = [asked EXCEPT ![p].synced = @ \cup {n}] \/ asked' = asked
      /\ UNCHANGED <<view, peers, phase, id, expected, height, leaveInfo, votie, leavingNodeId,
                     chain, events, joining, leaving, curr, olds, used, mixed, leaves>>
  BY DEF HandleJoinCheckSyncedRequest, clusterVars, taskVars, sigVars
<1>3. RequestPart'
  BY <1>2 DEF IInv, RequestPart
<1>4. TimerPart'
  <2> DEFINE t == IF n \in JoinTimed THEN NewTimer(p) ELSE timers[n].join
  <2>1. t \in Timer
    BY <1>1, TimerTypes DEF IInv, TimerPart
  <2>2. timers' = [timers EXCEPT ![n].join = t]
    BY <1>2
  <2> QED BY <2>1, <2>2, TimerStep
<1>5. PhasePart'
  <2>1. asked[p] \in Asked /\ asked \in [Proc -> Asked \cup {None}]
    BY <1>1 DEF IInv, PhasePart
  <2>2. [asked[p] EXCEPT !.synced = @ \cup {n}] \in Asked
    BY <2>1 DEF Asked
  <2>3. /\ asked' \in [Proc -> Asked \cup {None}]
        /\ \A r \in Proc : asked[r] \in Asked => asked'[r] \in Asked
    BY <1>1, <1>2, <2>1, <2>2
  <2> QED BY <1>2, <2>3 DEF IInv, PhasePart
<1> QED BY <1>2, <1>3, <1>4, <1>5, PartsKept DEF IInv

\* A node hears of a leave.
LEMMA LeaveRequestStep ==
  ASSUME IInv, NEW m \in leaves, HandleLeaveRequest(m)
  PROVE  IInv'
<1> DEFINE n == m.to
<1>1. n \in Proc /\ m.id \in Id \cup {None} /\ leaves \subseteq [to : Proc, id : Id \cup {None}]
  BY DEF IInv, PhasePart
<1>2. /\ leaves' = leaves \ {m}
      /\ leaveInfo' = [leaveInfo EXCEPT ![n] = m.id]
      /\ view' = [view EXCEPT ![n] = DeleteNode(view[n], m.id)]
      /\ leavingNodeId' = [leavingNodeId EXCEPT ![n] = m.id]
      /\ timers' = [timers EXCEPT ![n].leave = IF n \in LeaveTimed THEN NewTimer(m.id) ELSE @]
      /\ UNCHANGED <<peers, phase, id, expected, height, votie, joinInfo, newNodeHost, chain,
                     events, joining, leaving, curr, olds, used, mixed, asked>>
  BY DEF HandleLeaveRequest, taskVars, sigVars
<1> HIDE DEF n
<1>3. RequestPart'
  BY <1>1, <1>2 DEF IInv, RequestPart
<1>4. TimerPart'
  <2> DEFINE t == IF n \in LeaveTimed THEN NewTimer(m.id) ELSE timers[n].leave
  <2>1. t \in Timer /\ (t.fires > 0 => t.left \in {0, 3})
    BY <1>1, TimerTypes DEF IInv, TimerPart
  <2>2. timers' = [timers EXCEPT ![n].leave = t]
    BY <1>2
  <2> QED BY <1>1, <2>1, <2>2, TimerStep
<1>5. PhasePart'
  BY <1>2 DEF IInv, PhasePart
<1>6. ViewPart'
  <2>1. view[n] \in View /\ Fits(view[n])
    BY <1>1 DEF IInv, ViewPart
  <2>2. DeleteNode(view[n], m.id) \in View /\ Fits(DeleteNode(view[n], m.id))
    BY <2>1, DeleteFits
  <2> QED BY <1>1, <1>2, <2>2 DEF IInv, ViewPart
<1> QED BY <1>2, <1>3, <1>4, <1>5, <1>6, PartsKept DEF IInv

\* The loops around the timers: the third turn of the leave's, where RecoverNode
\* would count a node twice, is never reached.
LEMMA TimersStep ==
  ASSUME IInv, NEW n \in Proc, JoinTimer(n) \/ LeaveTimer(n)
  PROVE  IInv'
<1>1. timers[n].join \in Timer /\ timers[n].leave \in Timer
  BY DEF IInv, TimerPart
<1>2. CASE JoinTimer(n)
  <2> DEFINE t == timers[n].join
             new == timers'[n].join
  <2>1. PICK left \in {0, t.left - 1} :
          /\ t.left > 0 /\ t.fires > 0
          /\ timers' = [timers EXCEPT ![n].join = IF left = 0 THEN NoTimer
                                          ELSE [t EXCEPT !.left = left, !.fires = @ - 1]]
          /\ \/ newNodeHost' = [newNodeHost EXCEPT ![n] = None]
             \/ newNodeHost' = [newNodeHost EXCEPT ![n] = @]
          /\ UNCHANGED <<view, peers, phase, id, expected, height, joinInfo, leaveInfo, votie,
                         leavingNodeId, chain, events, joining, leaving, curr, olds, used,
                         mixed, asked, leaves>>
    BY <1>2 DEF JoinTimer, clusterVars, storeVars, taskVars, sigVars
  <2>2. left \in 0..3 /\ t.fires - 1 \in 0..1
    BY <1>1, <2>1 DEF Timer
  <2>3. [t EXCEPT !.left = left, !.fires = @ - 1] \in Timer
    BY <1>1, <2>2 DEF Timer
  <2>4. TimerPart'
    BY <2>1, <2>3, TimerTypes, TimerStep
  <2>5. RequestPart'
    BY <2>1 DEF IInv, RequestPart
  <2> QED BY <2>1, <2>4, <2>5, PartsKept DEF IInv
<1>3. CASE LeaveTimer(n)
  <2> DEFINE t == timers[n].leave
             gone == t.who \notin Normal(view[n].list)
             left == IF gone THEN 0 ELSE t.left - 1
  <2>1. /\ t.left > 0 /\ t.fires > 0
        /\ timers' = [timers EXCEPT ![n].leave = IF left = 0 THEN NoTimer
                                           ELSE [t EXCEPT !.left = left, !.fires = @ - 1]]
        /\ (left = 0 /\ ~gone) \/ UNCHANGED <<view, leavingNodeId>>
        /\ UNCHANGED <<peers, phase, id, expected, height, joinInfo, leaveInfo, votie,
                       newNodeHost, chain, events, joining, leaving, curr, olds, used,
                       mixed, asked, leaves>>
    BY <1>3 DEF LeaveTimer, storeVars, taskVars, sigVars
  <2>2. t.left = 3 /\ t.fires = 1
    BY <1>1, <2>1 DEF IInv, TimerPart, Timer
  <2>3. left \in {0, 2} /\ (left = 0 => gone)
    BY <2>2
  <2>4. UNCHANGED <<view, leavingNodeId>>
    BY <2>1, <2>3
  <2> HIDE DEF left
  <2> DEFINE turn == [t EXCEPT !.left = left, !.fires = @ - 1]
  <2>5. left \in 0..3 /\ t.fires - 1 \in 0..1 /\ t.fires - 1 = 0
    BY <2>2, <2>3
  <2>6. turn \in Timer /\ turn.fires = 0
    BY <1>1, <2>5 DEF Timer
  <2>7. NoTimer \in Timer /\ NoTimer.left = 0
    BY TimerTypes
  <2> HIDE DEF turn
  <2>8. TimerPart'
    <3> DEFINE new == IF left = 0 THEN NoTimer ELSE turn
    <3>1. new \in Timer /\ (new.fires > 0 => new.left \in {0, 3})
      BY <2>6, <2>7
    <3>2. timers' = [timers EXCEPT ![n].leave = new]
      BY <2>1 DEF turn
    <3> QED BY <3>1, <3>2, TimerStep
  <2> QED BY <2>1, <2>4, <2>8, PartsKept DEF IInv
<1> QED BY <1>2, <1>3

\* A leader's block is decided.
LEMMA DecideStep ==
  ASSUME IInv, NEW l \in Running, NEW q \in SUBSET Running, DecideBlock(l, q)
  PROVE  IInv'
<1>1. l \in Proc /\ q \subseteq Proc
  BY DEF Running
<1>2. PICK b \in BlockToInit(l) : chain' = Append(chain, [block |-> b, accepted |-> q])
  BY DEF DecideBlock
<1>3. UNCHANGED <<view, peers, phase, id, expected, height, joinInfo, leaveInfo, votie,
                  newNodeHost, leavingNodeId, events, joining, leaving, timers, curr, olds,
                  used, mixed, asked, leaves>>
  BY DEF DecideBlock, clusterVars, storeVars, leaderVars, taskVars, sigVars
<1>4. b \in Block
  <2>1. Len(view[l].list) \in Nat
    BY <1>1 DEF IInv, ViewPart, View
  <2>2. newNodeHost[l] \in Joiners \cup {None} /\ leavingNodeId[l] \in Id \cup {None}
    BY <1>1 DEF IInv, RequestPart
  <2>3. CASE newNodeHost[l] # None
    BY <2>1, <2>2, <2>3 DEF BlockToInit, Block, Id
  <2>4. CASE newNodeHost[l] = None /\ leavingNodeId[l] # None
    BY <2>2, <2>4 DEF BlockToInit, Block
  <2>5. CASE newNodeHost[l] = None /\ leavingNodeId[l] = None
    BY <2>5 DEF BlockToInit, Block
  <2> QED BY <2>3, <2>4, <2>5
<1>5. chain \in Seq([block : Block, accepted : SUBSET Proc]) /\ Len(chain) \in Nat
  BY DEF IInv, ChainPart
<1>6. /\ chain' \in Seq([block : Block, accepted : SUBSET Proc])
      /\ Len(chain') = Len(chain) + 1
      /\ \A h \in 1..Len(chain) : chain'[h] = chain[h]
  BY <1>1, <1>2, <1>4, <1>5
<1>10. height \in [Proc -> 0..Len(chain)]
  BY DEF IInv, ChainPart
<1>11. 0..Len(chain) \subseteq 0..Len(chain')
  BY <1>5, <1>6
<1>7. height' \in [Proc -> 0..Len(chain')]
  BY <1>3, <1>10, <1>11
<1>8. \A p \in Proc : \A h \in 1..height[p] : chain'[h] = chain[h]
  <2>1. \A p \in Proc : height[p] \in 0..Len(chain)
    BY <1>10
  <2>2. \A p \in Proc : 1..height[p] \subseteq 1..Len(chain)
    BY <1>5, <2>1
  <2> QED BY <1>6, <2>2
<1>9. ChainPart'
  <2>1. votie' \in [Proc -> Nat] /\ events' \in [Proc -> SUBSET Nat]
        /\ joining' \in [Proc -> Nat] /\ leaving' \in [Proc -> Nat]
    BY <1>3 DEF IInv, ChainPart
  <2>2. \A p \in Proc : \A h \in events'[p] :
          h \in 1..height'[p] /\ chain'[h].block.type # "TXS"
    BY <1>3, <1>8 DEF IInv, ChainPart
  <2>3. \A p \in Proc : joining'[p] # 0 =>
          joining'[p] \in 1..height'[p] /\ chain'[joining'[p]].block.type = "JOIN"
    BY <1>3, <1>8 DEF IInv, ChainPart
  <2>4. \A p \in Proc : leaving'[p] # 0 =>
          leaving'[p] \in 1..height'[p] /\ chain'[leaving'[p]].block.type = "LEAVE"
    BY <1>3, <1>8 DEF IInv, ChainPart
  <2>5. \A p \in Proc : phase'[p] # "run" =>
          events'[p] = {} /\ joining'[p] = 0 /\ leaving'[p] = 0
    BY <1>3 DEF IInv, ChainPart
  <2> QED BY <1>6, <1>7, <2>1, <2>2, <2>3, <2>4, <2>5 DEF ChainPart
<1> QED BY <1>3, <1>9, PartsKept DEF IInv

\* A node commits or syncs the next block, or its height does not change.
LEMMA HeightStep ==
  ASSUME IInv, NEW n \in Proc, NEW E \in SUBSET {height[n] + 1},
         height[n] + 1 <= Len(chain), height' = [height EXCEPT ![n] = height[n] + 1],
         events' = [events EXCEPT ![n] = @ \cup E],
         E # {} => phase[n] = "run" /\ chain[height[n] + 1].block.type # "TXS",
         votie' \in [Proc -> Nat], UNCHANGED <<chain, joining, leaving, phase>>
  PROVE  ChainPart'
<1>1. /\ height \in [Proc -> 0..Len(chain)] /\ Len(chain) \in Nat
      /\ events \in [Proc -> SUBSET Nat]
  BY DEF IInv, ChainPart
<1>7. height[n] + 1 \in 0..Len(chain) /\ height[n] + 1 \in Nat
  BY <1>1
<1>8. E \subseteq Nat
  BY <1>7
<1>2. height' \in [Proc -> 0..Len(chain')] /\ events' \in [Proc -> SUBSET Nat]
  BY <1>1, <1>7, <1>8
<1>3. \A p \in Proc : height[p] <= height'[p] /\ height[p] \in Nat /\ height'[p] \in Nat
  BY <1>1
<1>4. \A p \in Proc : 1..height[p] \subseteq 1..height'[p]
  BY <1>3
<1>5. ASSUME NEW p \in Proc, NEW h \in events'[p]
      PROVE  h \in 1..height'[p] /\ chain'[h].block.type # "TXS"
  <2>1. h \in events[p] \/ (p = n /\ h \in E)
    BY <1>1
  <2>2. CASE h \in events[p]
    BY <1>4, <2>2 DEF IInv, ChainPart
  <2>3. CASE p = n /\ h \in E
    BY <1>1, <2>3
  <2> QED BY <2>1, <2>2, <2>3
<1>6. \A p \in Proc : phase[p] # "run" => events'[p] = events[p]
  BY <1>1
<1> QED BY <1>2, <1>4, <1>5, <1>6 DEF IInv, ChainPart

\* A node that accepted a block commits it; a block is synced.
LEMMA CommitStep ==
  ASSUME IInv, NEW n \in Proc, CommitBlock(n) \/ ProcessSyncUpResponse(n)
  PROVE  IInv'
<1> DEFINE h == height[n] + 1
<1>1. view[n].quorum \in Nat
  BY ViewHasAddress DEF IInv, ViewPart
<1>2. CASE CommitBlock(n)
  <2> DEFINE b == chain[h].block
             E == IF b.type = "LEAVE" \/ (b.type = "JOIN" /\ joinInfo[n] # None)
                  THEN {h} ELSE {}
  <2>1. /\ h <= Len(chain) /\ phase[n] = "run"
        /\ height' = [height EXCEPT ![n] = h]
        /\ votie' = [votie EXCEPT ![n] = view[n].quorum]
        /\ events' = [events EXCEPT ![n] = @ \cup E]
        /\ UNCHANGED <<view, peers, phase, id, expected, joinInfo, leaveInfo, newNodeHost,
                       leavingNodeId, chain, joining, leaving, timers, curr, olds, used,
                       mixed, asked, leaves>>
    <3>1. events' = [events EXCEPT ![n] =
                       IF b.type = "LEAVE" \/ (b.type = "JOIN" /\ joinInfo[n] # None)
                       THEN @ \cup {h} ELSE @]
      BY <1>2 DEF CommitBlock
    <3>2. events' = [events EXCEPT ![n] = @ \cup E]
      BY <3>1
    <3> QED BY <1>2, <3>2 DEF CommitBlock, Running, clusterVars, leaderVars, sigVars
  <2>2. votie' \in [Proc -> Nat]
    BY <1>1, <2>1 DEF IInv, ChainPart
  <2>3. E # {} => b.type # "TXS"
    OBVIOUS
  <2>4. ChainPart'
    BY <2>1, <2>2, <2>3, HeightStep
  <2> QED BY <2>1, <2>4, PartsKept DEF IInv
<1>3. CASE ProcessSyncUpResponse(n)
  <2>1. /\ h <= Len(chain)
        /\ height' = [height EXCEPT ![n] = h]
        /\ UNCHANGED <<view, peers, phase, id, expected, joinInfo, leaveInfo, votie, newNodeHost,
                       leavingNodeId, chain, events, joining, leaving, timers, curr, olds, used,
                       mixed, asked, leaves>>
    BY <1>3 DEF ProcessSyncUpResponse, clusterVars, leaderVars, taskVars, sigVars
  <2>2. events' = [events EXCEPT ![n] = @ \cup {}] /\ votie' \in [Proc -> Nat]
    BY <2>1 DEF IInv, ChainPart
  <2>3. ChainPart'
    BY <2>1, <2>2, HeightStep
  <2> QED BY <2>1, <2>3, PartsKept DEF IInv
<1> QED BY <1>2, <1>3

\* One node takes an event from its queue or ends its handler.
LEMMA TaskStep ==
  ASSUME IInv, NEW n \in Proc, phase[n] = "run", NEW E \in SUBSET Nat, NEW j \in Nat, NEW v \in Nat,
         events' = [events EXCEPT ![n] = E], E \subseteq events[n],
         joining' = [joining EXCEPT ![n] = j], leaving' = [leaving EXCEPT ![n] = v],
         j # 0 => j \in 1..height[n] /\ chain[j].block.type = "JOIN",
         v # 0 => v \in 1..height[n] /\ chain[v].block.type = "LEAVE",
         UNCHANGED <<chain, height, votie, phase>>
  PROVE  ChainPart'
<1>0. /\ events \in [Proc -> SUBSET Nat]
      /\ joining \in [Proc -> Nat] /\ leaving \in [Proc -> Nat]
  BY DEF IInv, ChainPart
<1>1. /\ events' \in [Proc -> SUBSET Nat]
      /\ joining' \in [Proc -> Nat] /\ leaving' \in [Proc -> Nat]
  BY <1>0
<1>2. \A p \in Proc : events'[p] \subseteq events[p]
  BY <1>0
<1>3. \A p \in Proc : joining'[p] = IF p = n THEN j ELSE joining[p]
  BY <1>0
<1>4. \A p \in Proc : leaving'[p] = IF p = n THEN v ELSE leaving[p]
  BY <1>0
<1>5. \A p \in Proc : \A h \in events'[p] :
        h \in 1..height'[p] /\ chain'[h].block.type # "TXS"
  BY <1>2 DEF IInv, ChainPart
<1>6. \A p \in Proc : joining'[p] # 0 =>
        joining'[p] \in 1..height'[p] /\ chain'[joining'[p]].block.type = "JOIN"
  BY <1>3 DEF IInv, ChainPart
<1>7. \A p \in Proc : leaving'[p] # 0 =>
        leaving'[p] \in 1..height'[p] /\ chain'[leaving'[p]].block.type = "LEAVE"
  BY <1>4 DEF IInv, ChainPart
<1>8. \A p \in Proc : phase'[p] # "run" =>
        events'[p] = {} /\ joining'[p] = 0 /\ leaving'[p] = 0
  BY <1>2, <1>3, <1>4 DEF IInv, ChainPart
<1> QED BY <1>1, <1>5, <1>6, <1>7, <1>8 DEF IInv, ChainPart

\* What the addresses of one node may become.
LEMMA SigStep ==
  ASSUME IInv, NEW n \in Proc,
         curr' \in [Proc -> Address], olds' \in [Proc -> Seq(Address)],
         used' \in [Proc -> SUBSET Address], mixed' \in [Proc -> BOOLEAN],
         \A p \in Proc \ {n} :
           /\ curr'[p] = curr[p] /\ olds'[p] = olds[p] /\ used'[p] = used[p]
           /\ mixed'[p] = mixed[p] /\ joining'[p] = joining[p] /\ leaving'[p] = leaving[p]
           /\ phase'[p] = phase[p],
         ~mixed'[n] => joining'[n] = 0 \/ leaving'[n] = 0,
         ~mixed'[n] /\ (joining'[n] # 0 \/ leaving'[n] # 0) => curr'[n] \in Range(olds'[n]),
         phase'[n] = "run" /\ ~mixed'[n] => used'[n] \subseteq {curr'[n]} \cup Range(olds'[n])
  PROVE  SigPart'
<1>1. \A p \in Proc : ~mixed'[p] => joining'[p] = 0 \/ leaving'[p] = 0
  BY DEF IInv, SigPart
<1>2. \A p \in Proc : ~mixed'[p] /\ (joining'[p] # 0 \/ leaving'[p] # 0) =>
        curr'[p] \in Range(olds'[p])
  BY DEF IInv, SigPart
<1>3. \A p \in Proc : phase'[p] = "run" /\ ~mixed'[p] =>
        used'[p] \subseteq {curr'[p]} \cup Range(olds'[p])
  BY DEF IInv, SigPart
<1> QED BY <1>1, <1>2, <1>3 DEF SigPart

\* JoinedEvent and LeavedEvent: the current address joins the former ones.
LEMMA StartStep ==
  ASSUME IInv, NEW n \in Proc, NEW h \in 1..MaxHeight, StartJoined(n, h) \/ StartLeaved(n, h)
  PROVE  IInv'
<1>0. /\ events \in [Proc -> SUBSET Nat]
      /\ joining \in [Proc -> Nat] /\ leaving \in [Proc -> Nat]
  BY DEF IInv, ChainPart
<1>1. /\ h \in events[n] /\ events' = [events EXCEPT ![n] = @ \ {h}]
      /\ olds' = [olds EXCEPT ![n] = AddMultiSigInfo(@, curr[n])]
      /\ UNCHANGED <<view, peers, phase, id, expected, height, votie, chain, timers, curr,
                     used, asked, leaves>>
  BY DEF StartJoined, StartLeaved, clusterVars
<1>2. /\ phase[n] = "run" /\ h \in 1..height[n]
  BY <1>1 DEF IInv, ChainPart
<1>3. \/ /\ chain[h].block.type = "JOIN" /\ joining[n] = 0
         /\ joining' = [joining EXCEPT ![n] = h] /\ leaving' = leaving
         /\ mixed' = [mixed EXCEPT ![n] = @ \/ leaving[n] # 0]
         /\ joinInfo' = [joinInfo EXCEPT ![n] = None]
         /\ newNodeHost' = [newNodeHost EXCEPT ![n] = None]
         /\ UNCHANGED <<leaveInfo, leavingNodeId>>
      \/ /\ chain[h].block.type = "LEAVE" /\ leaving[n] = 0
         /\ leaving' = [leaving EXCEPT ![n] = h] /\ joining' = joining
         /\ mixed' = [mixed EXCEPT ![n] = @ \/ joining[n] # 0]
         /\ leaveInfo' = [leaveInfo EXCEPT ![n] = None]
         /\ leavingNodeId' = [leavingNodeId EXCEPT ![n] = None]
         /\ UNCHANGED <<joinInfo, newNodeHost>>
  BY DEF StartJoined, StartLeaved
<1>4. RequestPart'
  BY <1>3 DEF IInv, RequestPart
<1>5. /\ joining[n] # 0 => joining[n] \in 1..height[n] /\ chain[joining[n]].block.type = "JOIN"
      /\ leaving[n] # 0 => leaving[n] \in 1..height[n] /\ chain[leaving[n]].block.type = "LEAVE"
  BY DEF IInv, ChainPart
<1>6. ChainPart'
  <2> DEFINE E == events[n] \ {h}
  <2>1. E \in SUBSET Nat /\ E \subseteq events[n] /\ events' = [events EXCEPT ![n] = E]
    BY <1>0, <1>1
  <2>2. h \in Nat /\ joining[n] \in Nat /\ leaving[n] \in Nat
    BY <1>0
  <2> HIDE DEF E
  <2>3. CASE joining' = [joining EXCEPT ![n] = h] /\ leaving' = leaving /\ chain[h].block.type = "JOIN"
    <3>1. leaving' = [leaving EXCEPT ![n] = leaving[n]]
      BY <1>0, <2>3
    <3> QED BY <1>1, <1>2, <1>5, <2>1, <2>2, <2>3, <3>1, TaskStep
  <2>4. CASE leaving' = [leaving EXCEPT ![n] = h] /\ joining' = joining /\ chain[h].block.type = "LEAVE"
    <3>1. joining' = [joining EXCEPT ![n] = joining[n]]
      BY <1>0, <2>4
    <3> QED BY <1>1, <1>2, <1>5, <2>1, <2>2, <2>4, <3>1, TaskStep
  <2> QED BY <1>3, <2>3, <2>4
<1>7. SigPart'
  <2>0. /\ curr \in [Proc -> Address] /\ olds \in [Proc -> Seq(Address)]
        /\ used \in [Proc -> SUBSET Address] /\ mixed \in [Proc -> BOOLEAN]
    BY DEF IInv, SigPart
  <2>1. /\ olds'[n] \in Seq(Address)
        /\ Range(olds[n]) \subseteq Range(olds'[n]) /\ curr[n] \in Range(olds'[n])
    BY <1>1, <2>0, FormerGrow
  <2>2. olds' \in [Proc -> Seq(Address)] /\ \A p \in Proc \ {n} : olds'[p] = olds[p]
    BY <1>1, <2>0, <2>1
  <2>3. mixed' \in [Proc -> BOOLEAN]
    BY <1>3, <2>0, Zenon
  <2>4. \A p \in Proc \ {n} :
          mixed'[p] = mixed[p] /\ joining'[p] = joining[p] /\ leaving'[p] = leaving[p]
    BY <1>0, <1>3, <2>0
  <2>5. ~mixed'[n] => ~mixed[n] /\ (joining'[n] = 0 \/ leaving'[n] = 0)
    BY <1>0, <1>3, <2>0
  <2>6. phase'[n] = "run" /\ ~mixed'[n] => used'[n] \subseteq {curr'[n]} \cup Range(olds'[n])
    BY <1>1, <2>1, <2>5 DEF IInv, SigPart
  <2> QED BY <1>1, <2>0, <2>1, <2>2, <2>3, <2>4, <2>5, <2>6, SigStep
<1> QED BY <1>1, <1>4, <1>6, <1>7, PartsKept DEF IInv

\* The handler goes on with the new list and the new address.
LEMMA ReconfigureStep ==
  ASSUME IInv, NEW n \in Proc, NEW v \in View, Fits(v), Reconfigure(n, v),
         peers' \in [Proc -> SUBSET Id], joining[n] # 0 \/ leaving[n] # 0,
         \/ joining' = [joining EXCEPT ![n] = 0] /\ leaving' = leaving /\ joining[n] # 0
         \/ leaving' = [leaving EXCEPT ![n] = 0] /\ joining' = joining /\ leaving[n] # 0,
         UNCHANGED <<phase, id, chain, height, votie, events, olds, mixed, asked, leaves>>
  PROVE  ViewPart' /\ PhasePart' /\ ChainPart' /\ SigPart'
<1>0. /\ events \in [Proc -> SUBSET Nat]
      /\ joining \in [Proc -> Nat] /\ leaving \in [Proc -> Nat]
  BY DEF IInv, ChainPart
<1>1. /\ view' = [view EXCEPT ![n] = v]
      /\ curr' = [curr EXCEPT ![n] = GetFederationAddress(v)]
      /\ used' = [used EXCEPT ![n] = @ \cup {GetFederationAddress(v)}]
      /\ expected' = [expected EXCEPT ![n] = None]
  BY DEF Reconfigure
<1>2. ViewPart'
  BY <1>1 DEF IInv, ViewPart
<1>3. PhasePart'
  BY <1>1 DEF IInv, PhasePart
<1>4. phase[n] = "run"
  BY DEF IInv, ChainPart
<1>5. ChainPart'
  <2>1. /\ joining[n] # 0 => joining[n] \in 1..height[n] /\ chain[joining[n]].block.type = "JOIN"
        /\ leaving[n] # 0 => leaving[n] \in 1..height[n] /\ chain[leaving[n]].block.type = "LEAVE"
    BY DEF IInv, ChainPart
  <2>2. /\ events[n] \in SUBSET Nat /\ joining[n] \in Nat /\ leaving[n] \in Nat /\ 0 \in Nat
        /\ events' = [events EXCEPT ![n] = events[n]]
        /\ joining = [joining EXCEPT ![n] = joining[n]]
        /\ leaving = [leaving EXCEPT ![n] = leaving[n]]
    BY <1>0
  <2>3. CASE joining' = [joining EXCEPT ![n] = 0] /\ leaving' = leaving
    BY <1>4, <2>1, <2>2, <2>3, TaskStep
  <2>4. CASE leaving' = [leaving EXCEPT ![n] = 0] /\ joining' = joining
    BY <1>4, <2>1, <2>2, <2>4, TaskStep
  <2> QED BY <2>3, <2>4
<1>6. SigPart'
  <2>0. /\ curr \in [Proc -> Address] /\ olds \in [Proc -> Seq(Address)]
        /\ used \in [Proc -> SUBSET Address] /\ mixed \in [Proc -> BOOLEAN]
    BY DEF IInv, SigPart
  <2>1. GetFederationAddress(v) \in Address
    BY ViewHasAddress
  <2>2. curr' \in [Proc -> Address] /\ used' \in [Proc -> SUBSET Address]
    BY <1>1, <2>0, <2>1
  <2>3. \A p \in Proc \ {n} : /\ curr'[p] = curr[p] /\ used'[p] = used[p]
                              /\ joining'[p] = joining[p] /\ leaving'[p] = leaving[p]
    BY <1>0, <1>1, <2>0
  <2>4. ~mixed[n] => joining'[n] = 0 /\ leaving'[n] = 0
    BY <1>0 DEF IInv, SigPart
  <2>5. ~mixed[n] => curr[n] \in Range(olds[n]) /\ used[n] \subseteq {curr[n]} \cup Range(olds[n])
    BY <1>4 DEF IInv, SigPart
  <2>6. ~mixed[n] => used'[n] \subseteq {curr'[n]} \cup Range(olds[n])
    BY <1>1, <2>0, <2>5
  <2> QED BY <2>0, <2>2, <2>3, <2>4, <2>6, SigStep
<1> QED BY <1>2, <1>3, <1>5, <1>6

\* The handler of a join ends, or ends the process.
LEMMA FinishJoinedCases ==
  ASSUME NEW n, FinishJoined(n)
  PROVE  /\ joining[n] # 0
         /\ LET b == chain[joining[n]].block IN
            \/ /\ b.id > Len(view[n].list)
               /\ HandlerPanics(n)
            \/ /\ joining' = [joining EXCEPT ![n] = 0]
               /\ Reconfigure(n, AddNode(view[n], b.host, b.id))
               /\ peers' = [peers EXCEPT ![n] = @ \cup {b.id}]
               /\ UNCHANGED <<phase, id, height, joinInfo, leaveInfo, votie, newNodeHost,
                              leavingNodeId, chain, events, leaving, timers, olds, mixed, asked,
                              leaves>>
  BY DEF FinishJoined, storeVars, leaderVars

\* The end of the two handlers.
LEMMA FinishStep ==
  ASSUME IInv, NEW n \in Proc, FinishJoined(n) \/ FinishLeaved(n), ~HandlerPanics(n)
  PROVE  IInv'
<1>0. view[n] \in View /\ Fits(view[n]) /\ peers \in [Proc -> SUBSET Id]
  BY DEF IInv, ViewPart
<1>1. CASE FinishJoined(n)
  <2> DEFINE b == chain[joining[n]].block
  <2>1. /\ joining[n] # 0 /\ joining' = [joining EXCEPT ![n] = 0]
        /\ Reconfigure(n, AddNode(view[n], b.host, b.id))
        /\ peers' = [peers EXCEPT ![n] = @ \cup {b.id}]
        /\ UNCHANGED <<phase, id, height, joinInfo, leaveInfo, votie, newNodeHost, leavingNodeId,
                       chain, events, leaving, timers, olds, mixed, asked, leaves>>
    BY <1>1, FinishJoinedCases
  <2>2. b \in Block /\ b.type = "JOIN"
    <3>1. joining[n] \in 1..height[n] /\ height[n] \in 0..Len(chain) /\ b.type = "JOIN"
          /\ chain \in Seq([block : Block, accepted : SUBSET Proc])
      BY <2>1 DEF IInv, ChainPart
    <3>2. joining[n] \in 1..Len(chain)
      BY <3>1
    <3>4. \A S : \A c \in Seq(S) : \A h \in 1..Len(c) : c[h] \in S
      OBVIOUS
    <3>3. chain[joining[n]] \in [block : Block, accepted : SUBSET Proc]
      BY <3>1, <3>2, <3>4
    <3> QED BY <3>1, <3>3
  <2>3. b.host \in Proc /\ b.id \in Id
    BY <2>2 DEF Block, Proc
  <2> HIDE DEF b
  <2>4. AddNode(view[n], b.host, b.id) \in View /\ Fits(AddNode(view[n], b.host, b.id))
    BY <1>0, <2>3, AddFits
  <2>5. peers' \in [Proc -> SUBSET Id]
    BY <1>0, <2>1, <2>3
  <2>6. ViewPart' /\ PhasePart' /\ ChainPart' /\ SigPart'
    BY <2>1, <2>4, <2>5, ReconfigureStep
  <2> QED BY <2>1, <2>6, PartsKept DEF IInv
<1>2. CASE FinishLeaved(n)
  <2> DEFINE i == chain[leaving[n]].block.id
  <2>1. /\ leaving[n] # 0 /\ leaving' = [leaving EXCEPT ![n] = 0]
        /\ Reconfigure(n, DeleteNode(view[n], i))
        /\ UNCHANGED <<peers, phase, id, height, joinInfo, leaveInfo, votie, newNodeHost,
                       leavingNodeId, chain, events, joining, timers, olds, mixed, asked, leaves>>
    BY <1>2 DEF FinishLeaved, storeVars, leaderVars
  <2> HIDE DEF i
  <2>2. DeleteNode(view[n], i) \in View /\ Fits(DeleteNode(view[n], i))
    BY <1>0, DeleteFits
  <2>3. ViewPart' /\ PhasePart' /\ ChainPart' /\ SigPart'
    BY <1>0, <2>1, <2>2, ReconfigureStep
  <2> QED BY <2>1, <2>3, PartsKept DEF IInv
<1> QED BY <1>1, <1>2

\* A process ends or starts again: all it has in memory is reset.
LEMMA ForgetStep ==
  ASSUME IInv, NEW n \in Proc, NEW v \in View, Fits(v), Forget(n, v),
         \A p \in Proc : phase'[p] = "run" => phase[p] = "run",
         \A p \in Proc \ {n} : phase'[p] = phase[p],
         UNCHANGED <<joinInfo, leaveInfo, chain, height, votie, olds, used>>
  PROVE  ViewPart' /\ RequestPart' /\ ChainPart' /\ TimerPart' /\ SigPart'
<1>0. /\ view' = [view EXCEPT ![n] = v] /\ peers' = [peers EXCEPT ![n] = Normal(v.list)]
      /\ newNodeHost' = [newNodeHost EXCEPT ![n] = None]
      /\ leavingNodeId' = [leavingNodeId EXCEPT ![n] = None]
      /\ events' = [events EXCEPT ![n] = {}]
      /\ joining' = [joining EXCEPT ![n] = 0] /\ leaving' = [leaving EXCEPT ![n] = 0]
      /\ timers' = [timers EXCEPT ![n] = [join |-> NoTimer, leave |-> NoTimer]]
      /\ curr' = [curr EXCEPT ![n] = GetFederationAddress(v)]
      /\ mixed' = [mixed EXCEPT ![n] = TRUE]
  BY DEF Forget
<1>1. ViewPart'
  <2>1. v.list \in Seq(Entry)
    BY DEF View, Entry
  <2>2. Normal(v.list) \subseteq Id
    BY <2>1, NormalOfList DEF Id
  <2> QED BY <1>0, <2>2 DEF IInv, ViewPart
<1>2. RequestPart'
  BY <1>0 DEF IInv, RequestPart
<1>3. ChainPart'
  <2>0. /\ events \in [Proc -> SUBSET Nat]
        /\ joining \in [Proc -> Nat] /\ leaving \in [Proc -> Nat]
    BY DEF IInv, ChainPart
  <2>1. /\ events' \in [Proc -> SUBSET Nat]
        /\ joining' \in [Proc -> Nat] /\ leaving' \in [Proc -> Nat]
    BY <1>0, <2>0
  <2>2. /\ events'[n] = {} /\ joining'[n] = 0 /\ leaving'[n] = 0
        /\ \A p \in Proc \ {n} : /\ events'[p] = events[p] /\ joining'[p] = joining[p]
                                 /\ leaving'[p] = leaving[p]
    BY <1>0, <2>0
  <2>3. \A p \in Proc : \A h \in events'[p] :
          h \in 1..height'[p] /\ chain'[h].block.type # "TXS"
    BY <2>2 DEF IInv, ChainPart
  <2>4. \A p \in Proc : joining'[p] # 0 =>
          joining'[p] \in 1..height'[p] /\ chain'[joining'[p]].block.type = "JOIN"
    BY <2>2 DEF IInv, ChainPart
  <2>5. \A p \in Proc : leaving'[p] # 0 =>
          leaving'[p] \in 1..height'[p] /\ chain'[leaving'[p]].block.type = "LEAVE"
    BY <2>2 DEF IInv, ChainPart
  <2>6. \A p \in Proc : phase'[p] # "run" =>
          events'[p] = {} /\ joining'[p] = 0 /\ leaving'[p] = 0
    BY <2>2 DEF IInv, ChainPart
  <2> QED BY <2>1, <2>3, <2>4, <2>5, <2>6 DEF IInv, ChainPart
<1>4. TimerPart'
  <2>1. timers \in [Proc -> [join : Timer, leave : Timer]]
    BY DEF IInv, TimerPart
  <2>2. timers' \in [Proc -> [join : Timer, leave : Timer]]
    BY <1>0, <2>1, TimerTypes
  <2>3. \A p \in Proc : timers'[p].leave = IF p = n THEN NoTimer ELSE timers[p].leave
    BY <1>0, <2>1
  <2> QED BY <2>2, <2>3, TimerTypes DEF IInv, TimerPart
<1>5. SigPart'
  <2>0. /\ curr \in [Proc -> Address] /\ olds \in [Proc -> Seq(Address)]
        /\ used \in [Proc -> SUBSET Address] /\ mixed \in [Proc -> BOOLEAN]
        /\ joining \in [Proc -> Nat] /\ leaving \in [Proc -> Nat]
    BY DEF IInv, SigPart, ChainPart
  <2>1. curr' \in [Proc -> Address] /\ mixed' \in [Proc -> BOOLEAN]
    BY <1>0, <2>0, ViewHasAddress
  <2>2. /\ mixed'[n] = TRUE
        /\ \A p \in Proc \ {n} :
             /\ curr'[p] = curr[p] /\ mixed'[p] = mixed[p]
             /\ joining'[p] = joining[p] /\ leaving'[p] = leaving[p]
    BY <1>0, <2>0
  <2> QED BY <2>0, <2>1, <2>2, SigStep
<1> QED BY <1>1, <1>2, <1>3, <1>4, <1>5

\* A node leaves, a join fails, a handler panics, a node restarts.
LEMMA EndStep ==
  ASSUME IInv, \/ \E p \in Leavers : LeaveCluster(p)
               \/ \E p \in Joiners : JoinFailed(p)
               \/ \E n \in Proc : HandlerPanics(n) \/ Restart(n)
  PROVE  IInv'
<1>1. ASSUME NEW p \in Leavers, LeaveCluster(p) PROVE IInv'
  <2>1. p \in Proc
    BY MembershipAssumption DEF Proc
  <2>2. /\ leaves' = leaves \cup {[to |-> view[p].list[i+1].host, id |-> id[p]] :
                             i \in (peers[p] \cap Normal(view[p].list)) \ {id[p]}}
        /\ phase' = [phase EXCEPT ![p] = "left"] /\ phase[p] = "run"
        /\ Forget(p, InitWithNodeList(<<>>))
        /\ UNCHANGED <<id, expected, height, joinInfo, leaveInfo, votie, chain, olds, used, asked>>
    BY <1>1 DEF LeaveCluster, storeVars, Running
  <2>3. leaves' \subseteq [to : Proc, id : Id \cup {None}]
    <3>1. view[p].list \in Seq(Entry) /\ id[p] \in Id \cup {None}
          /\ leaves \subseteq [to : Proc, id : Id \cup {None}]
      BY <2>1 DEF IInv, ViewPart, PhasePart, View, Entry
    <3>2. \A i \in Normal(view[p].list) : view[p].list[i+1].host \in Proc
      <4> TAKE i \in Normal(view[p].list)
      <4>1. i \in 0..Len(view[p].list)-1 /\ Len(view[p].list) \in Nat
        BY <3>1, NormalOfList
      <4>2. i + 1 \in 1..Len(view[p].list)
        BY <4>1
      <4>3. view[p].list[i+1] \in Entry
        BY <3>1, <4>2
      <4> QED BY <4>3 DEF Entry
    <3> QED BY <2>2, <3>1, <3>2
  <2>4. phase \in [Proc -> {"new", "sync", "ask", "run", "left", "failed"}]
    BY DEF IInv, PhasePart
  <2>5. \A q \in Proc : phase'[q] = IF q = p THEN "left" ELSE phase[q]
    BY <2>1, <2>2, <2>4
  <2>6. PhasePart'
    BY <2>2, <2>3, <2>4, <2>5 DEF IInv, PhasePart
  <2>7. ViewPart' /\ RequestPart' /\ ChainPart' /\ TimerPart' /\ SigPart'
    BY <2>1, <2>2, <2>5, ConfiguredFits, ForgetStep
  <2> QED BY <2>6, <2>7 DEF IInv
<1>2. ASSUME NEW p \in Joiners, JoinFailed(p) PROVE IInv'
  <2>1. p \in Proc
    BY DEF Proc
  <2>2. /\ phase' = [phase EXCEPT ![p] = "failed"]
        /\ Forget(p, InitWithNodeList(<<>>))
        /\ asked' = [asked EXCEPT ![p] = None]
        /\ UNCHANGED <<id, expected, height, joinInfo, leaveInfo, votie, chain, olds, used, leaves>>
    BY <1>2 DEF JoinFailed, storeVars
  <2>4. /\ phase \in [Proc -> {"new", "sync", "ask", "run", "left", "failed"}]
        /\ asked \in [Proc -> Asked \cup {None}]
    BY DEF IInv, PhasePart
  <2>5. \A q \in Proc : phase'[q] = IF q = p THEN "failed" ELSE phase[q]
    BY <2>1, <2>2, <2>4
  <2>6. PhasePart'
    BY <2>2, <2>4, <2>5 DEF IInv, PhasePart
  <2>7. ViewPart' /\ RequestPart' /\ ChainPart' /\ TimerPart' /\ SigPart'
    BY <2>1, <2>2, <2>5, ConfiguredFits, ForgetStep
  <2> QED BY <2>6, <2>7 DEF IInv
<1>3. ASSUME NEW n \in Proc, Restart(n) PROVE IInv'
  <2>1. /\ Forget(n, Configured)
        /\ \E host \in Joiners \cup {None} : expected' = [expected EXCEPT ![n] = host]
        /\ UNCHANGED <<phase, id, height, joinInfo, leaveInfo, votie, chain, olds, used, asked,
                       leaves>>
    BY <1>3 DEF Restart, storeVars
  <2>2. PhasePart'
    BY <2>1 DEF IInv, PhasePart
  <2>3. ViewPart' /\ RequestPart' /\ ChainPart' /\ TimerPart' /\ SigPart'
    BY <2>1, ConfiguredFits, ForgetStep
  <2> QED BY <2>2, <2>3 DEF IInv
<1>4. ASSUME NEW n \in Proc, HandlerPanics(n) PROVE IInv'
  <2>1. /\ phase' = [phase EXCEPT ![n] = "failed"]
        /\ Forget(n, InitWithNodeList(<<>>))
        /\ UNCHANGED <<id, expected, height, joinInfo, leaveInfo, votie, chain, olds, used, asked,
                       leaves>>
    BY <1>4 DEF HandlerPanics, storeVars
  <2>2. phase \in [Proc -> {"new", "sync", "ask", "run", "left", "failed"}]
    BY DEF IInv, PhasePart
  <2>3. \A q \in Proc : phase'[q] = IF q = n THEN "failed" ELSE phase[q]
    BY <2>1, <2>2
  <2>4. PhasePart'
    BY <2>1, <2>2, <2>3 DEF IInv, PhasePart
  <2>5. ViewPart' /\ RequestPart' /\ ChainPart' /\ TimerPart' /\ SigPart'
    BY <2>1, <2>3, ConfiguredFits, ForgetStep
  <2> QED BY <2>4, <2>5 DEF IInv
<1> QED BY <1>1, <1>2, <1>3, <1>4

\* A process that does not run yet enters another phase.
LEMMA PhaseChainStep ==
  ASSUME IInv, NEW p \in Proc, phase[p] # "run",
         \A q \in Proc \ {p} : phase'[q] = phase[q],
         UNCHANGED <<chain, height, votie, events, joining, leaving>>
  PROVE  ChainPart'
<1>1. \A q \in Proc : phase'[q] # "run" =>
        events'[q] = {} /\ joining'[q] = 0 /\ leaving'[q] = 0
  BY DEF IInv, ChainPart
<1> QED BY <1>1 DEF IInv, ChainPart

\* A process that does not run yet may change its address.
LEMMA JoinerSigStep ==
  ASSUME IInv, NEW p \in Proc, phase[p] # "run", phase'[p] # "run",
         \A q \in Proc \ {p} : phase'[q] = phase[q],
         NEW a \in Address, curr' = [curr EXCEPT ![p] = a],
         UNCHANGED <<olds, used, mixed, joining, leaving>>
  PROVE  SigPart'
<1>1. /\ curr \in [Proc -> Address] /\ olds \in [Proc -> Seq(Address)]
      /\ used \in [Proc -> SUBSET Address] /\ mixed \in [Proc -> BOOLEAN]
  BY DEF IInv, SigPart
<1>2. joining[p] = 0 /\ leaving[p] = 0
  BY DEF IInv, ChainPart
<1>3. curr' \in [Proc -> Address] /\ \A q \in Proc \ {p} : curr'[q] = curr[q]
  BY <1>1
<1> QED BY <1>1, <1>2, <1>3, SigStep

\* InitJoin: the first view is the guide's.
LEMMA InitJoinStep ==
  ASSUME IInv, NEW p \in Joiners, NEW g \in Proc, InitJoin(p, g)
  PROVE  IInv'
<1> DEFINE v == InitWithNodeList(view[g].list)
           a == [guide |-> g, height |-> height[g], quorum |-> v.quorum, accuse |-> F(v.size) + 1,
                 sigs |-> Append(olds[g], [GetFederationAddress(v) EXCEPT !.m = view[g].quorum]),
                 synced |-> {}]
<1>1. /\ phase[p] = "new" /\ phase' = [phase EXCEPT ![p] = "sync"]
      /\ view' = [view EXCEPT ![p] = v]
      /\ peers' = [peers EXCEPT ![p] = Normal(v.list)]
      /\ id' = [id EXCEPT ![p] = Len(v.list)]
      /\ asked' = [asked EXCEPT ![p] = a]
      /\ curr' = [curr EXCEPT ![p] = GetFederationAddress(v)]
      /\ UNCHANGED <<expected, height, joinInfo, leaveInfo, votie, newNodeHost, leavingNodeId,
                     chain, events, joining, leaving, timers, olds, used, mixed, leaves>>
  BY DEF InitJoin, GetClusterNodes, storeVars, leaderVars, taskVars
<1>2. p \in Proc /\ view[g] \in View /\ Fits(view[g]) /\ view[g].list \in Seq(Entry)
  BY DEF IInv, ViewPart, View, Entry, Proc
<1>3. v \in View /\ Fits(v)
  BY <1>2, InitFits
<1>4. v.list \in Seq(Entry) /\ v.size \in Nat /\ v.quorum \in Int
  BY <1>3 DEF View, Entry
<1>5. a \in Asked
  <2>1. GetFederationAddress(v) \in Address /\ view[g].quorum \in Nat
    BY <1>2, <1>3, ViewHasAddress
  <2>2. [GetFederationAddress(v) EXCEPT !.m = view[g].quorum] \in Address
    BY <2>1 DEF Address
  <2>3. olds[g] \in Seq(Address)
    BY DEF IInv, SigPart
  <2>4. Append(olds[g], [GetFederationAddress(v) EXCEPT !.m = view[g].quorum]) \in Seq(Address)
    BY <2>2, <2>3
  <2>6. height[g] \in Nat
    BY DEF IInv, ChainPart
  <2> HIDE DEF v
  <2>7. F(v.size) \in Int
    BY <1>4, QuorumsFit
  <2>5. F(v.size) + 1 \in Int
    BY <2>7
  <2> QED BY <1>4, <2>4, <2>5, <2>6 DEF Asked
<1> HIDE DEF v, a
<1>6. ViewPart'
  <2>1. Normal(v.list) \subseteq Id
    BY <1>4, NormalOfList DEF Id
  <2> QED BY <1>1, <1>2, <1>3, <2>1 DEF IInv, ViewPart
<1>7. PhasePart'
  <2>1. Len(v.list) \in Id
    BY <1>4 DEF Id
  <2>2. /\ phase \in [Proc -> {"new", "sync", "ask", "run", "left", "failed"}]
        /\ asked \in [Proc -> Asked \cup {None}]
    BY DEF IInv, PhasePart
  <2>3. \A q \in Proc : /\ phase'[q] = IF q = p THEN "sync" ELSE phase[q]
                        /\ asked'[q] = IF q = p THEN a ELSE asked[q]
    BY <1>1, <1>2, <2>2
  <2>4. \A q \in Proc : phase'[q] \in {"sync", "ask"} => asked'[q] \in Asked
    BY <1>5, <2>3 DEF IInv, PhasePart
  <2>5. asked' \in [Proc -> Asked \cup {None}]
    BY <1>1, <1>5, <2>2
  <2> QED BY <1>1, <2>1, <2>4, <2>5 DEF IInv, PhasePart
<1>8. /\ phase'[p] # "run" /\ phase[p] # "run"
      /\ \A q \in Proc \ {p} : phase'[q] = phase[q]
  BY <1>1, <1>2 DEF IInv, PhasePart
<1>9. ChainPart'
  BY <1>1, <1>2, <1>8, PhaseChainStep
<1>10. SigPart'
  BY <1>1, <1>2, <1>3, <1>8, ViewHasAddress, JoinerSigStep
<1> QED BY <1>1, <1>6, <1>7, <1>9, <1>10, PartsKept DEF IInv

\* What a block of the chain holds.
LEMMA ChainBlock ==
  ASSUME IInv, NEW h \in 1..Len(chain)
  PROVE  /\ chain[h].block \in Block
         /\ chain[h].block.type = "JOIN" => chain[h].block.host \in Proc
                                            /\ chain[h].block.id \in Id
<1>1. chain \in Seq([block : Block, accepted : SUBSET Proc])
  BY DEF IInv, ChainPart
<1>2. \A S : \A c \in Seq(S) : \A i \in 1..Len(c) : c[i] \in S
  OBVIOUS
<1>3. chain[h] \in [block : Block, accepted : SUBSET Proc]
  BY <1>1, <1>2
<1>4. chain[h].block \in Block
  BY <1>3
<1> QED BY <1>4 DEF Block, Proc

\* A joining process syncs one more block.
LEMMA JoinerSyncStep ==
  ASSUME IInv, NEW p \in Joiners, ProcessSimpleSyncUpResponse(p)
  PROVE  IInv'
<1> DEFINE h == height[p] + 1
           b == chain[h].block
           join == b.type = "JOIN" /\ b.id >= Len(view[p].list)
           v == IF b.type = "TXS" \/ h <= asked[p].height THEN view[p]
                ELSE IF join THEN AddNodeInfo(view[p], b.host) ELSE DeleteNode(view[p], b.id)
<1>1. /\ phase[p] \in {"sync", "ask"} /\ h <= Len(chain)
      /\ height' = [height EXCEPT ![p] = h]
      /\ view' = [view EXCEPT ![p] = v]
      /\ peers' = [peers EXCEPT ![p] = IF b.type = "TXS" \/ h <= asked[p].height THEN @
                                       ELSE IF join THEN @ \cup {b.id} ELSE @ \ {b.id}]
      /\ curr' = [curr EXCEPT ![p] = IF b.type = "TXS" \/ h <= asked[p].height THEN @
                                     ELSE GetFederationAddress(v)]
      /\ UNCHANGED <<phase, id, expected, joinInfo, leaveInfo, votie, newNodeHost, leavingNodeId,
                     chain, events, joining, leaving, timers, olds, used, mixed, asked, leaves>>
  BY DEF ProcessSimpleSyncUpResponse, leaderVars, taskVars
<1>2. p \in Proc /\ view[p] \in View /\ Fits(view[p])
  BY DEF IInv, ViewPart, Proc
<1>3. h \in 1..Len(chain)
  BY <1>1, <1>2 DEF IInv, ChainPart
<1>4. b.type = "JOIN" => b.host \in Proc /\ b.id \in Id
  BY <1>3, ChainBlock
<1>5. v \in View /\ Fits(v)
  <2>1. join => AddNodeInfo(view[p], b.host) \in View /\ Fits(AddNodeInfo(view[p], b.host))
    BY <1>2, <1>4, AddFits
  <2>2. DeleteNode(view[p], b.id) \in View /\ Fits(DeleteNode(view[p], b.id))
    BY <1>2, DeleteFits
  <2> HIDE DEF b, h, join
  <2> QED BY <1>2, <2>1, <2>2
<1>6. ViewPart'
  <2>1. peers \in [Proc -> SUBSET Id] /\ view \in [Proc -> View]
    BY DEF IInv, ViewPart
  <2>2. \E S \in SUBSET Id : peers' = [peers EXCEPT ![p] = S]
    BY <1>1, <1>2, <1>4, <2>1
  <2>3. peers' \in [Proc -> SUBSET Id]
    BY <2>1, <2>2
  <2> HIDE DEF v
  <2>4. view' \in [Proc -> View] /\ \A q \in Proc : Fits(view'[q])
    BY <1>1, <1>2, <1>5, <2>1 DEF IInv, ViewPart
  <2> QED BY <2>3, <2>4 DEF ViewPart
<1>7. ChainPart'
  <2>1. events' = [events EXCEPT ![p] = @ \cup {}] /\ votie' \in [Proc -> Nat]
    BY <1>1 DEF IInv, ChainPart
  <2> QED BY <1>1, <1>2, <2>1, HeightStep
<1>8. SigPart'
  <2> HIDE DEF v
  <2>1. GetFederationAddress(v) \in Address /\ curr[p] \in Address
    BY <1>2, <1>5, ViewHasAddress DEF IInv, SigPart
  <2>2. \E a \in Address : curr' = [curr EXCEPT ![p] = a]
    BY <1>1, <2>1
  <2>3. PICK a \in Address : curr' = [curr EXCEPT ![p] = a]
    BY <2>2
  <2> QED BY <1>1, <1>2, <2>3, JoinerSigStep
<1> QED BY <1>1, <1>6, <1>7, <1>8, PartsKept DEF IInv

\* The joining process asks, and joins.
LEMMA JoinerStep ==
  ASSUME IInv, NEW p \in Joiners, SyncedBeforeJoin(p) \/ OnJoined(p)
  PROVE  IInv'
<1>0. p \in Proc
  BY DEF Proc
<1>3. /\ phase \in [Proc -> {"new", "sync", "ask", "run", "left", "failed"}]
      /\ asked \in [Proc -> Asked \cup {None}]
  BY DEF IInv, PhasePart
<1>1. CASE SyncedBeforeJoin(p)
  <2>1. /\ phase[p] = "sync" /\ phase' = [phase EXCEPT ![p] = "ask"]
        /\ UNCHANGED <<view, peers, id, expected, height, joinInfo, leaveInfo, votie, newNodeHost,
                       leavingNodeId, chain, events, joining, leaving, timers, curr, olds, used,
                       mixed, asked, leaves>>
    BY <1>1 DEF SyncedBeforeJoin, clusterVars, storeVars, leaderVars, taskVars, sigVars
  <2>2. /\ phase'[p] = "ask" /\ \A q \in Proc \ {p} : phase'[q] = phase[q]
    BY <1>0, <1>3, <2>1
  <2>3. PhasePart'
    BY <1>0, <1>3, <2>1, <2>2 DEF IInv, PhasePart
  <2>4. curr[p] \in Address /\ curr' = [curr EXCEPT ![p] = curr[p]]
    BY <1>0, <2>1 DEF IInv, SigPart
  <2>5. SigPart'
    BY <1>0, <2>1, <2>2, <2>4, JoinerSigStep
  <2>6. ChainPart'
    BY <1>0, <2>1, <2>2, PhaseChainStep
  <2> QED BY <2>1, <2>3, <2>5, <2>6, PartsKept DEF IInv
<1>2. CASE OnJoined(p)
  <2> DEFINE v == AddNodeInfo(view[p], p)
  <2>1. /\ phase[p] = "ask" /\ phase' = [phase EXCEPT ![p] = "run"]
        /\ view' = [view EXCEPT ![p] = v]
        /\ curr' = [curr EXCEPT ![p] = GetFederationAddress(v)]
        /\ olds' = [olds EXCEPT ![p] = asked[p].sigs]
        /\ used' = [used EXCEPT ![p] = {GetFederationAddress(v)}]
        /\ asked' = [asked EXCEPT ![p] = None]
        /\ UNCHANGED <<peers, id, expected, height, joinInfo, leaveInfo, votie, newNodeHost,
                       leavingNodeId, chain, events, joining, leaving, timers, mixed, leaves>>
    BY <1>2 DEF OnJoined, storeVars, leaderVars, taskVars
  <2>2. v \in View /\ Fits(v)
    BY <1>0, AddFits DEF IInv, ViewPart
  <2> HIDE DEF v
  <2>3. ViewPart'
    BY <1>0, <2>1, <2>2 DEF IInv, ViewPart
  <2>4. /\ phase'[p] = "run" /\ \A q \in Proc \ {p} : phase'[q] = phase[q] /\ asked'[q] = asked[q]
    BY <1>0, <1>3, <2>1
  <2>5. PhasePart'
    BY <1>0, <1>3, <2>1, <2>4 DEF IInv, PhasePart
  <2>6. ChainPart'
    BY <1>0, <2>1, <2>4, PhaseChainStep
  <2>7. SigPart'
    <3>0. /\ curr \in [Proc -> Address] /\ olds \in [Proc -> Seq(Address)]
          /\ used \in [Proc -> SUBSET Address] /\ mixed \in [Proc -> BOOLEAN]
      BY DEF IInv, SigPart
    <3>1. GetFederationAddress(v) \in Address
      BY <2>2, ViewHasAddress
    <3>2. asked[p].sigs \in Seq(Address)
      BY <1>0, <2>1 DEF IInv, PhasePart, Asked
    <3>3. joining[p] = 0 /\ leaving[p] = 0
      BY <1>0, <2>1 DEF IInv, ChainPart
    <3>4. /\ curr' \in [Proc -> Address] /\ olds' \in [Proc -> Seq(Address)]
          /\ used' \in [Proc -> SUBSET Address]
      BY <2>1, <3>0, <3>1, <3>2
    <3>5. /\ curr'[p] = GetFederationAddress(v) /\ used'[p] = {GetFederationAddress(v)}
          /\ \A q \in Proc \ {p} : curr'[q] = curr[q] /\ olds'[q] = olds[q] /\ used'[q] = used[q]
      BY <1>0, <2>1, <3>0
    <3>6. used'[p] \subseteq {curr'[p]} \cup Range(olds'[p])
      BY <3>5
    <3>7. joining' = joining /\ leaving' = leaving /\ mixed' = mixed
      BY <2>1
    <3>8. \A q \in Proc \ {p} :
            /\ curr'[q] = curr[q] /\ olds'[q] = olds[q] /\ used'[q] = used[q]
            /\ mixed'[q] = mixed[q] /\ joining'[q] = joining[q] /\ leaving'[q] = leaving[q]
            /\ phase'[q] = phase[q]
      BY <2>4, <3>5, <3>7
    <3>9. joining'[p] = 0 /\ leaving'[p] = 0 /\ mixed' \in [Proc -> BOOLEAN]
      BY <3>0, <3>3, <3>7
    <3> QED BY <1>0, <3>4, <3>6, <3>8, <3>9, SigStep
  <2> QED BY <2>1, <2>3, <2>5, <2>6, <2>7, PartsKept DEF IInv
<1> QED BY <1>1, <1>2

-----------------------------------------------------------------------------
(* The theorems                                                            *)

\* The strengthening is an invariant of the processes of the cluster.
THEOREM Invariance == Spec => []IInv
<1>1. Init => IInv
  <2> SUFFICES ASSUME Init PROVE IInv
    OBVIOUS
  <2>1. \A p \in Proc : view[p] \in View /\ Fits(view[p])
    BY ConfiguredFits DEF Init
  <2>2. ViewPart
    <3>1. \A p \in Proc : Normal(view[p].list) \subseteq Id
      <4> TAKE p \in Proc
      <4>1. view[p].list \in Seq(Entry)
        BY <2>1 DEF View, Entry
      <4> QED BY <4>1, NormalOfList DEF Id
    <3>2. view \in [Proc -> View]
      BY ConfiguredFits DEF Init
    <3>3. peers \in [Proc -> SUBSET Id]
      BY <3>1 DEF Init
    <3> QED BY <2>1, <3>2, <3>3 DEF ViewPart
  <2>3. PhasePart
    <3>1. Member \subseteq Id
      BY MembershipAssumption DEF Member, Id
    <3> QED BY <3>1 DEF Init, PhasePart
  <2>4. RequestPart
    BY DEF Init, RequestPart
  <2>5. ChainPart
    <3>1. /\ chain = <<>> /\ Len(chain) = 0 /\ height = [p \in Proc |-> 0] /\ votie = height
          /\ events = [p \in Proc |-> {}] /\ joining = [p \in Proc |-> 0] /\ leaving = joining
      BY DEF Init
    <3>2. chain \in Seq([block : Block, accepted : SUBSET Proc])
      BY <3>1
    <3> QED BY <3>1, <3>2 DEF ChainPart
  <2>6. TimerPart
    BY TimerTypes DEF Init, TimerPart
  <2>7. SigPart
    <3>1. /\ curr = [p \in Proc |-> GetFederationAddress(view[p])]
          /\ olds = [p \in Proc |-> <<>>] /\ mixed = [p \in Proc |-> FALSE]
          /\ used = [p \in Proc |-> IF p \in Member THEN {curr[p]} ELSE {}]
          /\ joining = [p \in Proc |-> 0] /\ leaving = joining
      BY DEF Init
    <3>2. \A p \in Proc : GetFederationAddress(view[p]) \in Address
      BY <2>1, ViewHasAddress
    <3>3. curr \in [Proc -> Address]
      BY <3>1, <3>2
    <3>4. olds \in [Proc -> Seq(Address)]
      BY <3>1
    <3>5. used \in [Proc -> SUBSET Address] /\ mixed \in [Proc -> BOOLEAN]
      BY <3>1, <3>3
    <3>6. \A p \in Proc : used[p] \subseteq {curr[p]} /\ joining[p] = 0 /\ leaving[p] = 0
      BY <3>1
    <3> QED BY <3>3, <3>4, <3>5, <3>6 DEF SigPart
  <2> QED BY <2>2, <2>3, <2>4, <2>5, <2>6, <2>7 DEF IInv
<1>2. IInv /\ [Next]_vars => IInv'
  <2> SUFFICES ASSUME IInv, [Next]_vars PROVE IInv'
    OBVIOUS
  <2>1. CASE UNCHANGED vars
    BY <2>1, PartsKept DEF vars, clusterVars, storeVars, leaderVars, taskVars, sigVars, IInv
  <2>2. CASE Next
    BY <2>2, InitJoinStep, JoinRequestStep, JoinerSyncStep, JoinerStep, EndStep, LeaveRequestStep,
       DecideStep, TimersStep, CommitStep, StartStep, FinishStep
    DEF Next
  <2> QED BY <2>1, <2>2
<1> QED BY <1>1, <1>2, PTL DEF Spec

\* Every variable keeps its type, every height is one of the chain and every event
\* stands for a reconfiguration block that its node has committed.
THEOREM TypeCorrect == Spec => []TypeOK
<1>1. IInv => TypeOK
  <2> SUFFICES ASSUME IInv PROVE TypeOK
    OBVIOUS
  <2>1. \A p \in Proc : \A h \in events[p] \cup ({joining[p], leaving[p]} \ {0}) :
          h \in 1..height[p] /\ chain[h].block.type # "TXS"
    BY DEF IInv, ChainPart
  <2> QED BY <2>1 DEF IInv, ViewPart, PhasePart, RequestPart, ChainPart, TimerPart, SigPart, TypeOK
<1> QED BY <1>1, Invariance, PTL

\* Whatever the order of requests, reconfiguration blocks, syncs and restarts, the
\* counters of every running node fit its list, and two of its quorums share more
\* than MaxFaultyN nodes.
THEOREM CountersFit == Spec => []SizesFitList
<1>1. IInv => SizesFitList
  BY DEF IInv, ViewPart, Fits, SizesFitList, Running
<1> QED BY <1>1, Invariance, PTL

\* A node that neither restarted nor handled a join and a leave at the same time
\* watches every address it has used.
THEOREM FormerAddressesKept == Spec => []KnowsFormer
<1>1. IInv => KnowsFormer
  BY DEF IInv, SigPart, KnowsFormer, Running
<1> QED BY <1>1, Invariance, PTL

-----------------------------------------------------------------------------
(* The peers of the configured members                                     *)

\* A member's node list and peers as one step leaves them: unchanged; a node
\* deleted; one added by the handler of a join, with a connection to it; or those
\* of the configuration file.
ListStep(p) ==
  \/ view'[p] = view[p] /\ peers'[p] = peers[p]
  \/ peers'[p] = peers[p] /\ \E i : view'[p] = DeleteNode(view[p], i)
  \/ /\ joining[p] # 0
     /\ LET b == chain[joining[p]].block
        IN  view'[p] = AddNode(view[p], b.host, b.id) /\ peers'[p] = peers[p] \cup {b.id}
  \/ p \in Crashers /\ view'[p] = Configured /\ peers'[p] = Normal(Configured.list)

\* No step of another process touches them.
LEMMA ListSteps ==
  ASSUME IInv, [Next]_vars, NEW p \in Member, phase'[p] = "run"
  PROVE  phase[p] = "run" /\ ListStep(p)
<1>0. /\ view \in [Proc -> View] /\ peers \in [Proc -> SUBSET Id]
      /\ phase \in [Proc -> {"new", "sync", "ask", "run", "left", "failed"}]
      /\ p \in Proc /\ p \notin Joiners
  BY MembershipAssumption DEF IInv, ViewPart, PhasePart, Proc
<1>1. CASE UNCHANGED <<view, peers, phase>>
  BY <1>1 DEF ListStep
<1>2. ASSUME NEW j \in Joiners, phase' = [phase EXCEPT ![j] = phase'[j]],
             view' = [view EXCEPT ![j] = view'[j]], peers' = [peers EXCEPT ![j] = peers'[j]]
      PROVE  phase[p] = "run" /\ ListStep(p)
  BY <1>0, <1>2 DEF ListStep
<1>3. ASSUME NEW j \in Joiners, NEW g \in Proc, InitJoin(j, g)
      PROVE  phase[p] = "run" /\ ListStep(p)
  <2>1. j \in Proc
    BY DEF Proc
  <2> QED BY <1>0, <1>2, <1>3, <2>1 DEF InitJoin
<1>4. ASSUME NEW j \in Joiners, NEW n \in Proc, HandleJoinCheckSyncedRequest(j, n)
      PROVE  phase[p] = "run" /\ ListStep(p)
  BY <1>1, <1>4 DEF HandleJoinCheckSyncedRequest, clusterVars
<1>5. ASSUME NEW j \in Joiners,
             \/ ProcessSimpleSyncUpResponse(j) \/ SyncedBeforeJoin(j)
             \/ OnJoined(j) \/ JoinFailed(j)
      PROVE  phase[p] = "run" /\ ListStep(p)
  <2>1. j \in Proc
    BY DEF Proc
  <2>2. CASE ProcessSimpleSyncUpResponse(j)
    BY <1>0, <1>2, <2>1, <2>2 DEF ProcessSimpleSyncUpResponse
  <2>3. CASE SyncedBeforeJoin(j)
    BY <1>0, <1>2, <2>1, <2>3 DEF SyncedBeforeJoin, clusterVars
  <2>4. CASE OnJoined(j)
    BY <1>0, <1>2, <2>1, <2>4 DEF OnJoined
  <2>5. CASE JoinFailed(j)
    BY <1>0, <1>2, <2>1, <2>5 DEF JoinFailed, Forget
  <2> QED BY <1>5, <2>2, <2>3, <2>4, <2>5
<1>6. ASSUME NEW n \in Leavers, LeaveCluster(n)
      PROVE  phase[p] = "run" /\ ListStep(p)
  <2>1. n \in Proc
    BY MembershipAssumption DEF Proc
  <2>2. /\ phase' = [phase EXCEPT ![n] = "left"]
        /\ view' = [view EXCEPT ![n] = InitWithNodeList(<<>>)]
        /\ peers' = [peers EXCEPT ![n] = Normal(InitWithNodeList(<<>>).list)]
    BY <1>6 DEF LeaveCluster, Forget
  <2>3. p # n
    BY <1>0, <2>1, <2>2
  <2> QED BY <1>0, <2>1, <2>2, <2>3 DEF ListStep
<1>7. ASSUME NEW m \in leaves, HandleLeaveRequest(m)
      PROVE  phase[p] = "run" /\ ListStep(p)
  <2>1. view' = [view EXCEPT ![m.to] = DeleteNode(view[m.to], m.id)] /\ UNCHANGED <<peers, phase>>
    BY <1>7 DEF HandleLeaveRequest
  <2>2. view'[p] = view[p] \/ view'[p] = DeleteNode(view[p], m.id)
    BY <1>0, <2>1
  <2> QED BY <2>1, <2>2 DEF ListStep
<1>8. ASSUME NEW l \in Running, NEW q \in SUBSET Running, DecideBlock(l, q)
      PROVE  phase[p] = "run" /\ ListStep(p)
  BY <1>1, <1>8 DEF DecideBlock, clusterVars
<1>9. ASSUME NEW n \in Proc,
             \/ JoinTimer(n) \/ CommitBlock(n) \/ ProcessSyncUpResponse(n)
             \/ \E h \in 1..MaxHeight : StartJoined(n, h) \/ StartLeaved(n, h)
      PROVE  phase[p] = "run" /\ ListStep(p)
  BY <1>1, <1>9 DEF JoinTimer, CommitBlock, ProcessSyncUpResponse, StartJoined, StartLeaved,
                    clusterVars
<1>10. ASSUME NEW n \in Proc, LeaveTimer(n)
       PROVE  phase[p] = "run" /\ ListStep(p)
  <2> DEFINE t == timers[n].leave
             gone == t.who \notin Normal(view[n].list)
             left == IF gone THEN 0 ELSE t.left - 1
  <2>1. t.left > 0 /\ t.fires > 0 /\ ((left = 0 /\ ~gone) \/ UNCHANGED view)
        /\ UNCHANGED <<peers, phase>>
    BY <1>10 DEF LeaveTimer
  <2>2. t.left = 3
    BY <2>1 DEF IInv, TimerPart, Timer
  <2> QED BY <1>1, <2>1, <2>2
<1>11. ASSUME NEW n \in Proc, FinishJoined(n) \/ FinishLeaved(n)
       PROVE  phase[p] = "run" /\ ListStep(p)
  <2>1. CASE FinishJoined(n)
    <3> DEFINE b == chain[joining[n]].block
    <3>1. CASE HandlerPanics(n)
      <4>1. /\ phase' = [phase EXCEPT ![n] = "failed"]
            /\ view' = [view EXCEPT ![n] = InitWithNodeList(<<>>)]
            /\ peers' = [peers EXCEPT ![n] = Normal(InitWithNodeList(<<>>).list)]
        BY <3>1 DEF HandlerPanics, Forget
      <4>2. p # n
        BY <1>0, <4>1
      <4> QED BY <1>0, <4>1, <4>2 DEF ListStep
    <3>2. CASE ~HandlerPanics(n)
      <4>1. /\ joining[n] # 0 /\ view' = [view EXCEPT ![n] = AddNode(view[n], b.host, b.id)]
            /\ peers' = [peers EXCEPT ![n] = peers[n] \cup {b.id}] /\ UNCHANGED phase
        BY <2>1, <3>2, FinishJoinedCases DEF Reconfigure
      <4> QED BY <1>0, <4>1 DEF ListStep
    <3> QED BY <3>1, <3>2
  <2>2. CASE FinishLeaved(n)
    <3> DEFINE i == chain[leaving[n]].block.id
    <3>1. view' = [view EXCEPT ![n] = DeleteNode(view[n], i)] /\ UNCHANGED <<peers, phase>>
      BY <2>2 DEF FinishLeaved, Reconfigure
    <3>2. view'[p] = view[p] \/ view'[p] = DeleteNode(view[p], i)
      BY <1>0, <3>1
    <3> QED BY <3>1, <3>2 DEF ListStep
  <2> QED BY <1>11, <2>1, <2>2
<1>12. ASSUME NEW n \in Proc, Restart(n)
       PROVE  phase[p] = "run" /\ ListStep(p)
  <2>1. /\ n \in Crashers /\ view' = [view EXCEPT ![n] = Configured]
        /\ peers' = [peers EXCEPT ![n] = Normal(Configured.list)] /\ UNCHANGED phase
    BY <1>12 DEF Restart, Forget
  <2> QED BY <1>0, <2>1 DEF ListStep
<1>13. CASE UNCHANGED vars
  BY <1>1, <1>13 DEF vars, clusterVars
<1> QED BY <1>3, <1>4, <1>5, <1>6, <1>7, <1>8, <1>9, <1>10, <1>11, <1>12, <1>13 DEF Next

\* A configured member that runs has a connection to every normal node of its
\* list, whatever joins, leaves and restarts: OnJoinedDone and the start-up are
\* where its list grows, and both open the connections.
MembersReachAll == \A p \in Running \cap Member : Normal(view[p].list) \subseteq peers[p]

\* One step keeps the connections of one member.
LEMMA ReachStep ==
  ASSUME IInv, NEW p \in Member, ListStep(p), Normal(view[p].list) \subseteq peers[p]
  PROVE  Normal(view'[p].list) \subseteq peers'[p]
<1>0. view[p] \in View /\ Fits(view[p]) /\ view[p].list \in Seq(Entry)
  BY MembershipAssumption DEF IInv, ViewPart, Proc, View, Entry
<1>1. CASE view'[p] = view[p] /\ peers'[p] = peers[p]
  BY <1>1
<1>2. CASE peers'[p] = peers[p] /\ \E i : view'[p] = DeleteNode(view[p], i)
  <2>1. PICK i : view'[p] = DeleteNode(view[p], i)
    BY <1>2
  <2>2. CASE i \notin Normal(view[p].list)
    BY <1>2, <2>1, <2>2 DEF DeleteNode
  <2>3. CASE i \in Normal(view[p].list)
    <3>1. view'[p].list = [view[p].list EXCEPT ![i+1].normal = FALSE]
      BY <2>1, <2>3 DEF DeleteNode, Resized
    <3>2. Normal(view'[p].list) = Normal(view[p].list) \ {i}
      BY <1>0, <2>3, <3>1, NormalDelete
    <3> QED BY <1>2, <3>2
  <2> QED BY <2>2, <2>3
<1>3. CASE /\ joining[p] # 0
           /\ LET b == chain[joining[p]].block
              IN  /\ view'[p] = AddNode(view[p], b.host, b.id)
                  /\ peers'[p] = peers[p] \cup {b.id}
  <2> DEFINE b == chain[joining[p]].block
  <2>1. view'[p] = AddNode(view[p], b.host, b.id) /\ peers'[p] = peers[p] \cup {b.id}
    BY <1>3
  <2>2. CASE b.id # Len(view[p].list)
    BY <2>1, <2>2 DEF AddNode
  <2>3. CASE b.id = Len(view[p].list)
    <3>1. b.host \in Proc
      <4>1. p \in Proc
        BY DEF Proc
      <4>2. /\ chain \in Seq([block : Block, accepted : SUBSET Proc])
            /\ height[p] \in 0..Len(chain) /\ joining[p] \in 1..height[p]
            /\ b.type = "JOIN"
        BY <1>3, <4>1 DEF IInv, ChainPart
      <4> QED BY <4>2, ChainBlock
    <3>2. view'[p].list = Append(view[p].list, [host |-> b.host, normal |-> TRUE])
      BY <2>1, <2>3 DEF AddNode, Resized
    <3>3. Normal(view'[p].list) = Normal(view[p].list) \cup {Len(view[p].list)}
      BY <1>0, <3>1, <3>2, NormalAppend
    <3> QED BY <2>1, <2>3, <3>3
  <2> QED BY <2>2, <2>3
<1>4. CASE view'[p] = Configured /\ peers'[p] = Normal(Configured.list)
  BY <1>4
<1> QED BY <1>1, <1>2, <1>3, <1>4 DEF ListStep

\* A broadcast of a running member (PeerManager.Broadcast) leaves out no normal node
\* of its own list.
THEOREM MembersReach == Spec => []MembersReachAll
<1>1. Init => MembersReachAll
  <2>1. ASSUME Init, NEW p \in Member PROVE Normal(view[p].list) \subseteq peers[p]
    BY <2>1 DEF Init, Proc
  <2> QED BY <2>1 DEF MembersReachAll
<1>2. IInv /\ MembersReachAll /\ [Next]_vars => MembersReachAll'
  <2>1. ASSUME IInv, MembersReachAll, [Next]_vars, NEW p \in Member, phase'[p] = "run"
        PROVE  Normal(view'[p].list) \subseteq peers'[p]
    <3>1. phase[p] = "run" /\ ListStep(p)
      BY <2>1, ListSteps
    <3>2. Normal(view[p].list) \subseteq peers[p]
      BY <2>1, <3>1 DEF MembersReachAll, Running, Proc
    <3> QED BY <2>1, <3>1, <3>2, ReachStep
  <2> QED BY <2>1 DEF MembersReachAll, Running
<1> QED BY <1>1, <1>2, Invariance, PTL DEF Spec

\* A join that p has accepted and not committed, or whose event waits or runs.
OpenJoin(p, h) ==
  /\ chain[h].block.type = "JOIN"
  /\ \/ h > height[p] /\ p \in chain[h].accepted
     \/ h \in events[p]
     \/ h = joining[p]

\* A join is open only since p has accepted it, for the id that was the next one of
\* p's list.
LEMMA OpenJoinSteps ==
  ASSUME IInv, [Next]_vars, NEW p \in Member \ Crashers, NEW h \in 1..Len(chain'),
         phase'[p] = "run", OpenJoin(p, h)'
  PROVE  \/ h \in 1..Len(chain) /\ OpenJoin(p, h) /\ chain'[h] = chain[h]
         \/ view' = view /\ chain'[h].block.id = Len(view[p].list)
<1> DEFINE Old == h \in 1..Len(chain) /\ OpenJoin(p, h) /\ chain'[h] = chain[h]
           New == view' = view /\ chain'[h].block.id = Len(view[p].list)
<1>0. /\ height \in [Proc -> 0..Len(chain)] /\ Len(chain) \in Nat
      /\ events \in [Proc -> SUBSET Nat] /\ joining \in [Proc -> Nat]
      /\ chain \in Seq([block : Block, accepted : SUBSET Proc])
      /\ phase \in [Proc -> {"new", "sync", "ask", "run", "left", "failed"}]
      /\ p \in Proc /\ p \notin Joiners /\ height[p] \in Nat
  BY MembershipAssumption DEF IInv, ChainPart, PhasePart, Proc
<1>1. ASSUME UNCHANGED chain, height'[p] = height[p], events'[p] \subseteq events[p],
             joining'[p] \in {0, joining[p]} \cup events[p]
      PROVE  Old
  BY <1>0, <1>1 DEF OpenJoin
<1>2. ASSUME UNCHANGED <<chain, height, events, joining>>
      PROVE  Old
  BY <1>1, <1>2
<1>3. ASSUME NEW j \in Joiners, UNCHANGED chain,
             height' = [height EXCEPT ![j] = height'[j]],
             events' = [events EXCEPT ![j] = events'[j]],
             joining' = [joining EXCEPT ![j] = joining'[j]]
      PROVE  Old
  BY <1>0, <1>1, <1>3
<1>4. ASSUME NEW j \in Joiners,
             \/ \E g \in Proc : InitJoin(j, g) \/ HandleJoinCheckSyncedRequest(j, g)
             \/ SyncedBeforeJoin(j) \/ OnJoined(j)
      PROVE  Old
  BY <1>2, <1>4 DEF InitJoin, HandleJoinCheckSyncedRequest, SyncedBeforeJoin, OnJoined,
                    storeVars, taskVars
<1>5. ASSUME NEW j \in Joiners, ProcessSimpleSyncUpResponse(j) \/ JoinFailed(j)
      PROVE  Old
  <2>1. j \in Proc
    BY DEF Proc
  <2>2. CASE ProcessSimpleSyncUpResponse(j)
    BY <1>0, <1>3, <2>1, <2>2 DEF ProcessSimpleSyncUpResponse, taskVars
  <2>3. CASE JoinFailed(j)
    BY <1>0, <1>3, <2>1, <2>3 DEF JoinFailed, Forget, storeVars
  <2> QED BY <1>5, <2>2, <2>3
<1>6. ASSUME NEW n \in Leavers, LeaveCluster(n)
      PROVE  Old
  <2>1. n \in Proc
    BY MembershipAssumption DEF Proc
  <2>2. /\ phase' = [phase EXCEPT ![n] = "left"] /\ UNCHANGED <<chain, height>>
        /\ events' = [events EXCEPT ![n] = {}] /\ joining' = [joining EXCEPT ![n] = 0]
    BY <1>6 DEF LeaveCluster, Forget, storeVars
  <2>3. p # n
    BY <1>0, <2>1, <2>2
  <2> QED BY <1>0, <1>1, <2>1, <2>2, <2>3
<1>7. ASSUME \/ \E m \in leaves : HandleLeaveRequest(m)
             \/ \E n \in Proc : JoinTimer(n) \/ LeaveTimer(n) \/ FinishLeaved(n)
      PROVE  Old
  BY <1>2, <1>7 DEF HandleLeaveRequest, JoinTimer, LeaveTimer, FinishLeaved, storeVars, taskVars
<1>8. ASSUME NEW l \in Running, NEW q \in SUBSET Running, DecideBlock(l, q)
      PROVE  Old \/ New
  <2>1. PICK b \in BlockToInit(l) :
          /\ \A n \in q : CheckReconfigBlock(n, b)
          /\ chain' = Append(chain, [block |-> b, accepted |-> q])
    BY <1>8 DEF DecideBlock
  <2>2. UNCHANGED <<view, height, events, joining>>
    BY <1>8 DEF DecideBlock, clusterVars, storeVars, taskVars
  <2>3. /\ Len(chain') = Len(chain) + 1 /\ \A i \in 1..Len(chain) : chain'[i] = chain[i]
        /\ chain'[Len(chain) + 1] = [block |-> b, accepted |-> q]
    BY <1>0, <2>1
  <2>4. CASE h \in 1..Len(chain)
    BY <2>2, <2>3, <2>4 DEF OpenJoin
  <2>5. CASE h = Len(chain) + 1
    <3>1. h \notin events[p] /\ h # joining[p]
      BY <1>0, <2>5 DEF IInv, ChainPart
    <3>2. b.type = "JOIN" /\ p \in q /\ chain'[h].block = b
      BY <2>2, <2>3, <2>5, <3>1 DEF OpenJoin
    <3>3. b.id = Len(view[p].list)
      BY <2>1, <3>2 DEF CheckReconfigBlock
    <3> QED BY <2>2, <3>2, <3>3
  <2> QED BY <1>0, <2>3, <2>4, <2>5
<1>9. ASSUME NEW n \in Proc, CommitBlock(n) \/ ProcessSyncUpResponse(n)
      PROVE  Old
  <2>1. /\ UNCHANGED <<chain, joining>>
        /\ height' = [height EXCEPT ![n] = height[n] + 1]
        /\ \/ UNCHANGED events
           \/ /\ events' = [events EXCEPT ![n] = @ \cup {height[n] + 1}]
              /\ n \in chain[height[n] + 1].accepted
    BY <1>0, <1>9 DEF CommitBlock, ProcessSyncUpResponse, taskVars
  <2>2. CASE n # p
    BY <1>0, <1>1, <2>1, <2>2
  <2>3. CASE n = p
    <3>1. height'[p] = height[p] + 1 /\ joining'[p] = joining[p]
      BY <1>0, <2>1, <2>3
    <3>2. CASE h \in events'[p] /\ h \notin events[p]
      <4>1. h = height[p] + 1 /\ p \in chain[h].accepted
        BY <1>0, <2>1, <2>3, <3>2
      <4> QED BY <1>0, <2>1, <4>1 DEF OpenJoin
    <3>3. CASE h \in events[p]
      BY <2>1, <3>3 DEF OpenJoin
    <3>4. CASE h > height'[p] /\ p \in chain[h].accepted
      BY <1>0, <2>1, <3>1, <3>4 DEF OpenJoin
    <3>5. CASE h = joining[p]
      BY <2>1, <3>5 DEF OpenJoin
    <3> QED BY <2>1, <3>1, <3>2, <3>3, <3>4, <3>5 DEF OpenJoin
  <2> QED BY <2>2, <2>3
<1>10. ASSUME NEW n \in Proc, NEW i \in 1..MaxHeight, StartJoined(n, i) \/ StartLeaved(n, i)
       PROVE  Old
  <2>1. /\ UNCHANGED <<chain, height>> /\ i \in events[n]
        /\ events' = [events EXCEPT ![n] = @ \ {i}]
        /\ joining' = joining \/ joining' = [joining EXCEPT ![n] = i]
    BY <1>10 DEF StartJoined, StartLeaved
  <2>2. events'[p] \subseteq events[p] /\ joining'[p] \in {0, joining[p]} \cup events[p]
    BY <1>0, <2>1
  <2> QED BY <1>1, <2>1, <2>2
<1>11. ASSUME NEW n \in Proc, FinishJoined(n)
       PROVE  Old
  <2>1. /\ UNCHANGED <<chain, height>> /\ joining' = [joining EXCEPT ![n] = 0]
        /\ events' = events \/ events' = [events EXCEPT ![n] = {}]
    BY <1>11, FinishJoinedCases DEF HandlerPanics, Forget, storeVars
  <2>2. joining'[p] \in {0, joining[p]} /\ events'[p] \subseteq events[p]
    BY <1>0, <2>1
  <2> QED BY <1>0, <1>1, <2>1, <2>2
<1>12. ASSUME NEW n \in Proc, Restart(n)
       PROVE  Old
  <2>1. /\ n # p /\ UNCHANGED <<chain, height>>
        /\ events' = [events EXCEPT ![n] = {}] /\ joining' = [joining EXCEPT ![n] = 0]
    BY <1>12 DEF Restart, Forget, storeVars
  <2> QED BY <1>0, <1>1, <2>1
<1>13. CASE UNCHANGED vars
  BY <1>2, <1>13 DEF vars, storeVars, taskVars
<1> QED BY <1>4, <1>5, <1>6, <1>7, <1>8, <1>9, <1>10, <1>11, <1>12, <1>13 DEF Next

\* A member that never restarts looks up no peer beyond the end of its list, where
\* GetNodeInfo's index would panic, nor does its handler of a join: of two joins that
\* it accepts for the same id the second one finds the id in its list.  (Membership's
\* PeersFitList says the same of every process.  The handler of a member that restarts
\* in between panics.)
MembersInList ==
  \A p \in (Running \cap Member) \ Crashers :
    /\ peers[p] \subseteq 0..Len(view[p].list)-1
    /\ \A h \in 1..Len(chain) : OpenJoin(p, h) => chain[h].block.id \in 0..Len(view[p].list)

\* The lookups of one member after a step.
LEMMA InListStep ==
  ASSUME IInv, NEW p \in Member \ Crashers, ListStep(p),
         peers[p] \subseteq 0..Len(view[p].list)-1,
         \A h \in 1..Len(chain) : OpenJoin(p, h) => chain[h].block.id \in 0..Len(view[p].list)
  PROVE  /\ Len(view[p].list) \in Nat /\ Len(view'[p].list) \in Nat
         /\ Len(view'[p].list) >= Len(view[p].list)
         /\ peers'[p] \subseteq 0..Len(view'[p].list)-1
<1>0. view[p] \in View /\ view[p].list \in Seq(Entry) /\ Len(view[p].list) \in Nat /\ p \in Proc
  BY MembershipAssumption, NormalOfList DEF IInv, ViewPart, Proc, View, Entry
<1>1. CASE view'[p] = view[p] /\ peers'[p] = peers[p]
  BY <1>0, <1>1
<1>2. CASE peers'[p] = peers[p] /\ \E i : view'[p] = DeleteNode(view[p], i)
  <2>1. PICK i : view'[p] = DeleteNode(view[p], i)
    BY <1>2
  <2>2. CASE i \notin Normal(view[p].list)
    <3>1. view'[p] = view[p]
      BY <2>1, <2>2 DEF DeleteNode
    <3> QED BY <1>0, <1>2, <3>1
  <2>3. CASE i \in Normal(view[p].list)
    <3>1. view'[p].list = [view[p].list EXCEPT ![i+1].normal = FALSE]
      BY <2>1, <2>3 DEF DeleteNode, Resized
    <3>2. Len(view'[p].list) = Len(view[p].list)
      BY <1>0, <2>3, <3>1, NormalDelete
    <3> QED BY <1>0, <1>2, <3>2
  <2> QED BY <2>2, <2>3
<1>3. CASE /\ joining[p] # 0
           /\ LET b == chain[joining[p]].block
              IN  /\ view'[p] = AddNode(view[p], b.host, b.id)
                  /\ peers'[p] = peers[p] \cup {b.id}
  <2> DEFINE b == chain[joining[p]].block
  <2>1. view'[p] = AddNode(view[p], b.host, b.id) /\ peers'[p] = peers[p] \cup {b.id}
    BY <1>3
  <2>2. joining[p] \in 1..Len(chain) /\ OpenJoin(p, joining[p])
    BY <1>0, <1>3 DEF IInv, ChainPart, OpenJoin
  <2>3. b.id \in 0..Len(view[p].list) /\ b.host \in Proc
    BY <2>2, ChainBlock DEF OpenJoin
  <2> HIDE DEF b
  <2>4. CASE b.id # Len(view[p].list)
    BY <1>0, <2>1, <2>3, <2>4 DEF AddNode
  <2>5. CASE b.id = Len(view[p].list)
    <3>1. view'[p].list = Append(view[p].list, [host |-> b.host, normal |-> TRUE])
      BY <2>1, <2>5 DEF AddNode, Resized
    <3>2. Len(view'[p].list) = Len(view[p].list) + 1
      BY <1>0, <2>3, <3>1, NormalAppend
    <3> QED BY <1>0, <2>1, <2>3, <3>2
  <2> QED BY <2>4, <2>5
<1> QED BY <1>1, <1>2, <1>3 DEF ListStep

\* Without a restart of its own a member's peers stay within its list, whatever joins
\* are asked for, lost, accepted twice or handled late.
THEOREM PeersInList == Spec => []MembersInList
<1>1. Init => MembersInList
  <2> SUFFICES ASSUME Init, NEW p \in Member
               PROVE  peers[p] \subseteq 0..Len(view[p].list)-1 /\ 1..Len(chain) = {}
    BY DEF MembersInList
  <2>1. p \in Proc /\ view[p] = Configured /\ peers[p] = Normal(view[p].list) /\ Len(chain) = 0
    BY DEF Init, Proc
  <2>2. view[p].list \in Seq(Entry)
    BY <2>1, ConfiguredFits DEF View, Entry
  <2> QED BY <2>1, <2>2, NormalOfList
<1>2. IInv /\ MembersInList /\ [Next]_vars => MembersInList'
  <2>1. ASSUME IInv, MembersInList, [Next]_vars, NEW p \in Member \ Crashers, phase'[p] = "run"
        PROVE  /\ peers'[p] \subseteq 0..Len(view'[p].list)-1
               /\ \A h \in 1..Len(chain') :
                    OpenJoin(p, h)' => chain'[h].block.id \in 0..Len(view'[p].list)
    <3>1. phase[p] = "run" /\ ListStep(p)
      BY <2>1, ListSteps
    <3>2. /\ peers[p] \subseteq 0..Len(view[p].list)-1
          /\ \A h \in 1..Len(chain) : OpenJoin(p, h) => chain[h].block.id \in 0..Len(view[p].list)
      BY <2>1, <3>1 DEF MembersInList, Running, Proc
    <3>3. /\ Len(view[p].list) \in Nat /\ Len(view'[p].list) \in Nat
          /\ Len(view'[p].list) >= Len(view[p].list)
          /\ peers'[p] \subseteq 0..Len(view'[p].list)-1
      BY <2>1, <3>1, <3>2, InListStep
    <3>4. ASSUME NEW h \in 1..Len(chain'), OpenJoin(p, h)'
          PROVE  chain'[h].block.id \in 0..Len(view'[p].list)
      <4>1. CASE h \in 1..Len(chain) /\ OpenJoin(p, h) /\ chain'[h] = chain[h]
        BY <3>2, <3>3, <4>1
      <4>2. CASE view' = view /\ chain'[h].block.id = Len(view[p].list)
        BY <3>3, <4>2
      <4> QED BY <2>1, <3>4, <4>1, <4>2, OpenJoinSteps
    <3> QED BY <3>3, <3>4
  <2> QED BY <2>1 DEF MembersInList, Running
<1> QED BY <1>1, <1>2, Invariance, PTL DEF Spec

-----------------------------------------------------------------------------
(* Quorums of two processes                                                *)

\* A node list as any process may have it: the configured nodes come first, only
\* those that may leave can be deleted, and behind them are nodes that joined.
Listed(list) ==
  /\ Len(list) >= N
  /\ \A i \in 1..N : list[i].host = i - 1 /\ (list[i].normal \/ i - 1 \in Leavers)
  /\ \A i \in (N + 1)..Len(list) : list[i].host \in Joiners

\* The phases in which a process has a node list.
Active == {"sync", "ask", "run"}

\* AddNodeInfo's formula is the joined nodes' only.
ListPart ==
  /\ \A p \in Proc : phase[p] \in Active => Listed(view[p].list)
  /\ \A p \in Member : phase[p] = "run" => view[p].quorum = Quorum(view[p].size)

\* Who leaves is one that may leave, wherever the id comes from, and a join gets
\* an id behind the configured ones.
LeavePart ==
  /\ \A p \in Member : id[p] = p
  /\ \A m \in leaves : m.id \in Leavers
  /\ \A p \in Proc : leavingNodeId[p] \in Leavers \cup {None}
  /\ \A h \in 1..Len(chain) :
       /\ chain[h].block.type = "LEAVE" => chain[h].block.id \in Leavers
       /\ chain[h].block.type = "JOIN" => chain[h].block.id >= N

ListInv == ListPart /\ LeavePart

\* An id that may be deleted: a configured node that leaves, or the place of a
\* joined one (a sync may take a join for a leave).
MayGo(i) == i \in Leavers \/ (i \in Nat /\ i >= N)

\* What a step makes of the view of a process that is active after it.
ViewStep(p) ==
  \/ /\ phase[p] \in Active /\ (phase'[p] = "run" /\ p \in Member => phase[p] = "run")
     /\ \/ view'[p] = view[p]
        \/ \E i : MayGo(i) /\ view'[p] = DeleteNode(view[p], i)
        \/ \E host \in Joiners : \E i : view'[p] = AddNode(view[p], host, i)
        \/ p \in Joiners /\ \E host \in Joiners : view'[p] = AddNodeInfo(view[p], host)
  \/ view'[p] = Configured
  \/ p \in Joiners /\ \E g \in Running : view'[p] = InitWithNodeList(view[g].list)

\* The host of a join is one that asked.
LEMMA JoinBlock ==
  ASSUME IInv, NEW h \in 1..Len(chain), chain[h].block.type = "JOIN"
  PROVE  chain[h].block.host \in Joiners /\ chain[h].block.id \in Nat
<1>1. chain[h].block \in Block
  BY ChainBlock
<1> QED BY <1>1 DEF Block, Id

\* Every step changes the views in one of these ways.
LEMMA ViewSteps ==
  ASSUME IInv, LeavePart, [Next]_vars, NEW p \in Proc, phase'[p] \in Active
  PROVE  ViewStep(p)
<1>0. /\ view \in [Proc -> View] /\ Len(chain) \in Nat
      /\ phase \in [Proc -> {"new", "sync", "ask", "run", "left", "failed"}]
  BY DEF IInv, ViewPart, PhasePart, ChainPart
<1>1. ASSUME view'[p] = view[p], phase'[p] = phase[p]
      PROVE  ViewStep(p)
  BY <1>1 DEF ViewStep
<1>2. ASSUME NEW j \in Joiners, NEW g \in Proc, InitJoin(j, g)
      PROVE  ViewStep(p)
  <2>1. /\ g \in Running /\ j \in Proc
        /\ view' = [view EXCEPT ![j] = InitWithNodeList(view[g].list)]
        /\ phase' = [phase EXCEPT ![j] = "sync"]
    BY <1>2 DEF InitJoin, GetClusterNodes, Proc
  <2>2. CASE p = j
    BY <1>0, <2>1, <2>2 DEF ViewStep
  <2>3. CASE p # j
    BY <1>0, <1>1, <2>1, <2>3
  <2> QED BY <2>2, <2>3
<1>3. ASSUME NEW j \in Joiners, NEW n \in Proc, HandleJoinCheckSyncedRequest(j, n)
      PROVE  ViewStep(p)
  BY <1>1, <1>3 DEF HandleJoinCheckSyncedRequest, clusterVars
<1>4. ASSUME NEW j \in Joiners, ProcessSimpleSyncUpResponse(j)
      PROVE  ViewStep(p)
  <2> DEFINE h == height[j] + 1
             b == chain[h].block
  <2>1. /\ j \in Proc /\ UNCHANGED phase /\ phase[j] \in Active /\ h <= Len(chain)
        /\ \/ view' = view
           \/ /\ b.type = "JOIN" /\ view' = [view EXCEPT ![j] = AddNodeInfo(view[j], b.host)]
           \/ b.type # "TXS" /\ view' = [view EXCEPT ![j] = DeleteNode(view[j], b.id)]
    BY <1>0, <1>4 DEF ProcessSimpleSyncUpResponse, Proc, Active
  <2>2. h \in 1..Len(chain)
    BY <1>0, <2>1 DEF IInv, ChainPart
  <2>3. b \in Block
    BY <2>2, ChainBlock
  <2>4. b.type = "JOIN" => b.host \in Joiners /\ MayGo(b.id)
    BY <2>2, JoinBlock DEF MayGo, LeavePart
  <2>5. b.type = "LEAVE" => MayGo(b.id)
    BY <2>2 DEF MayGo, LeavePart
  <2>6. b.type \in {"TXS", "JOIN", "LEAVE"}
    BY <2>3 DEF Block
  <2> HIDE DEF b
  <2>7. CASE p # j \/ view' = view
    BY <1>0, <1>1, <2>1, <2>7
  <2>8. CASE p = j /\ b.type = "JOIN" /\ view' = [view EXCEPT ![j] = AddNodeInfo(view[j], b.host)]
    BY <1>0, <2>1, <2>4, <2>8 DEF ViewStep
  <2>9. CASE p = j /\ b.type # "TXS" /\ view' = [view EXCEPT ![j] = DeleteNode(view[j], b.id)]
    <3>1. MayGo(b.id) /\ view'[p] = DeleteNode(view[p], b.id)
      BY <1>0, <2>4, <2>5, <2>6, <2>9
    <3> QED BY <2>1, <2>9, <3>1 DEF ViewStep
  <2> QED BY <2>1, <2>7, <2>8, <2>9
<1>5. ASSUME NEW j \in Joiners, SyncedBeforeJoin(j)
      PROVE  ViewStep(p)
  <2>1. /\ UNCHANGED view /\ phase[j] = "sync" /\ phase' = [phase EXCEPT ![j] = "ask"]
        /\ j \in Proc
    BY <1>5 DEF SyncedBeforeJoin, clusterVars, Proc
  <2>2. phase[p] \in Active /\ (phase'[p] = "run" => phase[p] = "run")
    BY <1>0, <2>1 DEF Active
  <2> QED BY <2>1, <2>2 DEF ViewStep
<1>6. ASSUME NEW j \in Joiners, OnJoined(j)
      PROVE  ViewStep(p)
  <2>1. /\ view' = [view EXCEPT ![j] = AddNodeInfo(view[j], j)] /\ phase[j] = "ask"
        /\ phase' = [phase EXCEPT ![j] = "run"] /\ j \in Proc /\ j \notin Member
    BY <1>6, MembershipAssumption DEF OnJoined, Proc
  <2>2. CASE p = j
    BY <1>0, <2>1, <2>2 DEF ViewStep, Active
  <2>3. CASE p # j
    BY <1>0, <1>1, <2>1, <2>3
  <2> QED BY <2>2, <2>3
<1>7. ASSUME NEW n \in Proc, NEW ph \in {"left", "failed"},
             phase' = [phase EXCEPT ![n] = ph], Forget(n, InitWithNodeList(<<>>))
      PROVE  ViewStep(p)
  <2>1. p # n
    BY <1>0, <1>7 DEF Active
  <2>2. view' = [view EXCEPT ![n] = InitWithNodeList(<<>>)]
    BY <1>7 DEF Forget
  <2> QED BY <1>0, <1>1, <1>7, <2>1, <2>2
<1>8. ASSUME NEW j \in Joiners, JoinFailed(j)
      PROVE  ViewStep(p)
  BY <1>7, <1>8 DEF JoinFailed, Proc
<1>9. ASSUME NEW n \in Leavers, LeaveCluster(n)
      PROVE  ViewStep(p)
  BY <1>7, <1>9, MembershipAssumption DEF LeaveCluster, Proc
<1>10. ASSUME NEW m \in leaves, HandleLeaveRequest(m)
       PROVE  ViewStep(p)
  <2>1. /\ view' = [view EXCEPT ![m.to] = DeleteNode(view[m.to], m.id)] /\ UNCHANGED phase
        /\ MayGo(m.id)
    BY <1>10 DEF HandleLeaveRequest, LeavePart, MayGo
  <2>2. view'[p] = view[p] \/ view'[p] = DeleteNode(view[p], m.id)
    BY <1>0, <2>1
  <2> QED BY <2>1, <2>2 DEF ViewStep
<1>11. ASSUME NEW l \in Running, NEW q \in SUBSET Running, DecideBlock(l, q)
       PROVE  ViewStep(p)
  BY <1>1, <1>11 DEF DecideBlock, clusterVars
<1>12. ASSUME NEW n \in Proc,
              \/ JoinTimer(n) \/ CommitBlock(n) \/ ProcessSyncUpResponse(n)
              \/ \E h \in 1..MaxHeight : StartJoined(n, h) \/ StartLeaved(n, h)
       PROVE  ViewStep(p)
  BY <1>1, <1>12 DEF JoinTimer, CommitBlock, ProcessSyncUpResponse, StartJoined, StartLeaved,
                     clusterVars
<1>13. ASSUME NEW n \in Proc, LeaveTimer(n)
       PROVE  ViewStep(p)
  <2> DEFINE t == timers[n].leave
             gone == t.who \notin Normal(view[n].list)
             left == IF gone THEN 0 ELSE t.left - 1
  <2>1. t.left > 0 /\ t.fires > 0 /\ ((left = 0 /\ ~gone) \/ UNCHANGED view)
        /\ UNCHANGED phase
    BY <1>13 DEF LeaveTimer
  <2>2. t.left = 3
    BY <2>1 DEF IInv, TimerPart, Timer
  <2> QED BY <1>1, <2>1, <2>2
<1>14. ASSUME NEW n \in Proc, FinishJoined(n)
       PROVE  ViewStep(p)
  <2> DEFINE b == chain[joining[n]].block
  <2>5. CASE HandlerPanics(n)
    <3>1. /\ phase' = [phase EXCEPT ![n] = "failed"]
          /\ view' = [view EXCEPT ![n] = InitWithNodeList(<<>>)]
      BY <2>5 DEF HandlerPanics, Forget
    <3>2. p # n
      BY <1>0, <3>1 DEF Active
    <3> QED BY <1>0, <3>1, <3>2 DEF ViewStep
  <2> SUFFICES ASSUME ~HandlerPanics(n) PROVE ViewStep(p)
    BY <2>5
  <2>1. /\ joining[n] # 0 /\ view' = [view EXCEPT ![n] = AddNode(view[n], b.host, b.id)]
        /\ UNCHANGED phase
    BY <1>14, FinishJoinedCases DEF Reconfigure
  <2>2. joining[n] \in 1..Len(chain) /\ b.type = "JOIN"
    BY <1>0, <2>1 DEF IInv, ChainPart
  <2>3. b.host \in Joiners
    BY <2>2, JoinBlock
  <2>4. view'[p] = view[p] \/ view'[p] = AddNode(view[p], b.host, b.id)
    BY <1>0, <2>1
  <2> QED BY <2>1, <2>3, <2>4 DEF ViewStep
<1>15. ASSUME NEW n \in Proc, FinishLeaved(n)
       PROVE  ViewStep(p)
  <2> DEFINE i == chain[leaving[n]].block.id
  <2>1. /\ leaving[n] # 0 /\ view' = [view EXCEPT ![n] = DeleteNode(view[n], i)]
        /\ UNCHANGED phase
    BY <1>15 DEF FinishLeaved, Reconfigure
  <2>2. leaving[n] \in 1..Len(chain) /\ chain[leaving[n]].block.type = "LEAVE"
    BY <1>0, <2>1 DEF IInv, ChainPart
  <2>3. MayGo(i)
    BY <2>2 DEF LeavePart, MayGo
  <2>4. view'[p] = view[p] \/ view'[p] = DeleteNode(view[p], i)
    BY <1>0, <2>1
  <2> QED BY <2>1, <2>3, <2>4 DEF ViewStep
<1>16. ASSUME NEW n \in Proc, Restart(n)
       PROVE  ViewStep(p)
  <2>1. view' = [view EXCEPT ![n] = Configured] /\ UNCHANGED phase
    BY <1>16 DEF Restart, Forget
  <2>2. view'[p] = view[p] \/ view'[p] = Configured
    BY <1>0, <2>1
  <2> QED BY <2>1, <2>2 DEF ViewStep
<1>17. CASE UNCHANGED vars
  BY <1>1, <1>17 DEF vars, clusterVars
<1> QED BY <1>2, <1>3, <1>4, <1>5, <1>6, <1>8, <1>9, <1>10, <1>11, <1>12, <1>13, <1>14,
           <1>15, <1>16, <1>17 DEF Next

\* A list of the configuration file.
LEMMA ConfiguredIsListed ==
  Listed(Configured.list) /\ Configured.quorum = Quorum(Configured.size)
<1> DEFINE list == [i \in 1..N |-> [host |-> i - 1, normal |-> TRUE]]
<1>1. Configured.list = list /\ Configured.quorum = Quorum(Configured.size)
  BY DEF Configured, InitWithNodeList
<1>2. N \in Nat
  BY MembershipAssumption
<1>3. Len(list) = N
  BY <1>2
<1>4. \A i \in 1..N : list[i].host = i - 1 /\ list[i].normal
  OBVIOUS
<1> HIDE DEF list
<1> QED BY <1>1, <1>2, <1>3, <1>4 DEF Listed

\* DeleteNode of an id that may go.
LEMMA DeleteIsListed ==
  ASSUME NEW v \in View, Listed(v.list), NEW i, MayGo(i)
  PROVE  /\ Listed(DeleteNode(v, i).list)
         /\ v.quorum = Quorum(v.size) =>
              DeleteNode(v, i).quorum = Quorum(DeleteNode(v, i).size)
<1>1. CASE i \notin Normal(v.list)
  BY <1>1 DEF DeleteNode
<1>2. CASE i \in Normal(v.list)
  <2> DEFINE list == [v.list EXCEPT ![i+1].normal = FALSE]
  <2>1. v.list \in Seq(Entry) /\ N \in Nat /\ Leavers \subseteq 0..N-1
    BY MembershipAssumption DEF View, Entry, Member
  <2>2. /\ Len(list) = Len(v.list) /\ Len(v.list) \in Nat
        /\ \A k \in 1..Len(v.list) : list[k].host = v.list[k].host
        /\ \A k \in 1..Len(v.list) : k # i+1 => list[k] = v.list[k]
    BY <1>2, <2>1, NormalDelete, NormalOfList
  <2>3. DeleteNode(v, i).list = list
        /\ DeleteNode(v, i).quorum = Quorum(DeleteNode(v, i).size)
    BY <1>2 DEF DeleteNode, Resized
  <2> HIDE DEF list
  <2>4. \A k \in 1..N : list[k].host = k - 1 /\ (list[k].normal \/ k - 1 \in Leavers)
    <3> TAKE k \in 1..N
    <3>1. k \in 1..Len(v.list) /\ k \in Int
      BY <2>1, <2>2 DEF Listed
    <3>2. CASE k = i + 1
      <4>1. i \in Int
        BY <1>2, <2>1, NormalOfList
      <4>2. i = k - 1 /\ i < N
        BY <2>1, <3>1, <3>2, <4>1
      <4>3. k - 1 \in Leavers
        BY <2>1, <4>1, <4>2 DEF MayGo
      <4> QED BY <2>2, <3>1, <4>3 DEF Listed
    <3>3. CASE k # i + 1
      BY <2>2, <3>1, <3>3 DEF Listed
    <3> QED BY <3>2, <3>3
  <2>5. \A k \in (N + 1)..Len(list) : list[k].host \in Joiners
    BY <2>1, <2>2 DEF Listed
  <2> QED BY <2>2, <2>3, <2>4, <2>5 DEF Listed
<1> QED BY <1>1, <1>2

\* AddNode and AddNodeInfo of one that asked.
LEMMA AddIsListed ==
  ASSUME NEW v \in View, Listed(v.list), NEW host \in Joiners, NEW i
  PROVE  /\ Listed(AddNode(v, host, i).list) /\ Listed(AddNodeInfo(v, host).list)
         /\ v.quorum = Quorum(v.size) =>
              AddNode(v, host, i).quorum = Quorum(AddNode(v, host, i).size)
<1> DEFINE e == [host |-> host, normal |-> TRUE]
           list == Append(v.list, e)
<1>1. v.list \in Seq(Entry) /\ N \in Nat /\ e \in Entry /\ e.host = host
  BY MembershipAssumption DEF View, Entry, Proc
<1>2. /\ Len(list) = Len(v.list) + 1 /\ Len(v.list) \in Nat
      /\ \A k \in 1..Len(v.list) : list[k] = v.list[k]
      /\ list[Len(v.list) + 1] = e
  BY <1>1
<1>3. AddNodeInfo(v, host).list = list
  BY DEF AddNodeInfo
<1>4. i = Len(v.list) => /\ AddNode(v, host, i).list = list
                         /\ AddNode(v, host, i).quorum = Quorum(AddNode(v, host, i).size)
  BY DEF AddNode, Resized
<1>5. i # Len(v.list) => AddNode(v, host, i) = v
  BY DEF AddNode
<1> HIDE DEF list, e
<1>6. Len(list) >= N
  BY <1>1, <1>2 DEF Listed
<1>7. \A k \in 1..N : list[k].host = k - 1 /\ (list[k].normal \/ k - 1 \in Leavers)
  <2> TAKE k \in 1..N
  <2>1. k \in 1..Len(v.list)
    BY <1>1, <1>2 DEF Listed
  <2>2. list[k] = v.list[k]
    BY <1>2, <2>1
  <2> QED BY <2>2 DEF Listed
<1>8. ASSUME NEW k \in (N + 1)..Len(list) PROVE list[k].host \in Joiners
  <2>1. k \in (N + 1)..Len(v.list) \/ k = Len(v.list) + 1
    BY <1>1, <1>2
  <2>2. CASE k \in (N + 1)..Len(v.list)
    BY <1>1, <1>2, <2>2 DEF Listed
  <2>3. CASE k = Len(v.list) + 1
    BY <1>1, <1>2, <2>3
  <2> QED BY <2>1, <2>2, <2>3
<1>9. Listed(list)
  BY <1>6, <1>7, <1>8 DEF Listed
<1> QED BY <1>3, <1>4, <1>5, <1>9

\* One step keeps the lists.
LEMMA ListPartStep ==
  ASSUME IInv, ListInv, [Next]_vars
  PROVE  ListPart'
<1>1. ASSUME NEW p \in Proc, phase'[p] \in Active
      PROVE  /\ Listed(view'[p].list)
             /\ phase'[p] = "run" /\ p \in Member => view'[p].quorum = Quorum(view'[p].size)
  <2>1. ViewStep(p)
    BY <1>1, ViewSteps DEF ListInv
  <2>2. p \in Member => p \notin Joiners
    BY MembershipAssumption
  <2>3. CASE /\ phase[p] \in Active /\ (phase'[p] = "run" /\ p \in Member => phase[p] = "run")
             /\ \/ view'[p] = view[p]
                \/ \E i : MayGo(i) /\ view'[p] = DeleteNode(view[p], i)
                \/ \E host \in Joiners : \E i : view'[p] = AddNode(view[p], host, i)
                \/ p \in Joiners /\ \E host \in Joiners : view'[p] = AddNodeInfo(view[p], host)
    <3>1. view[p] \in View /\ Listed(view[p].list)
      BY <2>3 DEF IInv, ViewPart, ListInv, ListPart
    <3>2. phase'[p] = "run" /\ p \in Member => view[p].quorum = Quorum(view[p].size)
      BY <2>3 DEF ListInv, ListPart
    <3>3. CASE view'[p] = view[p]
      BY <3>1, <3>2, <3>3
    <3>4. CASE \E i : MayGo(i) /\ view'[p] = DeleteNode(view[p], i)
      BY <3>1, <3>2, <3>4, DeleteIsListed
    <3>5. CASE \E host \in Joiners : \E i : view'[p] = AddNode(view[p], host, i)
      BY <3>1, <3>2, <3>5, AddIsListed
    <3>6. CASE p \in Joiners /\ \E host \in Joiners : view'[p] = AddNodeInfo(view[p], host)
      BY <2>2, <3>1, <3>6, AddIsListed
    <3> QED BY <2>3, <3>3, <3>4, <3>5, <3>6
  <2>4. CASE view'[p] = Configured
    BY <2>4, ConfiguredIsListed
  <2>5. CASE p \in Joiners /\ \E g \in Running : view'[p] = InitWithNodeList(view[g].list)
    <3>1. PICK g \in Running : view'[p] = InitWithNodeList(view[g].list)
      BY <2>5
    <3>2. Listed(view[g].list)
      BY DEF ListInv, ListPart, Running, Active
    <3> QED BY <2>2, <2>5, <3>1, <3>2 DEF InitWithNodeList
  <2> QED BY <2>1, <2>3, <2>4, <2>5 DEF ViewStep
<1>2. Member \subseteq Proc /\ "run" \in Active
  BY DEF Proc, Active
<1> QED BY <1>1, <1>2 DEF ListPart

\* The ids of who leaves and who joins stay where they are, or are given.
LEMMA LeaveKept ==
  ASSUME IInv, LeavePart, \A p \in Member : id'[p] = id[p],
         \A m \in leaves' : m \in leaves \/ m.id \in Leavers,
         \A p \in Proc : leavingNodeId'[p] \in Leavers \cup {None, leavingNodeId[p]},
         chain' = chain
  PROVE  LeavePart'
  BY DEF LeavePart

\* The block a leader proposes.
LEMMA DecideLeave ==
  ASSUME IInv, ListInv, NEW l \in Running, NEW q \in SUBSET Running, DecideBlock(l, q)
  PROVE  LeavePart'
<1>1. PICK b \in BlockToInit(l) : chain' = Append(chain, [block |-> b, accepted |-> q])
  BY DEF DecideBlock
<1>2. l \in Proc /\ leavingNodeId[l] \in Leavers \cup {None} /\ Listed(view[l].list)
  BY DEF ListInv, ListPart, LeavePart, Running, Active
<1>3. /\ b.type = "LEAVE" => b.id \in Leavers
      /\ b.type = "JOIN" => b.id >= N
  BY <1>1, <1>2 DEF BlockToInit, Listed
<1>4. chain \in Seq([block : Block, accepted : SUBSET Proc]) /\ Len(chain) \in Nat
  BY DEF IInv, ChainPart
<1>5. /\ Len(chain') = Len(chain) + 1 /\ \A i \in 1..Len(chain) : chain'[i] = chain[i]
      /\ chain'[Len(chain) + 1].block = b
  BY <1>1, <1>4
<1>6. \A h \in 1..Len(chain') : h \in 1..Len(chain) \/ h = Len(chain) + 1
  BY <1>4, <1>5
<1>7. \A h \in 1..Len(chain') :
        /\ chain'[h].block.type = "LEAVE" => chain'[h].block.id \in Leavers
        /\ chain'[h].block.type = "JOIN" => chain'[h].block.id >= N
  BY <1>3, <1>5, <1>6 DEF ListInv, LeavePart
<1>8. UNCHANGED <<id, leaves, leavingNodeId>>
  BY DEF DecideBlock, leaderVars
<1> QED BY <1>7, <1>8 DEF ListInv, LeavePart

\* One step keeps the ids.
LEMMA LeavePartStep ==
  ASSUME IInv, ListInv, [Next]_vars
  PROVE  LeavePart'
<1>0. /\ id \in [Proc -> Id \cup {None}] /\ leavingNodeId \in [Proc -> Id \cup {None}]
      /\ Member \subseteq Proc /\ Leavers \subseteq Member /\ Joiners \cap Member = {}
      /\ LeavePart
  BY MembershipAssumption DEF IInv, PhasePart, RequestPart, Proc, ListInv
<1>1. ASSUME NEW n \in Proc, leavingNodeId' = [leavingNodeId EXCEPT ![n] = None],
             UNCHANGED <<id, chain>>, \A m \in leaves' : m \in leaves \/ m.id \in Leavers
      PROVE  LeavePart'
  BY <1>0, <1>1, LeaveKept
<1>2. ASSUME UNCHANGED <<id, chain, leaves, leavingNodeId>> PROVE LeavePart'
  BY <1>0, <1>2, LeaveKept
<1>3. ASSUME NEW j \in Joiners, NEW g \in Proc, InitJoin(j, g)
      PROVE  LeavePart'
  <2>1. \A p \in Member : id'[p] = id[p]
    BY <1>0, <1>3 DEF InitJoin
  <2> QED BY <1>0, <1>3, <2>1, LeaveKept DEF InitJoin, leaderVars
<1>4. ASSUME NEW j \in Joiners,
             \/ \E n \in Proc : HandleJoinCheckSyncedRequest(j, n)
             \/ ProcessSimpleSyncUpResponse(j) \/ SyncedBeforeJoin(j) \/ OnJoined(j)
      PROVE  LeavePart'
  BY <1>2, <1>4 DEF HandleJoinCheckSyncedRequest, ProcessSimpleSyncUpResponse, SyncedBeforeJoin,
                    OnJoined, leaderVars
<1>5. ASSUME NEW j \in Joiners, JoinFailed(j)
      PROVE  LeavePart'
  BY <1>1, <1>5 DEF JoinFailed, Forget, Proc
<1>6. ASSUME NEW n \in Leavers, LeaveCluster(n)
      PROVE  LeavePart'
  <2>1. id[n] = n /\ n \in Proc
    BY <1>0 DEF LeavePart
  <2>2. /\ \A m \in leaves' : m \in leaves \/ m.id = id[n]
        /\ UNCHANGED <<id, chain>> /\ leavingNodeId' = [leavingNodeId EXCEPT ![n] = None]
    BY <1>6 DEF LeaveCluster, Forget
  <2> QED BY <1>1, <2>1, <2>2
<1>7. ASSUME NEW m \in leaves, HandleLeaveRequest(m)
      PROVE  LeavePart'
  <2>1. /\ m.id \in Leavers /\ UNCHANGED <<id, chain>> /\ leaves' = leaves \ {m}
        /\ leavingNodeId' = [leavingNodeId EXCEPT ![m.to] = m.id]
    BY <1>0, <1>7 DEF HandleLeaveRequest, LeavePart
  <2>2. \A p \in Proc : leavingNodeId'[p] \in Leavers \cup {None, leavingNodeId[p]}
    BY <1>0, <2>1
  <2> QED BY <1>0, <2>1, <2>2, LeaveKept
<1>8. ASSUME NEW n \in Proc,
             \/ JoinTimer(n) \/ CommitBlock(n) \/ ProcessSyncUpResponse(n)
             \/ FinishLeaved(n)
             \/ \E h \in 1..MaxHeight : StartJoined(n, h)
      PROVE  LeavePart'
  BY <1>2, <1>8 DEF JoinTimer, CommitBlock, ProcessSyncUpResponse, FinishLeaved,
                    StartJoined, leaderVars
<1>9. ASSUME NEW n \in Proc, \/ LeaveTimer(n) \/ FinishJoined(n) \/ Restart(n)
                             \/ \E h \in 1..MaxHeight : StartLeaved(n, h)
      PROVE  LeavePart'
  <2>1. /\ UNCHANGED <<id, chain, leaves>>
        /\ \/ UNCHANGED leavingNodeId
           \/ leavingNodeId' = [leavingNodeId EXCEPT ![n] = None]
    BY <1>9, FinishJoinedCases DEF LeaveTimer, HandlerPanics, Restart, Forget, StartLeaved
  <2> QED BY <1>1, <1>2, <2>1
<1>10. CASE UNCHANGED vars
  BY <1>2, <1>10 DEF vars, leaderVars
<1> QED BY <1>3, <1>4, <1>5, <1>6, <1>7, <1>8, <1>9, <1>10, DecideLeave DEF Next

\* The hosts that a process counts: at least the configured nodes that stay, at most
\* all there are, and no more of them than ClusterSize.
LEMMA KeysOfList ==
  ASSUME NEW v \in View, Fits(v), Listed(v.list)
  PROVE  LET keys == GetFederationAddress(v).keys IN
         /\ Member \ Leavers \subseteq keys /\ keys \subseteq Proc
         /\ IsFiniteSet(keys) /\ Cardinality(keys) <= v.size
<1> DEFINE keys == {v.list[i+1].host : i \in Normal(v.list)}
           f == [i \in Normal(v.list) |-> v.list[i+1].host]
<1>1. v.list \in Seq(Entry) /\ N \in Nat
  BY MembershipAssumption DEF View, Entry
<1>2. /\ Len(v.list) \in Nat /\ Normal(v.list) \subseteq 0..Len(v.list)-1
      /\ IsFiniteSet(Normal(v.list))
  BY <1>1, NormalOfList
<1>3. f \in Surjection(Normal(v.list), keys)
  BY DEF Surjection
<1>4. IsFiniteSet(keys) /\ Cardinality(keys) <= Cardinality(Normal(v.list))
  BY <1>2, <1>3, FS_Surjection
<1>5. keys \subseteq Proc
  BY ViewHasAddress DEF GetFederationAddress, Address
<1>6. ASSUME NEW i \in Member \ Leavers PROVE i \in keys
  <2>1. i + 1 \in 1..N /\ i \in 0..Len(v.list)-1 /\ i + 1 - 1 = i
    BY <1>1, <1>2 DEF Member, Listed
  <2>2. v.list[i+1].host = i /\ v.list[i+1].normal
    BY <2>1 DEF Listed
  <2> QED BY <2>1, <2>2 DEF Normal
<1>7. GetFederationAddress(v).keys = keys
  BY DEF GetFederationAddress
<1> QED BY <1>4, <1>5, <1>6, <1>7 DEF Fits

\* A member's quorum is more than two thirds of its nodes, and either formula gives
\* at least two thirds.
LEMMA TwoThirds ==
  ASSUME NEW n \in Nat, NEW q \in Int, 2 * q > n + F(n)
  PROVE  /\ 3 * q >= 2 * n
         /\ q = Quorum(n) => 3 * q > 2 * n
<1>1. F(n) \in Int /\ 3 * F(n) <= n - 1 /\ 3 * F(n) >= n - 3
  BY DEF F
<1> QED BY <1>1 DEF Quorum

\* Two sets of hosts that share those that stay.
LEMMA SharedHosts ==
  ASSUME NEW K, NEW L, IsFiniteSet(K), IsFiniteSet(L),
         Member \ Leavers \subseteq K, Member \ Leavers \subseteq L,
         K \subseteq Proc, L \subseteq Proc
  PROVE  /\ Cardinality(K) \in Nat /\ Cardinality(L) \in Nat
         /\ Cardinality(K \cup L) \in Nat
         /\ Cardinality(Leavers) \in Nat /\ Cardinality(Joiners) \in Nat
         /\ Cardinality(K) + Cardinality(L) >= Cardinality(K \cup L) + N - Cardinality(Leavers)
         /\ Cardinality(K \cup L) <= N + Cardinality(Joiners)
<1>1. /\ IsFiniteSet(Member) /\ Cardinality(Member) = N /\ N \in Nat
      /\ IsFiniteSet(Joiners) /\ Leavers \subseteq Member
  <2>1. N \in Nat \ {0} /\ N - 1 \in Int
    BY MembershipAssumption
  <2>2. IsFiniteSet(0..N-1) /\ Cardinality(0..N-1) = (IF 0 > N-1 THEN 0 ELSE N - 1 - 0 + 1)
    BY <2>1, FS_Interval
  <2> QED BY <2>1, <2>2, MembershipAssumption DEF Member
<1>2. /\ IsFiniteSet(Proc) /\ Cardinality(Joiners) \in Nat
      /\ Cardinality(Proc) = N + Cardinality(Joiners)
  <2>1. /\ IsFiniteSet(Member \cup Joiners)
        /\ Cardinality(Member \cup Joiners)
             = Cardinality(Member) + Cardinality(Joiners) - Cardinality(Member \cap Joiners)
    BY <1>1, FS_Union
  <2>2. Member \cap Joiners = {}
    BY MembershipAssumption
  <2>3. Cardinality(Member \cap Joiners) = 0
    BY <2>2, FS_EmptySet
  <2> QED BY <1>1, <2>1, <2>3, FS_CardinalityType DEF Proc
<1>3. /\ IsFiniteSet(Leavers) /\ Cardinality(Leavers) \in Nat
      /\ IsFiniteSet(Member \ Leavers)
      /\ Cardinality(Member \ Leavers) = N - Cardinality(Leavers)
  <2>1. IsFiniteSet(Leavers)
    BY <1>1, FS_Subset
  <2>2. Member \cap Leavers = Leavers
    BY <1>1
  <2>3. /\ IsFiniteSet(Member \ Leavers)
        /\ Cardinality(Member \ Leavers) = Cardinality(Member) - Cardinality(Member \cap Leavers)
    BY <1>1, FS_Difference
  <2> QED BY <1>1, <2>1, <2>2, <2>3, FS_CardinalityType
<1>4. /\ IsFiniteSet(K \cup L) /\ IsFiniteSet(K \cap L)
      /\ Cardinality(K \cup L) = Cardinality(K) + Cardinality(L) - Cardinality(K \cap L)
  BY FS_Union, FS_Intersection
<1>5. /\ Cardinality(K) \in Nat /\ Cardinality(L) \in Nat
      /\ Cardinality(K \cup L) \in Nat /\ Cardinality(K \cap L) \in Nat
  BY <1>4, FS_CardinalityType
<1>6. Cardinality(Member \ Leavers) <= Cardinality(K \cap L)
  <2>1. Member \ Leavers \subseteq K \cap L
    OBVIOUS
  <2> QED BY <1>4, <2>1, FS_Subset
<1>7. Cardinality(K \cup L) <= Cardinality(Proc)
  <2>1. K \cup L \subseteq Proc
    OBVIOUS
  <2> QED BY <1>2, <2>1, FS_Subset
<1> QED BY <1>1, <1>2, <1>3, <1>4, <1>5, <1>6, <1>7

\* How many may join and leave.  One of each needs three configured nodes; two may
\* both have AddNodeInfo's lower quorum when there are two joiners or more.
FewMoves ==
  LET moves == 2 * Cardinality(Leavers) + Cardinality(Joiners)
  IN  moves < N \/ (moves = N /\ Cardinality(Joiners) <= 1)

\* Quorums of two running processes, whatever each of them knows.
LEMMA ListsOverlap ==
  ASSUME IInv, ListInv, FewMoves
  PROVE  QuorumsOverlap
<1> SUFFICES ASSUME NEW p \in Running, NEW n \in Running
             PROVE  view[p].quorum + view[n].quorum >
                      Cardinality(GetFederationAddress(view[p]).keys
                                    \cup GetFederationAddress(view[n]).keys)
  BY DEF QuorumsOverlap
<1> DEFINE K(r) == GetFederationAddress(view[r]).keys
<1>1. ASSUME NEW r \in Running
      PROVE  /\ view[r] \in View /\ Fits(view[r]) /\ Listed(view[r].list)
             /\ view[r].size \in Nat /\ view[r].quorum \in Int
             /\ r \in Member => view[r].quorum = Quorum(view[r].size)
  BY DEF IInv, ViewPart, ListInv, ListPart, Running, Active, View
<1>2. ASSUME NEW r \in Running
      PROVE  /\ 3 * view[r].quorum >= 2 * view[r].size
             /\ r \in Member => 3 * view[r].quorum > 2 * view[r].size
  BY <1>1, TwoThirds DEF Fits
<1>3. ASSUME NEW r \in Running
      PROVE  /\ Member \ Leavers \subseteq K(r) /\ K(r) \subseteq Proc
             /\ IsFiniteSet(K(r)) /\ Cardinality(K(r)) <= view[r].size
  BY <1>1, KeysOfList
<1>4. /\ Cardinality(K(p)) \in Nat /\ Cardinality(K(n)) \in Nat
      /\ Cardinality(K(p) \cup K(n)) \in Nat
      /\ Cardinality(Leavers) \in Nat /\ Cardinality(Joiners) \in Nat
      /\ Cardinality(K(p)) + Cardinality(K(n))
           >= Cardinality(K(p) \cup K(n)) + N - Cardinality(Leavers)
      /\ Cardinality(K(p) \cup K(n)) <= N + Cardinality(Joiners)
  BY <1>3, SharedHosts
<1>5. N \in Nat /\ N > 0
  BY MembershipAssumption
<1>6. CASE p \in Member \/ n \in Member
  <2>1. 2 * Cardinality(Leavers) + Cardinality(Joiners) <= N
    BY <1>4, <1>5 DEF FewMoves
  <2>2. /\ view[p].size \in Nat /\ view[p].quorum \in Int
        /\ view[n].size \in Nat /\ view[n].quorum \in Int
        /\ Cardinality(K(p)) <= view[p].size /\ Cardinality(K(n)) <= view[n].size
        /\ 3 * view[p].quorum >= 2 * view[p].size /\ 3 * view[n].quorum >= 2 * view[n].size
        /\ 3 * view[p].quorum > 2 * view[p].size \/ 3 * view[n].quorum > 2 * view[n].size
    BY <1>1, <1>2, <1>3, <1>6
  <2> HIDE DEF K
  <2>3. view[p].quorum + view[n].quorum > Cardinality(K(p) \cup K(n))
    BY <1>4, <1>5, <2>1, <2>2
  <2> QED BY <2>3 DEF K
<1>7. CASE p # n /\ p \in Joiners /\ n \in Joiners
  <2>1. Cardinality(Joiners) > 1
    <3>1. {p, n} \subseteq Joiners /\ IsFiniteSet(Joiners) /\ Cardinality({p, n}) = 2
      <4>1. IsFiniteSet({p}) /\ Cardinality({p}) = 1 /\ n \notin {p}
        BY <1>7, FS_Singleton
      <4>2. Cardinality({p} \cup {n}) = 2
        BY <4>1, FS_AddElement
      <4>3. {p, n} = {p} \cup {n}
        OBVIOUS
      <4> QED BY <1>7, <4>2, <4>3, MembershipAssumption
    <3>2. Cardinality({p, n}) <= Cardinality(Joiners)
      BY <3>1, FS_Subset
    <3> QED BY <1>4, <3>1, <3>2
  <2>2. 2 * Cardinality(Leavers) + Cardinality(Joiners) < N
    BY <1>4, <1>5, <2>1 DEF FewMoves
  <2>3. /\ view[p].size \in Nat /\ view[p].quorum \in Int
        /\ view[n].size \in Nat /\ view[n].quorum \in Int
        /\ Cardinality(K(p)) <= view[p].size /\ Cardinality(K(n)) <= view[n].size
        /\ 3 * view[p].quorum >= 2 * view[p].size /\ 3 * view[n].quorum >= 2 * view[n].size
    BY <1>1, <1>2, <1>3
  <2> HIDE DEF K
  <2>4. view[p].quorum + view[n].quorum > Cardinality(K(p) \cup K(n))
    BY <1>4, <1>5, <2>2, <2>3
  <2> QED BY <2>4 DEF K
<1>8. CASE p = n
  <2>1. /\ Cardinality(K(p) \cup K(n)) = Cardinality(K(p))
        /\ Cardinality(K(n)) = Cardinality(K(p)) /\ view[n].quorum = view[p].quorum
    <3>1. K(p) \cup K(n) = K(p)
      BY <1>8
    <3> QED BY <1>8, <3>1
  <2>2. F(view[p].size) \in Int /\ 3 * F(view[p].size) >= view[p].size - 3
    BY <1>1 DEF F
  <2>3. 2 * view[p].quorum > view[p].size + F(view[p].size)
    BY <1>1 DEF Fits
  <2>4. 2 * Cardinality(Leavers) + Cardinality(Joiners) <= N
    BY <1>4, <1>5 DEF FewMoves
  <2>5. /\ view[p].size \in Nat /\ view[p].quorum \in Int
        /\ Cardinality(K(p)) <= view[p].size /\ Cardinality(K(p)) \in Nat
    BY <1>1, <1>3, <1>4
  <2> HIDE DEF K
  <2>6. view[p].size > 0
    BY <1>4, <1>5, <2>1, <2>4, <2>5
  <2>7. F(view[p].size) >= 0
    BY <2>2, <2>5, <2>6
  <2>8. view[p].quorum + view[n].quorum > Cardinality(K(p) \cup K(n))
    BY <2>1, <2>2, <2>3, <2>5, <2>7
  <2> QED BY <2>8 DEF K
<1> QED BY <1>6, <1>7, <1>8 DEF Running, Proc

\* The lists, and the ids of who leaves and joins, in every reachable state.
THEOREM ListInvariance == Spec => []ListInv
<1>1. Init => ListInv
  <2> SUFFICES ASSUME Init PROVE ListInv
    OBVIOUS
  <2>1. \A p \in Proc : phase[p] \in Active => p \in Member
    BY DEF Init, Active
  <2>2. ListPart
    <3>1. \A p \in Member : p \in Proc /\ view[p] = Configured
      BY DEF Init, Proc
    <3> QED BY <2>1, <3>1, ConfiguredIsListed DEF ListPart
  <2>3. LeavePart
    <3>1. Len(chain) = 0 /\ leaves = {} /\ leavingNodeId = [p \in Proc |-> None]
      BY DEF Init
    <3>2. \A p \in Member : id[p] = p
      BY DEF Init, Proc
    <3> QED BY <3>1, <3>2 DEF LeavePart
  <2> QED BY <2>2, <2>3 DEF ListInv
<1>2. IInv /\ ListInv /\ [Next]_vars => ListInv'
  BY ListPartStep, LeavePartStep DEF ListInv
<1> QED BY <1>1, <1>2, Invariance, PTL DEF Spec

\* While few nodes join and leave, a quorum of one running process and a quorum of
\* another have a node in common, though each counts by its own copy of the cluster
\* variables: it may have heard of the joins and leaves or not, have synced past
\* them, or have forgotten them in a restart; and a joined node uses AddNodeInfo's
\* formula.  With one joiner and one leaver three configured nodes are enough, and
\* two are not.
THEOREM QuorumsMeet ==
  ASSUME FewMoves
  PROVE  Spec => []QuorumsOverlap
<1>1. IInv /\ ListInv => QuorumsOverlap
  BY ListsOverlap
<1> QED BY <1>1, Invariance, ListInvariance, PTL

-----------------------------------------------------------------------------
(* The peers of all processes, when one node joins                         *)

Join(h) == chain[h].block.type = "JOIN"

\* A join of the id k is among the first h blocks.
Joined(k, h) == \E g \in 1..h : Join(g) /\ chain[g].block.id = k

\* The chain grows by the block of a leader that has all of it; heights grow.
LEMMA ChainSteps ==
  ASSUME IInv, [Next]_vars
  PROVE  /\ Len(chain) \in Nat /\ Len(chain') \in Nat /\ Len(chain') >= Len(chain)
         /\ \A h \in 1..Len(chain) : chain'[h] = chain[h]
         /\ \A p \in Proc : height[p] \in 0..Len(chain)
         /\ \A p \in Proc : height'[p] \in Nat /\ height'[p] >= height[p]
         /\ \A h \in 1..Len(chain') : h \in 1..Len(chain) \/
              /\ h = Len(chain) + 1
              /\ \E l \in Running : chain'[h].block \in BlockToInit(l) /\ height[l] = Len(chain)
<1>0. /\ chain \in Seq([block : Block, accepted : SUBSET Proc])
      /\ height \in [Proc -> 0..Len(chain)] /\ Len(chain) \in Nat
  BY DEF IInv, ChainPart
<1> DEFINE Goal ==
      /\ Len(chain') \in Nat /\ Len(chain') >= Len(chain)
      /\ \A h \in 1..Len(chain) : chain'[h] = chain[h]
      /\ \A p \in Proc : height'[p] \in Nat /\ height'[p] >= height[p]
      /\ \A h \in 1..Len(chain') : h \in 1..Len(chain) \/
           /\ h = Len(chain) + 1
           /\ \E l \in Running : chain'[h].block \in BlockToInit(l) /\ height[l] = Len(chain)
<1>1. ASSUME UNCHANGED <<chain, height>> PROVE Goal
  BY <1>0, <1>1
<1>2. ASSUME NEW p \in Proc, UNCHANGED chain, height' = [height EXCEPT ![p] = height[p] + 1]
      PROVE  Goal
  BY <1>0, <1>2
<1>3. ASSUME NEW l \in Running, NEW q \in SUBSET Running, DecideBlock(l, q)
      PROVE  Goal
  <2>1. PICK b \in BlockToInit(l) : chain' = Append(chain, [block |-> b, accepted |-> q])
    BY <1>3 DEF DecideBlock
  <2>2. UNCHANGED height /\ height[l] = Len(chain)
    BY <1>3 DEF DecideBlock, storeVars
  <2>3. /\ Len(chain') = Len(chain) + 1 /\ \A i \in 1..Len(chain) : chain'[i] = chain[i]
        /\ chain'[Len(chain) + 1].block = b
    BY <1>0, <2>1
  <2>4. \A p \in Proc : height'[p] \in Nat /\ height'[p] >= height[p]
    BY <1>0, <2>2
  <2>5. \A h \in 1..Len(chain') : h \in 1..Len(chain) \/ h = Len(chain) + 1
    BY <1>0, <2>3
  <2>6. Len(chain') \in Nat /\ Len(chain') >= Len(chain)
    BY <1>0, <2>3
  <2> QED BY <2>1, <2>2, <2>3, <2>4, <2>5, <2>6
<1>4. ASSUME NEW j \in Joiners,
             \/ \E g \in Proc : InitJoin(j, g) \/ HandleJoinCheckSyncedRequest(j, g)
             \/ SyncedBeforeJoin(j) \/ OnJoined(j) \/ JoinFailed(j)
      PROVE  Goal
  BY <1>1, <1>4 DEF InitJoin, HandleJoinCheckSyncedRequest, SyncedBeforeJoin, OnJoined, JoinFailed,
                    storeVars
<1>5. ASSUME NEW j \in Joiners, ProcessSimpleSyncUpResponse(j)
      PROVE  Goal
  BY <1>2, <1>5 DEF ProcessSimpleSyncUpResponse, Proc
<1>6. ASSUME \/ \E p \in Leavers : LeaveCluster(p)
             \/ \E m \in leaves : HandleLeaveRequest(m)
      PROVE  Goal
  BY <1>1, <1>6 DEF LeaveCluster, HandleLeaveRequest, storeVars
<1>7. ASSUME NEW n \in Proc,
             \/ JoinTimer(n) \/ LeaveTimer(n) \/ FinishJoined(n) \/ FinishLeaved(n) \/ Restart(n)
             \/ \E h \in 1..MaxHeight : StartJoined(n, h) \/ StartLeaved(n, h)
      PROVE  Goal
  BY <1>1, <1>7, FinishJoinedCases
     DEF JoinTimer, LeaveTimer, HandlerPanics, FinishLeaved, Restart, StartJoined, StartLeaved,
         storeVars
<1>8. ASSUME NEW n \in Proc, CommitBlock(n) \/ ProcessSyncUpResponse(n)
      PROVE  Goal
  BY <1>2, <1>8 DEF CommitBlock, ProcessSyncUpResponse
<1>9. ASSUME UNCHANGED vars PROVE Goal
  BY <1>1, <1>9 DEF vars, storeVars
<1>10. Goal
  BY <1>3, <1>4, <1>5, <1>6, <1>7, <1>8, <1>9 DEF Next
<1> QED BY <1>0, <1>10

\* What a step does to the join request at a process, and to the handler of its
\* events: only an asking process makes a request.
AskStep(n) == \E p \in Joiners : HandleJoinCheckSyncedRequest(p, n)

RequestStep(n) ==
  /\ newNodeHost'[n] \in {newNodeHost[n], None} /\ joinInfo'[n] \in {joinInfo[n], None}
  /\ \/ joining'[n] \in {0, joining[n]}
     \/ joining'[n] \in events[n] /\ Join(joining'[n]) /\ newNodeHost'[n] = None
  /\ \A h \in events'[n] :
       h \in events[n] \/ (h \in 1..Len(chain) /\ (Join(h) => joinInfo[n] # None))
  /\ expected'[n] \in {expected[n], None} \/ n \in Crashers

LEMMA RequestSteps ==
  ASSUME IInv, [Next]_vars, NEW n \in Proc
  PROVE  AskStep(n) \/ RequestStep(n)
<1>0. /\ newNodeHost \in [Proc -> Joiners \cup {None}] /\ joinInfo \in [Proc -> Joiners \cup {None}]
      /\ expected \in [Proc -> Joiners \cup {None}]
      /\ joining \in [Proc -> Nat] /\ events \in [Proc -> SUBSET Nat]
      /\ height \in [Proc -> 0..Len(chain)] /\ Len(chain) \in Nat
  BY DEF IInv, RequestPart, PhasePart, ChainPart
<1>1. ASSUME UNCHANGED <<newNodeHost, joinInfo, joining, events, expected>>
      PROVE  RequestStep(n)
  BY <1>1 DEF RequestStep
<1>2. ASSUME NEW r \in Proc, newNodeHost' = [newNodeHost EXCEPT ![r] = None],
             joinInfo' = joinInfo, joining' = [joining EXCEPT ![r] = 0],
             events' = [events EXCEPT ![r] = {}],
             expected' = expected \/ (r \in Crashers /\ expected' = [expected EXCEPT ![r] = expected'[r]])
      PROVE  RequestStep(n)
  BY <1>0, <1>2 DEF RequestStep
<1>3. ASSUME NEW j \in Joiners, NEW r \in Proc, HandleJoinCheckSyncedRequest(j, r)
      PROVE  AskStep(n) \/ RequestStep(n)
  <2>1. CASE r = n
    BY <1>3, <2>1 DEF AskStep
  <2>2. CASE r # n
    <3>1. /\ newNodeHost' = [newNodeHost EXCEPT ![r] = j] /\ joinInfo' = [joinInfo EXCEPT ![r] = j]
          /\ UNCHANGED <<joining, events, expected>>
      BY <1>3 DEF HandleJoinCheckSyncedRequest, taskVars
    <3> QED BY <1>0, <2>2, <3>1 DEF RequestStep
  <2> QED BY <2>1, <2>2
<1>4. ASSUME NEW j \in Joiners,
             \/ \E g \in Proc : InitJoin(j, g)
             \/ ProcessSimpleSyncUpResponse(j) \/ SyncedBeforeJoin(j) \/ OnJoined(j)
      PROVE  RequestStep(n)
  BY <1>1, <1>4 DEF InitJoin, ProcessSimpleSyncUpResponse, SyncedBeforeJoin, OnJoined,
                    storeVars, leaderVars, taskVars
<1>5. ASSUME NEW j \in Joiners, JoinFailed(j)
      PROVE  RequestStep(n)
  BY <1>2, <1>5 DEF JoinFailed, Forget, storeVars, Proc
<1>6. ASSUME NEW r \in Leavers, LeaveCluster(r)
      PROVE  RequestStep(n)
  BY <1>2, <1>6, MembershipAssumption DEF LeaveCluster, Forget, storeVars, Proc
<1>7. ASSUME \/ \E m \in leaves : HandleLeaveRequest(m)
             \/ \E l \in Running, q \in SUBSET Running : DecideBlock(l, q)
             \/ \E r \in Proc : LeaveTimer(r) \/ ProcessSyncUpResponse(r)
      PROVE  RequestStep(n)
  BY <1>1, <1>7 DEF HandleLeaveRequest, DecideBlock, LeaveTimer, ProcessSyncUpResponse,
                    storeVars, leaderVars, taskVars
<1>8. ASSUME NEW r \in Proc, JoinTimer(r)
      PROVE  RequestStep(n)
  <2>1. /\ UNCHANGED <<joinInfo, joining, events, expected>>
        /\ newNodeHost' = newNodeHost \/ newNodeHost' = [newNodeHost EXCEPT ![r] = None]
    BY <1>0, <1>8 DEF JoinTimer, storeVars, taskVars
  <2> QED BY <1>0, <2>1 DEF RequestStep
<1>9. ASSUME NEW r \in Proc, CommitBlock(r)
      PROVE  RequestStep(n)
  <2> DEFINE h == height[r] + 1
  <2>1. /\ UNCHANGED <<newNodeHost, joinInfo, joining, expected>> /\ h <= Len(chain)
        /\ \/ events' = events
           \/ /\ events' = [events EXCEPT ![r] = events[r] \cup {h}]
              /\ Join(h) => joinInfo[r] # None
    BY <1>0, <1>9 DEF CommitBlock, leaderVars, Join
  <2>2. h \in 1..Len(chain)
    BY <1>0, <2>1
  <2> HIDE DEF h
  <2>3. \A i \in events'[n] : i \in events[n] \/ (i = h /\ n = r /\ (Join(h) => joinInfo[r] # None))
    BY <1>0, <2>1
  <2> QED BY <2>1, <2>2, <2>3 DEF RequestStep
<1>10. ASSUME NEW r \in Proc, NEW h \in 1..MaxHeight, StartJoined(r, h)
       PROVE  RequestStep(n)
  <2>1. /\ h \in events[r] /\ Join(h) /\ joining' = [joining EXCEPT ![r] = h]
        /\ events' = [events EXCEPT ![r] = events[r] \ {h}]
        /\ joinInfo' = [joinInfo EXCEPT ![r] = None]
        /\ newNodeHost' = [newNodeHost EXCEPT ![r] = None] /\ UNCHANGED expected
    BY <1>10 DEF StartJoined, Join
  <2> QED BY <1>0, <2>1 DEF RequestStep
<1>11. ASSUME NEW r \in Proc, NEW h \in 1..MaxHeight, StartLeaved(r, h)
       PROVE  RequestStep(n)
  <2>1. /\ events' = [events EXCEPT ![r] = events[r] \ {h}]
        /\ UNCHANGED <<joinInfo, newNodeHost, joining, expected>>
    BY <1>11 DEF StartLeaved
  <2> QED BY <1>0, <2>1 DEF RequestStep
<1>12. ASSUME NEW r \in Proc, FinishJoined(r) \/ FinishLeaved(r)
       PROVE  RequestStep(n)
  <2>1. CASE HandlerPanics(r)
    BY <1>2, <2>1 DEF HandlerPanics, Forget, storeVars
  <2>2. CASE ~HandlerPanics(r)
    <3>1. /\ UNCHANGED <<joinInfo, newNodeHost, events>>
          /\ joining' = joining \/ joining' = [joining EXCEPT ![r] = 0]
          /\ expected' = [expected EXCEPT ![r] = None]
      BY <1>12, <2>2, FinishJoinedCases DEF FinishLeaved, Reconfigure, storeVars, leaderVars
    <3> QED BY <1>0, <3>1 DEF RequestStep
  <2> QED BY <2>1, <2>2
<1>13. ASSUME NEW r \in Proc, Restart(r)
       PROVE  RequestStep(n)
  <2>1. /\ r \in Crashers /\ newNodeHost' = [newNodeHost EXCEPT ![r] = None]
        /\ joinInfo' = joinInfo /\ joining' = [joining EXCEPT ![r] = 0]
        /\ events' = [events EXCEPT ![r] = {}]
        /\ \E host : expected' = [expected EXCEPT ![r] = host]
    BY <1>13 DEF Restart, Forget, storeVars
  <2> QED BY <1>0, <1>2, <2>1
<1>14. CASE UNCHANGED vars
  BY <1>1, <1>14 DEF vars, storeVars, leaderVars, taskVars
<1> QED BY <1>3, <1>4, <1>5, <1>6, <1>7, <1>8, <1>9, <1>10, <1>11, <1>12, <1>13, <1>14 DEF Next

\* What a step does to a process that joins.
JoinerMove(p) ==
  \/ /\ phase'[p] = phase[p] \/ (phase[p] = "sync" /\ phase'[p] = "ask")
     /\ view'[p] = view[p] /\ peers'[p] = peers[p]
     /\ phase[p] \in {"sync", "ask"} => /\ height'[p] = height[p]
                                        /\ asked'[p].height = asked[p].height
                                        /\ asked[p].synced \subseteq asked'[p].synced
  \/ /\ phase[p] = "run" /\ phase'[p] = "run" /\ peers'[p] = peers[p]
     /\ \E i : view'[p] = DeleteNode(view[p], i)
  \/ phase[p] = "run" /\ phase'[p] \in {"run", "failed"} /\ joining[p] # 0
  \/ \E g \in Proc : InitJoin(p, g)
  \/ ProcessSimpleSyncUpResponse(p) \/ OnJoined(p) \/ JoinFailed(p)

LEMMA JoinerMoves ==
  ASSUME IInv, [Next]_vars, NEW p \in Joiners
  PROVE  JoinerMove(p)
<1>0. /\ view \in [Proc -> View] /\ peers \in [Proc -> SUBSET Id]
      /\ phase \in [Proc -> {"new", "sync", "ask", "run", "left", "failed"}]
      /\ height \in [Proc -> 0..Len(chain)] /\ asked \in [Proc -> Asked \cup {None}]
      /\ phase[p] \in {"sync", "ask"} => asked[p] \in Asked
      /\ p \in Proc /\ p \notin Member
  BY MembershipAssumption DEF IInv, ViewPart, PhasePart, ChainPart, Proc
<1>1. ASSUME UNCHANGED <<view, peers, phase, height, asked>> PROVE JoinerMove(p)
  BY <1>1 DEF JoinerMove
<1>2. ASSUME NEW n \in Proc, n # p,
             view' = [view EXCEPT ![n] = view'[n]], peers' = [peers EXCEPT ![n] = peers'[n]],
             phase' = [phase EXCEPT ![n] = phase'[n]], height' = [height EXCEPT ![n] = height'[n]],
             asked' = [asked EXCEPT ![n] = asked'[n]]
      PROVE  JoinerMove(p)
  BY <1>0, <1>2 DEF JoinerMove
<1>3. ASSUME NEW j \in Joiners, NEW g \in Proc, InitJoin(j, g)
      PROVE  JoinerMove(p)
  <2>1. CASE j = p
    BY <1>3, <2>1 DEF JoinerMove
  <2>2. CASE j # p
    BY <1>0, <1>2, <1>3, <2>2 DEF InitJoin, storeVars, Proc
  <2> QED BY <2>1, <2>2
<1>4. ASSUME NEW j \in Joiners, NEW n \in Proc, HandleJoinCheckSyncedRequest(j, n)
      PROVE  JoinerMove(p)
  <2>1. /\ UNCHANGED <<view, peers, phase, height>> /\ j \in Proc /\ phase[j] = "ask"
        /\ asked' = [asked EXCEPT ![j].synced = @ \cup {n}] \/ asked' = asked
    BY <1>4 DEF HandleJoinCheckSyncedRequest, clusterVars, Proc
  <2>2. phase[p] \in {"sync", "ask"} => /\ asked'[p].height = asked[p].height
                                        /\ asked[p].synced \subseteq asked'[p].synced
    <3> SUFFICES ASSUME phase[p] \in {"sync", "ask"}
                 PROVE  /\ asked'[p].height = asked[p].height
                        /\ asked[p].synced \subseteq asked'[p].synced
      OBVIOUS
    <3>1. asked[p] \in Asked
      BY <1>0
    <3>2. CASE j # p \/ asked' = asked
      BY <1>0, <2>1, <3>2
    <3>3. CASE j = p /\ asked' = [asked EXCEPT ![j].synced = @ \cup {n}]
      <4>1. asked'[p] = [asked[p] EXCEPT !.synced = asked[p].synced \cup {n}]
        BY <1>0, <3>3
      <4> QED BY <3>1, <4>1 DEF Asked
    <3> QED BY <2>1, <3>2, <3>3
  <2> QED BY <2>1, <2>2 DEF JoinerMove
<1>5. ASSUME NEW j \in Joiners, ProcessSimpleSyncUpResponse(j)
      PROVE  JoinerMove(p)
  <2>1. CASE j = p
    BY <1>5, <2>1 DEF JoinerMove
  <2>2. CASE j # p
    BY <1>0, <1>2, <1>5, <2>2 DEF ProcessSimpleSyncUpResponse, Proc
  <2> QED BY <2>1, <2>2
<1>6. ASSUME NEW j \in Joiners, SyncedBeforeJoin(j)
      PROVE  JoinerMove(p)
  <2>1. /\ UNCHANGED <<view, peers, height, asked>> /\ phase[j] = "sync"
        /\ phase' = [phase EXCEPT ![j] = "ask"] /\ j \in Proc
    BY <1>6 DEF SyncedBeforeJoin, clusterVars, storeVars, Proc
  <2>2. phase'[p] = phase[p] \/ (phase[p] = "sync" /\ phase'[p] = "ask")
    BY <1>0, <2>1
  <2> QED BY <2>1, <2>2 DEF JoinerMove
<1>7. ASSUME NEW j \in Joiners, OnJoined(j)
      PROVE  JoinerMove(p)
  <2>1. CASE j = p
    BY <1>7, <2>1 DEF JoinerMove
  <2>2. CASE j # p
    BY <1>0, <1>2, <1>7, <2>2 DEF OnJoined, storeVars, Proc
  <2> QED BY <2>1, <2>2
<1>8. ASSUME NEW j \in Joiners, JoinFailed(j)
      PROVE  JoinerMove(p)
  <2>1. CASE j = p
    BY <1>8, <2>1 DEF JoinerMove
  <2>2. CASE j # p
    BY <1>0, <1>2, <1>8, <2>2 DEF JoinFailed, Forget, storeVars, Proc
  <2> QED BY <2>1, <2>2
<1>9. ASSUME NEW n \in Leavers, LeaveCluster(n)
      PROVE  JoinerMove(p)
  <2>1. n \in Proc /\ n # p
    BY <1>0, MembershipAssumption DEF Proc
  <2> QED BY <1>0, <1>2, <1>9, <2>1 DEF LeaveCluster, Forget, storeVars
<1>10. ASSUME NEW m \in leaves, HandleLeaveRequest(m)
       PROVE  JoinerMove(p)
  <2>1. /\ view' = [view EXCEPT ![m.to] = DeleteNode(view[m.to], m.id)] /\ phase[m.to] = "run"
        /\ UNCHANGED <<peers, phase, height, asked>>
    BY <1>10 DEF HandleLeaveRequest, Running
  <2>2. CASE m.to = p
    BY <1>0, <2>1, <2>2 DEF JoinerMove
  <2>3. CASE m.to # p
    BY <1>0, <2>1, <2>3 DEF JoinerMove
  <2> QED BY <2>2, <2>3
<1>11. ASSUME \/ \E l \in Running, q \in SUBSET Running : DecideBlock(l, q)
              \/ \E n \in Proc : \/ JoinTimer(n)
                                 \/ \E h \in 1..MaxHeight : StartJoined(n, h) \/ StartLeaved(n, h)
       PROVE  JoinerMove(p)
  <2>1. UNCHANGED <<view, peers, phase, height, asked>>
    BY <1>11 DEF DecideBlock, JoinTimer, StartJoined, StartLeaved, clusterVars, storeVars
  <2> QED BY <1>1, <2>1
<1>12. ASSUME NEW n \in Proc, LeaveTimer(n)
       PROVE  JoinerMove(p)
  <2> DEFINE t == timers[n].leave
             gone == t.who \notin Normal(view[n].list)
             left == IF gone THEN 0 ELSE t.left - 1
  <2>1. t.left > 0 /\ t.fires > 0 /\ ((left = 0 /\ ~gone) \/ UNCHANGED view)
        /\ UNCHANGED <<peers, phase, height, asked>>
    BY <1>12 DEF LeaveTimer, storeVars
  <2>2. t.left = 3
    BY <2>1 DEF IInv, TimerPart, Timer
  <2> QED BY <1>1, <2>1, <2>2
<1>13. ASSUME NEW n \in Proc, CommitBlock(n) \/ ProcessSyncUpResponse(n)
       PROVE  JoinerMove(p)
  <2>1. /\ height' = [height EXCEPT ![n] = height[n] + 1] /\ phase[n] = "run"
        /\ UNCHANGED <<view, peers, phase, asked>>
    BY <1>13 DEF CommitBlock, ProcessSyncUpResponse, clusterVars, Running
  <2>2. phase[p] \in {"sync", "ask"} => height'[p] = height[p]
    BY <1>0, <2>1
  <2> QED BY <2>1, <2>2 DEF JoinerMove
<1>14. ASSUME NEW n \in Proc, FinishJoined(n) \/ FinishLeaved(n)
       PROVE  JoinerMove(p)
  <2>1. joining[p] # 0 \/ leaving[p] # 0 => phase[p] = "run"
    BY <1>0 DEF IInv, ChainPart
  <2>2. CASE FinishJoined(n)
    <3>1. CASE n = p
      <4>1. joining[p] # 0 /\ (phase' = phase \/ phase' = [phase EXCEPT ![p] = "failed"])
        BY <2>2, <3>1, FinishJoinedCases DEF HandlerPanics
      <4> QED BY <1>0, <2>1, <4>1 DEF JoinerMove
    <3>2. CASE n # p
      BY <1>0, <1>2, <2>2, <3>2, FinishJoinedCases DEF HandlerPanics, Forget, Reconfigure, storeVars
    <3> QED BY <3>1, <3>2
  <2>3. CASE FinishLeaved(n)
    <3> DEFINE i == chain[leaving[n]].block.id
    <3>1. /\ leaving[n] # 0 /\ view' = [view EXCEPT ![n] = DeleteNode(view[n], i)]
          /\ UNCHANGED <<peers, phase, height, asked>>
      BY <2>3 DEF FinishLeaved, Reconfigure, storeVars
    <3>2. CASE n = p
      BY <1>0, <2>1, <3>1, <3>2 DEF JoinerMove
    <3>3. CASE n # p
      BY <1>0, <3>1, <3>3 DEF JoinerMove
    <3> QED BY <3>2, <3>3
  <2> QED BY <1>14, <2>2, <2>3
<1>15. ASSUME NEW n \in Proc, Restart(n)
       PROVE  JoinerMove(p)
  <2>1. n # p
    BY <1>0, <1>15, MembershipAssumption DEF Restart
  <2> QED BY <1>0, <1>2, <1>15, <2>1 DEF Restart, Forget, storeVars
<1>16. CASE UNCHANGED vars
  BY <1>1, <1>16 DEF vars, clusterVars, storeVars
<1> QED BY <1>3, <1>4, <1>5, <1>6, <1>7, <1>8, <1>9, <1>10, <1>11, <1>12, <1>13, <1>14, <1>15,
           <1>16 DEF Next

OneJoiner == \A p, j \in Joiners : p = j

\* A joined node has no new_node_host configured: it takes part in no further join.
NoRequestPart ==
  \A p \in Joiners : /\ expected[p] = None /\ joinInfo[p] = None /\ newNodeHost[p] = None
                     /\ joining[p] = 0 /\ \A h \in events[p] : ~Join(h)

\* Nothing of a join happens before the one joiner asks.
NotYetPart ==
  \A p \in Joiners : phase[p] \in {"new", "sync"} =>
    (\A n \in Proc : newNodeHost[n] = None) /\ (\A h \in 1..Len(chain) : ~Join(h))

\* Joins get their ids one after the other, though one id may be given twice: a
\* member has an id in its list because it has committed a join of it.
DensePart ==
  /\ \A h \in 1..Len(chain) : Join(h) => \A k \in N..chain[h].block.id-1 : Joined(k, h-1)
  /\ \A p \in Running \cap Member : \A k \in N..Len(view[p].list)-1 : Joined(k, height[p])

\* PeersFitList of the process p, with the view v and the peers ps.
Reaches(p, v, ps) ==
  /\ {i \in Normal(v.list) : v.list[i+1].host # p} \subseteq ps
  /\ ps \subseteq 0..Len(v.list)-1

\* The joining process keeps up with the ids on the chain, and its peers with its list.
JoinerPart ==
  \A p \in Joiners :
    /\ phase[p] \in {"sync", "ask"} =>
         /\ asked[p].height <= Len(chain)
         /\ \A h \in 1..asked[p].height : ~Join(h)
         /\ \A h \in 1..height[p] : Join(h) => chain[h].block.id < Len(view[p].list)
    /\ phase[p] \in Active => Reaches(p, view[p], peers[p])

JoinInv == NoRequestPart /\ NotYetPart /\ DensePart /\ JoinerPart

\* A new join on the chain is the block of a member that was asked.
LEMMA NewJoin ==
  ASSUME IInv, NoRequestPart, [Next]_vars, NEW h \in 1..Len(chain'), Join(h)'
  PROVE  \/ h \in 1..Len(chain) /\ Join(h) /\ chain'[h] = chain[h]
         \/ /\ h = Len(chain) + 1
            /\ \E l \in Running \cap Member :
                 /\ newNodeHost[l] # None /\ height[l] = Len(chain)
                 /\ chain'[h].block.id = Len(view[l].list)
<1>1. CASE h \in 1..Len(chain)
  BY <1>1, ChainSteps DEF Join
<1>2. CASE h \notin 1..Len(chain)
  <2>1. PICK l \in Running : chain'[h].block \in BlockToInit(l) /\ height[l] = Len(chain)
    BY <1>2, ChainSteps
  <2>2. h = Len(chain) + 1 /\ chain'[h].block.type = "JOIN"
    BY <1>2, ChainSteps DEF Join
  <2>3. newNodeHost[l] # None /\ chain'[h].block.id = Len(view[l].list)
    BY <2>1, <2>2 DEF BlockToInit
  <2>4. l \in Member
    BY <2>3 DEF NoRequestPart, Running, Proc
  <2> QED BY <2>1, <2>2, <2>3, <2>4
<1> QED BY <1>1, <1>2

\* One step leaves a joined node without a join of its own to handle.
LEMMA NoRequestStep ==
  ASSUME IInv, NoRequestPart, [Next]_vars
  PROVE  NoRequestPart'
<1> SUFFICES ASSUME NEW p \in Joiners
             PROVE  /\ expected'[p] = None /\ joinInfo'[p] = None /\ newNodeHost'[p] = None
                    /\ joining'[p] = 0 /\ \A h \in events'[p] : ~Join(h)'
  BY DEF NoRequestPart
<1>1. /\ expected[p] = None /\ joinInfo[p] = None /\ newNodeHost[p] = None
      /\ joining[p] = 0 /\ \A h \in events[p] : ~Join(h)
      /\ p \in Proc /\ p \notin Crashers
  BY MembershipAssumption DEF NoRequestPart, Proc
<1>2. ~AskStep(p)
  <2>1. ASSUME NEW j \in Joiners, HandleJoinCheckSyncedRequest(j, p) PROVE FALSE
    <3>1. expected[p] = j
      BY <2>1 DEF HandleJoinCheckSyncedRequest, CheckJoinRequest
    <3> QED BY <1>1, <3>1, MembershipAssumption DEF Proc
  <2> QED BY <2>1 DEF AskStep
<1>3. RequestStep(p)
  BY <1>1, <1>2, RequestSteps
<1>4. expected'[p] = None /\ joinInfo'[p] = None /\ newNodeHost'[p] = None
  BY <1>1, <1>3 DEF RequestStep
<1>5. joining'[p] = 0
  BY <1>1, <1>3 DEF RequestStep
<1>6. ASSUME NEW h \in events'[p] PROVE ~Join(h)'
  <2>1. h \in 1..Len(chain) /\ ~Join(h)
    <3>1. CASE h \in events[p]
      <4>1. h \in 1..height[p] /\ height[p] \in 0..Len(chain) /\ Len(chain) \in Nat
        BY <1>1, <3>1 DEF IInv, ChainPart
      <4> QED BY <1>1, <3>1, <4>1
    <3>2. CASE h \notin events[p]
      BY <1>1, <1>3, <3>2 DEF RequestStep
    <3> QED BY <3>1, <3>2
  <2> QED BY <2>1, ChainSteps DEF Join
<1> QED BY <1>4, <1>5, <1>6

\* One step brings no join while the one joiner has not asked.
LEMMA NotYetStep ==
  ASSUME IInv, NoRequestPart, NotYetPart, OneJoiner, [Next]_vars
  PROVE  NotYetPart'
<1> SUFFICES ASSUME NEW p \in Joiners, phase'[p] \in {"new", "sync"}
             PROVE  /\ \A n \in Proc : newNodeHost'[n] = None
                    /\ \A h \in 1..Len(chain') : ~Join(h)'
  BY DEF NotYetPart
<1>1. phase[p] \in {"new", "sync"}
  <2>1. JoinerMove(p)
    BY JoinerMoves
  <2>2. phase \in [Proc -> {"new", "sync", "ask", "run", "left", "failed"}] /\ p \in Proc
    BY DEF IInv, PhasePart, Proc
  <2> QED BY <2>1, <2>2 DEF JoinerMove, InitJoin, ProcessSimpleSyncUpResponse, OnJoined, JoinFailed
<1>2. (\A n \in Proc : newNodeHost[n] = None) /\ (\A h \in 1..Len(chain) : ~Join(h))
  BY <1>1 DEF NotYetPart
<1>3. ASSUME NEW n \in Proc PROVE newNodeHost'[n] = None
  <2>1. ~AskStep(n)
    BY <1>1 DEF AskStep, HandleJoinCheckSyncedRequest, OneJoiner
  <2> QED BY <1>2, <2>1, RequestSteps DEF RequestStep
<1>4. ASSUME NEW h \in 1..Len(chain'), Join(h)' PROVE FALSE
  <2>1. Running \subseteq Proc
    BY DEF Running
  <2> QED BY <1>2, <1>4, <2>1, NewJoin
<1> QED BY <1>3, <1>4

\* A join among the first blocks stays one.
LEMMA JoinedKept ==
  ASSUME IInv, [Next]_vars, NEW k, NEW h \in 0..Len(chain), NEW i \in Nat, i >= h, Joined(k, h)
  PROVE  \E g \in 1..i : Join(g)' /\ chain'[g].block.id = k
<1>1. PICK g \in 1..h : Join(g) /\ chain[g].block.id = k
  BY DEF Joined
<1>2. Len(chain) \in Nat /\ \A g1 \in 1..Len(chain) : chain'[g1] = chain[g1]
  BY ChainSteps
<1>3. g \in 1..Len(chain) /\ g \in 1..i
  BY <1>2
<1> QED BY <1>1, <1>2, <1>3 DEF Join

\* One step keeps the ids of the joins, and the members' lists, without a gap.
LEMMA DenseStep ==
  ASSUME IInv, ListInv, NoRequestPart, DensePart, [Next]_vars
  PROVE  DensePart'
<1>0. /\ Len(chain) \in Nat /\ N \in Nat
      /\ \A h \in 1..Len(chain) : chain'[h] = chain[h]
      /\ \A p \in Proc : height[p] \in 0..Len(chain)
      /\ \A p \in Proc : height'[p] \in Nat /\ height'[p] >= height[p]
  BY ChainSteps, MembershipAssumption
<1>1. ASSUME NEW h \in 1..Len(chain'), Join(h)', NEW k \in N..chain'[h].block.id-1
      PROVE  Joined(k, h-1)'
  <2>1. CASE h \in 1..Len(chain) /\ Join(h) /\ chain'[h] = chain[h]
    <3>1. Joined(k, h-1)
      BY <2>1 DEF DensePart
    <3>2. h-1 \in 0..Len(chain) /\ h-1 \in Nat /\ h-1 >= h-1
      BY <1>0, <2>1
    <3> QED BY <3>1, <3>2, JoinedKept DEF Joined
  <2>2. CASE /\ h = Len(chain) + 1
             /\ \E l \in Running \cap Member :
                  /\ newNodeHost[l] # None /\ height[l] = Len(chain)
                  /\ chain'[h].block.id = Len(view[l].list)
    <3>1. PICK l \in Running \cap Member : /\ height[l] = Len(chain)
                                           /\ chain'[h].block.id = Len(view[l].list)
      BY <2>2
    <3>2. Joined(k, Len(chain))
      BY <3>1 DEF DensePart
    <3>3. h - 1 = Len(chain) /\ Len(chain) \in 0..Len(chain) /\ Len(chain) >= Len(chain)
      BY <1>0, <2>2
    <3>4. \E g \in 1..(h-1) : Join(g)' /\ chain'[g].block.id = k
      BY <1>0, <3>2, <3>3, JoinedKept
    <3> QED BY <3>4 DEF Joined
  <2> QED BY <1>1, <2>1, <2>2, NewJoin
<1>2. ASSUME NEW p \in Member, phase'[p] = "run", NEW k \in N..Len(view'[p].list)-1
      PROVE  \E g \in 1..height'[p] : Join(g)' /\ chain'[g].block.id = k
  <2>1. phase[p] = "run" /\ ListStep(p) /\ p \in Proc /\ p \in Running \cap Member
    BY <1>2, ListSteps DEF Proc, Running
  <2>2. /\ height[p] \in 0..Len(chain) /\ height'[p] \in Nat /\ height'[p] >= height[p]
        /\ view[p] \in View /\ view[p].list \in Seq(Entry) /\ Len(view[p].list) \in Nat
    BY <1>0, <2>1, NormalOfList DEF IInv, ViewPart, View, Entry
  <2>3. ASSUME k \in N..Len(view[p].list)-1
        PROVE  \E g \in 1..height'[p] : Join(g)' /\ chain'[g].block.id = k
    <3>1. Joined(k, height[p])
      BY <2>1, <2>3 DEF DensePart
    <3> QED BY <2>2, <3>1, JoinedKept
  <2>4. CASE view'[p] = view[p]
    BY <1>2, <2>3, <2>4
  <2>5. CASE \E i : view'[p] = DeleteNode(view[p], i)
    <3>1. PICK i : view'[p] = DeleteNode(view[p], i)
      BY <2>5
    <3>2. CASE i \notin Normal(view[p].list)
      BY <1>2, <2>3, <3>1, <3>2 DEF DeleteNode
    <3>3. CASE i \in Normal(view[p].list)
      <4>1. view'[p].list = [view[p].list EXCEPT ![i+1].normal = FALSE]
        BY <3>1, <3>3 DEF DeleteNode, Resized
      <4>2. Len(view'[p].list) = Len(view[p].list)
        BY <2>2, <3>3, <4>1, NormalDelete
      <4> QED BY <1>2, <2>3, <4>2
    <3> QED BY <3>2, <3>3
  <2>6. CASE /\ joining[p] # 0
             /\ LET b == chain[joining[p]].block
                IN  /\ view'[p] = AddNode(view[p], b.host, b.id)
                    /\ peers'[p] = peers[p] \cup {b.id}
    <3> DEFINE b == chain[joining[p]].block
    <3>1. joining[p] \in 1..height[p] /\ b.type = "JOIN" /\ joining[p] \in 1..Len(chain)
      BY <2>1, <2>2, <2>6 DEF IInv, ChainPart
    <3>2. b.host \in Proc /\ view'[p] = AddNode(view[p], b.host, b.id)
      BY <2>6, <3>1, ChainBlock
    <3>3. Joined(b.id, height[p])
      BY <3>1 DEF Joined, Join
    <3> HIDE DEF b
    <3>4. CASE b.id # Len(view[p].list)
      BY <1>2, <2>3, <3>2, <3>4 DEF AddNode
    <3>5. CASE b.id = Len(view[p].list)
      <4>1. view'[p].list = Append(view[p].list, [host |-> b.host, normal |-> TRUE])
        BY <3>2, <3>5 DEF AddNode, Resized
      <4>2. Len(view'[p].list) = Len(view[p].list) + 1
        BY <2>2, <3>2, <4>1, NormalAppend
      <4>3. k \in N..Len(view[p].list)-1 \/ k = b.id
        BY <1>0, <1>2, <2>2, <3>5, <4>2
      <4>4. CASE k = b.id
        BY <2>2, <3>3, <4>4, JoinedKept
      <4> QED BY <2>3, <4>3, <4>4
    <3> QED BY <3>4, <3>5
  <2>7. CASE view'[p] = Configured
    <3>1. Len(Configured.list) = N
      <4>1. Configured.list = [i \in 1..N |-> [host |-> i - 1, normal |-> TRUE]]
        BY DEF Configured, InitWithNodeList
      <4> QED BY <1>0, <4>1
    <3> QED BY <1>0, <1>2, <2>7, <3>1
  <2> QED BY <2>1, <2>4, <2>5, <2>6, <2>7 DEF ListStep
<1>3. \A p \in (Running \cap Member)' : \A k \in N..Len(view'[p].list)-1 : Joined(k, height[p])'
  BY <1>2 DEF Joined, Running
<1> QED BY <1>1, <1>3 DEF DensePart

\* A process that deletes a node keeps its connection or gives it up.
LEMMA DeleteReaches ==
  ASSUME NEW p \in Proc, NEW v \in View, NEW ps, Reaches(p, v, ps), NEW i,
         NEW rs, ps \ {i} \subseteq rs, rs \subseteq ps
  PROVE  Reaches(p, DeleteNode(v, i), rs) /\ Len(DeleteNode(v, i).list) = Len(v.list)
<1>0. v.list \in Seq(Entry)
  BY DEF View, Entry
<1>1. CASE i \notin Normal(v.list)
  <2>1. DeleteNode(v, i) = v
    BY <1>1 DEF DeleteNode
  <2> QED BY <1>1, <2>1 DEF Reaches
<1>2. CASE i \in Normal(v.list)
  <2> DEFINE list == [v.list EXCEPT ![i+1].normal = FALSE]
  <2>1. DeleteNode(v, i).list = list
    BY <1>2 DEF DeleteNode, Resized
  <2>2. /\ Len(list) = Len(v.list) /\ Normal(list) = Normal(v.list) \ {i}
        /\ \A k \in 1..Len(v.list) : list[k].host = v.list[k].host
    BY <1>0, <1>2, NormalDelete
  <2>3. \A k \in Normal(v.list) : k+1 \in 1..Len(v.list)
    BY <1>0, NormalOfList
  <2> HIDE DEF list
  <2> QED BY <2>1, <2>2, <2>3 DEF Reaches
<1> QED BY <1>1, <1>2

\* A process that adds a node connects to it, unless it is the node.
LEMMA AddReaches ==
  ASSUME NEW p \in Proc, NEW v \in View, NEW ps, Reaches(p, v, ps), NEW host \in Proc,
         NEW rs, rs = ps \cup {Len(v.list)} \/ (host = p /\ rs = ps)
  PROVE  /\ Reaches(p, AddNodeInfo(v, host), rs)
         /\ Len(AddNodeInfo(v, host).list) = Len(v.list) + 1
<1> DEFINE e == [host |-> host, normal |-> TRUE]
           list == Append(v.list, e)
<1>0. v.list \in Seq(Entry) /\ Len(v.list) \in Nat /\ e \in Entry /\ e.host = host
  BY NormalOfList DEF View, Entry
<1>1. AddNodeInfo(v, host).list = list
  BY DEF AddNodeInfo
<1>2. Len(list) = Len(v.list) + 1 /\ Normal(list) = Normal(v.list) \cup {Len(v.list)}
  BY <1>0, NormalAppend
<1>3. /\ \A k \in 1..Len(v.list) : list[k] = v.list[k]
      /\ list[Len(v.list) + 1].host = host
  BY <1>0
<1>4. Normal(v.list) \subseteq 0..Len(v.list)-1
  BY <1>0, NormalOfList
<1> HIDE DEF list, e
<1>5. ASSUME NEW i \in Normal(list), list[i+1].host # p PROVE i \in rs
  <2>1. CASE i = Len(v.list)
    BY <1>3, <1>5, <2>1
  <2>2. CASE i \in Normal(v.list)
    <3>1. list[i+1] = v.list[i+1]
      BY <1>0, <1>3, <1>4, <2>2
    <3> QED BY <1>5, <2>2, <3>1 DEF Reaches
  <2> QED BY <1>2, <2>1, <2>2
<1>6. rs \subseteq 0..Len(list)-1
  <2>1. \A i \in ps : i \in 0..Len(v.list)-1
    BY DEF Reaches
  <2>2. \A i \in rs : i \in ps \/ i = Len(v.list)
    OBVIOUS
  <2>3. \A i \in rs : i \in 0..Len(list)-1
    BY <1>0, <1>2, <2>1, <2>2
  <2> QED BY <2>3
<1> QED BY <1>1, <1>2, <1>5, <1>6 DEF Reaches

\* The joining process stores one more block.
LEMMA JoinerSync ==
  ASSUME IInv, ListInv, JoinInv, NEW p \in Joiners, ProcessSimpleSyncUpResponse(p)
  PROVE  /\ \A h \in 1..height'[p] : Join(h) => chain[h].block.id < Len(view'[p].list)
         /\ Reaches(p, view'[p], peers'[p])
<1> DEFINE h == height[p] + 1
           b == chain[h].block
           join == b.type = "JOIN" /\ b.id >= Len(view[p].list)
           skip == b.type = "TXS" \/ h <= asked[p].height
           v == IF skip THEN view[p]
                ELSE IF join THEN AddNodeInfo(view[p], b.host) ELSE DeleteNode(view[p], b.id)
<1>0. /\ p \in Proc /\ phase[p] \in {"sync", "ask"} /\ phase[p] \in Active
      /\ height \in [Proc -> 0..Len(chain)] /\ Len(chain) \in Nat /\ h \in 1..Len(chain)
      /\ view[p] \in View /\ view[p].list \in Seq(Entry) /\ Len(view[p].list) \in Nat
      /\ view \in [Proc -> View] /\ peers \in [Proc -> SUBSET Id] /\ N \in Nat
      /\ asked[p].height \in Nat
  <2>1. /\ p \in Proc /\ phase[p] \in {"sync", "ask"} /\ h <= Len(chain)
        /\ height \in [Proc -> 0..Len(chain)] /\ Len(chain) \in Nat
    BY DEF ProcessSimpleSyncUpResponse, IInv, ChainPart, Proc
  <2>2. asked[p] \in Asked
    BY <2>1 DEF IInv, PhasePart
  <2>3. /\ view[p] \in View /\ view \in [Proc -> View] /\ peers \in [Proc -> SUBSET Id] /\ N \in Nat
        /\ asked[p].height \in Nat
    BY <2>1, <2>2, MembershipAssumption DEF IInv, ViewPart, Asked
  <2>4. view[p].list \in Seq(Entry) /\ Len(view[p].list) \in Nat
    BY <2>3, NormalOfList DEF View, Entry
  <2>5. h \in 1..Len(chain) /\ phase[p] \in Active
    BY <2>1 DEF Active
  <2> QED BY <2>1, <2>3, <2>4, <2>5
<1>1. /\ height' = [height EXCEPT ![p] = h] /\ view' = [view EXCEPT ![p] = v]
      /\ peers' = [peers EXCEPT ![p] = IF skip THEN @ ELSE IF join THEN @ \cup {b.id} ELSE @ \ {b.id}]
  BY DEF ProcessSimpleSyncUpResponse
<1>2. /\ height'[p] = h /\ view'[p] = v
      /\ peers'[p] = IF skip THEN peers[p]
                     ELSE IF join THEN peers[p] \cup {b.id} ELSE peers[p] \ {b.id}
  BY <1>0, <1>1
<1>3. /\ \A g \in 1..asked[p].height : ~Join(g)
      /\ \A g \in 1..height[p] : Join(g) => chain[g].block.id < Len(view[p].list)
      /\ Reaches(p, view[p], peers[p])
  BY <1>0 DEF JoinInv, JoinerPart
<1>4. Join(h) <=> b.type = "JOIN"
  BY DEF Join
<1>5. \A g \in 1..h : g \in 1..height[p] \/ g = h
  BY <1>0
<1>6. Join(h) => b.id \in Nat /\ b.host \in Proc
  BY <1>0, <1>4, ChainBlock, JoinBlock
<1> HIDE DEF h
<1>7. CASE skip
  <2>1. ~Join(h)
    BY <1>0, <1>3, <1>4, <1>7
  <2> QED BY <1>2, <1>3, <1>5, <1>7, <2>1
<1>8. CASE ~skip /\ join
  <2>1. b.id = Len(view[p].list)
    <3> SUFFICES ASSUME b.id # Len(view[p].list) PROVE FALSE
      OBVIOUS
    <3>1. Len(view[p].list) >= N
      BY <1>0 DEF ListInv, ListPart, Listed
    <3>2. Len(view[p].list) \in N..b.id-1
      BY <1>0, <1>4, <1>6, <1>8, <3>1
    <3>3. Joined(Len(view[p].list), h-1)
      BY <1>0, <1>4, <1>8, <3>2 DEF JoinInv, DensePart
    <3>4. h - 1 = height[p]
      BY <1>0 DEF h
    <3>5. PICK g \in 1..height[p] : Join(g) /\ chain[g].block.id = Len(view[p].list)
      BY <3>3, <3>4 DEF Joined
    <3> QED BY <1>0, <1>3, <3>5
  <2>2. view'[p] = AddNodeInfo(view[p], b.host) /\ peers'[p] = peers[p] \cup {Len(view[p].list)}
    BY <1>2, <1>8, <2>1
  <2>3. Reaches(p, view'[p], peers'[p]) /\ Len(view'[p].list) = Len(view[p].list) + 1
    BY <1>0, <1>3, <1>4, <1>6, <1>8, <2>2, AddReaches
  <2>4. ASSUME NEW g \in 1..h, Join(g) PROVE chain[g].block.id < Len(view'[p].list)
    <3>1. CASE g = h
      BY <1>0, <2>1, <2>3, <3>1
    <3>2. CASE g \in 1..height[p]
      <4>1. chain[g].block.id < Len(view[p].list) /\ g \in 1..Len(chain)
        BY <1>0, <1>3, <2>4, <3>2
      <4>2. chain[g].block.id \in Nat
        BY <2>4, <4>1, JoinBlock DEF Join
      <4> QED BY <1>0, <2>3, <4>1, <4>2
    <3> QED BY <1>5, <3>1, <3>2
  <2> QED BY <1>2, <2>3, <2>4
<1>9. CASE ~skip /\ ~join
  <2>1. PICK i : view'[p] = DeleteNode(view[p], i) /\ peers'[p] = peers[p] \ {i}
    BY <1>2, <1>9
  <2>2. Reaches(p, view'[p], peers'[p]) /\ Len(view'[p].list) = Len(view[p].list)
    <3>1. peers[p] \ {i} \subseteq peers'[p] /\ peers'[p] \subseteq peers[p]
      BY <2>1
    <3>2. p \in Proc /\ view[p] \in View /\ Reaches(p, view[p], peers[p])
      BY <1>0, <1>3
    <3>3. Reaches(p, DeleteNode(view[p], i), peers'[p])
          /\ Len(DeleteNode(view[p], i).list) = Len(view[p].list)
      BY <3>1, <3>2, DeleteReaches
    <3> QED BY <2>1, <3>3
  <2>3. Join(h) => b.id < Len(view[p].list)
    BY <1>0, <1>4, <1>6, <1>9
  <2> QED BY <1>2, <1>3, <1>5, <2>2, <2>3
<1> QED BY <1>7, <1>8, <1>9

\* One step keeps the joining process in step with the chain, and its peers with
\* its list.
LEMMA JoinerPartStep ==
  ASSUME IInv, ListInv, JoinInv, [Next]_vars
  PROVE  JoinerPart'
<1> SUFFICES ASSUME NEW p \in Joiners
             PROVE  /\ phase'[p] \in {"sync", "ask"} =>
                         /\ asked'[p].height <= Len(chain')
                         /\ \A h \in 1..asked'[p].height : ~Join(h)'
                         /\ \A h \in 1..height'[p] : Join(h)' => chain'[h].block.id < Len(view'[p].list)
                    /\ phase'[p] \in Active => Reaches(p, view'[p], peers'[p])
  <2>1. \A p : Reaches(p, view[p], peers[p])' <=> Reaches(p, view'[p], peers'[p])
    BY DEF Reaches, Normal
  <2> QED BY <2>1 DEF JoinerPart
<1>0. /\ p \in Proc /\ p \notin Member
      /\ phase \in [Proc -> {"new", "sync", "ask", "run", "left", "failed"}]
      /\ height \in [Proc -> 0..Len(chain)] /\ Len(chain) \in Nat
      /\ view \in [Proc -> View] /\ peers \in [Proc -> SUBSET Id]
      /\ asked \in [Proc -> Asked \cup {None}]
      /\ phase[p] \in {"sync", "ask"} => asked[p].height \in Nat
  BY MembershipAssumption DEF IInv, ViewPart, PhasePart, ChainPart, Proc, Asked
<1>1. /\ Len(chain') \in Nat /\ Len(chain') >= Len(chain)
      /\ \A h \in 1..Len(chain) : chain'[h] = chain[h] /\ (Join(h)' <=> Join(h))
  BY ChainSteps DEF Join
<1>2. /\ phase[p] \in {"sync", "ask"} =>
           /\ asked[p].height <= Len(chain)
           /\ \A h \in 1..asked[p].height : ~Join(h)
           /\ \A h \in 1..height[p] : Join(h) => chain[h].block.id < Len(view[p].list)
      /\ phase[p] \in Active => Reaches(p, view[p], peers[p])
  BY DEF JoinInv, JoinerPart
<1>3. CASE /\ phase'[p] = phase[p] \/ (phase[p] = "sync" /\ phase'[p] = "ask")
           /\ view'[p] = view[p] /\ peers'[p] = peers[p]
           /\ phase[p] \in {"sync", "ask"} => /\ height'[p] = height[p]
                                              /\ asked'[p].height = asked[p].height
  <2>1. /\ phase'[p] \in Active => phase[p] \in Active
        /\ phase'[p] \in {"sync", "ask"} => phase[p] \in {"sync", "ask"}
    BY <1>3 DEF Active
  <2>2. ASSUME phase'[p] \in {"sync", "ask"}
        PROVE  /\ asked'[p].height <= Len(chain')
               /\ \A h \in 1..asked'[p].height : ~Join(h)'
               /\ \A h \in 1..height'[p] : Join(h)' => chain'[h].block.id < Len(view'[p].list)
    <3>1. /\ height'[p] = height[p] /\ asked'[p].height = asked[p].height
          /\ asked[p].height \in Nat /\ asked[p].height <= Len(chain)
          /\ height[p] \in 0..Len(chain)
      BY <1>0, <1>2, <1>3, <2>1, <2>2
    <3>2. \A h \in 1..asked[p].height : h \in 1..Len(chain)
      BY <1>0, <3>1
    <3>3. \A h \in 1..height[p] : h \in 1..Len(chain)
      BY <1>0
    <3>4. asked[p].height <= Len(chain')
      BY <1>0, <1>1, <3>1
    <3> QED BY <1>1, <1>2, <1>3, <2>1, <2>2, <3>1, <3>2, <3>3, <3>4
  <2> QED BY <1>2, <1>3, <2>1, <2>2
<1>4. CASE /\ phase[p] = "run" /\ phase'[p] = "run" /\ peers'[p] = peers[p]
           /\ \E i : view'[p] = DeleteNode(view[p], i)
  <2>1. view[p] \in View /\ "run" \in Active
    BY <1>0 DEF Active
  <2>2. PICK i : view'[p] = DeleteNode(view[p], i)
    BY <1>4
  <2>3. Reaches(p, view'[p], peers'[p])
    BY <1>0, <1>2, <1>4, <2>1, <2>2, DeleteReaches
  <2> QED BY <1>4, <2>3
<1>5. CASE phase[p] = "run" /\ phase'[p] \in {"run", "failed"} /\ joining[p] # 0
  BY <1>5 DEF JoinInv, NoRequestPart
<1>6. ASSUME NEW g \in Proc, InitJoin(p, g)
      PROVE  /\ asked'[p].height <= Len(chain')
             /\ \A h \in 1..asked'[p].height : ~Join(h)'
             /\ \A h \in 1..height'[p] : Join(h)' => chain'[h].block.id < Len(view'[p].list)
             /\ Reaches(p, view'[p], peers'[p])
  <2>1. /\ phase[p] = "new" /\ chain' = chain /\ height' = height
        /\ view' = [view EXCEPT ![p] = InitWithNodeList(view[g].list)]
        /\ peers' = [peers EXCEPT ![p] = Normal(InitWithNodeList(view[g].list).list)]
        /\ asked'[p].height = height[g]
    BY <1>0, <1>6 DEF InitJoin, GetClusterNodes, storeVars
  <2>2. \A h \in 1..Len(chain) : ~Join(h)
    BY <2>1 DEF JoinInv, NotYetPart
  <2>3. view'[p].list = view[g].list /\ peers'[p] = Normal(view[g].list)
    BY <1>0, <2>1 DEF InitWithNodeList
  <2>4. view[g].list \in Seq(Entry)
    BY <1>0 DEF View, Entry
  <2>5. Reaches(p, view'[p], peers'[p])
    BY <2>3, <2>4, NormalOfList DEF Reaches
  <2>6. /\ height[g] \in 0..Len(chain) /\ height[p] \in 0..Len(chain)
    BY <1>0
  <2>7. \A h \in 1..Len(chain) : ~Join(h)'
    BY <1>1, <2>2
  <2> QED BY <1>0, <2>1, <2>5, <2>6, <2>7
<1>7. ASSUME ProcessSimpleSyncUpResponse(p)
      PROVE  /\ asked'[p].height <= Len(chain')
             /\ \A h \in 1..asked'[p].height : ~Join(h)'
             /\ \A h \in 1..height'[p] : Join(h)' => chain'[h].block.id < Len(view'[p].list)
             /\ Reaches(p, view'[p], peers'[p])
  <2>1. phase[p] \in {"sync", "ask"} /\ chain' = chain /\ asked' = asked
    BY <1>7 DEF ProcessSimpleSyncUpResponse
  <2>2. \A h : Join(h)' <=> Join(h)
    BY <2>1 DEF Join
  <2> QED BY <1>2, <1>7, <2>1, <2>2, JoinerSync
<1>8. ASSUME OnJoined(p)
      PROVE  phase'[p] = "run" /\ Reaches(p, view'[p], peers'[p])
  <2>1. /\ phase[p] = "ask" /\ phase' = [phase EXCEPT ![p] = "run"] /\ peers' = peers
        /\ view' = [view EXCEPT ![p] = AddNodeInfo(view[p], p)]
    BY <1>8 DEF OnJoined
  <2>2. phase[p] \in Active /\ view[p] \in View /\ view'[p] = AddNodeInfo(view[p], p)
    BY <1>0, <2>1 DEF Active
  <2> QED BY <1>0, <1>2, <2>1, <2>2, AddReaches
<1>9. ASSUME JoinFailed(p)
      PROVE  phase'[p] = "failed"
  BY <1>0, <1>9 DEF JoinFailed
<1>10. "failed" \notin Active /\ "failed" \notin {"sync", "ask"} /\ "run" \notin {"sync", "ask"}
  BY DEF Active
<1>11. JoinerMove(p)
  BY JoinerMoves
<1> QED BY <1>3, <1>4, <1>5, <1>6, <1>7, <1>8, <1>9, <1>10, <1>11 DEF JoinerMove

\* The node has been asked, or handles the join, or has handled it.
Heard(n) ==
  \/ joinInfo[n] # None \/ newNodeHost[n] # None \/ joining[n] # 0
  \/ \E h \in events[n] : Join(h)
  \/ Len(view[n].list) > N

\* The joiner takes no more answers from n.
Answered(j, n) == phase[j] \in {"run", "failed"} \/ (phase[j] = "ask" /\ n \in asked[j].synced)

\* Where no answer is lost a member is asked once, and before it has any join to
\* handle: all joins are for the first free id.
OncePart ==
  /\ \A n \in Running \cap Member :
       /\ Heard(n) => \A j \in Joiners : Answered(j, n)
       /\ newNodeHost[n] # None => Len(view[n].list) = N /\ joining[n] = 0
       /\ peers[n] \subseteq 0..Len(view[n].list)-1
  /\ \A h \in 1..Len(chain) : Join(h) => chain[h].block.id = N

\* A member's list after a step, by the length and the peers alone.
LEMMA MemberListStep ==
  ASSUME IInv, ListInv, OncePart, NEW n \in Running \cap Member, ListStep(n)
  PROVE  /\ Len(view[n].list) \in Nat /\ Len(view[n].list) >= N
         /\ joining[n] # 0 \/ Len(view'[n].list) \in {N, Len(view[n].list)}
         /\ peers'[n] \subseteq 0..Len(view'[n].list)-1
<1>0. /\ n \in Proc /\ view[n] \in View /\ view[n].list \in Seq(Entry) /\ Len(view[n].list) \in Nat
      /\ N \in Nat /\ Len(view[n].list) >= N /\ peers[n] \subseteq 0..Len(view[n].list)-1
  <2>1. n \in Proc /\ view[n] \in View /\ N \in Nat /\ phase[n] \in Active
    BY MembershipAssumption DEF IInv, ViewPart, Running, Active
  <2>2. view[n].list \in Seq(Entry)
    BY <2>1 DEF View, Entry
  <2> QED BY <2>1, <2>2, NormalOfList DEF ListInv, ListPart, Listed, OncePart
<1>1. CASE view'[n] = view[n] /\ peers'[n] = peers[n]
  BY <1>0, <1>1
<1>2. CASE peers'[n] = peers[n] /\ \E i : view'[n] = DeleteNode(view[n], i)
  <2>1. PICK i : view'[n] = DeleteNode(view[n], i)
    BY <1>2
  <2>2. CASE i \notin Normal(view[n].list)
    BY <1>0, <1>2, <2>1, <2>2 DEF DeleteNode
  <2>3. CASE i \in Normal(view[n].list)
    <3>1. view'[n].list = [view[n].list EXCEPT ![i+1].normal = FALSE]
      BY <2>1, <2>3 DEF DeleteNode, Resized
    <3>2. Len(view'[n].list) = Len(view[n].list)
      BY <1>0, <2>3, <3>1, NormalDelete
    <3> QED BY <1>0, <1>2, <3>2
  <2> QED BY <2>2, <2>3
<1>3. CASE /\ joining[n] # 0
           /\ LET b == chain[joining[n]].block
              IN  /\ view'[n] = AddNode(view[n], b.host, b.id)
                  /\ peers'[n] = peers[n] \cup {b.id}
  <2> DEFINE b == chain[joining[n]].block
  <2>1. joining[n] \in 1..height[n] /\ b.type = "JOIN" /\ joining[n] \in 1..Len(chain)
    BY <1>0, <1>3 DEF IInv, ChainPart
  <2>2. b.id = N /\ b.host \in Proc
    BY <2>1, ChainBlock DEF OncePart, Join
  <2>3. view'[n] = AddNode(view[n], b.host, N) /\ peers'[n] = peers[n] \cup {N}
    BY <1>3, <2>2
  <2> HIDE DEF b
  <2>4. CASE N # Len(view[n].list)
    <3>1. view'[n] = view[n]
      BY <2>3, <2>4 DEF AddNode
    <3> QED BY <1>0, <1>3, <2>3, <2>4, <3>1
  <2>5. CASE N = Len(view[n].list)
    <3>1. view'[n].list = Append(view[n].list, [host |-> b.host, normal |-> TRUE])
      BY <2>3, <2>5 DEF AddNode, Resized
    <3>2. Len(view'[n].list) = Len(view[n].list) + 1
      BY <1>0, <2>2, <3>1, NormalAppend
    <3>3. \A i \in peers'[n] : i \in 0..Len(view[n].list)-1 \/ i = Len(view[n].list)
      BY <1>0, <2>3, <2>5
    <3>4. \A i \in peers'[n] : i \in 0..Len(view'[n].list)-1
      BY <1>0, <3>2, <3>3
    <3> QED BY <1>0, <1>3, <3>4
  <2> QED BY <2>4, <2>5
<1>4. CASE view'[n] = Configured /\ peers'[n] = Normal(Configured.list)
  <2>1. Configured.list = [i \in 1..N |-> [host |-> i - 1, normal |-> TRUE]]
    BY DEF Configured, InitWithNodeList
  <2>2. Len(Configured.list) = N
    BY <1>0, <2>1
  <2>3. Configured.list \in Seq(Entry)
    BY ConfiguredFits DEF View, Entry
  <2> QED BY <1>0, <1>4, <2>2, <2>3, NormalOfList
<1> QED BY <1>1, <1>2, <1>3, <1>4 DEF ListStep

\* An answer that is taken stays taken.
LEMMA AnsweredKept ==
  ASSUME IInv, [Next]_vars, NEW j \in Joiners, NEW n, Answered(j, n)
  PROVE  Answered(j, n)'
<1>0. /\ phase \in [Proc -> {"new", "sync", "ask", "run", "left", "failed"}] /\ j \in Proc
      /\ JoinerMove(j)
  BY JoinerMoves DEF IInv, PhasePart, Proc
<1>1. CASE /\ phase'[j] = phase[j] \/ (phase[j] = "sync" /\ phase'[j] = "ask")
           /\ phase[j] \in {"sync", "ask"} => asked[j].synced \subseteq asked'[j].synced
  BY <1>1 DEF Answered
<1>2. CASE phase'[j] \in {"run", "failed"}
  BY <1>2 DEF Answered
<1>3. CASE \E g \in Proc : InitJoin(j, g)
  BY <1>3 DEF Answered, InitJoin
<1>4. CASE ProcessSimpleSyncUpResponse(j)
  BY <1>4 DEF Answered, ProcessSimpleSyncUpResponse
<1>5. CASE OnJoined(j) \/ JoinFailed(j)
  BY <1>0, <1>5 DEF Answered, OnJoined, JoinFailed
<1> QED BY <1>0, <1>1, <1>2, <1>3, <1>4, <1>5 DEF JoinerMove

\* A member that hears of the join with this step is asked in it, and its answer is
\* taken.
LEMMA HeardStep ==
  ASSUME IInv, ListInv, OncePart, OneJoiner, Lossy = {}, [Next]_vars,
         NEW n \in Running \cap Member, ListStep(n)
  PROVE  /\ Heard(n)' => \A j \in Joiners : Answered(j, n)'
         /\ newNodeHost'[n] # None => Len(view'[n].list) = N /\ joining'[n] = 0
<1>0. /\ n \in Proc /\ Len(view[n].list) \in Nat /\ Len(view[n].list) >= N /\ N \in Nat
      /\ joining[n] # 0 \/ Len(view'[n].list) \in {N, Len(view[n].list)}
  BY MemberListStep, MembershipAssumption DEF Proc
<1>1. ASSUME NEW p \in Joiners, HandleJoinCheckSyncedRequest(p, n)
      PROVE  /\ \A j \in Joiners : Answered(j, n)'
             /\ Len(view'[n].list) = N /\ joining'[n] = 0
  <2>1. /\ phase[p] = "ask" /\ n \notin asked[p].synced /\ p \in Proc
        /\ view' = view /\ joining' = joining /\ phase' = phase
    BY <1>1 DEF HandleJoinCheckSyncedRequest, SendJoinCheckSyncedRequest, clusterVars, taskVars, Proc
  <2>2. asked' = [asked EXCEPT ![p].synced = @ \cup {n}]
    BY <1>1 DEF HandleJoinCheckSyncedRequest
  <2>3. asked \in [Proc -> Asked \cup {None}] /\ asked[p] \in Asked
    BY <2>1 DEF IInv, PhasePart
  <2>4. asked'[p] = [asked[p] EXCEPT !.synced = asked[p].synced \cup {n}]
    BY <2>1, <2>2, <2>3
  <2>5. n \in asked'[p].synced
    BY <2>3, <2>4 DEF Asked
  <2>6. Answered(p, n)'
    BY <2>1, <2>5 DEF Answered
  <2>7. ~Heard(n)
    <3>1. ~Answered(p, n)
      BY <2>1 DEF Answered
    <3> QED BY <3>1 DEF OncePart
  <2> QED BY <1>0, <2>1, <2>6, <2>7 DEF Heard, OneJoiner
<1>2. CASE AskStep(n)
  BY <1>1, <1>2 DEF AskStep
<1>3. CASE RequestStep(n)
  <2>1. Heard(n)' => Heard(n)
    <3>1. joinInfo'[n] # None \/ newNodeHost'[n] # None => Heard(n)
      BY <1>3 DEF RequestStep, Heard
    <3>2. joining'[n] # 0 => Heard(n)
      BY <1>3 DEF RequestStep, Heard
    <3>3. ASSUME NEW h \in events'[n], Join(h)' PROVE Heard(n)
      <4>1. CASE h \in events[n]
        <5>1. h \in 1..height[n] /\ height[n] \in 0..Len(chain) /\ Len(chain) \in Nat
          BY <1>0, <4>1 DEF IInv, ChainPart
        <5>2. h \in 1..Len(chain)
          BY <5>1
        <5>3. Join(h)
          BY <3>3, <5>2, ChainSteps DEF Join
        <5> QED BY <4>1, <5>3 DEF Heard
      <4>2. CASE h \in 1..Len(chain) /\ (Join(h) => joinInfo[n] # None)
        <5>1. Join(h)
          BY <3>3, <4>2, ChainSteps DEF Join
        <5> QED BY <4>2, <5>1 DEF Heard
      <4> QED BY <1>3, <3>3, <4>1, <4>2 DEF RequestStep
    <3>4. Len(view'[n].list) > N => Heard(n)
      BY <1>0 DEF Heard
    <3> QED BY <3>1, <3>2, <3>3, <3>4 DEF Heard
  <2>2. Heard(n)' => \A j \in Joiners : Answered(j, n)'
    <3>1. Heard(n) => \A j \in Joiners : Answered(j, n)
      BY DEF OncePart
    <3> QED BY <2>1, <3>1, AnsweredKept
  <2>3. ASSUME newNodeHost'[n] # None PROVE Len(view'[n].list) = N /\ joining'[n] = 0
    <3>1. newNodeHost[n] # None
      BY <1>3, <2>3 DEF RequestStep
    <3>2. Len(view[n].list) = N /\ joining[n] = 0
      BY <3>1 DEF OncePart
    <3>3. joining'[n] = 0
      BY <1>3, <2>3, <3>2 DEF RequestStep
    <3> QED BY <1>0, <3>2, <3>3
  <2> QED BY <2>2, <2>3
<1> QED BY <1>0, <1>2, <1>3, RequestSteps

\* One step keeps every join at the first free id.
LEMMA OnceStep ==
  ASSUME IInv, ListInv, NoRequestPart, OncePart, OneJoiner, Lossy = {}, [Next]_vars
  PROVE  OncePart'
<1>1. ASSUME NEW n \in Member, phase'[n] = "run"
      PROVE  /\ Heard(n)' => \A j \in Joiners : Answered(j, n)'
             /\ newNodeHost'[n] # None => Len(view'[n].list) = N /\ joining'[n] = 0
             /\ peers'[n] \subseteq 0..Len(view'[n].list)-1
  <2>1. n \in Running \cap Member /\ ListStep(n)
    BY <1>1, ListSteps DEF Running, Proc
  <2> QED BY <2>1, HeardStep, MemberListStep
<1>2. ASSUME NEW h \in 1..Len(chain'), Join(h)' PROVE chain'[h].block.id = N
  BY <1>2, NewJoin DEF OncePart
<1> QED BY <1>1, <1>2 DEF OncePart, Running

\* With one joiner the ids on the chain, and the joining process, are in order in
\* every reachable state, whatever answers are lost and whoever restarts.
THEOREM JoinInvariance ==
  ASSUME OneJoiner
  PROVE  Spec => []JoinInv
<1>1. Init => JoinInv
  <2> SUFFICES ASSUME Init PROVE JoinInv
    OBVIOUS
  <2>1. /\ \A p \in Joiners : p \in Proc /\ p \notin Member /\ phase[p] = "new"
        /\ chain = <<>> /\ Len(chain) = 0
        /\ newNodeHost = [p \in Proc |-> None] /\ joinInfo = [p \in Proc |-> None]
        /\ joining = [p \in Proc |-> 0] /\ events = [p \in Proc |-> {}]
        /\ \A p \in Joiners : expected[p] = None
    BY MembershipAssumption DEF Init, Proc
  <2>2. NoRequestPart /\ NotYetPart
    BY <2>1 DEF NoRequestPart, NotYetPart
  <2>3. DensePart
    <3>1. ASSUME NEW p \in Member PROVE N..Len(view[p].list)-1 = {}
      <4>1. view[p] = Configured
        BY DEF Init, Proc
      <4>2. Len(Configured.list) = N /\ N \in Nat
        <5>1. Configured.list = [i \in 1..N |-> [host |-> i - 1, normal |-> TRUE]]
          BY DEF Configured, InitWithNodeList
        <5> QED BY <5>1, MembershipAssumption
      <4> QED BY <4>1, <4>2
    <3> QED BY <2>1, <3>1 DEF DensePart
  <2>4. JoinerPart
    BY <2>1 DEF JoinerPart, Active
  <2> QED BY <2>2, <2>3, <2>4 DEF JoinInv
<1>2. IInv /\ ListInv /\ JoinInv /\ [Next]_vars => JoinInv'
  BY NoRequestStep, NotYetStep, DenseStep, JoinerPartStep DEF JoinInv
<1> QED BY <1>1, <1>2, Invariance, ListInvariance, PTL DEF Spec

\* Where no answer to the joining process is lost, also for members that restart.
THEOREM OnceInvariance ==
  ASSUME OneJoiner, Lossy = {}
  PROVE  Spec => []OncePart
<1>1. Init => OncePart
  <2> SUFFICES ASSUME Init PROVE OncePart
    OBVIOUS
  <2>1. /\ Len(chain) = 0
        /\ newNodeHost = [p \in Proc |-> None] /\ joinInfo = [p \in Proc |-> None]
        /\ joining = [p \in Proc |-> 0] /\ events = [p \in Proc |-> {}]
    BY DEF Init
  <2>2. ASSUME NEW n \in Member
        PROVE  Len(view[n].list) = N /\ peers[n] \subseteq 0..Len(view[n].list)-1
    <3>1. view[n] = Configured /\ peers[n] = Normal(view[n].list)
      BY DEF Init, Proc
    <3>2. Len(Configured.list) = N
      <4>1. Configured.list = [i \in 1..N |-> [host |-> i - 1, normal |-> TRUE]]
        BY DEF Configured, InitWithNodeList
      <4> QED BY <4>1, MembershipAssumption
    <3>3. Configured.list \in Seq(Entry)
      BY ConfiguredFits DEF View, Entry
    <3> QED BY <3>1, <3>2, <3>3, NormalOfList
  <2>3. ASSUME NEW n \in Member PROVE ~Heard(n) /\ newNodeHost[n] = None
    BY <2>1, <2>2, <2>3, MembershipAssumption DEF Heard, Proc
  <2> QED BY <2>1, <2>2, <2>3 DEF OncePart
<1>2. IInv /\ ListInv /\ JoinInv /\ OncePart /\ [Next]_vars => OncePart'
  BY OnceStep DEF JoinInv
<1> QED BY <1>1, <1>2, Invariance, ListInvariance, JoinInvariance, PTL DEF Spec

\* The connections of every running process fit its node list and no handler of a join
\* panics, with one node that joins and any number that leave, if no answer to the
\* joining process is lost or no member restarts.  With both a member may be asked a
\* second time while it handles the join, accept a join of the id after, restart, and
\* panic when it handles that one with the list of its configuration file.
THEOREM PeersFit ==
  ASSUME OneJoiner, Lossy = {} \/ Crashers = {}
  PROVE  Spec => []PeersFitList
<1> DEFINE InList == \A p \in Running \cap Member :
                       /\ peers[p] \subseteq 0..Len(view[p].list)-1
                       /\ joining[p] # 0 => chain[joining[p]].block.id <= Len(view[p].list)
<1>1. MembersReachAll /\ JoinInv /\ InList => PeersFitList
  <2> SUFFICES ASSUME MembersReachAll, JoinInv, InList, NEW p \in Running
               PROVE  /\ Reaches(p, view[p], peers[p])
                      /\ joining[p] # 0 => chain[joining[p]].block.id <= Len(view[p].list)
    BY DEF PeersFitList, Reaches
  <2>1. CASE p \in Member
    BY <2>1 DEF MembersReachAll, Reaches
  <2>2. CASE p \in Joiners
    BY <2>2 DEF JoinInv, NoRequestPart, JoinerPart, Running, Active
  <2> QED BY <2>1, <2>2 DEF Running, Proc
<1>2. Spec => []InList
  <2>1. CASE Lossy = {}
    <3>1. IInv /\ ListInv /\ OncePart => InList
      <4> SUFFICES ASSUME IInv, ListInv, OncePart, NEW p \in Running \cap Member, joining[p] # 0
                   PROVE  chain[joining[p]].block.id <= Len(view[p].list)
        BY DEF OncePart
      <4>1. joining[p] \in 1..height[p] /\ height[p] \in 0..Len(chain) /\ Join(joining[p])
        BY DEF IInv, ChainPart, Running, Join
      <4>2. chain[joining[p]].block.id = N
        BY <4>1 DEF OncePart
      <4>3. Len(view[p].list) >= N
        BY DEF ListInv, ListPart, Listed, Running, Active
      <4>4. view[p].list \in Seq(Entry) /\ N \in Nat
        BY MembershipAssumption DEF IInv, ViewPart, View, Entry, Running
      <4> QED BY <4>2, <4>3, <4>4
    <3> QED BY <2>1, <3>1, Invariance, ListInvariance, OnceInvariance, PTL
  <2>2. CASE Crashers = {}
    <3>1. IInv /\ MembersInList => InList
      <4> SUFFICES ASSUME IInv, MembersInList, NEW p \in Running \cap Member, joining[p] # 0
                   PROVE  chain[joining[p]].block.id <= Len(view[p].list)
        BY <2>2 DEF MembersInList
      <4>1. /\ joining[p] \in 1..height[p] /\ height[p] \in 0..Len(chain)
            /\ chain[joining[p]].block.type = "JOIN"
        BY DEF IInv, ChainPart, Running
      <4>2. joining[p] \in 1..Len(chain) /\ OpenJoin(p, joining[p])
        BY <4>1 DEF OpenJoin
      <4>3. chain[joining[p]].block.id \in 0..Len(view[p].list)
        BY <2>2, <4>2 DEF MembersInList
      <4> QED BY <4>3
    <3> QED BY <3>1, Invariance, PeersInList, PTL
  <2> QED BY <2>1, <2>2
<1> QED BY <1>1, <1>2, MembersReach, JoinInvariance, PTL
=============================================================================

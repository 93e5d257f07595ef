------------------------------ MODULE Amounts ------------------------------
(***************************************************************************)
(* What a deposit pays: the loops of BtcToPbTx and EthToPbTx, one address  *)
(* of the recharge list per step.  A list that asks for more than the      *)
(* deposit is cut, in the order of its addresses.  The amounts are those   *)
(* before fees and prices.  On BTC and BCH the amount left is an int64; on *)
(* ETH it is an uint64, which wraps.                                       *)
(***************************************************************************)
EXTENDS Integers, Sequences, TLAPS

CONSTANT Modulus  \* 2^64

VARIABLES
  from,          \* "coin" for BtcToPbTx, "eth" for EthToPbTx
  amount, list,  \* the deposit, and the amounts its addresses ask for
  idx, left,     \* the next address, and leftAmount
  paid,          \* the sum of the amounts in watchedTx.RechargeList
  state          \* "loop", "done", or "nil" when the deposit is refused

vars == <<from, amount, list, idx, left, paid, state>>
Start == state = (IF amount <= 0 \/ list = <<>> THEN "nil" ELSE "loop")

Init ==
  /\ from \in {"coin", "eth"}
  /\ amount \in Int /\ list \in Seq(Int)
  /\ from = "eth" => amount \in 0..Modulus-1 /\ \A k \in 1..Len(list) : list[k] \in 0..Modulus-1
  /\ idx = 1 /\ left = amount /\ paid = 0
  /\ Start

\* An amount that is not positive; on ETH also an address of another chain.
Refuse ==
  /\ state = "loop"
  /\ list[idx] <= 0 \/ from = "eth"
  /\ state' = "nil"
  /\ UNCHANGED <<from, amount, list, idx, left, paid>>

Left(a) == IF from = "coin" THEN left - a ELSE (left - a) % Modulus

\* An address gets what it asks for or what is left.
Recharge ==
  LET a == list[idx] IN
  /\ state = "loop" /\ a > 0
  /\ paid' = paid + (IF a > left THEN left ELSE a)
  /\ left' = Left(a)
  /\ idx' = idx + 1
  /\ state' = IF left' <= 0 \/ idx = Len(list) THEN "done" ELSE "loop"
  /\ UNCHANGED <<from, amount, list>>

Next == Refuse \/ Recharge

Spec == Init /\ [][Next]_vars

-----------------------------------------------------------------------------
\* A deposit on BTC or BCH, and one on ETH with a single address, pays no more
\* than was deposited (the comment on BtcToPbTx: the amounts are corrected when
\* the outputs exceed the input).
PaysTheDeposit ==
  from = "coin" \/ Len(list) = 1 => (state = "done" => paid <= amount)

\* The loop holds back what it has not paid; it ends before that is used up,
\* because an amount that is more than what is left ends it.
IInv ==
  /\ amount \in Int /\ list \in Seq(Int) /\ idx \in Nat \ {0} /\ left \in Int /\ paid \in Int
  /\ from = "coin" \/ Len(list) = 1 =>
       /\ state = "loop" => left > 0 /\ paid + left = amount
       /\ state = "done" => paid <= amount
  /\ state = "loop" => idx <= Len(list)

\* The first address is reached only by deposits and lists that are not refused.
LEMMA StartsInside == Init => IInv
<1> SUFFICES ASSUME Init PROVE IInv
  OBVIOUS
<1>1. CASE state = "loop"
  <2>1. amount > 0 /\ list # <<>> /\ list \in Seq(Int)
    BY <1>1 DEF Init, Start
  <2>2. Len(list) >= 1
    BY <2>1
  <2> QED BY <1>1, <2>1, <2>2 DEF Init, IInv
<1>2. CASE state = "nil"
  BY <1>2 DEF Init, IInv
<1> QED BY <1>1, <1>2 DEF Init, Start

\* Each step of the loop keeps the account of what is paid and what is left.
LEMMA StepKeepsAccount ==
  ASSUME Modulus \in Nat \ {0}, IInv, [Next]_vars PROVE IInv'
<1>1. CASE Refuse
  BY <1>1 DEF IInv, Refuse
<1>2. CASE Recharge
  <2> DEFINE a == list[idx]
  <2>1. state = "loop" /\ idx \in 1..Len(list) /\ a \in Int /\ a > 0
    BY <1>2 DEF IInv, Recharge
  <2>2. /\ amount' = amount /\ list' = list /\ from' = from /\ idx' = idx + 1
        /\ paid' = paid + (IF a > left THEN left ELSE a)
        /\ left' = Left(a)
        /\ state' = IF left' <= 0 \/ idx = Len(list) THEN "done" ELSE "loop"
    BY <1>2 DEF Recharge
  <2>3. CASE from = "coin"
    <3>1. left' = left - a
      BY <2>2, <2>3 DEF Left
    <3>2. left > 0 /\ paid + left = amount /\ left \in Int /\ paid \in Int
      BY <2>1, <2>3 DEF IInv
    <3> HIDE DEF a
    <3>3. paid' \in Int /\ left' \in Int /\ paid' <= amount
      BY <2>1, <2>2, <3>1, <3>2
    <3>4. left' > 0 => paid' + left' = amount
      BY <2>1, <2>2, <3>1, <3>2
    <3>5. state' = "loop" => left' > 0 /\ idx' <= Len(list)
      BY <2>1, <2>2, <3>3
    <3> QED BY <2>1, <2>2, <3>3, <3>4, <3>5 DEF IInv
  <2>4. CASE from # "coin"
    <3>1. left' \in Int
      BY <2>1, <2>2, <2>4 DEF IInv, Left
    <3>2. Len(list) = 1 => state' = "done" /\ paid' <= amount
      BY <2>1, <2>2 DEF IInv
    <3> QED BY <2>1, <2>2, <2>4, <3>1, <3>2 DEF IInv
  <2> QED BY <2>3, <2>4
<1>3. CASE UNCHANGED vars
  BY <1>3 DEF IInv, vars
<1> QED BY <1>1, <1>2, <1>3 DEF Next

\* What is paid never exceeds the deposit, whatever the amounts asked for, on
\* BTC and BCH, and on ETH as long as there is one address: with more, an amount
\* beyond what is left makes the uint64 wrap and the loop go on.
THEOREM NeverPaysMore == ASSUME Modulus \in Nat \ {0} PROVE Spec => []PaysTheDeposit
<1>1. IInv => PaysTheDeposit
  BY DEF IInv, PaysTheDeposit
<1> QED BY <1>1, StartsInside, StepKeepsAccount, PTL DEF Spec

=============================================================================

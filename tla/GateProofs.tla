------------------------------ MODULE GateProofs ------------------------------
(***************************************************************************)
(* The overdraft of module Gate is bounded, for every grace, every charge  *)
(* and any number of accounts and requests.                                *)
(*                                                                         *)
(* The bound itself is not inductive: a debit lowers the balance without   *)
(* touching the peak.  What is kept by every step is the exposure: the     *)
(* balance less what all undebited requests may still cost.  Admission     *)
(* restores it from the gate's test, a debit only moves cost from the      *)
(* exposure to the balance, and a loss or a top-up can only help.          *)
(***************************************************************************)
EXTENDS Gate, TLAPS

Owed == [requests : Nat, cost : Nat]

GateType ==
    /\ balance \in [Users -> Int]
    /\ inflight \in [Users -> Nat]
    /\ pending \in [Users -> Owed]
    /\ peak \in [Users -> Nat]

Capped(owed) == \A u \in Users : owed[u].cost <= MaxCharge * owed[u].requests

Exposed(bal, fly, owed, top) ==
    \A u \in Users :
        bal[u] - MaxCharge * (fly[u] + owed[u].requests) > -Grace - MaxCharge * top[u]

GateInv == GateType /\ Capped(pending) /\ Exposed(balance, inflight, pending, peak)

\* A product with a natural number is monotone.
LEMMA TimesMonotone ==
    ASSUME NEW m \in Nat, NEW a \in Nat, NEW b \in Nat, a <= b
    PROVE  m * a <= m * b
  OBVIOUS

\* One more factor is one more term.
LEMMA TimesSum ==
    ASSUME NEW m \in Nat, NEW a \in Nat, NEW b \in Nat
    PROVE  /\ m * a \in Nat
           /\ m * (a + b) = m * a + m * b
  OBVIOUS

\* With fewer requests in flight less is at stake.
LEMMA LessAtStake ==
    ASSUME MaxCharge \in Nat, NEW bal \in Int, NEW floor \in Int,
           NEW m \in Nat, NEW n \in Nat, NEW k \in Nat,
           m <= n, bal - MaxCharge * (n + k) > floor
    PROVE  bal - MaxCharge * (m + k) > floor
  <1>1. MaxCharge * (m + k) <= MaxCharge * (n + k)
    BY TimesMonotone
  <1>2. MaxCharge * (m + k) \in Nat /\ MaxCharge * (n + k) \in Nat
    BY TimesSum
  <1> QED BY <1>1, <1>2

\* The table of accounts that owe nothing.
LEMMA NothingOwed ==
    [u \in Users |-> Nothing] \in [Users -> Owed] /\ (MaxCharge \in Nat => Capped([u \in Users |-> Nothing]))
  BY DEF Nothing, Owed, Capped

\* Whatever becomes of what is owed, the exposure is kept.
LEMMA SettleKeeps ==
    ASSUME Grace \in Nat, MaxCharge \in Nat,
           GateType, NEW owed \in [Users -> Owed], NEW fly \in [Users -> Nat],
           Capped(owed), Exposed(balance, fly, owed, peak), Settle(owed)
    PROVE  /\ balance' \in [Users -> Int]
           /\ pending' \in [Users -> Owed]
           /\ Capped(pending')
           /\ Exposed(balance', fly, pending', peak)
  <1> DEFINE zero == [u \in Users |-> Nothing]
  <1>1. zero \in [Users -> Owed] /\ Capped(zero) /\ \A u \in Users : zero[u].requests = 0
    BY NothingOwed DEF Nothing
  <1>2. CASE pending' = owed /\ UNCHANGED balance
    BY <1>2 DEF GateType
  <1>3. CASE pending' = zero /\ balance' = [u \in Users |-> balance[u] - owed[u].cost]
    <2>1. balance' \in [Users -> Int]
      BY <1>3 DEF GateType, Owed
    <2>2. ASSUME NEW u \in Users
          PROVE  balance'[u] - MaxCharge * (fly[u] + zero[u].requests)
                     > -Grace - MaxCharge * peak[u]
      <3>1. /\ balance[u] \in Int /\ fly[u] \in Nat /\ peak[u] \in Nat
            /\ owed[u].requests \in Nat /\ owed[u].cost \in Nat
        BY DEF GateType, Owed
      <3>2. /\ MaxCharge * (fly[u] + owed[u].requests)
                 = MaxCharge * fly[u] + MaxCharge * owed[u].requests
            /\ MaxCharge * fly[u] \in Nat
            /\ MaxCharge * owed[u].requests \in Nat
            /\ MaxCharge * peak[u] \in Nat
        BY <3>1, TimesSum
      <3>3. owed[u].cost <= MaxCharge * owed[u].requests
        BY DEF Capped
      <3>4. balance[u] - MaxCharge * (fly[u] + owed[u].requests)
                > -Grace - MaxCharge * peak[u]
        BY DEF Exposed
      <3>5. balance'[u] = balance[u] - owed[u].cost
        BY <1>3
      <3>6. fly[u] + zero[u].requests = fly[u]
        BY <1>1, <3>1
      <3> HIDE DEF zero
      <3> DEFINE a == MaxCharge * fly[u]
                 b == MaxCharge * owed[u].requests
                 c == MaxCharge * peak[u]
      <3>7. /\ a \in Int /\ b \in Int /\ c \in Int
            /\ balance[u] - (a + b) > -Grace - c
            /\ owed[u].cost <= b
        BY <3>2, <3>3, <3>4
      <3> HIDE DEF a, b, c
      <3>8. balance[u] - owed[u].cost - a > -Grace - c
        BY <3>1, <3>7
      <3> QED BY <3>5, <3>6, <3>8 DEF a, c
    <2>3. Exposed(balance', fly, zero, peak)
      BY <2>2 DEF Exposed
    <2> QED BY <1>1, <1>3, <2>1, <2>3
  <1>4. CASE pending' = zero /\ UNCHANGED balance
    <2>1. ASSUME NEW u \in Users
          PROVE  balance[u] - MaxCharge * (fly[u] + zero[u].requests)
                     > -Grace - MaxCharge * peak[u]
      <3>1. /\ balance[u] \in Int /\ fly[u] \in Nat /\ peak[u] \in Nat
            /\ owed[u].requests \in Nat
        BY DEF GateType, Owed
      <3>2. MaxCharge * fly[u] <= MaxCharge * (fly[u] + owed[u].requests)
        BY <3>1, TimesMonotone
      <3>3. /\ MaxCharge * fly[u] \in Nat
            /\ MaxCharge * (fly[u] + owed[u].requests) \in Nat
            /\ MaxCharge * peak[u] \in Nat
        BY <3>1, TimesSum
      <3>4. balance[u] - MaxCharge * (fly[u] + owed[u].requests)
                > -Grace - MaxCharge * peak[u]
        BY DEF Exposed
      <3>5. fly[u] + zero[u].requests = fly[u]
        BY <1>1, <3>1
      <3> HIDE DEF zero
      <3> DEFINE a == MaxCharge * fly[u]
                 b == MaxCharge * (fly[u] + owed[u].requests)
                 c == MaxCharge * peak[u]
      <3>6. /\ a \in Int /\ b \in Int /\ c \in Int /\ a <= b
            /\ balance[u] - b > -Grace - c
        BY <3>2, <3>3, <3>4
      <3> HIDE DEF a, b, c
      <3>7. balance[u] - a > -Grace - c
        BY <3>1, <3>6
      <3> QED BY <3>5, <3>7 DEF a, c
    <2>2. Exposed(balance, fly, zero, peak)
      BY <2>1 DEF Exposed
    <2> QED BY <1>1, <1>4, <2>2 DEF GateType
  <1> QED BY <1>2, <1>3, <1>4 DEF Settle
-----------------------------------------------------------------------------
\* Nothing is at stake yet.
LEMMA InitGateInv ==
    ASSUME Grace \in Nat \ {0}, MaxCharge \in Nat, Init
    PROVE  GateInv
  <1>1. GateType
    BY DEF Init, GateType, Nothing, Owed
  <1>2. Capped(pending)
    BY NothingOwed DEF Init
  <1>3. Exposed(balance, inflight, pending, peak)
    <2> SUFFICES ASSUME NEW u \in Users
                 PROVE  0 - MaxCharge * (0 + 0) > -Grace - MaxCharge * 0
      BY DEF Init, Exposed, Nothing
    <2>1. MaxCharge * (0 + 0) = 0 /\ MaxCharge * 0 = 0
      OBVIOUS
    <2> QED BY <2>1
  <1> QED BY <1>1, <1>2, <1>3 DEF GateInv

\* Every step keeps the exposure.
LEMMA NextGateInv ==
    ASSUME Grace \in Nat \ {0}, MaxCharge \in Nat, GateInv, [Next]_vars
    PROVE  GateInv'
  <1>0. /\ balance \in [Users -> Int] /\ inflight \in [Users -> Nat]
        /\ pending \in [Users -> Owed] /\ peak \in [Users -> Nat]
        /\ Capped(pending) /\ Exposed(balance, inflight, pending, peak)
    BY DEF GateInv, GateType
  <1>t. GateType
    BY DEF GateInv
  <1>1. ASSUME NEW u \in Users, Credit(u)
        PROVE  GateInv'
    <2>1. /\ balance' \in [Users -> Int] /\ balance'[u] > balance[u]
          /\ \A v \in Users \ {u} : balance'[v] = balance[v]
          /\ inflight' = inflight /\ pending' = pending /\ peak' = peak
      BY <1>1 DEF Credit
    <2>2. ASSUME NEW v \in Users
          PROVE  balance'[v] - MaxCharge * (inflight[v] + pending[v].requests)
                     > -Grace - MaxCharge * peak[v]
      <3>1. /\ balance[v] \in Int /\ balance'[v] \in Int /\ balance'[v] >= balance[v]
            /\ inflight[v] \in Nat /\ pending[v].requests \in Nat /\ peak[v] \in Nat
        BY <1>0, <2>1 DEF Owed
      <3>2. /\ MaxCharge * (inflight[v] + pending[v].requests) \in Nat
            /\ MaxCharge * peak[v] \in Nat
        BY <3>1, TimesSum
      <3>3. balance[v] - MaxCharge * (inflight[v] + pending[v].requests)
                > -Grace - MaxCharge * peak[v]
        BY <1>0 DEF Exposed
      <3> QED BY <3>1, <3>2, <3>3
    <2>3. Exposed(balance', inflight, pending, peak)
      BY <2>2 DEF Exposed
    <2> QED BY <1>0, <2>1, <2>3 DEF GateInv, GateType, Capped, Exposed
  <1>2. ASSUME NEW u \in Users, Admit(u)
        PROVE  GateInv'
    <2>1. /\ balance[u] > -Grace
          /\ inflight' = [inflight EXCEPT ![u] = @ + 1]
          /\ peak' = [peak EXCEPT ![u] = Larger(@, Stake(u))]
          /\ balance' = balance /\ pending' = pending
      BY <1>2 DEF Admit
    <2>2. /\ Stake(u) \in Nat /\ Larger(peak[u], Stake(u)) \in Nat
          /\ Stake(u) <= Larger(peak[u], Stake(u))
          /\ Stake(u) = inflight[u] + 1 + pending[u].requests
      BY <1>0 DEF Stake, Larger, Owed
    <2>3. inflight' \in [Users -> Nat] /\ peak' \in [Users -> Nat]
      BY <1>0, <2>1, <2>2
    <2>4. ASSUME NEW v \in Users
          PROVE  balance[v] - MaxCharge * (inflight'[v] + pending[v].requests)
                     > -Grace - MaxCharge * peak'[v]
      <3>1. CASE v = u
        <4>1. inflight'[u] + pending[u].requests = Stake(u) /\ peak'[u] = Larger(peak[u], Stake(u))
          BY <1>0, <2>1, <2>2 DEF Owed
        <4>2. MaxCharge * Stake(u) <= MaxCharge * Larger(peak[u], Stake(u))
          BY <2>2, TimesMonotone
        <4>3. /\ MaxCharge * Stake(u) \in Nat
              /\ MaxCharge * Larger(peak[u], Stake(u)) \in Nat
          BY <2>2, TimesSum
        <4>4. balance[u] - MaxCharge * Stake(u) > -Grace - MaxCharge * Larger(peak[u], Stake(u))
          BY <1>0, <2>1, <4>2, <4>3
        <4> QED BY <3>1, <4>1, <4>4
      <3>2. CASE v # u
        <4>1. inflight'[v] = inflight[v] /\ peak'[v] = peak[v]
          BY <1>0, <2>1, <3>2
        <4> QED BY <1>0, <4>1 DEF Exposed
      <3> QED BY <3>1, <3>2
    <2>5. Exposed(balance, inflight', pending, peak')
      BY <2>4 DEF Exposed
    <2> QED BY <1>0, <2>1, <2>3, <2>5 DEF GateInv, GateType, Capped, Exposed
  <1>3. ASSUME NEW u \in Users, Leave(u)
        PROVE  GateInv'
    <2>1. /\ inflight[u] > 0
          /\ inflight' = [inflight EXCEPT ![u] = @ - 1]
          /\ balance' = balance /\ pending' = pending /\ peak' = peak
      BY <1>3 DEF Leave
    <2>2. inflight' \in [Users -> Nat]
      BY <1>0, <2>1
    <2>3. ASSUME NEW v \in Users
          PROVE  balance[v] - MaxCharge * (inflight'[v] + pending[v].requests)
                     > -Grace - MaxCharge * peak[v]
      <3>1. /\ inflight'[v] <= inflight[v] /\ inflight'[v] \in Nat
            /\ balance[v] \in Int /\ inflight[v] \in Nat
            /\ pending[v].requests \in Nat /\ peak[v] \in Nat
        BY <1>0, <2>1, <2>2 DEF Owed
      <3>2. balance[v] - MaxCharge * (inflight[v] + pending[v].requests)
                > -Grace - MaxCharge * peak[v]
        BY <1>0 DEF Exposed
      <3>3. -Grace - MaxCharge * peak[v] \in Int
        BY <3>1, TimesSum
      <3> QED BY <3>1, <3>2, <3>3, LessAtStake
    <2>4. Exposed(balance, inflight', pending, peak)
      BY <2>3 DEF Exposed
    <2> QED BY <1>0, <2>1, <2>2, <2>4 DEF GateInv, GateType, Capped, Exposed
  <1>4. ASSUME NEW u \in Users, NEW cost \in 0..MaxCharge, Record(u, cost)
        PROVE  GateInv'
    <2> DEFINE owed == Charged(u, cost)
    <2>1. /\ inflight[u] > 0
          /\ inflight' = [inflight EXCEPT ![u] = @ - 1]
          /\ Settle(owed)
          /\ peak' = peak
      BY <1>4 DEF Record
    <2>2. inflight' \in [Users -> Nat]
      BY <1>0, <2>1
    <2>3. owed = [pending EXCEPT ![u] = [requests |-> pending[u].requests + 1,
                                         cost |-> pending[u].cost + cost]]
      BY DEF Charged
    <2> HIDE DEF owed
    <2>4. owed \in [Users -> Owed]
      BY <1>0, <2>3 DEF Owed
    <2>5. ASSUME NEW v \in Users
          PROVE  /\ owed[v].cost <= MaxCharge * owed[v].requests
                 /\ inflight'[v] + owed[v].requests = inflight[v] + pending[v].requests
      <3>1. pending[v].requests \in Nat /\ pending[v].cost \in Nat /\ inflight[v] \in Nat
        BY <1>0 DEF Owed
      <3>2. pending[v].cost <= MaxCharge * pending[v].requests
        BY <1>0 DEF Capped
      <3>3. CASE v = u
        <4>1. /\ owed[v].requests = pending[v].requests + 1
              /\ owed[v].cost = pending[v].cost + cost
              /\ inflight'[v] = inflight[v] - 1
          BY <1>0, <2>1, <2>3, <3>3
        <4>2. MaxCharge * (pending[v].requests + 1) = MaxCharge * pending[v].requests + MaxCharge
          BY <3>1, TimesSum
        <4>3. MaxCharge * pending[v].requests \in Nat
          BY <3>1, TimesSum
        <4> QED BY <3>1, <3>2, <4>1, <4>2, <4>3
      <3>4. CASE v # u
        <4>1. owed[v] = pending[v] /\ inflight'[v] = inflight[v]
          BY <1>0, <2>1, <2>3, <3>4
        <4> QED BY <3>2, <4>1
      <3> QED BY <3>3, <3>4
    <2>6. Capped(owed) /\ Exposed(balance, inflight', owed, peak)
      BY <1>0, <2>5 DEF Capped, Exposed
    <2>7. /\ balance' \in [Users -> Int] /\ pending' \in [Users -> Owed]
          /\ Capped(pending') /\ Exposed(balance', inflight', pending', peak)
      BY <1>t, <2>1, <2>2, <2>4, <2>6, SettleKeeps
    <2> QED BY <1>0, <2>1, <2>2, <2>7 DEF GateInv, GateType, Capped, Exposed
  <1>5. CASE Flush
    <2>1. Settle(pending) /\ inflight' = inflight /\ peak' = peak
      BY <1>5 DEF Flush
    <2>2. /\ balance' \in [Users -> Int] /\ pending' \in [Users -> Owed]
          /\ Capped(pending') /\ Exposed(balance', inflight, pending', peak)
      BY <1>0, <1>t, <2>1, SettleKeeps
    <2> QED BY <1>0, <2>1, <2>2 DEF GateInv, GateType, Capped, Exposed
  <1>6. CASE Crash
    <2>1. /\ inflight' = [u \in Users |-> 0]
          /\ pending' = [u \in Users |-> Nothing]
          /\ balance' = balance /\ peak' = peak
      BY <1>6 DEF Crash
    <2>2. pending' \in [Users -> Owed] /\ Capped(pending')
      BY <2>1, NothingOwed
    <2>3. ASSUME NEW v \in Users
          PROVE  balance[v] - MaxCharge * (inflight'[v] + pending'[v].requests)
                     > -Grace - MaxCharge * peak[v]
      <3>1. inflight'[v] = 0 /\ pending'[v].requests = 0
        BY <2>1 DEF Nothing
      <3>2. /\ balance[v] \in Int /\ inflight[v] \in Nat
            /\ pending[v].requests \in Nat /\ peak[v] \in Nat
        BY <1>0 DEF Owed
      <3>3. balance[v] - MaxCharge * (inflight[v] + pending[v].requests)
                > -Grace - MaxCharge * peak[v]
        BY <1>0 DEF Exposed
      <3>4. /\ MaxCharge * (inflight[v] + pending[v].requests) \in Nat
            /\ MaxCharge * peak[v] \in Nat
            /\ MaxCharge * (0 + 0) = 0
        BY <3>2, TimesSum
      <3> QED BY <3>1, <3>2, <3>3, <3>4
    <2>4. Exposed(balance, inflight', pending', peak)
      BY <2>3 DEF Exposed
    <2> QED BY <1>0, <2>1, <2>2, <2>4 DEF GateInv, GateType, Capped, Exposed
  <1>7. CASE UNCHANGED vars
    BY <1>0, <1>7 DEF vars, GateInv, GateType, Capped, Exposed
  <1> QED BY <1>1, <1>2, <1>3, <1>4, <1>5, <1>6, <1>7 DEF Next

\* For any accounts, charges and grace, and however admissions, records,
\* flushes, losses, top-ups and crashes interleave, a balance never falls
\* below the grace by more than the requests that were once undebited together
\* can cost (requireActivePlan reads a balance that lacks them).
THEOREM Overdraft ==
    ASSUME Grace \in Nat \ {0}, MaxCharge \in Nat
    PROVE  Spec => []OverdraftBounded
  <1>1. Init => GateInv
    BY InitGateInv
  <1>2. GateInv /\ [Next]_vars => GateInv'
    BY NextGateInv
  <1>3. GateInv => OverdraftBounded
    <2> SUFFICES ASSUME GateInv, NEW u \in Users
                 PROVE  balance[u] > -Grace - MaxCharge * peak[u]
      BY DEF OverdraftBounded
    <2>1. /\ balance[u] \in Int /\ inflight[u] \in Nat
          /\ pending[u].requests \in Nat /\ peak[u] \in Nat
      BY DEF GateInv, GateType, Owed
    <2>2. balance[u] - MaxCharge * (inflight[u] + pending[u].requests)
              > -Grace - MaxCharge * peak[u]
      BY DEF GateInv, Exposed
    <2>3. /\ MaxCharge * (inflight[u] + pending[u].requests) \in Nat
          /\ MaxCharge * peak[u] \in Nat
      BY <2>1, TimesSum
    <2> QED BY <2>1, <2>2, <2>3
  <1> QED BY <1>1, <1>2, <1>3, PTL DEF Spec
===============================================================================

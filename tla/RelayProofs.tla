---------------------------- MODULE RelayProofs -----------------------------
(***************************************************************************)
(* Proofs about Metering and Relay. Of the meter, the types and the        *)
(* conservation of what was recorded, column by column, account by account *)
(* and day by day, are inductive together; on them rest the balance (what  *)
(* was credited less the sum of what is billed), the charging of the       *)
(* summaries and the bound on a session. Of keys, gates and meter          *)
(* together, that they implement module Gate: the map from the states of   *)
(* Relay to those of Gate counts the requests in flight and sums the       *)
(* pending deltas of each account. With enforcement on, each step of the   *)
(* relay is a step of Gate or changes nothing Gate sees; the bound on the  *)
(* overdraft, proved of Gate, follows for the relay. The sums over days    *)
(* and over the whole table are dealt with by the lemmas of SumTheorems.   *)
(***************************************************************************)
EXTENDS Relay, SumTheorems

-----------------------------------------------------------------------------
(***************************************************************************)
(* The meter.                                                              *)
(***************************************************************************)

\* The sum of two deltas is a delta.
LEMMA PlusType ==
    ASSUME NEW x \in Delta, NEW y \in Delta
    PROVE  Plus(x, y) \in Delta
  BY DEF Plus, Delta

\* The sum of two tables of deltas is a table of deltas.
LEMMA MergeType ==
    ASSUME NEW s \in [Keys -> Delta], NEW t \in [Keys -> Delta]
    PROVE  Merge(s, t) \in [Keys -> Delta]
  BY PlusType DEF Merge

\* The empty table is a table of deltas.
LEMMA NoDeltasType == NoDeltas \in [Keys -> Delta]
  BY DEF NoDeltas, Zero, Delta

\* The invariant of a table and the three it is divided into.
Split(total, billed, owed, gone) ==
    \A k \in Keys : total[k] = Plus(billed[k], Plus(owed[k], gone[k]))

\* Moving all that is owed into the billed table keeps the total.
LEMMA BillKeepsSplit ==
    ASSUME NEW total \in [Keys -> Delta], NEW billed \in [Keys -> Delta],
           NEW owed \in [Keys -> Delta], NEW gone \in [Keys -> Delta],
           Split(total, billed, owed, gone)
    PROVE  Split(total, Merge(billed, owed), NoDeltas, gone)
  <1> SUFFICES ASSUME NEW k \in Keys
               PROVE  total[k] = Plus(Merge(billed, owed)[k], Plus(NoDeltas[k], gone[k]))
    BY DEF Split
  <1>1. billed[k] \in Delta /\ owed[k] \in Delta /\ gone[k] \in Delta
    OBVIOUS
  <1>2. total[k] = Plus(billed[k], Plus(owed[k], gone[k]))
    BY DEF Split
  <1>3. Merge(billed, owed)[k] = Plus(billed[k], owed[k]) /\ NoDeltas[k] = Zero
    BY DEF Merge, NoDeltas
  <1>4. Plus(billed[k], Plus(owed[k], gone[k]))
          = Plus(Plus(billed[k], owed[k]), Plus(Zero, gone[k]))
    BY <1>1 DEF Plus, Zero, Delta
  <1> QED BY <1>2, <1>3, <1>4

\* So does moving it to what is lost.
LEMMA LoseKeepsSplit ==
    ASSUME NEW total \in [Keys -> Delta], NEW billed \in [Keys -> Delta],
           NEW owed \in [Keys -> Delta], NEW gone \in [Keys -> Delta],
           Split(total, billed, owed, gone)
    PROVE  Split(total, billed, NoDeltas, Merge(gone, owed))
  <1> SUFFICES ASSUME NEW k \in Keys
               PROVE  total[k] = Plus(billed[k], Plus(NoDeltas[k], Merge(gone, owed)[k]))
    BY DEF Split
  <1>1. billed[k] \in Delta /\ owed[k] \in Delta /\ gone[k] \in Delta
    OBVIOUS
  <1>2. total[k] = Plus(billed[k], Plus(owed[k], gone[k]))
    BY DEF Split
  <1>3. Merge(gone, owed)[k] = Plus(gone[k], owed[k]) /\ NoDeltas[k] = Zero
    BY DEF Merge, NoDeltas
  <1>4. Plus(billed[k], Plus(owed[k], gone[k]))
          = Plus(billed[k], Plus(Zero, Plus(gone[k], owed[k])))
    BY <1>1 DEF Plus, Zero, Delta
  <1> QED BY <1>2, <1>3, <1>4

\* Adding the same delta to the total and to what is owed keeps the split.
LEMMA AccumulateKeepsSplit ==
    ASSUME NEW total \in [Keys -> Delta], NEW billed \in [Keys -> Delta],
           NEW owed \in [Keys -> Delta], NEW gone \in [Keys -> Delta],
           NEW i \in Keys, NEW x \in Delta,
           Split(total, billed, owed, gone)
    PROVE  Split([total EXCEPT ![i] = Plus(@, x)], billed,
                 [owed EXCEPT ![i] = Plus(@, x)], gone)
  <1> DEFINE t == [total EXCEPT ![i] = Plus(@, x)]
             o == [owed EXCEPT ![i] = Plus(@, x)]
  <1> SUFFICES ASSUME NEW k \in Keys
               PROVE  t[k] = Plus(billed[k], Plus(o[k], gone[k]))
    BY DEF Split
  <1>1. billed[k] \in Delta /\ owed[k] \in Delta /\ gone[k] \in Delta
    OBVIOUS
  <1>2. total[k] = Plus(billed[k], Plus(owed[k], gone[k]))
    BY DEF Split
  <1>3. CASE k # i
    BY <1>2, <1>3
  <1>4. CASE k = i
    <2>1. t[k] = Plus(total[k], x) /\ o[k] = Plus(owed[k], x)
      BY <1>4
    <2>2. Plus(Plus(billed[k], Plus(owed[k], gone[k])), x)
            = Plus(billed[k], Plus(Plus(owed[k], x), gone[k]))
      BY <1>1 DEF Plus, Delta
    <2> QED BY <1>2, <2>1, <2>2
  <1> QED BY <1>3, <1>4

-----------------------------------------------------------------------------
\* What the two callers of a persist rely on: whatever the gate, the write and
\* the flush do, the tables keep their types and go on adding up to the total.
LEMMA PersistKeeps ==
    ASSUME MeterType, NEW total \in [Keys -> Delta],
           NEW force, NEW counter \in Counter, NEW owed \in [Keys -> Delta],
           Split(total, usage, owed, lost),
           PersistGlobal(force, counter, owed)
    PROVE  /\ since' \in 0..Gate
           /\ global' \in Counter
           /\ file' \in Counter \cup {None}
           /\ daily' \in [Keys -> Delta]
           /\ usage' \in [Keys -> Delta]
           /\ lost' \in [Keys -> Delta]
           /\ faults' \in 0..MaxFaults
           /\ Split(total, usage', daily', lost')
  <1> USE BoundsAssumption
  <1>1. global' \in Counter
    BY DEF PersistGlobal
  <1>2. CASE ~GateOpen(force)
    BY <1>1, <1>2 DEF PersistGlobal, MeterType
  <1>3. CASE GateOpen(force)
    <2>1. PICK write \in {"done", "failed", "torn"},
               flush \in {"committed", "rolledBack", "commitFailed"} :
            /\ faults' = faults + FaultsOf(write, flush)
            /\ faults' <= MaxFaults
            /\ file' = CASE write = "done" -> counter
                         [] write = "failed" -> file
                         [] write = "torn" -> None
            /\ since' = IF write = "done" THEN 0 ELSE since
            /\ Flush(owed, flush)
      BY <1>3 DEF PersistGlobal
    <2>2. faults' \in 0..MaxFaults
      BY <2>1 DEF FaultsOf, MeterType
    <2>3. file' \in Counter \cup {None} /\ since' \in 0..Gate
      BY <2>1 DEF MeterType
    <2>5. usage \in [Keys -> Delta] /\ lost \in [Keys -> Delta]
      BY DEF MeterType
    <2>6. /\ daily' \in [Keys -> Delta]
          /\ usage' \in [Keys -> Delta]
          /\ lost' \in [Keys -> Delta]
          /\ Split(total, usage', daily', lost')
      <3>1. CASE flush = "committed"
        <4>1. usage' = Merge(usage, owed) /\ daily' = NoDeltas /\ lost' = lost
          BY <2>1, <3>1 DEF Flush, Upserted
        <4> QED BY <2>5, <4>1, MergeType, NoDeltasType, BillKeepsSplit
      <3>2. CASE flush = "rolledBack"
        <4>1. usage' = usage /\ daily' = owed /\ lost' = lost
          BY <2>1, <3>2 DEF Flush
        <4> QED BY <2>5, <4>1
      <3>3. CASE flush = "commitFailed"
        <4>1. usage' = usage /\ daily' = NoDeltas /\ lost' = Merge(lost, owed)
          BY <2>1, <3>3 DEF Flush
        <4> QED BY <2>5, <4>1, MergeType, NoDeltasType, LoseKeepsSplit
      <3> QED BY <2>1, <3>1, <3>2, <3>3
    <2> QED BY <1>1, <2>2, <2>3, <2>6
  <1> QED BY <1>2, <1>3

-----------------------------------------------------------------------------
MeterInv == MeterType /\ Split(recorded, usage, daily, lost)

\* Initially the tables are empty.
LEMMA InitMeterInv == Init => MeterInv
  <1> SUFFICES ASSUME Init PROVE MeterInv
    OBVIOUS
  <1> USE BoundsAssumption
  <1>1. MeterType
    BY NoDeltasType DEF Init, MeterType, EmptyCounter, Counter, NewSession, Days, Unserved
  <1>2. Split(recorded, usage, daily, lost)
    BY DEF Init, Split, NoDeltas, Zero, Plus
  <1> QED BY <1>1, <1>2 DEF MeterInv

\* What record adds is a delta.
LEMMA OwedType ==
    ASSUME NEW r \in Requests, NEW charge \in Charges
    PROVE  Owed(r, charge) \in Delta
  <1>1. charge.cost \in Nat /\ charge.classifier \in Nat
    BY ChargesAssumption
  <1>2. CompactionOf(r) \in Nat
    BY BoundsAssumption DEF CompactionOf
  <1> QED BY <1>1, <1>2 DEF Owed, Delta, Columns

\* The part of record that precedes every write keeps the total split, with
\* the delta on the side of what is owed.
LEMMA AccumulateKeeps ==
    ASSUME MeterInv, NEW r \in Requests, NEW u \in Accounts, NEW charge \in Charges,
           Accumulate(r, u, charge)
    PROVE  /\ session' \in [requests : Nat, demo : 0..MaxDemos]
           /\ request' \in [Requests -> [at : {"new", "compacted", "done"},
                                         user : Accounts \cup {None}]]
           /\ recorded' \in [Keys -> Delta]
           /\ WithOwed(r, u, charge) \in [Keys -> Delta]
           /\ Split(recorded', usage, WithOwed(r, u, charge), lost)
  <1> DEFINE x == Owed(r, charge)
             i == <<u, day>>
  <1>1. x \in Delta
    BY OwedType
  <1>2. i \in Keys
    BY DEF MeterInv, MeterType, Keys
  <1>3. /\ recorded \in [Keys -> Delta]
        /\ usage \in [Keys -> Delta]
        /\ daily \in [Keys -> Delta]
        /\ lost \in [Keys -> Delta]
        /\ Split(recorded, usage, daily, lost)
    BY DEF MeterInv, MeterType
  <1>4. /\ recorded' = [recorded EXCEPT ![i] = Plus(@, x)]
        /\ WithOwed(r, u, charge) = [daily EXCEPT ![i] = Plus(@, x)]
    BY DEF Accumulate, WithOwed
  <1>5. session' \in [requests : Nat, demo : 0..MaxDemos]
    BY DEF Accumulate, MeterInv, MeterType
  <1>6. request' \in [Requests -> [at : {"new", "compacted", "done"},
                                   user : Accounts \cup {None}]]
    BY DEF Accumulate, MeterInv, MeterType, Done
  <1> HIDE DEF x, i
  <1>7. recorded' \in [Keys -> Delta] /\ WithOwed(r, u, charge) \in [Keys -> Delta]
    BY <1>1, <1>2, <1>3, <1>4, PlusType
  <1>8. Split(recorded', usage, WithOwed(r, u, charge), lost)
    <2>1. Split([recorded EXCEPT ![i] = Plus(@, x)], usage,
                [daily EXCEPT ![i] = Plus(@, x)], lost)
      BY <1>1, <1>2, <1>3, AccumulateKeepsSplit
    <2> QED BY <1>4, <2>1
  <1> QED BY <1>5, <1>6, <1>7, <1>8

\* Every step keeps the types and the split.
LEMMA NextMeterInv ==
    ASSUME MeterInv, [Next]_vars
    PROVE  MeterInv'
  <1> USE BoundsAssumption
  <1>0. MeterType /\ Split(recorded, usage, daily, lost)
    BY DEF MeterInv
  <1>t. /\ recorded \in [Keys -> Delta]
        /\ usage \in [Keys -> Delta]
        /\ daily \in [Keys -> Delta]
        /\ lost \in [Keys -> Delta]
        /\ global \in Counter
    BY <1>0 DEF MeterType
  <1>1. CASE Tick
    BY <1>0, <1>1 DEF Tick, MeterType, MeterInv, Split
  <1>2. CASE Midnight
    BY <1>0, <1>2 DEF Midnight, MeterType, MeterInv, Split, Days
  <1>3. ASSUME NEW u \in Users, TopUp(u)
        PROVE  MeterInv'
    BY <1>0, <1>3 DEF TopUp, MeterType, MeterInv, Split
  <1>4. ASSUME NEW r \in Requests, NEW u \in Accounts, RecordCompaction(r, u)
        PROVE  MeterInv'
    <2> DEFINE counter == [global EXCEPT !.compactions = @ + 1]
    <2>1. counter \in Counter
      BY <1>t DEF Counter
    <2>2. PersistGlobal(FALSE, counter, daily)
      BY <1>4 DEF RecordCompaction
    <2>3. /\ request' = [request EXCEPT ![r] = [at |-> "compacted", user |-> u]]
          /\ UNCHANGED <<day, session, topUps, recorded, crashes>>
      BY <1>4 DEF RecordCompaction
    <2> HIDE DEF counter
    <2>4. /\ since' \in 0..Gate
          /\ global' \in Counter
          /\ file' \in Counter \cup {None}
          /\ daily' \in [Keys -> Delta]
          /\ usage' \in [Keys -> Delta]
          /\ lost' \in [Keys -> Delta]
          /\ faults' \in 0..MaxFaults
          /\ Split(recorded, usage', daily', lost')
      BY <1>0, <1>t, <2>1, <2>2, PersistKeeps
    <2>5. MeterType'
      BY <1>0, <2>3, <2>4 DEF MeterType
    <2> QED BY <2>3, <2>4, <2>5 DEF MeterInv
  <1>5. ASSUME NEW r \in Requests, NEW u \in Accounts, NEW charge \in Charges,
               Record(r, u, charge)
        PROVE  MeterInv'
    <2> DEFINE owed == WithOwed(r, u, charge)
    <2>1. Counted \in Counter
      BY <1>t DEF Counted, Counter
    <2>2. Accumulate(r, u, charge) /\ PersistGlobal(FALSE, Counted, owed)
      BY <1>5 DEF Record
    <2>3. UNCHANGED <<day, topUps, crashes>>
      BY <1>5 DEF Record
    <2>4. /\ session' \in [requests : Nat, demo : 0..MaxDemos]
          /\ request' \in [Requests -> [at : {"new", "compacted", "done"},
                                        user : Accounts \cup {None}]]
          /\ recorded' \in [Keys -> Delta]
          /\ owed \in [Keys -> Delta]
          /\ Split(recorded', usage, owed, lost)
      BY <2>2, AccumulateKeeps
    <2> HIDE DEF owed
    <2>5. /\ since' \in 0..Gate
          /\ global' \in Counter
          /\ file' \in Counter \cup {None}
          /\ daily' \in [Keys -> Delta]
          /\ usage' \in [Keys -> Delta]
          /\ lost' \in [Keys -> Delta]
          /\ faults' \in 0..MaxFaults
          /\ Split(recorded', usage', daily', lost')
      BY <1>0, <2>1, <2>2, <2>4, PersistKeeps
    <2>6. MeterType'
      BY <1>0, <2>3, <2>4, <2>5 DEF MeterType
    <2> QED BY <2>5, <2>6 DEF MeterInv
  <1>6. ASSUME NEW r \in Requests, NEW u \in Accounts, NEW charge \in Charges,
               RecordThrows(r, u, charge)
        PROVE  MeterInv'
    <2>1. Counted \in Counter
      BY <1>t DEF Counted, Counter
    <2>2. /\ session' \in [requests : Nat, demo : 0..MaxDemos]
          /\ request' \in [Requests -> [at : {"new", "compacted", "done"},
                                        user : Accounts \cup {None}]]
          /\ recorded' \in [Keys -> Delta]
          /\ WithOwed(r, u, charge) \in [Keys -> Delta]
          /\ Split(recorded', usage, WithOwed(r, u, charge), lost)
      BY <1>6, AccumulateKeeps DEF RecordThrows
    <2>3. /\ global' = Counted /\ daily' = WithOwed(r, u, charge)
          /\ faults < MaxFaults /\ faults' = faults + 1
          /\ UNCHANGED <<day, since, file, usage, balance, topUps, lost, crashes>>
      BY <1>6 DEF RecordThrows
    <2>4. MeterType'
      BY <1>0, <2>1, <2>2, <2>3 DEF MeterType
    <2> QED BY <2>2, <2>3, <2>4 DEF MeterInv
  <1>7. CASE RecordDemo
    <2>1. session' \in [requests : Nat, demo : 0..MaxDemos]
      <3>1. session.requests \in Nat /\ session.demo \in 0..MaxDemos
        BY <1>0 DEF MeterType
      <3>2. /\ session' = [requests |-> session.requests + 1, demo |-> session.demo + 1]
            /\ session.demo < MaxDemos
        BY <1>7 DEF RecordDemo
      <3> QED BY <3>1, <3>2
    <2>2. UNCHANGED <<day, since, global, file, daily, usage, balance, request, topUps,
                      recorded, lost, faults, crashes>>
      BY <1>7 DEF RecordDemo
    <2> QED BY <1>0, <2>1, <2>2 DEF MeterType, MeterInv, Split
  <1>8. CASE Reset
    BY <1>0, <1>8 DEF Reset, SessionReset, NewSession, MeterType, MeterInv, Split
  <1>9. CASE ResetGlobal
    <2>1. EmptyCounter \in Counter
      BY DEF EmptyCounter, Counter
    <2>2. PersistGlobal(TRUE, EmptyCounter, daily)
      BY <1>9 DEF ResetGlobal
    <2>3. session' = NewSession /\ UNCHANGED <<day, request, topUps, recorded, crashes>>
      BY <1>9 DEF ResetGlobal, SessionReset
    <2>4. /\ since' \in 0..Gate
          /\ global' \in Counter
          /\ file' \in Counter \cup {None}
          /\ daily' \in [Keys -> Delta]
          /\ usage' \in [Keys -> Delta]
          /\ lost' \in [Keys -> Delta]
          /\ faults' \in 0..MaxFaults
          /\ Split(recorded, usage', daily', lost')
      BY <1>0, <1>t, <2>1, <2>2, PersistKeeps
    <2>5. MeterType'
      BY <1>0, <2>3, <2>4 DEF MeterType, NewSession
    <2> QED BY <2>3, <2>4, <2>5 DEF MeterInv
  <1>10. CASE Crash
    <2>1. /\ crashes < MaxCrashes /\ crashes' = crashes + 1
          /\ file' = file \/ file' = None
          /\ global' = Loaded(file')
          /\ session' = NewSession
          /\ daily' = NoDeltas
          /\ lost' = Merge(lost, daily)
          /\ since' = Gate
          /\ request' = [r \in Requests |-> IF request[r].at = "compacted" THEN Done
                                            ELSE request[r]]
          /\ UNCHANGED <<day, usage, balance, topUps, recorded, faults>>
      BY <1>10 DEF Crash
    <2>2. file' \in Counter \cup {None}
      BY <1>0, <2>1 DEF MeterType
    <2>3. global' \in Counter
      BY <2>1, <2>2 DEF Loaded, EmptyCounter, Counter
    <2>4. request' \in [Requests -> [at : {"new", "compacted", "done"},
                                     user : Accounts \cup {None}]]
      BY <1>0, <2>1 DEF MeterType, Done
    <2>5. daily' \in [Keys -> Delta] /\ lost' \in [Keys -> Delta]
      BY <1>t, <2>1, NoDeltasType, MergeType
    <2>6. MeterType'
      BY <1>0, <2>1, <2>2, <2>3, <2>4, <2>5 DEF MeterType, NewSession
    <2>7. Split(recorded, usage, NoDeltas, Merge(lost, daily))
      BY <1>0, <1>t, LoseKeepsSplit
    <2> QED BY <2>1, <2>6, <2>7 DEF MeterInv
  <1>11. CASE UNCHANGED vars
    BY <1>0, <1>11 DEF vars, MeterType, MeterInv, Split
  <1> QED BY <1>1, <1>2, <1>3, <1>4, <1>5, <1>6, <1>7, <1>8, <1>9, <1>10, <1>11 DEF Next

\* Conservation: for every set of accounts, requests and charges, every gate
\* and any number of days, faults and crashes, each column of what was
\* recorded is billed, pending or lost, and is so once.
THEOREM Conservation == Spec => []Conserved
  <1>1. MeterInv => Conserved
    BY DEF MeterInv, Split, Conserved
  <1> QED BY <1>1, InitMeterInv, NextMeterInv, PTL DEF Spec

-----------------------------------------------------------------------------
(***************************************************************************)
(* The balance and the usage it bills.                                     *)
(***************************************************************************)

\* What is billed on the days of an account, as a function of the day.
LEMMA DaysFinite == IsFiniteSet(Days)
  BY FS_Interval, BoundsAssumption DEF Days

\* A delta has a billed amount.
LEMMA DebitNat ==
    ASSUME NEW x \in Delta
    PROVE  Debit(x) \in Nat
  BY DEF Debit, Delta, Columns

\* The row of an account and a day.
LEMMA RowType ==
    ASSUME NEW table \in [Keys -> Delta], NEW u \in Accounts, NEW d \in Days
    PROVE  table[<<u, d>>] \in Delta
  BY DEF Keys

\* What an account owes is a natural number of cents.
LEMMA DebitsNat ==
    ASSUME NEW table \in [Keys -> Delta], NEW u \in Users
    PROVE  Debits(table, u) \in Nat
  <1> DEFINE f == [d \in Days |-> Debit(table[<<u, d>>])]
  <1>1. Debits(table, u) = SumFunctionOnSet(f, Days)
    BY DEF Debits, SumFunction
  <1>2. \A d \in Days : f[d] \in Nat
    BY RowType, DebitNat DEF Accounts
  <1> HIDE DEF f
  <1> QED BY <1>1, <1>2, DaysFinite, SumNat

\* A flush bills the sum of what was billed and of what was owed.
LEMMA DebitsMerge ==
    ASSUME NEW s \in [Keys -> Delta], NEW t \in [Keys -> Delta], NEW u \in Users
    PROVE  Debits(Merge(s, t), u) = Debits(s, u) + Debits(t, u)
  <1> DEFINE f == [d \in Days |-> Debit(s[<<u, d>>])]
             g == [d \in Days |-> Debit(t[<<u, d>>])]
             h == [d \in Days |-> Debit(Merge(s, t)[<<u, d>>])]
  <1>1. /\ Debits(s, u) = SumFunctionOnSet(f, Days)
        /\ Debits(t, u) = SumFunctionOnSet(g, Days)
        /\ Debits(Merge(s, t), u) = SumFunctionOnSet(h, Days)
    BY DEF Debits, SumFunction
  <1>2. ASSUME NEW d \in Days
        PROVE  f[d] \in Int /\ g[d] \in Int /\ h[d] = f[d] + g[d]
    <2>1. s[<<u, d>>] \in Delta /\ t[<<u, d>>] \in Delta
      BY RowType DEF Accounts
    <2>2. Merge(s, t)[<<u, d>>] = Plus(s[<<u, d>>], t[<<u, d>>])
      BY DEF Merge, Keys, Accounts
    <2>3. Debit(Plus(s[<<u, d>>], t[<<u, d>>])) = Debit(s[<<u, d>>]) + Debit(t[<<u, d>>])
      BY <2>1 DEF Debit, Plus, Delta, Columns
    <2> QED BY <2>1, <2>2, <2>3, DebitNat
  <1> HIDE DEF f, g, h
  <1> QED BY <1>1, <1>2, DaysFinite, SumPlus

\* Nothing is billed on an empty table.
LEMMA DebitsOfNothing ==
    ASSUME NEW u \in Users
    PROVE  Debits(NoDeltas, u) = 0
  <1> DEFINE f == [d \in Days |-> Debit(NoDeltas[<<u, d>>])]
  <1>1. Debits(NoDeltas, u) = SumFunctionOnSet(f, Days)
    BY DEF Debits, SumFunction
  <1>2. \A d \in Days : f[d] = 0
    BY DEF NoDeltas, Zero, Debit, Keys, Accounts, Columns
  <1> HIDE DEF f
  <1> QED BY <1>1, <1>2, DaysFinite, SumZero

\* Summed by column and then by day, or by day at once, what is billed is the same.
LEMMA DebitsByColumn ==
    ASSUME NEW table \in [Keys -> Delta], NEW u \in Users
    PROVE  SumFunction([c \in Columns \ {"requests"} |->
               SumFunction([d \in Days |-> table[<<u, d>>][c]])]) = Debits(table, u)
  <1> DEFINE col(c) == [d \in Days |-> table[<<u, d>>][c]]
             total == [c \in Columns \ {"requests"} |-> SumFunctionOnSet(col(c), Days)]
             two == [d \in Days |-> table[<<u, d>>]["cost"] + table[<<u, d>>]["classifier"]]
             all == [d \in Days |-> Debit(table[<<u, d>>])]
  <1>1. ASSUME NEW d \in Days
        PROVE  /\ col("cost")[d] \in Int /\ col("classifier")[d] \in Int
               /\ col("compaction")[d] \in Int /\ two[d] \in Int /\ all[d] \in Int
               /\ two[d] = col("cost")[d] + col("classifier")[d]
               /\ all[d] = two[d] + col("compaction")[d]
    <2>1. table[<<u, d>>] \in Delta
      BY RowType DEF Accounts
    <2> QED BY <2>1 DEF Debit, Delta, Columns
  <1> DEFINE x == SumFunctionOnSet(col("cost"), Days)
             y == SumFunctionOnSet(col("classifier"), Days)
             z == SumFunctionOnSet(col("compaction"), Days)
  <1>2. x \in Int /\ y \in Int /\ z \in Int
    <2> HIDE DEF col, two, all
    <2> QED BY <1>1, DaysFinite, SumInt
  <1>3. Debits(table, u) = x + y + z
    <2>1. Debits(table, u) = SumFunctionOnSet(all, Days)
      BY DEF Debits, SumFunction
    <2>2. SumFunctionOnSet(two, Days) = x + y
      <3> HIDE DEF col, two, all
      <3> QED BY <1>1, DaysFinite, SumPlus
    <2>3. SumFunctionOnSet(all, Days) = SumFunctionOnSet(two, Days) + z
      <3> HIDE DEF col, two, all
      <3> QED BY <1>1, DaysFinite, SumPlus
    <2> HIDE DEF x, y, z, two, all
    <2> QED BY <2>1, <2>2, <2>3
  <1>4. SumFunction([c \in Columns \ {"requests"} |-> SumFunction([d \in Days |-> table[<<u, d>>][c]])])
          = SumFunctionOnSet(total, {"cost", "classifier", "compaction"})
    <2>1. Columns \ {"requests"} = {"cost", "classifier", "compaction"}
      BY DEF Columns
    <2>2. \A c : SumFunction([d \in Days |-> table[<<u, d>>][c]]) = SumFunctionOnSet(col(c), Days)
      BY DEF SumFunction
    <2> QED BY <2>1, <2>2 DEF SumFunction
  <1>5. SumFunctionOnSet(total, {"cost", "classifier", "compaction"}) = x + y + z
    <2>1. total["cost"] = x /\ total["classifier"] = y /\ total["compaction"] = z
      BY DEF Columns
    <2> HIDE DEF total, x, y, z
    <2>2. SumFunctionOnSet(total, {}) = 0
      BY SumEmpty
    <2>3. SumFunctionOnSet(total, {"cost"}) = x
      <3>1. SumFunctionOnSet(total, {} \cup {"cost"}) = total["cost"] + SumFunctionOnSet(total, {})
        BY <1>2, <2>1, FS_EmptySet, SumInsert
      <3>2. {} \cup {"cost"} = {"cost"}
        OBVIOUS
      <3> QED BY <1>2, <2>1, <2>2, <3>1, <3>2
    <2>4. SumFunctionOnSet(total, {"cost", "classifier"}) = x + y
      <3>1. IsFiniteSet({"cost"})
        BY FS_Singleton
      <3>2. \A c \in {"cost"} \cup {"classifier"} : total[c] \in Int
        BY <1>2, <2>1
      <3>3. SumFunctionOnSet(total, {"cost"} \cup {"classifier"})
               = total["classifier"] + SumFunctionOnSet(total, {"cost"})
        BY <3>1, <3>2, SumInsert
      <3>4. {"cost"} \cup {"classifier"} = {"cost", "classifier"}
        OBVIOUS
      <3> QED BY <1>2, <2>1, <2>3, <3>3, <3>4
    <2>5. SumFunctionOnSet(total, {"cost", "classifier", "compaction"}) = x + y + z
      <3>1. IsFiniteSet({"cost", "classifier"})
        <4>1. IsFiniteSet({"cost"} \cup {"classifier"})
          BY FS_Singleton, FS_AddElement
        <4>2. {"cost"} \cup {"classifier"} = {"cost", "classifier"}
          OBVIOUS
        <4> QED BY <4>1, <4>2
      <3>2. \A c \in {"cost", "classifier"} \cup {"compaction"} : total[c] \in Int
        BY <1>2, <2>1
      <3>3. SumFunctionOnSet(total, {"cost", "classifier"} \cup {"compaction"})
               = total["compaction"] + SumFunctionOnSet(total, {"cost", "classifier"})
        BY <3>1, <3>2, SumInsert
      <3>4. {"cost", "classifier"} \cup {"compaction"} = {"cost", "classifier", "compaction"}
        OBVIOUS
      <3> QED BY <1>2, <2>1, <2>4, <3>3, <3>4
    <2> QED BY <2>5
  <1> HIDE DEF x, y, z
  <1> QED BY <1>3, <1>4, <1>5

-----------------------------------------------------------------------------
Balanced(bal, credited, billed) ==
    \A u \in Users : bal[u] = credited[u] * TopUpAmount - Debits(billed, u)

BalanceInv == MeterInv /\ balance \in [Users -> Int] /\ Balanced(balance, topUps, usage)

\* A persist bills and debits together, or neither.
LEMMA PersistBills ==
    ASSUME NEW force, NEW counter, NEW owed, PersistGlobal(force, counter, owed)
    PROVE  \/ usage' = usage /\ balance' = balance
           \/ /\ usage' = Merge(usage, owed)
              /\ balance' = [u \in Users |-> balance[u] - Debits(owed, u)]
  <1>1. CASE ~GateOpen(force)
    BY <1>1 DEF PersistGlobal
  <1>2. CASE GateOpen(force)
    <2>1. PICK flush \in {"committed", "rolledBack", "commitFailed"} : Flush(owed, flush)
      BY <1>2 DEF PersistGlobal
    <2> QED BY <2>1 DEF Flush, Upserted
  <1> QED BY <1>1, <1>2

\* So a persist keeps the balance equal to what usage_daily bills.
LEMMA PersistKeepsBalance ==
    ASSUME BalanceInv, NEW force, NEW counter, NEW owed \in [Keys -> Delta],
           PersistGlobal(force, counter, owed)
    PROVE  balance' \in [Users -> Int] /\ Balanced(balance', topUps, usage')
  <1>1. /\ balance \in [Users -> Int] /\ Balanced(balance, topUps, usage)
        /\ usage \in [Keys -> Delta] /\ topUps \in [Users -> 0..MaxTopUps]
    BY DEF BalanceInv, MeterInv, MeterType
  <1>2. CASE usage' = usage /\ balance' = balance
    BY <1>1, <1>2
  <1>3. CASE /\ usage' = Merge(usage, owed)
             /\ balance' = [u \in Users |-> balance[u] - Debits(owed, u)]
    <2>1. \A u \in Users : Debits(owed, u) \in Nat /\ Debits(usage, u) \in Nat
      BY <1>1, DebitsNat
    <2>2. balance' \in [Users -> Int]
      BY <1>1, <1>3, <2>1
    <2>3. ASSUME NEW u \in Users
          PROVE  balance'[u] = topUps[u] * TopUpAmount - Debits(usage', u)
      <3>1. Debits(usage', u) = Debits(usage, u) + Debits(owed, u)
        BY <1>1, <1>3, DebitsMerge
      <3>2. balance[u] = topUps[u] * TopUpAmount - Debits(usage, u)
        BY <1>1 DEF Balanced
      <3>3. topUps[u] * TopUpAmount \in Int
        BY <1>1, BoundsAssumption
      <3> QED BY <1>1, <1>3, <2>1, <3>1, <3>2, <3>3
    <2> QED BY <2>2, <2>3 DEF Balanced
  <1> QED BY <1>2, <1>3, PersistBills

\* Nothing is credited or billed yet.
LEMMA InitBalanceInv == Init => BalanceInv
  <1> SUFFICES ASSUME Init PROVE BalanceInv
    OBVIOUS
  <1>1. MeterInv
    BY InitMeterInv
  <1>2. balance \in [Users -> Int]
    BY DEF Init
  <1>3. Balanced(balance, topUps, usage)
    BY DebitsOfNothing, BoundsAssumption DEF Init, Balanced
  <1> QED BY <1>1, <1>2, <1>3 DEF BalanceInv

\* Every step keeps the balance equal to what was credited less what is billed.
LEMMA NextBalanceInv ==
    ASSUME BalanceInv, [Next]_vars
    PROVE  BalanceInv'
  <1>0. /\ balance \in [Users -> Int] /\ Balanced(balance, topUps, usage) /\ MeterInv
        /\ daily \in [Keys -> Delta] /\ usage \in [Keys -> Delta]
        /\ topUps \in [Users -> 0..MaxTopUps]
    BY DEF BalanceInv, MeterInv, MeterType
  <1>m. MeterInv'
    BY <1>0, NextMeterInv
  <1>u. UNCHANGED <<balance, topUps, usage>> => BalanceInv'
    BY <1>0, <1>m DEF BalanceInv, Balanced
  <1>p. ASSUME NEW force, NEW counter, NEW owed \in [Keys -> Delta],
               PersistGlobal(force, counter, owed), UNCHANGED topUps
        PROVE  BalanceInv'
    <2>1. balance' \in [Users -> Int] /\ Balanced(balance', topUps, usage')
      BY <1>p, PersistKeepsBalance
    <2> QED BY <1>m, <1>p, <2>1 DEF BalanceInv
  <1>1. CASE Tick \/ Midnight \/ RecordDemo \/ Reset \/ Crash
    BY <1>1, <1>u DEF Tick, Midnight, RecordDemo, Reset, Crash
  <1>2. ASSUME NEW u \in Users, TopUp(u)
        PROVE  BalanceInv'
    <2>1. /\ topUps' = [topUps EXCEPT ![u] = @ + 1]
          /\ balance' = [balance EXCEPT ![u] = @ + TopUpAmount]
          /\ usage' = usage
      BY <1>2 DEF TopUp
    <2>2. balance' \in [Users -> Int]
      BY <1>0, <2>1, BoundsAssumption
    <2>3. ASSUME NEW v \in Users
          PROVE  balance'[v] = topUps'[v] * TopUpAmount - Debits(usage', v)
      <3>1. balance[v] = topUps[v] * TopUpAmount - Debits(usage, v)
        BY <1>0 DEF Balanced
      <3>2. CASE v # u
        BY <1>0, <2>1, <3>1, <3>2
      <3>3. CASE v = u
        <4>1. topUps[u] \in Nat /\ TopUpAmount \in Nat /\ Debits(usage, u) \in Nat
          BY <1>0, BoundsAssumption, DebitsNat
        <4>2. (topUps[u] + 1) * TopUpAmount = topUps[u] * TopUpAmount + TopUpAmount
              /\ topUps[u] * TopUpAmount \in Nat
          BY <4>1
        <4>3. topUps'[u] = topUps[u] + 1 /\ balance'[u] = balance[u] + TopUpAmount
          BY <1>0, <2>1
        <4> QED BY <2>1, <3>1, <3>3, <4>1, <4>2, <4>3
      <3> QED BY <3>2, <3>3
    <2> QED BY <1>m, <2>2, <2>3 DEF BalanceInv, Balanced
  <1>3. ASSUME NEW r \in Requests, NEW u \in Accounts, RecordCompaction(r, u)
        PROVE  BalanceInv'
    BY <1>0, <1>3, <1>p DEF RecordCompaction
  <1>4. ASSUME NEW r \in Requests, NEW u \in Accounts, NEW charge \in Charges,
               Record(r, u, charge)
        PROVE  BalanceInv'
    <2>1. WithOwed(r, u, charge) \in [Keys -> Delta]
      BY <1>0, <1>4, AccumulateKeeps DEF Record
    <2> QED BY <1>4, <1>p, <2>1 DEF Record
  <1>5. ASSUME NEW r \in Requests, NEW u \in Accounts, NEW charge \in Charges,
               RecordThrows(r, u, charge)
        PROVE  BalanceInv'
    BY <1>5, <1>u DEF RecordThrows
  <1>6. CASE ResetGlobal
    BY <1>0, <1>6, <1>p DEF ResetGlobal
  <1>7. CASE UNCHANGED vars
    BY <1>7, <1>u DEF vars
  <1> QED BY <1>1, <1>2, <1>3, <1>4, <1>5, <1>6, <1>7 DEF Next

\* The invariant of the balance holds in every state.
LEMMA AlwaysBalanceInv == Spec => []BalanceInv
  BY InitBalanceInv, NextBalanceInv, PTL DEF Spec

\* The meter keeps its types, the balance with them.
THEOREM MeterTyping == Spec => []TypeOK
  <1>1. BalanceInv => TypeOK
    BY DEF BalanceInv, MeterInv, TypeOK
  <1> QED BY <1>1, AlwaysBalanceInv, PTL

\* For any accounts, charges, top-ups and days, and whatever flush fails or
\* crash cuts it, a balance is what was credited less what usage_daily bills,
\* column by column: the debit rides in the transaction of the upserts.
THEOREM BalanceIsUsage == Spec => []BalanceMatchesUsage
  <1>1. BalanceInv => BalanceMatchesUsage
    <2> SUFFICES ASSUME BalanceInv, NEW u \in Users
                 PROVE  balance[u] = topUps[u] * TopUpAmount
                          - SumFunction([c \in Columns \ {"requests"} |->
                                SumFunction([d \in Days |-> usage[<<u, d>>][c]])])
      BY DEF BalanceMatchesUsage
    <2>1. balance[u] = topUps[u] * TopUpAmount - Debits(usage, u)
      BY DEF BalanceInv, Balanced
    <2>2. usage \in [Keys -> Delta]
      BY DEF BalanceInv, MeterInv, MeterType
    <2> QED BY <2>1, <2>2, DebitsByColumn
  <1> QED BY <1>1, AlwaysBalanceInv, PTL

-----------------------------------------------------------------------------
InHand == {r \in Requests : request[r].at = "compacted"}
Spend(table) == SumFunction([k \in Keys |-> table[k]["compaction"]])

Charged == crashes = 0 =>
    Spend(recorded) + CompactionCost * Cardinality(InHand)
        >= CompactionCost * global.compactions

\* The tables are finite.
LEMMA KeysFinite == IsFiniteSet(Keys)
  <1>1. IsFiniteSet(Accounts)
    BY FiniteAssumption, FS_AddElement DEF Accounts
  <1> QED BY <1>1, DaysFinite, FS_Product DEF Keys

\* What the summaries cost the accounts is a natural number.
LEMMA SpendNat ==
    ASSUME NEW table \in [Keys -> Delta]
    PROVE  Spend(table) \in Nat
  <1> DEFINE f == [k \in Keys |-> table[k]["compaction"]]
  <1>1. \A k \in Keys : f[k] \in Nat
    BY DEF Delta, Columns
  <1>2. Spend(table) = SumFunctionOnSet(f, Keys)
    BY DEF Spend, SumFunction
  <1> HIDE DEF f
  <1> QED BY <1>1, <1>2, KeysFinite, SumNat

\* One more delta adds its compaction column to that spend.
LEMMA SpendGrows ==
    ASSUME NEW table \in [Keys -> Delta], NEW i \in Keys, NEW x \in Delta
    PROVE  Spend([table EXCEPT ![i] = Plus(@, x)]) = Spend(table) + x["compaction"]
  <1> DEFINE next == [table EXCEPT ![i] = Plus(@, x)]
             f == [k \in Keys |-> table[k]["compaction"]]
             g == [k \in Keys |-> next[k]["compaction"]]
  <1>1. \A k \in Keys : f[k] \in Int
    BY DEF Delta, Columns
  <1>2. /\ next[i]["compaction"] = table[i]["compaction"] + x["compaction"]
        /\ table[i]["compaction"] \in Nat /\ x["compaction"] \in Nat
    BY DEF Plus, Delta, Columns
  <1>3. g[i] = f[i] + x["compaction"] /\ g[i] \in Int /\ f[i] \in Int /\ x["compaction"] \in Int
    BY <1>2
  <1>4. \A k \in Keys \ {i} : g[k] = f[k]
    OBVIOUS
  <1>5. /\ Spend(next) = SumFunctionOnSet(g, Keys)
        /\ Spend(table) = SumFunctionOnSet(f, Keys)
    BY DEF Spend, SumFunction
  <1> HIDE DEF f, g
  <1>6. \A k \in Keys : g[k] \in Int
    BY <1>1, <1>3, <1>4
  <1>7. SumFunctionOnSet(g, Keys) = SumFunctionOnSet(f, Keys) + g[i] - f[i]
    BY <1>1, <1>4, <1>6, KeysFinite, SumChange
  <1>8. SumFunctionOnSet(f, Keys) \in Int
    BY <1>1, KeysFinite, SumInt
  <1>9. Spend(next) = Spend(table) + x["compaction"]
    <2> HIDE DEF next
    <2> QED BY <1>3, <1>5, <1>7, <1>8
  <1> QED BY <1>9

\* The requests with a summary in hand are finitely many.
LEMMA InHandFinite == IsFiniteSet(InHand) /\ Cardinality(InHand) \in Nat
  BY FiniteAssumption, FS_Subset, FS_CardinalityType DEF InHand

\* Recording a request charges its account with the summary it had in hand.
LEMMA AccumulateCharges ==
    ASSUME MeterInv, NEW r \in Requests, NEW u \in Accounts, NEW charge \in Charges,
           Accumulate(r, u, charge)
    PROVE  Spend(recorded') + CompactionCost * Cardinality(InHand')
              = Spend(recorded) + CompactionCost * Cardinality(InHand)
  <1>1. /\ recorded \in [Keys -> Delta] /\ <<u, day>> \in Keys
        /\ request \in [Requests -> [at : {"new", "compacted", "done"},
                                     user : Accounts \cup {None}]]
    BY DEF MeterInv, MeterType, Keys
  <1>2. Owed(r, charge) \in Delta /\ Owed(r, charge)["compaction"] = CompactionOf(r)
    BY OwedType DEF Owed, Columns
  <1>3. Spend(recorded') = Spend(recorded) + CompactionOf(r)
    <2>1. recorded' = [recorded EXCEPT ![<<u, day>>] = Plus(@, Owed(r, charge))]
      BY DEF Accumulate
    <2> QED BY <1>1, <1>2, <2>1, SpendGrows
  <1>4. InHand' = InHand \ {r}
    BY <1>1 DEF Accumulate, InHand, Done
  <1>5. /\ IsFiniteSet(InHand) /\ Cardinality(InHand) \in Nat
        /\ Spend(recorded) \in Nat /\ CompactionCost \in Nat
    BY <1>1, InHandFinite, SpendNat, BoundsAssumption
  <1>6. CASE request[r].at = "compacted"
    <2>1. r \in InHand /\ CompactionOf(r) = CompactionCost
      BY <1>6 DEF InHand, CompactionOf
    <2>2. Cardinality(InHand') = Cardinality(InHand) - 1
      BY <1>4, <1>5, <2>1, FS_RemoveElement
    <2>3. CompactionCost * (Cardinality(InHand) - 1)
             = CompactionCost * Cardinality(InHand) - CompactionCost
          /\ CompactionCost * Cardinality(InHand) \in Int
      BY <1>5
    <2> QED BY <1>3, <1>5, <2>1, <2>2, <2>3
  <1>7. CASE request[r].at # "compacted"
    <2>1. InHand' = InHand /\ CompactionOf(r) = 0
      BY <1>4, <1>7 DEF InHand, CompactionOf
    <2> QED BY <1>3, <1>5, <2>1
  <1> QED BY <1>6, <1>7

ChargedInv == MeterInv /\ Charged

\* Nothing is summarised yet.
LEMMA InitChargedInv == Init => ChargedInv
  <1> SUFFICES ASSUME Init PROVE ChargedInv
    OBVIOUS
  <1>1. MeterInv
    BY InitMeterInv
  <1>2. recorded \in [Keys -> Delta] /\ global.compactions = 0
    BY <1>1 DEF MeterInv, MeterType, Init, EmptyCounter
  <1>3. Spend(recorded) \in Nat /\ Cardinality(InHand) \in Nat /\ CompactionCost \in Nat
    BY <1>2, SpendNat, InHandFinite, BoundsAssumption
  <1>4. CompactionCost * Cardinality(InHand) \in Nat /\ CompactionCost * 0 = 0
    BY <1>3
  <1> QED BY <1>1, <1>2, <1>3, <1>4 DEF ChargedInv, Charged

\* Every step keeps what the summaries cost charged, or in hand.
LEMMA NextChargedInv ==
    ASSUME ChargedInv, [Next]_vars
    PROVE  ChargedInv'
  <1>0. MeterInv /\ Charged /\ MeterInv'
    BY NextMeterInv DEF ChargedInv
  <1>t. /\ recorded \in [Keys -> Delta] /\ global \in Counter /\ crashes \in Nat
        /\ request \in [Requests -> [at : {"new", "compacted", "done"},
                                     user : Accounts \cup {None}]]
    BY <1>0 DEF MeterInv, MeterType
  <1>n. /\ Spend(recorded) \in Nat /\ CompactionCost \in Nat
        /\ IsFiniteSet(InHand) /\ Cardinality(InHand) \in Nat
        /\ CompactionCost * Cardinality(InHand) \in Nat
    BY <1>t, SpendNat, InHandFinite, BoundsAssumption
  <1>u. UNCHANGED <<recorded, request, global, crashes>> => ChargedInv'
    <2> SUFFICES ASSUME UNCHANGED <<recorded, request, global, crashes>> PROVE Charged'
      BY <1>0 DEF ChargedInv
    <2>1. InHand' = InHand
      BY DEF InHand
    <2> QED BY <1>0, <2>1 DEF Charged
  <1>r. ASSUME NEW r \in Requests, NEW u \in Accounts, NEW charge \in Charges,
               Accumulate(r, u, charge), global' = Counted, crashes' = crashes
        PROVE  ChargedInv'
    <2>1. global'.compactions = global.compactions
      BY <1>r, <1>t DEF Counted, Counter
    <2>2. Spend(recorded') + CompactionCost * Cardinality(InHand')
             = Spend(recorded) + CompactionCost * Cardinality(InHand)
      BY <1>r, <1>0, AccumulateCharges
    <2> QED BY <1>0, <1>r, <2>1, <2>2 DEF ChargedInv, Charged
  <1>1. CASE Tick \/ Midnight \/ (\E u \in Users : TopUp(u)) \/ RecordDemo \/ Reset
    BY <1>1, <1>u DEF Tick, Midnight, TopUp, RecordDemo, Reset
  <1>2. ASSUME NEW r \in Requests, NEW u \in Accounts, RecordCompaction(r, u)
        PROVE  ChargedInv'
    <2>1. /\ request[r].at = "new"
          /\ request' = [request EXCEPT ![r] = [at |-> "compacted", user |-> u]]
          /\ global' = [global EXCEPT !.compactions = @ + 1]
          /\ UNCHANGED <<recorded, crashes>>
      BY <1>2 DEF RecordCompaction, PersistGlobal
    <2>2. InHand' = InHand \cup {r} /\ r \notin InHand
      BY <1>t, <2>1 DEF InHand
    <2>3. Cardinality(InHand') = Cardinality(InHand) + 1
      BY <1>n, <2>2, FS_AddElement
    <2>4. global'.compactions = global.compactions + 1 /\ global.compactions \in Nat
      BY <1>t, <2>1 DEF Counter
    <2>5. /\ CompactionCost * (Cardinality(InHand) + 1)
                = CompactionCost * Cardinality(InHand) + CompactionCost
          /\ CompactionCost * (global.compactions + 1)
                = CompactionCost * global.compactions + CompactionCost
          /\ CompactionCost * global.compactions \in Nat
      BY <1>n, <2>4
    <2> QED BY <1>0, <1>n, <2>1, <2>3, <2>4, <2>5 DEF ChargedInv, Charged
  <1>3. ASSUME NEW r \in Requests, NEW u \in Accounts, NEW charge \in Charges,
               Record(r, u, charge) \/ RecordThrows(r, u, charge)
        PROVE  ChargedInv'
    BY <1>3, <1>r DEF Record, RecordThrows, PersistGlobal
  <1>4. CASE ResetGlobal
    <2>1. /\ global'.compactions = 0
          /\ UNCHANGED <<recorded, request, crashes>>
      BY <1>4 DEF ResetGlobal, PersistGlobal, EmptyCounter
    <2>2. InHand' = InHand
      BY <2>1 DEF InHand
    <2> QED BY <1>0, <1>n, <2>1, <2>2 DEF ChargedInv, Charged
  <1>5. CASE Crash
    <2>1. crashes' # 0
      BY <1>5, <1>t DEF Crash
    <2> QED BY <1>0, <2>1 DEF ChargedInv, Charged
  <1>6. CASE UNCHANGED vars
    BY <1>6, <1>u DEF vars
  <1> QED BY <1>1, <1>2, <1>3, <1>4, <1>5, <1>6 DEF Next

\* As long as no crash cuts a request, what the summaries of the all-time
\* counter cost has been charged to the accounts or will be when the requests
\* in hand are recorded: whatever the traffic and the failing writes.
THEOREM SummariesCharged == Spec => []CompactionIsCharged
  <1>1. ChargedInv => CompactionIsCharged
    BY DEF ChargedInv, Charged, CompactionIsCharged, Spend, InHand
  <1> QED BY <1>1, InitChargedInv, NextChargedInv, PTL DEF Spec

-----------------------------------------------------------------------------
SessionInv == MeterInv /\ SessionWithinGlobal

\* Every step that counts a request in the session counts it in the all-time
\* counter as well, and whatever empties the counter empties the session.
LEMMA NextSessionInv ==
    ASSUME SessionInv, [Next]_vars
    PROVE  SessionInv'
  <1>0. MeterInv /\ MeterInv' /\ session.requests - session.demo <= global.requests
    BY NextMeterInv DEF SessionInv, SessionWithinGlobal
  <1>t. /\ session \in [requests : Nat, demo : 0..MaxDemos]
        /\ session.requests \in Nat /\ session.demo \in Nat
        /\ global \in Counter /\ global.requests \in Nat /\ global'.requests \in Nat
    BY <1>0 DEF MeterInv, MeterType, Counter
  <1>u. session' = session /\ global'.requests = global.requests => SessionInv'
    BY <1>0 DEF SessionInv, SessionWithinGlobal
  <1>e. session' = NewSession => SessionInv'
    BY <1>0, <1>t DEF SessionInv, SessionWithinGlobal, NewSession
  <1>r. ASSUME NEW r \in Requests, NEW u \in Accounts, NEW charge \in Charges,
               Accumulate(r, u, charge), global' = Counted
        PROVE  SessionInv'
    <2>1. /\ session'.requests = session.requests + 1 /\ session'.demo = session.demo
          /\ global'.requests = global.requests + 1
      BY <1>r, <1>t DEF Accumulate, Counted, Counter
    <2> QED BY <1>0, <1>t, <2>1 DEF SessionInv, SessionWithinGlobal
  <1>1. CASE Tick \/ Midnight \/ \E u \in Users : TopUp(u)
    BY <1>1, <1>u DEF Tick, Midnight, TopUp
  <1>2. ASSUME NEW r \in Requests, NEW u \in Accounts, RecordCompaction(r, u)
        PROVE  SessionInv'
    BY <1>2, <1>t, <1>u DEF RecordCompaction, PersistGlobal, Counter
  <1>3. ASSUME NEW r \in Requests, NEW u \in Accounts, NEW charge \in Charges,
               Record(r, u, charge) \/ RecordThrows(r, u, charge)
        PROVE  SessionInv'
    BY <1>3, <1>r DEF Record, RecordThrows, PersistGlobal
  <1>4. CASE RecordDemo
    <2>1. /\ session'.requests = session.requests + 1 /\ session'.demo = session.demo + 1
          /\ global' = global
      BY <1>4 DEF RecordDemo
    <2> QED BY <1>0, <1>t, <2>1 DEF SessionInv, SessionWithinGlobal
  <1>5. CASE Reset \/ ResetGlobal \/ Crash
    BY <1>5, <1>e DEF Reset, ResetGlobal, Crash, SessionReset
  <1>6. CASE UNCHANGED vars
    BY <1>6, <1>u DEF vars
  <1> QED BY <1>1, <1>2, <1>3, <1>4, <1>5, <1>6 DEF Next

\* Whatever is reset, restarted or simulated, the session shows no more served
\* requests than the all-time counter next to it.
THEOREM SessionBelowGlobal == Spec => []SessionWithinGlobal
  <1>1. Init => SessionInv
    BY InitMeterInv DEF Init, SessionInv, SessionWithinGlobal, NewSession, EmptyCounter
  <1>2. SessionInv => SessionWithinGlobal
    BY DEF SessionInv
  <1> QED BY <1>1, <1>2, NextSessionInv, PTL DEF Spec

-----------------------------------------------------------------------------
\* A persist that finds the gate open and meets no fault leaves nothing pending.
LEMMA OpenGateEmpties ==
    ASSUME MeterType, NEW counter, NEW owed,
           PersistGlobal(FALSE, counter, owed), since = Gate, faults' = faults
    PROVE  daily' = NoDeltas
  <1>1. PICK write \in {"done", "failed", "torn"},
             flush \in {"committed", "rolledBack", "commitFailed"} :
          faults' = faults + FaultsOf(write, flush) /\ Flush(owed, flush)
    BY DEF PersistGlobal, GateOpen
  <1>2. faults \in Nat
    BY BoundsAssumption DEF MeterType
  <1>3. flush = "committed"
    BY <1>1, <1>2 DEF FaultsOf
  <1> QED BY <1>1, <1>3 DEF Flush

\* In every behaviour, a request recorded with the gate open leaves nothing
\* pending unless a write or a statement of that step fails: what a crash can
\* take is one window of traffic.
THEOREM OneWindow == Spec => OneWindowPending
  <1>1. ASSUME MeterInv, [Next]_vars
        PROVE  [recorded' # recorded /\ since = Gate /\ faults' = faults
                  => daily' = NoDeltas]_vars
    <2> SUFFICES ASSUME Next, recorded' # recorded, since = Gate, faults' = faults
                 PROVE  daily' = NoDeltas
      BY <1>1
    <2>0. MeterType /\ faults \in Nat
      BY <1>1, BoundsAssumption DEF MeterInv, MeterType
    <2>1. ASSUME NEW r \in Requests, NEW u \in Accounts, NEW charge \in Charges,
                 Record(r, u, charge)
          PROVE  daily' = NoDeltas
      BY <2>0, <2>1, OpenGateEmpties DEF Record
    <2>2. ASSUME NEW r \in Requests, NEW u \in Accounts, NEW charge \in Charges,
                 RecordThrows(r, u, charge)
          PROVE  FALSE
      BY <2>0, <2>2 DEF RecordThrows
    <2> QED BY <2>1, <2>2 DEF Next, Tick, Midnight, TopUp, RecordCompaction,
                              RecordDemo, Reset, ResetGlobal, Crash
  <1> QED BY <1>1, InitMeterInv, NextMeterInv, PTL DEF Spec, OneWindowPending

-----------------------------------------------------------------------------
(***************************************************************************)
(* The relay.                                                              *)
(***************************************************************************)

\* The proofs about Gate under the same map as G of module Relay.
GP == INSTANCE GateProofs WITH
    inflight <- [u \in Users |-> InFlight(u)],
    pending <- [u \in Users |-> [requests |-> Undebited(u), cost |-> Debits(daily, u)]]

\* The two mapped variables of Gate, as functions of those of Relay.
Flying == [u \in Users |-> InFlight(u)]
RowsOf(table, u) == SumFunction([d \in Days |-> table[<<u, d>>]["requests"]])
Owing(table) == [u \in Users |-> [requests |-> RowsOf(table, u), cost |-> Debits(table, u)]]
NothingOwing == [u \in Users |-> [requests |-> 0, cost |-> 0]]

Visits == [Requests -> [at : {"idle", "inflight", "over", "denied"}, user : Accounts]]

RelayType ==
    /\ key \in [ApiKeys -> [state : {"none", "active", "revoked"}, owner : Accounts]]
    /\ visit \in Visits
    /\ peak \in [Users -> Nat]

RelayInv == BalanceInv /\ RelayType

-----------------------------------------------------------------------------
(***************************************************************************)
(* The charges.                                                            *)
(***************************************************************************)

\* No charge of a request exceeds MaxCharge, which is a natural number.
LEMMA ChargeBounded ==
    /\ MaxCharge \in Nat
    /\ \A charge \in Charges, r \in Requests :
          charge.cost + charge.classifier + CompactionOf(r) \in 0..MaxCharge
  <1> DEFINE S == {c.cost + c.classifier : c \in Charges}
  <1>1. S \in SUBSET Nat /\ S # {}
    BY ChargesAssumption, BoundedChargeAssumption
  <1>2. IsFiniteSet(S)
    <2> DEFINE sum == [c \in Charges |-> c.cost + c.classifier]
    <2>1. sum \in Surjection(Charges, S)
      BY DEF Surjection
    <2> HIDE DEF sum, S
    <2> QED BY <2>1, BoundedChargeAssumption, FS_Surjection
  <1>3. \E m \in S : \A n \in S : m >= n
    <2> HIDE DEF S
    <2>1. PICK m \in S : \A n \in S : n <= m
      BY <1>1, <1>2, LargestNat
    <2> QED BY <1>1, <2>1
  <1>4. Max(S) \in S /\ \A n \in S : Max(S) >= n
    BY <1>3 DEF Max
  <1>5. MaxCharge = CompactionCost + Max(S) /\ CompactionCost \in Nat
    BY BoundsAssumption DEF MaxCharge
  <1>6. ASSUME NEW charge \in Charges, NEW r \in Requests
        PROVE  charge.cost + charge.classifier + CompactionOf(r) \in 0..MaxCharge
    <2>1. charge.cost \in Nat /\ charge.classifier \in Nat
      BY ChargesAssumption
    <2>2. charge.cost + charge.classifier <= Max(S) /\ Max(S) \in Nat
      BY <1>1, <1>4, <2>1
    <2>3. CompactionOf(r) \in 0..CompactionCost
      BY <1>5 DEF CompactionOf
    <2> HIDE DEF S
    <2> QED BY <1>5, <2>1, <2>2, <2>3
  <1> QED BY <1>1, <1>4, <1>5, <1>6

-----------------------------------------------------------------------------
(***************************************************************************)
(* The requests in flight.                                                 *)
(***************************************************************************)

\* There are finitely many.
LEMMA FlyingNat ==
    ASSUME NEW u
    PROVE  InFlight(u) \in Nat
  BY FiniteAssumption, FS_Subset, FS_CardinalityType DEF InFlight

\* A request that lands leaves the count of its account, and no other.
LEMMA Lands ==
    ASSUME visit \in Visits, NEW r \in Requests, visit[r].at = "inflight",
           visit' = [visit EXCEPT ![r].at = "over"]
    PROVE  \A u \in Users : IF u = visit[r].user
                            THEN InFlight(u) > 0 /\ InFlight(u)' = InFlight(u) - 1
                            ELSE InFlight(u)' = InFlight(u)
  <1> DEFINE S(u) == {q \in Requests : visit[q].at = "inflight" /\ visit[q].user = u}
             T(u) == {q \in Requests : visit'[q].at = "inflight" /\ visit'[q].user = u}
             v == visit[r].user
  <1>1. \A q \in Requests :
          /\ q # r => visit'[q] = visit[q]
          /\ q = r => visit'[q].at = "over"
    BY DEF Visits
  <1>2. ASSUME NEW u \in Users, u # visit[r].user
        PROVE  InFlight(u)' = InFlight(u)
    <2>1. T(u) = S(u)
      BY <1>1, <1>2
    <2> QED BY <2>1 DEF InFlight
  <1>3. r \in S(v) /\ T(v) = S(v) \ {r}
    BY <1>1
  <1>4. IsFiniteSet(S(v))
    BY FiniteAssumption, FS_Subset
  <1>5. /\ Cardinality(S(v)) \in Nat /\ Cardinality(S(v)) > 0
        /\ Cardinality(S(v) \ {r}) = Cardinality(S(v)) - 1
    <2> HIDE DEF S
    <2>1. S(v) # {}
      BY <1>3
    <2> QED BY <1>3, <1>4, <2>1, FS_RemoveElement, FS_CardinalityType, FS_EmptySet
  <1>6. ASSUME NEW u \in Users, u = visit[r].user
        PROVE  InFlight(u) = Cardinality(S(v)) /\ InFlight(u)' = Cardinality(S(v) \ {r})
    BY <1>3, <1>6 DEF InFlight
  <1> HIDE DEF S
  <1> QED BY <1>2, <1>5, <1>6

\* A request that is admitted joins the count of its account, and no other.
LEMMA TakesOff ==
    ASSUME visit \in Visits, NEW r \in Requests, NEW v \in Accounts, visit[r].at = "idle",
           visit' = [visit EXCEPT ![r] = [at |-> "inflight", user |-> v]]
    PROVE  \A u \in Users : InFlight(u)' = IF u = v THEN InFlight(u) + 1 ELSE InFlight(u)
  <1> DEFINE S(u) == {q \in Requests : visit[q].at = "inflight" /\ visit[q].user = u}
             T(u) == {q \in Requests : visit'[q].at = "inflight" /\ visit'[q].user = u}
  <1>1. \A q \in Requests :
          /\ q # r => visit'[q] = visit[q]
          /\ q = r => visit'[q].at = "inflight" /\ visit'[q].user = v
    BY DEF Visits
  <1>2. ASSUME NEW u \in Users, u # v
        PROVE  InFlight(u)' = InFlight(u)
    <2>1. T(u) = S(u)
      BY <1>1, <1>2
    <2> QED BY <2>1 DEF InFlight
  <1>3. r \notin S(v) /\ T(v) = S(v) \cup {r}
    BY <1>1
  <1>4. IsFiniteSet(S(v))
    BY FiniteAssumption, FS_Subset
  <1>5. Cardinality(T(v)) = Cardinality(S(v)) + 1
    <2> HIDE DEF S, T
    <2> QED BY <1>3, <1>4, FS_AddElement
  <1> QED BY <1>2, <1>5 DEF InFlight

-----------------------------------------------------------------------------
(***************************************************************************)
(* What the accounts owe.                                                  *)
(***************************************************************************)

\* The rows an account owes are a natural number.
LEMMA RowsNat ==
    ASSUME NEW table \in [Keys -> Delta], NEW u \in Accounts
    PROVE  RowsOf(table, u) \in Nat
  <1> DEFINE f == [d \in Days |-> table[<<u, d>>]["requests"]]
  <1>1. \A d \in Days : f[d] \in Nat
    BY RowType DEF Delta, Columns
  <1>2. RowsOf(table, u) = SumFunctionOnSet(f, Days)
    BY DEF RowsOf, SumFunction
  <1> HIDE DEF f
  <1> QED BY <1>1, <1>2, DaysFinite, SumNat

\* The empty table owes nothing.
LEMMA EmptyOwesNothing == Owing(NoDeltas) = NothingOwing
  <1>1. ASSUME NEW u \in Users
        PROVE  RowsOf(NoDeltas, u) = 0
    <2> DEFINE f == [d \in Days |-> NoDeltas[<<u, d>>]["requests"]]
    <2>1. \A d \in Days : f[d] = 0
      BY DEF NoDeltas, Zero, Columns, Keys, Accounts
    <2>2. RowsOf(NoDeltas, u) = SumFunctionOnSet(f, Days)
      BY DEF RowsOf, SumFunction
    <2> HIDE DEF f
    <2> QED BY <2>1, <2>2, DaysFinite, SumZero
  <1> QED BY <1>1, DebitsOfNothing DEF Owing, NothingOwing

\* One more delta adds its row and its debit to what its account owes, and
\* nothing to what the others owe.
LEMMA OwingGrows ==
    ASSUME NEW table \in [Keys -> Delta], NEW next \in [Keys -> Delta],
           NEW u \in Accounts, NEW d \in Days, NEW x \in Delta, x["requests"] = 1,
           next[<<u, d>>] = Plus(table[<<u, d>>], x),
           \A v \in Accounts, e \in Days : <<v, e>> # <<u, d>> => next[<<v, e>>] = table[<<v, e>>]
    PROVE  /\ RowsOf(next, u) = RowsOf(table, u) + 1
           /\ Debits(next, u) = Debits(table, u) + Debit(x)
           /\ \A v \in Users : v # u => /\ RowsOf(next, v) = RowsOf(table, v)
                                        /\ Debits(next, v) = Debits(table, v)
  <1>1. <<u, d>> \in Keys
    BY DEF Keys
  <1>3. /\ next[<<u, d>>]["requests"] = table[<<u, d>>]["requests"] + 1
        /\ Debit(next[<<u, d>>]) = Debit(table[<<u, d>>]) + Debit(x)
    <2>1. table[<<u, d>>] \in Delta
      BY <1>1
    <2> QED BY <2>1 DEF Plus, Delta, Columns, Debit
  <1>h. Debit(x) \in Nat
    BY DebitNat
  <1>4. RowsOf(next, u) = RowsOf(table, u) + 1
    <2> DEFINE f == [e \in Days |-> table[<<u, e>>]["requests"]]
               g == [e \in Days |-> next[<<u, e>>]["requests"]]
    <2>1. \A e \in Days : f[e] \in Nat /\ g[e] \in Nat
      BY <1>1, RowType DEF Delta, Columns
    <2>2. \A e \in Days \ {d} : g[e] = f[e]
      OBVIOUS
    <2>3. g[d] = f[d] + 1
      BY <1>3
    <2>4. RowsOf(table, u) = SumFunctionOnSet(f, Days) /\ RowsOf(next, u) = SumFunctionOnSet(g, Days)
      BY DEF RowsOf, SumFunction
    <2> HIDE DEF f, g
    <2>5. \A e \in Days : f[e] \in Int /\ g[e] \in Int
      BY <2>1
    <2>6. SumFunctionOnSet(g, Days) = SumFunctionOnSet(f, Days) + g[d] - f[d]
      BY <2>2, <2>5, DaysFinite, SumChange
    <2>7. SumFunctionOnSet(f, Days) \in Int
      BY <2>5, DaysFinite, SumInt
    <2> QED BY <2>3, <2>4, <2>5, <2>6, <2>7
  <1>5. Debits(next, u) = Debits(table, u) + Debit(x)
    <2> DEFINE f == [e \in Days |-> Debit(table[<<u, e>>])]
               g == [e \in Days |-> Debit(next[<<u, e>>])]
    <2>1. \A e \in Days : f[e] \in Nat /\ g[e] \in Nat
      BY <1>1, RowType, DebitNat
    <2>2. \A e \in Days \ {d} : g[e] = f[e]
      OBVIOUS
    <2>3. g[d] = f[d] + Debit(x)
      BY <1>3
    <2>4. Debits(table, u) = SumFunctionOnSet(f, Days) /\ Debits(next, u) = SumFunctionOnSet(g, Days)
      BY DEF Debits, SumFunction
    <2> HIDE DEF f, g
    <2>5. \A e \in Days : f[e] \in Int /\ g[e] \in Int
      BY <2>1
    <2>6. SumFunctionOnSet(g, Days) = SumFunctionOnSet(f, Days) + g[d] - f[d]
      BY <2>2, <2>5, DaysFinite, SumChange
    <2>7. SumFunctionOnSet(f, Days) \in Int
      BY <2>5, DaysFinite, SumInt
    <2> QED BY <1>h, <2>3, <2>4, <2>5, <2>6, <2>7
  <1>6. ASSUME NEW v \in Users, v # u
        PROVE  RowsOf(next, v) = RowsOf(table, v) /\ Debits(next, v) = Debits(table, v)
    <2>1. \A e \in Days : next[<<v, e>>] = table[<<v, e>>]
      BY <1>6 DEF Accounts
    <2>2. [e \in Days |-> next[<<v, e>>]["requests"]] = [e \in Days |-> table[<<v, e>>]["requests"]]
      BY <2>1
    <2>3. [e \in Days |-> Debit(next[<<v, e>>])] = [e \in Days |-> Debit(table[<<v, e>>])]
      BY <2>1
    <2> QED BY <2>2, <2>3 DEF RowsOf, Debits
  <1> QED BY <1>4, <1>5, <1>6

\* So does what a request adds to the pending deltas.
LEMMA RecordOwes ==
    ASSUME BalanceInv, NEW r \in Requests, NEW u \in Accounts, NEW charge \in Charges
    PROVE  /\ u \in Users =>
                Owing(WithOwed(r, u, charge))
                  = [Owing(daily) EXCEPT ![u] =
                        [requests |-> @.requests + 1,
                         cost |-> @.cost + (charge.cost + charge.classifier + CompactionOf(r))]]
           /\ u \notin Users => Owing(WithOwed(r, u, charge)) = Owing(daily)
  <1> DEFINE x == Owed(r, charge)
             next == WithOwed(r, u, charge)
             cost == charge.cost + charge.classifier + CompactionOf(r)
  <1>1. x \in Delta /\ x["requests"] = 1 /\ Debit(x) = cost
    BY OwedType DEF Owed, Columns, Debit
  <1>2. daily \in [Keys -> Delta] /\ day \in Days
    BY DEF BalanceInv, MeterInv, MeterType
  <1>3. /\ next \in [Keys -> Delta]
        /\ next[<<u, day>>] = Plus(daily[<<u, day>>], x)
        /\ \A v \in Accounts, e \in Days : <<v, e>> # <<u, day>> => next[<<v, e>>] = daily[<<v, e>>]
    <2> HIDE DEF x
    <2>1. next = [daily EXCEPT ![<<u, day>>] = Plus(@, x)]
      BY DEF WithOwed, x
    <2> QED BY <1>1, <1>2, <2>1, PlusType DEF Keys
  <1> HIDE DEF x, next, cost
  <1>4. /\ RowsOf(next, u) = RowsOf(daily, u) + 1
        /\ Debits(next, u) = Debits(daily, u) + cost
        /\ \A v \in Users : v # u => /\ RowsOf(next, v) = RowsOf(daily, v)
                                     /\ Debits(next, v) = Debits(daily, v)
    BY <1>1, <1>2, <1>3, OwingGrows
  <1>5. ASSUME u \in Users
        PROVE  Owing(next) = [Owing(daily) EXCEPT ![u] = [requests |-> @.requests + 1,
                                                          cost |-> @.cost + cost]]
    BY <1>4, <1>5 DEF Owing
  <1>6. ASSUME u \notin Users
        PROVE  Owing(next) = Owing(daily)
    BY <1>4, <1>6 DEF Owing
  <1> QED BY <1>5, <1>6 DEF next, cost

-----------------------------------------------------------------------------
(***************************************************************************)
(* The steps of Gate, seen through the map.                                *)
(***************************************************************************)

\* A step that changes nothing Gate sees.
LEMMA GateStutters ==
    ASSUME Flying' = Flying, Owing(daily') = Owing(daily), UNCHANGED <<balance, peak>>
    PROVE  UNCHANGED G!vars
  BY DEF G!vars, Flying, Owing, RowsOf, Undebited

\* What a persist does to what is owed is what Gate calls settling it.
LEMMA PersistSettles ==
    ASSUME BalanceInv, NEW force, NEW counter, NEW owed \in [Keys -> Delta],
           PersistGlobal(force, counter, owed)
    PROVE  G!Settle(Owing(owed))
  <1>1. \/ daily' = owed /\ balance' = balance
        \/ daily' = NoDeltas /\ balance' = [u \in Users |-> balance[u] - Debits(owed, u)]
        \/ daily' = NoDeltas /\ balance' = balance
    <2>1. CASE ~GateOpen(force)
      BY <2>1 DEF PersistGlobal
    <2>2. CASE GateOpen(force)
      <3>1. PICK flush \in {"committed", "rolledBack", "commitFailed"} : Flush(owed, flush)
        BY <2>2 DEF PersistGlobal
      <3> QED BY <3>1 DEF Flush
    <2> QED BY <2>1, <2>2
  <1>2. \/ Owing(daily') = Owing(owed) /\ balance' = balance
        \/ /\ Owing(daily') = NothingOwing
           /\ balance' = [u \in Users |-> balance[u] - Owing(owed)[u].cost]
        \/ Owing(daily') = NothingOwing /\ balance' = balance
    <2>1. \A u \in Users : Owing(owed)[u].cost = Debits(owed, u)
      BY DEF Owing
    <2>2. [u \in Users |-> balance[u] - Debits(owed, u)]
             = [u \in Users |-> balance[u] - Owing(owed)[u].cost]
      BY <2>1
    <2> QED BY <1>1, <2>2, EmptyOwesNothing
  <1>3. /\ Owing(daily') = [u \in Users |-> [requests |-> Undebited(u)', cost |-> Debits(daily', u)]]
        /\ NothingOwing = [u \in Users |-> G!Nothing]
    BY DEF Owing, RowsOf, Undebited, NothingOwing, G!Nothing
  <1> QED BY <1>2, <1>3 DEF G!Settle

\* Settling what is pending is a flush.
LEMMA PersistFlushes ==
    ASSUME BalanceInv, NEW force, NEW counter, NEW owed \in [Keys -> Delta],
           PersistGlobal(force, counter, owed),
           Owing(owed) = Owing(daily), Flying' = Flying, peak' = peak
    PROVE  G!Flush
  <1>1. G!Settle(Owing(daily))
    BY PersistSettles
  <1>2. Owing(daily) = [u \in Users |-> [requests |-> Undebited(u), cost |-> Debits(daily, u)]]
    BY DEF Owing, RowsOf, Undebited
  <1> QED BY <1>1, <1>2 DEF G!Flush, Flying

\* A request recorded for an account with a balance is recorded in Gate.
LEMMA RecordsInGate ==
    ASSUME RelayInv, NEW r \in Requests, NEW charge \in Charges, visit[r].at = "inflight",
           visit[r].user \in Users,
           visit' = [visit EXCEPT ![r].at = "over"], peak' = peak,
           G!Settle(Owing(WithOwed(r, visit[r].user, charge)))
    PROVE  \E cost \in 0..MaxCharge : G!Record(visit[r].user, cost)
  <1> DEFINE u == visit[r].user
             cost == charge.cost + charge.classifier + CompactionOf(r)
  <1>1. cost \in 0..MaxCharge
    BY ChargeBounded
  <1>u. u \in Users
    OBVIOUS
  <1>3. visit \in Visits /\ u \in Accounts /\ BalanceInv
    BY DEF RelayInv, RelayType, Accounts
  <1>4. Owing(WithOwed(r, u, charge))
           = [Owing(daily) EXCEPT ![u] = [requests |-> @.requests + 1, cost |-> @.cost + cost]]
    BY <1>u, <1>3, RecordOwes
  <1> HIDE DEF cost
  <1>5. G!Settle(G!Charged(u, cost))
    <2>1. Owing(daily) = [v \in Users |-> [requests |-> Undebited(v), cost |-> Debits(daily, v)]]
      BY DEF Owing, RowsOf, Undebited
    <2> QED BY <1>4, <2>1 DEF G!Charged
  <1>6. \A v \in Users : IF v = u THEN InFlight(v) > 0 /\ InFlight(v)' = InFlight(v) - 1
                                   ELSE InFlight(v)' = InFlight(v)
    BY <1>3, Lands
  <1>7. Flying' = [Flying EXCEPT ![u] = @ - 1] /\ Flying[u] > 0
    BY <1>6, <1>u DEF Flying
  <1>8. G!Record(u, cost)
    BY <1>5, <1>7 DEF G!Record, Flying
  <1> QED BY <1>1, <1>8

\* A request recorded for nobody changes nothing of what the accounts owe.
LEMMA AnonymousOwesNothing ==
    ASSUME RelayInv, NEW r \in Requests, NEW charge \in Charges, visit[r].at = "inflight",
           visit[r].user \notin Users, visit' = [visit EXCEPT ![r].at = "over"]
    PROVE  /\ Owing(WithOwed(r, visit[r].user, charge)) = Owing(daily)
           /\ Flying' = Flying
  <1> DEFINE u == visit[r].user
  <1>1. visit \in Visits /\ u \in Accounts /\ u \notin Users /\ BalanceInv
    BY DEF RelayInv, RelayType, Visits
  <1>3. Owing(WithOwed(r, u, charge)) = Owing(daily)
    BY <1>1, RecordOwes
  <1>4. \A v \in Users : InFlight(v)' = InFlight(v)
    BY <1>1, Lands
  <1> QED BY <1>3, <1>4 DEF Flying

-----------------------------------------------------------------------------
(***************************************************************************)
(* The invariant of the relay.                                             *)
(***************************************************************************)

\* No request is in flight yet.
LEMMA InitRelayInv == RelayInit => RelayInv
  BY InitBalanceInv DEF RelayInit, RelayInv, RelayType, Visits, Accounts

\* A step of the relay is a step of its meter, or leaves the meter alone.
LEMMA RelayStepsMeter ==
    ASSUME RelayType, [RelayNext]_relayVars
    PROVE  [Next]_vars
  <1>1. \A r \in Requests : visit[r].user \in Accounts
    BY DEF RelayType, Visits
  <1>2. \A k \in ApiKeys, owner \in Accounts : CreateKey(k, owner) => UNCHANGED vars
    BY DEF CreateKey
  <1>3. \A k \in ApiKeys : RevokeKey(k) => UNCHANGED vars
    BY DEF RevokeKey
  <1>4. \A u \in Users : Fund(u) => Next
    BY DEF Fund, Next
  <1>5. \A u \in Users : Suspend(u) => UNCHANGED vars
    BY DEF Suspend
  <1>6. \A r \in Requests : AdmitBootstrap(r) => UNCHANGED vars
    BY DEF AdmitBootstrap, Admit
  <1>7. \A r \in Requests, k \in ApiKeys : AdmitKey(r, k) => UNCHANGED vars
    BY DEF AdmitKey, Admit
  <1>8. \A r \in Requests : (Deny(r) \/ Leave(r)) => UNCHANGED vars
    BY DEF Deny, Leave
  <1>9. \A r \in Requests : (Compacting(r) \/ Recorded(r)) => Next
    BY <1>1 DEF Compacting, Recorded, Next
  <1>10. Restart \/ Tick \/ Midnight \/ Reset \/ ResetGlobal => Next
    BY DEF Restart, Next
  <1>11. UNCHANGED relayVars => UNCHANGED vars
    BY DEF relayVars
  <1> QED BY <1>2, <1>3, <1>4, <1>5, <1>6, <1>7, <1>8, <1>9, <1>10, <1>11 DEF RelayNext

\* Every step keeps the types and the balance.
LEMMA NextRelayInv ==
    ASSUME RelayInv, [RelayNext]_relayVars
    PROVE  RelayInv'
  <1>0. BalanceInv' /\ RelayType
    BY RelayStepsMeter, NextBalanceInv DEF RelayInv
  <1>u. UNCHANGED gateVars => RelayInv'
    BY <1>0 DEF RelayInv, RelayType, gateVars
  <1>k. key' \in [ApiKeys -> [state : {"none", "active", "revoked"}, owner : Accounts]]
           /\ visit' = visit /\ peak' = peak => RelayInv'
    BY <1>0 DEF RelayInv, RelayType
  <1>v. visit' \in Visits /\ key' = key /\ peak' = peak => RelayInv'
    BY <1>0 DEF RelayInv, RelayType
  <1>o. ASSUME NEW r \in Requests, NEW at \in {"denied", "over"},
               visit' = [visit EXCEPT ![r].at = at]
        PROVE  visit' \in Visits
    BY <1>0, <1>o DEF RelayType, Visits
  <1>a. ASSUME NEW r \in Requests, NEW u \in Accounts, Admit(r, u)
        PROVE  RelayInv'
    <2>1. /\ visit' = [visit EXCEPT ![r] = [at |-> "inflight", user |-> u]]
          /\ peak' = [v \in Users |-> IF v = u THEN Max({peak[v], InFlight(v) + 1 + Undebited(v)})
                                               ELSE peak[v]]
          /\ key' = key
      BY <1>a DEF Admit
    <2>2. visit' \in Visits
      BY <1>0, <2>1 DEF RelayType, Visits
    <2>3. ASSUME NEW v \in Users
          PROVE  peak[v] \in Nat /\ Max({peak[v], InFlight(v) + 1 + Undebited(v)}) \in Nat
      <3>1. InFlight(v) \in Nat /\ Undebited(v) \in Nat
        <4>1. daily \in [Keys -> Delta] /\ v \in Accounts
          BY DEF RelayInv, BalanceInv, MeterInv, MeterType, Accounts
        <4>2. RowsOf(daily, v) \in Nat
          BY <4>1, RowsNat
        <4> QED BY <4>2, FlyingNat DEF RowsOf, Undebited
      <3>2. peak[v] \in Nat
        BY <1>0 DEF RelayType
      <3> DEFINE m == peak[v]
                 n == InFlight(v) + 1 + Undebited(v)
      <3>3. m \in Nat /\ n \in Nat
        BY <3>1, <3>2
      <3> HIDE DEF m, n
      <3>4. Max({m, n}) \in {m, n}
        <4>1. \E x \in {m, n} : \A y \in {m, n} : x >= y
          BY <3>3
        <4> QED BY <4>1 DEF Max
      <3>5. Max({m, n}) \in Nat
        BY <3>3, <3>4
      <3> QED BY <3>2, <3>5 DEF m, n
    <2>4. peak' \in [Users -> Nat]
      BY <2>1, <2>3
    <2> QED BY <1>0, <2>1, <2>2, <2>4 DEF RelayInv, RelayType
  <1>1. ASSUME NEW k \in ApiKeys, NEW owner \in Accounts, CreateKey(k, owner)
        PROVE  RelayInv'
    BY <1>0, <1>1, <1>k DEF CreateKey, RelayType
  <1>2. ASSUME NEW k \in ApiKeys, RevokeKey(k)
        PROVE  RelayInv'
    BY <1>0, <1>2, <1>k DEF RevokeKey, RelayType
  <1>3. ASSUME NEW u \in Users, Fund(u) \/ Suspend(u)
        PROVE  RelayInv'
    BY <1>0, <1>3, <1>k DEF Fund, Suspend, RelayType
  <1>4. ASSUME NEW r \in Requests, AdmitBootstrap(r)
        PROVE  RelayInv'
    BY <1>4, <1>a DEF AdmitBootstrap, Accounts
  <1>5. ASSUME NEW r \in Requests, NEW k \in ApiKeys, AdmitKey(r, k)
        PROVE  RelayInv'
    <2>1. key[k].owner \in Accounts
      BY <1>0 DEF RelayType
    <2> QED BY <1>5, <1>a, <2>1 DEF AdmitKey
  <1>6. ASSUME NEW r \in Requests, Deny(r) \/ Leave(r) \/ Recorded(r)
        PROVE  RelayInv'
    BY <1>6, <1>o, <1>v DEF Deny, Leave, Recorded
  <1>7. ASSUME NEW r \in Requests, Compacting(r)
        PROVE  RelayInv'
    BY <1>7, <1>u DEF Compacting
  <1>8. CASE Restart
    <2>1. visit' \in Visits
      BY <1>0, <1>8 DEF Restart, RelayType, Visits
    <2> QED BY <1>8, <1>v, <2>1 DEF Restart
  <1>9. CASE (Tick \/ Midnight \/ Reset \/ ResetGlobal) /\ UNCHANGED gateVars
    BY <1>9, <1>u
  <1>10. CASE UNCHANGED relayVars
    BY <1>10, <1>u DEF relayVars
  <1> QED BY <1>1, <1>2, <1>3, <1>4, <1>5, <1>6, <1>7, <1>8, <1>9, <1>10 DEF RelayNext

-----------------------------------------------------------------------------
(***************************************************************************)
(* The refinement.                                                         *)
(***************************************************************************)

\* The initial states are mapped to those of Gate.
LEMMA RelayInitsGate == RelayInit => G!Init
  <1> SUFFICES ASSUME RelayInit PROVE G!Init
    OBVIOUS
  <1>1. \A u \in Users : InFlight(u) = 0
    <2>1. \A u \in Users : {r \in Requests : visit[r].at = "inflight" /\ visit[r].user = u} = {}
      BY DEF RelayInit
    <2> QED BY <2>1, FS_EmptySet DEF InFlight
  <1>2. Owing(daily) = NothingOwing
    BY EmptyOwesNothing DEF RelayInit, Init
  <1>3. Owing(daily) = [u \in Users |-> [requests |-> Undebited(u), cost |-> Debits(daily, u)]]
    BY DEF Owing, RowsOf, Undebited
  <1> QED BY <1>1, <1>2, <1>3 DEF RelayInit, Init, G!Init, G!Nothing, NothingOwing

\* With enforcement on, a step of the relay is a step of Gate or a stutter.
LEMMA RelayStepsGate ==
    ASSUME Enforced = TRUE, RelayInv, [RelayNext]_relayVars
    PROVE  [G!Next]_(G!vars)
  <1>0. /\ BalanceInv /\ RelayType
        /\ balance \in [Users -> Int] /\ daily \in [Keys -> Delta] /\ visit \in Visits
        /\ global \in Counter /\ TopUpAmount \in Nat /\ Anonymous \notin Users
    BY MeterNoneAssumption, BoundsAssumption
       DEF RelayInv, RelayType, BalanceInv, MeterInv, MeterType
  <1>s. ASSUME UNCHANGED <<visit, daily, balance, peak>>
        PROVE  UNCHANGED G!vars
    <2>1. Flying' = Flying
      BY <1>s DEF Flying, InFlight
    <2> QED BY <1>s, <2>1, GateStutters
  <1>1. ASSUME NEW k \in ApiKeys, NEW owner \in Accounts, CreateKey(k, owner)
        PROVE  UNCHANGED G!vars
    BY <1>1, <1>s DEF CreateKey, vars
  <1>2. ASSUME NEW k \in ApiKeys, RevokeKey(k)
        PROVE  UNCHANGED G!vars
    BY <1>2, <1>s DEF RevokeKey, vars
  <1>3. ASSUME NEW u \in Users, Suspend(u)
        PROVE  UNCHANGED G!vars
    BY <1>3, <1>s DEF Suspend, vars
  <1>4. ASSUME NEW u \in Users, Fund(u)
        PROVE  [G!Next]_(G!vars)
    <2>1. /\ balance' = [balance EXCEPT ![u] = @ + TopUpAmount]
          /\ UNCHANGED <<visit, daily, peak>>
      BY <1>4 DEF Fund, TopUp
    <2>2. CASE TopUpAmount = 0
      <3>1. balance' = balance
        BY <1>0, <2>1, <2>2
      <3> QED BY <1>s, <2>1, <3>1
    <2>3. CASE TopUpAmount > 0
      <3>1. /\ balance' \in [Users -> Int] /\ balance'[u] > balance[u]
            /\ \A v \in Users \ {u} : balance'[v] = balance[v]
        BY <1>0, <2>1, <2>3
      <3>2. Flying' = Flying /\ Owing(daily') = Owing(daily)
        BY <2>1 DEF Flying, InFlight
      <3>3. G!Credit(u)
        BY <2>1, <3>1, <3>2 DEF G!Credit, Flying, Owing, RowsOf, Undebited
      <3> QED BY <3>3 DEF G!Next
    <2> QED BY <1>0, <2>2, <2>3
  <1>5. ASSUME NEW r \in Requests, AdmitBootstrap(r)
        PROVE  UNCHANGED G!vars
    <2>1. /\ visit[r].at = "idle"
          /\ visit' = [visit EXCEPT ![r] = [at |-> "inflight", user |-> Anonymous]]
          /\ peak' = [v \in Users |-> IF v = Anonymous
                                      THEN Max({peak[v], InFlight(v) + 1 + Undebited(v)})
                                      ELSE peak[v]]
          /\ UNCHANGED <<daily, balance>>
      BY <1>5 DEF AdmitBootstrap, Admit, vars
    <2>2. peak' = peak
      BY <1>0, <2>1 DEF RelayType
    <2>3. Anonymous \in Accounts
      BY DEF Accounts
    <2>4. \A v \in Users : InFlight(v)' = InFlight(v)
      BY <1>0, <2>1, <2>3, TakesOff
    <2>5. Flying' = Flying
      BY <2>4 DEF Flying
    <2> QED BY <2>1, <2>2, <2>5, GateStutters
  <1>6. ASSUME NEW r \in Requests, NEW k \in ApiKeys, AdmitKey(r, k)
        PROVE  G!Next
    <2> DEFINE u == key[k].owner
    <2>1. u \in Users /\ balance[u] > -Grace
      BY <1>0, <1>6 DEF AdmitKey, PlanAllows, Solvent, RelayType, Accounts
    <2>2. /\ visit[r].at = "idle"
          /\ visit' = [visit EXCEPT ![r] = [at |-> "inflight", user |-> u]]
          /\ peak' = [v \in Users |-> IF v = u THEN Max({peak[v], InFlight(v) + 1 + Undebited(v)})
                                               ELSE peak[v]]
          /\ UNCHANGED <<daily, balance>>
      BY <1>6 DEF AdmitKey, Admit, vars
    <2>3. u \in Accounts
      BY <2>1 DEF Accounts
    <2>4. \A v \in Users : InFlight(v)' = IF v = u THEN InFlight(v) + 1 ELSE InFlight(v)
      BY <1>0, <2>2, <2>3, TakesOff
    <2>5. Flying' = [Flying EXCEPT ![u] = @ + 1]
      BY <2>1, <2>4 DEF Flying
    <2>6. Max({peak[u], InFlight(u) + 1 + Undebited(u)})
             = G!Larger(peak[u], InFlight(u) + 1 + Undebited(u))
      <3> DEFINE m == peak[u]
                 n == InFlight(u) + 1 + Undebited(u)
      <3>1. RowsOf(daily, u) \in Nat
        BY <1>0, <2>3, RowsNat
      <3>2. Undebited(u) \in Nat
        BY <3>1 DEF RowsOf, Undebited
      <3>3. m \in Nat /\ n \in Nat
        BY <1>0, <2>1, <3>2, FlyingNat DEF RelayType
      <3> HIDE DEF m, n
      <3>4. /\ Max({m, n}) \in {m, n}
            /\ \A y \in {m, n} : Max({m, n}) >= y
        <4>1. \E x \in {m, n} : \A y \in {m, n} : x >= y
          BY <3>3
        <4> QED BY <4>1 DEF Max
      <3>5. Max({m, n}) = IF m >= n THEN m ELSE n
        BY <3>3, <3>4
      <3> QED BY <3>5 DEF m, n, G!Larger
    <2>7. peak' = [peak EXCEPT ![u] = G!Larger(@, InFlight(u) + 1 + Undebited(u))]
      BY <1>0, <2>1, <2>2, <2>6 DEF RelayType
    <2>8. G!Stake(u) = InFlight(u) + 1 + Undebited(u)
      BY <2>1 DEF G!Stake
    <2>9. Owing(daily') = Owing(daily)
      BY <2>2
    <2>10. G!Admit(u)
      BY <2>1, <2>2, <2>5, <2>7, <2>8, <2>9
         DEF G!Admit, Flying, Owing, RowsOf, Undebited
    <2> QED BY <2>1, <2>10 DEF G!Next
  <1>7. ASSUME NEW r \in Requests, Deny(r)
        PROVE  UNCHANGED G!vars
    <2>1. /\ visit[r].at = "idle" /\ visit' = [visit EXCEPT ![r].at = "denied"]
          /\ UNCHANGED <<daily, balance, peak>>
      BY <1>7 DEF Deny, vars
    <2>2. \A u \in Users :
             {q \in Requests : visit'[q].at = "inflight" /\ visit'[q].user = u}
               = {q \in Requests : visit[q].at = "inflight" /\ visit[q].user = u}
      BY <1>0, <2>1 DEF Visits
    <2>3. Flying' = Flying
      BY <2>2 DEF Flying, InFlight
    <2> QED BY <2>1, <2>3, GateStutters
  <1>8. ASSUME NEW r \in Requests, Leave(r)
        PROVE  [G!Next]_(G!vars)
    <2> DEFINE u == visit[r].user
    <2>1. /\ visit[r].at = "inflight" /\ visit' = [visit EXCEPT ![r].at = "over"]
          /\ UNCHANGED <<daily, balance, peak>>
      BY <1>8 DEF Leave, vars
    <2>2. \A v \in Users : IF v = u THEN InFlight(v) > 0 /\ InFlight(v)' = InFlight(v) - 1
                                     ELSE InFlight(v)' = InFlight(v)
      BY <1>0, <2>1, Lands
    <2>3. CASE u \in Users
      <3>1. Flying' = [Flying EXCEPT ![u] = @ - 1] /\ Flying[u] > 0
        BY <2>2, <2>3 DEF Flying
      <3>2. Owing(daily') = Owing(daily)
        BY <2>1
      <3>3. G!Leave(u)
        BY <2>1, <3>1, <3>2 DEF G!Leave, Flying, Owing, RowsOf, Undebited
      <3> QED BY <2>3, <3>3 DEF G!Next
    <2>4. CASE u \notin Users
      <3>1. Flying' = Flying
        BY <2>2, <2>4 DEF Flying
      <3> QED BY <2>1, <3>1, GateStutters
    <2> QED BY <2>3, <2>4
  <1>9. ASSUME NEW r \in Requests, Compacting(r)
        PROVE  G!Next
    <2>1. /\ PersistGlobal(FALSE, [global EXCEPT !.compactions = @ + 1], daily)
          /\ UNCHANGED <<visit, peak>>
      BY <1>9 DEF Compacting, RecordCompaction, gateVars
    <2>2. Flying' = Flying
      BY <2>1 DEF Flying, InFlight
    <2>3. G!Flush
      BY <1>0, <2>1, <2>2, PersistFlushes
    <2> QED BY <2>3 DEF G!Next
  <1>10. ASSUME NEW r \in Requests, Recorded(r)
         PROVE  [G!Next]_(G!vars)
    <2> DEFINE u == visit[r].user
    <2>1. /\ visit[r].at = "inflight" /\ visit' = [visit EXCEPT ![r].at = "over"]
          /\ peak' = peak
      BY <1>10 DEF Recorded
    <2>2. PICK charge \in Charges : Record(r, u, charge) \/ RecordThrows(r, u, charge)
      BY <1>10 DEF Recorded
    <2>3. u \in Accounts
      BY <1>0 DEF Visits
    <2>4. WithOwed(r, u, charge) \in [Keys -> Delta]
      BY <1>0, <2>2, <2>3, AccumulateKeeps DEF Record, RecordThrows, BalanceInv
    <2>5. G!Settle(Owing(WithOwed(r, u, charge)))
      <3>1. CASE Record(r, u, charge)
        BY <1>0, <2>4, <3>1, PersistSettles DEF Record
      <3>2. CASE RecordThrows(r, u, charge)
        <4>1. daily' = WithOwed(r, u, charge) /\ balance' = balance
          BY <3>2 DEF RecordThrows
        <4>2. Owing(daily') = [v \in Users |-> [requests |-> Undebited(v)', cost |-> Debits(daily', v)]]
          BY DEF Owing, RowsOf, Undebited
        <4> QED BY <4>1, <4>2 DEF G!Settle
      <3> QED BY <2>2, <3>1, <3>2
    <2>6. CASE u \in Users
      <3>1. \E cost \in 0..MaxCharge : G!Record(u, cost)
        BY <2>1, <2>5, <2>6, RecordsInGate
      <3> QED BY <2>6, <3>1 DEF G!Next
    <2>7. CASE u \notin Users
      <3>1. Owing(WithOwed(r, u, charge)) = Owing(daily) /\ Flying' = Flying
        BY <2>1, <2>7, AnonymousOwesNothing
      <3>2. Owing(daily) = [v \in Users |-> [requests |-> Undebited(v), cost |-> Debits(daily, v)]]
        BY DEF Owing, RowsOf, Undebited
      <3>3. G!Flush
        BY <2>1, <2>5, <3>1, <3>2 DEF G!Flush, Flying
      <3> QED BY <3>3 DEF G!Next
    <2> QED BY <2>6, <2>7
  <1>11. CASE Restart
    <2>1. /\ daily' = NoDeltas /\ UNCHANGED <<balance, peak>>
          /\ visit' = [r \in Requests |-> IF visit[r].at = "inflight"
                                          THEN [visit[r] EXCEPT !.at = "over"] ELSE visit[r]]
      BY <1>11 DEF Restart, Crash
    <2>2. \A u : {q \in Requests : visit'[q].at = "inflight" /\ visit'[q].user = u} = {}
      BY <1>0, <2>1 DEF Visits
    <2>3. Flying' = [u \in Users |-> 0]
      BY <2>2, FS_EmptySet DEF Flying, InFlight
    <2>4. Owing(daily') = NothingOwing
      BY <2>1, EmptyOwesNothing
    <2>5. G!Crash
      BY <2>1, <2>3, <2>4
         DEF G!Crash, G!Nothing, Flying, Owing, NothingOwing, RowsOf, Undebited
    <2> QED BY <2>5 DEF G!Next
  <1>12. CASE (Tick \/ Midnight \/ Reset) /\ UNCHANGED gateVars
    BY <1>12, <1>s DEF Tick, Midnight, Reset, gateVars
  <1>13. CASE ResetGlobal /\ UNCHANGED gateVars
    <2>1. PersistGlobal(TRUE, EmptyCounter, daily) /\ UNCHANGED <<visit, peak>>
      BY <1>13 DEF ResetGlobal, gateVars
    <2>2. Flying' = Flying
      BY <2>1 DEF Flying, InFlight
    <2>3. G!Flush
      BY <1>0, <2>1, <2>2, PersistFlushes
    <2> QED BY <2>3 DEF G!Next
  <1>14. CASE UNCHANGED relayVars
    BY <1>14, <1>s DEF relayVars, vars, gateVars
  <1> QED BY <1>1, <1>2, <1>3, <1>4, <1>5, <1>6, <1>7, <1>8, <1>9, <1>10, <1>11, <1>12, <1>13, <1>14
          DEF RelayNext

\* For any accounts, keys, charges, days and grace: with enforcement on, the
\* keys, the two gates and the meter do to the balances what module Gate says,
\* one of its steps or none at a time, through every flush, fault and crash.
THEOREM RelayImplementsGate ==
    ASSUME Enforced = TRUE
    PROVE  RelaySpec => ImplementsGate
  <1>1. RelayInv /\ [RelayNext]_relayVars => RelayInv'
    BY NextRelayInv
  <1>2. RelayInv /\ [RelayNext]_relayVars => [G!Next]_(G!vars)
    BY RelayStepsGate
  <1> QED BY <1>1, <1>2, InitRelayInv, RelayInitsGate, PTL
          DEF RelaySpec, ImplementsGate, G!Spec

\* So the relay inherits what is proved of Gate: a balance overshoots the
\* grace by no more than the requests that were once undebited together can
\* cost, although the gate reads a balance that lacks them (plans.js:22).
THEOREM RelayOverdraft ==
    ASSUME Enforced = TRUE
    PROVE  RelaySpec => []OverdraftBounded
  <1>1. Grace \in Nat \ {0} /\ MaxCharge \in Nat
    BY RelayAssumption, ChargeBounded
  <1>2. GP!Spec => []GP!OverdraftBounded
    BY <1>1, GP!Overdraft
  <1>3. RelaySpec => ImplementsGate
    BY RelayImplementsGate
  <1>4. ImplementsGate => GP!Spec
    <2>1. G!Init => GP!Init
      BY DEF G!Init, GP!Init, G!Nothing, GP!Nothing
    <2>2. [G!Next]_(G!vars) => [GP!Next]_(GP!vars)
      BY DEF G!vars, GP!vars, G!Next, GP!Next, G!Credit, GP!Credit, G!Admit, GP!Admit,
             G!Larger, GP!Larger, G!Stake, GP!Stake, G!Leave, GP!Leave,
             G!Record, GP!Record, G!Charged, GP!Charged, G!Settle, GP!Settle,
             G!Flush, GP!Flush, G!Crash, GP!Crash, G!Nothing, GP!Nothing
    <2> QED BY <2>1, <2>2, PTL DEF ImplementsGate, G!Spec, GP!Spec
  <1>5. OverdraftBounded <=> GP!OverdraftBounded
    BY DEF OverdraftBounded, G!OverdraftBounded, GP!OverdraftBounded
  <1> QED BY <1>2, <1>3, <1>4, <1>5, PTL
=============================================================================

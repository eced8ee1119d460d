------------------------------ MODULE Metering ------------------------------
(***************************************************************************)
(* The meter of the relay (lib/metrics.js): what a served request costs is *)
(* added in memory to a pending delta of its account and day, and is moved *)
(* to usage_daily, with a debit of the prepaid balance, in one transaction *)
(* that rides on later traffic once the 30 second gate has opened.  The    *)
(* operator's all-time counter rides the same gate to a JSON file.         *)
(*                                                                         *)
(* Left out: tokens, baselines, cache savings and every other figure that  *)
(* is only displayed, and the rows of request_events (their INSERT is kept *)
(* as a statement that may throw half-way through record).                 *)
(***************************************************************************)
EXTENDS Integers, FiniteSets, FiniteSetsExt

CONSTANTS
    Users,          \* accounts with a users row, hence a balance
    Anonymous,      \* the account of unattributed (bootstrap) traffic
    Requests,       \* requests served by the relay; bounds the traffic
    Charges,        \* what a request may have cost, compaction apart
    CompactionCost, \* what a summary costs
    TopUpAmount,    \* what one top-up credits
    MaxTopUps,      \* bound: top-ups per account
    Gate,           \* PERSIST_GATE_MS, in ticks of the clock
    LastDay,        \* bound: calendar days are 0..LastDay
    MaxDemos,       \* bound: simulated requests of a session
    MaxFaults,      \* bound: failing writes and statements, together
    MaxCrashes,     \* bound: crashes of the process
    None

Accounts == Users \cup {Anonymous}
Days == 0..LastDay
Keys == Accounts \X Days

\* The columns of usage_daily a balance or a total is computed from.
Columns == {"requests", "cost", "classifier", "compaction"}
Delta == [Columns -> Nat]
Counter == [requests : Nat, compactions : Nat]

ASSUME MeterNoneAssumption == None \notin Counter /\ Anonymous \notin Users
ASSUME FiniteAssumption == IsFiniteSet(Users) /\ IsFiniteSet(Requests)
ASSUME ChargesAssumption == Charges \subseteq [cost : Nat, classifier : Nat]
ASSUME BoundsAssumption ==
    {CompactionCost, TopUpAmount, MaxTopUps, Gate, LastDay,
     MaxDemos, MaxFaults, MaxCrashes} \subseteq Nat

VARIABLES
    day,        \* the calendar day of new Date()
    since,      \* ticks since lastPersistAt, saturated at Gate
    session,    \* this.counts: requests of the session, and the demo ones
    global,     \* this.global, the all-time counter in memory
    file,       \* data/usage-stats.json; None is missing or unreadable
    daily,      \* this.daily: the pending deltas
    usage,      \* usage_daily
    balance,    \* users.balance_usd, in cents
    request,    \* how far each request got
    topUps,     \* history: top-ups of each account
    recorded,   \* history: everything ever added to a pending delta
    lost,       \* history: pending deltas that vanished
    faults,
    crashes

vars == <<day, since, session, global, file, daily, usage, balance, request,
          topUps, recorded, lost, faults, crashes>>

Zero == [c \in Columns |-> 0]
NoDeltas == [k \in Keys |-> Zero]
Plus(x, y) == [c \in Columns |-> x[c] + y[c]]
\* The pointwise sum of two tables of deltas.
Merge(s, t) == [k \in Keys |-> Plus(s[k], t[k])]

EmptyCounter == [requests |-> 0, compactions |-> 0]
NewSession == [requests |-> 0, demo |-> 0]
Unserved == [at |-> "new", user |-> None]
Done == [at |-> "done", user |-> None]

MeterType ==
    /\ day \in Days
    /\ since \in 0..Gate
    /\ session \in [requests : Nat, demo : 0..MaxDemos]
    /\ global \in Counter
    /\ file \in Counter \cup {None}
    /\ daily \in [Keys -> Delta]
    /\ usage \in [Keys -> Delta]
    /\ request \in [Requests -> [at : {"new", "compacted", "done"}, user : Accounts \cup {None}]]
    /\ topUps \in [Users -> 0..MaxTopUps]
    /\ recorded \in [Keys -> Delta]
    /\ lost \in [Keys -> Delta]
    /\ faults \in 0..MaxFaults
    /\ crashes \in 0..MaxCrashes

TypeOK == MeterType /\ balance \in [Users -> Int]

Init ==
    /\ day = 0
    /\ since = Gate                     \* lastPersistAt starts at 0
    /\ session = NewSession
    /\ global = EmptyCounter
    /\ file = None
    /\ daily = NoDeltas
    /\ usage = NoDeltas
    /\ balance = [u \in Users |-> 0]
    /\ request = [r \in Requests |-> Unserved]
    /\ topUps = [u \in Users |-> 0]
    /\ recorded = NoDeltas
    /\ lost = NoDeltas
    /\ faults = 0
    /\ crashes = 0

(***************************************************************************)
(* The clock, and the top-ups the webhook credits between two flushes.     *)
(***************************************************************************)

Tick ==
    /\ since < Gate
    /\ since' = since + 1
    /\ UNCHANGED <<day, session, global, file, daily, usage, balance, request,
                   topUps, recorded, lost, faults, crashes>>

Midnight ==
    /\ day < LastDay
    /\ day' = day + 1
    /\ UNCHANGED <<since, session, global, file, daily, usage, balance, request,
                   topUps, recorded, lost, faults, crashes>>

TopUp(u) ==
    /\ topUps[u] < MaxTopUps
    /\ topUps' = [topUps EXCEPT ![u] = @ + 1]
    /\ balance' = [balance EXCEPT ![u] = @ + TopUpAmount]
    /\ UNCHANGED <<day, since, session, global, file, daily, usage, request,
                   recorded, lost, faults, crashes>>

(***************************************************************************)
(* _flushDaily and _persistGlobal.                                         *)
(***************************************************************************)

\* Mutant: the summarizer's spend is not debited.
DebitServedOnly(x) == x["cost"] + x["classifier"]
\* The exact sum of the billed columns.
Debit(x) == x["cost"] + x["classifier"] + x["compaction"]

Debits(table, u) == SumFunction([d \in Days |-> Debit(table[<<u, d>>])])

\* Mutant: ON CONFLICT the row is replaced, not added to.
Replaced(owed) == [k \in Keys |-> IF owed[k]["requests"] > 0 THEN owed[k] ELSE usage[k]]
\* INSERT ... ON CONFLICT DO UPDATE SET column = column + excluded.column
Upserted(owed) == Merge(usage, owed)

\* One transaction upserts every delta, debits its account and clears the
\* map.  The clear is not undone when the COMMIT fails.
Flush(owed, outcome) ==
    CASE outcome = "committed" ->
           /\ usage' = Upserted(owed)
           /\ balance' = [u \in Users |-> balance[u] - Debits(owed, u)]
           /\ daily' = NoDeltas
           /\ UNCHANGED lost
      [] outcome = "rolledBack" ->
           /\ daily' = owed
           /\ UNCHANGED <<usage, balance, lost>>
      [] outcome = "commitFailed" ->
           /\ daily' = NoDeltas
           /\ lost' = Merge(lost, owed)
           /\ UNCHANGED <<usage, balance>>

\* Mutant: the comparison with the gate is the wrong way round.
GateOpenInverted(force) == force \/ since < Gate
\* Date.now() - lastPersistAt >= PERSIST_GATE_MS
GateOpen(force) == force \/ since = Gate

FaultsOf(write, flush) ==
    (IF write = "done" THEN 0 ELSE 1) + (IF flush = "committed" THEN 0 ELSE 1)

\* _persistGlobal(force), with the counter and the deltas as the caller left
\* them.  A failed write (writeFileSync truncates the file first, so the
\* contents may be gone) leaves lastPersistAt alone and does not stop the flush.
PersistGlobal(force, counter, owed) ==
    /\ global' = counter
    /\ IF GateOpen(force)
       THEN \E write \in {"done", "failed", "torn"},
               flush \in {"committed", "rolledBack", "commitFailed"} :
            /\ faults' = faults + FaultsOf(write, flush)
            /\ faults' <= MaxFaults
            /\ file' = CASE write = "done" -> counter
                         [] write = "failed" -> file
                         [] write = "torn" -> None
            /\ since' = IF write = "done" THEN 0 ELSE since
            /\ Flush(owed, flush)
       ELSE /\ daily' = owed
            /\ UNCHANGED <<since, file, usage, balance, lost, faults>>

(***************************************************************************)
(* The callers.                                                            *)
(***************************************************************************)

\* recordCompaction: the operator's counters, as soon as the summary exists.
\* The account is charged when the request is recorded.
RecordCompaction(r, u) ==
    /\ request[r].at = "new"
    /\ request' = [request EXCEPT ![r] = [at |-> "compacted", user |-> u]]
    /\ PersistGlobal(FALSE, [global EXCEPT !.compactions = @ + 1], daily)
    /\ UNCHANGED <<day, session, topUps, recorded, crashes>>

\* Mutant: the summary is charged to the operator's counters only.
CompactionOfNone(r) == 0
CompactionOf(r) == IF request[r].at = "compacted" THEN CompactionCost ELSE 0

\* What record adds to the pending delta of the account and of today.
Owed(r, charge) ==
    [c \in Columns |-> CASE c = "requests"   -> 1
                         [] c = "cost"       -> charge.cost
                         [] c = "classifier" -> charge.classifier
                         [] c = "compaction" -> CompactionOf(r)]

Served(r, u) ==
    \/ request[r].at = "new"
    \/ request[r].at = "compacted" /\ request[r].user = u

Counted == [global EXCEPT !.requests = @ + 1]

\* What record does before it writes anything: the session, the counter in
\* memory (by its callers) and the pending delta.
Accumulate(r, u, charge) ==
    /\ Served(r, u)
    /\ request' = [request EXCEPT ![r] = Done]
    /\ session' = [session EXCEPT !.requests = @ + 1]
    /\ recorded' = [recorded EXCEPT ![<<u, day>>] = Plus(@, Owed(r, charge))]

WithOwed(r, u, charge) == [daily EXCEPT ![<<u, day>>] = Plus(@, Owed(r, charge))]

\* record(entry) of a request that was served, or failed everywhere.
Record(r, u, charge) ==
    /\ Accumulate(r, u, charge)
    /\ PersistGlobal(FALSE, Counted, WithOwed(r, u, charge))
    /\ UNCHANGED <<day, topUps, crashes>>

\* The INSERT into request_events throws: the delta is in, but the gate is
\* not tried.
RecordThrows(r, u, charge) ==
    /\ faults < MaxFaults
    /\ faults' = faults + 1
    /\ Accumulate(r, u, charge)
    /\ global' = Counted
    /\ daily' = WithOwed(r, u, charge)
    /\ UNCHANGED <<day, since, file, usage, balance, topUps, lost, crashes>>

\* record({ demo: true }): simulated traffic stays in the session.
RecordDemo ==
    /\ session.demo < MaxDemos
    /\ session' = [requests |-> session.requests + 1, demo |-> session.demo + 1]
    /\ UNCHANGED <<day, since, global, file, daily, usage, balance, request, topUps,
                    recorded, lost, faults, crashes>>

\* Mutant: a global reset leaves the session counting.
SessionKept == session
\* _emptyAgg(), which reset() assigns over the session aggregates.
SessionReset == NewSession

\* POST /metrics/reset; this.daily, owed to usage_daily, survives.
Reset ==
    /\ session' = SessionReset
    /\ UNCHANGED <<day, since, global, file, daily, usage, balance, request,
                   topUps, recorded, lost, faults, crashes>>

\* POST /metrics/reset?global=1
ResetGlobal ==
    /\ session' = SessionReset
    /\ PersistGlobal(TRUE, EmptyCounter, daily)
    /\ UNCHANGED <<day, request, topUps, recorded, crashes>>

\* Mutant: an unreadable file is not replaced by an empty counter.
LoadedRaw(contents) == contents
\* _loadGlobal
Loaded(contents) == IF contents = None THEN EmptyCounter ELSE contents

\* The process dies and comes back: the pending deltas and the requests in
\* flight are gone.  writeFileSync truncates before it writes, so a crash
\* inside the write, which only an open gate reaches, leaves no counter.
Crash ==
    /\ crashes < MaxCrashes
    /\ crashes' = crashes + 1
    /\ \/ UNCHANGED file
       \/ since = Gate /\ file' = None
    /\ global' = Loaded(file')
    /\ session' = NewSession
    /\ daily' = NoDeltas
    /\ lost' = Merge(lost, daily)
    /\ since' = Gate
    /\ request' = [r \in Requests |-> IF request[r].at = "compacted" THEN Done
                                      ELSE request[r]]
    /\ UNCHANGED <<day, usage, balance, topUps, recorded, faults>>

Next ==
    \/ Tick
    \/ Midnight
    \/ \E u \in Users : TopUp(u)
    \/ \E r \in Requests, u \in Accounts : RecordCompaction(r, u)
    \/ \E r \in Requests, u \in Accounts, charge \in Charges : Record(r, u, charge)
    \/ \E r \in Requests, u \in Accounts, charge \in Charges : RecordThrows(r, u, charge)
    \/ RecordDemo
    \/ Reset
    \/ ResetGlobal
    \/ Crash

Spec == Init /\ [][Next]_vars

-----------------------------------------------------------------------------
(***************************************************************************)
(* Properties.                                                             *)
(***************************************************************************)

\* Column by column, what was recorded is billed, pending or accounted for as
\* lost: a flush neither bills a delta twice (a retry after a rollback, a
\* restart in the middle of a day) nor drops one silently, and no reset
\* touches what is owed to usage_daily.
Conserved ==
    \A k \in Keys : recorded[k] = Plus(usage[k], Plus(daily[k], lost[k]))

\* A balance is exactly what was credited less what usage_daily bills, days
\* and billed columns together: "the balance can never diverge from the usage
\* it bills" (metrics.js:65), with top-ups landing between the flushes.
BalanceMatchesUsage ==
    \A u \in Users : balance[u] = topUps[u] * TopUpAmount
        - SumFunction([c \in Columns \ {"requests"} |->
                          SumFunction([d \in Days |-> usage[<<u, d>>][c]])])

\* What the summaries cost the operator is charged to the accounts: the
\* compaction spend recorded, with that of the requests still in flight or
\* cut by a crash, is at least what the all-time counter shows.
CompactionIsCharged ==
    crashes = 0 =>
        SumFunction([k \in Keys |-> recorded[k]["compaction"]])
          + CompactionCost * Cardinality({r \in Requests : request[r].at = "compacted"})
            >= CompactionCost * global.compactions

\* Demo traffic aside, the session never shows more requests than the
\* all-time counter it is displayed next to, resets and restarts included.
SessionWithinGlobal == session.requests - session.demo <= global.requests

\* At most one window of traffic is unbilled: a record that finds the gate
\* open leaves nothing pending, unless a write or a statement fails.
OneWindowPending ==
    [][recorded' # recorded /\ since = Gate /\ faults' = faults
         => daily' = NoDeltas]_vars
=============================================================================

------------------------------- MODULE Backfill -------------------------------
(***************************************************************************)
(* Handing what was recorded before accounts existed to an account: the    *)
(* migration of data/api-keys.json at boot (lib/db.js), and the commands   *)
(* claim-keys and claim-usage of db/backfill.js, which an operator runs    *)
(* beside the live proxy.  A claim reads the rows, prints them, and then   *)
(* writes in one transaction; the proxy's persist tick (lib/metrics.js)    *)
(* may come between.  A claim may stop at any time, and be run again.      *)
(***************************************************************************)
EXTENDS Integers, FiniteSetsExt

CONSTANTS
    Owners,         \* accounts that keys and usage are claimed for
    OldKeys,        \* the keys of api-keys.json
    Days,
    Claims,         \* runs of backfill.js
    MaxTicks,       \* bound: persist ticks that add usage
    Unowned         \* NULL, and 'anonymous'

ASSUME UnownedAssumption == Unowned \notin Owners
ASSUME MaxTicksAssumption == MaxTicks \in Nat
ASSUME TableAssumption == IsFiniteSet(Owners) /\ IsFiniteSet(Days)

Absent == -1
Who == Owners \cup {Unowned}

VARIABLES
    legacyFile,     \* api-keys.json is still there under its name
    keyRows,        \* the rows of api_keys
    owner,          \* user_id of each
    usage,          \* usage_daily: what is on the row of a user and a day
    ticks,          \* bound: persist ticks so far
    flushed,        \* history: all the usage that the proxy has written
    overtaken,      \* history: a claim has merged a row that was not as it had read it
    claim           \* where each claim is, for whom, and what it has read

backfillVars == <<legacyFile, keyRows, owner, usage, ticks, flushed, overtaken, claim>>

NoClaim == [at |-> "idle", for |-> Unowned, keys |-> {}, moves |-> {}, merges |-> {}, amounts |-> [d \in Days |-> Absent]]

BackfillInit ==
    /\ legacyFile = TRUE
    /\ keyRows = {} /\ owner = [k \in OldKeys |-> Unowned]
    /\ usage = [w \in Who |-> [d \in Days |-> Absent]]
    /\ ticks = 0 /\ flushed = 0 /\ overtaken = FALSE
    /\ claim = [c \in Claims |-> NoClaim]

(***************************************************************************)
(* migrateLegacyKeys, at every boot while the file is there.               *)
(***************************************************************************)

\* INSERT OR IGNORE leaves a row that is there alone.
InsertedOwner(k) == IF k \in keyRows THEN owner[k] ELSE Unowned

\* The rename may fail, or the process end before it.
MigrateKeys(renamed) ==
    /\ legacyFile
    /\ keyRows' = OldKeys
    /\ owner' = [k \in OldKeys |-> InsertedOwner(k)]
    /\ legacyFile' = ~renamed
    /\ UNCHANGED <<usage, ticks, flushed, overtaken, claim>>

(***************************************************************************)
(* The persist tick adds to the row of a user and a day.                   *)
(***************************************************************************)

Plus(a, b) == IF a = Absent THEN b ELSE a + b

Tick(w, d) ==
    /\ ticks < MaxTicks
    /\ ticks' = ticks + 1
    /\ usage' = [usage EXCEPT ![w][d] = Plus(@, 1)]
    /\ flushed' = flushed + 1
    /\ UNCHANGED <<legacyFile, keyRows, owner, overtaken, claim>>

(***************************************************************************)
(* backfill.js                                                             *)
(***************************************************************************)

KeepRest == UNCHANGED <<legacyFile, ticks, flushed>>

\* claim-keys: the keys listed that have no owner.
ReadKeys(c, w, keys) ==
    /\ claim[c].at = "idle"
    /\ keys \subseteq keyRows /\ \A k \in keys : owner[k] = Unowned
    /\ keys # {}
    /\ claim' = [claim EXCEPT ![c] = [NoClaim EXCEPT !.at = "keys", !.for = w, !.keys = keys]]
    /\ UNCHANGED <<keyRows, owner, usage, overtaken>> /\ KeepRest

\* Mutant: UPDATE ... WHERE id = ?, without AND user_id IS NULL.
TakenAnyway(c) == claim[c].keys
\* Of the keys read, those that still have no owner.
Taken(c) == {k \in claim[c].keys : owner[k] = Unowned}

ClaimKeys(c) ==
    /\ claim[c].at = "keys"
    /\ owner' = [k \in OldKeys |-> IF k \in Taken(c) THEN claim[c].for ELSE owner[k]]
    /\ claim' = [claim EXCEPT ![c] = NoClaim]
    /\ UNCHANGED <<keyRows, usage, overtaken>> /\ KeepRest

\* claim-usage: the anonymous days, of which those that the account has too
\* are merged, or skipped without --merge.
ReadUsage(c, w, days, merge) ==
    LET rows == {d \in days : usage[Unowned][d] # Absent}
        there == {d \in rows : usage[w][d] # Absent} IN
    /\ claim[c].at = "idle"
    /\ rows # {}
    /\ claim' = [claim EXCEPT ![c] =
          [NoClaim EXCEPT !.at = "usage", !.for = w, !.moves = rows \ there,
                          !.merges = IF merge THEN there ELSE {}, !.amounts = usage[Unowned]]]
    /\ UNCHANGED <<keyRows, owner, usage, overtaken>> /\ KeepRest

\* The amounts that were read are added, whatever the row holds by now.
SumOnRow(c, w, d) == usage[w][d] + claim[c].amounts[d]

\* Moving a row onto one that has appeared violates the key, and rolls the
\* whole transaction back.
Collides(c) ==
    \E d \in claim[c].moves : usage[Unowned][d] # Absent /\ usage[claim[c].for][d] # Absent

\* Mutant: a merged row is not deleted.
KeptMerged(c) == {}
\* What leaves the anonymous rows.
Leaving(c) == claim[c].merges \cup claim[c].moves

ClaimUsage(c) ==
    LET w == claim[c].for IN
    /\ claim[c].at = "usage"
    /\ ~Collides(c)
    /\ usage' = [usage EXCEPT
          ![w] = [d \in Days |->
                    IF d \in claim[c].merges THEN SumOnRow(c, w, d)
                    ELSE IF d \in claim[c].moves /\ usage[Unowned][d] # Absent THEN usage[Unowned][d]
                    ELSE usage[w][d]],
          ![Unowned] = [d \in Days |-> IF d \in Leaving(c) THEN Absent ELSE usage[Unowned][d]]]
    /\ claim' = [claim EXCEPT ![c] = NoClaim]
    /\ overtaken' = (overtaken \/ \E d \in claim[c].merges : usage[Unowned][d] # claim[c].amounts[d])
    /\ UNCHANGED <<keyRows, owner>> /\ KeepRest

\* A dry run, a crash before the commit, or a transaction rolled back.
Stops(c) ==
    /\ claim[c].at # "idle"
    /\ claim' = [claim EXCEPT ![c] = NoClaim]
    /\ UNCHANGED <<keyRows, owner, usage, overtaken>> /\ KeepRest

BackfillNext ==
    \/ \E renamed \in BOOLEAN : MigrateKeys(renamed)
    \/ \E w \in Who, d \in Days : Tick(w, d)
    \/ \E c \in Claims, w \in Owners :
          \/ \E keys \in SUBSET OldKeys : ReadKeys(c, w, keys)
          \/ \E days \in SUBSET Days, merge \in BOOLEAN : ReadUsage(c, w, days, merge)
    \/ \E c \in Claims : ClaimKeys(c) \/ ClaimUsage(c) \/ Stops(c)

BackfillSpec == BackfillInit /\ [][BackfillNext]_backfillVars
-----------------------------------------------------------------------------
(***************************************************************************)
(* Properties.                                                             *)
(***************************************************************************)

Amount(w, d) == IF usage[w][d] = Absent THEN 0 ELSE usage[w][d]
OnRows == SumFunction([row \in Who \X Days |-> Amount(row[1], row[2])])

\* A key that has an owner keeps it, whatever claims and migrations meet: "a
\* key that already belongs to someone else is never silently reassigned"
\* (line 14).
OwnerIsKept == [][\A k \in OldKeys : owner[k] # Unowned => owner'[k] = owner[k]]_backfillVars

\* However often claims are run, meet the persist tick, collide, stop half-way
\* or are run again, usage only changes hands, as long as a row that a claim
\* merges is still as it was read.
ClaimsConserveUsage == ~overtaken => OnRows = flushed
===============================================================================

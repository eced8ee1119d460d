-------------------------------- MODULE Relay --------------------------------
(***************************************************************************)
(* Admission composed with the meter: the API keys (lib/api-keys.js), the  *)
(* two gates of the /v1 routes (requireApiKey and requireActivePlan of     *)
(* index.js, on lib/plans.js) and, between them and the balance they read, *)
(* the meter of module Metering.  A request is admitted in one synchronous *)
(* step, is in flight across any number of others, and reaches the meter   *)
(* under the account of the key it came with, whatever became of that key. *)
(***************************************************************************)
EXTENDS Metering

CONSTANTS
    ApiKeys,        \* keys that may be created; a raw key stands for its row
    Enforced,       \* PLAN_ENFORCEMENT = "1"
    Grace           \* plans.GRACE_USD

ASSUME RelayAssumption == Enforced \in BOOLEAN /\ Grace \in Nat \ {0}
\* What one request may cost is bounded.
ASSUME BoundedChargeAssumption == IsFiniteSet(Charges) /\ Charges # {}

VARIABLES
    key,            \* api_keys: the owner of each row, and whether it is active
    status,         \* users.status
    visit,          \* each request: not yet come, turned away, in flight, over
    peak            \* history: the most requests undebited at an admission

gateVars == <<key, status, visit, peak>>
relayVars == <<vars, gateVars>>

\* create-user.js makes active accounts, the open signup pending ones.
RelayInit ==
    /\ Init
    /\ key = [k \in ApiKeys |-> [state |-> "none", owner |-> Anonymous]]
    /\ status \in [Users -> {"pending", "active"}]
    /\ visit = [r \in Requests |-> [at |-> "idle", user |-> Anonymous]]
    /\ peak = [u \in Users |-> 0]

(***************************************************************************)
(* Keys and accounts.                                                      *)
(***************************************************************************)

\* createKey: an operator's key may belong to nobody.
CreateKey(k, owner) ==
    /\ key[k].state = "none"
    /\ key' = [key EXCEPT ![k] = [state |-> "active", owner |-> owner]]
    /\ UNCHANGED <<vars, status, visit, peak>>

\* revokeKey, revokeKeyForUser
RevokeKey(k) ==
    /\ key[k].state = "active"
    /\ key' = [key EXCEPT ![k].state = "revoked"]
    /\ UNCHANGED <<vars, status, visit, peak>>

\* creditUser: the balance, and the status unless it is 'suspended'.
Fund(u) ==
    /\ TopUp(u)
    /\ status' = [status EXCEPT ![u] = IF @ = "suspended" THEN @ ELSE "active"]
    /\ UNCHANGED <<key, visit, peak>>

Suspend(u) ==
    /\ status[u] # "suspended"
    /\ status' = [status EXCEPT ![u] = "suspended"]
    /\ UNCHANGED <<vars, key, visit, peak>>

(***************************************************************************)
(* A request.                                                              *)
(***************************************************************************)

\* apiKeys.count() === 0
Bootstrap == \A k \in ApiKeys : key[k].state # "active"

\* Mutant: the gate stops at a balance below -GRACE_USD, not at it.
SolventOffByOne(u) == balance[u] >= -Grace
Solvent(u) == balance[u] > -Grace

\* Mutant: the status is checked, the balance is not.
PlanByStatus(u) == Enforced => u # Anonymous /\ status[u] = "active"
\* requireActivePlan for the account of the key.
PlanAllows(u) ==
    Enforced => u # Anonymous /\ status[u] = "active" /\ Solvent(u)

InFlight(u) == Cardinality({r \in Requests : visit[r].at = "inflight" /\ visit[r].user = u})
Undebited(u) == SumFunction([d \in Days |-> daily[<<u, d>>]["requests"]])

\* Both middlewares run in one synchronous step.  Nothing is asked of
\* unauthenticated traffic while there is no active key.
Admit(r, u) ==
    /\ visit[r].at = "idle"
    /\ visit' = [visit EXCEPT ![r] = [at |-> "inflight", user |-> u]]
    /\ peak' = [v \in Users |-> IF v = u THEN Max({peak[v], InFlight(v) + 1 + Undebited(v)})
                                         ELSE peak[v]]
    /\ UNCHANGED <<vars, key, status>>

AdmitBootstrap(r) == Bootstrap /\ Admit(r, Anonymous)

AdmitKey(r, k) ==
    /\ key[k].state = "active"
    /\ PlanAllows(key[k].owner)
    /\ Admit(r, key[k].owner)

\* 401 without an active key, 402 or 403 by the plan.
Deny(r) ==
    /\ visit[r].at = "idle"
    /\ ~Bootstrap
    /\ visit' = [visit EXCEPT ![r].at = "denied"]
    /\ UNCHANGED <<vars, key, status, peak>>

\* A request ends without a record: the outer catch, or /v1/classify.
Leave(r) ==
    /\ visit[r].at = "inflight"
    /\ request[r].at # "compacted"
    /\ visit' = [visit EXCEPT ![r].at = "over"]
    /\ UNCHANGED <<vars, key, status, peak>>

Compacting(r) ==
    /\ visit[r].at = "inflight"
    /\ RecordCompaction(r, visit[r].user)
    /\ UNCHANGED gateVars

\* metrics.record bills req.apiKey.userId, as it was at admission.
Recorded(r) ==
    /\ visit[r].at = "inflight"
    /\ visit' = [visit EXCEPT ![r].at = "over"]
    /\ \E charge \in Charges :
          Record(r, visit[r].user, charge) \/ RecordThrows(r, visit[r].user, charge)
    /\ UNCHANGED <<key, status, peak>>

\* The keys and accounts are in the database; the requests in flight are lost.
Restart ==
    /\ Crash
    /\ visit' = [r \in Requests |-> IF visit[r].at = "inflight"
                                    THEN [visit[r] EXCEPT !.at = "over"] ELSE visit[r]]
    /\ UNCHANGED <<key, status, peak>>

RelayNext ==
    \/ \E k \in ApiKeys, owner \in Accounts : CreateKey(k, owner)
    \/ \E k \in ApiKeys : RevokeKey(k)
    \/ \E u \in Users : Fund(u)
    \/ \E u \in Users : Suspend(u)
    \/ \E r \in Requests : AdmitBootstrap(r)
    \/ \E r \in Requests, k \in ApiKeys : AdmitKey(r, k)
    \/ \E r \in Requests : Deny(r)
    \/ \E r \in Requests : Leave(r)
    \/ \E r \in Requests : Compacting(r)
    \/ \E r \in Requests : Recorded(r)
    \/ Restart
    \/ (Tick \/ Midnight \/ Reset \/ ResetGlobal) /\ UNCHANGED gateVars

RelaySpec == RelayInit /\ [][RelayNext]_relayVars
-----------------------------------------------------------------------------
(***************************************************************************)
(* Properties, for an instance with Enforced = TRUE.                       *)
(***************************************************************************)

MaxCharge == CompactionCost + Max({c.cost + c.classifier : c \in Charges})

G == INSTANCE Gate WITH
    inflight <- [u \in Users |-> InFlight(u)],
    pending <- [u \in Users |-> [requests |-> Undebited(u), cost |-> Debits(daily, u)]]

\* However keys, admissions, flushes, top-ups, suspensions and crashes
\* interleave, a balance overshoots the grace by no more than what was once
\* undebited together: "enforcement can overshoot into the grace by up to
\* ~30s of traffic" (plans.js:22).
OverdraftBounded == G!OverdraftBounded

\* Keys, gates and meter together do to the balance what module Gate says,
\* one of its steps or none at a time.
ImplementsGate == G!Spec
===============================================================================

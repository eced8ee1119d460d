# Verification of the token-mining relay

TLA+ models of the relay in this repository, their TLC configurations, and TLAPS proofs about
them. The relay is an LLM proxy: it authenticates a request, classifies it, selects a model,
serves it with a fallback chain, meters what it cost and debits a prepaid balance that a payment
webhook credits. A Next.js dashboard shares one SQLite file with it.

All paths are relative to the repository root; `index.js:1034` means `index.js` line 1034.

## 1. The system

Two processes write one SQLite file (`data/app.db`, WAL mode): the Express relay (`index.js`,
`lib/`, one Node process, synchronous SQLite) and the dashboard (`dashboard/`). Inside the relay
a handler is interrupted only at an `await`; between the processes only a transaction is atomic.
A payment provider (Dodo), LLM providers and an operator with a SQL shell are the outside world.

| Component | State | Operations | Hard behaviour | What makes it correct |
|---|---|---|---|---|
| **Payment webhook** `lib/webhooks.js`, `index.js:1151`, checkout route, signup | `users` (status, balance), `checkout_sessions`, `subscriptions`, `payment_events` | insert event, correlate, apply, mark; create checkout; open accounts, grant and reconcile by hand | redelivery, three separate commits, crash between two of them, statements that fail, two processes | an amount reaches the right balance, once; events change a status only for money; every event is answered in the end |
| **Metering** `lib/metrics.js` | session aggregates, all-time counter (+ JSON file), pending deltas, `usage_daily`, `users.balance_usd` | `record`, `recordCompaction`, gated flush, `reset`, `resetGlobal`, load | gate that only traffic opens, write that fails or is torn, midnight, crash with pending deltas | every delta is billed once or accounted for; balance = credit - billed usage |
| **Admission gate and API keys** `index.js:95-188`, `lib/api-keys.js`, `lib/plans.js` | `api_keys`, status and balance | `createKey`, `verify`, revoke, the two middlewares | balance is stale by the pending deltas and the requests in flight; no active key means bootstrap mode | only funded, active accounts are admitted; the overshoot is bounded |
| **Serving loop** `index.js:705-1130`, `lib/tool-pruning.js`, `lib/tools-registry.js` | per request: attempts, response; per conversation: discovered tools | classify, compact, call, ToolSearch rounds, fall back, record | headers flushed before the provider answers; failure after successful rounds; awaits | one complete answer from one model; what is recorded is what was served |
| **Compaction** `lib/compaction.js`, `lib/classifier/text-utils.js` | summary per conversation family, flights | find a cut, reuse, join, summarise | concurrent requests join a flight; entries expire, are evicted and fold older ones in; the cut moves to keep calls with results | a summary tells of the messages it replaces and of no others, the recent ones first of all; one call per key; no result without its call |
| **Classifier pipeline** `lib/classifier/` | LRU cache, last usage; the taxonomy | three free signals, fusion, LLM or Jev call with time limit, fallback, routing rules | shared `lastClassifierUsage`, cached metadata, late answers; weighted votes that outvote a requirement | a request pays for its own classification; what only one signal sees is not lost |
| **Router and preferences** `lib/router.js`, `lib/prefs.js`, `lib/user-prefs.js` | disabled and excluded models | filters, widening, scoring | a filter that leaves nothing is widened | a request is degraded only as far as it must be |
| **Tool pruning and bounded stores** `lib/tool-pruning.js`, `tools-registry.js`, `reasoning-store.js` | bounded maps with expiry | prune, resolve, put, get | limits and evictions | a missing entry never makes a request invalid |
| **Provider conversion** `lib/converter.js`, `lib/providers/` | per stream: open block, tool calls, usage | convert messages; one step per chunk | order of chunks, end without finish, errors in mid-stream | the output is a well-formed block sequence and complete once finished |
| **Sessions and sign-in** `lib/auth-api.js`, `lib/auth-google.js`, `dashboard/lib/auth.ts`, `db/create-user.js` | `users`, `sessions`, failure counters | signup, login, logout, OAuth callback, command line | two servers and a command, UNIQUE races, throttle windows | one account per email; a session is of the account of who signed in |
| **Boot and backfill** `lib/db.js`, `db/backfill.js` | key file, legacy rows | migrate keys, claim keys, claim usage | interrupted and repeated commands beside the live proxy | an owned key keeps its owner; usage only changes hands |

Interactions: the gate reads the balance and the status that the webhook and the flush write; the
serving loop calls classifier, compaction, router and providers and hands its outcome to
`metrics.record`; the flush and the webhook both update `users.balance_usd`; the dashboard's
checkout and signup routes write rows the webhook reads.

Section 6 says what is not modelled, and why. `PROJECT.json` lists every component with its status.

## 2. Modules

| Module | What it is |
|---|---|
| `PaymentLedger` | abstract: an event's price reaches one balance at most once |
| `Webhook` | the webhook handler statement by statement, Dodo, the checkout route, signup, the operator |
| `WebhookProofs` | theorems about `Webhook` |
| `Metering` | the meter: records, gate, flush, counter file, faults, restarts |
| `Gate` | abstract: how far below the grace a balance can fall |
| `GateProofs` | theorem about `Gate` |
| `Relay` | API keys and both admission gates composed with `Metering`; implements `Gate` |
| `RelayProofs` | theorems about `Metering` and `Relay` |
| `Serving` | the `/v1/messages` handler from selection to record |
| `ServingProofs` | theorems about `Serving` and `Pruning` |
| `CompactionCut` | where a conversation is cut: `findCompactionCut` and the search of `maybeCompact` |
| `Compaction` | the store of summaries and the summarize calls in flight |
| `Conversion` | what is left of a conversation, converted to the OpenAI dialect |
| `CompactionProofs` | theorems about these three |
| `Classifier` | who pays for a classification: cache, calls, timers, `lastClassifierUsage` |
| `Taxonomy` | `normalize` and the routing rules, as operators |
| `Fusion` | `fuse`: the signals of several classifiers as one |
| `Pipeline` | the signals and the phases of `classify` that end in a classification |
| `Routing` | which model serves: filters, widening, preferences, plan tiers |
| `Streams` | the four writers of an Anthropic stream |
| `AnswerProofs` | theorems about `Pipeline`, `Classifier`, `Routing` and `Streams` |
| `Pruning` | the tools that stay inline under a provider's cap, and the registry of discovered tools |
| `Sessions` | accounts, sign-in and sessions of three processes |
| `Backfill` | the key migration and the claim commands beside the persist tick |
| `AccountsProofs` | theorems about `Sessions` and `Backfill` |
| `SumTheorems` | lemmas about sums over finite sets and least counterexamples, for the proofs above |
| `MCWebhook`, `MCMetering`, `MCRelay`, `MCServing`, `MCCompaction`, `MCPipeline` | instances for TLC |
| `MCComponents` | `Serving` and the modules from `CompactionCut` to `Backfill` and `Pruning`, each in turn, the others at rest |

Definitions introduced as "Mutant: ..." are plausible mistakes. No specification uses them; they
exist to show, one per property, that the property would catch the mistake.

### Webhook

| Model | Code |
|---|---|
| `account` | `users` rows: `status`, `balance_usd` in cents, `plan_expiry` as none, live or lapsed |
| `checkout` | `checkout_sessions`; `"created"` is a session that exists at Dodo and has no row yet |
| `rows` | `payment_events`: `processed`, `user_id`, the error column by class |
| `handler` | the request in the handler: which statement comes next, and its locals |
| `dodo`, `sent` | which events exist, are still retried, or hold a 200 |
| `InsertEvent`, `ApplyEvent`, `MarkEvent`, `MarkError` | the separate commits of `processEvent` |
| `InsertFails`, `StatementFails`, `MarkErrorFails`, `Crash` | a statement throws, or the process dies, between two of them |
| `CreateSession`, `InsertCheckout` | the two halves of the checkout route around its `await` |
| `OperatorSignup`, `Grant`, `Reconcile` | the operator: `db/create-user.js`, the SQL grant of DEPLOY.md:163-171, the reconciliation of DEPLOY.md:362-376; the last two run the same `SetActive` |
| `paidFor`, `credits`, `appliedTo` | history: which checkout a payment is for, how often it was credited, to whom the event was applied |
| `byHand` | history of the operator: accounts opened or funded for no payment, the cents, the payments paid again |

Handlers of two events do not interleave: `processEvent` is synchronous and the relay is one
process. The dashboard's steps may fall between any two of its commits, and so may the operator's, but for
one: `Reconcile` waits until the handler is idle, which assumes that reading a table, matching a
user and typing an UPDATE takes longer than one synchronous handler. The operator pays any
row with `processed = 0` that holds a creditable payment, to its payer (matching the user is
the operator's part), and if a failed mark has left an already credited payment among them it is
paid again, once, since it is then marked: nothing in the row tells. The UPDATE sets `'active'`
whatever the status was, where the handler's CASE keeps a suspension. Left out: deliveries
rejected with 401 or 503 (nothing changes), the text of messages, `dodo_customer_id`.

### Metering

`daily`, `usage` and `balance` are the pending map, `usage_daily` and `users.balance_usd`; a delta
carries the request count and the three columns that are debited. `since` is the time since
`lastPersistAt`, saturated at the gate. `PersistGlobal` is `_persistGlobal` with its three
outcomes of the file write and three outcomes of the transaction (committed; rolled back, deltas
kept; the COMMIT itself fails after `daily.clear()`, deltas gone). `Record`, `RecordCompaction`,
`Reset`, `ResetGlobal` call it as the code does; `RecordThrows` is the `INSERT` into
`request_events` failing between the delta and the gate. `recorded` and `lost` are history.
Left out: figures that are only displayed, the ring buffer, `snapshot`.

### Gate and Relay

`Relay` extends `Metering` with the rows of `api_keys`, the account status and, per request,
whether it is turned away, in flight or over. `AdmitBootstrap`, `AdmitKey` and `Deny` are the two
middlewares, which run in one synchronous step; `Recorded` conjoins the meter's `Record` with the
account fixed at admission; `Restart` is the meter's `Crash` seen from admission. `peak` records
the most requests of an account that were undebited (in flight or pending) at an admission.
`ImplementsGate` maps this to `Gate`: `inflight` counts requests, `pending` sums the account's
deltas over the days. A record with the flush it triggers is one step of `Gate`.

### Serving

One process per request; each `await` ends a step. `Select` and `SelectFails` stand for the
classifier and router (any model may be selected), `Compact` for compaction, `Answered`,
`Search` and `CallFails` for the three ends of a provider call, `Fallback` and `GiveUp` for the
chain. `body` is what the client has got: nothing, flushed headers (`"open"`), or one of the ends
(an answer, a ToolSearch call, a stream cut in the middle, an error). `registry` is the
`toolsRegistry` entry of the conversation the requests share; `Expire` its expiry or eviction.
Admission is in `Relay`, `/v1/classify` is not modelled.

### CompactionCut, Compaction, Conversion

A message is its role, whether it is more than tool results, the tool calls and results it
holds, and its size in tokens. `Walk`, `Repair`, `Return` are the loops of `findCompactionCut`;
`FirstCut`, `Narrow`, `Widen` the search for the number of exchanges to keep. The store of
`Compaction` is `summaries`, an entry the messages its text was made of (`covers`) and the one
message by which the code recognises a conversation (`boundary`); `inflight` is the map of that
name. `Lead` is a request up to its `await`; `Summarized` and `Fails` are the end of its call
together with the continuations of those who `Join`ed, which run before any other event.
`Rendered` is `renderDropped`: of the messages since the summary that is folded in, or of all,
the tail that `maxDroppedChars` has room for, counted in messages (`MaxDropped`) where the code
counts characters and may begin in the middle of one. What the summarizer makes of its text is
not modelled: `covers` is what it was given.
`Conversion` extends `CompactionCut`: `convertMessages` of whatever was kept, for every set of
turns whose reasoning `reasoning-store.js` still holds, which stands for expiry, eviction,
restart and a change of model. It is stated of conversations that Anthropic's API accepts
(`WellPaired`): only the assistant calls tools, and the turn after brings exactly their results.

### Classifier, Pipeline, Fusion, Taxonomy, Routing

`Classifier` keeps who pays: `lastUsage` is the field, `answer` the HTTP call, which outlives the
request when `TimesOut` comes first, `charge` the cost attached to a result, and `cached` the LRU
list with the charge an entry carries. The classification itself is any. `Pipeline` is the
other half: one request (its *evidence*: families of words, lengths, tools, images), the three
signals `RuleSignal`, `EmbeddingSignal`, `ProfileSignal`, then the phases of `classify`. How
evidence is found in a text is any; what is made of it is `signals.js`, `rules.js` and the rest,
down to thresholds, in hundredths where the code has fractions. `Taxonomy` is `normalize` and
the routing rules in their order, `Fusion` the weighted votes. `Routing` takes
what a request asks for and gives the models of which the scores choose one.

### Streams

A chunk is a step; `writer` is the locals of the writer, `client` what a client has made of the
events: how many blocks it has seen start, which are open, whether an event did not fit
(`broken`). `End` includes a last line without a newline, of which only the usage counts.

### Pruning

`Prunes` is `buildPrunedBody`: `Inline` is the set that the loop over the essential, the discovered
and the remaining tools collects, stated by rank and position. `families` is the `Map` of
`tools-registry.js`, an entry its names, whether its time is up, and which families were there
before it (`older`, for the insertion order). `Request` is
`toolsRegistry.get`, whose snapshot `FallBack` uses again for the next model; `Discover` is `record`
with the `_prune` before a new entry. `foundBy` is history, and `Serving` has the rounds themselves.

### Sessions, Backfill

Each SQL statement is a step, since the proxy, the dashboard and the commands are processes of
their own. `SignupLooks`, `GoogleLooks`, `OperatorLooks` are the lookups, `Inserts` and
`Conflicts` the two ends of the INSERT under UNIQUE. `Restart` loses a process's throttle and what
it had under way. In `Backfill` a claim reads (`ReadKeys`, `ReadUsage`), and writes in one
transaction later (`ClaimKeys`, `ClaimUsage`) or `Stops`; `Tick` is the proxy's flush.
`flushed` and `overtaken` are history variables.

## 3. Runs

| Run | What it asks | Bounds |
|---|---|---|
| `payments` | money: once, to the payer, as `PaymentLedger` says | 2 accounts, 1 of them the operator's with 1 grant, 2 sessions, 2 events, 7 payment shapes, 2 faults; events and sessions symmetric |
| `subscriptions` | status: only for funds or by hand, never resurrected by the handler; every event is answered 200 in the end | 2 accounts, 1 of them opened by the operator, 1 session, 1 subscription, 2 events, 7 notices, 1 fault; `FairSpec` |
| `lostcredit` | *violated*: a payment Dodo holds a 200 for was credited | 1 account, 1 event, 1 fault |
| `meter` | conservation of deltas, balance against usage, scopes, one window | 1 account and anonymous traffic, 2 requests, 2 days, 1 top-up, 1 demo, 2 faults, 2 crashes |
| `gate` | overdraft; `Relay` implements `Gate` | 1 account, 1 key (also unlinked), 2 requests, 1 top-up, 1 fault, 1 crash |
| `fallback` | one answer from one model, recorded as served | 2 requests of one conversation, 3 models (one capped, one that takes no tools), a chain of 2, 1 tool |
| `answers` | the components between a request and its answer, each with its own question (below) | below; `MCSpec` |
| `joined` | *violated*: what is spliced into a body as a summary is text | 2 requests of one conversation family |
| `cachehit` | *violated*: no LLM call is charged to two requests | 2 requests, 2 prompts, a cache of 1 |
| `stream` | *violated*: a failed call tries the chain | 1 request, otherwise as `fallback` |
| `inline` | *violated*: a discovered tool is inlined in the next round | as `stream` |
| `billing` | *violated*: every call that reported usage is billed | as `stream` |

The run `answers` checks ten components that share no state. `MCComponents` starts each from its
own initial states with the others at rest, so the states are the sum of the ten, not the
product, and every interleaving inside a component is explored.

| Component | Properties | Bounds |
|---|---|---|
| `Serving` | `EventuallyAnswered`: a request that is not streamed is answered | 1 request, otherwise as `fallback` |
| `CompactionCut`, `Conversion` | `LargestSafeCut`: a cut splits no call from its result and drops all it can; `KeptIsFitToSend`: once there is a first cut, what is kept is over the ceiling only where no safe cut down to the floor drops more; and it is a valid message list | all conversations of 7 turns, 2 tool ids, bulky results; 2 exchanges kept, between 1 and 3 |
| `Compaction` | `OneCallPerKey`; `SummaryCoversDropped`: a summary ends with what is dropped last and, where the boundary tells conversations apart, holds nothing else than what is dropped and all that a rendering has room for | 3 requests, 3 conversations that part after one message, of which 2 meet again in their third, 3 or 4 messages long, renderings of 2 messages, a store of 2 |
| `Classifier` | `UsageIsAttributed`: no usage is priced twice, and a stray one only if its request is gone; `ClassificationEnds` | 2 requests, 2 prompts, a cache of 1, mode switches at any time |
| `Pipeline` | `ImageIsSeen`, `ReviewIsHonoured`: what one signal of four knows survives the vote | 215 requests, 5 lists of examples, 4 answers |
| `Routing` | `NoBetterModelLeft` | 3 models, every set switched off or unconfigured |
| `Streams` | `StreamWellFormed`, `FinishedIsDelivered` | 4 writers, 4 chunks, 2 tool calls |
| `Pruning` | `WorkingSetFits`: a pruned list fits with its meta-tool, and what was found and not lost to age or eviction is inline before what was not | 3 tool lists, caps 2 and 3, 2 conversation families in a registry of 1 |
| `Sessions` | `OneAccountPerEmail` | 1 email, 3 attempts, a throttle of 2 |
| `Backfill` | `OwnerIsKept`, `ClaimsConserveUsage` | 2 accounts, 1 key, 1 day, 2 claims, 3 ticks |

Why the bounds are enough. Two events make a redelivery of one interleave with the other and two
payments compete for one account's open checkouts; two accounts make a wrong correlation visible,
and let one be opened and funded by hand beside one that is not;
one fault reaches every pair of commits, a second one the error path of the first, and retries
make the handler start over after it. In the
meter two requests fall on either side of a flush, a midnight, a reset or a crash; two faults and
two crashes let a failed write be followed by a failed transaction, and a torn file by another
crash; the amounts 3, 1 and 2 tell the debited columns apart, and anonymous traffic has deltas
and no balance. In `gate` the top-up (2), the charge (4, or 6 with a summary) and the grace (4)
make a balance land exactly on the limit. In `fallback` the capped model, the one that takes no
tools and the chain give every combination of pruned and unpruned, streamed and not, first and
later failure; `MaxRounds` is the code's 3.

In `answers`: seven turns are the least in which a cut moved back to keep one call brings in a
result whose call lies before another user turn. Three requests let one lead, one join and one
come after the call has ended; a store of two evicts. A rendering of two messages leaves one out
of three, which a summary folded in may still hold; the first conversation is told apart from the
others throughout, the second and third only before the message they share, where the one may
reuse the other's summary, or fold it into a longer one. Two classifications suffice for one to
find the other's usage in the field, and a cache of one is full at once. Four chunks open, close
and reopen a text block between two calls and reach the finish before or after the usage. Three
sign-ins are a winner, a loser of the race and one after both. Two claims race for one key
and one day, and three ticks come before, between and after them; a key is touched by nothing
that touches another. A registry of one family evicts at every new one; of the three tool
lists one is over both caps, one repeats a name so that its length is over a cap and its names
are not, and one has a ToolSearch of its own. In `Pipeline` the requests vary one group of evidence at a time.

Deadlock is not checked: each instance stops when its finite traffic, faults and days are used up.

### Fairness

- `Webhook!FairSpec`: weak fairness of the handler (a synchronous function runs to its end unless
  a modelled fault or crash stops it) and strong fairness of `Deliver(e)`: Dodo retries until it
  holds a 200, but the handler may be busy with redeliveries between two retries. Faults are
  bounded, so they stop.
- `Serving!FairSpec`: weak fairness of each request's handler, except while it relays a stream.
  A provider call ends because axios is given a time limit of 300 s; the summarizer and the
  classifier have their own. A relayed stream may stall for ever, hence the exception, and hence
  `EventuallyAnswered` speaks of requests that are not streamed.
- `Classifier!ClassifierFairness`: weak fairness of `TimesOut` and `JevEnds` only, because each
  call races a timer of its own (8 s and 5 s). No provider has to answer.
- `MCComponents!MCSpec` conjoins the last two.

## 4. What is proved

For all values of the constants, by TLAPS:

| Theorem | Statement |
|---|---|
| `WebhookProofs!Typing` | `Webhook!Spec => []TypeOK` |
| `WebhookProofs!CreditOnce` | no event is credited twice, but for one the operator pays again, twice at most |
| `WebhookProofs!CreditToPayer` | a payment that names its user or its checkout is credited to who opened the checkout |
| `WebhookProofs!Refinement` | `Webhook` implements `PaymentLedger`, what the operator gives for no payment set aside |
| `WebhookProofs!MarkFollowsCredit` | a row marked processed owes no credit |
| `WebhookProofs!SuspendedForGood` | `NeverResurrected`: no step of the handler brings a suspended account back |
| `WebhookProofs!EchoedReference` | an event whose payer has an account and that is left uncorrelated carried neither metadata nor session |
| `WebhookProofs!ActiveByFunds` | an account the operator did not open or fund by hand is active only if an event that activates was applied to it |
| `WebhookProofs!CompletedArePaid` | no account has more completed checkouts than events applied to it |
| `RelayProofs!MeterTyping` | `Metering!Spec => []TypeOK` |
| `RelayProofs!Conservation` | recorded = billed + pending + lost, column by column |
| `RelayProofs!BalanceIsUsage` | a balance is what was credited less the sum of what is billed |
| `RelayProofs!SummariesCharged` | without a crash, every summary made is recorded or in the hand of its request |
| `RelayProofs!SessionBelowGlobal` | a session counts no more requests than the all-time counter |
| `RelayProofs!OneWindow` | `OneWindowPending`: a record through the open gate leaves nothing pending |
| `RelayProofs!RelayImplementsGate` | with enforcement on, `Relay` implements `Gate` |
| `RelayProofs!RelayOverdraft` | with enforcement on, the bound of `Gate` on the overdraft holds of `Relay` |
| `ServingProofs!ServingTyping` | `Serving!Spec => []TypeOK` |
| `ServingProofs!ServedRecorded` | an answered request is recorded with a call that succeeded |
| `ServingProofs!FailedNotRetried` | a model that failed a request is not called for it again |
| `ServingProofs!EndAnswered` | a finished request was answered, or is a relayed stream that was refused |
| `ServingProofs!AnswersFinal` | `AnswerIsFinal`: what ended an answer is never replaced |
| `ServingProofs!StreamsKeepModel` | `StreamKeepsModel`: no other model takes over an open stream |
| `ServingProofs!WorkingSet` | a pruned list fits its provider, and the working set comes first |
| `GateProofs!Overdraft` | a balance overshoots the grace by at most the cost of what was once undebited together |
| `CompactionProofs!LargestSafe` | a cut is safe, and none before the boundary asked for keeps less; conversations of any length |
| `CompactionProofs!KeptFitToSend` | the search gives up only if nothing is safe to drop at the configured number of exchanges, is over the ceiling otherwise only where no safe cut drops more, and what is kept of a valid conversation converts to a valid list |
| `CompactionProofs!FlightsShared` | one call per key, and nobody waits for a call that is not under way |
| `CompactionProofs!SummaryCovers` | `SummaryCoversDropped`, for every family of conversations, requests and limits |
| `AnswerProofs!ReviewHonoured` | `ReviewIsHonoured`, whatever the weights |
| `AnswerProofs!ImageSeen` | `ImageIsSeen`, if no source weighs more than 6/5 of the rules |
| `AnswerProofs!UsageAttributed` | `UsageIsAttributed`, for any number of concurrent classifications |
| `AnswerProofs!BestModelSelected` | `NoBetterModelLeft`, for every catalog and whatever is switched off |
| `AnswerProofs!StreamsFit` | no order of text, calls and the finish breaks the sequence of events; any length |
| `AnswerProofs!FinishDelivered` | a finished message is complete, and its usage known at the end |
| `AccountsProofs!OneAccount` | one account per email, for any number of racing sign-ins |
| `AccountsProofs!OwnerKept` | an owned key keeps its owner through boots, claims and crashes |
| `AccountsProofs!UsageConserved` | `ClaimsConserveUsage`: usage only changes hands, if no claim merges a row that has moved on |

- **CreditOnce** is not inductive alone. `GateInv` adds what stops a second credit: an event
  without a row has no credit; a handler about to apply an event holds a fresh uncredited one
  whose row is unmarked; and a payment that the operator paid again has its row marked, so that
  neither pays it a third time.
- **CreditToPayer** needs that a session without a row is never paid (`SessionInv`): the checkout
  URL is answered only after the INSERT.
- **Refinement** maps the emission of an event to `Announce`, `ApplyEvent` with the verdict
  "credited" and the reconciliation of an uncredited event to `Credit`, and every other step to a
  stutter: a grant and a payment paid again raise the balance and `byHand.granted` alike. `Announce` needs that
  an event still unsent has no row and so no credit (`UnsentInv`).
- **MarkFollowsCredit** adds to that what the handler knows between the apply and the mark: a
  creditable event whose verdict is not "uncorrelated" has been credited (`MarkInv`).
- The theorems about **Serving** share `ServingInv`, one conjunction per request. For
  `FailedNotRetried` it keeps the models seen so far: the selected one and the chain up to the
  last fallback (`UnderWay`), and that the one being called has not failed (`Calling`). The next
  fallback is then new because the chain does not repeat a model (`ChainAssumption`). For
  `EndAnswered` it keeps why headers can be out during a fallback (`Refused`). A step of one
  request changes only the registry of another, which no conjunct reads (`SameKeepsInv`).
- **Conservation** is kept per caller: lemmas say that a flush (`BillKeepsSplit`), a loss
  (`LoseKeepsSplit`) and a new delta (`AccumulateKeepsSplit`) move an amount between the three
  tables, and `PersistKeeps` carries that through every outcome of `PersistGlobal`.
- **Overdraft**: the bound is not inductive, because a debit lowers the balance and leaves the
  peak alone. The invariant keeps the *exposure*, the balance less what all undebited requests
  may still cost, above the floor; admission restores it from the gate's test, a debit moves cost
  from one term to the other.
- **RelayImplementsGate** maps the requests in flight to their number and the pending deltas of an
  account to their sums over the days, so each step needs how such a sum changes: admission and
  loss change a count by one, a record one summand, a flush all of them to zero. With
  enforcement off (the assumption `Enforced = TRUE`) the gate is not there to be implemented.
  **RelayOverdraft** is `GateProofs!Overdraft` instantiated under the same map.
- **BalanceIsUsage** follows the same split as Conservation, on sums: what a flush debits is the
  sum of the pending deltas of the account, and that is what it adds to the sum billed.
  **SummariesCharged** counts the requests that hold a summary's cost beside the sum over all keys;
  **SessionBelowGlobal** is inductive with the types.
- **ActiveByFunds** and **CompletedArePaid** share `AppliedInv`: an event without a row, or about to
  be applied, has been applied to nobody, and one that has been was credited or is a subscription's; an
  account opened by hand is a case of its own (`byHand.opened`). `StepsApply` sorts the steps
  into those that apply nothing and those that apply one fresh event to one account; for the second
  theorem the set of events applied grows by one where at most one checkout is completed.
  **EchoedReference**: a session that was paid has its row (`SessionInv`), so the lookup finds the account (`EchoInv`).
- **LargestSafe**: `CutSafeInv` says of the position the repair is at that no position between it
  and the boundary is safe. A repair jumps from the last split turn to the user turn before it;
  what it passes is not safe because the results kept only grow (`ReferencedGrows`), so the turn
  that is split now would be split there too (`RepairPassesNone`).
- **SummaryCovers** has no hypothesis on the conversations: what the comparison of one message
  cannot promise is a premise of the property itself (`ToldApart`), and what it does promise, the
  last message, is claimed without it. `CoverInv` says of every entry in which conversation it
  was made and what its text tells of it (`Tells`), and of a leader what it has asked for. An
  entry that is met under the same message tells the same of this conversation if it is told
  apart there (`SameBoundary`), since the two then agree up to it (`ToldApartTogether`). Folding
  keeps the recent messages: either the new part fills a rendering by itself, or nothing of it was
  left out and the rest comes from the end of the older summary (`FoldTells`).
- **UsageAttributed**: `ClassifierInv` adds that what the field holds has never been priced and
  was left behind by a late answer or a result that mode "llm" threw away (`FieldIsUnpriced`),
  and that there is no usage of a call before its answer.
- **BestModelSelected** needs no history: each of the five fallbacks is non-empty only when those
  before it are empty, and each emptiness says what no model of the tier can do
  (`NoneSuitsBetter`). The invariant is that `routed` was chosen under the exclusions of now.
- **StreamsFit** and **FinishDelivered** share `StreamInv`. While a message is under way the client
  has open exactly the blocks the writer takes to be open, and all their numbers are below the
  next (`Midway`); text, a call, a delta and closing keep that, one lemma each. After the finish
  it is `Complete`, and a Gemini writer `Silent`. For a Gemini stream that ends without a finish the
  invariant claims only that nothing is broken: its tool block does stay open (section 5).
- **KeptFitToSend** has three parts. `CeilingInv` is about the search: without a first cut it is
  over, and nothing was safe to drop there; the cut in hand is safe, the
  search for more exchanges takes only what fits, and the one for fewer always holds a cut from
  before the boundary of one exchange more (`BoundaryFalls`), so it never comes back with nothing.
  `SafeKeepsPairing`: a safe cut of a valid conversation is one, since the first turn kept has no
  results. `ConvertedIsAccepted`: between two turns nothing is wrong with the messages made so far
  but the calls of the last one, which are awaited (`Answering`). The fold of `convertMessages` is
  unfolded from its definition over the sets of turns (`ConversionSteps`).
- **ReviewHonoured** and **ImageSeen** follow the classification through the phases: each path ends
  in the routing rules or in a classification they have been through. For a review it is enough
  that one flag decides. For images the weights must be counted: the rules' modality gets at least
  as much of the vote as the threshold asks for even when every other source is as sure as it can
  be (`RulesWeighEnough`; 0.30 against 0.25 meets it with nothing to spare).
- **WorkingSet**: the tools inline are those with fewer than the limit before them in rank and
  position, so there are no more than the limit (`InlineFits`), and one that is known is there
  before one that is not (`KnownComeFirst`). `PruningInv` ties what a family has found to its entry.
- **UsageConserved**: `UsageInv` says that what a claim has read is an amount and that what it means
  to merge had a row on both sides. Each of its writes moves amounts between two rows of the table
  (`SumTransfer`), a tick adds one to it.
- **OneAccount**: `OwnAccount` ties whoever is about to get a session to the account of its email;
  an attempt that lost the race looks the account up again. Suspensions and restarts between
  the statements are steps like the others.

Induction. The provers cannot instantiate an induction rule whose parameter is an operator. Where
a proof needs one (sums over finite sets, the fold of `convertMessages`, the turns of a
conversation) it takes the least counterexample instead: a set of natural numbers that is not
empty has a least member (`LeastNat`, from the well-foundedness of `<`), and sets are counted by
their size (`SubsetInduction`). That is enough for what a sum or a fold preserves.

Assumptions on the constants, beside the types: finitely many accounts, requests and days, since
sums are taken over them (`FiniteAssumption`, `TableAssumption`), and tool ids (`IdsAssumption`); a
bound on what a request may cost, without which there is none on the overdraft
(`BoundedChargeAssumption`: finitely many charges); weights, similarities and hit counts are natural
numbers and a model's confidence a number (`WeightsAssumption`, `NearbyAssumption`,
`SeenAssumption`, `AnswersAssumption`); tool lists are sequences (`OfferedAssumption`). Every one of
them is evaluated by TLC for the instances.

Every invariant and every action property that a passing run checks is a theorem. Only
model-checked: liveness (`Webhook!EventuallyAnswered`, `Serving!EventuallyAnswered`,
`ClassificationEnds`), which is beyond the prover; the runs that expect a violation; and, of the
theorems with a hypothesis (`Enforced`, `RulesWeighEnough`),
what happens without it.

## 5. Where code and documents disagree

With a run that shows it:

- `lostcredit`: the event row is committed before the event is applied, so a retry after a
  failure is taken for a duplicate and answered 200; the payment is never credited by the handler.
- `stream`: a stream's headers are flushed before the provider is called; if the call then fails,
  the chain is skipped at `index.js:1036` and the response is never ended.
- `inline`: `buildPrunedBody` leaves a body alone that already holds a ToolSearch, so the
  re-prune at `index.js:996` never changes anything.
- `billing`: only the first successful attempt is recorded, so later rounds are not billed.
- `joined`: a request that joins a summary in flight awaits `{summary, costUsd}` and uses it as
  the text (`compaction.js:291`, against 111).
- `cachehit`: a cached classification carries the cost of the call that the first request paid
  for, and the request that hits is charged it again.

Met while modelling, without a run of their own:

- the reconciliation of DEPLOY.md:369-376 lists every row with `processed = 0`, which 364 says are
  those "whose user couldn't be matched". A payment whose mark failed after its credit, or whose
  handler died in between, is among them and is paid twice if the operator follows the text. The
  model has the operator do so (`byHand.again`), and `CreditedAtMostOnce` allows that and no more;
- its UPDATE, like that of the grant (DEPLOY.md:168-170), sets `status='active'` without a
  condition, so it brings a suspended account back, where "apply what the handler would have
  written" would not: the handler's CASE keeps a suspension (`webhooks.js:85-105`).
  `NeverResurrected` is therefore about the steps of the handler;
- `create-user.js` and the grant make an account active for no payment; `ActiveOnlyByFunds` is
  about the accounts the operator has not opened or funded so. Such an account still has to pass
  the gate on its balance (DEPLOY.md:160-161);
- when `findCompactionCut` finds no cut for the configured number of exchanges, `maybeCompact`
  returns at once (`compaction.js:241-242`), although fewer exchanges might be cut safely and fit:
  with exchanges that start at messages 0 and 4 and two to keep, the cut at 4 is never tried and
  the conversation goes out whole, over the threshold. Conversations like this are among those
  of `answers`;
- a summary is verified by the md5 of one message, the last that it was made of, which "still
  covers a prefix of the newly dropped range" (`compaction.js:44-46`) takes for the whole prefix.
  Two conversations with the same system prompt that part and later have the same message at
  the same place, "continue" say, get each other's summaries. Both ways to that, reuse and
  folding in, are reached in `answers`; the part of `SummaryCoversDropped` that a wrong prefix
  would break is claimed where no other conversation agrees in a compared message only;
- what is summarized is the tail of the dropped range, up to `maxDroppedChars` (60000,
  `server.json`); at the threshold of 75% of a window of 128k tokens the dropped range is usually
  longer, so a first summary of a long conversation says nothing of its beginning;
- the newest open checkout of an account is closed, not the paid one (`webhooks.js:238`);
  `CompletedCheckoutsArePaid` states what does hold, that their number is right;
- `daily.clear()` inside the transaction function is not undone when the COMMIT fails
  (`metrics.js:215`): the deltas are lost without the crash the comment at 192 speaks of. In the
  model they go to `lost`;
- `writeFileSync` truncates the counter file first, so a crash inside it loses the whole all-time
  counter (`metrics.js:181`), not 30 s of it; in the model the file is then `None`;
- the flush rides on traffic (`metrics.js:178`): the last deltas before a quiet period stay
  undebited however long it lasts, where DEPLOY.md:355 says about 30 s. `OneWindowPending` states
  what does hold;
- a list whose length is over the cap while its distinct names are below it is sent as it is, over
  the cap: nothing would be deferred, so `buildPrunedBody` returns null (`tool-pruning.js:121-123`);
- `tools-registry.js:25-35` evicts the family inserted first, also when it is the one in use, since a
  read refreshes the age of an entry and not its place; and an entry that expired between the read
  and a discovery is revived with its old names (49-56);
- a model that searches in all three rounds has its ToolSearch call delivered to the client
  (`index.js:1000`, against `tool-pruning.js:17`): `body = "search"` in the model;
- a model that fails after a successful round is recorded as the one that served, although a
  fallback answered (`index.js:1084`).
- `backfill.js claim-usage --merge` reads the anonymous rows before its transaction: what the
  proxy adds to such a row in between is deleted with it. `ClaimsConserveUsage` holds otherwise;
- parallel function calls of a Gemini stream share one tool block, and a Gemini stream that ends
  without a finish leaves it open at `message_stop`; an OpenAI stream whose finish line
  is not terminated gets no `message_stop`; the carry of the math rewriter
  (`converter.js:224-299`) is never flushed; `emitConvertedAsSSE` sends a text both in
  `content_block_start` and in `text_delta`;
- the bounded stores evict their oldest entry also when the key to write is there already
  (`reasoning-store.js:29`, `classifier/cache.js`); the store's `text:` keys are never read;
- `user-prefs.js:4-6` says that operator-wide preferences always apply; `router.js:185-187`
  ignores the exclusions when nothing else is left;
- the system prompt is stripped before `/v1/messages` classifies (`index.js:765`), so the cache key
  ("keyed by system + ...", `cache.js:2-3`) and the profile's length do without it; in modes "llm" and
  "jev" `estimatedTokens` is always 8000 (`router.js:111-115`);
- fusion: `unionLists` on `routing.tools` is always empty; `normalize` turns the null model type into
  `general_model`, so it is never derived (`fusion.js:197`, 308) and the routing block can
  contradict the winning task (against 16-17); `unionLists(...) || ["text"]` never yields `["text"]`;
  "a single strong restricted vote still wins outright" (92-93) holds from a third of the leader's
  weight; no signal carries `safetySensitive` where fusion looks for it, so it is always false;
- rule and embedding signals are judged by the code tools seeded for their task, where a comment
  says that only the request's own tools count; Jev's degraded result does not see images,
  against "conservative, valid shape" (`jev-classifier.js:293-296`);
- the OAuth state cookie is "consumed before any network I/O" only in the header of the final
  response; `create-user.js` does not lower-case the email; the login throttle is per process.

## 6. Not modelled, and what is left

- **Dashboard pages and read-only routes**: they present data that other components own.
- **Benchmark, evaluation, diagnosis, configuration**: measurement scripts and data.
- **Finding evidence in text** (regular expressions, word lists, embedding vectors): any
  evidence may be found; what is made of it is `Pipeline`.
- **Model scores** (`router.js`): arithmetic that chooses among candidates; any may win.
- **The catalog of deferred tools** (`tool-pruning.js`): its text, and how a query finds a tool; any
  tool of the list may be found. `Pruning` has one request at a time, `Serving` several.
- **Tool schemas, buffered responses, Gemini requests**: conversions without state.
- **Which classification a cached key stands for**: the cached value is any in `Classifier`, and
  `Pipeline` classifies one request. A composition of the two would be next.
- **Displayed figures of the meter** (averages, baselines, ring buffer) and `/v1/classify`.
- **Theorems left**: what the composition named above would promise, and the liveness properties,
  which TLAPS cannot state as goals of a proof here.

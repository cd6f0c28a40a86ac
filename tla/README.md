# Verification of the StudyX sales agent

The program is a sales agent on WhatsApp and Telegram: a Botpress workflow talks
to the customer, a Next.js backend decides and keeps every durable fact in
PostgreSQL, and cron routes repair what was left half way. What is hard in it is
not the wording of an answer but *who may act on what, once*: which workflow run
answers a burst of messages, when a message counts as sent, what may be sent
again. This directory models that part in TLA+, checks it with TLC and proves
what matters most with TLAPS.

Paths below are relative to the repository.

## 1. Inventory

| Component | State | Operations | Meets |
|---|---|---|---|
| Ingestion (`src/lib/services/ingestion.service.ts`, migrations `20260805010003`, `..004`) | `messages`, `conversation_seq`, ingest requests, contact permissions | persist an inbound once, replay it, enqueue it in a batch | Botpress workflow, inbound batches |
| **Inbound batches** (migration `20260811020001`, `postgres-orchestration-store.ts`, `processInboundTurn.ts`) | `inbound_batches`, `messages.batch_id`, the workflow runs | open or join a window, claim, complete, expire | ingestion, decision commit, reconciler |
| **Decision commit** (`decision.service.ts`, `commit-claimed-decision.ts`) | `agent_decisions`, `outbound_deliveries` | commit a decision once, supersede it, queue and lease the reply | batches, delivery |
| **Delivery ledger** (migrations `20260805010005`, `20260811060001`) | `outbound_deliveries`, `outbox_events`, `delivery_reports` | enqueue, lease, report, reconcile | all senders |
| **Delivery through Botpress** (`processInboundTurn.ts`, `reportDelivery.ts`, `decision.service.ts`) | the run's view of its parts | submit, report, record, dispatch the call | ledger, calls |
| **Direct delivery** (`features/messaging`) | ledger rows of one idempotency key, channel identities | select a channel, reserve, lease, send, settle, fall back | ledger, Retell tools, post-call follow-up |
| **Reconciler** (`reconcile-orchestration.ts`, `delivery-reconciliation.ts`) | none of its own | list stale rows, decide, apply; expire claims | ledger, batches |
| Turn policy and claim context (`claim-batch.ts`, retrievers, business context) | none | read and rank what the model sees | batches |
| **Selected memories** (`commit-agent-turn-v3.ts`, `project-agent-a-memories.ts`, migrations `20260811030001`, `20260905000008`) | `selected_memories` and their supersession, `agent_a_memory_projection_jobs` | park what a decision corrects, project, supersede, expire, give back | decision commit, reconciliation cron |
| **Payments** (`features/payments`, migration `20260817030001`) | `payments`, `payment_events`, `fulfillment_jobs` | reserve, create a checkout, take over, attach, record a provider event, fulfil | Stripe, decision commit |
| **Sheet projection** (`projection.service.ts`, migration `20260817040001`) | `sheet_projection_rows` | enqueue, claim under a lease, write the sheet, complete, give up | delivery reports, calls, Google Sheets |
| Payment reports | `payment_projection_jobs` | enqueue after a delivery, project | delivery reports, sheet |
| Embedding, summary, knowledge jobs | job tables with leases | claim, compute, complete, fail | providers |
| **Calls** (`features/calls`, migration `20260816010002`) | `call_sessions`, `call_events` | reserve, dispatch, attach the provider's id, append events, project the status | decision commit, Retell, Telegram |
| Tools of a call, **post-call follow-up** (`post-call-followup.ts` and its store) | orchestration requests; consent events, `system_call_result` markers | answer the voice agent, send a link; follow up or revoke | direct delivery, calls |
| **Conversation state** (`commit-agent-turn-v3.ts`, `state-patch.ts`, `postgres-retell-orchestration-store.ts`) | `conversation_sales_context_states_v1`, its events, deferred patches | commit a decision, fall back, apply on acceptance, record a link | decision commit, delivery reports, calls |
| Agent loop (`agent-core`) | the loop's transcript | call the model and the tools within bounds | decision |
| Planner, guards, prompts, channels, routes, probes | none durable | text and wiring | all |

Bold rows are modelled, the others are listed in `PROJECT.json` with the reason
or the place in the plan.

**What is hard.** Several runs of the workflow exist for one burst of messages,
and Botpress delivers an inbound more than once. A run reads (a claim, the
statuses of its parts, a row of the ledger) and acts on what it read after other
runs, reports and the cron have acted. Calls to the backend are repeated by the
HTTP client (three additional tries on timeouts and 5xx), so a report may be
handled twice, or long after its run gave up. Providers may do what they are
asked and not say so, and their webhooks come in any order, twice, and before the
answer that announced them. Crons overlap and their leases run out under them. A process may die between any two statements. `hazards` in
`PROJECT.json` lists the lines where each of these bites.

## 2. Modules

| Module | Models | Composes / implements |
|---|---|---|
| `TurnOwnership` | abstract promise: a batch is owned by one run after another, decided once, ended for good | |
| `InboundBatch` | windows, members, claims, the commit's decision and the close | implements `TurnOwnership` (`KeepsOwnership`) |
| `InboundBatchProofs` | theorems about `InboundBatch` | |
| `DeliveryLedger` | one row of the ledger with its outbox event: what triggers allow, the reconciler's verdict and its application | |
| `BotpressDelivery` | runs that deliver the parts of one reply, lost and repeated report calls, passes of the reconciler | extends `DeliveryLedger` |
| `TurnDelivery` | the turn as a whole, for the reply to one batch | extends `BotpressDelivery`, instantiates `InboundBatch` |
| `BotpressDeliveryProofs` | theorems about `BotpressDelivery` and `TurnDelivery` | |
| `DirectDelivery` | requests with one idempotency key over the channels, and the reconciler | extends `DeliveryLedger` |
| `CallLedger`, `CallLedgerProofs` | sessions of voice calls: reservation, dispatch under a lease, the provider, the webhooks | |
| `PostCallFollowup` | the sweep that follows finished calls up, against analyses and opt-outs | stands on what `CallLedger` records and `DirectDelivery` sends |
| `DirectDeliveryProofs` | theorems about `DirectDelivery` and `PostCallFollowup`, two machines that share no variable | |
| `PaymentLedger`, `PaymentLedgerProofs` | one payment under its creators, takeovers and Stripe's webhooks | |
| `SheetOutbox`, `SheetOutboxProofs` | the outbox of a lead's row in the operators' sheet | |
| `ConversationState`, `ConversationStateProofs` | the versioned state of a conversation under decisions, fallbacks, reports and a call's payment link | |
| `MemorySupersession`, `MemorySupersessionProofs` | memories that correct memories, their projection jobs and the sweep that gives parked ones back | |
| `MC*` | symmetry sets and definitions for the configurations | |

The tables these modules are about share keys and no rows, and each of the later
modules takes what the others do as an event that may happen at any time (a report,
an analysis, a decision), so that what it shows does not lean on when they do it.

### InboundBatch

One conversation. Variables: `seq` is `messages.conversation_seq`; `member` is
`messages.batch_id`; `batch` holds the rows of `inbound_batches`; `decision` those
of `agent_decisions`; `wf` the workflow runs with what each remembers (token,
lease, the instant it wakes, tries).

| Action | Code |
|---|---|
| `Ingest` = `Replay`, `Join` or `Open` | `open_or_join_inbound_batch` inside the ingestion's transaction; `Open` also abandons a window nobody claimed before its hard deadline |
| `ReadExisting` | `existing_result`: the run of a redelivered, decided message stops |
| `ClaimWins`, `ClaimTooEarly`, `ClaimLoses` | `claim_inbound_batch` and the claim loop of the workflow |
| `CommitNew`, `CommitAgain` | `commitAgentDecision`: first decision, superseded or not; replay or conflict |
| `Close`, `CloseFails` | `complete_inbound_batch`, and its swallowed failure |
| `ExpireClaim` | `expire_inbound_batch_claims` (a row of a sweep: it takes rows with SKIP LOCKED) |
| `Crash` | a run that ends anywhere, also because the answer of a call stayed out (every step has maxAttempts 1) |
| `Tick` | time |

A batch is named after the message that opened it. Timers count down, so "now >=
due_at" is "due = 0" and the state space is finite; database and runtime share a
clock. The 250 ms the workflow adds before it claims only delays it, and is left
out. The HTTP client repeats a call without an answer: a repeated claim is
absorbed by the first, which ends the run as `Crash` does; a repeated commit is a
replay whose close does what a later `Close` would. `Payload` stands for the decisions a run may come to, `Silent` for those
among them that send nothing.

### DeliveryLedger, BotpressDelivery, DirectDelivery

`DeliveryLedger` has a row (`Delivery`), the transitions the triggers allow
(`DeliveryMoves`, `OutboxMoves`), `decideDeliveryReconciliation` (`Verdict`), the
listing (`Stale`) and `apply_delivery_reconciliation` (`Reconciled`). `quiet`
counts down the grace after the last update.

`BotpressDelivery`: `row`, `report`, `latest` are the tables; `run` the workflow
loop over the parts with the statuses it was told (`view`); `wire` the report
calls a run made, which the backend may handle at any later time and more than
once (`Record`, `Duplicate`, `Conflict`); `sent` and `copies` what the customer
really got; `todo` the verdicts a pass of the reconciler has decided and not yet
applied. `Send`, `SendRefused`, `SendUnanswered` are the outcomes of
`createMessage`.

`DirectDelivery` takes `sendOutboundMessage` statement by statement: `Start`,
`Find`, `Reserve`, `TakeLease`, `ReadBack`, the provider's answer (`Accepted`,
`NotTaken`, `TakenUnanswered`, `Rejected`, `WindowShut`), `Correct`, `Settle`,
`Cancel`, and `Die` anywhere. `WindowMoves` opens and shuts the reply window. The
candidates a request has left (`rest`) are places in the order of preference; the
first of them is the channel it is at (`Current`).

### TurnDelivery

The runs of the batches are the senders of the reply (`Batches`), and the steps of the
two machines are conjoined where the code does both at once: `TurnCommit` and
`TurnReplay` join the decision with the leasing, or the loading, of the parts;
`Deliver` lets a run send once its commit was answered; `TurnTick` is one clock. A
batch of the conversation, `Turn`, is followed; the others only compete with it. That
the conjunctions hold no decision back is a theorem (`CommitsAreFree`).

Facts of the code that shape these three models:

- No worker leases a Botpress row again, so its attempt stays 1 and the reconciler's
  `resend_authorized` is a mark nobody acts on; a report about a stale attempt
  cannot occur, and that branch is not modelled.
- The direct path never touches `outbox_events`, never gets a delivery report,
  and leases a row by its state alone.
- Both callers of the direct path pin the conversation, hence `Conversations`;
  the configuration `DirectDelivery_fallback` also explores a key whose
  conversation can be on both channels, which the function supports.
- A retired identity is found by its destination, which only Telegram stores as
  the conversation's id, hence `Retirable`.
- The compatibility path for a single outbound (`processInboundTurn.ts`
  1575-1790) serves backends older than this one and is not modelled.
- Two failure reports with different error codes share an event key and the
  second is refused where the model calls it a duplicate; the run stops in both
  cases.

### CallLedger

Per turn that asks for a call: `commit` (the transaction that reserves it),
`session` (`call_sessions`), `expiries` (how often its lease ran out). `worker` are
the requests to the dispatch route, `life` the calls as the provider has them,
`recorded` the rows of `call_events`.

| Action | Code |
|---|---|
| `LooksForActiveCall`, `Reserve` | `reserveCallForDecision`: the SELECT of active calls, and the inserts that the partial unique index may refuse, which undoes the commit |
| `Claim` | `claimDispatch` and the choice of `dispatchCall` between placing and looking up |
| `Place` | `placeCall`: taken and answered, taken and unanswered, never received, refused |
| `Attach`, `MarkAmbiguous`, `MarkFailed` | `attachProviderCall` and the catch of `dispatchCall` |
| `LookUp` | `findCallByInternalId` for a session whose outcome stayed unknown |
| `Dies`, `LeaseRunsOut` | a dispatcher that ends anywhere; 60 seconds |
| `CallStarts`, `CallEnds` | the provider |
| `Resolve` | `resolveRetellCall`: correlation of a webhook, or of a tool, by the metadata |
| `AppendEvent` | `recordCallEvent`: the event and the projection, one transaction |

### PostCallFollowup

`asks` says by which sources the person asked not to be contacted, `analysed` which
analyses are on record; `optOut`, `permitted`, `marker` are the consent events, the
permissions and the `system_call_result` events; `reachable` the calls whose contact has
a usable channel; `letter` the row of `outbound_deliveries` under `post-call:<call>`, one
per call because the cron configures WhatsApp only (`route.ts` 17-30); `written` what the
provider took; `sweep` the runs of the cron with the calls they listed. Contacts are
those of one call each. `mishaps` counts, for its bound, the runs that are stopped, the statements that fail,
the sends that come to nothing, the blocks and the windows that run out.

| Action | Code |
|---|---|
| `Analyse` | an analysis recorded by the tool or by the webhook, with `convergeDoNotContact` in the same transaction |
| `Block`, `Window` | an opt-out by message, or a block; the reply window runs out or is opened |
| `ListCalls` | `listPendingFollowups`, oldest first, up to the limit |
| `Check`, `Recheck` | `revalidateFollowup`, which revokes and marks when the person opted out |
| `BlockedCheck`, `Gate` | `isContactBlocked`; `evaluateSendEligibility` and `selectChannels` inside the send |
| `Send` | `sendOutboundMessage` from the row on: replay of what was taken, the lease, or `CONCURRENT_SEND_IN_PROGRESS` |
| `Answered` | the provider's answer with `decideDeliveryOutcome` and the settlement of the row |
| `Mark` | `markFollowupCompleted` |
| `Dies`, `Throws` | a run that is stopped; a statement that fails and whose error is caught. At the provider either leaves the row leased |

### PaymentLedger

`payment` is the row with its fulfilment job, `record` the keys of `payment_events`,
`creator` the calls of `createCheckout`, `delivery` the webhook requests, `session` and
`sent` Stripe's session and the events it has to deliver.

| Action | Code |
|---|---|
| `Load`, `Claim` | `loadPayment` and the guarded UPDATE, takeover of a stale creation included |
| `Create` | `createCheckoutSession` under the payment's idempotency key |
| `Commit`, `MarkFailed`, `MarkAmbiguous`, `CreatorDies` | the end of `createCheckout` |
| `Pays`, `Settles`, `Expires` | the customer and Stripe |
| `Receive`, `Attach`, `RecordCreated`, `Record`, `DeliveryDies` | `processStripeWebhook`, statement by statement, with `recordPaymentEvent` and its reducer |

### SheetOutbox

One lead's row. `row` is the row of `sheet_projection_rows` with the source each column's
value comes from; `flush` the runs of `flushSheetProjections`; `adrift` writes nobody
waits for any more; `sheet` what the operators see; `shown` whether the sheet has shown
the present payload since the row was opened.

| Action | Code |
|---|---|
| `EnqueueLeadProjection` | `enqueueLeadProjectionInTransaction`: staleness, merge, reopening |
| `Claim`, `Exhausts` | `claim_sheet_projection_rows` |
| `Writes`, `Lands`, `WriteFails`, `LandsLate` | `updateRow` of the Google provider, and requests that outlive their sender |
| `Completes`, `Fails`, `GivesUp` | the end of a row in `flushSheetProjections`, fenced by worker and lease |

### ConversationState

`row` and `history` are the state and its events; `drafts` what the runs of the loop
want to commit; `decision`, `delivery` the decision and the outbound with its deferred
columns; `sent` what Botpress created; `refused` the true reports that were turned
away; `linked` the voice calls whose payment link was sent.

| Action | Code |
|---|---|
| `Think` | `loadTurnContext`, and any decision the loop may reach on it |
| `CommitReply` | `commitAgentTurnV3`: integrity, `splitStatePatchV3`, `applyStatePatch`, the stored deferred patch |
| `CommitFallback` | its technical branch, `recordTechnicalFallbackV1` |
| `Send`, `ReportSubmitted`, `ReportRefused`, `ReportFailed` | the channel, and `recordDeliveryReport` with `applyAcceptedOutboundStatePatchV3` |
| `SendLink`, `RecordLink` | `requestAgentAPaymentLink` and `recordPaymentLinkSelection`, which names no version |

### MemorySupersession

`memory` is `selected_memories`, `job` the projection jobs, `audit` the audit events under
`memory:<id>:supersession_reclaimed`, `run` the invocations of the cron. Of a job that came
to nothing the audit repeats state, result, attempts and error code; only the last can
change, and `rewritten` says that it did. `earlier` names the jobs that come before this one
in `created_at, candidate_index` and correct a memory it corrects. The lease of a last
attempt is not kept, since nobody looks at it. `dropped` is a history variable: the jobs whose last
attempt an invocation left undone.

| Action | Code |
|---|---|
| `Commit` | the candidates of a decision: parking what they correct, one job each |
| `Expire` | `expire_selected_memories` |
| `Claim`, `Lapse` | the claim of `projectAgentAMemories`; two minutes |
| `Reject`, `Record`, `Accept`, `Duplicate`, `Fail` | the work on one job, with `record_prepared_agent_memory_v1` as one transaction |
| `FailCompleted` | an error over a job that another invocation completed: the check constraint refuses the failure and ends the projection |
| `Look`, `Reclaim` | the SELECT of `reclaimStrandedMemorySupersessions`; its UPDATE with the audit events, one transaction |
| `Die` | an invocation that is killed |

## 3. Runs

| Run | Question | Instance |
|---|---|---|
| `inbound_safety` | all safety of the batches, refinement of `TurnOwnership`, the pace of claim attempts | 3 messages, 3 runs, window 2, deadline 4, lease 1, 2 attempts, failures |
| `every_message_answered` | does every message get an answer when nothing fails? | 2 messages, 3 runs, fairness |
| `decided_batch_stays_claimed` | violation: a failed close leaves the batch claimed for ever | 2 messages, 2 runs, failures |
| `botpress_reply` | safety of a reply that two runs hold; is a leased part ever forgotten? | 2 parts, 2 runs, 2 passes of the cron, fairness |
| `turn_as_a_whole` | what reaches the customer, from message to delivery | 2 messages, 2 runs, 1 part, 1 pass, failures and losses |
| `direct_requests` | safety of requests that fall back between channels | 3 requests, 2 channels, 2 attempts |
| `calls` | how often a phone rings, what a session's status is worth, does a placed call free its contact? | 2 turns of 1 contact, 2 dispatchers, one lease that may run out |
| `followup` | is an opt-out heeded, and does one call's trouble keep another from being followed up? | 3 calls, 2 to a list, 1 person who asks, 2 attempts, 2 mishaps |
| `payments` | can a payment be lost or given up under a customer who pays? | 3 creators, 2 takeovers, 2 webhook requests |
| `sheet_row` | does the sheet end up with the latest of each column? | 4 producers, 2 flushes, 2 attempts, 3 openings |
| `conversation_state` | is anything written over, assumed or miscounted? | 3 turns, 1 call, 1 draft per turn |
| `memories` | does a corrected memory come back, is a parked one forgotten? | 3 memories, two of one slot, 2 invocations, 2 attempts, 1 death |

Type invariants of the modules that have proofs are proved (`TypeCorrect`) and not
run again, as are other invariants that a theorem states for all values.

Why the bounds are enough. Three messages are the least for a window between two
others and for an interval with something inside it; three runs for an owner, a
thief and an onlooker; a deadline of two windows lets the window slide and be cut
short; a lease of one unit is as short as the window, so leases run out under
every step. Two parts are the least for an order, two runs for a stolen claim, two
passes of the reconciler for an overlap; the grace is shorter than the lease as
in the program (60 s and 5 min). Two attempts are the least at which a row of the
direct path is leased again, and three requests use them up. The composed run
needs no more than a thief beside the owner and a newer message beside the turn.
A call needs two turns to compete for one contact and two dispatchers to compete for
one session; the lease of one session only may run out (`Expiring`), so that the other
shows what holds while none does. Three calls for two places of
a follow-up's list are the least at which calls that stay on the list may keep another from
it, and one call of a list may stand in the other's way. Its runs are one at a time: a run that is
stopped leaves the next all that an overlapping one would, the leased row included. Two mishaps
are the least that use up a letter's attempts, or leave two calls on the list for good. A creator that is taken over twice may come
back before or after each thief; two requests of the webhook overtake one another.
The four producers have two messages in order, two sources of one position and one
without a position. Three turns are the least at which a report is overtaken by a
commit and a fallback follows a fallback; one draft per turn loses nothing, since a
draft that is not committed changes nothing. Two memories of one slot and one of
another are the least for a slot taken while its occupant is parked. An audit that is refused
arises there from an error code written late; from another job it takes a fourth memory,
which the run does not have and the theorems do.
The theorems hold for all values and depend on none of these bounds.

**What the violation shows.** The batch of a failed close stays claimed for good: only a
row whose attempts are spent is given up. `findings` quotes the line.

**Other disagreements met while modelling.** They are facts of the models, not
checked by a run of their own:

- A lease tells who may close a batch, and nothing more: the commit does not ask for
  it (`decision.service.ts` 543), so after a stolen claim two runs may answer with the
  same decision and each sends it. `CopiesPerClaim` and `OneSend` are what holds.
- A report of failure is the word of a run that does not know: `resend_authorized` may
  be put on a message Botpress created (`processInboundTurn.ts` 1470 against the opening
  comment of `delivery-reconciliation.ts`), and `pause_ambiguous` may be applied to
  a send that was proved meanwhile (`20260811060001` 227). Neither triggers a send.
- The direct path leases by state: it sends again after a lost answer
  (`send-outbound-message.ts` 206 against `delivery-outcome.ts` 63), while paused, and
  answers "busy" for ever about a row that was cancelled (210-216).
- A dispatcher whose lease ran out may dial a second call (`dispatch-call.ts` 24-27
  against `postgres-call-store.ts` 131-147), whose events are then refused with 409;
  `markDispatchFailed` does not look at the lease. A session whose call was never made
  and whose outcome is unknown stays `dispatch_ambiguous` and keeps its contact from
  being called: `PlacedCallsAreClosed` speaks of placed calls for that reason.
- A true report of an accepted reply is rolled back with its evidence by
  `STATE_VERSION_CONFLICT` when another turn or a call's link moved the state in
  between. The reconciler that the design foresees for it
  (`docs/superpowers/specs/2026-09-04-agent-a-agent-loop-design.md` 491-493) does not
  exist. `RefusedOnlyIfMoved` is what holds. A request for a payment link that is
  repeated late sets the state back to the link's selection.
- A follow-up that is stopped, or fails, between the lease of its row and the settlement is
  never sent again and never marked: the lease's UPDATE takes `pending` and
  `failed_retryable` rows only (`send-outbound-message.ts` 206), the reconciler pauses the
  row and leaves its state (`20260811060001` 227), and every later run reads
  `CONCURRENT_SEND_IN_PROGRESS` (210-223). The same goes for a letter whose attempts are
  used up, that was rejected, or that was cancelled because the window was shut. The head of
  `post-call-followup.ts` (12-15) leaves what failed to the next run. `Stuck` in
  `FollowupHappens` says so.
- A call that cannot be followed up (its contact is blocked, has no channel, or its letter
  is stuck) gets no marker and keeps its place in the list, which is the fifty oldest
  (`post-call-followup.ts` 45): fifty such calls keep every later one from being
  followed up. Spec 007, FR-7, asks that such a call be paused and not hold up the rest of
  the batch, which it does not; the batches after it are another matter. `Crowded`
  in `FollowupHappens` says so.
- An explicit opt-out may revoke nothing. `record_contact_permission_event` applies an event
  that is not older than the row (`20260805010004` 162), and the row that a contact's
  first message creates is dated by the clock of its ingestion (`ingestion.service.ts`
  537-553, `changed_at DEFAULT now()`), the opt-out by the time it was written. Written
  before the first message was ingested, it is kept in `consent_events`, and the
  permission stays `unknown`. `opt_out_ack_eligible` is then true of it and of the
  next one, against its comment (`ingestion.service.ts` 158-159).
- A parked memory may stay parked in three ways, which `ParkedIsResolved` names. (1) A last
  attempt that is left undone leaves its job `processing`, which neither the claim
  (`project-agent-a-memories.ts` 151-155) nor the sweep (410-416) looks for (`Forgotten`).
  An invocation leaves jobs undone when it is killed, and also when an error over
  one job meets the row another invocation completed: the check constraint refuses
  `failed` there and ends the projection. (2) The slot was taken while the memory
  was parked: the UPDATE fails for all the memories it gives back (`SlotTaken`). (3) The
  audit event of a memory that was given back before is refused when it says
  something else (`AuditRefuses`), and the sweep of all memories is rolled back. That is so
  when a late failure rewrote the error code of the job, or when the memory was parked
  again and another job came to nothing. The comment at 436-437 says that a later
  sweep can retry; it does, and is refused the same way.
- A job that is tried again late supersedes a newer memory of its slot. A failed
  correction that stays on record makes the sweep give back a memory which a later
  correction has just parked, while that correction is still to come.

## 4. Fairness

`InboundBatch!FairSpec` assumes time passes, a run that has not died takes its
next step, and the reconciler's cron comes round. No message and no redelivery is
owed. `EveryMessageAnswered` is checked without failures (`CanFail = FALSE`): with
them it is false by design, as a run that dies with the only claim is not
replaced until another message comes. `BotpressDelivery!FairSpec` assumes only time and
the cron: a report call or a run owes nothing, so the reconciler alone must find
what they left.

`CallLedger` assumes that a call ends and that the provider repeats a webhook until it is
taken; of dispatchers, nothing. `PaymentLedger` assumes that Stripe repeats what a
customer paid (strong fairness: requests for other events may be under way now
and then) and that a webhook request ends. `PostCallFollowup` assumes that the cron
comes round and that a run which is not stopped goes on, the provider's answer included,
whichever it is; that a message is ever taken is not assumed. Mishaps are finite in
number. `SheetOutbox` assumes the cron, time, and that a flush ends, well or badly.
`MemorySupersession!FairSpec` assumes the cron and time: nothing makes a candidate pass
its checks. The other specifications assume no fairness.

## 5. Proofs

All theorems hold for any number of messages, runs, calls, creators and so on, and
for any bounds, from the module's named assumption alone, unless said otherwise.

`InboundBatchProofs` proves from `ConstantsAssumption`: type correctness; the inductive
invariant `IInv`; and from it `OneWaiting`, `BatchesAreIntervals`, `SupersededByNewer`,
`OneLiveLease`, `FrozenOnceClaimed`, `OnlyOwnerCompletes`, `CountsMembers` and the
refinement of `TurnOwnership`.

The argument. That batches are intervals is not inductive: that a message which
joins makes no gap needs the open window to hold the last message of the conversation
(`SeqShape`), and that needs there to be one open window (`OneWaiting`) and each
message to be in the batch that exists (`MembersShape`). That only the owner
closes needs a token to identify a claim: tokens of a row grow with its attempts, so a
run whose token is the row's present one is the run the row names (`RunShape`).
`OneLiveLease` needs more: a run with time left sees the same time left as the
row does, so a steal, which waits for the row's lease, waits for the run's.
`CountsMembers` is proved separately, with the cardinality lemmas of the library.

The last part of it proves that a run never exhausts its tries, from one more
assumption, `EnoughTries`, which the program's constants satisfy: the hard deadline
is less than (MAX_CLAIM_ATTEMPTS - 1) windows plus one. The invariant (`Pace`)
relates the tries a run has used to the time that is left before the deadline of
its batch: each useless wake-up has cost a whole window.

`BotpressDeliveryProofs` proves `TypeOK`, `SubmittedIsProved`, `PartsInOrder`,
`CallAfterReply`, `OneSend` and the action properties `ProofIsFinal` and `PauseSticks`.
Runs act on what they were told, so the invariant says what each piece of their
knowledge is worth: a part a run believes submitted, or went past, is submitted on
the row (`RunShape`); so is one about which a call was answered well
(`ReportShape`). That only needs submissions to be final, and a submission is final
because reports that contradict it are refused and because the reconciler holds
two verdicts only, neither of which touches the state of a submitted row
(`TodoShape`). The third, dead letter, would: it needs a row that is out of
attempts, and a Botpress row has used one (`RowShape`) of at least two
(`MaxAttempts > 1`; the commit asks for three). `OneSend` is proved beside it with the
cardinality lemmas: a run submits a part only when it is not among the part's
senders, which `RunShape` says of the part it is at.

Its last part is about `TurnDelivery`, from `TurnAssumption`, which is the assumption of
`InboundBatch` and that the turn is a message. Every step of the turn is a step of the
reply and a step of the batches, or leaves them alone (`ReplyBehaves`,
`BatchesBehave`): what is proved of `BotpressDelivery` and of `InboundBatch` holds in the
composition too, and the invariant of the reply is at hand for what relates the two.
`OnlyRepliesAreSent` then needs that the commit which decides is the only step that
makes rows (`RowsStay`, `OtherTurnSteps`), and that nothing is sent of a row that is not
there. `CopiesPerClaim` is an argument of counting: whoever sends has won a claim of the
batch (`WinnersSend`), a win is an attempt of the row and for good (`ClaimsCounted`), and
whoever sends does so once (`OneSend`). That no claim is lost by the opening of a batch,
which starts with no attempts, needs that no run works on a batch that does not exist
(`ClaimShape`). `CommitsAreFree` says that a run which is about to commit finds the reply
as its commit needs it, so that the model allows whatever either machine allows a run
to decide.

`DirectDeliveryProofs` proves `TypeOK`, `OneAtATime`, `SentIsTrue`, `NeverAfterProof` and
`CopiesWithinBudget` of `DirectDelivery`, for any channels and any number of requests that
share a key. What a request knows is said where it uses it (`RequestOK`): while it talks
to the provider the row is leased, and the result it records is what became of its
call. `OneAtATime` holds because a lease is taken from a row that is not leased, and
because nothing but the request that has it moves a leased row: the reconciler has no
report to go by, so it only pauses or authorizes (`TodoShape`), which touches neither
state nor message id. Nothing takes a submission back for the same reason, and
`SentIsTrue` follows. `CopiesWithinBudget` is not inductive: the request that is at the
provider may still add a copy. `WithinBudget` counts it beforehand (`Takers`), and an
attempt is taken for each.

Its last part proves `MarkerMeansDone` and `GateHeedsOptOut` of `PostCallFollowup`, from
`FollowupAssumption`. A wish on record is in `consent_events` and has taken the
permission (`WishesConverge`), as the analysis and the revocation are one transaction and
nothing gives a permission back (the code never records `granted`, as
`decision.service.ts` 917 says too); so the gate, which reads the permission
last, heeds every wish there is at that moment. A row is `submitted` only when the provider
took the message (`LettersTaken`), and a run gets to `Mark` with the call it sent for or whose
row it found submitted (`MarksWhatItSent`).

`CallLedgerProofs` proves `TypeOK`, `OneActiveCall`, `StatusFollowsRecord`,
`ProviderCallIsFixed`, `CallsPerLease` and `OneLiveCall`. Status and record go together
because events are only recorded of the session's own call, which is fixed, and
because a call that is over does not change the way it ended (`IInv`). `CallsPerLease`
counts calls and dispatchers about to dial (`WithinLease`): there is one to spare
only while the session is `dispatching` with its lease run out, which is when another
dispatcher may claim it. `OneLiveCall` adds that where no lease ran out, a session that
was refused has no call (`Solo`); any other that is over was ended by the event of
its one call, so a live call belongs to an active session, of which a contact has one.

`PaymentLedgerProofs` proves `TypeOK`, that a payment is paid only if the customer
paid, `NothingPaidIsGivenUp` and `TriggerNeverRefuses`. The invariant says what a
creator or a webhook request knows wherever it stands (`Underway`), that events tell
where the session is (`SentIsTrue`), and that the address is shown only once the
creation is over and nobody pays without it (`UrlShown`). So a creator can fail a payment
only before its address was shown, and everything else fails or expires by the event
of a session that did.

`SheetOutboxProofs` proves `TypeOK`, `RowShowsLatest` and `ProjectedWasShown`, under two
hypotheses stated in the theorems: `WorkersDistinct` (no two flushes share a
`worker_id`; the route that flushes after a delivery builds it from the trace of the request)
and `OneProducerPerOrder` (sources of one position have one key). The second
theorem rests on the fence: a flush that still holds the row has the payload the row
has, because every opening of the row takes the lease away.

`ConversationStateProofs` proves `TypeOK`, `HistoryIsComplete`, `NothingSaidIsAssumed`,
`FallbacksInARow` and `RefusedOnlyIfMoved`. Versions in the history are an initial
segment and each event holds the row of its version; a deferred patch is stored with
a version no later than the row's, and as long as the row still has that version
nobody wrote in between. Counting fallbacks needs the last reply's version to be the
one its decision named, which the version check of the commit provides.

`MemorySupersessionProofs` proves `TypeOK`, `NoStaleTwin`, `ParkedHasKeeper` and that a
slot has one memory in force. A recorded memory is never unrecorded, what it
corrects is `superseded` in the same transaction, and nothing leaves that state: the
sweep's UPDATE looks again at what its SELECT saw. Whoever completes a job as accepted or
as a duplicate found its memory recorded (`DoneIsRecorded`), so a parked memory has a
correction that is absent and whose job is not completed with success
(`SomeoneCorrectsIt`). Such a job is pending with all its attempts (`JobsStart`), can be claimed again,
failed or was turned down for the sweep to find, or is in its last attempt; and then an
invocation that is still projecting has it, or one left it undone (`OnlyProjecting`,
`HeldOrDropped`).

## 6. Only model-checked

Liveness, since fairness and ENABLED are out of the prover's reach:
`EveryMessageAnswered`, `NothingForgotten`, `PlacedCallsAreClosed`, `FollowupHappens`,
`PaidIsRecorded`, `RowIsSettled`, `ParkedIsResolved`; and what the violation run shows.
Every safety property of the runs is a theorem too. No definition is recursive and no
proof is by induction over data; the lists a request or a sweep works through are sets of
places, whose least element is the current one, so that nothing needs it.

## 7. Not modelled, and why

The wording and the choice of an answer (prompts, planner, guards, catalogue,
fast paths) are pure functions of text; a decision is any payload here. Reads that
change nothing (context of a claim, retrievers, probes) have no action. The
insert's contactability gate refuses a row and with it the transaction, which is a
commit that fails. A verdict whose statement fails is one its pass has not applied
yet; the cron lists the row again.

Of modelled parts: the compatibility path for one outbound; consent, the Telegram
sandbox and the cancellation of a call, which nothing asks for; the reservation of
a payment, the fake provider, refunds (no code asks for one); the allocation of row
numbers among leads and the rows of payments in the sheet; the preparations a
version-3 decision commits and the state transitions of the older pipelines;
memories of the older pipeline and the checks of a candidate (any verdict).
`commitAgentTurnV3` has no caller but its tests at this commit.

What the models take for granted: one Stripe session per idempotency key; a follow-up's
conversation is on WhatsApp; the metadata of a call names its session; two requests of one
call's link tool with another course or plan, the second of which is answered without a
write, are one request.

## 8. Plan

1. *Done*: `TurnOwnership` and `InboundBatch` with its proofs; the ledger and both
   delivery paths; the proofs about `BotpressDelivery`; the composition.
2. *Done*: `CallLedger`, `PostCallFollowup`, `PaymentLedger`, `SheetOutbox`,
   `ConversationState`, `MemorySupersession`, and proofs of their safety.
3. *Done*: proofs of the safety of `DirectDelivery`, `PostCallFollowup` and `TurnDelivery`,
   the last from what it is composed of.
4. Payment reports and their jobs on top of `SheetOutbox`; the job leases of the embedding
   and knowledge workers as one parameterised module.
5. Ingestion: idempotency, permissions and declared data in one transaction with the
   batch; the orchestration requests of a call's tools; the agent loop's bounds.

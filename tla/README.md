# Formal models of the multi-agent sales representative

The repository is a FastAPI service and a queue worker that sell second-hand
items on eBay for a seller: Agent 1 collects the item in a chat, Agent 2 prices
it, Agent 3 publishes it, Agent 4 answers buyers, and a daily job marks stale
listings down. These modules model what its processes do to the rows they share
and to eBay, in TLA+; TLC checks them on small instances and TLAPS proves the
central safety properties for all of them. Source paths below are relative to
the repository.

## 1. Inventory

| Component | State it keeps | Operations | What makes it correct |
|---|---|---|---|
| Intake router (`apps/api/routers/intake.py`) | chat messages, `items`, `listings` | `intake_message`, `approve_listing`, two polls | a completed intake is priced; approval queues exactly what it committed |
| Intake agent, Agent 1 (`packages/agents/intake`) | `items.status`, `required_specifics`, fields | tool calls, `_plan_next_step` guardrail | ends within its iterations; completes only with fields and photos; a recovery re-publishes without re-pricing |
| Listing pipeline (`packages/agents/pipeline.py`) | `items`, `listings` | `run_pipeline`, `run_publisher_only` | nothing is published before the approval gate |
| Publisher, Agent 3 (`packages/agents/publisher`) | `items`, `listings`, eBay offer and listing | `run` | the rows mirror eBay; one listing per item; every attempt ends |
| Task queue (`packages/bus/sqs.py`, `workers/sqs_worker.py`) | SQS messages | `enqueue`, receive, process, delete | at-least-once delivery is harmless |
| Database layer (`packages/db`) | all rows; the identity map of each session | select, flush, commit | only changed columns are written |
| eBay Sell adapter (`packages/platform_adapters/ebay/sell.py`) | seller credentials, offers | token refresh, `create_offer`, `publish_offer`, `update_offer_price` | a price is what the caller asked for |
| Pricing, Agent 2 (`packages/agents/pricing/agent.py`, `comparable_filter.py`, `ebay/browse.py`) | none of its own; the result | search rounds, filter, blend, floor, posture | ends; a price lies within its evidence; the floor respects the seller's |
| Reprice (`pricing/reprice.py`, `routers/internal.py`) | `listings.posted_price`, counts, dates | daily scan, reprice task | no markdown below the floor, at most the cap, once per cooldown |
| Comms, Agent 4 (`packages/agents/comms`) | `buyer_messages`, `negotiations`, `clarification_requests` | NLP, tool loop, draft or send, retry | one reply per message; nothing below the floor; risky replies wait for the seller |
| Conversations router (`routers/conversations.py`) | `buyer_messages` | approve, edit, dismiss | a draft is sent at most once, and not after a dismissal |
| Webhook (`routers/webhooks.py`, `ebay/webhooks.py`) | `conversations`, `buyer_messages`, key and token caches | notification | every buyer message is processed once |
| Sale (`comms/sale.py`) | `items`, `sales`, `negotiations`, `listings` | `confirm_sale` | an item is sold once |
| OAuth (`routers/ebay.py`, `ebay/oauth.py`) | `ebay_oauth_states`, `platform_credentials` | connect, callback, refresh | the token of the last consent stands; a nonce is used once |
| Billing (`routers/billing.py`) | billing columns of `sellers` | checkout, Stripe webhook | the row follows the subscription; who pays is known |
| Item images (`routers/images.py`, `storage.py`) | `item_images` | upload | positions in order |
| Settings (`routers/settings.py`) | `sellers` | read, update | its switches act as documented on the others |
| Auth, pages, health, notifications, storage, web client, migrations, scripts, evals | none shared with the above | requests and output | not modelled: stateless, or output nobody reads back |

How they interact. The API and the worker share PostgreSQL and an SQS queue. A
request or task opens one session, reads rows, awaits models and eBay for
seconds, and commits; no handler that a request or a task reaches locks a row. A session
never refreshes a row it has read and flushes only the columns it changed, so
two sessions merge column by column. Messages are queued after the commit (once
before it, `intake/graph.py:213`) and deleted after the handler returns.

Hard behaviours. Stale session copies; commits that are not atomic with the
enqueue or with the call to eBay; at-least-once delivery of a task that has
effects outside the database; an answer lost after eBay acted; requests of the
seller that race with a task; paths that queue two tasks, or none.
`PROJECT.json` lists each hazard at its line.

## 2. What is modelled now

**`Sessions`**: what an SQLAlchemy session flushes, one column at a time.

**`DbRows`**: the rows of `items` and `listings` reduced to the columns the
pipeline decides on (status, price, missing specifics), what a flush writes
(`FlushItem`, `FlushListing`), and the unique constraint
(`Conflict`). `pending` and `removed`, two item statuses the code never assigns,
are left out.

**`ListingPipeline`**: one item. Every query of these handlers is keyed by the
item id, so items do not interact. Its actors:

| Variable | Code | Actions |
|---|---|---|
| `worker[w]` | a worker process, its task and its session's copies of the two rows | `StartPipeline`, `StartPublishOnly`, `PricingSucceeds`, `PricingFails`, `ReachGate`, `HoldForApproval`, `HoldConflict`, `LoadListing`, `SkipLive`, `BeginPublishing`, `BeginConflict`, `PublishSucceeds`, `RecordLive`, `ParkForSpecifics`, `PublishFails`, `DeleteMessage`; faults `PublishTimesOut`, `LoseDelete`, `WorkerCrash` |
| `approval[a]` | a `POST /listing/{id}/approve` request | `ApproveRead`, `ApproveLoad`, `ApproveRefuse`, `ApproveCommit`, `ApproveConflict`, `ApproveEnqueue`; fault `ApproveCrash` |
| `chat` | an intake chat turn | `ChatStart`, `ChatContinues`, `ChatCompletesIntake`, `ChatEndsRecovery`, `ChatCommit`, `ChatAnswersClarification`, `ChatEnqueue`, `ChatReplies`; fault `ChatCrash` |
| `item`, `listing` | the committed rows | |
| `requireApproval`, `clarification` | the seller's switch; an unresolved question of Agent 4 | `ToggleApproval`, `AskSeller` |
| `queue`, `sent` | messages not yet deleted, in any order | |
| `ebay` | the price of the offer, the number of listings shown, and their price | written by the publish actions and `ConfirmSale` |

A step ends where the code awaits something slow or commits. What a session read
stays in its record until the task ends: that is where the races come from. The
chat's flush holds the row lock until its commit (`RowLocked`), which makes other
writers of the row wait. A turn of the chat is reduced to what it does to the
status and the missing specifics; what the model says is any of these outcomes.
eBay publishes, fails, or asks for any set of specifics. With `Channel = "rest"`
an offer is published, once per SKU; with `"trading"`, the sandbox fallback, each
call adds a listing at the caller's price.

History variables: `cleared` (the seller approved, or the gate was found off),
`recommended` (prices Agent 2 stored), `sales`, `recovering` (the last chat turn
ended a recovery) and `raced` (an approval was committed while a publish attempt
was under way or over rows that had changed).

**`PublishGate`**: what the seller is promised, in three variables: an item is
shown only once cleared, at a price that was recommended. `ListingPipeline`
implements it under the mapping `shown <- IF ebay.live > 0 THEN {ebay.price} ELSE
{}`; `cleared` and `recommended` are the history variables of that name.

**`Comms`**: the buyer messages of one conversation, from eBay's webhook to the
reply. Only a seller's clarifications are looked up across conversations.

| Variable | Code | Actions |
|---|---|---|
| `delivery[d]` | a call of `ebay_webhook_receive` | `WebhookReads`, `WebhookSkips`, `WebhookStores`, `WebhookEnqueues`; fault `WebhookCrash` |
| `worker[w]` | a worker, its task, and `run_comms` on it with what its session read and has not committed | `StartMessage`, `StartRetry`, `TakeUp`, `AnnotationExists`; the calls `SendInfo`, `CounterOffer`, `AcceptOffer`, `BreaksFloor`, `DeclineOffer`, `AskSeller`; `AnswersInText`, `FallsBack`, `FinishesCalls`; `KeepsDraft`, `TokenIsValid`, `TokenIsRefreshed`, `PostSucceeds`, `SendFails`, `RecordSent`, `DeleteMessage`; faults `PostTimesOut`, `LoseDelete`, `WorkerCrash` |
| `request[r]` | `approve_draft`, `edit_draft`, `dismiss_draft` | `RequestReads`, `EditIsRefreshed`, `RequestPosts`, `RequestFails`, `RequestCommits`; faults `RequestTimesOut`, `RequestCrash` |
| `answering` | a chat turn that has resolved a clarification | `AnswerClarification`, `QueueRetry`; fault `AnswerCrash` |
| `row`, `annotated`, `open`, `clarifications` | the committed `buyer_messages`, the messages with a row in `nlp_annotations`, the negotiations under way, the questions to the seller | |
| `autonomy`, `linked` | the seller's level; whether the conversation has an eBay listing | `SetAutonomy` |
| `queue`, `serial` | messages not yet deleted | |

What Agent 4's model says is any sequence of up to `MaxCalls` tool calls, plain
text, or a failure at any point. A reply is reduced to the tool that worded it
and to whether the amount in it is below the walk-away price, which is all that
the permission and the floor guard look at. Any tool call sets the reply and so
ends the loop of rounds; the calls of one answer are the only repetition left.
A negotiation and a question are known by the call that made them.
`TakeUp` inserts the annotation, whose unique key makes a concurrent run of the
same message wait and a later one fail. A token refresh inside `send_message`
commits the session it was given: `TokenIsRefreshed` and `EditIsRefreshed` are
those commits, in the middle of a handler.

History variables: `consent` (the kinds of reply agreed to, per message),
`delivered` and `automatic` (what reached the buyer, and how often the agent
sent it), `interrupted` (messages whose worker died after an effect).

**`ReplyConsent`**: what the seller is promised: a reply reaches the buyer only
if the seller released it, or the autonomy level allowed its kind when the
agent took the message up. `Comms` implements it under `level <- autonomy` and
`answered <- ` the pairs of message and kind in `delivered`. `Allowed` is
written from the documentation of the levels (`AutonomyLevel`, `models.py`),
`RequiresApproval` from the code (`_resolve_requires_approval`, `graph.py`).

**`Reprice`**: the markdown of one stale listing. The scan and the task are keyed
by the listing, so listings share the worker only.

| Variable | Code | Actions |
|---|---|---|
| `scan[s]` | a call of `check_stale_listings` | `ScanReads`, `ScanEnqueues` |
| `worker` | the worker with a `reprice_listing` task and the rows it read | `Start`, `StartsInVain`, `Price`, `PricingFails`, `Put`, `PutFails`, `Commit`, `Delete`; faults `PutTimesOut`, `LoseDelete`, `Crash` |
| `listing`, `item`, `cap`, `rows` | the committed listing, the floors, `max_reprice_count`, the `reprice_events` | `SetMaxRepriceCount`, `SetFloor`, `PricedAgain`, `BuyerWrites`, `Sold` |
| `queue`, `shown` | messages not yet deleted; the price on eBay | |

Times are three facts: whether the last activity is older than the threshold
(`idle`), and whether the last markdown is recent (`repriced`); `GoesStale` and
`Cools` let them pass. Prices are whole amounts, and the 3% of guard 2 is
computed on them exactly. Agent 2's answer is any price or none.
Both floors move while the listing is live: `SetFloor` is the chat, `PricedAgain`
the `pricing_node` of a `run_pipeline` that comes again, or that a completed chat
turn queues once more; it writes `min_acceptable_price` before the publisher skips
the live listing. `Commit` ends the task, or raises in `notify_seller` after the
commit and leaves the message in the queue. A REST listing may begin with another
price at eBay than the one on record (`stale_offer_price`).
History variables: `allowance` (the largest cap so far), `lowest` (the lowest floor
so far, or the price it was published or shown at if that is less) and `interrupted`
(eBay's price is not the one on record).

**`Markdown`**: what the reprice promises, in three variables: eBay shows only a
price 3% under the recorded one at least, the record takes only what eBay shows,
and each markdown is counted. `Reprice` implements it.

**`IntakeTurn`**: one conversation of Agent 1 with its client, over one or more
rows of `items`. `turn` is the request with the graph's state and the rows its
session has flushed; `TurnStarts`, `ModelReplies`, `ModelCalls`, then per tool of
`execute_tool` an action (`RecordAttribute`, `InvalidValue`, `GenerateListing`,
`RecordItemSpecific`, `AnalyzeImages`, `RefusedCall`, `AskSellerOrPhotos`,
`MarkIntakeComplete`, `CallRaises`), then per branch of `_plan_next_step` one
(`NothingToPlan`, `AsksForSpecific`, `Republishes`, `LeavesToModel`,
`AsksForField`, `AsksForPhotos`, `Completes`), then `TurnCommits`, and after the
commit `TurnAnswers`, by which the client learns the item's id, or `AnswerIsLost`:
the API dies, the enqueue raises or the answer is lost. `TurnFails` is a turn that is
rolled back. A field is missing or not. History variables: `forgotten` (items whose
id was lost before the client had it), `declared` (the model itself called the item
complete) and `crowded` (two uploads on the item at a time). `upload[u]` is an upload of a photo (`UploadReads`,
`UploadCommits`, `UploadFails`), which runs beside the turn; `PublisherParks` is
the publisher asking for specifics. `ListingPipeline` has what a turn queues.

**`Pricing`**: one run of Agent 2. `search` is `_collect_comparables` (its rounds,
what is kept, seen and fresh), `estimate` the result. eBay answers with any set of
the comparables that the limit and the condition filter allow; the language model
rejects any of those the reject tokens leave. Amounts are in pence.
`MedianPrice` is exact; the weight of the blend (a power of the count), the floor
(a function of the spread) and the confidence (a function of similarities) are
the ranges that the code's formulas can reach.

**`Credentials`**: `nonces`, `callback[c]` and `cred` are the OAuth round trip
(`Connect`, `Consent`, `CallbackReads`, `CallbackDeletes`, `Exchanges`,
`CallbackCommits`, `CallbackFails`, `NonceExpires`); `refresher[r]` is a task in
`get_seller_token` (`TokenIsRead`, `EbayRefreshes`, `TokenIsSaved`,
`RefreshFails`). A refresh token is known by its consent and the rotations since, an
access token by its consent. `CallbackCommits` writes what the unit of work flushes:
a refresh token that is None over a None that was read is not written
(`Unwritten`), so another callback's stays. The delete of a nonce locks its row until
the callback's session ends.

**`Billing`**: `account` is the seller's row, `checkout[c]` and `webhook[h]` the
requests; `subscription[s]` (its customer and its state), `sent` and `pending` are
Stripe. A seller may have any number of subscriptions, at a time too: nothing in the
checkout looks for one. An event may be handled any number of times, by two calls at
once and in any order, until one answers it. History variables: `disordered`,
`parallel` and `rivalry` (below), and `doubled` (a second subscription was paid for
while one ran).

**`SellerSide`** puts these four side by side. They share no state, so it
lets one of them work in a behaviour: an interleaving of several would only lead
to pairs of states that each part reaches by itself. That keeps the instance the sum
of the four and not their product.

**`MCListingPipeline`**, **`MCComms`**, **`MCReprice`**, **`MCSellerSide`**: the
small sets of the runs. `MCSpec` is `SellerSide`'s `Spec` with one initial state of the
credentials for the behaviours in which another part is at work. The operators commented as mutants restate the
definition below them with a plausible mistake; no action uses them, and each
makes the property it is paired with in `PROJECT.json` fail.

### Runs

| Run | Instance | Shows |
|---|---|---|
| `listing_gate` | 2 workers, 1 approval request, 1 price, Trading API, 2 seller requests, 1 fault out of crash, timeout and API crash; duplicates, settings and questions at any time | `TypeOK`, `ApprovalGate`, and `ImplementsPublishGate`, the refinement of `PublishGate` (1.8 million states) |
| `single_worker` | 1 worker, 2 prices, 3 seller requests, 1 lost delete, sales at any time, fairness | `PublishingIsOwned`, `LiveIsMirrored`, `AtMostOneListing`, `PostedPriceIsListed`, `PublishingEnds` (0.5 million states) |
| `recovery_reprices` | 1 worker, 2 prices, no fault | violates `RecoveryKeepsPrice` |
| `sold_twice` | 1 worker, sales | violates `SoldOnce` |
| `stale_offer_price` | 1 worker, REST, 2 prices | violates `PostedPriceIsListed` |
| `clarification_eats_intake` | 1 worker, questions of Agent 4, fairness | violates `CompletedIntakeIsPriced` |
| `comms_desk` | 1 message, 2 workers, 2 tool calls, 1 inbox request, all levels, 1 fault of any kind | `TypeOK`, `OneAutomaticReply`, `NothingDropped`, `OneNegotiation`, and `ImplementsReplyConsent`, the refinement of `ReplyConsent` (1.9 million states up to symmetry) |
| `comms_queue` | 2 messages, 2 webhook calls, 1 worker, 1 tool call, 1 crash, full autonomy, fairness | `QueuedOnce`, `OneNegotiation`, `MessagesAreProcessed` (0.17 million states) |
| `reprice` | 4 prices, 2 floors, 2 caps, 2 tasks, 1 scan at a time, 1 crash, lost delete or timeout, 2 requests, fairness | `TypeOK`, `AuditTrail`, `CapRespected`, `AskingPriceIsAcceptable`, `ShownIsPosted`, `SoldStaysEnded`, `StaleIsAssessed`, and `ImplementsMarkdown`, the refinement of `Markdown` (0.4 million states) |
| `seller_side` | 2 items, 2 uploads, 2 photos, 2 turns of 2 iterations with 2 calls; 4 comparables, target 2, 3 rounds; 2 nonces, callbacks, refreshers and consents, 1 expiry; 2 subscriptions, checkouts, webhooks, events and customers; fairness | `TypeOK`; `OneItem`, `CompleteMeansReady`, `PhotosInOrder`, `TurnEnds`; `VerdictsStand`, `PriceIsGrounded`, `FloorIsKept`, `ConfidenceNeedsMarket`, `PricingEnds`; `LatestConsentStands`, `NonceIsSpentOnce`; `InSync`, `ActiveIsPro`, `PayerIsKnown` (0.8 million states) |
| `floor_bypass` | 1 message, 1 worker, no fault | violates `FloorIsEnforced` |
| `retry_poison` | 1 message, 1 worker, no fault, fairness | violates `AnswersAreUsed` |

Why the bounds are enough. Two workers, an approval and a chat turn give every
pair of actors that meets in the code. Two chat turns and an approval (three
requests) reach needs_specifics, its recovery and the publication after it; two
requests with two workers reach the duplicates of one task, which is where two
workers meet. One fault per behaviour puts a fault at every point. One price is
enough where only NULL against a price matters, two where an old price meets a
new one. `MaxRequests`, `MaxDeliveries` and `MaxFaults` are guards on what
comes from outside, `MaxCalls` on what the model says; nothing bounds the tasks
themselves. In `comms_desk` two workers meet on one message through a duplicate
of its task or through the retry that a question leads to; two calls let one
call of a turn follow another with a different permission, or find the
negotiation the first one opened. The inbox request may meet any of this, and
the draft too. Its workers are interchangeable and its properties are safety
properties, so the symmetry set is sound. In `comms_queue` two messages share a
conversation and compete for a worker, or one message is announced twice; the
level, which liveness does not depend on, is fixed at the one that sends. The
system may stop once the requests are used up, so deadlock is not checked.

In `reprice` two tasks can be queued at a time, which is what lets the count and
the floor be checked after another task, the chat or the pipeline has changed them; of
the prices, 98 is under 100 by less than 3%, 60 and 80 are floors, and two markdowns
reach the larger cap. `MaxFaults` and `MaxRequests` bound what comes from
outside; one scan at a time suffices, for it begins again while its task
is queued. In `seller_side` two turns of two answers with two calls each make an
item in one call and lose it in the next, in a turn that fails or in an answer
that never comes, and the next turn makes another. Two photos are the minimum, and
both uploads may be on one item. Of the four comparables one
has no price, one a reject token and one another condition, so a round may find
nothing new, find what was rejected, or overshoot the target of two. Two
callbacks may hold one nonce or two codes, two may read a row without a refresh
token that one of them then stores, and both refreshers may hold the row
from before a second consent. Two checkouts may make two customers or lead to two
subscriptions; the two events may be the beginning and the end of one, and both
webhook calls may hold one event or two out of order. A third item beside one that was
forgotten, and a subscription after one that has ended (three events), are beyond this
instance and left to the theorems; each was run once for its part alone. `MaxCalls`, `MaxTurns`,
`MaxPhotos`, `MaxConsents`, `MaxExpiries`, `MaxEvents` and `MaxCustomers` are
guards on what comes from outside; `MaxIterations`, `Target` and the three rounds
are the code's own, the first two smaller than in the code (10 and 20): what they
bound is counted the same way.

What the second run excludes, and why. It has one worker, which is what
`docker-compose.prod.yml` deploys, and no crash, duplicate or timeout: with the
Trading API each of these can publish an item twice (`publish_offer` is not
idempotent and its result is committed afterwards), and an API that dies between
commit and enqueue strands an item in `publishing`. These are limits of the
design that no document of the repository claims away, so they are stated here
and not as findings. Three of its invariants also except histories with `raced`:
`approve_listing` checks rows it does not lock.

What the properties of `Comms` except, and why. `send_message` is not
idempotent and `run_comms` commits after it: a worker that dies in between
answers the buyer again when the task comes back, and one that dies after a
token refresh has committed its annotation leaves a message that no run can
take up any more; both are excepted by `interrupted`, for that message only.
`OneNegotiation` is checked with two messages under one worker: two workers on
two messages of a conversation may each open one, since
nothing locks the conversation. A webhook call that dies between commit and
enqueue strands its message, so `comms_queue` has no `api_crash`. Nothing stops a
second approval of a draft from sending it again: what the inbox promises is
consent, not a count, so no property counts the seller's replies.

What the properties of `Reprice` and of `SellerSide` except, and why. The PUT and
the commit of a markdown are two steps: eBay's price is off the
record when the worker died or an answer was lost in between, or when the publisher
left it so (`interrupted`); the redelivered task then starts from the old row. There is
one worker, as deployed. After such a crash eBay's price may even rise again, as long
as it stays 3% under the recorded one: `Markdown` promises no more. The publisher posts
the recommended price even below the seller's floor, and a floor may be raised above
the price of a live listing at any time, by the seller or by a run of the pipeline.
So `AskingPriceIsAcceptable` does not compare with the floor of the moment: it says
that no markdown goes below every floor there has been (`lowest`).
The id of an item is lost when a batch of tool calls goes wrong, when the API dies or
the enqueue raises after the commit, or with the answer: the next turn begins
another item. `OneItem` excepts the rows so lost (`forgotten`) and no others.
`mark_intake_complete` looks at no field and no photo (`declared`). Two uploads of
one item may take one position (`crowded`), but none is ever ahead of its place.
Two callbacks may spend one nonce, whose second delete finds no row and only
warns (`overlapped`). A rotated refresh token may overwrite the one of a newer
consent (`rotated`), and one that an overlapping callback stored outlives a
consent that came without one (`saved`); access token and refresh token may then be of
two consents, which no property denies, as an access token lasts two hours. The
webhook of Stripe compares no times, so an old event
handled after a new one stands (`disordered`), two at a time mix their columns
(`parallel`), and two checkouts may make two customers (`rivalry`). No document
denies these, so they are stated here and not as findings. Two subscriptions at a
time (`doubled`) are excepted from `InSync`; see the disagreements below.

Fairness. `FairSpec` is weakly fair for each worker's steps, each approval's
and the chat's: an event loop runs a request that has started and the worker
loop polls for ever. In `Comms` it is weak for each webhook call, for
each worker's steps and for the enqueue of an answered question, and strong for
handing out each queued message: SQS offers a message again after every
visibility timeout until it is deleted, so one that is receivable again and
again is received, whatever else is in the queue. `Reprice` is weakly fair for the scan, which
EventBridge fires every day, for taking a message and for the steps of the
worker; its queue has one kind of task and a failing one does not keep the
worker from the other. `SellerSide` is weakly fair for the steps of a turn and of a
pricing run, whichever is at work: the event loop goes on with what it has begun. No fairness is given to a
seller's new request, to a buyer, to the settings, to the inbox or to a fault.

### Disagreements with the documentation

The six violation runs, with the lines they contradict, are in `PROJECT.json`
under "findings": a finished recovery re-prices the item; an item can be sold
again; a re-used offer keeps its old price while the database records the new
one; a chat turn that completes an intake is swallowed by an open clarification;
an offer that the floor guard refused is sent to the buyer, because the refused
call still supplies the reply; and the run that should use the seller's answer
fails on the unique annotation of the first run each time it is delivered.
`confirm_sale` has no caller but its tests: the model takes it as the step that
ends a sale, whoever will call it.

Two more have no run of their own; the models have their behaviours and claim
nothing that denies them.

- The cooldown of the markdown. `internal.py:45-46` says "don't enqueue the same
  listing more than once per day even if EventBridge double-fires or the SQS task is
  re-delivered". Neither holds: the scan tests `last_repriced_at`, which only a finished
  markdown moves, and the task does not look at it. In `Reprice` a second `ScanReads`
  before the first task's `Commit`, a `LoseDelete`, or a `Commit` after which
  `notify_seller` raises (`reprice.py:146-156`, `notifications.py:29`) each lead to two
  markdowns without a `Cools` between them. TLC finds that of
  `[][Len(rows') > Len(rows) => listing.repriced # "recent"]_vars` at once, also without
  any fault. What bounds the markdowns is the cap (`CapRespected`).
- Two subscriptions. `stripe_webhook` is to "keep subscription state in sync"
  (`billing.py:108`), but the checkout (47-78) does not look for a running
  subscription, and the handler (136-161) compares no ids: with two paid
  checkouts of one customer the end of either puts the row on `canceled` and `free`
  while the other runs, all events answered in order. TLC finds it in `Billing` with
  three events, as a violation of "once `Settled`, the plan is pro while a subscription
  is active or in trial", which is what `InSync` says without `~doubled`.

Smaller ones, which the models follow the code in and no run is made for. The
docstring of `reprice.py` (lines 8-9) clamps to "the larger of" two floors, and
line 110 takes the seller's alone when there is one. `_price_consistency_score` says a
single price scores 1.0 and returns 0.22 (`pricing/agent.py:366`, 370).
`_blend_price` says the median keeps its full share from six comparables on,
where its weight decays with their number (768-776), and the docstring of `run`
has fixed weights (844). `_persist_prediction` says that it goes on without
logging, but a failed flush leaves a session that refuses the caller's next
statement (758).

### Proofs

**`ListingPipeline_proofs`.** For every set of approval requests, prices and
specifics and any bounds, from the named assumptions on the constants; the first
four for every set of workers, either channel and any subset of the events too, the
others under the hypothesis they name:

| Theorem | Statement |
|---|---|
| `TypeCorrect` | `Spec => []TypeOK` |
| `GateInvariant` | `Spec => []GateInv` |
| `ApprovalGateHolds` | `Spec => []ApprovalGate` |
| `KeepsPromise` | `Spec => ImplementsPublishGate` |
| `OwnedInvariant`, `PublishingIsOwnedHolds` | `Spec => []OwnedInv`, `[]PublishingIsOwned`, if `NoAttemptIsDropped` |
| `MirrorInvariant` | `Spec => []MirrorInv`, if `OneWorker` |
| `LiveIsMirroredHolds`, `AtMostOneListingHolds` | `Spec => []LiveIsMirrored`, `[]AtMostOneListing`, if `OneWorker` and `AnswersAreRecorded` |
| `OfferIsListedOnce` | `Spec => []AtMostOneListing`, if the channel is `"rest"` |
| `PostedPriceIsListedHolds` | `Spec => []PostedPriceIsListed`, if `OneWorker` and the channel is `"trading"` |

`ApprovalGate` is not inductive: it speaks of eBay, and what will be published
is decided earlier, in the copies a session holds and in the tasks that are
queued. `GateInv` adds two parts. `PricesAreRecommended`: the prices of the
item, of the workers' copies and of the offer are NULL or recommended, and a
session holds one only if the item has one.
`PublishingIsReady`: whoever is past the gate, or will be without meeting it (a
queued or running `publish_only`, a committed approval, a row or a copy in a
state from which `publish_only` is queued), implies that the item was cleared
and has a price. The preservation lemma `GateStep` has one step per action. The
row operators enter through lemmas on what a flush returns (`FlushColumns`:
each column is the database's or the session's). `KeepsPromise` follows from
`GateInv` and `PromiseStep`: each step maps to one of `PublishGate`'s or to a
stutter. TLC checked `GateInv` on both instances before it was proved.

`PublishingIsOwned` says only that somebody is about. What is inductive is
`OwnedInv`: an item that is `publishing` has a worker at the attempt
(`Attempting`), or somebody will begin one (`Coming`: a committed approval, an
untaken task, a worker on its way) *and the listing does not say `live`*, for then
that worker would skip it and leave the item as it is. `MessagesAreKept` (a lone
worker's task stays queued until it is through) gives the task back when that worker
dies. `ListingStays` (a row of `listings` that exists stays, and an item that is
`publishing` has one) means that whoever brings the attempt read that row, so that
the unique constraint cannot stop it on the way. `SessionsAreConsistent` says what the
copies still decide; `LiveIsKnown` says that a lone worker has seen every live listing.
`NoAttemptIsDropped` asks that the API lives from the commit of an approval to its
enqueue (`routers/intake.py` queues after the commit, and nothing looks for what it
did not queue), and that there is one worker or none dies. Both are needed. TLC has
a behaviour of two workers in which one dies at the attempt, the other publishes by
another task, and the first's redelivered task finds the listing live and is skipped,
the item still `publishing`. Workers that are handed the same message do no harm.

`MirrorInv` is about the other row, for one worker under every event; it says nothing
once `raced`. `SessionIsCurrent`: from its look at the row to the end of its attempt a
session holds the row as it is, or saw it live and will skip it, so that a flush
writes what the code means although it skips unchanged columns (`FlushCurrent`).
`PricesAgree`: during an attempt the copy of the item has the price that the row has,
and a live row has the price at eBay; an attempt that died or timed out leaves
listings behind, but the row is `live` only for the last one. `EbayIsMirrored`: eBay
shows one listing at most, and one exactly when the row says `live`, but for a worker
between the two. This part asks for `AnswersAreRecorded`: the worker neither dies
between eBay's answer and its commit nor loses the answer. Either leaves a listing on
eBay that no row knows of, and a redelivery adds a second on the Trading channel; so
can two workers. TLC has a behaviour for each. On the REST channel `AtMostOneListing`
asks for nothing, as eBay publishes an offer once.
Sales, approvals, chat turns, duplicates and lost deletes are free. All the hypotheses
hold of `single_worker`; TLC checked the invariants on it and on instances with
further events, two workers and the REST channel before they were proved.

**`Comms_proofs`.** For every set of messages, workers, webhook calls and inbox
requests, any subset of the levels and of the events, and any bounds, from
`LevelsAssumption`, `EventsAssumption` and `BoundsAssumption` only:

| Theorem | Statement |
|---|---|
| `TypeCorrect` | `Spec => []TypeOK` |
| `DeskInvariant` | `Spec => []DeskInv` |
| `OneAutomaticReplyHolds` | `Spec => []OneAutomaticReply` |
| `KeepsConsent` | `Spec => ImplementsReplyConsent` |

`DeskInv` strengthens the two properties. `RepliesExist`: once a call has been
made, a worker holds a reply and not the empty one, and a request about to post
does too. `Permitted`: the consent of a turn covers what its level allows, its
permission to send covers the reply it holds at that moment, and a request
about to post has consent for its text, whatever the level and the draft have
become since; it is what makes each delivery an `Answer` of `ReplyConsent`.
`AnsweredOnce`: one turn of a message is in progress at a time, a message that
the agent answered is annotated unless the worker that answered it is still
before its commit, and no turn starts on an annotated message; only
`interrupted` breaks the chain. Each part has a preservation lemma with one
step per action. TLC checked the parts as invariants before they were proved.

**`CommsLoss_proofs`.** In the same generality, the first two independent of `DeskInv`:

| Theorem | Statement |
|---|---|
| `QueuedOnceHolds` | `Spec => []QueuedOnce` |
| `NothingIsDropped` | `Spec => []NothingDropped` |
| `OneNegotiationHolds` | `Spec => []OneNegotiation`, if `OneTurn` |

`StoredInv`: whatever speaks of a message (a task, an annotation, a question, a
worker, a request, a webhook call past its insert) speaks of one that is stored, so
that the insert of a webhook call never overwrites a row in use. It also says that
a request in progress will mark its row as acted on, if the row is not marked
already, and clear its approval. `OneQueues`, for the first theorem: one webhook
call is about to queue a stored message, or one task of it is queued. `Kept`, for
the second: a draft waits only for processed messages and a turn starts on a row
without one, so that its flush does write `requires_approval`, although a flush
skips what the session did not change; and whoever is before the last commit has
answered. `Talks`, for the third: the committed negotiations, changed by what a
turn under way has not committed, are one at most. `OneTurn` (one worker, or one
message, whose annotation is one turn's by `DeskInv`) makes that turn the only one:
two turns that both find no negotiation would open one each.

**`Reprice_proofs`.** For any prices, floors, caps, tasks and scans, any faults and
any bounds:

| Theorem | Statement |
|---|---|
| `TypesOK` | `Spec => []TypeOK` |
| `Audited`, `Shown`, `Capped`, `AskingPriceAcceptable` | `Spec => []AuditTrail`, `ShownIsPosted`, `CapRespected`, `AskingPriceIsAcceptable` |
| `Refinement` | `Spec => ImplementsMarkdown` |
| `SaleStands` | `Spec => SoldStaysEnded` |

Lemma `Effects` sorts the steps: a step posts a price on eBay (`Posts`), records
one (`Records`), or leaves price, count and events alone (`Quiet`). On it rest the
inductive parts. `Current`: the row a worker read still has the price and count
of the database, since only the one worker writes them; without it the columns
that a commit skips (`Sessions`) could be anybody's. `Pending`: between the PUT
and the commit eBay shows the price that will be recorded. `Covered` adds to the
cap that a worker at work read a count below a cap the seller had set;
`Acceptable` adds to the prices that the floor of now and the one a worker read
are not below `lowest`, however often the seller or the pipeline has moved them since.

**`IntakeTurn_proofs`.** For any items, specifics, uploads and photos, and whatever
the model calls:

| Theorem | Statement |
|---|---|
| `IntakeTypes` | `IntakeSpec => []IntakeTypeOK` |
| `OneItemOnly`, `CompleteIsReady`, `PhotosNumbered` | `IntakeSpec => []OneItem`, `CompleteMeansReady`, `PhotosInOrder` |

Four parts strengthen them. `Bounded`: the loop asks the model only below its
limit. `Ready`: a completed row is ready in the database and in the copy of the
session, which the commit will write. `Single`: of the rows whose id is not `forgotten`, the one that is stored
is the one the client knows or is being told of, and during a turn the one that the
state of the graph, or the batch of calls under way, carries. `Ordered`: an upload
holds the next position, and no other is at work on its item, unless they met; then it
holds one that was the next when it looked (`Behind`).

**`Pricing_proofs`.** For any comparables with any prices, any target, and whatever
eBay, the language model and the price model answer:

| Theorem | Statement |
|---|---|
| `PricingTypes` | `PricingSpec => []PricingTypeOK` |
| `RejectedStaysOut` | `PricingSpec => []VerdictsStand` |
| `GroundedPrice`, `FloorKept`, `MarketBeforeConfidence` | `PricingSpec => []PriceIsGrounded`, `FloorIsKept`, `ConfidenceNeedsMarket` |

The search (`SInv`: what is kept was found and not rejected) is separate from the
estimate (`EInv`: it stays as it was made). The arithmetic is in lemmas: the median
lies between the lowest and the highest price however the two middle ones round
(`MedianAmongPrices`), so do blend and recommendation (`RecommendedIsGrounded`).
That a finite set of prices has a lowest and a highest one (`Extremes`) follows
from a smallest set without, as the strict subsets of a finite set are well founded.

**`Accounts_proofs`.** The eBay account (`Credentials`), for any nonces, callbacks,
refreshers and bounds, and the Stripe account (`Billing`), for any subscriptions,
checkouts, webhook calls and events, in any order and any number of times:

| Theorem | Statement |
|---|---|
| `CredentialsTypes` | `CredentialsSpec => []CredentialsTypeOK` |
| `ConsentStands`, `NonceSpentOnce` | `CredentialsSpec => []LatestConsentStands`, `NonceIsSpentOnce` |
| `BillingTypes` | `BillingSpec => []BillingTypeOK` |
| `PaidIsPro`, `PayerKnown`, `StaysInSync` | `BillingSpec => []ActiveIsPro`, `PayerIsKnown`, `InSync` |

`NInv`: a nonce that has led to tokens is gone (`Used`), two callbacks that hold
one nonce have overlapped (`Shared`), and so has a callback that still holds one
that was spent (`Late`). `LatestConsentStands` is inductive by itself once
a flush is known to skip the refresh token that an answer left as it was; what a
callback's flush skips (`Unwritten`) leaves the consents that may stand, `saved`, as
they were.

`LastEvent`: as long as no second subscription was paid for while one ran, none
runs but the one of the last event, which has its status. `Copied`: a handler that runs alone holds a copy that agrees with the row, except
for the customer, which a checkout may set meanwhile. `OneCustomer`: without
rivals, checkouts, row, subscriptions and events know one customer. `UpToDate`: every
event answered is as old as the newest one handled, which is the one the row
shows; `InSync` follows when all are answered, the newest being the last.

**`SellerSide_proofs`.** For every value of the four parts' constants:

| Theorem | Statement |
|---|---|
| `SideInvariant` | `Spec => []SideInv` |
| `SellerSideTypes` | `Spec => []TypeOK` |
| `SidePromises` | `Spec => []` the twelve invariants of the four parts, together |

`IntakeSpec`, `PricingSpec`, `CredentialsSpec` and `BillingSpec` are the parts' own
specifications. By `PartsStep` a step of `SellerSide` is one of a part and leaves the
others alone, so a behaviour is, for each part, one of its own (`PartsBehave`, but
for fairness), and the parts' inductive invariants together are one of the whole
(`SideInv`). A `LEMMA` per part carries its invariant over a step; they are cited, not
repeated.

**Only model-checked.** Liveness (`PublishingEnds`, `MessagesAreProcessed`,
`StaleIsAssessed`, `TurnEnds`, `PricingEnds`) rests on fairness, which is out of the
prover's reach. Every invariant and every action property of a passing run, and
every refinement, is proved; `PublishingIsOwned`, `LiveIsMirrored`, `AtMostOneListing`,
`PostedPriceIsListed` and `OneNegotiation` under the hypotheses above, since without
them the code does not keep them.

## 3. Plan

Done: the pipeline, the inbox and Agent 4, the reprice, the intake conversation,
the pricing run, the credentials and billing. Left, in order of importance:

1. `SaleConfirmation`: two confirmations of one item under the row lock, with the
   identity map of each session, once something calls `confirm_sale`; abstract
   specification: sold once.
2. The creation of conversations by the webhook, and its caches of keys.

## 4. Not modelled

Without `SQS_QUEUE_URL` the API runs the tasks in its own process
(`BackgroundTasks`); only the deployed mode with SQS is modelled. The wording
of prompts and replies, the report on the photos, the titles of comparables and
the price model are data: any result, or an exception. Of the webhook, the creation
of the conversation, the signature check and the caches of keys are left out; of
the settings, the profile and the disconnection of eBay. Authentication, pages,
health checks and lists are requests that keep no state; notifications
and events are output that nothing reads back. SQS's dead-letter policy is not in
the repository; a failing message stays in the queue. A client that gives up on a turn
and sends the next while the first still runs is not in `IntakeTurn`, nor is a `run_pipeline`
of a second worker beside a markdown in `Reprice`: one worker is deployed. The web client, the
migrations, the scripts and the evaluations are outside the running protocol.

## 5. Running

    tlc -workers 2 -config ListingGate.cfg MCListingPipeline
    tlc -workers 2 -config ListingSingleWorker.cfg MCListingPipeline
    tlc -workers 2 -config CommsDesk.cfg MCComms
    tlc -workers 2 -config CommsQueue.cfg MCComms
    tlc -workers 2 -config Reprice.cfg MCReprice
    tlc -workers 2 -config SellerSide.cfg MCSellerSide
    tlapm ListingPipeline_proofs.tla
    tlapm Comms_proofs.tla
    tlapm CommsLoss_proofs.tla
    tlapm Reprice_proofs.tla
    tlapm IntakeTurn_proofs.tla
    tlapm Pricing_proofs.tla
    tlapm Accounts_proofs.tla
    tlapm SellerSide_proofs.tla

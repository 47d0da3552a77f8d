# RAWWERS backend: TLA+ verification project

RAWWERS is a marketplace where clients book photographers. Its backend
(`api/`, FastAPI, SQLAlchemy over Postgres, Celery, Stripe) moves money and points:
it takes payments for a gig, books them, credits the photographer, refunds,
settles disputes and pays out; around that it keeps calendars, galleries, courses,
shares, chats and mails. The mobile and web clients (`app/`, `web/`) keep no state of
their own that matters here.

This directory holds TLA+ models of the backend, the TLC configurations that
check them on small instances, and TLAPS proofs of what can be shown for every
instance. Source paths below are short: `services/`, `tasks/`, `models/`,
`api/v1/` and `db/` are under `api/app/`, `docs/` and `tests/` under `api/`, and a
bare `payouts.py` or `disputes.py` is the one under `services/`. `PROJECT.json` has
every path in full, and for every definition the lines it models.

| module | what it is |
|---|---|
| `Payouts` | earnings ledger, holds, payout requests, `payout.execute`, transfer webhooks |
| `Inbox` | abstract specification: what the outbox promises |
| `Outbox` | webhook ingestion and the outbox dispatcher; implements `Inbox` |
| `GigPayments` | the payments, selection, earnings, refunds and refund cases of one gig |
| `Disputes` | the disputes over one gig, what they hold, decisions and refund cases |
| `Selections` | a fixed-price gallery: selections, extra photos, what may be fetched |
| `Rewards` | a user's reward points and the redemptions that spend them |
| `Minting` | points minted for paid work and their reversal |
| `Prints` | one print order, from its lines to its export |
| `Studioverse` | one content pack, its review and sale |
| `Sharing` | a public share link, its views and the points they earn |
| `Consents` | what a client lets be done with photos, points given and taken back |
| `Growth` | referrals: arrival, conversion, reward |
| `Gamification` | credentials, milestones and cycle points |
| `Skills` | a photographer's tier in a niche, its badge, overrides |
| `Bookings` | the calendar of one photographer |
| `Onboarding` | how a photographer comes to be listed and bookable |
| `Invites` | one wave of invite codes |
| `Learning` | the courses of one curriculum, completion, certificates |
| `Repairs` | repair tickets, loaners and gear items |
| `Risk` | risk rules, actions in force, the payout freeze |
| `Notifications` | mails and messages inside the application |
| `Calls` | follow-up jobs and phone calls |
| `Chats` | a chat an AI assistant answers |
| `Media` | photos and videos, from the upload to the gallery |
| `SearchIndex` | the search index kept beside the database |
| `LegacyShoots` | a legacy shoot and its vault |
| `Pricing` | what a booking costs, what is paid for it, how the money divides |
| `PayoutsProofs`, `OutboxProofs`, `GigPaymentsProofs`, `DisputesProofs` | theorems about money and disputes, and their proofs |
| `PointsProofs` | theorems about `Rewards`, `Minting`, `Sharing`, `Consents`, `Growth`, `Gamification` |
| `OperationsProofs` | theorems about `Bookings`, `Invites`, `Onboarding`, `Risk`, `Repairs`, `SearchIndex` |
| `ServiceProofs` | theorems about `Learning`, `Skills`, `Calls`, `Selections`, `Pricing` |
| `SalesProofs` | theorems about `Media`, `LegacyShoots`, `Chats`, `Prints`, `Studioverse`, `Notifications` |
| `MCPayouts`, `MCOutbox`, `MCGigPayments` | constants and symmetry sets for TLC |
| `MCPlatform`, `MCOperations` | small instances of the other modules, in two groups |

## 1. Inventory

### How the code runs

* **A handler is a database session.** `db/session.py` opens sessions with
  `autoflush=False` at Postgres' default isolation, READ COMMITTED. A request or
  task reads rows, computes, and commits once. Except for a few places
  (`claim_pending_outbox_events`, the balances of points and credits, the invite
  waves) nothing is locked, so the reads may be stale by the time of the commit,
  and an UPDATE by primary key writes the changed columns over whatever is there.
* **Unique constraints** are what stops duplicates: one earnings entry per
  source, one allocation per request and entry, one outbox row per idempotency
  key, one ledger entry per reference where there is a key, and the exclusion
  constraint of confirmed slots.
* **Work travels through the outbox.** Webhooks and handlers insert outbox rows
  in their own transaction; a periodic task claims them with `FOR UPDATE SKIP
  LOCKED`, runs the handlers of a batch and commits once.
* **The world is asked in the middle of a session**, before its commit: Stripe,
  the mail and telephone providers, the search provider, the language model, the
  broker of Celery. Stripe's calls carry idempotency keys; its events arrive
  later, in any order, maybe before the session that caused them has committed.

### Components

| component | state | hard part | correct when |
|---|---|---|---|
| **Earnings and payouts** (`payouts.py`, `api/v1/payouts.py`) | entries, holds, requests, allocations | no locks between scan, hold, refund and approval; Stripe call before commit; webhooks out of order | nothing spent twice, held or reversed money not paid, transfers reconciled |
| **Outbox and ingestion** (`services/outbox.py`, `tasks/outbox_tasks.py`, `api/v1/webhooks.py`) | rows with status, attempts, due time; keys | several workers, one transaction per batch, handlers that raise or break the session, dying workers | applied once, never lost once acknowledged, eventually settled |
| **Gig payments, completion, refunds** (`services/gig_state.py`, `payment_intents.py`, `gallery_completion.py`) | gig, payments, selection, entry, refund cases, ledger | events against a gig that moved on, matching refunds to cases, partial failure of several refunds | ledger matches what was captured, cases match refunds |
| **Disputes** (`disputes.py`, `tasks/dispute_tasks.py`) | disputes, holds, decisions, cases | status written over a decision, a freeze looked for without a lock, a sweep that escalates what was decided | a decision survives, what is disputed stays held |
| **Galleries, selection, extras, downloads** (`api/v1/proof_galleries.py`, `api/v1/media_rights.py`) | selections, purchases, entitlements | another selection saved while extras of the first are bought | only what was paid is handed out |
| **Rewards and store** (`services/rewards.py`, `store.py`) | balance, redemptions, orders | redemptions decided on before the balance is locked, failed attempts, late events | points are conserved |
| **Minting, sharing, consents, referrals, credentials** (`services/proof_of_gigs.py`, `client_rewards_pricing.py`, `media_rights.py`, `growth_engine.py`, `gamification.py`) | ledger entries under references | evaluated again, by overlapping workers, from rows that changed | each reason pays once and is taken back once |
| **Prints, content packs** (`services/prints_fulfillment.py`, `studioverse.py`) | orders, jobs, packs | events out of order; a pack edited during its review | captured money is produced once, what is sold was validated |
| **Bookings** (`services/scheduling.py`, `api/v1/scheduling.py`) | requests, slots, gigs | overlapping confirmations and moves, expiry against acceptance | no double booking |
| **Onboarding and invites** (`services/launch_ops.py`, `discovery_index.py`, `api/v1/pro_onboarding.py`) | stages, KYC, public row, codes | a decision committed apart from the row it changes; a counter beside the codes | the listing follows the profile, waves keep their limit |
| **Trust and safety** (`services/trust_safety.py`) | scores, actions, account changes | a freeze decided from timestamps in the middle of a request | a fresh account is reviewed |
| **Learning, skills, repairs** (`services/learning.py`, `niche_skills.py`, `repair.py`) | progress, tiers, badges, tickets | completions and gradings that overlap | certificates are earned, one badge per niche, tickets name an item |
| **Mail, calls, chat** (`services/notifications.py`, `call_compliance.py`, `ai_concierge.py`) | messages, jobs, calls, threads | the provider is told before the commit; long waits in the middle of a session | sent once, within limits, answered once |
| **Media, search, legacy shoots** (`tasks/media_tasks.py`, `services/search_indexing.py`, `legacy_shoot.py`) | assets and copies, documents, vault | overlapping runs, retried events, repeated answers | galleries are whole, the index catches up, what is final was accepted |
| **Prices and invoices** (`package_pricing.py`, `selection_quote.py`, `commission.py`, `tax.py`, `invoices.py`) | settings, rates stamped on a gig, amounts | settings read at the booking, at the selection and at the invoice | photos billed once, invoices as stamped |
| Authentication, Stripe wrappers, helpers, tooling, clients | | not modelled, see section 5 | |

`PROJECT.json` lists every component with its files and status, and under
`hazards` the lines where each of the hard behaviours bites, with the properties
that would catch it going wrong.

### Interactions

A Stripe webhook is stored (**ingestion**), claimed (**outbox**), and applied to the
**gig** (payment, refund, chargeback), to **extras**, an **order**, a **print**, or a
**payout** (transfer). Completing a gig creates an **earnings entry**, which the
settlement scan makes available, asks for a **mint** and grades a **skill**; a
dispute places a **hold** on it; a refund reverses or reduces it and takes the
mint back. A request for payout passes the **risk** freeze, is approved by an
admin, which allocates entries and enqueues `payout.execute`; its handler calls
Stripe and later webhooks confirm or fail it.

Modules meet in rows and keep to one side of them. `Payouts` and `GigPayments`
meet in the earnings entry: `GigPayments` decides when it is created, reversed and
reduced, `Payouts` takes those as inputs that may come at any time. `Disputes` asks
for refunds, `GigPayments` models what a refund does to the gig. `Skills` sends the
recomputations of `Gamification`, which may begin at any time there. What a risk
action forbids elsewhere (`Rewards`, `Sharing`, `Growth`, `Minting`) is a switch of
those modules. All rely on what `Inbox` promises of events, weakened where the
code weakens it: a handler that raises keeps its half-done columns.


## 2. The models

### Conventions

* **A handler is two steps.** `BeginX(s, ...)` is a session that has read its rows
  and passed the guards of the code; what it will write is kept in the session's
  variable (`tx`, `sess`, `shopping`, `docket`, ...). `CommitX(s)` writes only the
  columns the handler changed, over whatever was committed in between, as
  SQLAlchemy's UPDATE by primary key does. What the code reads under a row lock
  (balances, invite waves) is read at the commit instead. Handlers whose overlap
  changes nothing that is modelled are one step, and their module says so.
* **Sessions die.** `Crash`, `Abort...`, `GiveUp...` and `Lose...` end a session before its
  commit: an exception, a constraint that refuses the commit, or a dead process.
  What was asked of the world until then stays asked.
* **Unique constraints** are conditions on the commit, not on the read: where the
  code catches the error the step goes on as the code does, elsewhere it is
  refused and the session dies.
* **Data is as small as the properties allow**: cents and points are integers,
  hours are numbers, photos are counted, texts are left out.
* Operators whose name contains `Mut` are deliberately wrong forms of the
  definition that follows them. Nothing uses them but the mutation tests listed
  in `PROJECT.json`, which put each in the place of the right one and expect TLC
  to find the property violated.

### Money

**`Payouts`** is one photographer's money. `entry`, `hold`, `req`, `alloc` and `event` are
the tables `earnings_ledger_entry`, `earnings_hold`, `payout_request`,
`payout_allocation` and the request's `payout.execute` row; `active` says whether the
account can be paid by Stripe. `sent`, `bounced`, `bank` and `hooks` are the world:
transfers at Stripe, manual transfers, webhooks not yet applied. The plan of a
session is in `tx[s]`; `CallStripe` comes between `BeginExecute` and `CommitExecute`. `Fee`
and `Net` round as `compute_fee_breakdown` does, and `Greedy` is the loop of
`_allocate_payout_amount`. Of Stripe it is assumed that an idempotency key always
returns the first transfer; answers may be lost (`LostAnswers`), transfers may
bounce, and webhooks come in any order unless `OrderedHooks`.

**`Outbox`** is the machinery: `BeginIngest`/`CommitIngest`/`AbortIngest` are a webhook
request, `Claim`, `Dispatch`, `CommitBatch` and `EndSweeps` a run of
`dispatch_outbox_events`, `Backoff` the passing of a retry's delay, `CrashWorker` a worker
that dies. `applied` and `partial` are ghosts that count the effects committed for an
event and its half-done runs. Which handlers may raise (`MayRaise`) or break the
session (`MayBreak`, `MustBreak`) is a parameter. **`Inbox`** promises the senders of
events: an event is absent, queued, done or dead, takes effect when it becomes
done and never otherwise. `Outbox` implements it under the mapping of `AsInbox`.

**`GigPayments`** is one gig. `db` is its rows flattened to one record (gig status, two
payments, selection, entry, one refund case for each payment and origin), `ledger`
the Kosh ledger, `stripe` the intents and refunds at Stripe, `inbox` the events not
applied, `sent` those Stripe has sent, `done` and `dead` those the outbox has settled.
`Handle(op, d)` maps the rows read to an outcome: new rows, rows as they are if the
handler raises halfway, bookings, refunds wanted. `CallStripe` asks for the refunds in
the code's order up to the first refusal; `Commit` merges the changed columns.
`Features` chooses which of the optional operations a run allows.

**`Disputes`** are several disputes over that gig: `dispute`, `resolution`, `cases` are rows,
`frozen` counts active entitlement holds, `heldBack` active earnings holds; `decisions`
and `settled` are ghosts. Every session, the escalating sweep included, may write
over a status committed meanwhile. **`Selections`** is a gallery with a fixed price:
`picks` (selections by version), `extras` and `lastBought` (purchases), `intent` (Stripe),
`rights` (entitlements), `gate` (the gallery), and Stripe's `news`.

**`Pricing`** is a photographer's settings (`curve`, `caps`, `package`, `feePercent`, `credit`,
`taxes`, extra prices) and gigs that carry the rates they were made under. `PriceAt`,
`Sums` and `PackageTotal` are `price_at_photo` and the sum over photos; `MinimumAmount` is the
deposit, `Due` the difference, `Invoice` what `build_invoice` says of a gig. Every setting has
an action, so it may change between a booking and its selection. `pricedBy` and
`submissions` are histories. Amounts are in cents and rounded half up as `quantize` does.

### Points and sales

* **`Rewards`**: one user's ledger and balance, redemptions spent by store orders, the
  gig's payment and extras, or asked for directly; intents at Stripe and their events.
* **`Minting`**: `raww_mint` rows of a gig and its extras, the daily cap, freeze and floor,
  and the reversal that each refund asks for under its own event.
* **`Sharing`**, **`Consents`**, **`Growth`**, **`Gamification`**: points and standing earned
  for a reason. Each reads whether the reason was paid for, and inserts under a
  reference that a unique key protects in some places and not in others.
* **`Prints`**: lines, intent, events, fulfilment job and export of one order;
  **`Studioverse`**: one pack's content, review, sale and split of credits.

### People and calendar

* **`Bookings`**: requests, gigs and slots as sets of hours; the exclusion constraint of
  `confirmed_slot` is a condition on every commit that writes one.
* **`Onboarding`** and **`Invites`**: a photographer's stages and public row, the wave's
  counter (locked when generating) and its codes (not locked when redeeming).
* **`Learning`**, **`Skills`**, **`Repairs`**, **`Risk`**: progress, tiers, tickets and risk
  actions, each read by overlapping requests and graders.

### Messages and media

* **`Notifications`**, **`Calls`**, **`Chats`**: the provider (of mail, telephone, language) is
  asked in the middle of the session, and what it did is a variable of its own
  (`handed`, `dialled`) that no rollback undoes.
* **`Media`**: bucket, task queue, copies and derivatives of a photo, Mux's events for a
  video. **`SearchIndex`**: outbox events with their keys, workers, provider's document.
  **`LegacyShoots`**: booking, reviews, items and what the client answered.
* Actions that are easily overlooked: `Studioverse` keeps the entitlement of a buyer
  (`NoEntitlement`, `Downloadable`) and the settling of an order that was paid at once;
  `Onboarding` tells facets that are listed from niches and from facets that are not,
  which recompute different rows; `Notifications!FlagStuck` is the sweep over gigs that
  are stuck, which writes messages for several people in one transaction;
  `Minting!Clawback` is an administrator's correction.

### Composites

The modules of the last three groups, `Disputes` and `Selections` share no state with
one another here, so checking them in one run costs the sum of their states, not
the product: in `MCPlatform` and `MCOperations` a behaviour belongs to the one module
that `part` names from the start (any in `Parts`), and the others keep their initial
state. `Alike` are names used in several parts and interchangeable in each, which
makes the symmetry of the two configurations sound. Setting `Parts` to one name
checks one module alone.

## 3. What is checked

| run | instance | properties |
|---|---|---|
| `payouts_serial` | 1 session, 2 entries, 2 requests, a partial refund, limit of 1 a week | `NoDoubleSpend` |
| `payouts_recovery` | 1 session, 1 entry, 1 request, 2 holds of every scope, 2 crashes, lost answers, webhooks in any order, fair | `HeldIsNotAvailable`, `OneTransferPerRequest`, `DueIsSettled`, `TransferIsReconciled`, `ApprovedIsExecuted` |
| `payouts_concurrent` | 2 sessions, 1 entry, 2 requests, lost answers | `PaidMeansMoneyMoved` |
| `payouts_double_approval` | 2 sessions, 1 entry, 2 requests | `NoDoubleSpend` is violated |
| `outbox` | 3 events, 2 requests and 2 workers at a time, batches of 2, 2 attempts, 1 crash, fair | `DeliveredIsAppliedOnce`, `ImplementsInbox`, `StoredIsSettled` |
| `outbox_poison` | 2 events, the handler of one always breaks its session | `StoredIsSettled` is violated |
| `gig_serial` | 1 session; refunds by client and admin, completion, cancellation, chargeback | `RefundedEarnsNothing` |
| `gig_disputes` | 1 session; a dispute and its refund cases, refund events that name only the intent | `CaseIsBacked`, `CasesSettle` |
| `gig_overlap` | 2 sessions that may die; the client's refund, cancellation by an admin | `DeliveredIsBooked`, `UnlockedIsPaid` |
| `gig_partial_refund` | 1 session; a dispute decided for a part of the price | `PartialRefundKeepsShare` is violated |
| `platform` | 12 modules of points, sales, messages and media | see below |
| `operations` | 12 modules of people, calendar, disputes, selections, prices | see below |

| module | property | says | instance |
|---|---|---|---|
| `Rewards` | `PointsConserved` | the balance is what was earned less what redemptions hold, never negative | 2 requests, 1 worker; 1 store order, 1 gig, 1 upsell |
| `Minting` | `ReversedOnce` | a mint is earned once and taken back once, exactly when its row says so | 1 dispatcher, 1 gig mint, 1 extra, 2 refunds |
| `Prints` | `CaptureIsExportedOnce` | a captured payment is produced once, nothing unpaid is exported | 2 clients' requests, 1 worker, 2 edits, 1 failure |
| `Studioverse` | `SoldIsCleared` | the content of an approved pack passed its check | 1 creator, 1 admin, 1 buyer, 3 contents |
| `Sharing` | `ThresholdPaidOnce` | a threshold pays its owner once, and with a grant | 2 evaluators, 1 visit, 1 view and 1 sale |
| `Consents` | `ConsentPaysOnce` | each level pays once, is taken back once, and only if chosen | 2 sessions, 3 changes |
| `Growth` | `ConversionPaysOnce` | a conversion rewards one pair once | 2 webhooks, 2 conversions, 2 referrers |
| `Gamification` | `HighestNeverFalls` | the highest tier held is kept | 2 clerks, 2 graders, 2 ranks |
| `Notifications` | `MailIsSentOnce` | one committed transaction at most sends a mail; twice only after a failure | 2 mailers, 1 mail and 1 copy, 2 sends |
| `Chats` | `AnsweredOnce` | a message is answered once at most, and only if committed | 2 sessions, 2 messages |
| `Media` | `GalleryStaysWhole` | a photo of a gallery stays shown and whole | 2 sessions, 1 photo, 1 video, 2 runs |
| `LegacyShoots` | `FinalIsAccepted` | what is final or delivered was accepted | 2 sessions, 1 item, 2 reviews |
| `Bookings` | `SlotsDisjoint` | no two slots share an hour | 2 sessions, 3 hours, 2 shoots |
| `Onboarding` | `ListingFollowsProfile` | the public row says what the profile says | handlers one at a time, a death between the two commits |
| `Invites` | `InvitesWithinWave` | codes are counted and within the limit | 2 issuers, 2 newcomers, 3 codes, limit 2 |
| `SearchIndex` | `IndexCatchesUp` | with nothing waiting, the document is not older than the last change announced | 1 worker, 1 row, 2 changes, 1 rebuild |
| `Learning` | `CurriculumIsEarned` | a curriculum certificate only after its mandatory courses | 1 student, 2 courses by both APIs |
| `Repairs` | `TicketsNameAnItem` | a ticket never names a removed gear item | 2 tickets, 1 item, 1 partner |
| `Skills` | `OneTierBadge` | one tier's badge in a niche, an override aside | 1 grader, 2 admins |
| `Risk` | `FreshAccountsAreReviewed` | a payout after an account change needs a clearance after that change | 2 sessions, 2 changes |
| `Calls` | `CallsWithinDailyLimit` | calls that were made and not lost stay under the limit | 2 calls, 1 sweep, 2 jobs, limit 2 |
| `Disputes` | `DecisionSurvives`, `HeldUntilSettled` | a decision keeps its refund case; downloads and earnings stay held | 2 sessions, 1 dispute, 2 decisions |
| `Selections` | `ExtrasArePaid` | extra photos are handed out only for money, the gallery closed only if nothing is owed | 2 requests, 2 selections |
| `Pricing` | `PhotosAreBilledOnce` | deposit and difference are what the invoice divides; included photos cost no more than the deposit | 1 gig, 3 curves, 2 prices, 2 changes of settings, 2 selections |

Several of these were weaker in the code than their first statement: the comment of
each names the exceptions, section 6 what happens outside of them.

**Why the bounds are enough.** Each hazard is a collision of two things: two sessions on
one row, two entries or requests of one balance, two holds on one source, two
refunds of one payment, two changes of one key. Every instance has two of what must
collide, and where a third matters (a row behind a batch of two, a change during a
retry) three. Counters of events that may repeat are capped at the first value
after which nothing new is enabled (`MaxCrashes`, `MaxAttempts`, `MaxRuns`, `MaxToggles`,
`MaxFailures`, `MaxVersion`, ...); each cap is a guard of the action it limits.
`FeePercent` = 20 and amounts of 2 to 5 make rounding matter. What an instance leaves
out because the property fails there (overlapping admins of a pack, overlapping
holds and settlements) is listed in section 6, not hidden.

**Deadlock** is checked in Outbox's runs. The others use up their inputs (entries,
requests, events) and then rest, so their configurations say `CHECK_DEADLOCK FALSE`.
**Symmetry** is used only in runs without temporal properties, except for
`HighestNeverFalls`, an action property.

**Type invariants**: each module has one. They are proved for `Payouts`, `Outbox` and
`GigPayments`; those of the composites' modules (`PlatformTypeOK`, `OperationsTypeOK`)
hold on the instances above, but no configuration repeats them.

**Fairness.** `Payouts!Fairness`: a session that has begun commits or dies; the settlement
scan, `payout.execute` and the transfer webhooks come again while they are enabled.
`Outbox!Fairness`: due rows are claimed, a worker that has a batch goes on, a
delay passes. The code's ground is the beat schedule of `tasks/celery_app.py`
(`dispatch-outbox-events`, `release-payout-holds`) and Stripe's redelivery. Nothing is
assumed of photographers, clients and admins, and processes die finitely often.

## 4. What is proved

Eight modules hold theorems, checked by TLAPS for all values of the constants that
the named assumptions allow. Every safety property of a passing run is also a theorem,
some under a hypothesis that this section names; liveness is not. Each rests on an inductive
invariant: few of the properties are inductive, since they say nothing of what a
session has read and is about to write. The invariants have the same
form everywhere: the property, the shape of the variables it needs, and one
predicate on a session that says what its reading is still worth at its commit.

**Money.**

* **`PayoutsProofs`** (from `PayoutsAssumption`). `TypeCorrect`; `MoneyInvHolds`: what a
  session has read stays true until its commit as far as money is concerned
  (`PlanIsGrounded`), one session creates a request (`OneCreator`), money moves only
  after an approval (`AfterApproval`), a webhook has its transfer
  (`HooksHaveTransfers`). From it `PaidIsBacked`, `MoneyIsApproved`,
  `TransferIsUnique`. Two properties break when the wrong handlers overlap, and their
  theorems name the overlap, as a condition on behaviours:
  `HeldStaysHeld` is for all behaviours in which no settlement or release overlaps a hold being
  placed or a reversal (`SettlesApart`); everything else may. `HoldInv`: what a
  session is about to make available is covered by no hold but those it releases, and a
  hold about to be placed catches every available entry. `NothingIsSpentTwice` is for those
  in which no two approvals overlap (`ApprovalsApart`) and no payout that gave its
  allocations up is paid after all (`NothingRevived`). `SpendInv`: what a plan allocates fits
  beside `Used`, a sum over requests. A fold over a set has no order to do induction
  on; `SumExists`, `SumIsUnique` and `SumSplit` show by a least counterexample
  that it computes a sum from which any element may be taken last.
  `HeldAlone` and `SpentOnceAlone` derive those conditions for one session (`SerialInv`).
* **`OutboxProofs`** (from `OutboxAssumption`). `IInv` is `TypeOK` and `OutboxInv`: claimed rows
  are pending and nobody else's, a row is run once per batch, keys are unique.
  From it `ExactlyOnce`, `AckIsDurable`, `RetriesAreCounted`, and `Implements`: every step of
  `Outbox` is a step of `Inbox` or leaves its state alone.
* **`GigPaymentsProofs`** (from `GigAssumption`), for all `Features`, `Notices` and sessions.
  `LandInv`: a payment with a success event has a row, a payment is booked with its own
  amount, a selection owes only if it is dear, and a session's outcome is grounded in
  rows that still say so. Each handler has a lemma that its outcome is tame: no
  payment loses its row, nothing owes that is not dear, and a dear gallery is
  unlocked only by booking the difference. `CommitRows` and `CommitBooks` carry that
  over the merge of columns. From it `SuccessIsBooked` and `UnlockIsPaid`.
  `TypeCorrect` (`TypeInv`) adds the types of what sessions have read; a lemma per
  handler says what columns, bookings and events its outcome has, and the theorems below
  use those lemmas and not the handlers.
  `RefundsLeaveNothing` (`CleanInv`): each event waits, is at work or was applied; what was
  applied of captures and refunds is what Stripe did; a dispute at the bank closes the
  gig; an entry is live only for money that was kept. It needs sessions that commit on
  rows nobody has changed since they read them (`FreshCommits`).
  `AdminCasesAreBacked` (`AdminInv`): an admin's case is closed by the event that carries its
  own refund. `CasesAreBacked` (`DisputeInv`): the case of a dispute, in the database
  and in what each session has read, is the one asked for now.
  `DisputeCasesAreBacked`, `CasesAreBackedAlone` and `RefundsLeaveNothingAlone` derive
  their conditions from which operations there are, or from one session.
  `CasesSettleAlone` (`SettleInv`): while a case is open that Stripe has refunded, the
  notice that will close it waits behind its initiation or is being handled.
* **`DisputesProofs`** (from `DisputesAssumption`). `HeldInv`: what a session that opens,
  decides or pays back a dispute has read is grounded, cases belong to disputes.
  From it `HoldsLast`. `DecisionInv`: a session that resolves brings the case its
  decision needs, one that pays back knows of a case. From it `DecisionsSurvive`.

**Points** (`PointsProofs`).

* `PointsAreConserved` (`BalanceInv`): what the worker of an event found reserved is still
  reserved when it applies or releases it; requests decide from rows read before
  the balance is locked, and stay harmless since they only add rows.
* `MintsReverseOnce` (`MintInv`): the mints a reversal read are still minted when it takes
  them back, the one a mint read is still missing.
* `ThresholdsPayOnce` (`ShareInv`): what an evaluation found booked had its grant, and the
  grant is unique. `ConsentsPayOnce` (`ConsentInv`): an evaluation is asked for by a
  choice of the client, and writes one entry. `ConversionsPayOnce` and
  `FriendsHaveOneReferrer` (`GrowthInv`): the attribution is written once, before any link or
  grant names anybody. `HighestStays`, an action property (`CredentialInv`): a session
  that replaces the highest tiers has read one above each that it will delete.

**Operations** (`OperationsProofs`).

* `SlotsNeverOverlap` rests on the exclusion constraint alone: of all the ways a row of
  the calendar is written, each moves no hours, leaves no slot or passes it.
* `InvitesStayWithinWave` (`WaveInv`): from the read that generating starts with to its
  write the lock keeps the counter; redeeming and revoking move no code into or
  out of existence.
* `ListingsFollowProfiles` is inductive as it stands. `FreshAccountsReviewed` (`RiskInv`): the
  change a request found is reviewed, or payouts are frozen, or the session has the
  freeze still to add. `TicketsKeepTheirItem` (`TicketsInv`): the foreign key refuses the
  removal that a stale count allowed. `IndexesCatchUp` (`SearchInv`): a document that is
  too old has an event waiting or a worker on it, and a worker that built one from
  old rows has another event behind it.

**Service** (`ServiceProofs`).

* `CurriculaAreEarned` (`EarnedInv`): no completion is taken back, so what a request counted
  stays earned. `OneBadgePerNiche` (`BadgeInv`). `RecipientsAreSpared` (`CallInv`): a call counts
  itself from its check until it fails, so those told to the provider are within
  the count the last of them passed. `ExtraPhotosArePaid` (`SelectInv`): a saved selection
  keeps its photos, and has one intent.
* `PricingInvHolds`, `PhotosBilledOnce` and `InvoicesStandAsStamped`: the deposit and the
  difference as sums over curves. The sum is a recursive function, for
  which the prover has no induction; `LeastNumber` (a set of naturals that is not empty
  has a least element) stands in for it: the least count at which a sum would fall
  has a predecessor at which it did not.

**Sales** (`SalesProofs`).

* `GalleriesStayWhole` (`GalleryInv`): a photo has no copy or all of them.
  `FinalVaultsAreAccepted` (`VaultInv`): an answer makes of the items of its review what its stage
  says. `MessagesAreAnsweredOnce` (`ChatInv`): the messages two sessions hold are
  different. `CapturesAreExportedOnce` (`ExportInv`): a capture has one event, that event
  one export, each in the hands of one worker. `MailsAreSentOnce` (`MailInv`): a mail
  handed over without trouble is held by one transaction or committed as sent.
  `SoldPacksAreCleared` (`PackInv`): while a submission waits nobody edits the pack.

**Hypotheses.** Four theorems outside `Payouts` speak of one actor of a kind: `PointsAreConserved`
(`OneWorker`), `MintsReverseOnce` (`OneDispatcher`), `IndexesCatchUp` (`OneIndexer`) and
`SoldPacksAreCleared` (`OneAtATime`). The code does not enforce this: the claim skips rows another
worker holds (`outbox.py:67`), and a batch that outlasts its period overlaps the
next one. It is where the property ends: with two of each TLC finds it violated (two dispatchers
release one redemption twice; two reversals debit a mint twice; the worker that
read first writes last; two edits pass one review). `HeldAlone` and `SpentOnceAlone` have one session (`OneSession`); the latter also has
answers that arrive and ordered webhooks (`Answered`), since with a lost answer even one
session fails a payout, gives its allocations away and has it paid by the webhook.
Without `SettlesApart` or `ApprovalsApart` two sessions violate the property.

In `GigPaymentsProofs`: without `FreshCommits` two sessions leave earnings on a refunded gig, and
`charge.refunded` must be among the notices, since `refund.succeeded` tells of one refund and not of
their total: two partial refunds would never count as a full one. `CasesAreBacked` wants
no two resolutions at once (`ResolvesApart`: the second writes another amount over the first
one's case) and that nobody else refunds a payment whose case is initiated
(`OwnNotices`: the match at `disputes.py:619-620` is by payment intent alone). The latter holds
wherever clients and admins do not refund (`DisputesOnly`, the run's instance).
`CasesSettleAlone` is for one session without crashes, `DisputesOnly` and some notice
(`Alone`): a session that dies after its refund lets the notice come before the case is
initiated, which then passes it by.

Nothing else is assumed, but for the named assumptions on the constants.

**Only model-checked**: everything temporal (`DueIsSettled`, `TransferIsReconciled`,
`ApprovedIsExecuted`, `StoredIsSettled`), liveness under fairness, which the prover does
not reach; and the type invariants of the composites' modules.

## 5. What the models leave out

Per component, the `note` in `PROJECT.json` says what is modelled and what not. In
short:

* **`Payouts`**: other photographers, currencies, the balance snapshot, bank
  references. `WeekPasses` ages all requests at once.
* **`Outbox`**: what the sweeps after a batch do (they are in `Notifications` and
  `Payouts`), replay by an administrator.
* **`GigPayments`**: extras and redemptions (`Selections`, `Rewards`), `refund.failed`, the
  retry endpoint of cases (`Disputes`). The ledger is a set: the unique reference of a
  booking is what the code relies on. Stripe sends each event once, since a
  second delivery has the same key (`Outbox`).
* **`Pricing`**: one niche, one country, one currency; who may book is in `Bookings`.
* **The others**: one user, gig, order, pack, wave or link at a time; scores
  and currency as small numbers; texts, pictures and time zones not at
  all. External services answer anything the code handles.

Not modelled at all: authentication and roles, the wrappers around Stripe, cross-cutting helpers (caches, rate limits,
flags, metrics, audit, translations), migrations, scripts and deployment, and the
client and web applications. None of them keeps state that a modelled decision
reads. Evidence and penalties of disputes, comments and favourites of galleries,
campaigns, templates and similar rows that no decision reads are left out of
components that are otherwise modelled; these are therefore "partly" modelled.

## 6. Where the code and its documents disagree

Three runs find a statement of the repository violated:

* **`payouts_double_approval`**: `tests/test_payouts_v1.py:149` is named
  `test_approval_allocates_and_prevents_double_spending`; two approvals that overlap
  allocate the same entry twice (`payouts.py:654` reads without a lock) and both are
  paid.
* **`outbox_poison`**: `docs/multi_region.md:39` says `OUTBOX_MAX_ATTEMPTS` bounds retries; a
  handler whose SQL fails breaks the session, `mark_outbox_failed` raises in turn,
  the batch is rolled back with its attempts (`outbox_tasks.py:47`), for ever.
* **`gig_partial_refund`**: `payouts.py:256-258` says a partial refund must not reverse the
  entry; `disputes.py:660` does so for every refund of a dispute.

The following were met while modelling. Those marked (m) come back as
counterexamples when the named configuration is changed; the others were read in
the code and are why a property carries its exceptions, or are outside it.

**Payouts and gigs.**

* (m) `HeldIsNotAvailable`, `ReversedIsFinal` and `WithinWeeklyLimit` (`payouts.py:159`, `168`, `414`)
  hold for one session and fail for two: settlement writes `available` over a hold or a
  reversal committed meanwhile, two requests count each other out.
* (m) With a manual payment beside `payout.execute`, `PaidOnce` fails: both pay.
* With `OrderedHooks = FALSE`, `transfer.created` applied after `transfer.failed` marks a
  bounced payout paid (`webhooks.py:813`).
* (m) Two sessions reopen a closed gig (`ClosedStaysClosed`, `webhooks.py:397`) and leave
  earnings on a refunded one (`RefundedEarnsNothing`, `webhooks.py:703`).
* (m) With `Expanded = FALSE` an administrator's refund case is never settled when the
  event names only the intent (`admin.py:1530`); its sibling, refused second, rolls back
  the first case (`admin.py:1518`).
* A refund made elsewhere closes the case of a dispute (`disputes.py:619-620` calls the
  match unambiguous). A gig completes without its base payment
  (`gallery_completion.py:84`). A refund is booked under two references
  (`webhooks.py:718`). `disputed` has no successor (`gig_state.py:29`): a gig disputed
  before completion and decided for the photographer never earns.

**Prices.** `invoices.py:44` calls the gross "What the client paid, in total"; where the
photos selected cost less than the deposit the client paid the deposit, and nothing is
given back. A second selection overwrites `amount_final` while the intent of the
difference keeps its old amount, also after the gig is completed. Extras of gigs
without a package are on no invoice. The earnings entry takes the fee in force at
completion and leaves the credit stamped on the gig aside.
`put_fee_policy_admin` changes the whole take and not its two shares, after which
`split_booking` refuses every booking and every old invoice. A selection, and the payment of its
difference, are accepted before the deposit: the gig is completed and refuses the
deposit's event; with nothing due it stays `paid` and is never completed.

**Disputes.** Two disputes about money opened at once leave two active holds, and
`active_entitlement_hold` raises from then on. A refusal releases all of the
opener's holds on the gig, also those of his other disputes. A photographer's
dispute freezes the client, but its resolution looks for the opener's holds and
releases none. Cancelling releases nothing. Two resolutions at once make two sets of
refund cases. A retried case has the same Stripe key and gets the first answer
(`disputes.py:581`). A rate-limit counter that dies between its two commands never
expires (`rate_limit.py:37`).

**Galleries and extras.** The media endpoints ask for the newest purchase whatever
its selection (`media_rights.py:239`), so `ExtrasArePaid` says "some extras" there.
`payment_failed` after `succeeded` writes `failed` (`webhooks.py:534`). A partial
`charge.refunded` marks the whole purchase refunded. `quantity_limit` is never read.

**Points.** Two `/rewards/spend` at once leave two reservations; points of an abandoned
checkout stay reserved. An upsell's intent is made with the price before the
discount (`proof_galleries.py:820`, `866`). A partner's task is queued before the commit
(`api/README.md:531`: "payment success triggers" it), which may then
find the order unpaid. A mint while frozen is marked minted without
points, and its later reversal takes them; reversals that overlap debit twice;
caps are read unlocked. Consent keys are used once, so giving a level again is
never rewarded, and some round trips take back more than was given while others
leave what should be taken. `view_count` loses updates. A second
`conversion_attribution` makes later webhooks raise. A milestone may be given twice.

**Prints and packs.** Editing an order after its intent changes the total and not the
charge. Refunded orders are still exported, a failed export is never retried. A pack
paid through Stripe is never settled (`docs/studioverse.md:27`). An edit that overlaps
the submission sells content that was not validated. A creator whose points are
frozen silently gets none.

**Calendar and onboarding.** Confirming a slot ignores blackouts and the booking's
status; buffers and the daily maximum have no constraint behind them; reminders of
moved slots are still sent. `approve_pro` skips the gear floor, `approve_pro_onboarding`
checks nothing else. Two newcomers redeem one code; an expiry is rolled back with
the error that reports it. `update_pro_kyc` commits before it recomputes the listing.

**Learning, skills, risk, repairs.** Two passed attempts make
`evaluate_enrollment_completion` raise for ever; two completions at once both miss the
curriculum. An override is written under one key and read under another
(`api/README.md:418-420`). A cleared action is still seen by the rule that would set it
again; two active rows make later reads raise. A partner may be changed after the
quote; loaners survive the closing of their ticket.

**Messages, media, search.** Sweeps that overlap hand a mail over twice, then roll back.
A mail that is refused for its rate is delivered as an event and lost. A call counts
itself, so a limit of two (`api/README.md:88`) allows one. Two active consents make every
check raise. Takeover and closing do not stop a reply already asked for; messages
reopen closed threads. A crash after the commit leaves a photo `processing`; a run
that loses marks a ready photo failed. The rebuild's keys are fixed
(`search.py:184`, `docs/search.md:73`), so it works once. A legacy shoot's remainder is
never charged, and an old review answered again downgrades a final item.

## 7. Plan

Done: the money (`Payouts`, `Outbox`, `GigPayments`), disputes and selections, points and
sales, people and calendar, messages and media, prices; an inductive invariant and
its proof for every module.

Left, in this order:

1. Proofs: `CasesSettle` for sessions that overlap, as long as a notice is handled after the case
   it closes was initiated; the type invariants of the composites' modules.
2. Replay of outbox rows by an administrator; `refund.failed` and identity events.
3. Evidence and penalties of disputes; authentication.

# Bling: a TLA+ model of the Hotline

Bling runs live call-in shows. Callers wait in a queue, some of them on paid tiers with a
card hold in place; the creator picks one, a paid caller is charged, the two talk over
WebRTC, and the creator earns a share that is paid out monthly. The state lives in Convex
(`src/frontend/convex`): tables changed by serializable mutations, actions that talk to
Stripe in between, scheduled functions and crons. The React client (`src/frontend/src`)
keeps state of its own between a click and the answer to it. The Go API in `src/backend`,
over PostgreSQL and Redis, is the predecessor this code was ported from
(`docs/convex-migration.md`).

The project models the parts of it in which something can happen between two steps. TLC
checks them on small instances, and TLAPS proves every safety property that the passing runs
check for instances of any size.

## Inventory

| Component | State | Operations | Interacts with | What is hard | What makes it correct |
|---|---|---|---|---|---|
| Shows (`shows.ts`, `tiers.ts`) | `shows`, `showTiers` | create, schedule, start, end, closeQueue, replace tiers | queue, calls, profile | ends while a call is being charged; closes the queue in batches; several tabs | an ended show has no open call, its queue empties, the public page is true |
| Queue (`queue.ts`) | `queueEntries` | join, joinPaid, leave | payments, calls | joinPaid reads Stripe, then writes | who waits on a paid tier has a hold; nobody stays stuck |
| Calls (`calls.ts`, `lib/calls.ts`) | `calls` | select, selectRandom, transition, expire | everything | selection during a capture | one active call; entry and call agree |
| Presence (`presence.ts`) | `callPresence` | heartbeat, leave, checkSeen, checkGrace | calls | stale timers, several pages | absences noticed, presence respected |
| Payments (`payments.ts`, `lib/payments.ts`) | `paymentAttempts` | authorize, verify, capture, cancelIntent, sweep | Stripe, calls, queue | actions die, answers are lost, retries overlap | books agree with Stripe; charged means earned or refunded |
| Refunds (`refunds.ts`) | `paymentRefunds` | run, claim, record, retry, sweep | Stripe, ledger | leases, last attempt, late answers | driven to an end; never reopened |
| Webhooks (`webhooks.ts`) | `stripeEvents` | apply | payments, refunds, disputes, accounts | late, repeated, reordered | each applied once, whatever the order |
| Ledger (`lib/ledger.ts`) | `ledgerEntries`, `creatorBalances` | creditEarning, reverseForRefund, adjustForDispute | refunds, disputes, payouts | order of refund, dispute and earning; rounding | never takes back more than was earned; the balance is the sum |
| Payouts (`payouts.ts`) | `payoutRuns`, `payoutItems`, `payoutAccounts` | runDue, reserveBatch, transfer, retry, finish; session, status, reconcile; earnings | ledger, Stripe | leases, last attempt, one item per creator, reads that overtake each other, the calendar | what is reserved is sent once, or stays reserved |
| Signaling (`signals.ts`, `signalSocket.ts`, `webrtc.ts`) | `callSignals`; client state | send, inbox, ack, purge; ready, offer, answer, recovery | calls, presence | redelivery, repeated offers, failing sockets, batches | connects or gives up; nothing is left when the call is over |
| Follows (`follows.ts`, `lib/social.ts`) | follows, count shards; the page's cache | set, project; optimistic change, refetch | profiles, notifications | sharded counts; polls that overtake a change | the count is the number of follows; buttons tell the truth |
| Channel audience (`channels.ts`) | visitors, channel stats | heartbeat, paged recount | shows | one count at a time, which may die | a count runs while it must, and ends |
| Live alerts, notifications (`liveAlerts.ts`, `notifications.ts`) | alerts, events, receipts | queue, collect, send, read, prune | shows, follows | a walk over followers who come and go; retried batches | each follower once; nothing orphaned |
| Saved cards (`paymentMethods.ts`) | `paymentProfiles`; Stripe customers | setup, list, remove | payments | two requests make two customers | a saved card is found again |
| Auth (`auth.ts`, `passwordReset.ts`, `session.ts`) | session of each tab; codes | anonymous and password sign-in, sign-out, reset | every mutation | several askers at once; the token is ahead of the server | one anonymous account per tab; the newest code works |
| Caller's page (`PublicHotline.tsx`, `hooks.ts`) | payment key, form, card form | ask, confirm, join, withdraw, reload | payments, queue | errors and reloads between three rounds | a retry reuses the hold |
| Studio (`components/studio`) | subscriptions and drafts of a tab | start, end, schedule, save tiers, microphone check | shows, tiers, payouts | two tabs, stale subscriptions | what starts is what was on the screen |
| Profiles, directory, users, caller notes, ICE servers | one document each | edits and queries | - | nothing interleaves | not modelled |
| Go API: calls, payments, presence, queue index, hub (`src/backend`) | PostgreSQL, Redis | handlers, webhooks, sweeps, outbox workers | Stripe, Redis | two stores written apart; handlers that die | as in Convex; Redis follows PostgreSQL |
| Go API: finance, accounts, social | PostgreSQL | - | - | superseded | not modelled |

`PROJECT.json` lists the same components with their status, and the forty hazards that
weigh most at the line where they bite; the others are under *Further hazards* below.

## Modules

| Module | What it is |
|---|---|
| `Hotline` | one show: queue, calls, payments, Stripe's PaymentIntents and their events |
| `Payment` | abstract: what Bling promises about one payment |
| `HotlineProofs` | inductive invariant and theorems of `Hotline`, including that it implements `Payment` |
| `CallPresence` | heartbeats, departures, the checks they schedule, and the call's own timer |
| `CallPresenceProofs` | theorems of `CallPresence` and `Signaling` |
| `Sums` | the sum of a function over a set, which amounts and counts are added up with |
| `SumTheorems` | what such sums obey, and induction on finite sets |
| `Refunds` | the refunds of one payment: worker, sweep, webhook, dashboard, and what they take back |
| `RefundsProofs` | its theorems |
| `Ledger` | entries under idempotency keys, the running total, holds, disputes, fees |
| `Payouts` | the monthly run over `Ledger`: reservation, leased transfers, retries, sweep |
| `Money` | `Refunds` and `Payouts` side by side |
| `PayoutsProofs` | theorems of `Ledger`, `Payouts` and `Money` |
| `PayoutAccounts` | the Stripe account of a creator, its copy and the settings page |
| `EarningsChart` | the earnings query and the bars of the chart, through four years of days |
| `Signaling` | the WebRTC handshake: two managers, their sockets, the signals' table |
| `Followers` | follows, sharded counts, notifications and their retention |
| `FollowersProofs` | theorems of `Followers`, `LiveAlerts` and `Audience` |
| `FollowCache` | the follow buttons of one browser and the query cache under them |
| `LiveAlerts` | the emails of a show that goes live |
| `Audience` | visitors of a live channel and the recount |
| `CallerPage` | a caller's page with its payment key, over `authorize` and `joinPaid` |
| `Studio` | a creator's tabs over several shows, their tiers and the public profile |
| `MicCheck` | the microphone check between the browser's answers |
| `SavedCards` | saved cards and the customer they belong to |
| `SignIn` | one browser's identity: anonymous session, password forms, redirects |
| `ResetCodes` | password reset codes, their limit and the page |
| `Identity`, `SettingsPages` | `SignIn` and `ResetCodes`, and the settings' modules, side by side |
| `ApiCalls` | Go: queue, calls and payments of a show; implements `Payment` as well |
| `ApiCallsProofs` | theorems of `ApiCalls`, including that it implements `Payment`, and of `ApiRedis` |
| `ApiPresence` | Go: sockets, leases in Redis, disconnect columns, the sweep |
| `QueueIndex` | Go: the Redis index of waiting callers and the outbox |
| `ApiRedis` | `ApiPresence` and `QueueIndex` side by side |
| `RealtimeHub` | Go: rooms, their clients and Redis subscriptions |
| `PagesProofs` | theorems of `RealtimeHub`, `Studio`, `MicCheck`, `FollowCache`, `Identity`, `SettingsPages` and `CallerPage` |
| `MCHotline`, `MCRefunds`, `MCCaller`, `MCAccounts` | instances for TLC |
| `MCMoney`, `MCClient`, `MCApi`, `MCPages` | instances that put several modules side by side |

`Payouts` extends `Ledger`; `Hotline` and `ApiCalls` instantiate `Payment`. The modules
that an MC module puts side by side share nothing they change: a behaviour of it follows one
of them, the `scene`, while the others keep their initial state. That a call charged in
`Hotline` becomes the earning of `Refunds` and `Payouts`, and that a page of `CallerPage`
talks to the mutations of `Hotline`, is kept by stating the same guards in both, not by one
product of them, which would be out of TLC's reach.

Definitions keep the names of the code. A definition commented `Fault:` is a plausible
mistake in the definition after it; `PROJECT.json` says which property notices it.

### Hotline

A Convex mutation is a serializable transaction, so each is one action: `Start`, `End`,
`CloseQueue`, `Prepare`, `AttachIntent`, `MarkAuthorized`, `Join`, `JoinWithPayment`,
`Leave`, `Select`, `SelectRandom`, `Transition`, `Expire`, `Webhook`. The shared helpers
`RecordCaptured`, `RecordNotCaptured`, `ApplyTransition`, `ScheduleCancel` and
`RequestRefund` are operators used inside them, as in `lib/payments.ts` and `lib/calls.ts`.

A Convex action is not a transaction. `payments.capture` and `payments.cancelIntent` are
records in `captureJobs` and `cancelJobs` that move from phase to phase: read the row
(`CaptureBegin`), call Stripe (`CaptureAnswered`, or `CaptureUnanswered` when the outcome
is unknown), release a refused hold (`CaptureRelease`, `CaptureReleaseFails`), write
(`CaptureFinish`). `JobDies` may remove a job at any point. `verifying` holds the
`joinPaid` actions that have seen the hold at Stripe and not yet recorded it.

Stripe is external: `intent` is each PaymentIntent's status and `events` what it has
emitted. `ConfirmCard` is the caller's card form, with declines that may precede a
successful hold on the same intent; `HoldLapses` is the seven-day expiry. Events are
delivered in any order, at any time or never.

Left out: amounts and fees, names and topics, queue positions, the payout account and the
creator's other shows that `start` also looks at, saved cards, and the reuse of an attempt
under the same idempotency key. `checkGrace` failing a call is a `Transition` to `FAILED`
here; when it may happen is `CallPresence`'s subject.

### CallPresence

One call that participants can connect to, a clock, and the scheduled checks as sets of
their arguments: two checks with equal arguments have the same effect as one, since the
second finds the row changed or the call over. The scheduler runs a check at its time or
any time later. `Leave` may come from one page of a participant while another page still
sends heartbeats. `steady` are the participants with a page that has missed no heartbeat so
far: the clock waits for them (`HeartbeatDue`), until the page crashes or loses the network
(`GoSilent`); heartbeats of participants who are not steady come at any time or never.
`missing` is a history variable: the role for whose absence `checkGrace` failed the call.

### Refunds

One captured payment. `Request` is the `paymentRefunds` row that `requestRefund` inserts
when the call ends without having been LIVE; a refund made in the dashboard (`Support`)
gets a row from the webhook. `runs` are the `refunds.run` actions with what they have read.
Time is reduced to a flag per row, whether `nextAttemptAt` has been reached; so a lease may
run out while its action still works, and two actions may hold one row. Stripe repeats its
first answer for a repeated idempotency key and refunds what is left of the price; that the
key expires after a day is left out.

### Ledger and Payouts

An entry is a pair of its kind and what it is about, the idempotency key of the code, so
that posting it twice is posting it once. Amounts are in cents and rounded as in
`paymentFees`. A payout run is opened by the hourly `RunDue`, walks the accounts in pages
(`ReserveBatch`), and each transfer is a job that claims the item, asks Stripe and records:
`ClaimTransfer`, `SendTransfer`, `TransferFails`, `MarkPaid`, `RetryTransfer`, with
`JobDies` anywhere. Whether `nextAttemptAt` has been reached is a flag, as in
`Refunds`, so a transfer may outlive its lease. Meanwhile calls earn, holds end, refunds
succeed and disputes come and go (`Disturbances`). The period that is due is the clock;
`PayoutPeriod` and `NextPayoutAt` are checked on days by themselves.

### PayoutAccounts and EarningsChart

`status`, `accountSession` and `reconcileAccount` are jobs that read the account, then its
banks, and save later; Stripe changes the account in between and sends events. A creator
may come to have several accounts at Stripe, each with its changes and events: Stripe answers
a repeated creation with the account its key made, until it forgets the key (`KeyForgotten`,
external). `saveAccount` keeps the first account a row names and refuses another (`Adopts`);
the session action goes on with the one it made. `settings` is the page: its status and the
mutation of each of its components. The chart walks day by day through four years, one of
them a leap year: the query is rerun when the ledger changes, the bars are drawn when the
page renders, and the two need not be the same day. The query may stop at
`EARNINGS_SCAN_LIMIT`; entries are not counted, so the day it stops on is any of `Stops` days
back (`ReadsBackTo`).

### Signaling

A description is the number of its ICE credentials. The steps are the callbacks of
`WebRTCCallManager` and `ConvexSignalSocket`: `Pulse` repeats ready, `Commit` posts a batch,
`Deliver`, `HandleReady`, `HandleOffer`, `HandleAnswer` and `Ack` take a signal in,
`SocketFails` and `Reopen` replace a socket, `Connect`, `Disconnect` and `RecoveryFails` are
the connection's. Handling a signal is one step, because the manager's promise chain
serialises it. `inbox` holds the rows addressed to a side in their order, and `seen` how many
at its head the subscription has delivered and the client not acknowledged yet: the ids that
the socket remembers are always those of such a prefix, and a socket that is replaced forgets
them and is given the same rows again.

### Followers, FollowCache, LiveAlerts, Audience

Follows and unfollows pick a shard at random and project the sum by a scheduled mutation;
a shard may be empty while another is not. Notification events and receipts are pruned by a
cron in batches. `FollowCache` is the other end: two lists fetched by polling, an optimistic
change, its rollback and the refetch. `LiveAlerts` keeps the followers in index order, which
the walk's cursor counts in, while they join and leave. `Audience` has the clock, the
visitors' rows and the recount jobs with their pages.

### CallerPage, Studio, MicCheck, SavedCards, SignIn, ResetCodes

Each is one browser, or the tabs of one user, with the requests in flight as state; a
request is split where the server or the browser answers. `CallerPage` keeps a payment key
for each tier in sessionStorage through three rounds (authorize, card, join), reloads, errors
and withdrawals; the host, the card events and the end of the show go on meanwhile. A caller
who goes back and takes another tier draws another key, and a hold on each may stand. A hold
remembers two things the code does not store, for the properties to name: that its
join found the caller in the line already, as one who is being charged (`spare`), and that
recording the end of an older payment took its caller out of the line (`evicted`, see *What the runs refute*). A tab of
`Studio` sees what its subscriptions delivered last. `MicCheck` is one row of the check: it
waits for the permission and for the device list while it may go away; the browser may refuse
storage, and may not name the device it opened. `SavedCards` has two pages that may each
make a customer, and Stripe forgets the idempotency key after a day. In `SignIn` each tab has
its own session and its own shared promise; a token is held by the client before the server
sees it and React knows it, and a token one tab stores reaches the others (`Hear`, external).
The password forms are in one tab, and any round of the two polls that wait for the server
may be the last. `ResetCodes` follows the library's order: store the new code, then ask the
limit whether it may be sent.

### ApiCalls, ApiPresence, QueueIndex, RealtimeHub

A PostgreSQL transaction is one step, a call to Stripe or Redis another, and a handler may
die between two of them. `ApiCalls` has the selection's handler with its four stages
(`capturing`), the leave handler (`releasing`), Stripe's events and the reconciliation. The
end of a show is one step, although `show/store.go` reads the calls it refunds without
locking them: it holds the show's row FOR UPDATE from its first statement on, and whatever
opens, connects or closes a call meanwhile locks that row FOR SHARE, or FOR KEY SHARE by the
foreign key of `queue_outbox` (`migrations/000002_durable_queue.up.sql:63`), and waits. A
Redis script is one step of `ApiPresence`; the column it goes with is another. Two workers
of `QueueIndex` read the outbox without a lock; an event is known by its number, so that what
a worker has read, applied or published is a set of numbers. In `RealtimeHub` the mutex makes each locked
section a step, and opening or closing a subscription happens outside of it.

## Runs

Several invariants of a component are one property, a conjunction of named parts; each part
is stated and commented where it is defined.

| Run | Instance | Checks |
|---|---|---|
| `hotline_rejoin` | one caller, two payments, two calls | `TypeOK`, `WaitingIsAuthorized`, `BooksMatchStripe`, `ImplementsPayment` |
| `hotline_rivals` | a paying and a free caller, two calls, retries, an overlapping sweep, a declined card | `OneActiveCall`, `OpenPaidCallIsCharged`, `EntryFollowsCall`, `EndedShowIsQuiet`, `UndeclinedIsSettled` |
| `hotline_live` | two callers, one call, batches of one | `PendingSettles`, `QueueCloses`, `ChargedIsEventuallySettled` |
| `money` | scenes worker, support, changes, failures | see below |
| `client` | scenes presence, handshake, followers, audience | see below |
| `api` | scenes calls, presence, index | see below |
| `pages` | twelve scenes: one per module of pages, alerts and the hub, and two of `SignIn` | see below |
| `hotline_declined` | one caller, one declined card | refutes `ChargedIsSettled` |
| `hotline_evicted` | one caller who leaves and rejoins | refutes `OnlyOwnPaymentEvicts` |
| `refunds_stuck` | Bling's refund, two attempts | refutes `NothingLeftProcessing` |
| `caller_hold` | one caller, nothing fails | refutes `HoldsEndWithShow` |
| `payout_setup` | one creator, one change of the account | refutes `SessionOpensSetup` |

| Property (run) | Parts | What it shows |
|---|---|---|
| `RefundsAreSound` (money) | `NeverTakesMore`, `ReversedIsRefunded` | refunds in halves never take back more than was earned, and only what Stripe paid back |
| `RefundSettles` (money) | `RefundIsDriven`, `BooksCatchUp` | with dying actions and late events a refund comes to its end, and the books follow Stripe |
| `LedgerIsSound` (money) | `TotalInStep`, `DisputeCostsOneEarning`, `FeesAreFair` | the running total is the sum; a dispute costs one earning or nothing; the split leaves everyone something |
| `PayoutsAreSound` (money) | `OnlyClearedIsSent`, `OneUnsettledPayout`, `FinishedRunIsQuiet`, `NextPayoutTurnsPeriod` | over retries and lost answers Stripe is told to send only cleared money, once |
| `FinalIsFinal` (money) | `SettledStaysSettled`, `PaidStaysPaid` | no late answer or second worker reopens what is settled |
| `RunEnds` (money) | | a run ends although actions die, except for items that used up their attempts |
| `AbsenceIsWatched`, `SteadyIsKept`, `FailsOnlyAfterGrace` (client) | | no absence is missed, and nobody present loses the call |
| `CallEnds` (client) | `LiveCallEnds`, `AbandonedCallEnds` | timers alone end a call |
| `SignalsAreSound` (client) | `AnswersFit`, `PurgedStaysEmpty` | an answer meets the wrong offer, or none, only when two copies of a description were under way at once; no signal outlives its call |
| `HandshakeSettles` (client) | | the two sides connect or give up |
| `FollowersAreSound` (client) | `FollowerCountIsKept`, `NoOrphanReceipt` | shards add up to the follows; receipts go with their event |
| `CountIsSound` (client) | `CountingHasJob`, `OneCounter`, `CountedOnce` | the recount runs while it must, once |
| `OldDataGoes` (client) | `OldEventsGo`, `EndedChannelIsSwept`, `AudienceFades` | what is over is deleted |
| `ApiCallsAreSound` (api) | `ApiOneActiveCall`, `ApiBooksMatchStripe`, `ApiOpenCallIsPaid`, `ApiEntryFollowsCall`, `ApiEndedShowIsQuiet`, `ApiChargeIsSettled` | what `Hotline` shows, of the Go handlers |
| `ApiImplementsPayment` (api) | | each payment follows `Payment`: earned or refunded and never both, except that a selection which completes only after an event has opened the call, the call was LIVE and the show ended refunds what was earned (`TakesBack`) |
| `RedisIsSound` (api) | `RenewedIsKept`, `PublishedIsListed` | the sweep takes no renewed lease; what is published is in the index |
| `ApiCatchesUp` (api) | `ApiPendingSettles`, `AbandonedCallFails`, `FirstJoinIsListed` | events, sweep and outbox make up for handlers that died |
| `RoomsAreSound` (pages) | `NoOrphanClient`, `NoSubscriptionLeaks`, `NoSilentGap` | room, clients and subscription come and go together |
| `AlertsAreSound` (pages) | `OneAlertPerShow`, `WalkMissesNobody`, `MutedIsSpared` | everybody who should is mailed, once |
| `CallerPageIsSound` (pages) | `RetriesReuseHold`, `KeyIsUsable`, `JoinedHoldsGo`, `CardFormReturns` | no second hold for one tier, no dead key, no form that stays disabled |
| `PublicProfileIsSound` (pages) | `PublicPageIsTrue`, `AnnouncedCanOpen` | the profile follows the shows, whichever tab changes them |
| `StartsAsShown` (pages) | | a show opens with the prices on the screen, edits included, unless a save has reached the server that the tab has not heard of |
| `MicrophoneIsSound` (pages) | `MicrophoneIsReleased`, `CallsUseShown`, `PlaysCurrentSample` | the microphone shown is the one open, calls ask for it where the browser keeps it, and it is let go |
| `SettingsAreSound` (pages) | `OneStripeAccount`, `SettledAccountIsCurrent`, `ChartIsComplete`, `SavedCardsAreFound`, `ListIsCurrent` | account, chart and cards agree with Stripe and the ledger; a second account is made only after Stripe forgot the key, and the chart is complete as far back as the query reads |
| `IdentityIsSound` (pages) | `OneAnonymousAccount`, `CallsFindSession`, `SignedInIsKnown`, `NewestMailIsCurrent`, `SendsAreCapped` | one anonymous account a tab, a login that stays, a reset that works, and no more mail than the limit in a window, or twice the limit around the end of one |
| `FollowButtonsAreSound` (pages) | `ButtonsTellTruth` | a button never offers what is already so |

The type invariant of each module is a part of its first property.

### Bounds

Every bound is a constant, commented in the module that declares it. In `Hotline` the sets
of callers, attempts and calls bound how often things happen; two calls are enough for a
call to follow another, two attempts for an old payment to interfere with a new one, one
batch of one for the queue to close in several steps. `MaxCaptureJobs` keeps the sweep from
piling up equal captures, `MaxDeclines` limits declined cards. In `CallPresence`, `Horizon`
is the time after which people stop acting while timers still fire; with a grace period of
two ticks, two ticks hold a departure, a return and another departure, so that the check of
the first is stale when it fires.

`MaxAttempts` of refunds stands for ten, `MaxRuns` limits what the sweep adds. The price of
four cents has a share of three, so that halves do not divide the share. Payouts go through
two months, so that an item left over from the first meets the run of the second; two
creators in batches of one make a page after the first; one payment may be refunded, the
other disputed. Changes of accounts and money, and failing transfers, are scenes of their
own: together they make the state space too large, and the steps of a transfer
(`claimTransfer`, `markPaid`, `retryTransfer`) read and write only their item.

`Signaling` has one trouble (a failed socket, a repeated ready or a lost connection) and two
sets of ICE credentials, for one recovery. `Followers` has two shards and more receipts than
a batch; `Audience` two visitors on pages of one, so that a heartbeat falls between the
pages; `LiveAlerts` three readers on pages of two, one of whom may leave; `RealtimeHub` three
sockets for two places, with buffers of one. `CallerPage` draws three keys and meets one
error: two keys are for one tier, for a second hold where the first should be resumed, and one
is for another tier, with a hold beside the first or for a caller whom the end of their first
payment puts out of the line. `Studio` has two tabs, two shows and one save; `PayoutAccounts`
two accounts at Stripe, one change and two actions; the chart's query stops on its own day, ten
or two hundred days back, or not at all; `SavedCards` has two pages and two customers. `SignIn`
has two tabs, three askers and one submitted form, in two scenes: in `signin` one tab goes through
the password forms while the other rests, in `tabs` both are on a hotline. Together they are
too large for a run; the proof covers both at once. `ResetCodes` has five requests over two
windows of two. `ApiCalls` has a paying and a free viewer, `ApiPresence` two sockets of one
role, `QueueIndex` two workers and three events.

Symmetry is used only in runs without liveness properties. `MCPages`, which has none either,
has a `VIEW`. It tells states apart by the page they follow only; the hub's sockets, the
studio's tabs and the creators one may follow are interchangeable; and what can have no effect
any more is left out: the tiers of a show that is live or over, the forms of a caller whose
show has ended, the details of a payment that is over, what the payout settings neither offer
nor wait for, the key of a customer that is found by its row, and what a subscription on its
way to being closed still holds, since `Broadcast` throws it away and its room is never on the
map again. The model is not changed by it, and every invariant is a function of what the view
keeps.

The system may come to rest (a show that is over, a call that has ended, refunds that are
settled, a page with nothing asked), so deadlock is not checked.

### Fairness

`Hotline`: scheduled mutations run exactly once (Convex), so `CloseQueue` is weakly fair;
the sweep is a cron, so `Sweep` is. Actions run at most once and may die, but a capture that
the sweep starts every minute does not die at the same step for ever, nor is Stripe down for
ever: each step of it is strongly fair. Nothing is assumed of callers, creators or webhooks.
`CallPresence`: time passes, scheduled mutations run, and a steady page sends its heartbeat
or falls silent; at the horizon it can only do the latter. `Refunds` and `Payouts`: delays
pass, the sweep runs, a claim that is started again and again eventually succeeds, a started
action ends (by dying, if nothing else), and Stripe's events arrive, because Stripe
redelivers them for days. `Signaling`: timers and promise chains run, and a page whose call
is over ends it. `Followers`: the cron and its batches run. `Audience`: time passes and
scheduled recounts run. `ApiCalls`: a hold lapses, and its event arrives. `ApiPresence`:
time passes, the sweep runs every second, and a handler goes on or dies. `QueueIndex`: a
worker goes on; only the bounded number of failed flushes stops it.

In a module that shares a run with others, fairness is stated for its own variables and
concerns only the behaviours that follow it: its actions are disabled in the initial state,
or the condition names the scene.

## What the runs refute

Five statements of comments and documents are not true of the code; `PROJECT.json` quotes
them with the run that shows it.

- A decline event that arrives while the next card is being captured fails the call, and the
  charge that follows is never refunded (`hotline_declined`). `UndeclinedIsSettled` is what
  holds: without such an event, every charge of a finished call is earned or refunded.
- Recording the cancellation of an old payment removes the caller from the queue they have
  rejoined (`hotline_evicted`).
- A refund whose action dies on its last attempt stays PROCESSING (`refunds_stuck`).
  `RefundIsDriven` is what holds: settled, or out of attempts. `RunEnds` has the same
  exception for transfers.
- A show that ends between the two mutations of `joinPaid` leaves a hold that nothing
  releases until Stripe lets it lapse (`caller_hold`). `JoinedHoldsGo` is what holds: the
  hold of a caller who was in the line to the end goes.
- The session that a setup button creates belongs to that button's own mutation, and the
  embedded setup, which waits for another, never opens (`payout_setup`).

## What is proved

`HotlineProofs` proves, for every set of callers, attempts, calls and tiers and every bound,
`Spec => []Inv` for each safety invariant of `Hotline` that holds, and `Spec =>
ImplementsPayment`. None of them is inductive alone. `IInv` adds

- `CallRows`, `OneCallPerAttempt`: a payment backs at most one call, made for the entry the
  payment names. Without it a webhook could open or fail a call that another payment backs.
- `IntentRecorded`, `NewsIsTrue`: what a job has learned from Stripe and what an event says
  is still true when it is applied, because Stripe's final states are final. This is why a
  late answer may be written without looking again, and why `BooksMatchStripe` holds.
- `PendingEntry`, `ShowRows`: the entry of a call being charged is SELECTED, unless the show
  is over and the queue closed around it.
- `MoneyRows`, `FailedCallReleased`: an earning belongs to a call that started, a refund to
  one that did not, and a call that failed before its capture has its hold released, or a
  decline applied: the case in which a charge is lost.

Each action preserves `IInv` in a lemma of its own, grouped by file of the code. The
refinement maps a payment's place to Stripe's state, overridden by the ledger and the refund
row; `MoneyStands` turns the invariant into facts about that mapping, and each action moves
at most one payment, by a step of `Payment`.

`CallPresenceProofs` proves with an unbounded clock and arbitrary timer lengths that no
absence goes unwatched, that a call is failed only after a whole grace period of silence,
and that a steady participant is kept. The only assumption on the lengths is `Heartbeat <
Grace`, as in the code (10 s and 20 s); the order of the times in a row, `RowsInOrder`, is
the invariant that makes comparing them for equality enough.

### Signaling

`SignalsSafe` is `SignalsAreSound` for every number of troubles and offers and every purge
batch. `HandshakeInv` has two halves. `ShapeInv` adds to the types that what is purged stays
so, because a call that is done accepts no signal. `ExchangeInv` says why an answer fits: as
long as two copies were never under way at once (`doubled`, a history computed from what the
queues hold and not from the path the code took), the managers, their outgoing mutations, the
table and the chains hold at most one description between them (`OneAtOnce`), it is about the
last offer (`IsLast`), and it is there only while the creator waits for an answer
(`OnlyAwaited`). `Single` counts only the rows behind the `seen` ones, since those at the head
are delivered and will not be again; a socket that fails without a description among them
(`Unacked`) gives nothing back (`FailOne`).

A second copy does harm: the caller answers it again, and the second answer finds the
creator's peer stable, where `setRemoteDescription` throws and the manager fails the call.
`docs/audio-calls.md:51` says that established audio can continue without the WebSocket; the
model reaches calls that fail because a socket was replaced before it acknowledged an offer.
`AnswersFit` says that this, or an offer repeated too early, is the only way there.

### Sums

Amounts and counts are sums over sets, and `MapThenSumSet` of the library is a recursion
that takes out some element each time. `SumTheorems` shows, from the well-foundedness of
`<`, that it has one solution and that the order does not matter, and then what proofs need:
what changing, adding or removing one element does to a sum, and that a larger function or
set has a larger sum. The library's induction theorems cannot be instantiated here, so an
induction is written as a fact about a set: a set of subsets of `S` that has the empty set,
and with each set that plus one element, has `S` (`SubsetInduction`). No theorem is about
what a recursion over the values of a data type computes.

### Refunds, ledger and payouts

`RefundsSafe` is `RefundsAreSound` for every price, every share earned of it and every set
of dashboard refunds. `RefundsInv` adds: what is reversed belongs to a settled row
(`ReversedIsSettled`); the row of a dashboard refund, and every run on it, is about that
refund (`RowsAreNamed`, `RunsAreNamed`); Stripe reports all that it does (`StripeReports`),
and an answer of success that a run carries is among it (`AnswersAreReported`). The last two
are why an answer that comes after the lease is over may still be recorded. `SettledIsFinal`
is the action property `SettledStaysSettled`.

`PayoutsInv` is the invariant of the monthly run: entries agree with what happened to their
payment (`EntriesAgree`), the running total is their sum (`TotalIsSum`), an item and its
reservation in the ledger come together (`ItemIsReserved`), only cleared money is reserved
(`ReservedIsCleared`), the walk meets each account once (`OrderIsAccounts`), what Stripe has
sent is an item's amount (`SentIsOwed`), every transfer at work has its item (`JobHasItem`),
a creator has one unsettled item (`OneAtATime`), and a finished run has none in flight
(`FinishedRunIsQuiet`). `LedgerSafe`, `PayoutsSafe` and the action property `PaidIsFinal`
follow. `FeesAreFair` is arithmetic: for every price from 50 cents to 10,000 dollars, the
range the code accepts, and every rate up to the standard one of 20 percent, rounding
included. `MoneyIsFinal` puts `SettledIsFinal` and `PaidIsFinal` together as `FinalIsFinal`,
the property the run checks.

### Followers, alerts, audience

The shards' counts are sums that a follow and its unfollow, which may hit another shard,
change by one; `FollowersInv` needs only the types of events and receipts besides.

`AlertsInv` is about the cursor: it parts the followers who have wanted mail since before
the show into those told and those not told yet (`CursorParts`), which an unfollow behind it
preserves only because the cursor moves along with the rows. Such a follower is in one batch
only, and once mail was sent its key is taken (`OneBatchEach`), so that neither a retry nor
another page mails them again.

`AudienceInv` has `RowKnowsCounter`, that the row knows of a recount that runs, and
`CountsAreApart`: what a recount has counted and what lies beyond its cursor are together no
more than those who came. That the cursor passes all of a page rests on `PageHasLast`: a
finite page has a last row in the order of the index.

### Go API: calls

`ApiCallsProofs` proves `ApiCallsAreSound` and the refinement of `Payment` for every set of
callers, payments and calls. Its invariant lists what Stripe, the row, the ledger and the
refund may say of one payment at the same time, and for each caller how entry, call and
charge belong together, also while a handler stands between its transactions and Stripe.
`MoneyOf` looks at the refund before the earning, so that a refund of what was earned is a
step of its own and not hidden; `MoneyStands` turns the invariant into facts about the
mapping, and every action but one moves a payment by a step of `Payment`. The one is the late
`completePaidSelection` of `TakesBack`.

### Go API: Redis

`RedisSafe` is `RedisIsSound`. `PresenceInv` needs only the types: a removal spares the leases
that have time left. `IndexInv` follows a caller whose first join still stands (`FirstWait`):
nothing in the outbox or at a handler is about to remove them (`FirstWaitIsSafe`), the index
is cleared only when the show is over and no one waits (`ClearedWhenOver`), and a join that is
published, or that a worker has applied and not published yet, is in the index
(`DoneIsIndexed`); so a worker that repeats an older event takes nobody out.

### Hub and pages

`HubInv` adds to `RoomsAreSound`: a connection that is not in a room yet owns none and is
owed nothing (`RoomsHaveMakers`), a room on the map has its subscription (`RoomsAreOpen`),
and what is owed was addressed to its reader (`OwedIsAddressed`). `StudioInv` has the
profile (`PublicPageIsTrue`), that a tab shows a show that exists and an announced opening
is a draft's (`TabsAndPageFollow`), that configurations with the same number are the same
(`NumbersNameTiers`), and that the tiers a tab shows are the saved ones unless another tab has
saved since or its own save is under way (`TabsShowTiers`); `StartsAreSound` is the action
property `StartsAsShown`, which follows. `MicInv` says that a row which waits for the
permission or does not test holds no stream (`WaitsHoldNothing`) and that what is shown was
opened, and is remembered where the browser keeps it (`ShownIsOpened`). `FollowInv` says that a fetch that began before a press is not taken for
sound (`FetchesAreSound`) and that a list that is behind is doubted or will be fetched again
(`ListsCatchUp`).

`IdentitySafe` is about `SignIn` and `ResetCodes`. `SignInInv` counts, for each tab, the
anonymous accounts it has made, those it may still make because it has no session and asks or
may ask (`MayMake`), and one more if it is still to hear of a sign-out (`MayLose`): together
they are at most one beside the excused ones (`AccountsAreCounted`). Without a sign-out a
session once seen stays (`SessionStays`).
`ResetInv` has at most one request under way as long as none overlap (`OneUnderWay`), the
current code in the newest mail or on its way there (`CurrentIsMailed`), and a limit row that
counts exactly the sends of its window (`RowCounts`), so that no window has more than the
limit (`WindowsAreCapped`) and two neighbours no more than twice as many (`TwoWindows`).

`SettingsSafe` is about `PayoutAccounts`, `EarningsChart` and `SavedCards`. `AccountInv` says
that what an action has read since the latest change of its account is what Stripe has
(`ReadIsTrue`), that the account an action has found is the row's and one it has made is the
one the key repeats (`KnowsAccount`), that one was made unless the key was forgotten before a
row named it (`OneWasMade`), and that a change is saved, announced, or about to be looked at
(`ChangesAreSeen`), after which the row is true (`RowIsTrue`). `ChartInv` keeps the drawn day
and its month together (`IsDate`); that the bars are within what the query reads is then
arithmetic about the calendar, with a leap year in every four (as it is until 2100), for spans
of thirty days and of twelve months. `CardsInv` says that an open card form belongs to the customer of
the row (`FormsKnowCustomer`) and that a list fetched since the last change is current
(`ListIsFresh`).

### The caller's page

`CallerPageSafe` is `CallerPageIsSound` for any number of keys, calls, requests and errors.
`CallerInv` adds

- `HoldsInOrder`: a payment gets its intent, its id, its hold and its place in the line in
  this order, and one without a place is over only if something failed;
- `TalksInOrder`, `PickedIsNotHeld`: one call at a time, which the entry agrees with, and no
  standing hold of a caller who was picked or whose entry is closed;
- `AsksInOrder`: at most one request that the page still hears and at most one join with a
  key, which the page keeps for its tier meanwhile, because only the join's answer drops it;
- `PageInOrder`: a card form that still wants a card is that of a kept key, there is none while
  a payment is asked for, and a disabled one has a confirmation or a join to wait for, or a
  caller whom the join found in the line already;
- `LineInOrder`: a standing hold is the kept key's of its tier, waits in the line, or is one
  of the two exceptions, and no other key of its tier is kept beside the one in the line.

The last gives `RetriesReuseHold`: two standing holds of one tier would be the kept key's and
the line's. Of two tiers both may stand; the last part is therefore about each tier. Steps of the server that move no request, and steps of a request that do not end a
join, keep the invariant for one reason each (`ServerStep`, `AskStep`); the others are proved
one by one. The proof attempt found that with two keys TLC had not seen an exception to
`RetriesReuseHold`: the known eviction by an older payment (`hotline_evicted`) leaves the hold
of the rejoined caller standing while they draw a third key. The property names it
(`evicted`).

### Assumptions and limits

Constants are assumed to be of their types, tiers to have numeric ranks, `None` to be none
of the values, batch sizes and limits to be positive, sets that are counted or added up to
be finite, prices and fees to be in the ranges the code accepts, and the earnings chart to
have twelve months behind it, as its first number of a month is at least 11. Other bounds are arbitrary
numbers. TLC evaluates each assumption on the instances it checks, and has checked each
inductive invariant on one before it was proved.

The specifications that are proved about have no fairness, and each module's theorems are
about that module: the MC modules, which put several side by side, are for TLC.

Only model-checked: liveness, which is out of the prover's reach (`PendingSettles`,
`QueueCloses`, `ChargedIsEventuallySettled`, `RefundSettles`, `RunEnds`, `CallEnds`,
`HandshakeSettles`, `OldDataGoes`, `ApiCatchesUp`). The five refuted statements are
counterexamples, which are TLC's.

## Further hazards

Weaker or narrower than those in `PROJECT.json`. In brackets the part of a property that
covers it; without one, why none does.

- `convex/payments.ts:321`: markAuthorized runs in a mutation after Stripe was asked: the
  hold may have lapsed or been cancelled in between. [`WaitingIsAuthorized`,
  `BooksMatchStripe`]
- `convex/lib/calls.ts:127`: Who keeps a captured payment is decided in four places (going
  LIVE, ending before, the show ending, the webhook), which must neither both pay nor both
  skip. [`ImplementsPayment`, `UndeclinedIsSettled`]
- `convex/payments.ts:289`: A payment_failed event applied while the attempt is still
  CREATED makes it FAILED although a second card is then held: verifyAuthorization refuses
  it, and the page keeps the key of a dead payment. CallerPage reaches it; KeyIsUsable
  excuses a declined card, and no document promises a second try after one.
- `convex/lib/calls.ts:103`: Nothing polls: a LIVE call ends only because its timer was
  scheduled when it went LIVE. [`LiveCallEnds`, `AbsenceIsWatched`]
- `convex/presence.ts:28`: A call to which nobody ever connected has no presence row and no
  timer, and stays CREATED, blocking the show, until someone ends it. The code means it so
  ("Only participants who have connected can be disconnected"), and no document promises an
  end.
- `convex/refunds.ts:113`: A worker slower than its lease answers after another has claimed
  the refund or after the webhook settled it. [`SettledStaysSettled`, `RefundIsDriven`]
- `convex/lib/payments.ts:39`: A partial refund made in the dashboard hides the need for the
  automatic one, since any row of the payment makes requestRefund return. Refunds reaches
  it. What the caller should get back after support has decided on a part is not said
  anywhere.
- `convex/webhooks.ts:305`: A refund that succeeded and later fails at Stripe turns the row
  FAILED, but the reversal it posted stays. ReversedIsRefunded asks only that a reversed
  refund had once succeeded; no comment or document says what should happen afterwards.
- `convex/lib/ledger.ts:193`: A payment is refunded and disputed: the refund's reversal and
  the dispute's debit are capped apart, and both take the earning. Payouts reaches it.
  Stripe refuses most disputes of refunded charges, and no document says that the two may
  not add up.
- `convex/lib/ledger.ts:206`: A dispute reported as won before it is reported as opened
  releases nothing, and the later event debits the creator for good. Payouts reaches it.
  DisputeCostsOneEarning bounds the loss to one earning; no document promises more, because
  Stripe's order of events is not promised either.
- `convex/lib/stripe.ts:77`: The card fee is rounded, then split between platform and
  creator; the shares must add up and stay positive at the smallest prices. [`FeesAreFair`]
- `convex/payouts.ts:589`: A late page reserves an item of a run that was already
  closed, and the run must be open again while the transfer is in flight. [`FinishedRunIsQuiet`]
- `convex/payouts.ts:475`: The payout's period and the date the page announces are computed
  apart, around the payout day and the ends of months. [`NextPayoutTurnsPeriod`]
- `convex/payouts.ts:744`: The sweep takes 50 rows before it filters those out of attempts:
  50 exhausted transfers starve every later one. The bound of 50 is never reached in a small
  instance, and an exhausted row becomes FAILED unless its action dies on the last attempt.
- `convex/payouts.ts:133`: The account and its banks are read in two requests, between which
  Stripe may change either. [`SettledAccountIsCurrent`]
- `convex/payouts.ts:307`: Two sessions are asked for at once and both find no account to
  use. [`OneStripeAccount`] docs/delivery-plan.md:109 says that repeated onboarding requests
  reuse one connected account; a second one is made when Stripe has forgotten the key before
  a row names the first, which the property excuses.
- `convex/payouts.ts:315`: ensureAccount returns the account it made also when saveAccount has
  kept another, and the session is for an account that no row names. [`OneStripeAccount`] It
  is excused when the key was forgotten while a request that found no account was under way,
  the only way there.
- `convex/payouts.ts:402`: The query stops at its 8000th entry, and a day before the one it
  stopped on may show what was earned without its refunds, because entries are read in the
  order in which they become available. [`ChartIsComplete`] The property is about the days
  after it: the comment says "Older days drop off first".
- `convex/webhooks.ts:362`: account.updated arrives before the row of the account exists,
  and is dropped. PayoutAccounts excuses it: the action that creates the account reads it
  afterwards, so that only a change made in between is missed until the next event or visit.
- `convex/webhooks.ts:351`: A late payout event with status pending overwrites the failure
  the creator is warned of. The payout events only feed a warning and are not modelled.
- `convex/payouts.ts:400`: The query limits the span of days, and the chart's twelve months
  may be longer across a leap year or when the day turns. [`ChartIsComplete`]
- `backend/call/store.go:236`: When the show is over completePaidSelection fails the call
  whatever its status is and requests a refund, so a call that ran meanwhile is refunded too;
  docs/delivery-plan.md:120 says calls that reached LIVE are not automatically refunded. It
  needs an event to open the call while the handler that captured still works, and the call
  to be LIVE and its show to end before the handler's next statement. ApiCalls reaches it.
  [`ApiImplementsPayment`] The property names it (`TakesBack`) and allows no other way.
- `backend/finance/store.go:65`: The refund worker marks a row PROCESSING without a lease; a
  worker that dies leaves it so, and no query takes it up again. The Go finance package is
  superseded by refunds.ts, where NothingLeftProcessing shows the same for the last attempt,
  and is not modelled.
- `backend/finance/store.go:107`: MarkRefundRetry writes RETRY over what a webhook has
  settled meanwhile. The Go finance package is superseded and not modelled; in refunds.ts
  the check of the status prevents it, which SettledStaysSettled covers.
- `backend/httpapi/call_signal.go:180`: The process dies before it removes its lease or sets
  the column: only the lease's end and the sweep tell that the participant has gone.
  [`AbandonedCallFails`]
- `backend/httpapi/call_signal.go:186`: A socket that was the last one sets the disconnect
  column after the participant's next socket has cleared it, and the grace period fails a
  call with both present. ApiPresence reaches it. No statement of the repository excludes
  it, and RenewedIsKept is what holds of the leases.
- `backend/httpapi/call_signal.go:173`: A socket whose admission fails removes its lease
  without asking whether it was the last, so the column is not set. ApiPresence has the step
  (AdmitFails); the participant was disconnected before or has another socket, so the column
  is right except when that socket closes in between.
- `backend/queue/index.go:33`: A late removal, of a worker or of a handler, takes a caller
  out of the index who has left and joined again. QueueIndex reaches it: FirstJoinIsListed
  is stated for callers who join once, PublishedIsListed for events not overtaken.
- `backend/realtime/hub.go:134`: A client whose buffer is full is dropped in the middle of a
  broadcast; it must not stay in the room with a message missing. [`NoSilentGap`]
- `backend/realtime/hub.go:76`: The capacity of a room is checked in two places, before and
  after the subscription is opened. [`HubTypeOK`]
- `lib/convex/signalSocket.ts:136`: A socket is replaced before it acknowledged what it has
  delivered, and the next one delivers it again. [`HandshakeSettles`, `SignalTypeOK`]
- `lib/convex/signalSocket.ts:154`: A batch of outgoing signals is lost with the socket that
  fails to send it. For ready, offer and answer Signaling models the loss (HandshakeSettles:
  the manager repeats or recovers). Lost ICE candidates are not repeated; candidates are
  left out of the model.
- `convex/signals.ts:123`: A finished call's signals are purged in batches, while
  acknowledgements still delete from the same inbox and late sends arrive.
  [`PurgedStaysEmpty`]
- `lib/webrtc.ts:200`: A caller whose description is set sends ready no more; a creator who
  reloads the page then waits for one until the caller's connection fails. The page recovers
  when ICE fails at the caller, which Signaling has as a lost connection; a creator's reload
  is not modelled.
- `convex/liveAlerts.ts:155`: A batch whose answer was lost is sent again.
  [`OneAlertPerShow`]
- `convex/liveAlerts.ts:78`: Preferences are read when the page is collected; a follower who
  mutes alerts before that must not be mailed. [`MutedIsSpared`]
- `convex/channels.ts:84`: The counting flag of a channel stays set if the count's action
  dies, and no later heartbeat starts another. CountingHasJob excuses a count that died:
  Convex runs an action at most once, and nothing in the code resets the flag before the
  next show.
- `convex/channels.ts:160`: A recount that continues only to delete expired rows meets a
  heartbeat that starts another one. [`OneCounter`]
- `convex/channels.ts:116`: A heartbeat moves a visitor's row in the index between two pages
  of one recount. [`CountedOnce`] A row that moved is excused by the property: nothing
  prevents it, and the next recount mends it.
- `components/PublicHotline.tsx:179`: The page keeps offering its card form while the server
  already has the caller in the queue, and a second hold may be made. [`RetriesReuseHold`,
  `JoinedHoldsGo`] A caller who asks again while being charged is excused by
  RetriesReuseHold (`spare`).
- `lib/convex/hooks.ts:404`: The key is kept for a show and a tier: a caller whose join failed
  and who goes back to take another tier has a hold on both, and the first is released only
  when it is joined with, or lapses. RetriesReuseHold is per tier, as the key is; no document
  says more.
- `components/PublicHotline.tsx:471`: The submitting state is not cleared after a successful
  join; the form must be usable when the caller comes back to it. [`CardFormReturns`]
- `components/PublicHotline.tsx:127`: A caller whose payment failed sees the page of a
  completed call. It is wording: the state of the call is right, and CallerPage has no text.
- `convex/payments.ts:236`: A guest who signs in between two tries presents a key that is
  bound to the anonymous payer, and is refused until the tab is closed. It needs CallerPage
  and SignIn together; the key is refused safely and nothing is charged.
- `lib/microphone.ts:100`: The browser falls back to another device than the remembered one:
  what is shown, stored and used in the call must agree. [`CallsUseShown`] Where the browser
  does not name the device or refuses storage, calls use another one, which the comment of
  microphone.ts:18-24 accepts; the property says so.
- `lib/microphone.ts:151`: A recorder stops after its microphone was exchanged or closed.
  [`PlaysCurrentSample`]
- `convex/lib/social.ts:99`: Going live clears the announced opening, which may belong to
  another draft. [`AnnouncedCanOpen`]
- `convex/shows.ts:137`: The payout account stops being ready while a tab still shows it as
  ready. Studio reaches it. shows.start looks at the account in the mutation that starts the
  show, so that a property would repeat its guard, and none is stated.
- `components/studio/TierConfiguration.tsx:74`: What is typed while a save is under way is
  lost when the form is mounted again with the saved tiers. Nothing wrong is stored, and the
  text of a form is not modelled.
- `lib/convex/hooks.ts:451`: A fetch of the card list that began before a card was saved or
  removed answers after it. [`ListIsCurrent`]
- `lib/convex/session.ts:19`: The client has its token before the server sees it; a call
  sent in between is refused. [`CallsFindSession`]
- `lib/convex/session.ts:17`: The promise that joins, payments and heartbeats share is a
  variable of one tab: two tabs of one browser that ask before they hear of each other make an
  anonymous account each. [`OneAnonymousAccount`] The property is per tab, as the promise is.
- `lib/convex/session.ts:37`: A slow anonymous sign-in answers after a password login and
  replaces it. SignIn excuses it: the two are started from different pages of one tab within
  one request's time, and the user can log in again.
- `lib/convex/hooks.ts:72`: Right after a sign-in the cached answer of users.me is still the
  guest's, and the dashboard sends the user back to the login. [`SignedInIsKnown`]
- `convex/passwordReset.ts:41`: The library stores a new code before the limit refuses to
  send it, so that the mailed one no longer works. [`NewestMailIsCurrent`] The property
  holds but for a code whose sending was refused; that case is reached and excused.
- `convex/lib/social.ts:201`: Windows are fixed: twice the limit may be sent around a
  boundary. [`SendsAreCapped`] The property states both bounds. docs/convex-migration.md:95
  says "at most 3 emails per 15 minutes", which is true of each fixed window only.

## Not modelled

- **Profiles, directory, users, caller notes**: single-document edits and queries; no two
  steps of them interleave, and what others read of them (`users.me`, the public profile) is
  in `SignIn` and `Studio`.
- **ICE server configuration, the Stripe client, webhook signatures, email text**: I/O.
- **Payout events of Stripe** (`payout.*`): they keep a table for a warning.
- **ICE candidates, media, connection statistics**: they take the path of the other signals,
  and nothing waits for one of them in particular.
- **Queue positions, lists, movements and counts shown by queries**: views of modelled
  tables.
- **Layout, themes, legal and information pages, forms that send one mutation.**
- **Go: finance, payout, auth, social**: superseded; their port is modelled.
- **Convex Auth, the query cache, Stripe, Redis, the browser**: external, modelled only from
  how this code uses them.

## Plan

1. `CallerPage` composed with `Hotline` for one caller, in place of the single steps that
   stand for capture and cancellation there.
2. `Refunds` and `Payouts` composed over one ledger, so that a refund's reversal is a step of
   both.
3. A creator who reloads during the handshake, and ICE candidates, in `Signaling`.

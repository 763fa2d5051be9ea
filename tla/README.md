# REKI back end: TLA+ models, model checks and proofs

REKI is the back end of a nightlife guide: venues publish live status and offers,
customers find them, claim vouchers and redeem them at the door, and businesses pay for a
plan.  It is a NestJS application over Postgres (TypeORM), with Stripe, Firebase push and
a Socket.IO gateway.  Paths below are relative to `src/src/modules/`.

Every request handler is an `async` method that makes several database calls.  Node runs
one piece of JavaScript at a time, but **every `await` is a point where any other request
may run**, and hardly any handler uses a transaction.  Rows are usually read by one call,
changed in memory and written back with `repository.save()` by a later one.  What can go
wrong is therefore seldom inside a handler; it is between the calls of two of them, or in
a crash between two calls of one.  That is what the models are about.

## 1. Inventory

| Part | State it keeps | Operations | What is hard about it | What makes it correct | Model |
|---|---|---|---|---|---|
| Offers and redemption (`offers/`) | `offers`, `redemptions`, `venue_analytics` | claim, redeem, redeem-by-code, worker scan, click; availability and status | double redemption, last place raced for, compensation of a scan, crash between mark and count, second save of a claim, analytics read-modify-write; times of day | a voucher takes one place, the cap holds, the two tables agree, the log is true; an offer is open as advertised | `Redemption`, `VoucherLedger`, `OfferClock` |
| Offer management (`business/`) | `offers` | create, update, toggle, delete | whole-row saves under the redemptions | the count never overstates; followers are told | `Redemption`, `VenueLive`, `OfferClock` |
| Worker scan and staff (`worker/`) | assignments, staff rows, activity log | scan, assign, remove, deactivate, status, live info | access read once; assignment racing deactivation | a log line stands for a redemption; who was removed stays out | `Redemption` (scan), `Team`, `VenueLive` (status, live info) |
| Business accounts (`business/`) | `business_users`, assignments, venues | register, profile, reset, create/update/delete venue | saves of old copies; a venue in four rows without a transaction | rosters of one business, a removed venue stays removed | `Team` |
| Accounts and sessions (`auth/`) | `users`, `refresh_tokens` | sign-up, three sign-ins, refresh, logout, change/reset password, verify | racing sign-ups, token rotation, stale users rows, crash inside changePassword | one account per address, spent tokens stay spent but for a twin of the same second, changed passwords stay changed | `Accounts` |
| User profiles (`users/`) | `users`, dependent rows | profile, preferences, locale, saved venues, delete account | save of a removed row inserts it again | as above; saves are counted | `Accounts`, `OfflineSync` |
| Subscriptions and webhooks (`billing/`) | customers, subscriptions, attempts, event inbox | initialize, change, cancel, reactivate, extend grace, webhooks | events late, repeated, out of order, overlapping; stale saves; retry after failure | the row follows Stripe unless overtaken, every event lands, premium was paid for | `Billing`, `StripeMirror` |
| Live gateway (`live/`) | viewer sets, rooms, connection registry (memory) | connect, join/leave, disconnect, broadcasts, feed, countdown ticks | three views of one connection; snapshot before subscription; broadcasts in another order than the saves; missed ticks | sets, rooms and registry agree; a screen shows what is stored; the end of an offer is announced | `LiveGateway`, `VenueLive`, `OfferClock` |
| Push, devices, geofence (`push/`, `devices/`, `geofence/`) | device rows, preferences, sent-marks (memory), notification log | register, send, preferences, location check | check – slow send – mark; hand-over of a device; hourly limit and cooldown read before the insert | no duplicate, no push against the preferences, cooldown kept | `Notify` |
| Offline synchronisation (`sync/`) | `sync_actions`, rows of the other parts | upload queue, delta download, save state | a queue sent twice, last-write-wins on a stale read, `lastSync` taken after the query | no old update over a new one, no change never delivered, counts and points right | `OfflineSync`; offer toggle in `Redemption` |
| Venues, busyness, vibes | `venues`, `busyness`, `vibes` | status by owner, worker and queue; votes | running average from a stale read | feeds follow the row; the score is the mean of the votes | `VenueLive`, `OfflineSync`, `DemoCity`; open or closed in `OfferClock` |
| Engagement (`engagement/`) | reviews, votes, check-ins, points | review, vote, check in, share | cooldown read before insert | no points twice per cooldown | check-ins in `OfflineSync` |
| Seed, cities, demo mode, administration of cities (`seed/`, `migrations/`, `cities/`, `demo/`, `admin/`) | all rows of the first city | migrate, boot, time machine, reset, city edits | a boot cut off between two inserts is never resumed; a reset among requests | a boot leaves a whole city, a reset restores it | `DemoCity`, seeded offers in `OfferClock` |
| Notification inbox | notification rows | create, mark read | none of its own | every alert arrives | rows in `VenueLive`, `Notify` |
| Plan catalogue, scheduled jobs, audit log, intelligence, upload and e-mail, shared code | mostly reads, single-row writes or external calls | | | | not modelled (section 7) |

How the parts interact: the **offers row** is written by redemptions (`increment`), by the
owner's edits and by offline sync; the **users row** by sign-up, passwords, verification
and every profile write; the **subscription row** by webhooks, by scheduled changes and by
an administrator; the entitlement guard reads it.  Everything else is a call from a
handler to a service of the same process: a status update saves the **busyness and vibe
rows**, writes notifications, pushes through `push/` and broadcasts through the gateway, and
the same two rows are written by the offline queue, by customers' vibe checks and by the
demo, which broadcast nothing.  `PROJECT.json` lists the hazards of each part at the line where they bite.

## 2. Conventions of all models

*One action is one awaited call.*  A handler is a request record in `req` with a step
label and what it has read; `XStart` is the first call (with the checks of the code that
precede any write), the following actions are the later calls in their order.  `Begin(r)`
starts a handler, `Continue(r)` is the disjunction of all later steps.  JavaScript between
two `await`s is part of the action before or after it.

*`save()` writes what was read.*  TypeORM's `save` selects the row again, updates the
columns in which the entity differs and inserts it when there is none.  The models take
this as one action that writes the copy the request holds.  `update(where, set)` and
`increment` are one SQL statement and an atomic action.  (The inner SELECT and UPDATE of
one `save` are not separated: this hides only the window in which a writer falls between
these two, which has the effect of the writer coming just before or after except for
columns that the entity left as they were.)

*Checks that only refuse have no state.*  A request that is refused before its first write
changes nothing and is not an action: an expired QR token, link or access token, an offer
outside its hours or a weak password only make a handler not start.  So most modules have no
clock.  `Notify` and `OfflineSync`, which compare times, count coarse ticks up to `Horizon`;
`OfferClock`, which is about the times of day, counts minutes.

*Crashes.*  `Restart` forgets `req` and everything else that is in memory and leaves the
tables; `MaxRestarts` bounds how often.

*Histories.*  Variables called histories (`served`, `lost`, `replaced`, `cut`, `raced`, …)
exist for the properties; no guard reads them.

*Properties that name their causes.*  Much of this code does not prevent an interference but
leaves a narrow window for it.  Where that is so, the property says exactly which windows
there are (`StaleRoomHasACause`, `RemovedStaysOut`, …): a wrong state needs one of the named
accidents, and any other way to it is a violation.

*Slips.*  Each module has a section of operators that are one action of the code with a
plausible bug.  Nothing uses them: `PROJECT.json` ("mutants") names, for each property,
the slip that violates it when it takes the place of the real action.

*`Handlers`* is the set of endpoints in use.  It lets a run exclude an endpoint, and lets
a theorem say for which endpoints it holds.

## 3. The modules

### Redemption, VoucherLedger

| Action | Code |
|---|---|
| `ClaimStart`, `ClaimFind`, `ClaimInsert`, `ClaimSign` | `offers.controller` claim: availability, look for an active claim, insert; `offers.service` claimOffer: second save with the signed QR payload |
| `RedeemStart`, `RedeemByCodeStart`, `RedeemLoad`, `RedeemBump`, `RedeemSave` | redeem and redeemByCode: reload, `increment`, analytics, `save` |
| `ScanStart`, `ScanMark`, `ScanCount`, `ScanRevert`, `ScanAudit` | `redeemOfferByWorker`: conditional UPDATE that marks, conditional UPDATE that counts, compensation; then the activity log |
| `ClickStart`, `AnalyticRead`, `AnalyticWrite` | trackClick and `incrementAnalytic` |
| `EditRead`, `EditSave`, `UpdateOffer`, `SyncToggleRead` | toggle, delete, update, offline toggle |

A scan is written with conditional UPDATEs and survives every interleaving; a customer's
redemption is read-check-write and does not.  Hence two kinds of properties.  With claims
and scans only (`redemption_scan`): `SingleUse`, `AuditTruthful`, `RedeemedIsFinal`,
`MarkSettles`, and the whole module implements `VoucherLedger`, where using a voucher and
taking its place is one step.  That the cap is respected and the count exact follows from the
refinement and is proved (`CapRespected`, `CountExact`).  The refinement
maps a voucher to *used* when its place is counted, not when the scan marks it, because a
mark may be taken back; a mark cut off by a crash (`lost`) is never used.  With all nine
endpoints (`redemption_mixed`): `NoFreeRedemption`, `CountNeverOverstates` and
`AnalyticsNeverOvercount` still hold.  What does not hold is shown by the configurations
`MCRedemption_twice.cfg` and `MCRedemption_claims.cfg`.

`Vouchers` is the set of ids claims can still hand out: each has its holder and offer
beforehand, which bounds the claims and loses nothing, since ids are random.

### Accounts

| Action | Code |
|---|---|
| `RegisterStart`, `SocialStart`, `GuestStart`, `SignUpInsert`, `LoginStart`, `Mint` | register, googleAuth/appleAuth, guest, login, and generateTokens |
| `RefreshStart`, `RefreshOwner`, `RefreshRetire`, then `Mint` | refreshToken |
| `LogoutStart`, `LogoutSave` | logout |
| `PasswordStart`, `ChangeSave`, `RevokeAll`, `ResetSave`, `ForgotPassword` | changePassword, resetPassword, forgotPassword |
| `VerifyStart`, `VerifySave`, `ProfileStart`, `ProfileSave` | verifyEmail; every method that saves a users row (profile, preferences, locale, city, saved venues, saveUserState) |
| `DeleteStart`, `DeleteSessions`, `DeleteUser` | deleteAccount; the other dependent tables are not kept |

A row of `users` is its status, its password (a number; each new one is larger) and the
verified flag.  `users.email` is unique and `refresh_tokens.userId` is a foreign key: an
insert that breaks either is an error answer.  Sessions are the rows of `refresh_tokens` in
the order of insertion, with the session each one was exchanged for and the text of its token.
generateTokens signs the user and the second, and the column is not unique: a new row bears a
text of its own or that of any other row of its user (`Signable`; no clock is kept, so the
seconds are left open).  refreshToken and logout look a token up by its text and get any row
that bears it.  So a token that has been exchanged may be accepted again, as its twin;
`SpentTokenHasACause` says that this is the only way, and `MCAccounts_reissued.cfg` shows it.

### Billing, StripeMirror

`remote`, `events`, `receipts` and `seen` are Stripe, which is external and modelled from
how the code uses it; `row`, `inbox` and `attempt` are our tables.

| Action | Code |
|---|---|
| `InitStart` … `InitRecord` | initialize: the attempt is upserted, the newest subscription is looked up, a subscription is created or changed, the payment intent is stored |
| `ChangeNow`, `ChangeNextStart`, `ChangeNextSchedule`, `ChangeNextSave` | changePlan, immediate and at renewal |
| `Cancel`, `Reactivate` | cancel, reactivate, adminCancel, adminReactivate |
| `ExtendGraceStart`, `ExtendGraceSave` | adminExtendGrace |
| `HookStart`, `HookFind`, `HookInsert`, `HookSync`, `HookStore`, `HookAttempt`, `HookFault`, `HookDone`, `HookFail` | processEvent with syncSubscription and updateAttempt |
| `StripeCharges`, `StripeDeclines`, `StripeRenews` | Stripe on its own |

What is abstracted:

- A subscription and its first invoice have the name of the idempotency key that created
  them; Stripe answers a repeated key as it did at first.
- The plan in the metadata and the price of the item are two fields, because the code
  changes them at different times; intervals and dates are left out.
- `paid`/`declined` stand for the pairs `invoice.*` and `payment_intent.*`.
- The customers row, created by the first initialize, is taken to be there.
- initialize on a running subscription changes it at Stripe, but the answer holds no
  expanded invoice, so the request ends with 502 and stores nothing (`InitChange`).
- `Earlier`: keys that may already have an old, paid and copied subscription in `Init`, so
  that changing, ending and replacing one is reached within few events.
- "overlap" and "tie" in `Handlers` are switches of the environment: without "overlap" no
  two requests that save a subscription row are under way together, without "tie" no two
  events bear the same second.  The code guarantees neither, so the first scene of
  `billing_mirror` has both and the theorems hold whatever is on.
- A history follows which event a row tells (`from`), which one it told when a request read
  it (`base`), and the subscriptions a save has taken back to an older event than they told
  (`overtaken`): with a copy that another save had overtaken, or with the older of two
  events of one second.  A save that tells the newest event takes a subscription out again.

With every event processed, a row differs from Stripe only where it is `overtaken`
(`DriftHasACause`), and all along it is a state its subscription really took: `StripeMirror`
lets a copy go forward, or back and then astray until it tells the newest state.
`MCBilling_overtaken.cfg` shows that overtaking does happen.

- At `MaxEvents` Stripe is unreachable: calls to it fail and change nothing.

### LiveGateway, VenueLive

`LiveGateway` is the gateway's memory; `VenueLive` extends it with the rows and handlers
whose changes go out through it, so a composition of the two is what `live_feeds` checks.

| Action | Code |
|---|---|
| `Connect`, `Refuse`, `Disconnect` | handleConnection, handleDisconnect of `live.gateway.ts` |
| `JoinCity` … `LeaveBusiness` | the eight join and leave handlers |
| `GatewayRestart` | the maps and rooms are in memory |
| `OwnerStart`, `WorkerStart`, `SyncStart`, `DemoStart`, `FindBusyness`, `SaveBusyness`, `FindVibes`, `SaveVibes`, `AlertLive`, `LogStatus`, `AlertPeak`, `Publish` | updateVenueStatus of owner and worker: read, save, read, save, alerts, log, broadcast; processBusynessUpdate and the demo's simulateTime and resetDemo, which read and save the same row and stop there |
| `OfferStart`, `InfoStart`, `WhatsOnStart`, `StoreItem`, `NotifySavers`, `Announce` | createOffer, updateLiveInfo, updateWhatsOn |
| `StreamOpen`, `StreamSubscribe`, `StreamClose` | feedStream: the snapshot query, then the subscription to the same city |

Gateway handlers contain no `await` and are one action each.  Socket.IO takes a socket out of
its rooms before it calls handleDisconnect.  A percentage is above or below the 80 % at
which the alert goes out; tags are whether Live Music is among them.  A city has two names,
the one broadcasts are addressed to and the slug snapshots are taken of; the run gives both the
same value, as the seed does.  An offline update finds a row that is newer or none and is
refused, or goes on; which of the two is left open here (`OfflineSync` has the times).  Of
the demo this module has each venue's busyness row alone; its tags, its vibe alerts and the
loop over the venues are in `DemoCity`.  Left out: pushes (in `Notify`), the content of events.

### Team

| Action | Code |
|---|---|
| `RegisterStart`, `FindEmail`, `InsertOwner` | register |
| `CreateStaffStart`, `FindEmail`, `InsertStaff` | createStaff |
| `DeactivateStart`, `FindStaff`, `EndAccount`, `EndRoster` | deactivateStaff: two statements, no transaction |
| `ProfileStart`, `ResetStart`, `LoadAccount`, `SaveCopy` | updateBusinessProfile, resetPassword: `save()` of the row that was read |
| `AssignStart`, `FindVenue`, `FindUser`, `FindRow`, `SaveAssignment`; `UnassignStart`, `EndAssignment` | assignVenue, removeVenueAssignment |
| `CreateVenueStart`, `SaveVenue`, `SaveBusyness`, `SaveVibe`, `LogVenue` | createVenue |
| `UpdateVenueStart`, `VerifyOwnership`, `LoadVenue`, `UpdateVenue`; `DeleteVenueStart`, `DropVenue` | updateVenue, deleteVenue |
| `WorkStart`, `WorkActor`, `WorkVenues` | assertVenueAccess of every worker request |
| `Fail` | any call fails, or the process stops: what was written stays |

A business token is verified by its signature only, so any account that exists may send any
request.  Nothing in `src/` makes a manager with an employer; the branch for managers is left
out.  The body of updateVenue is taken to hold its documented fields.  Listings are reads.

### Notify

| Action | Code |
|---|---|
| `UpdateStart`, `FindToUpdate`, `SaveUpdate` | updatePreferences; its catch is bare, so a failed save of any kind is answered with the row that was meant |
| `ReadStart`, `FindToRead`, `InsertToRead` | getPreferences, which inserts the defaults |
| `RegisterStart`, `FindToken`, `SaveDevice`, `DeactivateDevice`, `MarkDeviceInactive` | registerDevice with its hand-over, deactivateDevice, markDeviceInactive |
| `AnnounceStart`, `NextUser`, `PassPreferences`, `InsertToSend`, `ListDevices`, `SendToDevice` | sendToUsers and sendToUser: duplicate check, preferences, devices, sends, mark |
| `GeofenceStart`, `CheckLimit`, `CheckCooldown`, `SaveNotice`, `SaveLog` | checkGeofence and its loop over venues |
| `Restart`, `Tick` | the cache of sent pushes is in memory; time |

A push to one user is an announcement to one.  An error ends sendToUsers for the users still
to come, as in the code.  The hourly limit is read once per check, which is a finding, not a
property.  The query for the venue's offer only words the notice.  Left out: storing the
location and the consent, area analytics, FCM itself beyond accepted, refused and unknown token.

Whether a push is unwanted is decided when it *arrives*, by what its user was answered last
and the hour it is then.  sendToUser looks at the preferences once, before it lists the
devices and sends; `forbade` remembers what they said to that look.  A push that was
forbidden already then needs crossed or swallowed writes to get through, one that was not
may be overtaken by the change (`UnwantedPushHasACause`).

### OfflineSync

| Action | Code |
|---|---|
| `RecordOffline`, `Deliver`, `NextAction`, `Skip`, `RecordSuccess`, `AnswerQueue` | the app's queue (external) and processSyncQueue |
| `UpdateStart`, `FindStatus`, `RecordConflict`, `WriteStatus` | updateLevel online; processBusynessUpdate with its comparison |
| `DeltaStart`, `QueryDelta`, `AnswerDelta` | getVenuesSyncSince |
| `SaveStart`, `StateStart`, `FindUser`, `SaveUser`, `SaveState`, `FindCount`, `SaveCount` | saveVenue, unsaveVenue online and in the queue, saveUserState, incrementAnalytic |
| `CheckInStart`, `FindLastCheckIn`, `InsertCheckIn` | checkIn online and in the queue |
| `Fail`, `Crash`, `Tick` | an action of a queue or a request fails, and the queue goes on; the server stops with a queue on it; time |

The app is not in the repository: it is taken to keep its queue until an answer arrives and to
send all of it again otherwise.  `sync_actions` is written and read by statistics only.
processVibeUpdate differs from processBusynessUpdate in the columns alone; the model has one
such row.  Left out: VENUE_VIEW, NOTIFICATION_READ, shares, reviews, votes and history in the
queue, the deltas of notifications and offers, phones whose clock is ahead, HTTP caches.

### DemoCity

| Action | Code |
|---|---|
| `Migrate` | the migrations, run from outside as one step (`synchronize` is off) |
| `CountVenues`, `SeedCities` … `SeedBusinessUsers`, `BackfillVenueCityIds`, `Retry`, `GiveUp`, `SeedFails`, `Restart` | SeedService, call by call, with its five attempts and the restarts of pm2 |
| `StartSimulate`, `StartReset`, `ReadVenues`, `ReadCrowd`, `SaveCrowd`, `ReadVibe`, `SaveVibe`, `triggerVibeAlert` | simulateTime, runScenario, resetDemo: the loop over the venues |
| `ClearRedemptions`, `ResetOffers`, `ClearNotifications`, `ClearAnalytics` | the rest of resetDemo |
| `StartCheck`, `FindVibe`, `submitVibeCheck` | submitVibeCheck: the running average |
| `StartRedeem`, `MarkRedeemed`, `TakePlace` | redeemOffer, as the rows a reset clears |
| `StartCreateCity`, `StartEditCity`, `FindCity`, `SaveCity`, `RenameVenue` | the administrator's cities; the owner's edit of a venue's name |

Random percentages are the two ends of their ranges.  One city of the migration and Leeds
stand for all; the activity log a reset clears with the notifications is left out.  Requests
start when the boot is over, as in Nest; without tables they fail at their first call, so none
starts then.

### OfferClock

| Action | Code |
|---|---|
| `checkOfferCountdowns`, `NextMinute` | the interval of the countdown service and the minutes it falls into |
| `toggleOffer`, `updateOffer`, `TakeLastPlace`, `Expire` | what changes an offer while it is watched |

`isOfferAvailableNow`, `getOfferStatus`, `getLocalOfferTime` and `isVenueLive` are operators,
compared in every state with `Advertised` and `InWindow`, which say what an owner means by
days and times without the code's case distinctions.  Times are zero-padded HH:mm (the DTO
admits any string); a change to summer time during a watch and days that are not spelled as the
code compares them are left out.  A restart is an outage of the countdown.  `midnight` is what
the runtime prints for the first hour of a day (0 or 24 with `hour12: false`).  `this` and
`last` remember what the running minute and the one before have brought; the watch begins
with a minute behind it that went as usual.  Two causes of `FalseAlarmHasACause` are there for
offers the seed does not have: an end told in the minute after an hour printed as 24, and a
window that opens again in the minute after it closes.

## 4. What the runs check

| Run | Instance | Distinct states, and what it shows |
|---|---|---|
| `redemption_scan` | 3 vouchers of 2 users, one offer with 2 places, 3 requests, 1 restart; claim, scan | 52,614: single use, true log, final redemption, every mark settles, implements `VoucherLedger` |
| `redemption_mixed` | 1 voucher, offer with 1 place that an update may lift, 2 requests, 1 edit in flight, 1 restart; all nine endpoints; symmetric requests; deadlock checked | 1,611,370: nothing is free, counts and analytics never overstate |
| `accounts_sessions` | one user, 3 passwords and 2 sessions or 2 and 3, 2 requests, 1 restart; the endpoints that deal in passwords and sessions | 312,705: replaced passwords stay replaced, a spent token is live only as its twin, cut sessions stay cut, a change settles |
| `accounts_rows` | two users who want one address and a guest, 2 requests, 2 passwords, 1 session, 1 restart; all endpoints | 699,608: one account per address, ended sessions stay ended |
| `billing_mirror` | 2 events, 2 requests, 1 restart; two scenes: 1 key and 1 plan with overlap and equal seconds; 2 keys and 2 plans, a request at a time | 991,617: premium was paid, the row differs from Stripe only where it was overtaken, implements `StripeMirror` |
| `billing_delivered` | 1 key, 2 overlapping requests; 1 event with a stale save, 1 fault and 1 restart, or 2 events | 75,836: every event lands |
| `live_feeds` | 2 sockets of 1 user, 1 stream, 1 venue, 2 requests, 2 updates, 1 failure or restart; five scenes | 293,206: the gateway's views agree; a stale screen or stream has one of the named causes; alerts arrive once |
| `team_roster` | 2 owners, 1 address for staff, 1 venue, 2 requests, failures without bound; four scenes; deadlock checked | 1,054,862: who comes back after a deactivation, and which venues after a removal; logged venues are whole |
| `notify_alerts` | 2 users, 2 devices, 2 venues, 2 requests, a clock of 3 parts to the day, quiet over midnight, 2 boots; four scenes; deadlock checked | 983,358: repeated, unwanted and stray pushes and repeated notices have one of the named causes |
| `sync_replay` | 2 phones, 2 requests, 2 offline or online changes, a clock of 3; three scenes; deadlock checked | 892,907: old updates, missed changes, miscounts and double points have one of the named causes |
| `demo_city` | 2 venues, all endpoints; either 2 requests and 1 failure or restart, or 1 request and 3 of them | 1,702,613: what a boot and a reset leave, and what the score is |
| `offer_clock` | 6 seeded offers and 5 of other shapes, 35 minutes around opening, end and midnight of every weekday, the server in the venue's zone or an hour behind, 1 edit, 1 outage | 3,238,116: open as advertised, honest status, announced end, no unexplained false alarm |

The actors and values each property speaks of fit in these bounds: three requests for
two places (one too many, one to be compensated); two of the same address and one that
has none; three sessions are a sign-in, its exchange and one more; three passwords are an
old one, one that replaces it and one that replaces that; three
of both at once would add only a second race to a first.  Two events are what it takes to
change places, and the later of them brings a row forward again when a crash has it delivered
once more; a subscription copied long ago (`Earlier`) is changed, ended or replaced within two.
One restart suffices because a restarted server has no memory of the first, so a second starts
from tables that the first could have left.  Two keys make the newest subscription a choice.  In the later runs, two requests are the
least that can race, and each property names pairs of writers; two sockets of one user show
a registry entry that outlives one of them; the ticks of `Notify` let a duplicate window and a cooldown
expire, and its quiet hours, from the last third of a day to the second, have a part on
either side of midnight; the third tick of `OfflineSync` is past a cooldown of two; both venues of
`DemoCity` are in the demo's timeline, one of them saved by the demo user; 35 minutes span the
countdown's longest warning.

*Scenes.*  `MCMirror`, `MCVenueLive`, `MCTeam`, `MCNotify` and `MCOfflineSync` choose in the initial state
which endpoints a behaviour uses (`MCDemoCity`, how many requests and failures), because
their parts share little state and a product of all would only multiply them.  The scenes overlap where state is shared.  `Followed` in
`MCOfflineSync` stops a behaviour when a miscount has got an excuse: excuses are never taken
back, so no later state could violate `MiscountHasACause`, and no other scene has any.

*Symmetry* is used for requests, jobs and phones in runs of safety properties only.

Runs with `CHECK_DEADLOCK FALSE` have bounds (vouchers, passwords, sessions, events, updates,
minutes, jobs) after which all requests can be answered and nothing is left to do; in the
others something can always be started, so deadlock is checked there.

**Fairness.**  `WF_vars(Continue(r))`: the process does not stop in the middle of a handler
except by `Restart`; its next call is made, succeeds or fails.  Nothing forces a client to
send anything.  Where an MC module bounds a run by
more than a constant (`Few`), fairness is of the steps within the bound.  In `Accounts` a `Mint` beyond it is not answered, which no
liveness property waits for, and `ChangeSettles` excuses a crash between the two statements
of changePassword because then the code really leaves the sessions.  In `Billing`,
`SF_vars(Deliver(e))`: Stripe delivers an event again for days until it is answered with a
success; strong, because a delivery is possible only when a request slot is free (and, in a
run without "overlap", when no other save is under way), which comes and goes.  `VenueLive`
states the same weak fairness of `Serve(r)`; its run, like those of the other later modules,
checks safety only: `EndIsAnnounced` and `AlertsArrive` bound the delay instead of leaving it
to fairness.

**Counterexamples.**  These configurations check one property that a comment, message or test
of the repository states and the code does not keep; run them with
`tlc -config <name>.cfg <module>`.  The findings in `PROJECT.json` quote the lines.

| Configuration | What fails |
|---|---|
| `MCRedemption_twice` | `SingleUse`: two redeem-by-code requests both pass the status check |
| `MCRedemption_claims` | `OneActiveClaim`: two claims both find none and insert |
| `MCAccounts_reverted` | `PasswordSticks`: a profile write restores the old hash after changePassword |
| `MCAccounts_refreshed` | `ChangeEndsDescendants`: a refresh stores a session after the revocation |
| `MCBilling_overtaken` | `MirrorsStripe`: of two overlapping deliveries the older is saved last |
| `MCAccounts_reissued` | `SpentTokenIsRefused`: a refresh in the second its token was signed is given the same token |
| `MCVenueLive_whatson` | `WhatsOnIsPublished`: a What's On line is stored and broadcast to nobody |
| `MCOfflineSync_lastwrite` | `LastWriteWins`: the second update of a queue is refused, the stamp of the first being the time of upload |

Further findings show in the models without a property of their own: the hourly limit that a
check with several venues passes (`CheckLimit`), the unlimited offer shown as expired
(`StatusIsHonest`), the night of an overnight offer after midnight (`SmallHours`), the seeded
notifications a reset clears (`ClearNotifications`), and the delta of offers, which is by
`createdAt` and not modelled.

## 5. What is proved

`tlapm` checks these for every value of the constants, with no bound on requests, vouchers,
users, keys, sessions or restarts, from the assumption each module names about its
constants alone.  `Handlers` is a constant too, so a theorem holds for any set of endpoints except
where it assumes one.
The leaves are kept small: each is proved within a fifth of the provers' time limits
(`tlapm --stretch 0.2`), so a slower machine proves them too.

*`RedemptionProofs`*, any endpoints.  `AnyInv` is the type invariant, strengthened by which
steps have a voucher, with `PaidBeforeSaved` — a customer's redemption that is about to save
its voucher has taken a place — and `NoFreeRedemption`, which is not inductive without it.
Gives `TypeCorrect` and `NothingIsFree`.

The counts, any endpoints too.  What a sum over a finite set is, and what one more term or a
larger term makes of it, is proved by induction over the subsets of its indices: strict
inclusion is well-founded on them (`BySubsets`), which needs no theorem with an operator as a
parameter.  `CountInv` says that neither an offer's row nor any copy of it an edit still holds
counts more than was given away; the row alone is not inductive, since toggle, delete and the
offline toggle save those copies over it.  Gives `CountsNeverOverstate`.  `AnalyticsInv` says
that there is a count of what was ever added to each row of the analytics, which bounds the row
and what any request has read of it, and whose sum, with the redemptions not yet added, is at
most what was given away.  Updates that overwrite one another and rows inserted twice move the
rows away from that count, never above it.  Gives `AnalyticsStayBelow`.

The same module, assuming `ScansOnly` (only claims and scans).  `ScanInv` says that
claims are private (a voucher with a claim still under way cannot be scanned, its QR payload
being unsigned), that a scan owns its mark (no two requests between mark and count for one
voucher), that a settled voucher has taken a place exactly if it is redeemed and not lost,
and `CountExact` and `CapRespected`.  From it `VoucherUsedOnce`, `CapKept`, `TablesAgree`,
`LogIsTrue`, `RedeemedForGood` and `ImplementsLedger`: each step of the interleaved
handlers is a step of `VoucherLedger` or leaves it unchanged.

*`AccountsProofs`* (any endpoints).  `SessionInv`: a request remembers a session that exists;
one that exchanges a session has ended it before it stores the new one, and it stays ended
(`SpentEnded`); parents come before their children; a cut lies in the past; rows that bear one
token are of one user (`TokensOwned`).  Gives `TypeCorrect`, `SpentTokens`,
`EndedByChange`, `EndedForGood` and `OneAccount`.

The same module, assuming `PasswordWritersOnly` (no profile write and no
verifyEmail).  `PasswordInv` adds that passwords are numbered in the order they were chosen,
that a password about to be stored is known to nobody else and has not been replaced, that
the one a request replaces is its own user's and gone once the new one is stored, and that
nobody is in the middle of a write that leaves the password as it was read.  Gives
`DeadForGood` (`PasswordSticks`).  The
assumption is needed: `MCAccounts_reverted.cfg` is the counterexample without it.

*`BillingProofs`*, any endpoints, with overlap and ties.  `BillingInv`: whoever says that a
subscription is active or past due — Stripe, an event, a row, or a copy in the hands of a
request — its first invoice was paid; receipts are never taken back; a delivery in progress
is of an event that was sent.  Gives `TypeCorrect` and `PremiumWasAlwaysPaid`: the stale
saves that can make a row disagree with Stripe cannot make it grant what was never bought.

The same module, from the same assumptions, so with overlap, ties and crashes.  `MirrorInv`:
the seconds of events do not go back, and the last one of a subscription says what Stripe says
now (`InOrder`, `LastIsNow`); a row, and any copy a request holds, says what the event it
names said, or what was so before the first (`Tells`, `AtFirst`); the row is as new as every
event of it that was processed, unless it was overtaken (`LandedIsReached`); a row that was
overtaken has a newer event to hear of (`StillBehind`), which is why the last one to be told
ends it; and a delivery about to store is not older, by its second, than the row it read
(`HasRead`).  That comparison is all the code's check gives; what happens to the row between
the reading and the saving is what `overtaken` records.  Gives `DriftAlwaysHasACause` and
`ImplementsMirror`, the refinement of `StripeMirror` step by step.

*`VenueLiveProofs`*, any sockets, users, streams, venues, requests and wishes for rooms.
`GatewayInv` says
that a socket that is not connected is in no room, no viewer set and no registry, that every
viewer is in the venue's room, that a user's entry names exactly the user's open sockets, and
that every viewer was told the size of the set.  No part is inductive alone: a count told to a
room reaches the viewers only because they are in it, and a disconnect clears only what the
registry knew.  Gives `GatewayAlwaysAgrees` and its three parts.  `LiveUsesTheGateway` shows
that `VenueLive`, whose handlers speak through the gateway, takes no step the gateway alone
could not, so these hold there too.  `LiveInv` adds four parts for the updates of a venue:
alerts owed are alerts sent or with a request that will still send them (`AlertsInv`, with the
cardinality of that set); what a request that wrote alone has stored is still the level, unless
the venue is blurred by a race, a failure or a silent update (`UpdatesInv`); when no update waits to be published, a
socket in a room has heard nothing or the stored level (`RoomsInv`), and so has a stream from
its snapshot on (`StreamsInv`).  Gives `StaleRoomsHaveACause`, `StaleStreamsHaveACause` and
`AlertsAlwaysArrive`.

*`NotifyProofs`*, any users, devices, venues, windows and requests, and any tables a server
may start from (`SpecFrom`; `PushesFromEmptyTables` is the run's case).  `NotifyInv`: of two
requests in the middle of the same push or notice both know it (`RivalsKnow`); a push that
went out is in the cache, or about to be, or the cache was lost (`Remembered`), and who found
none in the cache still finds none unless it has a rival (`StillNew`); a device still to be
sent to is as it was listed or known to have moved (`DeviceInv`); a preferences row is what its
user was answered unless writes crossed or were swallowed, so only then has a push passed the
look at them that was forbidden (`PrefsInv`); a notice
that was logged is in the log the next check reads (`NoticeInv`).  Gives the causes of repeated,
unwanted and stray pushes and of repeated notices.

*`OfflineSyncProofs`*, any phones, queues and requests.  `SyncInv`: an update about to be
written is no older than the row it has read (`ReadBefore`); a delta about to be answered has
the row, or the phone has it, or it changed meanwhile (`Announces`); overlapping check-ins of
one user know it (`RivalsKnow`), and one that knows of none has rested since the last
(`Rested`).  Gives `StaleUpdatesAreRaced`, `MissedChangesAreRaced` and
`CloseCheckInsAreLateOrRivals`.  `CountInv` balances the two tables while nothing has spoiled
them: saves counted and saves still to be counted are users who have the venue and unsaves
still to be counted (`Balanced`, four cardinalities, of which every step of a save moves two),
as long as what each request has read of the list and of a day's row is still so (`ListRead`,
`RowRead`).  Gives `MiscountsHaveACause`.  The sum over the days is stated as the cardinality
of the set of counted saves, so that a step adds or takes one element.

*`CityProofs`*, of `OfferClock`: any days, any two times of the day, any cap and override, any difference
between the venue's clock and the server's, a watch of any length.  Its first half is the
arithmetic of a week of minutes: a window, which `InWindow` states as a distance modulo the
week, holds a moment exactly on the day it begins or, overnight, in the small hours of the next
(`InWindowKnown`), and the code's comparisons are the first of the two (`OpenKnown`).
`ClockInv` says that an unedited minute remembers whether the offer was open in it and what
was said in it (`Told`).  Gives `OffersOpenAsAdvertised`, `StatusAlwaysHonest`,
`FalseAlarmsHaveACause` and `EndsAreAnnounced`.

The same module, of `DemoCity`: any of the fifteen venues, any number of requests at once, any
of their calls failing, any number of restarts.  `ScoreInv`: until two requests cross at a
venue, whoever will write its row holds it as it is, and the row's count and score follow the
checks; the score is a rounded quotient, of which only its distance from the exact one is used
(`Divided`).  Gives `ScoresFollowChecks`.  `WholeInv` says how far the boot has come by what is
in the tables (`HomeKnown`, `ManchesterKnown`, `TagsKnown`), that what a later step fills is
missing only before that step or where some boot was cut off before it (`LackingKnown`), and
that no two cities have the same slug, so that the model's three ids always leave room for the
next (`CitiesKept`).  Gives `BootsLeaveItWhole`.  `ResetInv` says
of a reset that has run alone so far which venues it has restored in which of its two loops
(`Progress`), and that there are no rows before there are venues.  Gives `ResetsRestore`.

*`TeamProofs`* (any endpoints, accounts, venues and requests; any call may fail).  `TeamInv`
says what each request in progress has made sure of and what can have changed since: a copy
of an account differs from the row at most in being active; a venue belongs to its founder or
to nobody; an assignment is of the founder's staff; createVenue has saved the rows before its
step and no other.  Gives `RemovedStaffStaysOut`, `RostersStayApart`,
`RemovedVenueStaysRemoved`, `LoggedVenuesAreWhole` and, assuming that neither updateProfile nor
resetPassword is in use, `NobodyComesBack`: those two saves of an old copy are the only way
in for an account that has been ended.

Only model-checked: liveness (`MarkSettles`, `ChangeSettles`, `EventsLand`), which is out of
the prover's reach.

## 6. What could come next

1. Reviews, votes and history of `engagement/`, online and by the queue.
2. `PlanCatalog` (version check, syncStripe: one active price per plan and interval) and the
   advisory lock of recordUsage, once something calls it.
3. The composition of `Redemption` with `Team`: a worker removed between the access check and
   the scan.
4. The deltas of offers and notifications, with phones whose clocks are ahead.

## 7. What is not modelled, and why

- *Inside the modelled parts*: `savingValue`, wallet passes and listings; the other dependent
  tables of deleteAccount; payment
  intervals, dates and the audit lines of an administrator; what sections 3 names as left out.
- *recordUsage*: no code calls it.
- *Plan catalogue*: edited by one administrator, in calls to the database and Stripe one after
  the other; the plans are constants of `Billing`.
- *Scheduled jobs*: a weekly loop over sendToUser without state of its own.
- *Intelligence, administration beyond cities, listings and reports*: reads, scoring, and
  single-row writes that nothing else depends on.
- *Audit log*: append-only inserts after the fact; the lines properties speak of are modelled.
- *Engagement beyond check-ins*: rows of one user that no other handler relies on.
- *Upload and e-mail*: validation and an external call.
- *Shared code*: guards and interceptors without state; the retry helper's circuit breaker is
  used by no module.
- *Start-up and configuration*: wiring.  The unique indexes and foreign keys the migrations
  create are used in every model.

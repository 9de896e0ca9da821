# Verification of the afovid API

TLA+ models of the API's services, TLC configurations that check them on small
instances, and TLAPS proofs of their main results for every instance. Paths
below are relative to the repository; the services are under `src/`.

## 1. The system

A NestJS server, run as a single Node process (`ecosystem.config.cjs`: one
instance, fork mode), over PostgreSQL (Prisma), a BullMQ queue on Redis,
Socket.IO, an object store, and Stripe, Apple and Google as payment providers.
There are no threads: two requests interleave only at an `await`, but there they
do, and everything a request has read from the database may be stale when it
goes on. Transactions are short interactive transactions, at READ COMMITTED by
default and SERIALIZABLE for the wallets.

| Component | State | Operations | Hard behaviour |
|---|---|---|---|
| Wallets (`coins/coin-wallet.service.ts`) | balance, ledger rows | `applyDeltaTx`, `runWalletTransaction` | concurrent transactions, idempotency keys |
| Coin economy (`coins/*`, `admin/admin-coins.controller.ts`) | packages, purchases, unlocks | unlock, checkout, webhook, Apple/Google credit, adjustment | redelivered webhooks, look-up before the transaction, crash between commit and answer |
| Payouts (`creator/creator-payout.service.ts`) | debit and rollback rows, transfers at Stripe | `requestPayout` | a saga over two systems: lost answers, failing compensation, repeated keys |
| Creator onboarding (`creator/creator-stripe-connect.service.ts`) | connected account, its flags | onboarding link, `syncAccountFromStripe` | two accounts created at once |
| Devices (`device/device.service.ts`) | devices, one-time keys, fallback keys | register, revoke, upload, claim | checks outside the transaction, concurrent claims |
| Chat (`chat/chat.service.ts`) | messages, one envelope per device | send, fetch, acknowledge | device list stale at commit, redelivery |
| Rooms (`room/room.service.ts`) | rooms and participants | find or create | duplicate direct-message rooms |
| Watch-together (`watch-together/*`, `chat/chat.gateway.ts`) | sessions, participants, socket rooms | create, join, approve, reject, leave, end, clean-up | state read before an await and used after it |
| Files (`file/*`) | file rows, objects, transcode jobs | upload, clean-up cron, transcode, trailer | cron against upload, queue retries |
| Paywall (`coins/stream-monetization.service.ts`) | none; reads posts, files, unlocks | what to withhold, what to refuse | one question answered in three services |
| Posts (`post/post.service.ts`) | posts, likes, bookmarks, counters, price | create, edit, delete, like, bookmark, comment | lost updates, pricing in a second write |
| Feature flags (`feature-flag/feature-flag.service.ts`) | flag rows, a five-second cache | `isEnabled`, `patchFlag` | a load in flight when the cache is cleared |
| Auth (`auth/auth.service.ts`) | one token row per user and kind | sign-in, refresh, sign-out, verify | rows written one by one |
| Notifications, users, administration, health | single rows | | mostly single-row reads and writes |

Calls between them: an unlock reads a post, moves coins in two wallets and
inserts its row in one transaction; a webhook credits a wallet or updates a
creator's payout flags; a payout debits the wallet that unlocks fill; chat reads
the device registry; the gateway drives chat and watch-together, which answer
through events; a post marks its files as used, which starts trailers and
transcoding, and is priced from their metadata while a feature flag allows it.

What makes each correct: *wallets* – the ledger explains the balance, a key
moves coins once; *economy* – paid once, credited once, "done" is said after it
is true; *payouts* – a transfer follows a debit, a refund matches one, the
client is told the truth and told in the end; *devices* – a key goes to one
peer, an active device can be reached; *chat* – one envelope per device that was
active, none lost; *watch-together* – only approved participants of an active
session are in its socket room; *files* – a file in
use stays playable; *posts* – counts follow what they count, a price is neither
lost nor overwritten; *flags* – an answer is never older than the cache's
lifetime; *auth* – what is signed out is not accepted.

## 2. Plan

Modelled first is what moves money, then keys and messages, then sessions,
files and posts. All of it is written:

| Component | Modules | Composed with | Proofs |
|---|---|---|---|
| wallets, economy | `CoinWallet`, `Ledger`, `Coins` | `Coins` EXTENDS the other two's wallet and `Pricing`, and implements `Ledger` | `CoinWalletProofs`, `CoinsProofs` |
| pricing | `Pricing` | | `CoinsProofs` |
| payouts | `Payout` | EXTENDS `CoinWallet` | `PayoutProofs` |
| devices | `Registry`, `KeyServer`, `DeviceKeys` | `DeviceKeys` implements `KeyServer`, which EXTENDS `Registry` | `DeviceKeysProofs` |
| chat, rooms, sockets | `Chat` | EXTENDS `Registry` | `ChatProofs` |
| watch-together | `WatchTogether` | service, gateway and job in one module | `WatchTogetherProofs` |
| files, paywall | `MediaFile`, `Streaming`, `Paywall` | | `MediaProofs` |
| posts, flags | `FeatureFlags`, `Posts` | `Posts` EXTENDS `FeatureFlags` | `PostsProofs` |

Every invariant, refinement and action property of the passing runs is proved for
every instance; only the liveness properties are left to TLC (section 6). Modules
meant for proofs declare no RECURSIVE operator.

## 3. Modules

`CoinWallet` is the shared core. A wallet is a balance and the sequence of its
ledger rows; a wallet without a row is one with balance 0 (`upsert`). A
SERIALIZABLE transaction is two steps: it takes a snapshot with its first query
(`view`), and commits later by `ApplyMoves`, or never. The commit is refused if
a wallet it writes has changed since the snapshot or a key is already used by a
committed row, which is what the database's conflict detection and the unique
index on `idempotencyKey` do; a refused commit leaves nothing behind. A move
whose key is in the snapshot is skipped, as `applyDeltaTx` returns early.
`Ledger` is the abstract journal: one atomic posting at a time, under unseen
keys, chained on the current balance.

`Coins` EXTENDS `CoinWallet`. A request is a worker `c`: `pc[c]` is the await it
is suspended at, `req[c]` what it has read, `view[c]` its snapshot. Unlock:
`UnlockPost` (guards, price) → `Lookup` → `BeginTx` → `CommitUnlock`. Stripe:
`Webhook` → `Lookup` → `BeginTx` → `CommitPurchase` or `FindPurchase` → `Reply`.
Apple and Google: `StoreCredit` → `BeginTx` → … → `Reply`, where the Google token
may be consumed. `AbortTx` is every way a transaction throws, `Crash` a restart.
Prices, packages and posts change in between (`EditPost`, `PatchPackage`,
`DeletePost`).

`Payout` EXTENDS `CoinWallet`: `RequestPayout` → `FindDebit` → `FindRollback` →
(`BeginTx` → `CommitDebit`) → `Transfer` → `Record`, with `TransferThrows` and
`RecordThrows` leading to the compensation (`BeginTx` → `CommitRollback` or
`AbortRollback`). What Stripe does is external: it pays once for an idempotency
key, refuses the key with other parameters, and its answer may be lost. `Earn`
and `SyncAccount` are the steps of other components that the payouts see.
`Faults` names what may go wrong besides a refused transfer. A client may ask
for another amount under a key it has used: the code finds the debit by its key and
goes on with the amount of the request. `asked` is a history of what was asked.

`DeviceKeys`: devices with their one-time and fallback key rows. `register` and
`revoke` are a read and a transaction that replaces the keys; an upload is the
awaits count, duplicates, retire, insert; a claim visits the devices it has
listed one by one. `KeyServer` is what peers may believe: one atomic
registration, revocation, upload or claim at a time, on a pool of keys and the
set of those given away (`ImplementsKeyServer`). `Registry` is the part that the
rest of the system sees, a status per device. The model keeps two histories, `handed`
and `spent`, for what peers hold. Signatures are preconditions of the inputs; `lastSeenAt`
and the events emitted after a commit change nothing here.

`Chat` EXTENDS `Registry`. A message is one `send-message` request, `pc[m]` the
await it is at: `SendMessage` → `CheckDevice` → `ReadRoom` (the fan-out must match
the devices read here) → `CommitMessage` → `EmitMessage`. Rooms: `FindRoom` is
the lookup that finds nothing, `CreateRoom` the insert after it. Sockets:
`Connect` and `Admit` are the two halves of `handleConnection`; `joined` are the
rooms a socket is in; `Fetch` is the list of rooms or messages a client reads
over HTTP. `NotifyRecipient` is the listener. `changed` is a history: the devices
that registered or were revoked between the read and the emission.

`WatchTogether` is one session: its row, the participants' rows, the sockets in
the Socket.IO room, and workers `c` carrying requests. A join is `Register` →
`LookupRow` → `WriteRow` → `ReadSocketJoinState` → `WatchJoin`; the same first half
serves `GET /watch-together/:id` (`NoSocket`). The end is three steps, update,
purge, tell, whether the host (`EndSession`), or the job (`JobFind`) starts it. The
deletion may throw when the session is ENDED already (`EndFails`, `JobFails`).
`stray`, `straggler` and `admitted` are histories: the joins and messages under way
when the session ended, and those an end that failed half-way leaves behind; and whom
the host, or the absence of approval, let in.

`MediaFile` is one video: its row, its bytes on disk, its trailers and its
objects in R2. Around it run the `createPost` requests that use it, trailer runs
(`TrailerRead` → `TrailerEncode` → `TrailerSave` → `TrailerReplace`), the clean-up
(`CronFind` → … → `CronUpdate`) and the transcode jobs (`JobStart` → `JobCheck` →
`JobAccess` → `JobPut` → `JobReady` → `JobUnlink`). The queue is external: it runs
one job at a time, repeats one that throws up to `Attempts` times, and redelivers
one that was active in a process that died. `secured` is a history: a post put
the file to use while its bytes were there and no clean-up had it on its list.

`Streaming` is the parser of Range headers and the answer built from it, a pure
function; its two callers, for disk and R2, answer alike. `Paywall` is who may play
what: the same question is answered by the view of a post, by the stream of a
file and by watch-together, from a database of posts, files and unlocks, and the
three answers have to fit. `Pricing` is the price
of a post: the lengths of its videos, the best of their tiers, the rounded
product, the split.

`FeatureFlags` is one flag: its row, the cache with its expiry, `patchFlag` (row,
then `bumpCache`), and callers that ask, query and fill. Time is a clock in ticks;
`held` remembers when the row last had each value. `Posts` EXTENDS it, with its
requests as the callers: likes and bookmarks (`MarkPost` → `CheckMark` →
`UpdateMark`), comments (`Comment` → `FindParentPost` →
`IncrementParentPostCommentCount`), and after every update the pricing (`Sync` →
`SyncFlag` → `Aggregate` → `WritePrice`), beside the admin's override and
repricing, the probes, transcoding and clean-up of the video, and the deletion of a
comment or of the post. `overlaps`, `removed`, `override` and `solid` are histories
the properties need.

`MC*` modules hold the instances. Operators marked "Mutant" are not part of the
specifications: each is a plausible bug of the definition below it, put in its
place to show that a property notices.

## 4. Runs

| Run | Question | Instance |
|---|---|---|
| `coins` | safety and refinement of the coin economy | two users, two requests at a time, one post with two prices, one package, one session and event, one Google token, `MaxInt` 7 |
| `coins_live` | is every webhook event answered? | one user, two workers, one event, two admin keys, a package that is repriced |
| `payout` | safety of cash-outs | one key with two amounts and a competing one, two workers, all faults |
| `payout_live` | does a client learn the outcome? | one cash-out, two workers, all faults |
| `payout_claim` | is the failure message true? (no) | one worker; the only fault is a failing record |
| `payout_amount` | does a refund give back what was debited? (no) | one key with two amounts, one worker; the only fault is a restart |
| `device` | safety of the key registry; does it implement the key server? | one device, two requests, three one-time keys, three fallback keys, pool of 1, three renewals |
| `device_consumed` | is a one-time key consumed at most once? (no) | one registration and its repetition, one claim |
| `chat` | who gets a message, and when? | two users with a device each, one message either may send, two room ids, two find-or-create requests |
| `watch` | who is in a session, and how does it end? | a host and a viewer with a socket each, two requests besides the job, one restart or failure of the job, ends by the host that fail |
| `media` | does a file in use survive? | two posts, the trailer run of the upload and one backfill, two attempts per job, one restart |
| `posts` | counts, prices and the flag | two requests at a time, three in all, two users, one kind of mark, cache of one tick, two ticks |

Bounds. Every hazard here is a race of two requests, so two workers show it; a
third adds more of the same. A session has one event: that two events of one
session (`checkout.session.completed`, then `async_payment_succeeded`) credit
twice follows from the key, which is the event's id, and no run is set against
it. `MaxInt` 7 in `coins` lets two credits of 4 hit the limit of the balance column.
Apple credits differ from Google credits only in `Reply`, and are left out of the
instance. `Uuids` and `Earnings` bound the number of unlocks that can charge,
`MaxRenewals` the registrations and revocations of a device; a pool of 1
is exceeded by two uploads of one key.

`chat` has one message: messages do not interact but through devices and rooms.
A second device of the author is treated as the recipient's (only the authoring
device is left out), so two devices show both roles; a third makes the instance
too large. `watch` covers a user's second tab by the GET that registers, and by
two joins of one socket. In `media` the two jobs of two posts meet on one row, so
one of them always finds the work done or half done; one restart at any await
leaves every combination of row, disk and objects. In `posts` the like stands for
the bookmark, which the code handles in the same way; `MaxRequests` 3 lets a
request overtake two others, and the clock lets a cached answer expire once.

`MCCoins` and `MCMediaFile` also evaluate the pure modules: `PricingChecked`
compares `Pricing` with the examples of the repository's unit tests and checks its
monotonicity, `StreamingChecked` compares every answer with the bytes the header
names, for files of up to four bytes, and `PaywallChecked` compares the three answers
of `Paywall` for one file, two users, a guest and every pair of posts, whoever owns the
file.

What the invariants leave out, and why. `TransferBacked` and `RefundMatchesDebit` tie
the amount to the debit only while the client has used the key for one amount; for the
other keys `payout_amount` shows what happens. `FanoutIsCurrent` excepts devices
that registered or were revoked after the fan-out was compared with the room: the
transaction does not look again, so a device registered in between is left out, and one
revoked in between gets an envelope against what `schema.prisma:288-290` says.
`FallbacksBounded` is what holds of "exactly one row" (`schema.prisma:316-318`): of two
concurrent uploads each retires the rows it sees and misses the other's insert.
`NoGap` holds because the emission follows the commit and goes to the device's own
room, so connecting first and fetching then leaves no gap; a fetch before
`handleConnection` is through does leave one. `RoomsBounded` says what the missing
unique index costs: as many rooms as there were concurrent first requests, never
more. `EndHeard` excepts sockets whose join had passed its check before the end:
they sit in the room of a session that is over and hear nothing. `MessagesGo`
excepts messages about to be inserted at the deletion. Both except an end, by the host
or the job, that failed between its steps: nobody takes it up, since a repeated end
returns at once and the job looks at ACTIVE sessions. `PublishedPlayable` needs that the
file was put to use before the clean-up had it on its list: `markFileAsUploaded`
does not look at the status and revives a file whose bytes are being deleted.
`CountsTrack` lets a count be off by one for each request for the mark that began while
another was under way: those lose an update for good. For comments it is a bound from
above by all that were ever stored: overlapping comments lose a count, and deleting a
comment leaves it. `OverrideHolds` is about the time automatic pricing is off; while
it is on, the next like or edit replaces the admin's price.

What the violations show. `payout_claim`: Stripe pays, recording the transfer
throws, and the same `catch` gives the coins back and tells the client that the
transfer could not be completed; money and coins are both with the creator.
`payout_amount`: after a restart the client repeats its key with a larger amount, the
transfer is refused, and the creator gets back more coins than were debited.
`device_consumed`: a registration is repeated
because its answer was lost; in between a peer claimed a key, which the second
registration deletes and publishes again as unclaimed. `HandedOnce` is what does
hold: no row is handed out twice between two clearings.

`EventsAnswered` says *answered*: a package taken off sale after the customer has
paid is answered "skipped" and not credited, as the code does.

## 5. Fairness

- A worker does not stop at an await forever: WF on its steps. Node resumes
  every settled promise, and database and provider calls settle or throw.
- Stripe redelivers an event until it is answered 2xx: SF on the deliveries of an
  event without an answer, since deliveries may be cut short.
- A client of the payouts repeats its key until it gets a definite answer: SF.
  Nothing in the server resumes an interrupted payout, so without the client's
  retry the property is false; `DebitsSettle` therefore says what the
  protocol of client and server achieves.
- Crashes and conflicts do not hit the deliveries of one event, or the attempts
  of one client, at the same await forever: SF on each await of the event or
  client. Nothing is assumed of any single attempt: each may crash or conflict.
- `DebitsSettle` assumes that the account can be paid out to again and again.
- The clean-up job of the sessions is repeated by BullMQ, which keeps it in Redis:
  WF on its steps (`ExpiredSessionsEnd`). Its failures are bounded by `MaxFaults`;
  nothing is assumed of the host or of any request.
- The transcode worker takes waiting jobs and goes on with the one it has: WF on
  the steps of each job (`JobsSettle`). Nothing is assumed of posts, trailers or
  the clean-up.

## 6. Proofs

All theorems hold for any sets of users, workers, posts, keys, rooms and files, and
any limits, that satisfy the named assumptions (`WalletAssumption`,
`CoinsAssumption`, `PayoutAssumption`, `DeviceAssumption`, `ChatAssumption`,
`WatchAssumption`, `MediaAssumption`, `FlagAssumption`, `PostAssumption`,
`PaywallAssumption`), which TLC also evaluates in every run of the module. They say
which constants are numbers, who owns what, and that markers such as `NoKey` are none of
the values they stand beside. Where a property counts requests (`PoolBounded`,
`RoomsBounded`) the assumption is that a finite number of them are under way; the
length of a behaviour is bounded by nothing but the named limits.

Each module has the same plan: a lemma per action or group of actions for each part of
the inductive invariant, one theorem or lemma `...Invariance`, and the properties as
consequences.

### Wallets, economy, prices

`CoinWalletProofs` holds the lemmas on `ApplyMoves`: it appends at most one row
to each ledger, preserves types, the chain of balances and the uniqueness of
keys, and is a `Post` of `Ledger`.

`CoinsProofs`, on the books: `TypeCorrect`, `AuditTrail` (`LedgerChain`),
`Idempotency` (`KeysMoveOnce`), and `Refinement` (`ImplementsLedger`). None of these is
inductive by itself: `ApplyMoves` writes a balance computed from an old
snapshot, so the chain survives only because an unchanged ledger means an
unchanged balance. The inductive invariant `IInv` adds that every open snapshot was a
true state of the books (its balances are the closing balances of its ledgers),
and that the moves of one transaction carry different keys.

On purchases: `PurchasesCreditedOnce` and `ToldOnlyWhenCredited`. `PurchaseInv` adds
that a snapshot lags behind the tables: a purchase it holds is still there, and a key
used in it is used now. So a transaction that saw the key of its event used
commits nothing new, one that did not is refused if somebody else used it since,
and a worker at `reply` has its purchase row (`RepliesCredited`).

On unlocks: `UnlocksPaidOnce`, `ChargesPayAuthors`, `DebitsAreAccounted`. The keys of a
charge hold a UUID drawn per request, so uniqueness of keys does not prevent a second
charge. What does is the unique index on viewer and post, checked in the commit that
charges. `UnlockInv` says that the UUID of a request in flight is in no ledger yet
(`UuidsFresh`), and that a viewer's rows for a post are none, or one of the amount the
unlock records (`PaidOnce`); a deleted post takes its unlocks along and leaves the rows.

On prices: `SplitIsExact` (used for the shares of a charge), `CostIsRounded`,
`LongerCostsMore`.

### Payouts

`PayoutProofs`: `PaidIsBacked`, `RefundIsBacked`, `AnswersAreTrue`, `PayoutTypeCorrect`
and `PayoutIdempotency`. The inductive invariant relates each await to the ledger: a
request past its debit has its debit row; a worker with `found` has one; a request at
`record` has been paid; ledgers only grow, so these facts stay true while other requests
commit. Rows and transfers have amounts the client has asked for under their key, so
that two of one key agree while it has named one amount (`OneAmount`, `SameAmount`).
Nothing is assumed of the clients.

### Devices

`DeviceKeysProofs`: `DeviceTypeCorrect`, `KeysHandedOnce`, `FallbackAlwaysAvailable`,
`PoolsBounded`, `DeviceKeysImplementKeyServer`. Of `DeviceInv`:

- `HandedIfClaimed`: a key was handed to a peer exactly if its row is claimed, and
  then once. With one row per key (`RowsUnique`) a claim, which needs an unclaimed row,
  cannot hand it out again; registrations and revocations clear rows and count together.
- `Carried`: an upload that brings no fallback key retires none. One that does, retires
  what it read and inserts its own in the same transaction, so no interleaving leaves an
  active device without one.
- `PoolRoom`: uploads count before they fill, so the pool alone is not inductive.
  Among the uploads that have counted and not committed, the one that counted last saw a
  pool with room for its keys, and each of the others brings at most `PoolMax`. The
  invariant (`Fits`) says that even if all of them commit, the pool has at most `PoolMax`
  keys per worker. The order in which they commit does not matter.

The refinement maps the pool to the unclaimed rows and the keys given away to the
others. Of all steps four are visible, the three transactions and the claim of a
key; every read, skip and failure is a stutter.

### Chat and rooms

`ChatProofs`: `ChatTypeCorrect`, `FanoutReachesEveryDevice`,
`ConnectThenFetchLeavesNoGap`, `RoomsOfPairBounded`, `MessagesHaveRooms`. `Fanout` states
the property from the moment of the match, when the envelopes are still the list that the
request carries: the devices on it are the active ones of the room but the sender, and
only registration and revocation, which are noted, change that. Before the commit the
room may be deleted; then there is no commit. `NoGap` needs that a device which counts as caught up is connected
(`CaughtUpListen`). For rooms, the number of rooms of a pair together with the requests
that have found none never exceeds the number of requests; the lookup, the insert and
the removal each keep the sum.

### Watch-together

`WatchTogetherProofs`: `WatchTypeCorrect`, `OnlyAdmittedEnter`, `EndIsHeard`,
`MessagesAreGone`. `LetIn` follows the right to enter from the row through the awaits of a
join: an approved row, a join past its check, a message past its check each belong to
somebody who was let in, and a rejection does not undo that (`admitted` is what was true
once). For the end, `Cleared` covers the steps between the update of the session and the
deletion of the messages: once nobody is about to delete them, those that are stored or on
their way are known stragglers. An end that fails in between makes stragglers of all the
messages and strays of the room.

### Files and paywall

`MediaProofs`, on the life of a video: `MediaTypeCorrect`, `PublishedStaysPlayable`,
`TrailerStaysOnDisk`. Three invariants support each other. `JobsInv`: at most one job is
active, the row stays PENDING while it works, and a READY row has its objects, so the local
bytes go only when the row already points to the objects. `RunsInv`: each trailer run
saves its own trailer once, so what the clean-up or another run has read cannot be a
trailer that is yet to be saved. `Secured`: with no clean-up on its way at the time
of use, one that starts later finds the row UPLOADED.

On streaming: `SentAsRequested`; and on the paywall `OnlyPaidPlays`,
`LockedIsRefused`, `ShownIsServed`, `WatchersSee`, for every database. The media of a
post need not be files of its author: `createPost` looks up the owner only of the media
of a SHORT post and of the contents of a LONG one (`post.service.ts:767-794`), and stores
the other place as it came. So the stream, which lets the owner of a file in, and the
view, which lets the author of a post in, differ for an owner whose file somebody else
sells, and the first two theorems except the owner. Three more limits are in their
statements. A file that several posts sell takes an unlock of each, so unlocking one
may show a URL that the stream refuses. A guest, for whom no post is locked, is
shown URLs that the stream refuses (`stream-monetization.service.ts:176`,
`getLockedVideoFileIdsForPostView`), while `post.service.ts:68` says "no playback URL
returned until unlocked". And the theorems are about the bytes the API sends: the URL of
a CDN manifest, given for a small transcoded file (`post.service.ts:394-405`), also to
guests, leads past the stream.

### Posts and flags

`PostsProofs`, on the flag: `FlagIsFresh`, for any callers and lifetime. The invariant
follows a value from the row into a load, from there into the cache and into an
answer: a load that has read a value has one the row had since it asked, and a
cache entry one the row had less than a lifetime before it expires. The clock and
the overlap of loads with `bumpCache` are arbitrary. `PostsFlagIsFresh` lifts the result
to the composition with the posts.

On the posts: `PostsTypeCorrect`, `OverrideIsHeld`, `PostCountsTrack`, `PricesStay`.

- The override is not inductive: it holds because, while it is set, the row is off, a
  valid cache entry and all answers under way say off, and no request has passed the
  flag (`OverrideKept`); a load that was asked earlier may still end, but only with "off".
- `MarksInv`: the count differs from the users by no more than the overlaps that are not
  used up by requests still under way (`Slack`), and so would it after the update of any
  one of them (`DriftAfter`). An update moves what another one will find by at most one,
  and frees one overlap. `CommentsInv`: even if all requests that have stored a comment
  and not counted it do so, with the counts they have read, the count is at most the
  comments ever stored.
- `PricingInv`: what a pricing found was there, metadata are never lost, a file in use
  is not cleaned up, and once the post is priced no pricing under way has missed them.

### Only model-checked

The liveness properties `EventsAnswered`, `DebitsSettle`, `ExpiredSessionsEnd` and
`JobsSettle`: TLAPS offers no support for fairness (ENABLED). `FallbacksBounded`, whose
argument is about the past: the requests that left the active rows were all under way at
once. The three violations, which are counterexamples of their instances. The examples of the unit tests (`PricingChecked`),
and the comparisons over bounded inputs beside the proofs (`StreamingChecked`,
`PaywallChecked`).

## 7. Not modelled

- Auth: the tokens of a user are one row per kind, and each request is one read or
  one upsert, so that a model would restate the statements; what sign-out leaves
  valid is among the hazards.
- The creation of a Connect account: a read, a call and a write.
- Watch-together: the playback position and reactions. Simultaneous updates are
  stored and broadcast after separate awaits, and nothing says which should win.
- The rate limits of the gateway, which only refuse requests.
- Feeds, search, single-post views, watch history: reads, or one upsert per view
  (which playback URLs a view holds is in `Paywall`; `getPostComments`, which locks
  nothing, is called by no controller). The comments of a deleted post stay in the
  database without a parent (ON DELETE SET NULL).
- Notifications, mentions and push: best effort, external. Which chat messages
  lead to a notification is modelled.
- Administration other than coins, prices and flags, users, health endpoints,
  wording of errors: single-row edits and pure I/O. One of them checks before it
  writes: `admin-users.controller.ts:136` counts the superadmins and then updates a
  role, so two demotions at once can remove the last two.
- ffmpeg, the object store's protocol, Socket.IO, BullMQ, PostgreSQL, Stripe, Apple
  and Google: external, modelled from how the code uses them.
- A statement that commits while its answer is lost is modelled for Stripe, not for
  the database: an update that throws has not happened.
- An unusable Range header is answered 416 by both callers of the parser, which is what
  `Streaming` says; the comment in `range-bytes.ts:2-3` speaks of the full body.
- `documentation/` is generated from the source (Compodoc) and holds no logic.

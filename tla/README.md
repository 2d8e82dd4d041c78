# Sundari: TLA+ models and proofs

Sundari is the Django backend of a marketplace on which customers book beauty
artists. Its centre is the booking: a slot on an artist's calendar, a sequence of
decisions and PINs that two people make on two phones, money that is captured by
an external gateway, and coins that are earned, redeemed, returned and that
lapse. Around it are the accounts and their codes, the artist's onboarding and
catalogue, chat and support, reminders, files and lists. This directory models
that logic in TLA+, checks it with TLC and proves most of what is checked, for
every value of the constants, with TLAPS.

Paths below are under `src/sunndari_apps/` unless they start with `src/`.

## 1. The system

### How the code runs

* Every request is a handler in a worker process. `ATOMIC_REQUESTS` is not set,
  so each statement commits on its own unless the handler opens
  `transaction.atomic()`. Handlers of different requests interleave statement by
  statement.
* `Model.save()` writes **every** column of the row it was loaded from, and
  inserts the row again if it is gone. `QuerySet.update()` writes the named
  columns only.
* `select_for_update()` takes a row lock until the transaction ends. The code is
  written for PostgreSQL (`customers/slot_rules.py:59-61`); on SQLite, which the
  checked-in settings use, there are no row locks and writers are serialised.
  The models follow the PostgreSQL reading, at its default level, READ COMMITTED.
* Celery beat starts four tasks: stale pending bookings (60 s), missed bookings
  (300 s), reminders (600 s), lapsed coins (daily).
* The payment gateway, Firestore, the channel layer and the disk are called in
  the middle of handlers; what they do cannot be rolled back.

### Components

| Component | State | Operations | Talks to | What is hard | What makes it correct |
|---|---|---|---|---|---|
| Artist calendar and slot rules (`customers/slot_rules.py`, `customers/views/create_booking.py`, `artists/views/availability.py`) | active rows of `bookings`, blocks, weekly hours, buffers | create, validate a slot, show what is free, set hours and blocks | lifecycle, rescheduling | two requests claim one slot; the day's rows do not exist yet; lock order; two pieces of code decide what is free | no artist is booked twice; free means bookable |
| Rescheduling (`customers/models/reschedule.py`, `artists/views/reschedule.py`, `customers/views/reschedule.py`) | one pending proposal per booking | request, withdraw, accept, reject, lazy expiry | calendar, lifecycle | the booking moves on between request and answer; ABBA locks | an accepted time is free, and is not imposed on an artist on the road |
| Booking lifecycle (`customers/models/booking.py`, `artists/views/booking.py`, `customers/views/booking.py`, `customers/views/service_pin.py`) | status, on-my-way and arrival stamps, PINs with their counters | accept, decline, cancel, no-show, on-my-way, arrived, verify start, request PIN, complete | wallet (cashback), payments (refund), chat | checks on an unlocked read, whole-row saves | progress only with PINs, one cashback, bounded guessing |
| Booking sweeps (`customers/tasks.py`) | the ids a run has selected | cancel stale pending, mark missed | lifecycle, wallet | query and update are separate | no booking stays open past its deadline, none is closed before the one on display |
| Payments of one booking (`payments/models.py`, `payments/views/initiate_payment.py`, `payments/views/verify_payment.py`, `payments/management/commands/retry_refunds.py`) | `payments` rows, the gateway's record | initiate, verify, refund, retry | gateway, wallet, lifecycle | concurrent orders, repeated verification, refused refunds, dying workers | never more cash than the price, refunded means returned, coins come back once |
| Group payments (`payments/views/initiate_group_payment.py`, `payments/views/verify_payment.py`) | `payment_orders` over several payments | initiate, verify, fail, cancel one share | gateway, lifecycle | all-or-nothing over several rows, locks in list order | paid together, no member overpaid, refunded shares returned |
| Coin wallet (`wallet/models/`, `wallet/tasks.py`) | balance, ledger, batches | credit, debit, cashback, reversal, lapse | payments, lifecycle | expiry against debit, double reversal | balance = ledger = batches, oldest first |
| Redemption tiers (`wallet/models/redemption_tier.py`, `wallet/views/eligible_tiers.py`) | tiers, coin value | save a tier, set the coin value, list eligible tiers | payments, wallet | the screen repeats the checkout's tests elsewhere and earlier | an offered tier is accepted, at its own price |
| Accounts, OTP login and lockout (`authentication/`) | users, OTP, attempts, lockout, session | sign up, request, verify, log in, reset, refresh, revoke, deactivate | SMS | every login saves a row read earlier | one account per contact, bounded guessing |
| Contact change (`users/views/contact_change.py`) | pending contact and its code | request, verify | accounts | uniqueness at the time of verification | a contact was proven by its own code |
| Customer profile and addresses (`users/`) | profile, addresses | edits | bookings | counting before an unlocked insert | the limit, up to the overlap |
| Artist onboarding and review (`artists/views/onboarding.py`, `artists/views/document.py`, `admin_panel/views/`) | approval status, documents, decisions, files | submit, approve, reject, suspend, upload, verify | storefront (approved artists only) | the profile and its documents change under review; the disk does not roll back | approved after a verified proof; files and rows agree |
| Artist catalogue (`artists/views/`) | packages, add-ons, services, areas, portfolio, payout account, brands | CRUD, brand requests | storefront | check and write are separate | one area per city, consistent charges, one decision |
| Chat (`chat/`) | a conversation per booking, socket groups | open, send, push, close | lifecycle | push against commit, closing against messages | what is pushed was stored |
| Support conversations and tickets (`help_center/`) | conversations, tickets | send, answer, close, change status | accounts | answer against close | closed stays closed |
| Notifications and reminders (`notifications/`) | notification rows | remind, read | bookings | the window against the beat, overlapping and dying runs | in time, and no oftener than runs overlap |
| Reviews, clients and insights (`customers/views/review.py`, `artists/views/customer_review.py`, `artists/views/insights.py`, `artists/views/client.py`) | reviews, ratings, notes | write once, list, summarise | lifecycle | several queries over bookings that change | figures have bookings behind them |
| Firebase mirror (`customers/firebase_utils.py`) | the document of a booking | push | handlers of bookings | lost, overtaken and premature pushes | what the apps see is the row, or it is known why not |
| Search, lists and pages (`customers/views/search_artist.py`, `common/utils.py`) | none | filter, sort, page | all tables | rows that come, go and move between two pages | few rows are missed; what is found can be ordered |
| Reference data, documentation tools, activity log, API plumbing | categories, text, log lines, none | seed, render, append, route | all | nothing | not modelled, see section 5 |

`PROJECT.json` lists the same components with the modules that model them, and
under `hazards` each place where the code can go wrong in a way a test would
hardly reach.

## 2. The modules

| Module | Models | Run or proved by |
|---|---|---|
| `SlotCalendar` | one artist's bookings, proposals, availability and the locks on the artist and booking rows | `MCSlotCalendar`, `SlotCalendarProofs` |
| `ArtistDiary` | the abstract diary that `SlotCalendar` implements | `MCSlotCalendar` (`KeepsDiary`), `SlotCalendarProofs` (`CalendarIsDiary`) |
| `PaymentSettlement` | the payments, redemptions and cancellations of one booking, and the gateway | `MCPaymentSettlement`, `PaymentSettlementProofs` |
| `GroupPayment` | orders over several bookings, row by row under their locks | `MCGroupPayment`, `GroupPaymentProofs` |
| `CoinWallet` | one customer's balance, ledger and batches | `MCCoinWallet`, `CoinWalletProofs` |
| `CoinAccount` | the abstract account that `CoinWallet` implements | `MCCoinWallet` (`KeepsAccount`), `CoinWalletProofs` (`WalletIsAccount`) |
| `BookingService` = `BookingLifecycle`, `BookingScreens`, `Redemption`, `SlotRules`, `Storefront` | the way to a booking and through it | `MCBookingService`, `BookingServiceProofs`; `MCBookingLifecycle` for one counterexample |
| `Credentials` = `Accounts`, `ServicePins` | accounts with their codes; the PIN of a service | `MCCredentials`, `AccountsAndServicesProofs` |
| `ArtistDesk` = `ArtistCatalogue`, `ArtistReview`, `ClientBook` | the artist's side of the platform | `MCArtistDesk`, `ArtistDeskProofs` |
| `AppServices` = `Chat`, `SupportDesk`, `Reminders`, `AddressBook`, `StoredFiles`, `Listing` | six parts that share no row | `MCAppServices`, `AccountsAndServicesProofs` |
| `SumFacts` | no code: facts about sums over finite sets that the proofs about money use | used by the proofs of the wallet, the payments and the group payments |

The modules of bookings overlap on purpose. Each keeps the detail its own
properties depend on and leaves open what another module decides: the calendar
does not say whether a booking is paid, the lifecycle lets an unpaid booking be
accepted (acceptance is possible whenever the status allows it), and the
payments let a booking be accepted exactly when it is settled in full. Leaving a
condition open only adds behaviours, so an invariant that holds in the model
holds with the condition too.

### Composition

`BookingService`, `ArtistDesk`, `AppServices` and `Credentials` put modules
together by a variable (`aspect`, `focus`, `secret`) that a behaviour chooses at
the start: the chosen part runs with all its interleavings and the others rest.
This is sound, and far smaller than the product, because no step of one part
reads or writes a variable of another and no property relates two of them: an
invariant of a part that fails in the product fails in the behaviour that drops
the other parts' steps, and that behaviour is here. What crosses the parts is
put into the part that depends on it, in the form it depends on: the storefront
has the approval as a flag anyone may change, the chat has the booking's status
as before, open or over, the client book lets bookings move as the lifecycle lets
them, stale saves included.

### Handlers in flight

A handler is a record (`req`, `job`, `work`, `task`, `editing`, `tx`, ...) with
the operation, a program counter and what it has read. A handler that decides on
an unlocked read is split at the read, at the second read inside the model
method where there is one, and at the write: exactly the statements between which
other requests run. A handler that decides under the row lock is one step, or
two with the lock held between them where something else could run in between.
`Abandon` (a worker dies, or a later statement raises) ends a handler without
undoing what it has committed; an open transaction is rolled back.
History variables (`revived`, `witnessed`, `proven`, `verified`, `mirror`, `lost`,
`undone`, ...) record what has happened and are read by properties only.

### SlotCalendar and ArtistDiary

`CreateBegin`, `ProposeBegin` and `AcceptBegin` are the parts of
`create_extract`, `request_extract` and `respond_extract` before `validate_slot`;
`LockArtist` and `ValidateSlot` are the two locking statements of
`validate_slot`; `CreateCommit`, `ProposeCommit` and `AcceptCommit` are what
follows and commits. `DeadlockVictim` is the database breaking a cycle: creation
takes the artist row, then the day's bookings; rescheduling holds its booking
when it asks for the artist row. Locks are kept in `artistLock` and `rowLock`,
and every write to a row waits for its lock.
Two slots conflict when the windows widened by the travel and return times of
each booking overlap (`Conflict`), as in `slot_rules.py:43-44` and `74-78`. Blocks
and weekly hours are a set of refused slots that may change at any moment
(`SetAvailability`); the code reads them before it takes the artist lock, so the
model tests them in the Begin actions. Their arithmetic is in `SlotRules`.
`revived` is a history variable: the bookings that a stale whole-row save put
back on the calendar, or back on an old time, without asking `validate_slot`.
`ArtistDiary` is the promise without the machinery: an appointment is entered or
moved only where it clashes with no other and the artist has not set off for it
(`Arrange`), a departure is recorded once there is an appointment and stays on
record (`Depart`) until the appointment is struck out (`Strike`). The refinement
maps `appointment` to the slots of the active bookings and `setOff` to those whose
`on_my_way_at` is set. Bookings in `revived` are left out of both, because the code
does put them back without looking at the others; locks, proposals and arrivals are
stuttering steps.

### PaymentSettlement

A row of `payment` is a `Payment` with the REDEMPTION row made for it. `gateway`
is the gateway's own record of each payment's order, which no rollback touches.
`InitiateRead` is everything `initiate_extract` reads before it creates the row;
creating the row, placing the order, debiting the coins and settling a payment
that coins cover in full are separate steps. `FetchFromGateway`,
`mark_paid_checked` and `mark_failed` are the statements of `_verify_solo`. The
four cancellation paths share `ListPaid`, `RefundAtGateway`, `RecordRefund`,
`ListRedemptions` and `ReverseRedemption`; the artist's runs inside one
transaction, so what it wrote stays in `done` and `back` until `CancelDone`
commits it, while the gateway has already acted. `retry_refunds` also visits
missed bookings, which behave like cancelled ones and are not kept apart.

### GroupPayment

An order has a list of bookings in the order the app sent them, and a share (the
`Payment` row) for each; coins are redeemed on the first. `InitiateRead` is what
`initiate_group_extract` checks of every booking, `CreateOrder` its transaction,
`PlaceOrder` the gateway and the debit. Verification asks the gateway
(`VerifyRead`) and then takes its locks one after another (`LockNext`): the
payments, each booking with the test of its total, then the order; a booking that
does not fit ends the transaction and starts `mark_failed`, which locks the order
first. The artist's cancellation of one booking holds that booking while it
refunds its share of every paid order. Where two of these wait for each other
`DeadlockVictim` rolls one back. A payment all of whose shares were returned is no
longer captured at the gateway, so a failed order with a returned share may be
verified again and is refused.

### CoinWallet and CoinAccount

`ledger` is the sequence of coin transactions of one wallet; every credit is a
batch with `remaining` coins and a date. `debit` names the last batch it draws
on: the first whose older ones do not cover the cost. The reversal of a
booking's redemptions and the sweep of lapsed batches choose their rows first
(`ListUnreversed`, `ScanLapsed`) and then work on one row per transaction.
`ADJUSTMENT` is a batch type that no code writes: the wallet's admin pages are
read-only.
`CoinAccount` is the promise without the machinery: a booking earns once, coins
are spent against a receipt and never more than there are, a receipt is turned
back once, coins may lapse. The refinement maps `coins` to `balance`, `earned` to
the bookings with a CASHBACK row and `outstanding` to the REDEMPTION rows without
a REVERSAL; listing, scanning and abandoning are stuttering steps.

### BookingService

**BookingLifecycle**: the status, the on-my-way and arrival stamps and the two
PINs of one row. `Check`, `Load` and `Save` are the unlocked test of a handler,
the second read in the model method and the whole-row save. A PIN is a serial
number, so that a PIN that was reissued differs from the one a request has in
hand; the Start PIN is minted once and is a Boolean. A wrong PIN (`start_miss`,
`finish_miss`) writes the whole row back, which is what matters here; its counters
are in `ServicePins`. Cashback that rounds down to zero coins is left out:
`CompleteService` always credits.

**BookingScreens**: the same row as the two apps read it. A handler commits and
then reads the row and sets the Firestore document in two further steps;
`_update_status_locked` sets it before it commits; the tasks set nothing. A set
may fail, its worker may die (`NotSynced`), two may cross (`overtaken`), the
decision may roll back after it was announced (`RollBack`). The handlers of the
artist's visit (on the way, arrived, start) and the customer's cancellation are the
unlocked check, the second read and the save of the whole row, as in
`BookingLifecycle`; the PIN counters (`SaveMiss`) save all columns too and set no
document, so that a save begun before a start, a completion or a new time puts the
old row back while the document says the newer one. A start has no deadline, as in
`verify_start_pin_extract`. `mirror` is `excused` from when a set was lost or two of them
crossed, a decision was undone, a task closed the booking or the save of a PIN
counter put old columns back, until row and document agree again. Of the bookings
`mark_missed_bookings` has read, `candidate` keeps the start, which is what tells
whether the booking was moved before it is closed by its id.
`with_display_expiry` is the deadline a screen shows, `closed_by` what it showed
when a task closed the booking, and `split_columns` with `mapper` and `attach` is
the answer of `get_extract` to every choice of columns.

**Redemption**: tiers and the coin value as an administrator edits them, the
eligible tiers of one booking, and a checkout sent from that screen. A screen
whose data have changed since promises nothing (`Moved`); what does not change
the data it was computed from (the booking ends, another order is open, coins
pass their date unswept) does not blank it.

**SlotRules**: one day of one artist. `validate_slot` decides on an order and
`Availability` is what `CheckAvailabilityView` answers: ranges widened by the
buffers and clamped to the day, blocks, the working window and the buffers, from
which the customer's app tells what is free (`FreeOnScreen`).

**Storefront**: the rows that the search, the artist's page, the public page and
`create_extract` each select with a query of their own, and the edits in between.

### Credentials

**Accounts**: a login handler is the sequence of rows it will save (`saves`),
fixed when it loads the account: a lockout that is over is cleared and saved, then
the code or the counter, then the session. `Save` writes one of them and fails if
a unique column repeats. The contact change and the first password work under the
row lock. One of the two contact columns is followed. `proven` records the contact
an account signed up with and those whose own code it entered. `guessed` counts the
wrong codes an account was answered, for logins and for its pending contact, until
the count is properly cleared: by a lockout that is over, by the right code, or by
a fresh contact code. `uncounted` counts the saves since then that put an older
count, lockout or contact code over a newer one.
**ServicePins**: the counter and the lock of the Completion PIN: `CheckLock` reads,
`Unlock` lifts a lock that is over, `CountMiss` and `SaveMiss` load and save the
row. The Start PIN is counted by the same statements with other columns.

### ArtistDesk

**ArtistCatalogue**: packages, add-ons, services, specialities, service areas,
portfolio, payout account, brands and brand requests. Each handler reads and
decides (`...Begin`), loads the row, and saves all of it; an area is loaded
again before it is saved, so that two halves of a charge can meet.
**ArtistReview**: the profile row, the documents, the decisions and the reviews of
the artist. Forms save the profile whole, submission and decisions update their
columns, a document is decided under its row lock, a new proof of identity
supersedes those its transaction sees.
**ClientBook**: notes, ratings, the client list and the summary, each query of the
last two a step of its own, over bookings that go on changing.

### AppServices

**Chat**: a message is checked, stored and pushed in three steps; the events on
their way to a connection are a set, so they arrive in any order or not at all;
HTTP sends are stored only. `close_conversation` follows the commit of the
completion. `LoadRow` and `SaveRow` are the handlers of the artist's PINs, which may
save an open booking over the completion (`reopened`). **SupportDesk**: each answer and change of status is a read and a
write, a ticket under its row lock. **Reminders**: time is the number of minutes to
the appointment; the beat comes every `Period`, a run looks once and works through
what it found, tests for a reminder (`Test`) and inserts it (`Remind`) in two steps,
and may die or be missed (`lost`). A run starts at any time and goes on for as long
as it likes, beside others: neither the task nor the table keeps them apart. An
ended booking may be put back by a stale save (`PutBack`). **AddressBook**: every handler a
check and a write. **StoredFiles**: rows, files and open transactions; `Fail` rolls
rows back and not the disk, `Die` leaves what was written, the command that moves
old documents runs beside them. **Listing**: thirty-six lists, reduced to the
orders they may be asked for, whether they keep only some rows and whether they
are cut into pages; `ReadPage` is one request, `Results` any order that ORDER BY
allows, drawn anew for every request.

## 3. What is checked

Each run is an entry of `PROJECT.json`; every property of a passing run has a
mutant there, a plausible bug in one mapped definition with which TLC finds the
property violated.

| Run | Properties | What it shows |
|---|---|---|
| `slot_calendar` | `ClaimedSlotsDisjoint`, `EnRouteSlotFixed`, `KeepsDiary` | no interleaving books the artist twice, or moves an appointment the artist has set off for, but for a stale save that puts an old row back (`revived`); the calendar implements the plain diary |
| `slot_progress` | `ClaimsFinish` | every transaction that asks for a slot ends |
| `booking_service` | `ServiceSound`, `ProgressWitnessed`, `CashbackOnlyOnCompletion`, `ExpiredBookingCloses`, `ScreensTrue`, `OfferHonoured`, `AvailabilityHonest`, `PageMatchesOrder` | progress only with the PINs, one cashback and only with the completion; the sweep closes a booking that nobody acts on; once the handlers are done Firestore shows the row or it is known why not, and no task closes a booking before the deadline on display; an offered tier is taken; free slots are exactly the bookable ones; pages and order agree on what may be booked and at which price |
| `payment_settlement` | `SettlementSound`, `RefundClaimsTrue`, `CoinsReturnedOnce` | the cash kept stays within the price, refunded means returned, coins come back at most once |
| `group_payment` | `GroupSound`, `PaidTogether`, `ShareRefundTrue` | a group is paid as a whole or not at all, no booking keeps more cash than its price, a refunded share was returned |
| `coin_wallet` | `TypeOK`, `LedgerChained`, `BalanceBacked`, `ReversedOnce`, `OldestFirst`, `LapsedCoinsLeave`, `KeepsAccount` | balance, ledger and batches agree after every transaction, and the wallet implements the plain account |
| `credentials` | `CredentialsSound`, `ContactProven`, `AttemptsBounded` | one account per contact and contacts proven by their codes, in spite of whole-row saves of old rows; wrong codes pass the limit only by such saves, each worth one more limit, and two who guess a PIN stay within a bound |
| `artist_desk` | `DeskSound`, `ApprovedOnceVerified`, `SubmissionVisible`, `FiguresHonest`, `DecidedOnce` | approval only after a verified proof of identity, no submission lost to the queue, decisions taken once, consistent areas, figures with bookings behind them |
| `app_services` | `ServicesTypeOK`, `LiveIsTrue`, `ClosedStaysClosed`, `RemindedInTime`, `AddressLimit`, `FilesAccounted`, `WalkMissesFew` | pushed messages are stored, a chat announced closed is so unless a stale save reopened its booking, closed support conversations and tickets stay closed, reminders come in time and no oftener than runs overlap, the address limit up to the overlap, rows and files agree but for what a rollback, an old copy or a dead worker explains, few rows missed between pages |

`ServiceSound`, `SettlementSound`, `GroupSound`, `CredentialsSound` and
`DeskSound` join the type invariants of the parts with an invariant that concerns
the whole: `CashbackOnce` and `ShownPinsEarned`, `CashWithinTotal`,
`CashWithinPrice`, `ContactsUnique`, `AreasConsistent`.

Three runs check a statement of the repository that the code does not keep; TLC
shows the interleaving:

| Run | Statement | What happens |
|---|---|---|
| `sweep_in_progress` | `customers/tasks.py:48` the sweep excludes a service in progress | `mark_missed` updates by id; the Start PIN is verified after the query |
| `repeated_verify` | `payments/views/verify_payment.py:53` a repeat is a safe no-op | of two overlapping calls the second marks the paid payment failed |
| `coins_forfeited` | `customers/views/booking.py:111` the customer does not lose the coins | coins are debited after the cancellation has returned what it found |

The invariants hold in spite of these: `CashbackOnce` survives a revived booking
only because of the unique constraint on CASHBACK rows, and `ClaimedSlotsDisjoint`
and `EnRouteSlotFixed` name revived bookings as their only exception.

### Other places where code and comments part

Met while modelling. Each has one of the causes above, an unlocked read or a
whole-row save, or is a plain difference that needs no model to see; none has a
run of its own. The properties are stated so that they hold with these steps in
the model.

* Bookings. The customer cannot cancel after the artist's arrival
  (`customers/views/booking.py:93-95`), but test and write are separate. A final
  state (`artists/views/booking.py:141`) is overwritten by a wrong-PIN counter saved
  with an old row (`customers/models/booking.py:426`); so a rating may come to sit
  on a booking that is no longer completed, the Firestore document to say completed
  of a row in progress, and a chat to take messages after everyone in it was told
  that it is closed (`ScreensTrue` and `LiveIsTrue` name this cause). An arrival that overlaps a cancellation
  or a sweep mints a Start PIN on the closed booking
  (`customers/models/booking.py:388`). An accepted reschedule and the artist's
  cancellation take the proposal and the booking in opposite orders
  (`customers/views/reschedule.py:27`); the database ends one of them.
* Codes. Five wrong codes are to lock an account (`authentication/models.py:91`),
  but the counter is read with the row and saved with it: two overlapping wrong
  codes count as one, and a profile edit or a login saved after them puts back what
  it had read, the lifted lockout included. `AttemptsBounded` grants five more for
  each such save.
* Reminders. Two runs of the task that overlap can both send a reminder
  (`notifications/tasks.py:32`): `RemindedInTime` bounds them by the runs.
* Screens. The sweeps never set the Firestore document, although the apps are said
  never to disagree (`customers/tasks.py:47`); a decision is announced before it
  commits; the document has the row's `expires_at` where a screen shows the
  display deadline; a running service shows a deadline that nothing enforces; a PIN
  stays on screen after the artist's no-show; `is_read` of a mirrored notification
  is never updated.
* Payments. The test against overpayment (`payments/models.py:306`) counts the cash
  of the payment and not its own redemption; a payment covered by coins alone is
  not tested again; pending orders count with their cash only. `partially_refunded`
  is read in three places and assigned nowhere.
* Tiers. The comment in `wallet/models/redemption_tier.py:10-11` says the cost is not
  recomputed; every save of the tier does it. "Only eligible here if it would
  actually be accepted there" (`wallet/views/eligible_tiers.py:36`) leaves out the
  booking's status, other open orders, and coins past their date that no sweep has
  removed: `OfferHonoured` names these three.
* Artists. A suspension between the read and the write of an approval is undone
  (`admin_panel/views/artist_review.py:72`), and two overlapping approvals are both
  recorded although a repeat is meant to change nothing (line 94). "Exactly one ID
  proof" (`artists/models/document.py`, `replace_id_proofs`) does not hold for two
  overlapping uploads. "Old files are removed only after the new ones are safely
  saved" (`artists/models/artist_profile.py:160`), but the transaction is still open.
  The share link "never changes once set" (`artists/models/artist_profile.py:189`)
  unless a form saves an older copy of the profile. The note of a customer whose
  bookings have all ended otherwise than completed can be neither listed nor
  cleared.
* Addresses. An update that races a deletion inserts the row again; two overlapping
  requests can leave two default addresses.

### Bounds, and why they are enough

* `slot_calendar`: two bookings, two requests, three windows on one day. Two
  windows overlap, the third only through travel time; the hazards are all
  between two claims or between a claim and one stale handler. The clock runs
  over three values, which covers the advance, the on-my-way window, the missed
  deadline and the expiry of a proposal. Blocks and hours do not change in this
  run; they do in `slot_progress`. Bookings and requests are symmetric.
* `slot_progress`: two windows and the wrong-PIN handler only, without symmetry,
  because liveness is checked.
* `booking_service`, without symmetry for the same reason. Life: two requests, the
  appointment from 1 to 2 and times up to 4, so that every deadline and PIN expiry
  passes; two Completion PINs, so that one can be stale. Screens: two writers, the
  appointment at 1 or 4, a grace of 1 and a clock up to 3, so that a request lapses, an
  appointment is missed after a move to the earlier time, and a save is late by a move, a
  start or a completion; nothing happens after the later appointment that does not
  after the earlier one.
  Coins: two tiers of values 2 and 4 against a total of 4 and two coins of value 1
  or 2, so that a tier is a part or all of the booking, affordable or not, and
  saved under either coin value. Slots: a day of four units, hours for the whole
  day, a part of it and the wrong way round, buffers of 0 or 1, two lengths, two
  appointments and one block. Store: two packages, one add-on, two cities, two
  prices, an area with or without a charge.
* `payment_settlement`: two payments, two requests, a price of two and tiers up to
  two, so that a payment is part or all coins or more than the amount asked. The
  violations use a price of three and no failures, which makes their traces short.
* `group_payment`: two orders over two bookings in either order, two requests, so
  that lists overlap and locks cross; price one, tiers up to two.
* `coin_wallet`: two bookings, two handlers, batches of two, tiers of one and
  three (less than a batch, more than a batch), batches that last one day of
  three, a ledger of five rows that the sweep may exceed. No symmetry, because
  liveness is checked.
* `credentials`: two accounts, two contacts, two handlers at once and four in all,
  two codes and a limit of two attempts: enough for one stale save to cross a
  sign-up, a contact change, a wrong code and a lockout. The clock has one step,
  which ends every validity and lockout. A login passes its limit within these four
  handlers; a contact code reaches it and would need a fifth to pass. PINs: two guessers, a limit of three and
  two PINs, over three minutes, in which a lockout runs out once.
* `artist_desk`: two rows of most tables and two handlers; one add-on, one
  booking for reviews, two documents; two visits, two clients and one device, the
  least with a repeat client.
* `app_services`: two connections and two messages, any number of stale saves; two
  conversations and three tickets with a limit of two; a beat of ten minutes, one
  appointment from which two starts and no third fall into each window and one that
  is agreed on inside a window, with two runs that may be under way at once; four
  addresses with a limit of two; three files and two transactions; three rows on
  pages of one, with one row that leaves or moves.

`CHECK_DEADLOCK FALSE` is set because clocks and rows are bounded: at their last
value a closed booking, a spent wallet, a settled payment or a finished walk has no
step left.

### Fairness

* `ClaimsFinish`: weak fairness on the validation or abort of a transaction that
  holds the artist row and on its commit, since the database keeps running a
  transaction that can proceed; strong fairness on `LockArtist`, since PostgreSQL
  grants a row lock to its waiters in turn.
* `ExpiredBookingCloses` (`ServiceSpec`) and `LapsedCoinsLeave` (`FairSpec` of
  `CoinWallet`): weak fairness on the sweeps, which Celery beat starts again and
  again. No user is assumed to do anything.
* Chat delivery, Firestore, reminders and refunds have no liveness property: a lost
  push, a run that died and a refund the gateway refuses are not repeated by
  anything the code guarantees to run. `RemindedInTime` says instead how many runs
  may fail before a reminder is missed.

## 4. What is proved

`tlapm` checks every proof to the last leaf. A theorem is about the specification
that the run of the same module checks (`Spec`, `ServiceSpec`, `CredentialsSpec`,
`DeskSpec`, `ServicesSpec`), for all values of the constants that satisfy the named
assumptions. The assumptions say what the bounded runs instantiate: settings are numbers,
periods and limits are positive where the code has them so, amounts are natural
numbers, the tables that are counted or summed over are finite, and a marker such
as `None` is not one of the values it stands beside. `GroupAssumption` adds that
rows of different tables are different rows, `SlotRulesAssumption` and
`ConstantsAssumption` the form of the appointments, `RemindersAssumption` that two
starts of the beat fall into either reminder window (the code has a beat of ten
minutes and windows of 20.4), and `ChatAssumption` that the closing event is not a
message.

Every theorem follows the same argument: an invariant, confirmed by TLC on the run,
that holds at the start, is kept by every action and implies the property. There
is one lemma per action or group of actions, and one for what a handler that did
not move still knows. No property above is inductive by itself, nearly always for
the same reason: handlers act on what they read, so the invariant must say what
the row *in the handler's hands* has in common with the row in the table.

**SlotCalendarProofs** (`TypeCorrect`, `NoDoubleBooking`, `EnRouteFixed`,
`CalendarIsDiary`).
`ClaimInv`: `LockInv` says that only the holder of the artist row is past
`LockArtist`; `GrantInv` that the slot a claim has been granted conflicts with no
active booking other than revived ones until it commits; `ShapeInv` says what the
records of the handlers hold. No other claim can commit while one is granted,
because both need the artist row, and every other step closes a booking, leaves
its slot alone, or adds it to `revived`. `AcceptInv` adds that an acceptance in
flight holds the row of a confirmed booking nobody has set off for; only it moves
a slot without reviving the booking. The exception for revived bookings in
`EnRouteSlotFixed` came out of the proof: with three handlers a service can be
started from the row a cancellation wrote while a stale save puts the old slot
back, which two handlers, the bound of the run, cannot show.
`CalendarIsDiary` needs a third invariant, `TravelInv`. `confirm_arrival`,
`start_service` and `record_start_pin_failure` save whole rows, so a row without a
departure could come back over one with it. It does not, because each of them
tests for the departure, the arrival or the running service before it reads the
row it saves: for as long as such a handler runs, its booking is past its
departure, running or closed, and the row it holds has the departure unless the
booking was closed or revived when it was read. With `GrantInv` for `Arrange`, every
step is then a step of `ArtistDiary` or a stutter. `TypeOK` of the calendar is a
part of `ClaimInv`; it is proved (`TypeCorrect`) and no run checks it.

**SumFacts.** The sum of a function over a finite set is a fold, a recursive
function on the subsets of that set. Each fact (what a sum gains with an element,
how it changes with one value, how it splits over a subset, that a sum of natural
numbers is one and not less than that over a subset) is proved by taking a smallest
set at which it fails.

**CoinWalletProofs** (`WalletTypeCorrect`, `LedgerAddsUp`, `NoDoubleReversal`,
`DebitsOldestFirst`, `BalanceIsBacked`, `WalletIsAccount`). `WalletInv`: the shape
of the ledger, each row continuing from the one before, and that what the handlers
have listed are redemptions. Every transaction has one form, some remaining coins
change and one row is added (`OneMoreRow`), so each action only shows what it
adds. `BackedInv` adds that the balance is the sum of the batches and that no
batch is below zero; a debit takes exactly its cost from the batches because it
never asks for more than they hold, and a batch that lapses is covered by the
balance because it is one of the summands. With that, every step of the wallet is
a step of `CoinAccount` or a stutter.

**PaymentSettlementProofs** (`SettlementIsSound`, `RefundsAreTrue`,
`CoinsReturnOnce`). `PayInv`: `TodoInv` says of each place in a handler what is
known of the rows it has yet to handle (they exist; one about to be marked paid was
captured; one about to be refunded was captured or has no cash), `DoneInv` the
same of what an open transaction has done without committing it, in particular
that no two of them hold the same reversal, and `GatewayInv` that a paid row was
captured and a refunded one returned. No step takes back what these rest on: rows
that exist keep their cash, and the gateway does not forget (`Advance`). The cash
kept stays within the price because the row is marked paid under the test of the
sum.

**GroupPaymentProofs** (`GroupIsSound`, `OrdersPaidTogether`,
`SharesRefundedTruly`). `GroupInv`: `OrderInv` says that an order is paid with the
shares of its list and no others, and afterwards each is paid or refunded;
`VerifyInv` that a verification has locked every booking of its list or has yet
to, and that the order fits those it has locked; `RefundInv` that the shares a
cancellation has updated or is about to were returned; `Exclusive` that a row has
one holder. Only the holder of a booking changes what is paid of it, so what fitted
when it was locked fits at the end.

**BookingServiceProofs** (`ServiceIsSound`, `ProgressIsWitnessed`,
`CashbackEarned`, `ScreensAreTrue`, `OffersAreHonoured`, `FreeSlotsAreFree`,
`PagesAreTrue`). `ServiceInv` is a conjunction of one invariant per part.
`LifeInv`: not only the row but every copy a handler will save was earned by the
proofs on record, and a booking that has left pending never returns there.
`ScreensInv`: a difference between row and document has news under way or a
recorded reason; no writer holds fresh news once another has been told the row; and
what a handler without a lock has in hand is a row past its pending status
(`HeldInv`), so that no save revives a request and its deadline.
`RedemptionInv`: until an order is accepted the screen is up to date or the change
is recorded, and every tier has the cost it was saved with under some coin value.
`SlotsInv` is little more than the types: that the times shown as free are those
accepted is proved from the two definitions, the ranges the availability view
widens and clamps to the day and the test of `validate_slot`, which widens both
slots and clamps nothing. `PageMatchesOrder` follows in the same way from the four
queries.

**AccountsAndServicesProofs**, first part, the credentials
(`CredentialsAreSound`, `ContactsAreProven`, `GuessingIsBounded`). `AccountsInv`:
every row a handler has still to save is one that would be sane in the table, all
rows of one handler have the same contact, that contact is proven if the account
exists, and an account that does not exist yet is being made by one handler only.
`CountsInv` is the account of wrong codes: the history is ahead of the stored count
by at most one limit for each save that forgot some (`TallyInv`), a wrong code in
hand adds one to the count its handler loaded (`MissInv`, `LockInv`), and no handler
lowers the count it started from but to clear it (`ClearInv`). A save whose count is
still the one in the table therefore adds or clears, and any other counts as
forgetful if it leaves less than it should.
`PinsInv` bounds the wrong guesses with a potential: a row of the PIN is worth the
guesses it leaves, the one in the table and the ones in the hands of the guessers,
and a stale save brings back at most what its row is worth, so that guesses so far
and those still possible together stay below a quadratic in the limit (`Fits`, for
no, one or two rows in hand). As the property says, this is for two overlapping
guessers, and any limit and times.

**AccountsAndServicesProofs**, second part, the services (`ServicesTyped`,
`ChatTellsTheTruth`, `ClosedForGood`, `RemindersComeInTime`, `AddressesStayFew`,
`FilesStayAccounted`, `WalksMissFew`). `ServicesInv` is a conjunction of one
invariant per part.
* `ChatInv`: a message on its way to a client, or saved and not yet pushed, is
  stored; the closing signal exists, anywhere on its way, only when the booking is
  over or was put back (`reopened`).
* `SupportInv`: a ticket in the hands of an administrator is not closed, and in the
  hands of no other. `ClosedStaysClosed` is proved of each step from it;
  conversations need no invariant, because the update in `mark_running` filters on
  the status it changes.
* `RemindersInv`: the rows stored and the runs that have tested, found none and are
  about to store one are together no more than the runs, because a test that comes
  after a row finds it. For a booking that has no reminder yet, the runs that failed
  it or still owe it one are counted: inside the window at least one for the beats
  before this one and one for the runs begun in this beat (`RunsCounted`), after it
  two. That no beat can jump over a window is arithmetic on the length of the windows.
* `AddressInv`: the addresses kept and those being written by a handler are
  together at most the limit and one per handler but one. Only the check of a
  creation adds to this set, and it counts what is kept.
* `FilesInv`: rows that are stored or in an open transaction share no file
  (`RowsApart`), the files of a transaction are no other's and no row's
  (`NewFresh`), a row in hand is where its task says (`InOrder`), a file is on disk
  for a reason and missing for one (`KeptForReason`, `MissingForReason`), and what
  is left in the public place was there from the start (`LegacyKnown`).
* `ListingInv`: a row's place is the number of selected rows that go before it.
  The query sorts, so what a page shows is what has its place there (`Results` is
  any enumeration that the order allows; where it tells the rows apart there is
  only one). A row of the walk that was not seen and whose place is before the
  next page was missed; an insertion only moves places up, and a row that leaves or
  moves takes down the places of others by one, and since no two rows have the same
  place, one more of them at most falls back over the edge of the page. Hence
  missed rows are at most the rows that left or moved.

**ArtistDeskProofs** (`DeskIsSound`, `ApprovalIsEarned`, `SubmissionsAreSeen`,
`FiguresAreHonest`, `DecisionsStand`). `CatalogueInv`: the rows and the halves of a
charge that handlers carry are consistent, a brand request in flight is not stored,
and one being decided is pending and in one worker's hands. `ReviewInv`: the
profile and every copy a form will save satisfy the same three conditions
(`Honest`), an approval in flight has seen a verified proof, and a document being
verified or uploaded is in one request's hands. `ClientsInv`: whoever has a visit
stays known; the repeat clients of a summary are counted by an injection into
visits that were completed when they were counted or have been since (`QueryInv`).

### What the proofs changed in the model

Attempts that failed for a reason corrected the model: two cases of `Commit` in
`StoredFiles` overlapped, so that its meaning depended on the order in which they
are tried; `Beat` in `Reminders` skipped the stretch between the windows under a
test that was enough for one beat length only; and the assumptions on that length,
on `Closed` and on the number of files had been left to the bounded run.

### Only model-checked

* Liveness (`ClaimsFinish`, `ExpiredBookingCloses`, `LapsedCoinsLeave`): liveness
  under fairness and ENABLED are out of the prover's reach.
* What one property leaves to its bound: the guesses at a PIN with more than two
  guessers.
* The three violations, which are counterexamples.

## 5. What is not modelled, and why

* API plumbing: URL tables, controllers, serializers, request dataclasses and the
  mapper tables turn a request into the parameters of one handler and a row into
  JSON. Migrations describe the tables whose columns the models have.
* Texts and formats: names, descriptions, messages, e-mail and SMS bodies, search
  words, distances. Cryptography and token formats: a session is there or not, a
  code is a number.
* Commission, payout and tax figures: sums over finished payments that no decision
  depends on.
* The Booking OTP, which is issued and stored and no longer asked for, and the
  counters of the Start PIN, which are the statements of `ServicePins` with other
  columns.
* Notifications of handlers, apart from the reminders: written in a savepoint
  that never fails the caller and read by nothing. The copy of a notification in
  Firestore: written once after the row, in the same savepoint, and never updated.
* Django's own admin site, which can set any column of a registered table, the
  approval of an artist included, and delete rows outside the handlers. Of what it
  does, only the deactivation of a user is in a model.
* Reference data (`core/`): seeded once and constant to the other modules; its
  lists are in `Listing`.
* The activity log: appended to, read by no part of the code.
* Documentation tools (`src/docs/tools/`): not part of the running system.
* The artist search as a paged list: it counts and slices in two queries and is
  in `Storefront` as the set it selects.
* Amounts are small integers; rupees and coins are decimals and integers that
  the code never overflows. One artist, one booking or one wallet stands for all
  where rows of different ones never meet.

## 6. Plan

*Done*: the models of all parts above and the runs; the proofs of every safety
property that a passing run checks, and of the refinements of the account and the diary. What
could follow:

* a bound on the guesses at a PIN for any number of overlapping guessers, with the
  potential of `PinsInv` summed over all of them;
* an abstract specification of the settlement of a booking (paid, refunded, coins
  returned, each once), implemented by `PaymentSettlement` as `CoinAccount` is by
  `CoinWallet`;
* the four hazards without a property, each with the reason noted in
  `PROJECT.json`.

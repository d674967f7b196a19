# A TLA+ model of the nginepyuk hotel-booking app

nginepyuk is a Flutter app: a user signs in, finds a hotel, fills in a booking
form, chooses a payment method and places an order in Cloud Firestore. This
directory models the parts of the app that decide something or remember
something, checks them with TLC and proves the central invariants with TLAPS.
Paths below are relative to the repository; line numbers are in `PROJECT.json`
(`map`).

## The system and its parts

| part | source | state it keeps | operations |
|---|---|---|---|
| start, routes | `lib/main.dart`, `lib/pages/auth/splash_screen.dart` | the Navigator's stack; a stream of the signed-in user | show `MainPage` or `AuthPage` at `/`; a `MainPage` of its own at `/main` |
| sign-in, registration | `lib/pages/login_page.dart`, `register_page.dart`, `auth/auth_page.dart` | text fields, which form is shown | `signInHandler`, `signUpHandler`, `addUserDetails`, `toggleScreens` |
| main page | `lib/pages/home/main_page.dart` | the user captured when its state was created, the current tab | tab bar |
| profile | `lib/pages/home/profile_page.dart` | none | query the profile by e-mail; sign out |
| hotel lists | `lib/pages/home/home_page.dart`, `widget/card_item.dart`, `widget/recommend_item.dart` | snapshots of queries | open a hotel |
| hotel detail | `lib/pages/detail_page.dart` | the last snapshot of the hotel | "Book Now", back |
| booking form | `lib/pages/booking_detail_page.dart` | two dates as text, the night count, four text fields | two date pickers, "Next" |
| payment method | `lib/pages/payment_method_page.dart` | the selected option | radio buttons, `handleBooking()` |
| payment page | `lib/pages/payment_page.dart` | constructor arguments | "Home", copy the account number |
| orders | `lib/pages/home/order_page.dart`, `widget/order_item.dart`, `lib/pages/order_detail.dart` | snapshots of two queries | open an order |
| search | `lib/pages/home/search_page.dart` | the delegate's query; the stored list of latest searches | type, submit, clear, `saveSearch()` |
| Firestore client, write path | `ios/Pods/FirebaseFirestore/Firestore/core/src/core/sync_engine.cc`, `remote/remote_store.cc`, `remote/write_stream.cc`, `local/leveldb_mutation_queue.cc` (vendored) | a persistent mutation queue per user, the pipeline of writes sent, callbacks in memory | write, send and resend, acknowledge, reject, wait for pending writes, change of user |
| Firestore client, streams | `remote/stream.cc`, `remote/grpc_stream.cc` | the state of a stream, its idle and backoff timers, requests for credentials | start, back off, write, close |
| Firestore client, listeners | `core/event_manager.cc`, `core/query_listener.cc`, `core/view.cc`, `remote/online_state_tracker.cc` | listeners, views, targets, the online state and its timer | listen, unlisten, snapshots, errors of targets, going offline |
| Firestore client, watch targets | `remote/remote_event.cc`, `local/local_store.cc` | pending changes and outstanding responses of a target, its stored keys and resume token | watch and unwatch, apply a snapshot, existence filters, resets |
| Firestore client, limbo | `core/sync_engine.cc`, `core/view.cc` | documents shown that the backend does not list, the queue of their lookups | look up, resolve, give up |

Pages hand their data to the next page as constructor arguments; the only shared
state is the signed-in user and the collections `hotels`, `orders`, `users`. The
app is single-threaded but not atomic: an `await`, a stream or a page transition
lets the user, the server, the back office and the operating system act between
two halves of a handler. That is where its hard behaviour is:

* `handleBooking()` awaits the *server*, its button stays enabled, and after the
  await it uses the page's context and re-reads the selected option;
* the account may change, or be dropped by the authentication library, while
  orders are queued and pages are open;
* prices on the pages are copies of a document that may change or disappear;
* `saveSearch()` reads, modifies and writes a list without waiting for its other
  activations;
* sign-ins and sign-ups may overlap, and `signUpHandler()` reads its text fields
  again after the account was made;
* dates are computed from local midnights, across clock changes;
* every list of the app is a listener of the Firestore client, and every order one
  of its writes: streams break and are resumed, answers carry no name, a target is
  unwatched and watched again while messages about its earlier life are on the way.

`PROJECT.json` lists these as `hazards`, each at its line and with the properties
that watch it.

## Modules

* **BookingDates** - the calendar arithmetic of the form. A date text is a day
  number, parsing it gives `Midnight(day)`, an instant in hours that depends on
  the zone's offset on that day, and `Nights` truncates the difference to whole
  days as `Duration.inDays` does.
* **OrderStore** - what becomes of a document after `add()`: the mutation queue
  of its owner (on disk), the server, and the futures (in memory). A write that
  the server applied may be sent again; a document written twice is the same. A
  rejection takes the head of the queue whatever the server did with it, as
  `HandleWriteError()` does.
* **SignIns** - the current user and the calls of `signInHandler()` and
  `signUpHandler()` that are awaited, as the pages behind the sign-in see them.
  Booking and OrderTabs extend it.
* **Booking** - the whole flow, composed of the three modules above. `stack` is the
  Navigator's stack; a route is a record with the state of its page. `leaving`
  holds the PaymentMethod pages that are off the stack and still mounted while
  they animate out. Actions are named after the handlers; `HandleBooking` is
  `handleBooking()` up to its await and `BookingResumes` the rest of it, and
  `SignInPressed`, `SignIn` and `SignInFails` are a sign-in before and after its own.
* **SearchHistory** - the search delegate and `saveSearch()`, split at each await.
  `pending` is the queue of requests at the storage plugin.
* **Session** - LoginPage, RegisterPage and AuthPage inside the SplashScreen, the
  authentication service and the `users` collection. `calls` holds the activations
  of `signInHandler()` and `signUpHandler()`: a sign-up is sent, carried out by the
  service (`CreateAccount`), answered (`AuthSucceeds`) and resumes
  (`AddUserDetails`). `ShowFor` is the SplashScreen's rebuild: it is here that a
  MainPage captures a user.
* **OrderTabs** - the two queries of the order list over the flags a back office
  sets, the snapshots they show, and the detail page with the copy it was opened
  with. `user` is the account the MainPage captured, which the queries ask for, and
  `currentUser` the one signed in.
* **FirestoreStream** - a stream of the Firestore client as a record, and its
  methods as operators on it. WritePipeline and ListenPath each have one.
* **WritePipeline** - the write path at the grain of the tasks of the client's
  worker queue: batch ids, the pipeline, the handshake, answers without names,
  waiters, faults. It implements OrderStore: `Store` is the instance with the
  mapping, the documents of each queue for `queue` and the callers' futures for
  `callbacks`.
* **ListenPath** - listeners, views, targets, the watch stream and the online state.
  A view is whether it is current and whether it has documents. The backend may fall
  silent for good (`silent`), which is what the online timer is for.
* **WatchAggregator** - one target in full: the client's aggregator, view and stored
  token on one side, a backend that may say everything the protocol lets it say on
  the other, and the messages between them.
* **LimboResolution** - which documents are in limbo for which view, and the bounded
  lookups of them.
* **MCBooking** - time zones and clock readings for the runs of Booking; the other
  modules are instantiated by their configurations alone.
* **BookingProofs**, **SearchHistoryProofs**, **SessionProofs**, **OrderTabsProofs**,
  **WritePipelineProofs**, **ListenPathProofs**, **WatchAggregatorProofs**,
  **LimboResolutionProofs** - the theorems; each extends the module it is about.

Definitions whose comment starts with "Mutant:" are faulty variants of the
definition that follows; nothing uses them in the model. Each is a plausible bug,
and the property it is listed with in `PROJECT.json` fails when it takes the
place of the original.

### Abstractions

* The text fields are filled or empty, hotels and options are model values; title
  and photo, which follow the hotel's id everywhere, are left out.
* A date picker's dialog is modal, so that opening it and its result are one step.
* In Booking and OrderTabs a sign-in is a press on the AuthPage and an answer, which
  signs its account in whatever is on screen by then. Any number of presses may wait
  for their answers, of one account or of several. The press waits for transitions to
  end (typing a password takes longer); the forms themselves are Session's.
* In Session a form is its e-mail and whether the passwords agree; the full name,
  which is read in the same statement as the e-mail, is left out. A call keeps the
  text of its form, because a disposed controller keeps it too. An account is named
  by its address. The AuthPage that a new SplashScreen draws for one frame, before
  the stream's first value, is left out. A profile waits in the queue of the user
  who was signed in when it was added, as an order does in OrderStore.
* What the server applies of an account's queue after that account was signed out
  it may as well have applied before: the app cannot tell, so that `StoreStep` is
  enabled for the signed-in account only. The security rules answer a repeated
  write like the first one.
* The storage plugin serves requests in order, and an answer is handled in the
  step that serves the request: the activation that waits for it does nothing in
  between, and later requests are served later.
* The three layers of the listen side are modelled apart, each with what the others
  do to it as free steps: ListenPath has any snapshot for any target, WatchAggregator
  one target whose documents matter, LimboResolution the views with any remote
  event. A query is its own target; in LimboResolution queries match every document.
* A resume token stands for the versions the backend had told when it issued it: that
  is what the backend may rely on when a stream is resumed.
* The backend's snapshots do not go back, so that the check of `remote_store.cc:282-283`,
  which ignores a snapshot older than the last, has nothing to ignore and is left out;
  so is the branch of `HandleExistenceFilter()` for a query of one document
  (`remote_event.cc:218-235`), since the target of WatchAggregator is a query.
* A loop over views (`FoldSet`) takes them in one fixed order.
* `everPriced`, `drifted`, `alone`, `writer`, `firsts`, `overlapped`, `edited`, `cut`,
  `truth`, `unfounded`, `early`, `unasked` and the fields `carried` and `cleared` are
  history variables: no guard reads them. `bad`, `faults`, `overtaken`, `changes`,
  `errors`, `silent` and `restarts` belong to the environment.

## Runs

Every bound is a constant named in the module. A stack of the flow has at most
four routes, because hotels are opened from a MainPage only, so it needs no bound.

| run | instance | what it shows |
|---|---|---|
| `booking` | 2 accounts (symmetric), 1 call of each awaited, 2 orders, 2 prices and 1 edit of the hotel, 2 days | no order lost or doubled (`NoLostOrder`); a PaymentPage stands for an order the server holds, with its stay (`PaymentPageBacked`), and is the only route (`PaymentPageAlone`); unless two sign-ins were in flight at once it is never on screen for another account (`PaymentShownToOwner`) and the user a MainPage captured is not another one than the current (`MainUserCurrent`); an order costs its nights times a price the hotel had, and its PaymentPage shows that price (`OrderPriced`) |
| `booking_form` | 1 account, 3 days, one of 25 and one of 23 hours, the form opened across midnight and just after it, 2 options, 1 order, fairness | the night count is exact, negative ones included, but for a clock change and a form opened around midnight, which put it off by one (`NightsExact`); the option shown is the one ordered unless it was changed in flight (`OptionShownIsOrdered`); an order leaves the queue if its account comes back again and again (`OrderSettles`); the await of `handleBooking()` ends unless the account is signed out (`BookingAnswered`) |
| `search_history` | 2 texts, cap 2, 4 saves, 2 searches, fairness | the list is bounded (`ListBounded`); its initialisation erases nothing (`InitErasesNothing`); `stringOfItems!` never throws (`RereadFindsList`); a save that overlaps no other loses nothing (`AloneLosesNothing`); no save replaces the list of a later one by its older one, except a save that found no list (`LaterSaveWins`); every save ends (`SavesEnd`) |
| `session` | 2 addresses, 2 calls, fairness | the user a MainPage captured is the current one unless two calls were in flight at once (`MainUserCurrent`); an account has exactly one profile that ProfilePage finds, unless its sign-up is in flight or was cut short by a lost answer, a restart or a refused write, or its form was edited (`ProfilesComplete`); every activation of the two handlers ends (`CallsEnd`) |
| `order_tabs` | 2 accounts, 2 calls of each awaited, 2 orders, fairness | the rows are of the user the MainPage captured, and what is on screen is of the account signed in unless two sign-ins were in flight at once (`ShownToOwner`); an order is in exactly one tab unless it is over and was not cancelled (`OnlyDoneIsHidden`); an open order comes to be listed (`OpenOrdersListed`) |
| `write_pipeline` | 2 accounts, 3 writes, pipeline of 2, 1 waiter, 2 faults, fairness | no assertion of the client fails and the pipeline is the front of the queue (`PipelineInStep`); requests and answers under way are the pipeline, batch for batch (`AnswersCorrelate`); `waitForPendingWrites()` is not released early (`WaitersReleasedLate`); every write is settled (`WritesSettle`) |
| `write_overtaken` | 2 accounts, 4 writes, pipeline of 4, 2 faults, 1 answer lost to a failed send | no write is lost and a future tells what the backend did, except after that one failed send (`FuturesTruthful`); the write path implements OrderStore also then (`ImplementsOrderStore`) |
| `listen_path` | 2 queries, 3 listeners of which one waits for the server, 1 restart, a backend that may fall silent, fairness | listeners, views, targets, stream and online state agree, and no assertion fails (`LayersAgree`); a listener without a first event has a reason to wait, and the client is online, or its timer runs or was cleared (`NobodyForgotten`); it gets one, unless for ever the backend is silent and passes for online or the timer was cleared (`FirstEvent`) |
| `watch_aggregator` | 1 document, 2 changes of it, 1 failed target, 2 messages each way | the client waits for exactly the responses that will come, and no assertion fails (`BooksExact`); what is shown as synced is a result the backend had (`SyncedIsTrue`); a stored token goes with the stored keys (`TokenMatchesKeys`) |
| `watch_live` | 1 document, 1 change, fairness | a view that stays listened to on an open stream is in sync again and again (`CatchesUp`) |
| `limbo` | 2 queries, 2 documents, 1 slot | what is looked up is what is in limbo, once, for as long as a view needs it (`LimboTracked`); no slot stays free while a document waits (`SlotsUsed`) |

Where a property's name stands for several facts it is a conjunction of named ones,
the module's `TypeOK` among them.

Two accounts are enough for one to meet the other's leftovers; two orders for two
activations of `handleBooking()` of one page to overlap, also with a change of account
between them: one PaymentMethod page at a time (`MaxVisits`) is enough for that, since
the late answer of an overlapping sign-in changes the account under it. The theorems
have any number of pages. In `booking` the accounts are interchangeable (no definition
names one, and the run checks no liveness), so that they may be permuted. One edit of
the hotel document (`MaxEdits`) lets every page that holds a price hold the old one or
the new one; the theorems have any number, and any first prices (`FirstPrices`). A list
with a cap of two is empty, partly filled and full. Three writes and a pipeline of two let the pipeline be
full with one more waiting; two faults let one meet the recovery from the other. Two
messages each way are enough for a target to be unwatched and watched again while an
answer to its first life is still to be read; two changes let a document come, change
and go. One slot and two documents make the queue of lookups wait.

**Fairness.** A completed future resumes its handler (the event loop), a
`signOut()` takes effect, and the Firestore client, which retries for ever, gets
an answer for a user who is signed in again and again: strong fairness, since
sign-outs interrupt it. Users, back office and operating system owe nothing. The
storage plugin answers every request, and the authentication service every call,
if only by a timeout of its library. A query's snapshot arrives (weak fairness).
In WritePipeline the client's own steps, its timers and the backend make progress as
long as something is under way, and the bounded faults stop. In ListenPath credentials
are answered, timers fire (weak) and, unless it has fallen silent, the backend answers a
target that is asked for over and over (strong: streams may break). In WatchAggregator the client reads what has
arrived (weak) and the backend answers and sends what it owes (strong: a reset or a new
request may come between). LimboResolution has safety only.

One run shows where the code does not do what it says (`findings`):

* `booking_main_user` - `MainPage` asserts `currentUser!`; after a forced sign-out
  on the payment page, "Home" opens a `MainPage` without a user.

### Exceptions the properties name

Some properties hold only with an exception. Each is a place where the code does not
do what a comment, a label or another part of it says:

* "Total Pembayaran" (`payment_page.dart:370`, 382) is the price of one night, not the
  total of the order: `OrderPriced` says which price it is.
* `booking_detail_page.dart:221` comments the first day of the pickers with "not to
  allow to choose before today"; the argument is `DateTime(2000)`, so that negative
  stays and stays in the past are in the model.
* An order checked out and not cancelled is in neither tab (`order_page.dart:128`,
  161-162), although `order_item.dart:154-165` has a badge for it: `OnlyDoneIsHidden`.
* When a send fails, `GrpcStream::OnOperationFailed()` (`grpc_stream.cc:312-323`) drops
  an answer that has arrived and was not handled; the refusal of the next write is then
  charged to the first of the pipeline (`remote_store.cc:523-524`), which the backend
  has applied. `FuturesTruthful` holds until then (`overtaken`); OrderStore, and with it
  `NoLostOrder`, allows for an order that is held by the server and was given up.
* The login button is not disabled (`login_page.dart:21`): when two sign-ins are in
  flight, the second answer changes the account under the MainPage that the first one
  brought, and under a PaymentPage opened from it. `overlapped` in `MainUserCurrent`,
  `PaymentShownToOwner` and `ShownToOwner`.
* A save that finds no list has two requests more than the others (`search_page.dart:184`)
  and may put its list in the place of a later one: `firsts` in `LaterSaveWins`.
* `StopListening()` of the last target while the stream is starting clears the online
  timer (`remote_store.cc:187`), and the next `Listen()` does not set it again, although
  `online_state_tracker.cc:47-49` speaks of going offline "rather than waiting
  indefinitely": a listener then waits as long as the backend is silent. `cleared` in
  `FirstEvent` and `NobodyForgotten`.
* A target unwatched and watched again on one stream keeps `current_` of its earlier
  life (`remote_event.cc:155-159`), although `remote_event.h:160-162` says what it
  implies: `carried` in `SyncedIsTrue`.
* After an existence filter mismatch, unlistening and listening again before the next
  snapshot loses the removals of the reset but not the reset (`remote_event.cc:255-258`,
  `remote_store.cc:336-337`): the backend then never reports a key the client still has,
  `unfounded` in `SyncedIsTrue` and `TokenMatchesKeys`.
* The error of an earlier life of a target takes the count of outstanding responses of
  the present one with it (`remote_store.cc:354-366`; `remote_event.h:210-211` says the
  count is of responses "that we are waiting on"): `early`.
* A document whose lookup was refused is not looked up again while a view holds it in
  limbo, also if it comes back: `unasked` in `LookupsAreNeeded`.

## What is proved

The theorems hold for every value of the constants that satisfies the assumptions of
the modules: prices and offsets are integers (`BookingAssumption`, `DatesAssumption`),
the offsets of a zone differ by at most a day and its days have at least 13 hours
(`ZoneAssumption`), clock readings lie in the calendar (`ReadingsAssumption`), a null value is not a member of the set it
extends (`AbsenceAssumption`, `NoStateAssumption`, `NoTokenAssumption` and parts of the others), sets of
documents and queries are finite, and bounds are natural numbers. Each theorem is the property
that a run checks on its small instance; each inductive invariant was model-checked
before it was proved.

**Booking.**

* *TypeCorrect*. `TypeOK` is inductive.
* *PaymentStandsAlone*. `WellStacked` strengthens `PaymentPageAlone`: below the
  page on screen there is neither a PaymentMethod nor a PaymentPage, a PaymentPage
  is the only route, and pages lie on the pages they are opened from. The pages
  below matter because Back uncovers them.
* *MainUserIsCurrent*, from `WellStacked` and `LoneCall`: a MainPage is the lowest
  route, and what is pushed on it or popped off leaves it alone; a call that overlaps
  no other one is awaited on the AuthPage, which is the only route then, so that its
  answer changes the account under no other page.
* *OrdersAreKept*. `Ledger` strengthens `NoLostOrder`: every order is queued,
  held or rejected (it may be both held and rejected); every queue holds only orders of its own account, each once
  and none rejected. Ownership is needed for the head of a queue that is answered.
* *PaymentIsBacked*, *OptionIsOrdered*, *PaymentIsOwners* share `FlowInv`, of which
  `LoneCall` is a part.
  A PaymentPage is made from a callback and from the page whose state awaited it,
  so the invariant is about those: state objects have distinct identities, and no
  callback is of one not opened yet (`InstsFresh`); a callback matches the page
  that awaits it, on screen or animating out - same stay, same option unless it
  drifted, nobody but the owner signed in unless sign-ins overlapped - and a
  successful one is held by the server (`CallbacksMatch`); so the PaymentPage
  matches its order (`PaymentMatches`).
* *OrdersArePriced*, *NightsAreExact*. A price and a night count travel from the form
  through the routes into the order: `StaysGood` says of every stay on the stack, on a
  page animating out and in an order what the properties say of orders. The proof of
  the night count is arithmetic on truncated division; it showed that an earlier form
  of `NightsExact` had forgotten stays whose dates were never picked, which differ from
  the picked ones by the hour of the day they were read at.

**SearchHistory.** *TypeCorrect*, *CapHolds*, *FirstUseIsSafe*, *SecondReadFindsList*:
the strengthening says where in the queue of requests an initialisation can be: while
one is pending nothing else than the empty list is stored, and no list is written
before it. *AloneIsSafe* adds that a save that is alone has at most one request pending
(`AloneInv`); *SavesKeepOrder* that saves read in the order they began in, and
that one which found a list began after every save that has written or found none, so
that it also writes in the order of the reads (`OrderInv`).

**Session.** *TypeCorrect*, *MainUserIsCurrent*, *ProfilesAreComplete*, from
`SessionInv`: a MainPage is shown exactly while a user is signed in; a registration in
flight has its account and no profile yet, and no account is registered twice at once
(`CallsSound`); without overlapping calls no answer meets a MainPage
(`AnswersMeetForms`).

**OrderTabs.** *ScreenIsOwners*, *TabsPartition*. `TabsInv` says of every copy, also in
the list under a detail page, which Back uncovers, that it is of the user the MainPage
captured; that this user is the one signed in, or nobody is, unless sign-ins overlapped
(`UserCaptured`); and, for that, that a call which overlaps no other one is awaited
without a MainPage (`LoneCall`).

**WritePipeline.** *PipelineStaysInStep*, *AnswersBelong*, *FuturesAreTruthful*,
*WaitersWait*, from `PipelineInv`: the rows of a queue are in the order of their batch
ids and of their owner (`QueuesSound`); the pipeline is the front of the queue, and all
of it if it is not full (`Full`); while the stream is open the pipeline is the
responses to be read followed by the requests to be processed, batch for batch, and a
response says what the backend did, but for the one refusal after a lost answer
(`Wired`); every callback is of a batch on disk (`CallbacksBacked`), every future waits
for one or was told the truth (`FuturesSound`), a document neither queued nor held was
rejected (`NoneLost`), and no document that a waiter waits for has a batch id above the
waiter's (`WaitersSound`).
*ImplementsStore*: the write path implements OrderStore, the abstract specification of
the write path that Booking composes with. Each step is shown to map to a step of
OrderStore or to none: a commit of the backend to `ServerApply`, or to nothing if it has
the document from an earlier connection, a result to `HandleSuccessfulWrite`, a refusal
to `HandleRejectedWrite`, also the one charged to a write that was applied, and pipeline,
stream and faults to a stutter. It rests on
`PipelineInv`: that the batch at the front of the pipeline is the head of the queue, and
that a result is read only for a batch the backend has applied, is what makes the mapped
step one of OrderStore.

**ListenPath.** *LayersAlwaysAgree*, *NobodyIsForgotten*, from `ListenInv`: between two
tasks of the worker queue the timers run only while what they assert is so, a stream is
started whenever there are targets, and one whose online state is unknown has its timer
unless `StopListening()` cleared it (`Settled`); a client whose network is disabled knows
that it is offline (`Informed`); and the last snapshot of a view says whether the view is
current (`SnapshotsFresh`).

**WatchAggregator.** *BooksAreExact*, from `BooksInv`: a change says "modified" only of
a document that the view has, changes are reported as pending (`Sound`), and nothing is
under way on a closed stream. The count of outstanding responses is that of the requests
and the answers under way at every moment, through resets, mismatches and the new listen
after one, until an error of an earlier life of the target takes it away.

*TokensMatch*, *SyncedIsRight*, from `BooksInv` and `TruthInv`. Neither property is
inductive, since whether a token goes with the keys depends on what is under way: the
responses between the last snapshot and the next, of which each changes what the
aggregator will store. `TruthInv` therefore says that there is a trace of what the
backend had told, and of its phase, before each of the responses under way (`t` and `p`
in `Chain`; `Link` is what one response does to them). Relative to it

* an active target stands where the trace begins: after the next snapshot the view will
  have what had been told, at the version told or at one that is outdated (`Active`);
* an inactive one awaits the answer to a `Watch` with the token of its view, and the
  trace after that answer begins with what that token says (`Awaiting`, `Coming`);
* every token that a target may be watched with, the stored one, the view's and the one
  kept across a mismatch, goes with the keys (`TokenFits`);
* a version told earlier is one that a later response about the document confirms, or
  no snapshot under way has it any more (`Settled`, `Outdated`): that is why a document
  that a lookup or an old response changes in the cache is wrong for no view in sync;
* a current view shows what the last snapshot stood for (`Viewed`).

`Outdated` needs that every version is one the backend has had: those of its result
(`Bounded`), of the trace, and of the tokens in the requests under way (`AskedInv`,
proved together with `TruthInv`). Reading a response takes the first element off the
trace, a step of the backend appends one, a broken stream begins a new one. TLC found
both invariants to hold in all 808431 states of an instance with one document, one
change, one error and two messages each way before they were proved. The exceptions in
the two properties (`carried`, `unfounded`, `early`) are the deviations listed above.

**LimboResolution.** *LimboIsTracked*, *SlotsAreUsed*, from `LimboInv`, whose part
`Account(t, gone, refused)` also holds in the middle of SyncEngine's loops: what is looked
up is referenced or is `gone` and still to be removed, and what is referenced is looked up
or was `refused`. The loops are folds over sets. Each is written as a function of the set
of what it has treated (`LeavingLoop`, `ComingLoop`, `EndingLoop`, `ReportLoop`); that
there is such a function, and that what every iteration keeps holds at the end, is shown
once (`LoopExists`, `LoopInduction`), by induction on the size of that set
(`NumbersInduction`, from the well-foundedness of `<`). While the queries report their
views one after the other, those that have are accounted for with their new view, the
others with their old one.

Model-checked only: liveness (`OrderSettles`, `BookingAnswered`, `SavesEnd`,
`CallsEnd`, `OpenOrdersListed`, `WritesSettle`, `FirstEvent`, `CatchesUp`), which the
prover cannot handle. Every other property of a passing run is stated by a theorem.

## What is not modelled

Layout, theme, the picture carousel, the stepper and the shimmer (no decisions);
generated configuration; the platform runners; matching of titles and ratings on the
server; the title-case function (a pure string function). Of the Firestore client:
transactions, the contents of documents, limits and the order of results, several
targets at one aggregator, garbage collection, bundles, the delays of the backoff. The
other vendored libraries (gRPC, BoringSSL, abseil, LevelDB, Firebase Auth, upb), which
are nearly all of the repository's lines, are third-party code the app does not
control: what the models need of them is an external action or a fairness condition.

## Plan

1. Done: BookingDates, OrderStore, Booking, SearchHistory and their first proofs;
   Session.
2. Done: OrderTabs; the Firestore client's write path and its refinement of OrderStore;
   listeners and online state; watch targets; documents in limbo.
3. Done: the theorems about Session, OrderTabs, WritePipeline with its refinement of
   OrderStore, ListenPath, WatchAggregator, LimboResolution, and the rest of Booking
   and SearchHistory.
4. The client's worker queue (`util/async_queue.cc` and its executor), whose order the
   models assume.

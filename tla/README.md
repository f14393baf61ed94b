# Verification of agenda-online

TLA+ models of agenda-online (a NestJS backend over PostgreSQL, Redis and R2,
and a Next.js frontend), the TLC runs that check them on small instances and
the theorems TLAPS proves about them. Paths are relative to the repository;
`AS` is `backend/src/appointments/appointments.service.ts` and `AQ` is
`backend/src/appointments/queries/appointments.queries.ts`.

`PROJECT.json` maps every definition to the lines it models and lists the
components, runs, mutants, hazards, findings and theorems.

## 1. Inventory

| Component | State | Operations | What is hard |
|---|---|---|---|
| Slot engine (`availability/compute-slots.ts`, `getPortalSlots`) | none (pure) | slots of a day with their occupancy | boundaries, exceptions in no fixed order, days that touch |
| Booking core (`AS`) | `appointments` | create, confirmPortal, changeStatus, accept, reject, reschedule, cancel, cancelByToken | check-then-write under READ COMMITTED, rows read before the lock, deadlocks, crash between commit and consume |
| Booking sessions (`auth/booking`) | Redis record per token | issue, assertValid, consume, expiry | check-then-set, consumed after the commit |
| Clients (`clients/`, `upsertClient`) | `clients`, two partial unique indexes | upsert in a booking, staff create, update, delete | a unique violation aborts the transaction |
| Reminder job | `reminder_sent_at` | hourly select, send or skip, mark | overlap, crash between send and mark, rows that change under the run, mails that are skipped |
| Refresh sessions (`auth/`) | `refresh_sessions` | login, refresh, logout, logout-all, password change/reset, profile edit | insert and revoke without a transaction, requests in flight across a cut |
| Passwords | `users.password`, `password_reset_codes` | forgot, reset, change, sign in, renew a session | three statements without a transaction, older codes, sign-ins and refreshes past their check |
| Weekly lists of the business and its professionals | schedules, services given | replace all; migration 016 at each start | concurrent DELETE + INSERT |
| Catalogue (services, professionals, the business) | one table each, `audit_logs` | create, update, deactivate, list | write and trail are two statements |
| Assets and R2 | `assets`, links, objects | upload, link, exclusive kinds | object, row and link are not atomic |
| Public booking page | a visit | service, professional, day, time, Google | late answers, buttons of a page that fades out |
| Booking cookie | one cookie, a `sessionStorage` per tab | confirm on return, sync, cancel | get and set without a lock between tabs, size limit, reload or error while confirming |
| Panel session in the browser | two cookies, claims per tab | sign-in, refresh on 401, logout, profile, password | parallel 401s, a logout that crosses a refresh |
| Staff calendar, its configuration, appointments, booking modal, customers | what each page shows | filters, pages, changes, saves | requests that are never cancelled, saves in two requests, debounce |
| Users, permissions, branding, other pages | see `PROJECT.json` | one statement, one read or one form | nothing beyond it |

Requests meet only in the database: a handler runs on Node's event loop and
gives way at every `await`, so what can interleave is statements. Handlers read
before they open a transaction, and `DatabaseService.transaction` is used only
around the capacity check and its write, and the replacement of a weekly list.
Redis and R2 are outside any transaction. In the browser React runs one task at
a time and flushes the effects of a click before the next event, so what can
interleave there is clicks, timers and answers, with a cookie and the server
shared between tabs.

## 2. Modules

| Module | Models | Uses |
|---|---|---|
| `Slots` | intervals, opening windows, occupancy of candidate starts, the busy and the locking query, as operators | |
| `SlotQuery` | the read side: a question to the slot engine against any agenda, schedules and exceptions | `Slots` |
| `Agenda` | what the booking core promises: book, move and re-label as atomic steps that never exceed the capacity | |
| `Booking` | the booking core, one awaited statement at a time | `Slots`, refines `Agenda` |
| `ClientUpsert` | the clients of a business under bookings and staff edits | |
| `Reminders` | the hourly job against changing appointments | |
| `Sessions` | the refresh sessions of one user | |
| `PasswordReset` | the password of one user, the codes and the form that asks for them | |
| `Weeks` | three lists that a save replaces, and the migration that copies one into another | |
| `Assets` | uploads, links and the exclusive logo, with the page that changes it | |
| `Catalogue` | records, their audit trail and the page that lists them | |
| `BookingWizard` | one visit to the public booking page | |
| `BookingTabs` | the bookings one browser knows, over several tabs | |
| `Panel` | the panel's tokens in a browser, against a server of refresh sessions | |
| `AgendaDays`, `AgendaConfig` | the staff calendar and its configuration | |
| `AppointmentsPage`, `InternalBooking` | the list of appointments and the modal that makes one | |
| `ClientsPage` | the customers page: filters, suggestions, history | |
| `Server` | the parts of the backend that share no rows, as one specification | `ClientUpsert`, `Reminders`, `SlotQuery`, `Weeks`, `Assets`, `PasswordReset`, `Catalogue` |
| `Site` | the public page, the cookie of its bookings, the tokens of the panel | `BookingWizard`, `BookingTabs`, `Panel` |
| `Staff` | the pages of the panel | `AgendaDays`, `AgendaConfig`, `AppointmentsPage`, `InternalBooking`, `ClientsPage` |
| `BookingProofs`, `SlotQueryProofs`, `SessionsProofs`, `ClientUpsertProofs`, `RemindersProofs` | theorems of one component | their module (`Server` too for its parts), TLAPS |
| `ServerProofs`, `SiteProofs`, `StaffProofs` | theorems of the other parts of each composition | the composition, TLAPS |
| `MC*` | the instances TLC explores: sets, functions and symmetry that a .cfg cannot write | |

### Booking

A worker is one HTTP request. `work[w]` holds its input (`req`), where it is
(`pc`), the row it loaded before the transaction (`cur`), the rows of its
locking query still to lock (`snap`), those it counted (`counted`) and the
history bit `stale`. `appts` is the committed table: a transaction writes once,
just before its COMMIT, so nobody can see its write earlier and
`InsertAppointment` and `UpdateInTx` are write and commit in one step. `rowLock`
is who holds the `FOR UPDATE` lock of each row.

| Action | Code |
|---|---|
| `ReadFirst`, `Load` | `findById` of accept/reject, then of changeStatus, reschedule, cancel |
| `Window` | `assertProfessionalOffersService`, `assertStartsInOpenWindow` with the whole `getPortalSlots`, outside any transaction |
| `BeginTx`, `LockRow`, `CountRows` | `assertSlotCapacity`: the snapshot of the query, its row locks one at a time, `rows.length >= maxConcurrent` |
| `InsertAppointment`, `UpdateInTx` | the write and the COMMIT |
| `UpdateStatus` | the status updates that need no check and run outside a transaction |
| `CheckSession`, `ConsumeSession`, `MarkUsed`, `IssueSession`, `ExpireSession` | the Redis record |
| `Fail` | any error or crash: ROLLBACK, what was committed stays |
| `BreakDeadlock` | PostgreSQL aborts one of a cycle of waiters |

`LockRow` follows the re-check of a locked row that PostgreSQL does in READ
COMMITTED: the newest version must still satisfy the condition, but the joined
status row is the one of the snapshot, so a row whose status changed in between
no longer counts. With status changes in play the excess over the capacity is
therefore not bounded by the requests in flight.

Left out: e-mails after the commit (no state), the entity look-ups that only
fail (`Fail` covers them), DST and time below a tick, several businesses (no
statement joins two).

### The other tables of the backend

`ClientUpsert` keeps an uncommitted row per booking (`draft`) because a unique
index makes a second writer wait for it; `Fallback` is the select in the
transaction the violation aborted. The staff may give any key to any client, and
a customer may book with one account and several e-mails. History: `overtaken`
are the bookings whose lookup another request has outdated, `moved` the accounts
whose client was given to another one. `Split` is what an edit can leave behind:
the account of a customer on one client and the e-mail on another, so that the
update of the first breaks the index of the second.

`Reminders` keeps what the customer got as history (`mails`), what was marked
without a mail because there was no address or no key of the mail service
(`skipped`), and why a reminder may be missing or doubled (`lost`, `late`,
`excused`). `Take` is the turn of a row in the loop, `Send` and `Skip` its two
ends. The clock is in hours and the job fires on each.

`Sessions` names a device by the session of its login (`root`). `held` and
`access` are the tokens clients received. A request whose answer is lost is
`Fail` at `done`. `closed` and `contested` are history: the devices the last cut
had to close, and those that two requests were renewing at once.

`PasswordReset` numbers passwords and codes in order; a session remembers the
password its sign-in verified (`of`), which is how a survivor is told, and so
does what renews it: a refresh (`Refresh`, `OpenSession`, `Rotate`) and a profile
edit with an access token (`Profile`, `Cut`, `OpenSession`), which no revocation
ends. `Forgot` inserts the code before the e-mail that may fail, `Reset` accepts
only the newest live code, and set, mark and revoke are three steps. `late` and
`excused` are history: requests past their check when the sessions were revoked,
and the sessions such a request, a failure or an excused session led to.

`Weeks` follows DELETE in READ COMMITTED: it takes the rows committed when it
starts, waits for who deletes one of them, and never sees what the other
inserted. `Keyed` lists have a primary key and `ON CONFLICT DO NOTHING`.
`Start` is migration 016 at a start of the server. `mixed` is history: lists
that two overlapping saves have written.

`Assets` has an upload as put, insert, find, unlink, link, each of which may
fail with what came before left in place; `last` and `mixed` are history.

`Catalogue` has an update as read, write, trail. `crossed` and `failed` are
history: what was written over a change that came after the read, and what was
written by a request that failed before its line in the trail.

### The browser

A click and the effects of the render it causes are one action; an answer, a
timer or a tab that reads its cookie are others. A query whose effect was
cleaned up leaves the model where the code ignores its answer (`cancelled`) and
stays where it does not.

`BookingWizard`: `live` and `stale` are the queries of slots that count and
that do not, `fading` what `AnimatePresence` keeps on the page with the values
of the render that drew it. A slot carries, as history, the query that offered
it.

`BookingTabs`: tabs run in processes of their own and `document.cookie` has no
lock, so `Cookies.get` and `Cookies.set` are two actions (`ReadCookie`,
`WriteCookie`) and whatever a tab does with the cookie is a script of them
(`task`): the answer of a sync (`SyncApplied`) starts one with an edit for each
booking, a confirmation (`Confirmed`) one that ends by forgetting what was taken
to Google, a cancellation or "Quitar" one that takes an entry out. A tab hears
no other answer while its script runs; the other tabs, the server and the staff
go on. `torn` is history: entries that another tab wrote over because they came
after its get. A confirmation is checked, committed, consumed and answered in
steps (`AcceptConfirm`, `Book`, `Consume`), and may fail before the commit
(`RefuseConfirm`) or after it (`FailAfterCommit`): `lostAsks` are the bookings
whose answer nobody waited for or that did not arrive, `failedAsks` those
answered with an error although they had been made.

`Panel`: every call goes through `sent -> 401 -> refreshing -> rotating ->
refreshed` by itself; `marks` are the causes a refusal may have.

`AgendaDays`, `AppointmentsPage` and `ClientsPage` keep what the server has next
to what the page shows, and as history why the two may differ: an answer out of
order, not heard, or asked for by an earlier render. `AgendaConfig` keeps which
blocks of hours a save removed (`gone`) and which the page had read (`seen`),
and of its list of exceptions what others changed since it was read (`others`)
and whether it had room for all (`fits`): the server counts to 100 before the
page leaves out the exceptions of professionals and those with other hours.
`ClientsPage` numbers the searches under a filter, to tell an answer that was
overtaken from one whose text was picked or emptied meanwhile (`left`).
`InternalBooking` counts the appointments each opening of the modal made.

## 3. Runs

| Run | Instance | Shows |
|---|---|---|
| `server` | clients, reminders, slots, weekly lists, assets, passwords and catalogue, 2 requests | see below |
| `booking_alone` | 1 request at a time, all operations, 2 ids, capacity 1 | the service implements `Agenda`; capacity holds; a used session has its appointment, whatever fails |
| `booking_race` | 2 requests, 2 ids, capacity 1 | the capacity is exceeded only through a stale read; the canceller is only on cancelled rows |
| `booking_live` | 2 requests that swap appointments, capacity 2 | lock waits and deadlocks resolve |
| `sessions_race` | 2 requests, 3 sessions | a device that is gone stays gone; a revoked row is final; few devices survive a cut; a token chain forks only if two requests renew it at once |
| `site` | wizard, two tabs, panel | see below |
| `staff` | calendar, configuration, appointments, modal, customers | see below |
| `booking_overbooked` | 2 bookings | finding: two bookings of a free hour both commit |
| `booking_one_shot` | 2 confirmations, one token | finding: one session, two appointments |
| `clients_first_booking` | 2 first bookings | finding: the fallback runs in an aborted transaction |
| `reminders_moved` | 1 run, 1 appointment | finding: marked for a time never announced |
| `sessions_close_all` | 2 requests, 2 sessions | finding: a refresh in flight survives logout-all |

`server`, `site` and `staff` check `Server`, `Site` and `Staff`, each a
composition of modules that share no state: an initial state picks a `part`, that
part moves by its module's `Next` and the variables of the others are 0. The
state space is the sum of those of the parts, not their product, and a property
speaks of its part only. The constants are those of the parts; what the proofs
assume of them is one named assumption of the composition, which TLC evaluates.

| Property | Part | Says |
|---|---|---|
| `OneClientPerAccount`, `BookingRefusedForCause` | clients | one client per Google account until it is given to another; a booking is refused for its client only if the table changed under it or its account and its e-mail are of two clients |
| `RemindedExactlyOnce`, `TwoChances` | reminders | mark and mail (or skipped mail) agree, once, unless moved, overlapped or torn; it takes two lost runs to leave an appointment unmarked |
| `OpenSlotPassesTheLock`, `OpenSlotKeepsTheGap`, `OfferedSlotIsInsideHours` | slots | an open slot passes the locking query and keeps prep and buffer free; every offered slot is inside opening hours |
| `OneSavePerList` | weeks | a list is what one save asked for unless two overlapped, and a start of the server never adds to it |
| `LogoIsTheLastLinked` | assets | the logo is the last one linked, missing only inside or after a failed linking, doubled only by overlapping ones and until the next |
| `OldSessionsAreExcused` | passwords | a session outlives its password only if it is about to be revoked, was inserted past a check that the revocation overtook or with an access token from before, was left by a failure, or renews one of these |
| `TrailTellsTheChange` | catalogue | what a record says is in the trail, and what it was before is what was overwritten |
| `GridIsForTheChoice`, `ConfirmWasOffered` | wizard | times on the screen, and the one taken to Google, are of the service, professional and day chosen |
| `LiveBookingKept`, `BookedOncePerAsk` | tabs | a live booking leaves the cookie only if a tab writes back what it had read before; one ask books twice only if its answer was not heard, or was an error after the commit |
| `RefusedForCause`, `LogoutEndsTheSignIn` | panel | a refused refresh has a cause among the marks; a logout that no refresh crossed leaves nothing alive |
| `PageIsTruthful` | days | with nothing in flight list and marks are the server's, but for named causes |
| `UntouchedDaysAreKept`, `ClosedDaysAreShown` | config | a save removes from an unedited day only what the form could not hold; a day shown as closed is closed for the business, and all are shown if the last list had room for every exception, but for what others changed since, in whatever order additions and deletions are answered |
| `ListIsThePageAsked` | appointments | filters, page and rows agree, but for three named causes |
| `TimeIsOfTheChoice`, `OneBookingPerDraft` | booking | the time sent is of the choice sent; one opening books once unless an answer was lost |
| `ShowsWhatWasAsked` | clients page | list, suggestions and history are of what was asked, but for late answers and for suggestions on their way when their text was picked or emptied |

Bounds. Every race found needs two requests and one or two rows, and with
capacity 1 the second occupant is already a violation, so two workers and two
ids put each pair of steps side by side; two days let an appointment reach
across midnight. Three sessions hold a login and two rotations of it, or a
rotation and a second device. Three hours of the job are the two chances of one
appointment and the hour after. Three saves of a list are two that overlap and
one that follows; three files are two that overlap and one that cleans up; two
codes are an older and a newer one; three passwords are the first, one set by a
reset and one by a change that raced it. In the browser one query in flight
besides the live one is a late answer, two tabs are who reads and who writes in
between, two calls are the parallel 401s (calls of two tabs differ only in who
hears them, so the panel has one tab), and two or three acts are a choice, a
second one and what was shown before. A list brings one exception (`PageSize`)
of the two there may be (`MaxMade`), so it brings all of them or leaves one out,
of the business or of a professional, made here or by others. `CookieSure` is 1:
with two bookings the browser may or may not have room. One tab takes bookings
to Google and cancels (`Bookers`, `Cancellers`), the other one reads, syncs and
writes; a sync, a confirmation or a cancellation and a script that runs share
two places (`MaxRequests`), which is a get of one tab between get and set of the
other; two sign-ins at Google (`MaxTokens`) are the second confirmation of one
ask. Two e-mails and two accounts over three clients are a customer split
between two and a third row; the first account books with either e-mail. Ids,
sessions and clients are never reused, as UUIDs are not, so their number bounds
the insertions. `MaxNow` bounds the clock of `Reminders`; its window keeps the
width of two hours and only lies nearer. `IdLeft` stops bookings that would find
no id: the real table has no such limit. Symmetry is used for requests, calls,
workers and ids, which no action tells apart, and not in the liveness run. Where
deadlock is not checked the system may stop: everything has been asked that the
bounds allow.

Fairness (`booking_live` only). `SF(Step(w))`: Node always resumes a request
whose statement returned, and PostgreSQL queues waiters for a row lock in
arrival order, so a waiter whose lock becomes free again and again gets it. WF
on `BreakDeadlock`: the deadlock detector runs after `deadlock_timeout`. No
fairness for arrivals or failures. The pages have no liveness property: an
answer that never comes leaves them as they are, and the code sets no timeout.

## 4. Proofs

Every invariant and action property of a passing run is stated by a theorem, as
are the refinement of `Agenda` and the types. A theorem about a part of a
composition has two conjuncts: the property always holds of the component's own
`Spec`, and the one the run checks always holds of the composition. Both come
from one inductive invariant of the component. A lemma `...Moves` says that a
step of the composition, while this part is in play, is a step of the component
or a stutter, so that `part = ... => Inv` is inductive in the composition
because `Inv` is in the component.

`BookingProofs` (every number of workers, ids, professionals, services and
tokens, every capacity, catalogue and opening hours, from `SlotsAssumption` and
`BookingAssumption`):

- `TypeCorrect`: `Spec => []TypeOK`. `TypeInv` adds `PhaseOK`: a request in
  `load`, `read` or `update` names an appointment and one in `session`,
  `consume` or `mark` is a confirmPortal. Without it the row an action reads
  could be outside the table.
- `SerialCorrect`: `Spec => []SerialCapacity`. The capacity alone is not
  invariant. `serial` is a history variable that turns false when an occupying
  write commits from a worker whose check another commit overlapped. While it is
  true, `SeatInv` carries what a trusted worker knows: each row it still has to
  lock is the row of its snapshot, what it counted is what matches now, and a
  status change still knows the row it loaded. Then its write adds one to a
  count below the capacity (`CheckCovers`: every occupant of an instant of the
  interval is matched by the locking query), and every other write leaves or
  shrinks the counts (`CommitStep`).
- `AttributionCorrect`, `UsedSessionCorrect`: `AttributionOnlyOnCancelled` and
  `UsedSessionHasBooking` in every state. They share `LedgerInv`, about what a
  request past its commit knows (`SessionHasRow`: a confirmation that is about
  to mark its session has its appointment in the table, and so has a session
  that is used) and about locks (`LocksRows`: who holds a lock is in its
  transaction, and the lock is of a stored row). Only inserts make a row, and
  none removes one, so what a session needs stays.
- `AloneCorrect`: with one worker `CapacityRespected` itself. `AloneInv` adds to
  `SeatInv` that nothing was overtaken and that the row a request loaded is the
  row of the table (`Undisturbed`): no commit comes between the reads of a
  request and its write when there is no other request. What breaks the capacity
  in `booking_overbooked` is interleaving alone, whatever fails.
- `SerialStepsAreAtomic`, for any number of workers: a step after which every
  occupying write so far relied on reads nobody overtook is a step of `Agenda`
  or leaves it alone, with one exception. A request that loaded an appointment
  live may find it cancelled by the time of its UPDATE and moves it all the same
  (`MovesCancelled`): the UPDATE of reschedule names only the id. TLC reaches
  that step with two requests, so the exception is needed. A cancelled
  appointment takes no place, so the capacity does not suffer.
- `AloneImplementsAgenda`: with one worker `Spec => ImplementsAgenda`. Its steps
  are those of `SerialStepsAreAtomic`, and the exception cannot happen: the row
  a request loaded is the row it writes.

`SlotQueryProofs` (every agenda, schedule, exception, service, question, step,
length of the day and capacity, from `SlotQueryAssumption`: agendas are finite,
times of schedules and exceptions lie within a day, minutes are not negative).
The invariant `Answered` only says that the answer is the engine's for the
question; the rest is about its operators:

- `OpenMeansAccepted`: always `OpenSlotPassesTheLock`. A slot lies in a window
  and a window in its day (`SlotInDay`), so a row the locking query matches
  touches the day and was counted (`LockedAreBooked`); prep and buffer only widen
  what the engine counts.
- `OpenMeansApart`: always `OpenSlotKeepsTheGap`, from the arithmetic of
  `Overlaps` and `Expand`.
- `OfferedMeansOpen`: always `OfferedSlotIsInsideHours`. A window comes from
  one row of the schedule or one open exception (`WindowSource`), and an instant
  of a day has one date and one time (`DayAndTime`).

`SessionsProofs` (every finite number of requests in flight, every set of
sessions, from `SessionsAssumption`) rests on `Known`: types, every sid in use
is a row of the table, and each request in flight names the row or device it
came with (`AlwaysKnown`). Rows are only added, keep their root and never
return from revoked, which each action shows once and the theorems share:

- `SessionsTypeCorrect`: `Spec => []TypeOK`.
- `RevocationFinal`: `Spec => RevocationIsFinal`.
- `DevicesStayGone`: `Spec => NoDeviceComesBack`. `Gone` is preserved because a
  session is inserted only by a login, under a new root, or by a request that
  was already renewing the device, which `Gone` excludes.
- `FewSurvivors`: `Spec => []SurvivorsBounded`. The live devices among the
  closed ones alone are not inductive: they can grow when a refresh in flight
  inserts. `FewInv` counts those too: a device that is closed and live, or that
  some request past its check will insert for. No step but a cut adds to that
  set, and after a cut nothing is live, so it has at most one device for each
  request but the one that cut.
- `OneUsableToken`: `Spec => []OneHeldPerDevice`. A rotation leaves two live rows
  for a while, the old and the one its answer will carry, so the usable tokens
  alone are not inductive. `SingleInv` says of a device no two requests renewed
  at once that one request at most can bring it a token (`Claims`: past its
  check, or with the token in its answer), and that meanwhile nothing is usable
  but the token that request replaces.

`ClientUpsertProofs` (any number of requests, clients and accounts and any edits
of the staff, from `ClientUpsertAssumption`):

- `OneClient`: always `OneClientPerAccount`. Two rows of one account would
  come from writes that are not committed yet, which the property does not see.
  `ClientInv` says of each that no other row and no other uncommitted write has
  its client, account or e-mail (`DraftOK`, `DraftsApart`: what the unique
  indexes and the waiting for them give), so a booking takes a client from another
  account only where it is found by its e-mail, and marks that account as moved,
  as an edit of the staff does (`LosesClient`).
- `RefusedForCauseOnly`: always `BookingRefusedForCause`. `FreshInv` adds the
  unique indexes as an invariant of the committed table (`Unique`) and that the
  table still answers the lookup of a booking nobody overtook as it did
  (`Fresh`): the client it found is the only one with a key of its customer
  unless the two keys are split (`FoundFits`), so its write cannot clash.

`RemindersProofs` (any appointments, overlapping runs, start times and window,
from `RemindersAssumption`) rests on `RemindInv`:

- `OneReminder`: always `RemindedExactlyOnce`. `Exact` adds that an appointment
  without an excuse is held by one run at most, with its present time, and is
  not in a batch once its reminder is sent, skipped or marked. A select that
  takes a row another run holds excuses it, and so does a move.
- `TwoFailures`: always `TwoChances`, for windows of two hours or more
  (`WindowFrom + 2 <= WindowTo`; the code has 23 and 25). `Counted` keeps the
  account: an appointment has lost two chances, or as many as the hours of its
  window that are over, where being in a batch pays for one. An hour whose run
  is due is not over yet.

`ServerProofs` (from `ServerAssumption`):

- `SavesAreWhole`: always `OneSavePerList`, for any lists, items and savers and
  any number of saves. `WeeksInv` adds what a save that nobody overlapped is
  about to leave: it deletes every row its list has, and what it inserted with
  what it still has to insert is what it was asked to store (`PlanOK`). A commit
  of another list touches no row of this one, and a second save of this one marks
  it as mixed when it begins (`AloneOK`).
- `LogoIsLast`: always `LogoIsTheLastLinked`, for any requests, files and kinds
  with a logo among the exclusive ones. `LogoInv` adds that a request between its
  unlinking and its linking is alone there, with no logo linked and none since
  the unlinking, unless two overlapped (`LinkedOK`), and that it found its row
  (`LinkRowsOK`). That a business with linked logos shows one of them is a lemma
  about `Max`, from the well-foundedness of the natural numbers.
- `OldSessionsExcused`: always `OldSessionsAreExcused`, for any requests, codes,
  passwords and sessions. The property says nothing of a request that has passed
  its check and has no session yet. `StaleIsExcused` does: if it goes back to a
  password that is gone, a revocation overtook it (`late`), it renews an excused
  session, or a revocation is still to come. A password is set only by a request
  that is then closing; that one stays so until it revokes every session, and
  marks as late who is past a check, or fails, and excuses every session too.
- `TrailIsTold`: always `TrailTellsTheChange`, for any requests, records and
  changes. The property alone says nothing of a value that was written and not
  told yet, and the next update overwrites just that one. `TrailInv` gives each
  value an account (`Accounted`): it is in the trail, in the hands of a request
  that is about to write it there, or among those a failed request left. The old
  value that an update read is the one its own write replaced, unless another
  change came in between (`crossed`).
- `EveryPartIsTyped`: always `TypesOK`. Types lean on more than shape: that a
  code in use was issued (`CodesOK`), that a link is of a stored row (`FilesInv`),
  that a list names what was inserted (`RecordsOK`).

`SiteProofs` (from `SiteAssumption`: `None` is neither a service, a professional
nor a session, and days are numbers from today on):

- `GridTruthful`, `ConfirmOffered`: always `GridIsForTheChoice` and
  `ConfirmWasOffered`, for any catalogs. `WizardInv` says that the one query
  whose answer counts is the one of the screen, and that the page searches
  exactly while there is one (`LiveOK`); so an answer that is taken fills the
  times of the screen (`SlotsOK`) and a time chosen is one of these (`ChoiceOK`).
  A button that fades out acts with the values of the render that drew it
  (`Offered`), and what it can still change leaves the overlay closed or the page
  back at the professional (`FadingOK`).
- `LiveKept`, `BookedOnce`: always `LiveBookingKept` and `BookedOncePerAsk`, for
  any tabs, bookings and sessions, with no assumption. `TabsInv` says that what
  reads as cancelled, or is to be taken out, is of a cancelled appointment,
  wherever it is kept: the cookie, a list, an answer, what a script has read and
  what it has still to write (`EntriesOK`, `AnswersOK`); so a write can only drop
  a live entry it had not read. For the second: what a click saved is in one tab
  (`SavedOK`), that tab waits for one confirmation (`WaitOK`) and for none while
  its script is about to forget what it saved (`ForgetOK`), and who has booked
  waits for that very answer, has it and is about to forget, or has forgotten
  (`BookedOK`, `Settled`).
- `RefusalsHaveCause`, `LogoutEnds`: always `RefusedForCause` and
  `LogoutEndsTheSignIn`, for any calls and sessions. As long as nothing has gone
  wrong (`marks`), what a call presents is live, and so is what the cookie holds
  unless a call has it (`HeldOK`); a session is presented by one call at a time
  (`OnceOK`), and a new one is in nobody else's hands (`NewOK`). Of one sign-in
  one session is in hand, or the two that one call is about to exchange
  (`TipOK`), so the session a logout revokes is the last of its sign-in, and
  nothing of it can come back (`GoneOK`).
- `EveryPageIsTyped`: always `TypesOK`.

`StaffProofs` (from `StaffAssumption`: the days of the agenda are consecutive,
the hour a new day starts with is one of the hours, and what the names say):

- `DaysTruthful`: always `PageIsTruthful`, for any days, appointments and
  requests. With an answer on its way the page need not show the range it asked
  for, so `DaysInv` says that the list is that of some range, and of the one
  asked for once nothing is in flight, but for the change that was made and not
  told (`ListOK`); and the same of the marks of each day (`MarksOK`).
- `UntouchedKept`: always `UntouchedDaysAreKept`, for any week and hours. The
  draft of a day nobody edited is one of the blocks that were read
  (`DraftIsRead`), and so is what a save carries for it (`SentIsRead`).
- `ClosedShown`: always `ClosedDaysAreShown`, for any page size and number of
  exceptions. The page shows what is closed, or was deleted and not answered
  for, or was opened by others; a list that had room for every exception brings
  all the closed days, and so does the page but for what others closed since it
  was read (`PageShowsOK`, `ListBrings`). A row that was deleted does not come
  back, ids being fresh (`ExceptionsOK`).
- `ListTruthful`: always `ListIsThePageAsked`, for any finite set of
  appointments. A request that was not overtaken is for the page and the filter
  of the screen, and was answered with what the server has unless a change is
  still to be told (`LastOK`); once it is answered the list is its answer
  (`ShownOK`).
- `TimeOfTheChoice`, `OnePerDraft`: always `TimeIsOfTheChoice` and
  `OneBookingPerDraft`, for any catalogs and openings. The query that counts is
  that of the open form (`QueryOK`) and times that can be chosen answer it
  (`TimesOK`). An opening that may still book has not booked, or lost an answer
  (`BookedOK`). Customers made are at most bookings, failures and the attempt
  that runs (`CustomersOK`); it needs that one more booking of an opening adds
  one to the sum over all of them, a recursive function over any number of
  openings (`SumsDiffer`, `TotalGrows`: the first opening at which two sums
  differ otherwise would have an earlier one).
- `ShownIsAsked`: always `ShowsWhatWasAsked`, for any texts and customers. A
  request that was not overtaken is for the filters of now (`LastAskedOK`), the
  last search is for the text unless that was left without another
  (`SearchedOK`), and while no key is pending the filters are what was typed
  (`SuggestedOK`).
- `EveryScreenIsTyped`: always `TypesOK`.

TLC evaluates `ServerAssumption`, `SiteAssumption` and `StaffAssumption`, and
those of `Booking` and `Sessions`, on the constants of the runs. The window of
the reminders is two hours wide there too. Every inductive invariant was checked
by TLC on the instance of its run before it was proved.

Only model-checked: that lock waits and deadlocks resolve
(`EveryRequestAnswered`), since liveness under fairness is out of the prover's
reach, and the five findings, which are counterexamples. With two requests the
capacity is not an invariant, so `CapacityRespected` and `ImplementsAgenda` are
theorems for one, and `SerialCapacity` and `SerialStepsAreAtomic` say what
remains with more.

## 5. Findings

1. `FOR UPDATE` locks rows that exist. Two bookings of a free hour find none
   and both commit (`AQ:232`).
2. A booking session is consumed after the commit, by check-then-set (`AS:557`).
3. The fallback of `upsertClient` cannot run: its transaction is aborted by the
   violation it catches (`AS:758`). The customer gets an error, nothing is lost.
4. An appointment moved while the reminder job has it is marked for its new
   time without an e-mail (`AS:610`).
5. A refresh past its check when all sessions are closed brings its device back
   (`auth/auth.service.ts:439`).

`docs/features.md` lists the prevention of double bookings as still open.

Met while modelling and without a run of their own, because the properties name
them as causes: two overlapping saves of a weekly list leave the union of both
(`mixed` in `Weeks`); a customer whose e-mail the staff gave to another client
cannot book any more (`Split` in `ClientUpsert`); a reminder skipped for want of
an address or a key is marked as sent (`skipped`), and an appointment cancelled
while the job has it is reminded all the same (`RemindedExactlyOnce` holds
whatever the status is by then); two tabs that write the cookie at once lose a
booking (`torn`); a form of the agenda that opens after a failed load, or on a
day with several blocks, saves less than there was (`UntouchedDaysAreKept`); two
calls of the panel that refresh at once close every session of the user (`raced`
in `Panel`); the agenda shows the closed days among the first 100 exceptions of
any kind, and a deletion asks for no new list, so a day that did not fit the
last one stays off the page until the next (`fits`); suggestions on their way
when one is picked, or the text emptied, open again (`left`); list requests of
the staff pages are never cancelled, so an older answer may be the one shown
(`stale`, `excused`, `late`); a reload of the callback page, or an error of
Redis after the commit, confirms a booking twice (`lostAsks`, `failedAsks`).

## 6. Not modelled

- Users and staff, permissions: one transaction that creates a user, a lookup
  behind a cache of a minute; nothing changes the roles of a user later.
- System branding and the style page: one row, last write wins.
- The dashboard, the sidebar, the staff-users page and the layouts: one read or
  one form each; the QR poster and the form of the business page likewise.
- Links of assets to the system, professionals and services: one upsert each.
- Wording of mails, DTO validation, formatting, DST.
- The migration runner but for the one file that moves data.

## 7. Plan

1. Abstract specifications: a session store in which a cut is atomic, refined
   by `Sessions` one request at a time; an agenda of reminders.
2. `Panel` over `Sessions` itself, in place of the server of its own it has now.

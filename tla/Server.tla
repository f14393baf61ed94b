------------------------------- MODULE Server -------------------------------
(***************************************************************************)
(* The parts of the API that share no rows with each other, as one         *)
(* specification: each initial state picks a part, and only that part      *)
(* moves. A customer row and its Google account, the reminder job, the     *)
(* slots a day offers, the lists a save replaces, the files of a business, *)
(* the codes that reset a password, and the records of the panel's         *)
(* catalogue. A constant with the name of a part's constant is that        *)
(* constant.                                                               *)
(***************************************************************************)
EXTENDS Integers, FiniteSets

CONSTANTS
    \* customers; Asks are the requests there may be
    Cids, NoCid, Emails, NoEmail, Subs, NoSub, Workers, Asks,
    \* reminders
    Ids, Runs, WindowFrom, WindowTo, Starts, MaxNow,
    \* slots
    SlotStep, DayLength, DefaultDuration, NoPro, Professionals, Capacity, RowSets,
    HourSets, Queries,
    \* lists
    Owners, Keyed, Business, Professional, Items, Savers, MaxSaves,
    \* files
    Kinds, Exclusive, None, MaxAssets, MaxLinks,
    \* passwords and records
    Requests, Nobody, MaxCodes, MaxPasswords, MaxSessions, MaxRecords, MaxChanges

VARIABLES
    part, clients, draft, work, booked, overtaken, moved, now, due, appts, runs,
    mails, skipped, lost, late, excused, rows, hours, query, offered, tx, saves,
    asked, mixed, objects, assets, links, req, used, shown, last, password, codes,
    inbox, open, access, form, opened, trail, page, made, changes, crossed, failed

-----------------------------------------------------------------------------

Clients == INSTANCE ClientUpsert WITH Requests <- Asks

Job == INSTANCE Reminders

Query == INSTANCE SlotQuery

Lists == INSTANCE Weeks

Files == INSTANCE Assets

Reset == INSTANCE PasswordReset

Records == INSTANCE Catalogue

\* What the parts assume of their constants.
ASSUME ServerAssumption ==
    /\ Clients!ClientUpsertAssumption
    /\ Job!RemindersAssumption
    /\ SlotStep \in Nat \ {0} /\ DayLength \in Nat \ {0} /\ DefaultDuration \in Nat \ {0}
    /\ Query!SlotQueryAssumption
    /\ Lists!WeeksAssumption /\ Files!AssetsAssumption
    /\ Reset!PasswordResetAssumption /\ Records!CatalogueAssumption

NotClients ==
    <<now, due, appts, runs, mails, skipped, lost, late, excused, rows, hours,
      query, offered, tx, saves, asked, mixed, objects, assets, links, req, used,
      shown, last, password, codes, inbox, open, access, form, opened, trail, page,
      made, changes, crossed, failed>>

NotJob ==
    <<clients, draft, work, booked, overtaken, moved, rows, hours, query, offered,
      tx, saves, asked, mixed, objects, assets, links, req, used, shown, last,
      password, codes, inbox, open, access, form, opened, trail, page, made,
      changes, crossed, failed>>

NotQuery ==
    <<clients, draft, work, booked, overtaken, moved, now, due, appts, runs, mails,
      skipped, lost, late, excused, tx, saves, asked, mixed, objects, assets, links,
      req, used, shown, last, password, codes, inbox, open, access, form, opened,
      trail, page, made, changes, crossed, failed>>

NotLists ==
    <<clients, draft, work, booked, overtaken, moved, now, due, appts, runs, mails,
      skipped, lost, late, excused, hours, query, offered, objects, assets, links,
      req, used, shown, last, password, codes, inbox, open, access, form, opened,
      trail, page, made, changes, crossed, failed>>

NotFiles ==
    <<clients, draft, work, booked, overtaken, moved, now, due, appts, runs, mails,
      skipped, lost, late, excused, rows, hours, query, offered, tx, saves, asked,
      password, codes, inbox, open, access, form, opened, trail, page, made,
      changes, crossed, failed>>

NotReset ==
    <<clients, draft, work, booked, overtaken, moved, now, due, appts, runs, mails,
      skipped, lost, rows, hours, query, offered, tx, saves, asked, mixed, objects,
      assets, links, used, shown, last, trail, page, made, changes, crossed, failed>>

NotRecords ==
    <<clients, draft, work, booked, overtaken, moved, now, due, appts, runs, mails,
      skipped, lost, late, excused, hours, query, offered, tx, saves, asked, mixed,
      objects, assets, links, used, shown, last, password, codes, inbox, open,
      access, form, opened>>

ServerVars ==
    <<part, clients, draft, work, booked, overtaken, moved, now, due, appts, runs,
      mails, skipped, lost, late, excused, rows, hours, query, offered, tx, saves,
      asked, mixed, objects, assets, links, req, used, shown, last, password, codes,
      inbox, open, access, form, opened, trail, page, made, changes, crossed, failed>>

\* The variables of the parts that are not in play have no value of theirs.
ServerInit ==
    \/ /\ part = "clients" /\ Clients!Init
       /\ now = 0 /\ due = 0 /\ appts = 0 /\ runs = 0 /\ mails = 0 /\ skipped = 0
       /\ lost = 0 /\ late = 0 /\ excused = 0 /\ rows = 0 /\ hours = 0 /\ query = 0
       /\ offered = 0 /\ tx = 0 /\ saves = 0 /\ asked = 0 /\ mixed = 0 /\ objects = 0
       /\ assets = 0 /\ links = 0 /\ req = 0 /\ used = 0 /\ shown = 0 /\ last = 0
       /\ password = 0 /\ codes = 0 /\ inbox = 0 /\ open = 0 /\ access = 0
       /\ form = 0 /\ opened = 0 /\ trail = 0 /\ page = 0 /\ made = 0 /\ changes = 0
       /\ crossed = 0 /\ failed = 0
    \/ /\ part = "reminders" /\ Job!Init
       /\ clients = 0 /\ draft = 0 /\ work = 0 /\ booked = 0 /\ overtaken = 0
       /\ moved = 0 /\ rows = 0 /\ hours = 0 /\ query = 0 /\ offered = 0 /\ tx = 0
       /\ saves = 0 /\ asked = 0 /\ mixed = 0 /\ objects = 0 /\ assets = 0
       /\ links = 0 /\ req = 0 /\ used = 0 /\ shown = 0 /\ last = 0 /\ password = 0
       /\ codes = 0 /\ inbox = 0 /\ open = 0 /\ access = 0 /\ form = 0 /\ opened = 0
       /\ trail = 0 /\ page = 0 /\ made = 0 /\ changes = 0 /\ crossed = 0
       /\ failed = 0
    \/ /\ part = "slots" /\ Query!Init
       /\ clients = 0 /\ draft = 0 /\ work = 0 /\ booked = 0 /\ overtaken = 0
       /\ moved = 0 /\ now = 0 /\ due = 0 /\ appts = 0 /\ runs = 0 /\ mails = 0
       /\ skipped = 0 /\ lost = 0 /\ late = 0 /\ excused = 0 /\ tx = 0 /\ saves = 0
       /\ asked = 0 /\ mixed = 0 /\ objects = 0 /\ assets = 0 /\ links = 0 /\ req = 0
       /\ used = 0 /\ shown = 0 /\ last = 0 /\ password = 0 /\ codes = 0 /\ inbox = 0
       /\ open = 0 /\ access = 0 /\ form = 0 /\ opened = 0 /\ trail = 0 /\ page = 0
       /\ made = 0 /\ changes = 0 /\ crossed = 0 /\ failed = 0
    \/ /\ part = "weeks" /\ Lists!Init
       /\ clients = 0 /\ draft = 0 /\ work = 0 /\ booked = 0 /\ overtaken = 0
       /\ moved = 0 /\ now = 0 /\ due = 0 /\ appts = 0 /\ runs = 0 /\ mails = 0
       /\ skipped = 0 /\ lost = 0 /\ late = 0 /\ excused = 0 /\ hours = 0
       /\ query = 0 /\ offered = 0 /\ objects = 0 /\ assets = 0 /\ links = 0
       /\ req = 0 /\ used = 0 /\ shown = 0 /\ last = 0 /\ password = 0 /\ codes = 0
       /\ inbox = 0 /\ open = 0 /\ access = 0 /\ form = 0 /\ opened = 0 /\ trail = 0
       /\ page = 0 /\ made = 0 /\ changes = 0 /\ crossed = 0 /\ failed = 0
    \/ /\ part = "assets" /\ Files!Init
       /\ clients = 0 /\ draft = 0 /\ work = 0 /\ booked = 0 /\ overtaken = 0
       /\ moved = 0 /\ now = 0 /\ due = 0 /\ appts = 0 /\ runs = 0 /\ mails = 0
       /\ skipped = 0 /\ lost = 0 /\ late = 0 /\ excused = 0 /\ rows = 0 /\ hours = 0
       /\ query = 0 /\ offered = 0 /\ tx = 0 /\ saves = 0 /\ asked = 0
       /\ password = 0 /\ codes = 0 /\ inbox = 0 /\ open = 0 /\ access = 0
       /\ form = 0 /\ opened = 0 /\ trail = 0 /\ page = 0 /\ made = 0 /\ changes = 0
       /\ crossed = 0 /\ failed = 0
    \/ /\ part = "passwords" /\ Reset!Init
       /\ clients = 0 /\ draft = 0 /\ work = 0 /\ booked = 0 /\ overtaken = 0
       /\ moved = 0 /\ now = 0 /\ due = 0 /\ appts = 0 /\ runs = 0 /\ mails = 0
       /\ skipped = 0 /\ lost = 0 /\ rows = 0 /\ hours = 0 /\ query = 0
       /\ offered = 0 /\ tx = 0 /\ saves = 0 /\ asked = 0 /\ mixed = 0 /\ objects = 0
       /\ assets = 0 /\ links = 0 /\ used = 0 /\ shown = 0 /\ last = 0 /\ trail = 0
       /\ page = 0 /\ made = 0 /\ changes = 0 /\ crossed = 0 /\ failed = 0
    \/ /\ part = "catalogue" /\ Records!Init
       /\ clients = 0 /\ draft = 0 /\ work = 0 /\ booked = 0 /\ overtaken = 0
       /\ moved = 0 /\ now = 0 /\ due = 0 /\ appts = 0 /\ runs = 0 /\ mails = 0
       /\ skipped = 0 /\ lost = 0 /\ late = 0 /\ excused = 0 /\ hours = 0
       /\ query = 0 /\ offered = 0 /\ tx = 0 /\ saves = 0 /\ asked = 0 /\ mixed = 0
       /\ objects = 0 /\ assets = 0 /\ links = 0 /\ used = 0 /\ shown = 0 /\ last = 0
       /\ password = 0 /\ codes = 0 /\ inbox = 0 /\ open = 0 /\ access = 0
       /\ form = 0 /\ opened = 0

ClientsStep == part = "clients" /\ Clients!Next /\ UNCHANGED <<part, NotClients>>

JobStep == part = "reminders" /\ Job!Next /\ UNCHANGED <<part, NotJob>>

QueryStep == part = "slots" /\ Query!Next /\ UNCHANGED <<part, NotQuery>>

ListsStep == part = "weeks" /\ Lists!Next /\ UNCHANGED <<part, NotLists>>

FilesStep == part = "assets" /\ Files!Next /\ UNCHANGED <<part, NotFiles>>

ResetStep == part = "passwords" /\ Reset!Next /\ UNCHANGED <<part, NotReset>>

RecordsStep == part = "catalogue" /\ Records!Next /\ UNCHANGED <<part, NotRecords>>

ServerNext ==
    \/ ClientsStep
    \/ JobStep
    \/ QueryStep
    \/ ListsStep
    \/ FilesStep
    \/ ResetStep
    \/ RecordsStep

ServerSpec == ServerInit /\ [][ServerNext]_ServerVars

-----------------------------------------------------------------------------
(* Properties *)

\* Type correctness of every part.
TypesOK ==
    /\ part = "clients" => Clients!TypeOK
    /\ part = "reminders" => Job!TypeOK
    /\ part = "slots" => Query!TypeOK
    /\ part = "weeks" => Lists!TypeOK
    /\ part = "assets" => Files!TypeOK
    /\ part = "passwords" => Reset!TypeOK
    /\ part = "catalogue" => Records!TypeOK

\* All the appointments of one Google account belong to one client, until that
\* client is given to another account (clients.service.ts,
\* appointments.service.ts:709-774).
OneClientPerAccount == part = "clients" => Clients!OneClientPerAccount

\* A booking is refused because of its client only if another request changed the
\* table between its lookup and its write, or if its account and its e-mail are of
\* two clients (appointments.service.ts:709-774).
BookingRefusedForCause == part = "clients" => Clients!BookingRefusedForCause

\* One reminder of the present time sent or skipped, exactly when the row says
\* so, unless it was moved while a run had it or a mark was lost
\* (appointments.service.ts:601-620).
RemindedExactlyOnce == part = "reminders" => Job!RemindedExactlyOnce

\* An appointment confirmed in time is left unmarked only if two runs were lost
\* for it (appointments-reminder.job.ts).
TwoChances == part = "reminders" => Job!TwoChances

\* Every slot offered as open is one that the insert under the lock accepts
\* (appointments.service.ts).
OpenSlotPassesTheLock == part = "slots" => Query!OpenSlotPassesTheLock

\* With capacity 1 an open slot leaves preparation and buffer free around every
\* counted appointment of its day.
OpenSlotKeepsTheGap == part = "slots" => Query!OpenSlotKeepsTheGap

\* Every tick of an offered slot is inside the hours of that day, exceptions
\* included.
OfferedSlotIsInsideHours == part = "slots" => Query!OfferedSlotIsInsideHours

\* A list is what one save asked for, unless two of them overlapped
\* (professionals.service.ts:196-236, BD/migration/016).
OneSavePerList == part = "weeks" => Lists!OneSavePerList

\* The logo of a business is the one linked last, unless two linkings
\* overlapped (assets.service.ts:194-210).
LogoIsTheLastLinked == part = "assets" => Files!LogoIsTheLastLinked

\* A session of an older password is open only if a statement failed, it was
\* being issued when the sessions were revoked or with an access token from
\* before, or it renews such a session (auth.service.ts:219-268, 439).
OldSessionsAreExcused == part = "passwords" => Reset!OldSessionsAreExcused

\* The trail tells what a record says and what it said before
\* (services.service.ts:109-146).
TrailTellsTheChange == part = "catalogue" => Records!TrailTellsTheChange

=============================================================================

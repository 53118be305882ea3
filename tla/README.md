# GuestFlow guest book: specifications and proofs

TLA+ models of the parts of the guest book server where requests meet:
contacts, events, invitations, RSVP, seating, check-in, messages, accounts,
team and billing. TLC checks them on small instances, TLAPS proves their
invariants, action properties and refinements for every instance. `PROJECT.json` lists components,
runs, mutants, the map from definitions to source lines, findings, hazards and
theorems.

## 1. The system

A Go server (`cmd/server`, echo + sqlx on PostgreSQL, Redis) for event guest
lists. A handler parses a request, calls a service, and the service calls
repositories. Few services open a transaction: a request is a sequence of SQL
statements, each atomic, and every other request may run between two of them.
Only unique indexes, foreign keys and CHECK constraints hold across requests. A
request can stop between two statements (client gone, context cancelled,
database error, process stopped). This is what the models are about.

| Component | State | Operations | Hard part | What makes it correct |
|---|---|---|---|---|
| Contacts (`guest_*`, `import_service`) | `guests` | Create, Update, SoftDelete, ImportCSV, walk-in | duplicate lookups before the write, their errors ignored, none for a walk-in | a number or address belongs to one contact |
| Events (`event_*`) | `events` | Create, Update, Publish, SoftDelete | checks on a row that is stale when written | a closed event stays as it is; dates in order |
| Event roster (`event_guest_*`) | `event_guests` | Create, ImportCSV, Cancel | read-then-insert, an import that stops midway | one row per guest; who is invited has a row; a repeated import completes |
| Invitations (`invitation_*`) | `invitations` | Create, GenerateBatch, ValidateToken, Revoke, SoftDelete | existence check before INSERT, read before revoke | one live invitation per guest; a deleted one is dead |
| RSVP (`rsvp_*`) | `rsvp_responses` (+ invitation status) | Submit, UpsertByOfficer, UpdateByOfficer | capacity and quota read before the write, two tables written in turn, a revocation under way | capacity, quota, both tables agree, a revoked invitation takes no new answer |
| Seating (`seating_*`) | `venue_zones`, `tables`, `seat_assignments` | zones, tables, AssignGuest, RemoveAssignment, AutoAssign | occupancy counted before INSERT, stale rows | no table overfull, nobody left standing beside a free seat |
| Check-in (`checkin_*`, `invitation_site_handler`) | `checkins` | QR scan, manual search, self check-in, walk-in | duplicate check before INSERT, late use of a token | a guest is known, within the quota, not admitted over and over |
| Messaging (`communication_*`, GOWA webhook) | messages, campaigns | send, retry, reminders, campaigns, receipts | double sends, provider failures, receipts late or out of order | handed over once, at most one reminder a day, one campaign message per guest |
| Authentication (`auth*`) | users, one-time links, refresh tokens | register, login, verify, reset, magic link, refresh, change password | concurrent use of one credential, password change against login | a credential is used once; old sessions end |
| Team and permissions (`tenant_*`, `event_member_*`, `rbac`) | `tenant_users`, `event_members`, permission cache | AddUser, RemoveUser, UpdateUserRole, event staff, cache fill, expiry, invalidation | a slow fill after an invalidation, quota before INSERT | only the owner manages; a stale role does not stay |
| Billing (`billing_*`, `payment`, `worker/cron.go`) | `payments`, `subscriptions`, `tenants.status` | Checkout, webhook, billing page, cron | repeated, overlapping and late notifications, failure between writes, stale tenant row | paid orders are served, only paid ones, few active subscriptions |
| Worker (`cmd/worker`) | Redis lists | pop and process a job | - | nothing enqueues a job and the job bodies only log |
| Households, tags, gifts, WhatsApp settings, dashboards, GitHub relay, audit, mail | rows and settings | CRUD, lookups, rendering | - | see `PROJECT.json` |

Interactions: an invitation needs a roster row; an RSVP and a scan start from
an invitation's token; an RSVP writes back the invitation's status; seating and
messages read roster and contacts; the dashboards sum RSVP and check-in rows;
every organiser's request passes the permission cache; adding a member writes
the account's whole row, and the webhook, the pages and the cron all write the
tenant's status.

## 2. Modules

| Module | Models |
|---|---|
| `InvitationTable` | The two tables `event_guests` and `invitations` of one event and the SQL statements that change them, each one action. It is the abstract specification (`TableSpec`) of the organiser's handlers and the environment of RSVP and check-in. |
| `Invitations` | The organiser's handlers, statement by statement (`req[p]` is what handler `p` carries along). Implements `InvitationTable`. |
| `Rsvp` | The three RSVP routes on top of `InvitationTable` (`sub[c]`, and `seenTotal[c]`, the sum read by `ValidateCapacity`). `InvitationTable` is what the organiser does meanwhile (`OrganiserStep`). |
| `Checkin` | The four ways in, `performCheckin` and `recordFailedCheckin` on top of `InvitationTable` (`desk[o]`). An attempt is recorded under the `guest_id` of the request, if that is a contact's, whether or not the scan found that guest. Whether a contact has been deleted is open whenever it is read. |
| `Seating` | Zones, tables and seats of one event with the roster beside them; `req[h]` holds the rows and the occupancy a request has read, for AutoAssign also its page of guests and its own count. |
| `Messaging` | Message rows, one campaign, senders and receipts of one event; `handed[m]` counts how often the provider took `m`. |
| `Delivery` | What a message table promises, per message: queued, handed over at most once, recorded once as sent or failed, acknowledged only if sent. `Messaging` implements it (`DeliverySpec`). |
| `Contacts` | Contacts with their number and address as keys, and who is on the roster of one event: create, edit, delete, add to the roster, register a walk-in, import contacts, import guests of the event. |
| `Events` | Status, start and RSVP deadline of the tenant's events. The plan's limit is not there, because the code never compares with it (section 3). |
| `Auth` | One account: its row, mailed links, refresh sessions, and every request that writes them. |
| `Access` | Memberships, staff of one event, the permission cache of the server process. |
| `Billing` | Payments, subscriptions and status of one tenant: webhook handlers (`hook`), pages (`page`), the cron of each server process (`cron`), and Midtrans (external: `gateway`, `inbox`). |
| `MC*` | Symmetry sets, and the rows of `Seating`, for TLC. |
| `GuestListProofs` | Theorems about `InvitationTable`, `Invitations`, `Rsvp` and `Checkin`, which share the tables and the lemmas about them. |
| `SeatingProofs`, `MessagingProofs`, `ContactsProofs`, `EventsProofs`, `AuthProofs`, `AccessProofs`, `BillingProofs` | Theorems about one module each. |

How code becomes a model:

* One action is one SQL statement (or provider call) together with the local
  checks after it. A read whose outcome nothing can change later (a plan, say)
  has no action. A request that is refused writes nothing and is a step to
  "idle", or no step when the refusal is decided by its first statement. What
  the code does in a transaction (register, insert a reminder under its advisory
  lock, delete a table, insert the rows of an import) is one step, which may
  fail as a whole; issuing a link takes its steps one by one and rolls back.
* `UNIQUE` indexes are guards with a conflict branch; foreign keys and CHECKs
  likewise (`LoseDuplicate`, `ProcessWalkin`).
* Handlers are a finite set of model values (`Admins`, `Clients`, `Desks`,
  `Hooks`, `Pages`, `Handlers`): the number of requests under way at the same
  time, which the code does not limit.
* A request may stop where it stands (`Abort`, in the three modules of the
  guest list `AbortRequest`, `AbortSub` and `AbortDesk`; `HookFault`; and the
  failure branches of single statements). `RsvpFaultySpec` and
  `CheckinFaultySpec` have this, `RsvpSpec` and `CheckinSpec` do not; the other
  modules always have it where the code can leave something half done.
* Ids of rows are finite sets; a row is inserted into an unused id. In
  `Billing` subscriptions and in `Messaging` messages are numbered, because the
  code asks for the newest.
* Time is a flag that may be set: `expired`, `deadlinePassed`, `trialEnded`,
  `lapsed`, `recent` (less than 24 hours old), an expired link or cache entry.
* Data no property tells apart is left out: names, notes, menu choices, tokens
  (a row's id stands for its token), prices, message texts, audit rows.
* `attending_pax` of a request is any member of `Paxes` (`Rsvp`), the party at
  the door any member of `ActualPaxes` (`Checkin`); the `validate` tag at
  domain/rsvp.go:100 is not enforced by the handler, and no lower bound is
  assumed. `max_pax` of a request likewise.

History variables. Most code here checks first and writes later, so the useful
statement is not "never" but "only if": what one request at a time may not do,
and what overlapping requests can spoil. History variables record the overlap
and no guard reads them: `stale` and `seen` (tables written by a request after
another had written them) in `Seating`, `unsure` (a contact that is a walk-in,
or was written by a request that was overtaken after its checks, or whose checks
failed) and `due` (the rows an import has accepted) in `Contacts`, `overtaken`
and `mixed` in `Events`, `lapsed` (the token of a submission was closed under
it) in `Rsvp`, `overtaken` (a denial under way while the success was recorded)
in `Billing`, `overlap` (a campaign status overwritten unread) and `of` (the
failed row that a retry copies) in `Messaging`, `late` in `Access` and in the
sessions of `Auth`, `cut` (a password change that stopped before it revoked
sessions) in `Auth`, `uncounted` (a count failed, which the code ignores) in
`Access`.

## 3. Runs

| Run | Instance | Shows |
|---|---|---|
| `invitations` | 2 handlers, 2 guests, 2 invitation ids | `OneLiveInvitation`, `CreateHasRoster`, and that the handlers implement `TableSpec` |
| `rsvp_race` | 2 requests, 1 invitation, pax 1 or 2, quota 1, capacity 1 | `SubmitWithinMaxPax`, `MarkedIsAnswered`, `AnsweredIsMarked`, and `ClosedStaysClosed`: a revoked, deleted or expired invitation gets a new answer, or a valid token again, only by an officer or a submission already under way |
| `checkin` | 2 desks, a contact and a walk-in, 1 invitation, faults | `DuplicatesBounded`, `AdmittedIsKnown`, `SelfWithinQuota` |
| `billing_overlap` | 2 webhook requests, 2 orders, 1 failure | `PaidHasSubscription`, `OnlyPaidIsServed`, `ActiveBounded`, and `SuccessStays`: only a denial looked up before the success was recorded overwrites it |
| `billing_serial` | 1 webhook request, 1 order, a page, the cron, 1 failure | the liveness properties `PaidIsServed` and `PaidActivates` |
| `seating` | 1 table, a guest and a VIP, 2 requests, pages of 2 | `SeatsWithinCapacity`, `NewSeatAllowed`, `LeftStandingOnlyIfFull` |
| `access` | the owner and 2 accounts, a plan for 2, 2 requests | `OwnerManages`, `TeamBounded`, `StaleOnlyByLateFill`, and the liveness property `CacheCatchesUp` |
| `auth` | 2 links, 2 sessions, 1 password change, 2 requests | `OneSessionPerCredential`, `SessionsAreVerified`, `OldSessionsEnd` |
| `messaging` | 1 guest, 2 messages, reminders and SMS, a campaign, 2 requests | `ReminderThrottle`, `CampaignOnce` (both up to retries), and that the senders implement `DeliverySpec` |
| `contacts` | 2 contacts, 1 number, 1 address, files of 2 rows, quota 2, 2 requests, one of them an import | `DuplicatesAreUnchecked`, and `ImportFillsRoster`: an import for the event that gets to its end has everybody on the roster, whatever an earlier one left undone |
| `events` | 2 events, 2 days, 2 requests | `DatesOrdered`, `LifecycleHolds` |
| `rsvp_overbook` (violation) | 2 requests, 2 guests, capacity 1 | two answers for the last seat pass the check before either is written: `WithinCapacity` fails |

The runs of `Checkin` (`CheckinTypeOK`), `Billing`, `Seating` and `Contacts`
(`TypeOK`) check their type invariants as well. All type invariants are proved.

Bounds. Two concurrent requests suffice for every race of the check-then-act
kind; the third would only repeat the second. Two ids allow delete and
re-issue, retry beside a new message, or a session and the one that replaces
it. Values straddle each comparison (within, above, and 0 where the code has a
default); the team's limit is small enough that two requests exceed it.
`MaxFaults = 1` bounds failures in `Billing`; the other modules do not bound
them. One table is enough for `Seating`'s capacity and admission rules, since
every check of the code is about one table; that AutoAssign tries the tables in
turn is modelled by any order. `MaxImports = 1` keeps the contacts run short:
the import meets creates, edits, walk-ins and additions to the roster; two
imports at a time are covered by the proofs. Two messages let a
campaign's message fail and be retried; that a retry of a reminder stands beside
a later reminder takes three, which `MessagingCorrect` covers by proof only.
Subscriptions need no bound: a notification is
delivered finitely often before it is acknowledged. Symmetry is used in safety
runs only, over sets whose members no definition tells apart.

Deadlock is checked except in `auth`, `messaging`, `contacts` and `events`,
where the ids or messages of the instance run out, and in `billing_overlap`,
which has no page and no cron (`Pages = Servers = {}`) and may stop when every
order is settled.

Fairness. `Billing`: `WF(HookStep(h))`, a goroutine that is serving a request
goes on to its return, unless it fails, and failures are finite; `SF` of
delivery, Midtrans repeats a notification until it gets HTTP 200, and the
server takes a new request whenever one arrives (a busy handler of the model is
only a bound on concurrency). `Access`: `WF(Expire(u))`, an entry counts no
more once its five minutes are over (rbac.go:58-75); nothing is assumed of
requests, so a cached role catches up even if the request that should
invalidate it stops. Nothing is assumed of customers, pages, the cron or the
clock.

### What the models show without a property of their own

* Invitations and RSVP: an answer under way, or an officer's, overwrites a
  revocation, and the token is then accepted again
  (docs/BUSINESS_FLOW_AUDIT.md:331-334 asks for the opposite); a guest who has
  answered, is deleted and invited again is counted twice (same file, 294);
  `UpdateByOfficer` raises an attending guest's seats without a capacity check;
  a cancelled roster row cannot be added again and still admits its guest.
* Check-in: the code of a revoked or expired invitation is accepted (308); two
  desks admit a guest twice; a refused attempt is recorded only if the request
  carries a contact's id, under that contact, whoever the scanned code belongs
  to (checkin_service.go:471-473).
* Billing: the cron writes the tenant status `trial_expired`, which
  migrations/002:15 does not list; a renewal drops what is left of the old
  subscription; a failure after `UpdateOnSuccess` leaves a paid tenant inactive;
  a denial that overlaps a settlement turns a successful payment into a failed
  one.
* Seating: overlapping requests seat a guest at two tables (294, 310) or fill a
  table beyond its capacity; AutoAssign may seat a deleted contact, and looks at
  the first 100 roster rows only (seating_service.go:389).
* Messaging: a late receipt turns read back into delivered (`Delivery` merges
  the two); a receipt that precedes the stored external id is dropped; email
  and SMS of a campaign stay queued though they are counted as sent; a launch
  that has read the status goes on after a cancellation; a process that stops
  leaves the campaign in "sending"; a retry carries the campaign and the type of
  the message that failed (communication_service.go:592-598) and can be
  repeated, so that one operator sends a guest the campaign twice, or a second
  reminder within a day, with no overlap at all.
* Authentication: Logout revokes nothing; `UpdateProfile` and `AddUser` may
  restore an old password hash; reset links survive `ChangePassword`; a changed
  email address stays verified. `RefreshTokenService.Rotate` (refresh.go:158-221)
  has no caller: `AuthService.Refresh` revokes and issues by itself.
* Team: a fill that read the role before a change and stores it after the
  invalidation keeps the old role for up to five minutes, while rbac.go:77 says
  that permission changes must take effect immediately.
* Contacts: a walk-in is inserted without a lookup (checkin_service.go:168), so
  that it may repeat a contact, although checkin_handler.go:196 has an answer
  "Guest already exists"; lookups and counts that fail are ignored; the import does not look
  at `MaxGuests` and drops a row that repeats a key of an earlier row, even of
  one that was dropped itself, without the per-row error that
  import_service.go:47 promises; it normalises numbers and Create does not,
  so that one number may be stored in two forms.
* Events: `NewEventService` (event_service.go:31-36) drops the billing service
  that main.go:222 hands to it, so the block under "Check subscription quota"
  (40-50) never runs and a tenant creates any number of events, one request at a
  time. `COALESCE` keeps a deadline that another request set meanwhile, so
  that dates checked apart end up combined (`mixed`).

## 4. Proofs

Every safety property that a passing run checks is a theorem for every value of
the constants: any number of guests, tables, messages, orders, contacts and
requests under way.

Assumptions, each evaluated by TLC as well: the "no guest", "no user" and
similar values are not members of the sets they mark; pax values are integers;
capacities, quotas and bounds are natural numbers; kinds and purposes are those
of the code; phone numbers are no email addresses. Finiteness is assumed only of
what is counted: members and requests (`AccessAssumption`), desks
(`CheckinAssumption`), webhook handlers (`BillingAssumption`), guests
(`SeatingAssumption`). No theorem has a hypothesis of its own.

The arguments have one shape. The property alone is not inductive, because a
request writes on the strength of what it read some statements earlier. The
inductive invariant adds what a request under way knows at each of its steps
(`Knows`, `Sound`, `Proven`, `Tied`, ...), and one lemma per action shows that
the action's own request knows more afterwards, while the others either know as
much as before or are recorded as overtaken.

* `GuestListProofs`, the tables: `TableCorrect`: `TableSpec => []TableInv`. The
  invariant is types, `OneLiveInvitation`, `InvitedIsOnRoster` and
  `DeletedIsDead` together; the lemmas `TableTypeStep` and `TableInvStep` go
  through the statements one by one and are reused for everything that takes
  table steps. The organiser: `HandlersCorrect` proves types and
  `CreateHasRoster`. `Refinement`: every step of a handler is one statement of
  the table or changes neither table; the only step that needs an invariant is
  the INSERT, whose roster condition is not tested again. `InvitationsSafe`
  carries the table's invariants over.
* `GuestListProofs`, RSVP: `RsvpInv` adds to the types that every answered
  invitation was issued, and that the invitation of a request under way was
  issued with the `max_pax` the request read. From it `RsvpCorrect`
  (`SubmitWithinMaxPax`), `MarksAreAnswered` (`MarkedIsAnswered`), both with
  failing requests, and `AnswersAreMarked` (when requests run to their end).
  `ClosedInvitations` (`ClosedStaysClosed`, an action property) adds that the
  token of a submission under way is valid or is noted as closed under it
  (`TokenHeld`), and that the organiser's side reopens nothing. RSVP and
  check-in touch the two tables by the table's own statements; the lemmas
  `RsvpRefinesStep` and `CheckinRefinesStep` say so, and are only used to carry
  the table's types over.
* `GuestListProofs`, the door: `AdmissionInv` says what a desk has established
  (`Entitled`: the guest is known, the invitation was issued to that guest, a
  self check-in is within its quota) and that it stays true while invitations
  are revoked, deleted and issued again; the stored rows inherit it. From it
  `CheckinTypes`, `AdmittedAreKnown` and `SelfCheckinWithinQuota`.
  `AdmissionsBounded` counts: a desk gets past the
  duplicate check only while the guest has no row, so rows and desks about to
  insert are together no more than the desks (`CountInv`).
* `BillingProofs`: `BillingInv` says that a settlement in the inbox is true,
  that a webhook request that serves an order was told so, that the subscription
  it has created is of its order (`Sound`), and that payments name subscriptions
  of their own order (`Linked`). From it `BillingTypes`, `PaymentsAreLinked`
  and `SubscriptionsArePaid`. `ActiveIsBounded` counts active subscriptions
  and requests about to insert, against handlers and failures: ExpireAllActive
  leaves none active, or fails and is counted. `SuccessIsKept`, an action
  property, needs that a request about to record a failure still finds no
  success or has been overtaken by the request that recorded it (`FailsOpen`).
* `SeatingProofs`: `SeatingInv` says of each request and each table it has seen
  and nobody else has written since (`seen`) that the row it carries along is
  the row, the room it counted is the room there is, and AutoAssign's own count
  is exact (`Knows`). From it `SeatingTypes`, `CapacityIsKept`
  (`SeatsWithinCapacity`) and the action properties `SeatsAreAllowed`
  (`NewSeatAllowed`) and `NobodyLeftStanding` (`LeftStandingOnlyIfFull`).
* `ContactsProofs`: `ContactsInv` says of a request that is not `unsure` that
  the keys it has looked up are still free (or are those of the row it
  updates); of an import that the rows it is going to create share no key and
  no contact has one, and that each row it accepted for the event is to be
  created, or stands for a contact who is, or is still to be put, on the roster.
  That the new contacts are one per row follows from counting (`ImportInsert`
  compares cardinalities). From it `ContactsTypes`, `DuplicatesGoUnchecked`
  (`DuplicatesAreUnchecked`) and `ImportsFillRoster` (`ImportFillsRoster`).
* `MessagingProofs`: `MessagingInv` ties requests and rows together: the
  message a request is sending is queued and was handed over exactly when the
  request is past the call (`Tied`), no two requests send one message
  (`Exclusive`), a row that does not exist was not handed over, and only a sent
  message has an external id and so a receipt (`RowsTied`). `ReminderThrottle`
  is inductive with them: check and INSERT of a reminder are one transaction
  under the advisory lock, a row that retries another names it (`of`), and a
  failed reminder never counts again. `DeliveryRefinement` then maps every step to a step of
  `Delivery` or to none. `CampaignSendsOnce` (`CampaignOnce`) has an invariant
  of its own, `CampaignInv`: as long as no status was overwritten unread, one
  request sends the campaign (`OneRun`), the guests it still has to serve got
  nothing of it (`TodoUnserved`), and a campaign that is neither sending nor
  completed has sent nothing (`CampaignQuiet`).
* `AuthProofs`: `Proven` says what a request under way knows of the account: a
  row about to be written back is verified, and so is an account about to get a
  session. `Once` says that a credential that can still be spent was used for
  nothing (`Unspent`), that a spent one has one user (`Single`), and that the
  links invalidated by a transaction under way are nobody else's (`Taken`).
  From it `AuthCorrect` (`OneSessionPerCredential`), `SessionsVerified` and
  `OldSessionsAreEnded`.
* `AccessProofs`: `AccessInv` says of each request what its checks established:
  an actor who got past the middleware is the owner, and the member to be
  changed is not. `AccessCorrect` has `OwnerManages`, `CacheIsFresh` has
  `StaleOnlyByLateFill`; `TeamIsBounded` has `TeamBounded`, by counting members
  and requests that are past the check.
* `EventsProofs`: `EventsCorrect` (`DatesOrdered`, with what a request that was
  not overtaken knows of the row) and `LifecycleIsKept` (`LifecycleHolds`, an
  action property).

Only model-checked: `PaidIsServed`, `PaidActivates` and `CacheCatchesUp`, which
are liveness under fairness and out of the prover's reach. `WithinCapacity`,
a sum over a set by a fold, is what the violation run refutes.

## 5. Not modelled, and what is left

Not modelled because there is nothing to interleave or to get wrong at this
level: rendering, dashboards, listings, audit rows, mail, configuration, gifts,
CRUD of single rows. The background worker: nothing enqueues a job, and its job
bodies are placeholders. Out of the models also: households and tags, template editing (two calls of
`GenerateDefaultInvitationTemplates` create duplicates), guest ids repeated
within one send request, `TenantService.Create` and the tenant resolver, device
registration at the WhatsApp gateway, the rate limiter, starting without a
mailer. The event's capacity is a constant of `Rsvp`: `EventService.Update` may
lower it below what is already taken, which no code forbids.

Left, in this order:

1. That seats stay within the capacity when RSVP requests do not overlap:
   the sum over the answers is a fold, and what a step does to it has to be
   stated without induction over the set.
2. The safety part of the liveness arguments: what holds of an order at each
   stage between its settlement and its subscription.
3. Templates, households, and the device slots that tenants claim at the
   WhatsApp gateway; `Events` composed with the deadline and capacity that
   `Rsvp` reads.

------------------------------- MODULE Seating -------------------------------
(***************************************************************************)
(* The seating plan of one event: tables, who sits where, and the requests *)
(* that change it - organisers who edit tables and seat guests by hand,    *)
(* and AutoAssign.  Every request is a series of statements without a      *)
(* transaction (DeleteTable alone has one), each an action, so that two    *)
(* requests interleave between any two of them.                            *)
(*                                                                         *)
(* Two pieces of history tell what overlapping requests may spoil from     *)
(* what one request at a time may: seen, in a request, is the set of the   *)
(* tables it has read and that nobody else has written since, and stale    *)
(* the set of the tables that some request wrote after losing sight of     *)
(* them.                                                                   *)
(***************************************************************************)
EXTENDS Integers, FiniteSets

CONSTANTS
    Tables,     \* identities of the tables rows
    Zones,      \* identities of the venue_zones rows
    Guests,     \* the tenant's contacts
    Vips,       \* the contacts whose type is vip or vvip
    Handlers,   \* concurrent request handlers
    Rows,       \* what requests may make of a table: capacity, locked, vipOnly
    PageSize,   \* how many roster rows AutoAssign reads (100 in the code)
    NoTable, NoGuest

ASSUME SeatingAssumption ==
    /\ IsFiniteSet(Guests)
    /\ Vips \subseteq Guests
    /\ Rows \subseteq [capacity : 1 .. 999, locked : BOOLEAN, vipOnly : BOOLEAN]
    /\ PageSize \in Nat
    /\ NoTable \notin Tables
    /\ NoGuest \notin Guests

VARIABLES
    zones,      \* venue zones of the event
    tables,     \* tables[t]: the tables row t
    seats,      \* seat_assignments, as pairs table and guest
    roster,     \* roster[g]: event_guests row of g
    contacts,   \* the contacts that are not deleted
    req,        \* req[h]: the request that handler h is serving
    stale       \* history, see above

vars == <<zones, tables, seats, roster, contacts, req, stale>>
others == <<zones, roster, contacts>>

----------------------------------------------------------------------------
(* Rows.                                                                   *)

TableRow ==
    [ status   : {"absent", "live", "deleted"},
      capacity : Nat,
      locked   : BOOLEAN,
      vipOnly  : BOOLEAN ]

NoRow == [status |-> "absent", capacity |-> 0, locked |-> FALSE, vipOnly |-> FALSE]

SeatAssignment == Tables \X Guests

\* GetTable, GetTableWithOccupancy, ListTablesByEvent: deleted tables are
\* not found.
LiveTables == {t \in Tables : tables[t].status = "live"}

\* CountAssignmentsByTable, and the occupancy of the list.
AssignedTo(t) == {g \in Guests : <<t, g>> \in seats}
Occupancy(t) == Cardinality(AssignedTo(t))

\* GetGuestAssignment and ListAssignmentsByEvent look at live tables only.
TablesOf(g) == {t \in LiveTables : <<t, g>> \in seats}

\* The roster keeps the rows of deleted contacts, and List returns them.
OnRoster(g) == roster[g] # "absent"
ActiveGuests == {g \in Guests : roster[g] = "active"}

\* The VIP constraint.
Admits(vipOnly, g) == vipOnly => g \in Vips

----------------------------------------------------------------------------
(* Requests, as the handlers let them through.                             *)

\* The capacity is at least 1 and at most 999, the shape one of the five.
CreateTableRequest == Rows

\* What the table is to be, and whether the request gives the capacity; a
\* field that is not given keeps its value.
UpdateTableRequest == [new : Rows, capacityGiven : BOOLEAN]

AssignGuestRequest == [table : Tables, guest : Guests]
UnassignGuestRequest == [table : Tables, guest : Guests]

Steps == {"idle", "guest", "roster", "count", "existing", "insert",
          "occupancy", "write", "unassign", "page", "taken", "seat"}

\* row is the table as read, or as edited; room its capacity less its occupancy;
\* free, vip and todo are AutoAssign's list of tables (free seats, 0 for a
\* locked one) and guests.  What a request needs no more is dropped.
Request ==
    [ pc     : Steps,
      table  : Tables \cup {NoTable},
      guest  : Guests \cup {NoGuest},
      row    : TableRow,
      room   : Int,
      free   : [Tables -> Int],
      vip    : SUBSET Tables,
      todo   : SUBSET Guests,
      seen   : SUBSET Tables ]

Idle ==
    [ pc |-> "idle", table |-> NoTable, guest |-> NoGuest, row |-> NoRow,
      room |-> 0, free |-> [t \in Tables |-> 0], vip |-> {}, todo |-> {},
      seen |-> {} ]

----------------------------------------------------------------------------
(* Reading and writing tables.                                             *)

Goto(h, r) == req' = [req EXCEPT ![h] = r]

\* A step that writes nothing.
Think == UNCHANGED <<tables, seats, stale, others>>

\* A step of handler h, which goes on with r, that writes table t or its seats.
Touch(h, r, t) ==
    /\ req' = [k \in Handlers |->
                 IF k = h THEN r ELSE [req[k] EXCEPT !.seen = @ \ {t}]]
    /\ stale' = IF t \in req[h].seen THEN stale ELSE stale \cup {t}
    /\ UNCHANGED others

\* A single statement that writes table t.
Forget(t) == req' = [k \in Handlers |-> [req[k] EXCEPT !.seen = @ \ {t}]]

End(h) == Goto(h, Idle)

----------------------------------------------------------------------------
(* Tables.                                                                 *)

CreateZone(z) ==
    /\ z \notin zones
    /\ zones' = zones \cup {z}
    /\ UNCHANGED <<tables, seats, roster, contacts, req, stale>>

LiveRow(r) ==
    [ status |-> "live", capacity |-> r.capacity, locked |-> r.locked,
      vipOnly |-> r.vipOnly ]

CreateTable(h, t, r) ==
    /\ req[h].pc = "idle"
    /\ tables[t].status = "absent"
    /\ tables' = [tables EXCEPT ![t] = LiveRow(r)]
    /\ Forget(t)
    /\ UNCHANGED <<seats, stale, others>>

\* UpdateTable reads the row and applies the request to it.
UpdateRead(h, t, r) ==
    /\ req[h].pc = "idle"
    /\ t \in LiveTables
    /\ ~r.capacityGiven => r.new.capacity = tables[t].capacity
    /\ Goto(h, [Idle EXCEPT
         !.pc = IF r.capacityGiven THEN "occupancy" ELSE "write",
         !.table = t, !.row = LiveRow(r.new), !.seen = {t}])
    /\ Think

\* "new capacity cannot be less than current occupancy"
UpdateOccupancy(h) ==
    /\ req[h].pc = "occupancy"
    /\ IF req[h].row.capacity < Occupancy(req[h].table)
       THEN End(h)
       ELSE Goto(h, [req[h] EXCEPT !.pc = "write"])
    /\ Think

\* The UPDATE writes capacity, is_locked and vip_only as read or as asked, and
\* finds no row when the table has been deleted meanwhile.
UpdateWrite(h) ==
    /\ req[h].pc = "write"
    /\ IF req[h].table \in LiveTables
       THEN /\ tables' = [tables EXCEPT ![req[h].table] = req[h].row]
            /\ Touch(h, Idle, req[h].table)
            /\ UNCHANGED seats
       ELSE Think /\ End(h)

\* SoftDeleteTable: one transaction.  Nothing reads a deleted row any more.
DeleteTable(h, t) ==
    /\ req[h].pc = "idle"
    /\ t \in LiveTables
    /\ tables' = [tables EXCEPT ![t] = [NoRow EXCEPT !.status = "deleted"]]
    /\ seats' = {s \in seats : s[1] # t}
    /\ Forget(t)
    /\ UNCHANGED <<stale, others>>

----------------------------------------------------------------------------
(* Seating by hand.                                                        *)

\* Mutant: a locked table is open to AssignGuest.
AssignLockedToo(h, r) ==
    /\ req[h].pc = "idle"
    /\ r.table \in LiveTables
    /\ Goto(h, [Idle EXCEPT !.pc = "guest", !.table = r.table, !.guest = r.guest,
                            !.row = tables[r.table], !.seen = {r.table}])
    /\ Think

\* AssignGuest reads the table, which must not be locked, ...
AssignRead(h, r) ==
    /\ req[h].pc = "idle"
    /\ r.table \in LiveTables
    /\ ~tables[r.table].locked
    /\ Goto(h, [Idle EXCEPT !.pc = "guest", !.table = r.table, !.guest = r.guest,
                            !.row = tables[r.table], !.seen = {r.table}])
    /\ Think

\* ... the contact, ...
AssignContact(h) ==
    /\ req[h].pc = "guest"
    /\ IF req[h].guest \in contacts
       THEN Goto(h, [req[h] EXCEPT !.pc = "roster"])
       ELSE End(h)
    /\ Think

\* ... and the roster row, cancelled or not, then looks at the VIP rule.
AssignRoster(h) ==
    /\ req[h].pc = "roster"
    /\ IF OnRoster(req[h].guest) /\ Admits(req[h].row.vipOnly, req[h].guest)
       THEN Goto(h, [req[h] EXCEPT !.pc = "count"])
       ELSE End(h)
    /\ Think

\* Mutant: the request goes on without its guest.
CountForgetsGuest(h) ==
    /\ req[h].pc = "count"
    /\ Goto(h, [Idle EXCEPT !.pc = "existing", !.table = req[h].table,
                  !.seen = req[h].seen,
                  !.room = req[h].row.capacity - Occupancy(req[h].table)])
    /\ Think

AssignCount(h) ==
    /\ req[h].pc = "count"
    /\ Goto(h, [req[h] EXCEPT !.pc = "existing", !.row = NoRow,
                  !.room = req[h].row.capacity - Occupancy(req[h].table)])
    /\ Think

\* The capacity counts unless the guest's assignment found is at this table.
CapacityAllows(r, t) == t # r.table => r.room > 0

\* GetGuestAssignment returns any one of the guest's assignments (LIMIT 1).
AssignExisting(h) ==
    /\ req[h].pc = "existing"
    /\ LET found == TablesOf(req[h].guest) IN
       \E t \in IF found = {} THEN {NoTable} ELSE found :
          IF CapacityAllows(req[h], t)
          THEN Goto(h, [req[h] EXCEPT !.pc = "insert", !.room = 0])
          ELSE End(h)
    /\ Think

\* The upsert, whatever has become of the table.
AssignInsert(h) ==
    /\ req[h].pc = "insert"
    /\ seats' = seats \cup {<<req[h].table, req[h].guest>>}
    /\ Touch(h, Idle, req[h].table)
    /\ UNCHANGED tables

\* UnassignGuest: the table exists, locked or not ...
UnassignRead(h, r) ==
    /\ req[h].pc = "idle"
    /\ r.table \in LiveTables
    /\ Goto(h, [Idle EXCEPT !.pc = "unassign", !.table = r.table,
                            !.guest = r.guest, !.seen = {r.table}])
    /\ Think

\* ... and the row is deleted.
UnassignDelete(h) ==
    /\ req[h].pc = "unassign"
    /\ LET s == <<req[h].table, req[h].guest>> IN
       IF s \in seats
       THEN /\ seats' = seats \ {s}
            /\ Touch(h, Idle, req[h].table)
            /\ UNCHANGED tables
       ELSE Think /\ End(h)

----------------------------------------------------------------------------
(* AutoAssign.                                                             *)

\* All tables with their occupancy; locked ones are passed over.
AutoTables(h) ==
    /\ req[h].pc = "idle"
    /\ Goto(h, [Idle EXCEPT !.pc = "page",
         !.free = [t \in Tables |->
                     IF t \in LiveTables /\ ~tables[t].locked
                     THEN tables[t].capacity - Occupancy(t) ELSE 0],
         !.vip = {t \in LiveTables : tables[t].vipOnly},
         !.seen = Tables])
    /\ Think

\* One page of the active roster; rows beyond it are never looked at.
Pages ==
    {P \in SUBSET ActiveGuests :
        \/ P = ActiveGuests /\ Cardinality(P) <= PageSize
        \/ Cardinality(P) = PageSize}

AutoPage(h) ==
    /\ req[h].pc = "page"
    /\ \E P \in Pages : Goto(h, [req[h] EXCEPT !.pc = "taken", !.todo = P])
    /\ Think

\* Guests who have a seat are skipped.
AutoTaken(h) ==
    /\ req[h].pc = "taken"
    /\ Goto(h, [req[h] EXCEPT !.pc = "seat",
                              !.todo = {g \in @ : TablesOf(g) = {}}])
    /\ Think

\* Mutant: the last seat of a table is not given away.
KeepsLastSeat(r, g) ==
    {t \in Tables : r.free[t] > 1 /\ (t \in r.vip => g \in Vips \cap contacts)}

\* Tables with a free seat on AutoAssign's list that admit g.  The contact is
\* read only for a VIP table, and one that is gone is not let in there.
Candidates(r, g) ==
    {t \in Tables : r.free[t] > 0 /\ (t \in r.vip => g \in Vips \cap contacts)}

\* Mutant: the running occupancy is not kept.
AutoForgets(h, g, t) ==
    /\ req[h].pc = "seat"
    /\ g \in req[h].todo
    /\ t \in Candidates(req[h], g)
    /\ seats' = seats \cup {<<t, g>>}
    /\ Touch(h, [req[h] EXCEPT !.todo = @ \ {g}], t)
    /\ UNCHANGED tables

\* The next guest takes the first such table (in the order of names, which
\* the model leaves open).
AutoSeat(h, g, t) ==
    /\ req[h].pc = "seat"
    /\ g \in req[h].todo
    /\ t \in Candidates(req[h], g)
    /\ seats' = seats \cup {<<t, g>>}
    /\ Touch(h, [req[h] EXCEPT !.todo = @ \ {g}, !.free[t] = @ - 1], t)
    /\ UNCHANGED tables

\* No table: the guest is skipped.
AutoSkip(h, g) ==
    /\ req[h].pc = "seat"
    /\ g \in req[h].todo
    /\ Candidates(req[h], g) = {}
    /\ Goto(h, [req[h] EXCEPT !.todo = @ \ {g}])
    /\ Think

AutoEnd(h) ==
    /\ req[h].pc = "seat"
    /\ req[h].todo = {}
    /\ End(h)
    /\ Think

\* A failing statement ends a request.
Abort(h) ==
    /\ req[h].pc \notin {"idle", "seat"}
    /\ End(h)
    /\ Think

\* The error of AutoAssign's INSERT is swallowed.  The row may be there all
\* the same (the reply was lost), so the request no longer knows the table.
AutoInsertFails(h, g, t) ==
    /\ req[h].pc = "seat"
    /\ g \in req[h].todo
    /\ t \in Candidates(req[h], g)
    /\ \/ UNCHANGED seats
       \/ seats' = seats \cup {<<t, g>>}
    /\ Touch(h, [req[h] EXCEPT !.todo = @ \ {g}, !.seen = @ \ {t}], t)
    /\ UNCHANGED tables

----------------------------------------------------------------------------
(* The roster and the contacts change meanwhile.                           *)

AddToRoster(g) ==
    /\ g \in contacts
    /\ roster[g] = "absent"
    /\ roster' = [roster EXCEPT ![g] = "active"]
    /\ UNCHANGED <<zones, tables, seats, contacts, req, stale>>

CancelGuest(g) ==
    /\ roster[g] = "active"
    /\ roster' = [roster EXCEPT ![g] = "cancelled"]
    /\ UNCHANGED <<zones, tables, seats, contacts, req, stale>>

DeleteContact(g) ==
    /\ g \in contacts
    /\ contacts' = contacts \ {g}
    /\ UNCHANGED <<zones, tables, seats, roster, req, stale>>

----------------------------------------------------------------------------

Init ==
    /\ zones = {}
    /\ tables = [t \in Tables |-> NoRow]
    /\ seats = {}
    /\ roster = [g \in Guests |-> "absent"]
    /\ contacts = Guests
    /\ req = [h \in Handlers |-> Idle]
    /\ stale = {}

EditTable(h) ==
    \/ \E t \in Tables, r \in CreateTableRequest : CreateTable(h, t, r)
    \/ \E t \in Tables, r \in UpdateTableRequest : UpdateRead(h, t, r)
    \/ \E t \in Tables : DeleteTable(h, t)
    \/ UpdateOccupancy(h)
    \/ UpdateWrite(h)

SeatByHand(h) ==
    \/ \E r \in AssignGuestRequest : AssignRead(h, r)
    \/ \E r \in UnassignGuestRequest : UnassignRead(h, r)
    \/ AssignContact(h)
    \/ AssignRoster(h)
    \/ AssignCount(h)
    \/ AssignExisting(h)
    \/ AssignInsert(h)
    \/ UnassignDelete(h)

AutoAssign(h) ==
    \/ AutoTables(h)
    \/ AutoPage(h)
    \/ AutoTaken(h)
    \/ \E g \in Guests, t \in Tables : AutoSeat(h, g, t) \/ AutoInsertFails(h, g, t)
    \/ \E g \in Guests : AutoSkip(h, g)
    \/ AutoEnd(h)

Next ==
    \/ \E z \in Zones : CreateZone(z)
    \/ \E h \in Handlers : EditTable(h) \/ SeatByHand(h) \/ AutoAssign(h) \/ Abort(h)
    \/ \E g \in Guests : AddToRoster(g) \/ CancelGuest(g) \/ DeleteContact(g)

Spec == Init /\ [][Next]_vars

----------------------------------------------------------------------------
(* Properties.                                                             *)

TypeOK ==
    /\ zones \in SUBSET Zones
    /\ tables \in [Tables -> TableRow]
    /\ seats \in SUBSET SeatAssignment
    /\ roster \in [Guests -> {"absent", "active", "cancelled"}]
    /\ contacts \in SUBSET Guests
    /\ req \in [Handlers -> Request]
    /\ stale \in SUBSET Tables

\* AssignGuest, AutoAssign, UpdateTable and DeleteTable between them: a table
\* seats more guests than its capacity, or a deleted table anybody at all,
\* only when a request wrote it that another one had overtaken.  Requests
\* that do not overlap on a table keep it within its capacity.
SeatsWithinCapacity ==
    \A t \in Tables \ stale :
        Occupancy(t) <= IF t \in LiveTables THEN tables[t].capacity ELSE 0

\* AssignGuest and AutoAssign: unless overtaken, a new seat is at a live,
\* unlocked table that admits the guest, who has a roster row.
NewSeatAllowed ==
    [][\A t \in Tables, g \in Guests :
         <<t, g>> \in seats' \ seats /\ t \notin stale' =>
             /\ t \in LiveTables
             /\ ~tables[t].locked
             /\ tables[t].vipOnly => g \in Vips
             /\ OnRoster(g)]_vars

\* AutoAssign: while nobody else changes a table, a guest of its page is left
\* standing only if every unlocked table that admits the guest is full.
LeftStandingOnlyIfFull ==
    [][\A h \in Handlers, g \in Guests :
         /\ req[h].pc = "seat"
         /\ g \in req[h].todo \ req'[h].todo
         /\ req'[h].seen = Tables
         /\ TablesOf(g)' = {}
         => \A t \in LiveTables :
               \/ tables[t].locked
               \/ tables[t].vipOnly /\ g \notin Vips \cap contacts
               \/ Occupancy(t) >= tables[t].capacity]_vars
=============================================================================

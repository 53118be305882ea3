------------------------------- MODULE Checkin -------------------------------
(***************************************************************************)
(* Check-in at one event: officers who scan QR codes or search guests,     *)
(* guests who check themselves in from the invitation page, and walk-ins.  *)
(* Every way in ends in performCheckin: event, roster, duplicate check,    *)
(* INSERT - separate statements without a transaction, each an action.     *)
(* The roster and the invitations go on changing (InvitationTable).        *)
(* Contacts may be deleted at any time, so that whether one is found is    *)
(* decided when it is read; the roster is read without a look at that.     *)
(***************************************************************************)
EXTENDS InvitationTable, FiniteSets

CONSTANTS
    Desks,      \* concurrent check-in request handlers
    CheckinIds, \* identities of the checkins rows that may be inserted
    Walkins,    \* ids of the contacts that ProcessWalkin creates
    ActualPaxes       \* actual_pax values a request may carry

ASSUME CheckinAssumption ==
    /\ IsFiniteSet(Desks)
    /\ Walkins \subseteq Guests
    /\ ActualPaxes \subseteq Int

VARIABLES
    event,      \* the event's status, as far as check-in looks at it
    checkins,   \* checkins[k]: the checkins row k
    desk        \* desk[o]: the check-in request handler o is serving

checkinVars == <<event, checkins, desk>>
checkinAllVars == <<roster, invitations, event, checkins, desk>>

----------------------------------------------------------------------------
(* Rows and requests.                                                      *)

\* "closed" is cancelled or archived.
EventStates == {"open", "closed", "deleted"}

Methods == {"qr_scan", "manual_search", "walk_in", "kiosk"}

\* "revoked" and "expired" exist as constants that nothing uses.
CheckinStatuses == {"absent", "success", "duplicate", "wrong_event", "invalid"}

CheckinRow ==
    [ guest  : Guests \cup {NoGuest},
      status : CheckinStatuses,
      inv    : Invs \cup {NoInv},
      method : Methods,
      pax    : Int ]

NoCheckin ==
    [ guest |-> NoGuest, status |-> "absent", inv |-> NoInv,
      method |-> "qr_scan", pax |-> 0 ]

DeskSteps == {"idle", "self_event", "event", "dup", "insert"}

DeskRequest ==
    [ pc      : DeskSteps,
      guest   : Guests \cup {NoGuest},
      inv     : Invs \cup {NoInv},
      method  : Methods,
      pax     : Int ]

IdleDesk ==
    [ pc |-> "idle", guest |-> NoGuest, inv |-> NoInv, method |-> "qr_scan",
      pax |-> 0 ]

SuccessRows(g) ==
    {k \in CheckinIds : checkins[k].guest = g /\ checkins[k].status = "success"}

IsCheckedIn(g) == SuccessRows(g) # {}

\* There is a guests row, deleted or not, that a checkins row may refer to.
IsContact(g) == g \in Guests /\ (g \in Walkins => OnRoster(g))

\* performCheckin: at least one person comes in.
ActualPax(n) == IF n < 1 THEN 1 ELSE n

----------------------------------------------------------------------------
(* The ways in.                                                            *)

GotoDesk(o, r) == desk' = [desk EXCEPT ![o] = r]

\* A request that has found its guest goes on with performCheckin.
Perform(o, g, i, m, n, pc) ==
    GotoDesk(o, [ pc |-> pc, guest |-> g, inv |-> i, method |-> m,
                  pax |-> ActualPax(n) ])

\* The INSERT of a row.
CreateCheckin(k, row) ==
    /\ checkins[k].status = "absent"
    /\ checkins' = [checkins EXCEPT ![k] = row]

\* recordFailedCheckin.  g is the guest_id that came with the request; if that
\* is no contact, the foreign key rejects the row and the error is ignored.
\* No check-in reads such a row, so that it may as well be inserted when the attempt
\* fails.
RecordFailedCheckin(k, g, m, status) ==
    /\ IsContact(g)
    /\ CreateCheckin(k, [ guest |-> g, status |-> status, inv |-> NoInv,
                          method |-> m, pax |-> 0 ])

\* findGuestByToken takes any live invitation of the event.
FindGuestByToken(i) == Live(i)

ProcessQRScan(o, i, n) ==
    /\ desk[o].pc = "idle"
    /\ FindGuestByToken(i)
    /\ Perform(o, invitations[i].guest, i, "qr_scan", n, "event")
    /\ UNCHANGED <<tableVars, event, checkins>>

\* The token is no live invitation's, or that guest's contact is deleted; the
\* row names the guest that the scan brought, whatever the token says.
ScanFindsNobody(g, k) ==
    /\ RecordFailedCheckin(k, g, "qr_scan", "invalid")
    /\ UNCHANGED <<tableVars, event, desk>>

ProcessManualSearch(o, g, n) ==
    /\ desk[o].pc = "idle"
    /\ OnRoster(g)
    /\ Perform(o, g, NoInv, "manual_search", n, "event")
    /\ UNCHANGED <<tableVars, event, checkins>>

\* ProcessManualSearch: a contact that is deleted, or one that is not on the
\* event's roster.
SearchFindsNobody(g, k, status) ==
    /\ status = "wrong_event" => ~OnRoster(g)
    /\ RecordFailedCheckin(k, g, "manual_search", status)
    /\ UNCHANGED <<tableVars, event, desk>>

\* Mutant: SelfCheckin without the quota of the invitation.
SelfNoQuota(o, i, n) ==
    /\ desk[o].pc = "idle"
    /\ ValidToken(i)
    /\ Perform(o, invitations[i].guest, i, "kiosk", n, "self_event")
    /\ UNCHANGED <<tableVars, event, checkins>>

\* Mutant: self-service has a method of its own, unknown to migration 017.
SelfServiceMethod(o, i, n) ==
    /\ desk[o].pc = "idle"
    /\ ValidToken(i)
    /\ invitations[i].maxPax > 0 => ActualPax(n) <= invitations[i].maxPax
    /\ Perform(o, invitations[i].guest, i, "self_service", n, "self_event")
    /\ UNCHANGED <<tableVars, event, checkins>>

\* SelfCheckin validates the token and compares with the invitation's quota;
\* self-service uses the kiosk method.
SelfCheckin(o, i, n) ==
    /\ desk[o].pc = "idle"
    /\ ValidToken(i)
    /\ invitations[i].maxPax > 0 => ActualPax(n) <= invitations[i].maxPax
    /\ Perform(o, invitations[i].guest, i, "kiosk", n, "self_event")
    /\ UNCHANGED <<tableVars, event, checkins>>

\* SelfCheckin reads the event of the token on the venue's poster.
SelfEvent(o) ==
    /\ desk[o].pc = "self_event"
    /\ GotoDesk(o, IF event = "open" THEN [desk[o] EXCEPT !.pc = "event"]
                                     ELSE IdleDesk)
    /\ UNCHANGED <<tableVars, event, checkins>>

\* The handler refuses a party of none.
WalkinRequest == [guest : Walkins, pax : {n \in ActualPaxes : n > 0}]

\* ProcessWalkin creates a contact and its roster row.
ProcessWalkin(o, r) ==
    /\ desk[o].pc = "idle"
    /\ AddGuest(r.guest)
    /\ Perform(o, r.guest, NoInv, "walk_in", r.pax, "event")
    /\ UNCHANGED <<event, checkins>>

----------------------------------------------------------------------------
(* performCheckin.                                                         *)

\* The event exists and the guest has a roster row, cancelled or not.
CheckEvent(o) ==
    /\ desk[o].pc = "event"
    /\ GotoDesk(o, IF event # "deleted" /\ OnRoster(desk[o].guest)
                   THEN [desk[o] EXCEPT !.pc = "dup"]
                   ELSE IdleDesk)
    /\ UNCHANGED <<tableVars, event, checkins>>

\* Mutant: the duplicate check is missing.
NoDuplicateCheck(o) ==
    /\ desk[o].pc = "dup"
    /\ GotoDesk(o, [desk[o] EXCEPT !.pc = "insert"])
    /\ UNCHANGED <<tableVars, event, checkins>>

\* IsCheckedIn: the guest has no success row yet ...
CheckDuplicate(o) ==
    /\ desk[o].pc = "dup"
    /\ ~IsCheckedIn(desk[o].guest)
    /\ GotoDesk(o, [desk[o] EXCEPT !.pc = "insert"])
    /\ UNCHANGED <<tableVars, event, checkins>>

\* The guest_id that came with the request, which nothing else looks at: that
\* of a search is the guest's, a scan may bring anybody's or none, a walk-in and
\* a kiosk bring none.
GuestIDs(r) ==
    CASE r.method = "manual_search" -> {r.guest}
      [] r.method = "qr_scan" -> Guests \cup {NoGuest}
      [] OTHER -> {NoGuest}

\* ... or has one: the attempt is recorded, and names the guest that came with
\* the request, whoever it found ...
RecordDuplicate(o, k, g) ==
    /\ desk[o].pc = "dup"
    /\ IsCheckedIn(desk[o].guest)
    /\ g \in GuestIDs(desk[o])
    /\ RecordFailedCheckin(k, g, desk[o].method, "duplicate")
    /\ GotoDesk(o, IdleDesk)
    /\ UNCHANGED <<tableVars, event>>

\* ... or, without one or with one that is no contact, is lost.
LoseDuplicate(o) ==
    /\ desk[o].pc = "dup"
    /\ IsCheckedIn(desk[o].guest)
    /\ \E g \in GuestIDs(desk[o]) : ~IsContact(g)
    /\ GotoDesk(o, IdleDesk)
    /\ UNCHANGED <<tableVars, event, checkins>>

\* Mutant: the row does not name the guest.
InsertNobody(o, k) ==
    /\ desk[o].pc = "insert"
    /\ CreateCheckin(k,
         [ guest |-> NoGuest, status |-> "success", inv |-> desk[o].inv,
           method |-> desk[o].method, pax |-> desk[o].pax ])
    /\ GotoDesk(o, IdleDesk)
    /\ UNCHANGED <<tableVars, event>>

\* The success row.  idx_checkins_duplicate is not a unique index.
InsertCheckin(o, k) ==
    /\ desk[o].pc = "insert"
    /\ CreateCheckin(k,
         [ guest |-> desk[o].guest, status |-> "success", inv |-> desk[o].inv,
           method |-> desk[o].method, pax |-> desk[o].pax ])
    /\ GotoDesk(o, IdleDesk)
    /\ UNCHANGED <<tableVars, event>>

\* The request's context is cancelled or a statement fails.
AbortDesk(o) ==
    /\ desk[o].pc # "idle"
    /\ GotoDesk(o, IdleDesk)
    /\ UNCHANGED <<tableVars, event, checkins>>

\* EventService.Update, or SoftDelete, of the event.
ChangeEvent(s) ==
    /\ event \notin {"deleted", s}
    /\ event' = s
    /\ UNCHANGED <<tableVars, checkins, desk>>

\* The organiser.  A walk-in's id is not known to him before ProcessWalkin has
\* put it on the roster.  Answers change only the status of an invitation, which
\* check-in does not read.
TableStep ==
    /\ OrganiserNext
    /\ \A g \in Walkins : OnRoster(g)' => OnRoster(g)
    /\ UNCHANGED checkinVars

----------------------------------------------------------------------------

CheckinInit ==
    /\ TableInit
    /\ event = "open"
    /\ checkins = [k \in CheckinIds |-> NoCheckin]
    /\ desk = [o \in Desks |-> IdleDesk]

CheckinNext ==
    \/ TableStep
    \/ \E s \in EventStates : ChangeEvent(s)
    \/ \E o \in Desks, n \in ActualPaxes :
         \/ \E i \in Invs : ProcessQRScan(o, i, n) \/ SelfCheckin(o, i, n)
         \/ \E g \in Guests : ProcessManualSearch(o, g, n)
    \/ \E g \in Guests, k \in CheckinIds :
         \/ ScanFindsNobody(g, k)
         \/ \E s \in {"invalid", "wrong_event"} : SearchFindsNobody(g, k, s)
    \/ \E o \in Desks, r \in WalkinRequest : ProcessWalkin(o, r)
    \/ \E o \in Desks, k \in CheckinIds :
         InsertCheckin(o, k) \/ \E g \in Guests : RecordDuplicate(o, k, g)
    \/ \E o \in Desks :
         \/ SelfEvent(o)
         \/ CheckEvent(o)
         \/ CheckDuplicate(o)
         \/ LoseDuplicate(o)

CheckinSpec == CheckinInit /\ [][CheckinNext]_checkinAllVars

\* The system with requests that end early.
CheckinFaultyNext == CheckinNext \/ \E o \in Desks : AbortDesk(o)

CheckinFaultySpec == CheckinInit /\ [][CheckinFaultyNext]_checkinAllVars

----------------------------------------------------------------------------
(* Properties.                                                             *)

CheckinTypeOK ==
    /\ TableTypeOK
    /\ event \in EventStates
    /\ checkins \in [CheckinIds -> CheckinRow]
    /\ desk \in [Desks -> DeskRequest]

\* performCheckin refuses a duplicate it sees, so a guest is admitted more
\* than once only by requests that overlap: the success rows of a guest, and
\* the requests about to add one, are never more than the handlers.  With one
\* handler a guest is admitted once.
DuplicatesBounded ==
    \A g \in Guests :
        Cardinality(SuccessRows(g))
          + Cardinality({o \in Desks : desk[o].pc = "insert" /\ desk[o].guest = g})
        <= Cardinality(Desks)

\* Who was admitted was on the roster, and the invitation the row names is
\* one that guest was issued - also when invitations are deleted and issued
\* again, and guests cancelled, while the request is under way.
AdmittedIsKnown ==
    \A k \in CheckinIds :
        checkins[k].status = "success" =>
            /\ checkins[k].guest \in Guests
            /\ OnRoster(checkins[k].guest)
            /\ checkins[k].inv # NoInv =>
                 invitations[checkins[k].inv].guest = checkins[k].guest

\* A party that checks itself in is never larger than the quota of its
\* invitation, which was compared several statements before the INSERT.
SelfWithinQuota ==
    \A k \in CheckinIds :
        checkins[k].status = "success" /\ checkins[k].method = "kiosk" =>
            LET q == invitations[checkins[k].inv].maxPax IN
            q > 0 => checkins[k].pax <= q
=============================================================================

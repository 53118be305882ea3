-------------------------------- MODULE Events --------------------------------
(***************************************************************************)
(* The events of one tenant: create, edit, publish, delete.  Every request *)
(* but a create reads, checks what it has read, and writes later, beside   *)
(* the other requests.                                                     *)
(*                                                                         *)
(* The quota of the tenant's plan is not in the model: NewEventService     *)
(* drops the billing service it is given, so that Create never looks at    *)
(* the plan.                                                               *)
(*                                                                         *)
(* Dates are days.  The end date is left out: its rule mirrors that of the *)
(* RSVP deadline.                                                          *)
(***************************************************************************)
EXTENDS Integers

CONSTANTS
    Events,   \* identities of events
    Handlers, \* concurrent request handlers
    MaxDay,   \* bound: the last day
    NoEvent   \* "no event" in a request that has none

ASSUME EventsAssumption ==
    /\ NoEvent \notin Events
    /\ MaxDay \in Nat

VARIABLES
    events, \* events[e]: the events row e
    req,    \* req[h]: the request that handler h is serving
    mixed   \* history: events whose last update came from a request that was
            \* overtaken

vars == <<events, req, mixed>>

----------------------------------------------------------------------------
(* Rows and requests.                                                      *)

\* "published" is also archived, and "closed" completed or cancelled.
Statuses == {"draft", "published", "ongoing", "closed"}
Days == 1..MaxDay
NoDay == 0

Ordered(r) == r.deadline <= r.start

Row == [status : Statuses, start : Days, deadline : Days \cup {NoDay}]
\* Nobody reads the row of a deleted event.
Event == [state : {"live"}, row : Row] \cup [state : {"none", "deleted"}, row : {NoEvent}]
NoRow == [state |-> "none", row |-> NoEvent]
DeletedRow == [state |-> "deleted", row |-> NoEvent]

Live(e) == events[e].state = "live"
LiveEvents == {e \in Events : Live(e)}

\* The row that Create makes of a request; dates out of order are refused.
EventCreateRequest == {r \in Row : r.status = "draft" /\ Ordered(r)}
\* Mutant: the dates are compared before the row is edited.
UncheckedDates(old) ==
    {r \in Row : Ordered(old) /\ (old.deadline # NoDay => r.deadline # NoDay)}

\* What Update makes of the row old: a date that is set may change but is not
\* taken away.
EventUpdateRequest(old) ==
    {r \in Row : Ordered(r) /\ (old.deadline # NoDay => r.deadline # NoDay)}

\* row is what is to be written, overtaken tells (history) that another
\* request has written the event since it was read.
Request ==
    [ pc        : {"idle", "update", "publish", "delete"},
      event     : Events \cup {NoEvent},
      row       : Row \cup {NoEvent},
      overtaken : BOOLEAN ]

Idle == [pc |-> "idle", event |-> NoEvent, row |-> NoEvent, overtaken |-> FALSE]

Goto(h, r) == req' = [req EXCEPT ![h] = r]
End(h) == Goto(h, Idle)

\* The row of the event of handler h becomes r; its request ends.
Write(h, r) ==
    LET e == req[h].event IN
    /\ events' = [events EXCEPT ![e] = r]
    /\ req' = [i \in Handlers |->
                 IF i = h THEN Idle
                 ELSE [req[i] EXCEPT !.overtaken = @ \/ req[i].event = e]]
    /\ mixed' = IF req[h].pc # "update" THEN mixed
                ELSE IF req[h].overtaken THEN mixed \cup {e} ELSE mixed \ {e}

\* The statements write live rows only; others are ErrEventNotFound.
WriteLive(h, r) ==
    IF Live(req[h].event) THEN Write(h, r)
    ELSE End(h) /\ UNCHANGED <<events, mixed>>

----------------------------------------------------------------------------
(* Create.                                                                 *)

\* The request is all that Create looks at: one INSERT.
Create(e, r) ==
    /\ events[e] = NoRow
    /\ events' = [events EXCEPT ![e] = [state |-> "live", row |-> r]]
    /\ UNCHANGED <<req, mixed>>

----------------------------------------------------------------------------
(* Update, Publish and SoftDelete.                                         *)

Begin(h, pc, e, r) ==
    /\ Goto(h, [Idle EXCEPT !.pc = pc, !.event = e, !.row = r])
    /\ UNCHANGED <<events, mixed>>

\* Mutant: a closed event may be edited.
UpdateAnyEvent(h, e) ==
    /\ req[h].pc = "idle"
    /\ Live(e)
    /\ \E r \in EventUpdateRequest(events[e].row) : Begin(h, "update", e, r)

\* Completed and cancelled events are not modified.
UpdateRead(h, e) ==
    /\ req[h].pc = "idle"
    /\ Live(e)
    /\ events[e].row.status # "closed"
    /\ \E r \in EventUpdateRequest(events[e].row) : Begin(h, "update", e, r)

\* COALESCE: a date that is null in the request's row keeps the value it has.
Coalesce(old, new) ==
    IF new.deadline = NoDay THEN [new EXCEPT !.deadline = old.deadline] ELSE new

UpdateWrite(h) ==
    LET e == req[h].event IN
    /\ req[h].pc = "update"
    /\ WriteLive(h, [events[e] EXCEPT !.row = Coalesce(@, req[h].row)])

\* Only drafts are published.
PublishRead(h, e) ==
    /\ req[h].pc = "idle"
    /\ Live(e)
    /\ events[e].row.status = "draft"
    /\ Begin(h, "publish", e, NoEvent)

PublishWrite(h) ==
    LET e == req[h].event IN
    /\ req[h].pc = "publish"
    /\ WriteLive(h, [events[e] EXCEPT !.row.status = "published"])

\* Ongoing events are not deleted.
DeleteRead(h, e) ==
    /\ req[h].pc = "idle"
    /\ Live(e)
    /\ events[e].row.status # "ongoing"
    /\ Begin(h, "delete", e, NoEvent)

DeleteWrite(h) ==
    /\ req[h].pc = "delete"
    /\ WriteLive(h, DeletedRow)

\* The process stops, or a statement fails.
Abort(h) ==
    /\ req[h].pc # "idle"
    /\ End(h)
    /\ UNCHANGED <<events, mixed>>

----------------------------------------------------------------------------

Init ==
    /\ events = [e \in Events |-> NoRow]
    /\ req = [h \in Handlers |-> Idle]
    /\ mixed = {}

UpdateStep(h) == UpdateWrite(h) \/ \E e \in Events : UpdateRead(h, e)
PublishStep(h) == PublishWrite(h) \/ \E e \in Events : PublishRead(h, e)
DeleteStep(h) == DeleteWrite(h) \/ \E e \in Events : DeleteRead(h, e)

Next ==
    \/ \E e \in Events, r \in EventCreateRequest : Create(e, r)
    \/ \E h \in Handlers : UpdateStep(h) \/ PublishStep(h) \/ DeleteStep(h) \/ Abort(h)

Spec == Init /\ [][Next]_vars

----------------------------------------------------------------------------
(* Properties.                                                             *)

TypeOK ==
    /\ events \in [Events -> Event]
    /\ req \in [Handlers -> Request]
    /\ mixed \subseteq Events

\* Update and SoftDelete check the status that they have read: a closed event
\* changes, or an ongoing one is deleted, only by a request that another one
\* has overtaken - or a closed one when it is deleted.
LifecycleHolds ==
    [][\A e \in Events : Live(e) /\ events'[e] # events[e] =>
         \/ events[e].row.status = "closed" /\ events'[e].state = "deleted"
         \/ events[e].row.status = "ongoing" /\ events'[e].state = "live"
         \/ events[e].row.status \in {"draft", "published"}
         \/ \E h \in Handlers :
              req[h].event = e /\ req[h].overtaken /\ req'[h].pc = "idle"]_vars

\* Create and Update: the RSVP deadline is not after the start, unless the last
\* update was overtaken, by an update or any other write of the event, between
\* its read and its write: it sets one date, and COALESCE keeps the other,
\* which somebody else may have set meanwhile.
DatesOrdered ==
    \A e \in LiveEvents : Ordered(events[e].row) \/ e \in mixed
=============================================================================

---------------------------- MODULE Invitations ----------------------------
(***************************************************************************)
(* The organiser's handlers on the roster and the invitations of an event. *)
(*                                                                         *)
(* A handler is a goroutine that talks to PostgreSQL one statement at a    *)
(* time and opens no transaction, so each action below is one statement    *)
(* (with the local checks that follow it), and req[p] is what handler p    *)
(* carries from one statement to the next.  A request whose check fails    *)
(* returns an error and writes nothing: it is no step, or a step that only *)
(* makes the handler idle.                                                 *)
(***************************************************************************)
EXTENDS InvitationTable

CONSTANT
    Admins      \* concurrent request handlers of the organiser's API

VARIABLES
    eventOpen,  \* the event's status is neither cancelled nor archived
    req         \* req[p]: the request handler p is serving

handlerVars == <<roster, invitations, eventOpen, req>>

Steps ==
    { "idle", "create_event", "create_roster", "create_exists",
      "create_insert", "roster_insert", "revoke_write" }

\* The steps of a request that is about one guest.
GuestSteps ==
    {"create_roster", "create_exists", "create_insert", "roster_insert"}

Request ==
    [ pc    : Steps,
      guest : Guests \cup {NoGuest},
      inv   : Invs \cup {NoInv},
      todo  : SUBSET Guests ]   \* guests of a batch still to be served

Idle == [ pc |-> "idle", guest |-> NoGuest, inv |-> NoInv, todo |-> {} ]

----------------------------------------------------------------------------
(* Control flow of a handler.                                              *)

Goto(p, r) == req' = [req EXCEPT ![p] = r]

\* Goes on with the rest of a batch; a single create is a batch of one.
Serve(p, rest) ==
    Goto(p, IF rest = {}
            THEN Idle
            ELSE [Idle EXCEPT !.pc = "create_event", !.todo = rest])

\* A single create runs Create for the first guest of the request.
CreateRequest(p, g) ==
    /\ req[p].pc = "idle"
    /\ Serve(p, {g})
    /\ UNCHANGED <<roster, invitations, eventOpen>>

\* A batch reads the event, then runs Create for every guest and goes on
\* whatever the outcome.
GenerateBatch(p, gs) ==
    /\ req[p].pc = "idle"
    /\ eventOpen
    /\ Serve(p, gs)
    /\ UNCHANGED <<roster, invitations, eventOpen>>

\* Create reads the event and refuses a cancelled or archived one.
CreateCheckEvent(p, g) ==
    /\ req[p].pc = "create_event"
    /\ g \in req[p].todo
    /\ LET rest == req[p].todo \ {g} IN
       IF eventOpen
       THEN Goto(p, [ pc |-> "create_roster", guest |-> g, inv |-> NoInv,
                      todo |-> rest ])
       ELSE Serve(p, rest)
    /\ UNCHANGED <<roster, invitations, eventOpen>>

\* Create requires an event_guests row, cancelled ones included.
CreateCheckRoster(p) ==
    /\ req[p].pc = "create_roster"
    /\ IF OnRoster(req[p].guest)
       THEN Goto(p, [req[p] EXCEPT !.pc = "create_exists"])
       ELSE Serve(p, req[p].todo)
    /\ UNCHANGED <<roster, invitations, eventOpen>>

\* Create refuses a guest that already has a live invitation.
CreateCheckExists(p) ==
    /\ req[p].pc = "create_exists"
    /\ IF ExistsForGuest(req[p].guest)
       THEN Serve(p, req[p].todo)
       ELSE Goto(p, [req[p] EXCEPT !.pc = "create_insert"])
    /\ UNCHANGED <<roster, invitations, eventOpen>>

\* Create inserts the row ...
CreateInsert(p, i, n) ==
    /\ req[p].pc = "create_insert"
    /\ invitations[i].status = "absent"
    /\ UniqueActive(req[p].guest)
    /\ invitations' = [invitations EXCEPT ![i] =
         [ guest |-> req[p].guest, status |-> "draft", deleted |-> FALSE,
           revoked |-> FALSE, expired |-> FALSE, maxPax |-> n ]]
    /\ Serve(p, req[p].todo)
    /\ UNCHANGED <<roster, eventOpen>>

\* ... unless another handler invited the guest since the check: the unique
\* index rejects the row and Create returns the error.
CreateConflict(p) ==
    /\ req[p].pc = "create_insert"
    /\ ~UniqueActive(req[p].guest)
    /\ Serve(p, req[p].todo)
    /\ UNCHANGED <<roster, invitations, eventOpen>>

\* EventGuestService.Create refuses a guest that has a row already ...
RosterCheck(p, g) ==
    /\ req[p].pc = "idle"
    /\ ~OnRoster(g)
    /\ Goto(p, [Idle EXCEPT !.pc = "roster_insert", !.guest = g])
    /\ UNCHANGED <<roster, invitations, eventOpen>>

\* ... and inserts one, which idx_event_guests_unique_active may reject.
RosterInsert(p) ==
    /\ req[p].pc = "roster_insert"
    /\ roster' = IF OnRoster(req[p].guest)
                 THEN roster
                 ELSE [roster EXCEPT ![req[p].guest] = "active"]
    /\ Goto(p, Idle)
    /\ UNCHANGED <<invitations, eventOpen>>

\* Revoke reads the row and refuses one that is already revoked ...
RevokeRead(p, i) ==
    /\ req[p].pc = "idle"
    /\ Live(i)
    /\ invitations[i].status # "revoked"
    /\ Goto(p, [Idle EXCEPT !.pc = "revoke_write", !.inv = i])
    /\ UNCHANGED <<roster, invitations, eventOpen>>

\* Mutant: Revoke's UPDATE without deleted_at IS NULL.
RevokeDeletedToo(p) ==
    /\ req[p].pc = "revoke_write"
    /\ invitations' = [invitations EXCEPT ![req[p].inv].status = "revoked",
                                          ![req[p].inv].revoked = TRUE]
    /\ Goto(p, Idle)
    /\ UNCHANGED <<roster, eventOpen>>

\* ... then updates it, unless it was deleted in between.
RevokeWrite(p) ==
    /\ req[p].pc = "revoke_write"
    /\ IF Live(req[p].inv)
       THEN invitations' = [invitations EXCEPT ![req[p].inv].status = "revoked",
                                               ![req[p].inv].revoked = TRUE]
       ELSE UNCHANGED invitations
    /\ Goto(p, Idle)
    /\ UNCHANGED <<roster, eventOpen>>

\* The request's context is cancelled or a statement fails: the handler
\* returns where it stands.
AbortRequest(p) ==
    /\ req[p].pc # "idle"
    /\ Goto(p, Idle)
    /\ UNCHANGED <<roster, invitations, eventOpen>>

\* EventService.Update sets any valid status, in either direction.
SetEventStatus ==
    /\ eventOpen' = ~eventOpen
    /\ UNCHANGED <<roster, invitations, req>>

\* Requests that are a single statement, the clock and the RSVP handlers.
OneStatement ==
    /\ \/ \E g \in Guests : CancelGuest(g)
       \/ \E i \in Invs : SoftDelete(i) \/ Expire(i) \/ MarkResponded(i)
    /\ UNCHANGED <<eventOpen, req>>

----------------------------------------------------------------------------

InvitationsInit ==
    /\ TableInit
    /\ eventOpen = TRUE
    /\ req = [p \in Admins |-> Idle]

InvitationsNext ==
    \/ \E p \in Admins, g \in Guests :
         \/ CreateRequest(p, g)
         \/ CreateCheckEvent(p, g)
         \/ RosterCheck(p, g)
    \/ \E p \in Admins, gs \in SUBSET Guests : GenerateBatch(p, gs)
    \/ \E p \in Admins, i \in Invs :
         \/ \E n \in MaxPaxes : CreateInsert(p, i, n)
         \/ RevokeRead(p, i)
    \/ \E p \in Admins :
         \/ CreateCheckRoster(p)
         \/ CreateCheckExists(p)
         \/ CreateConflict(p)
         \/ RosterInsert(p)
         \/ RevokeWrite(p)
         \/ AbortRequest(p)
    \/ OneStatement
    \/ SetEventStatus

InvitationsSpec == InvitationsInit /\ [][InvitationsNext]_handlerVars

----------------------------------------------------------------------------
(* Properties.                                                             *)

InvitationsTypeOK ==
    /\ TableTypeOK
    /\ eventOpen \in BOOLEAN
    /\ req \in [Admins -> Request]
    /\ \A p \in Admins : req[p].pc \in GuestSteps => req[p].guest \in Guests

\* What a create may rely on between its roster check and its INSERT: the
\* roster row it found is still there, although others cancel guests.
CreateHasRoster ==
    \A p \in Admins :
        req[p].pc \in {"create_exists", "create_insert"} =>
            OnRoster(req[p].guest)
=============================================================================

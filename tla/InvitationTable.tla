-------------------------- MODULE InvitationTable --------------------------
(***************************************************************************)
(* The event_guests and invitations tables of one event, and what may      *)
(* happen to them: the atomic service that the handlers of Invitations     *)
(* promise, and the environment the RSVP and check-in handlers live in.    *)
(* Each action is one SQL statement that takes effect.                     *)
(***************************************************************************)
EXTENDS Integers

CONSTANTS
    Guests,     \* contacts of the tenant that may be put on the roster
    Invs,       \* identities of the invitation rows that may be created
    MaxPaxes,   \* max_pax values a create request may carry (none is refused)
    NoGuest,    \* the guest of a row that does not exist
    NoInv       \* "no invitation", in a request or a row that has none

ASSUME TableAssumption ==
    /\ NoGuest \notin Guests
    /\ NoInv \notin Invs
    /\ MaxPaxes \subseteq Int

VARIABLES
    roster,         \* roster[g]: the event_guests row of guest g
    invitations     \* invitations[i]: the invitations row i

tableVars == <<roster, invitations>>

----------------------------------------------------------------------------
(* Rows.  A row that was never inserted has status "absent".               *)

RosterStatuses == {"absent", "active", "cancelled"}

\* "sent", "opened", "expired" and "failed" exist as constants, but no
\* statement the code reaches writes them (MarkOpened has no caller).
InvitationStatuses == {"absent", "draft", "responded", "revoked"}

Invitation ==
    [ guest   : Guests \cup {NoGuest},
      status  : InvitationStatuses,
      deleted : BOOLEAN,      \* deleted_at IS NOT NULL
      revoked : BOOLEAN,      \* revoked_at IS NOT NULL; never cleared
      expired : BOOLEAN,      \* expires_at has passed
      maxPax  : Int ]

NoRow ==
    [ guest |-> NoGuest, status |-> "absent", deleted |-> FALSE,
      revoked |-> FALSE, expired |-> FALSE, maxPax |-> 0 ]

----------------------------------------------------------------------------
(* Queries.                                                                *)

OnRoster(g) == roster[g] # "absent"

\* Every statement on invitations filters on deleted_at IS NULL.
Live(i) == invitations[i].status # "absent" /\ ~invitations[i].deleted

\* The live invitation rows of guest g.
InvitationsOf(g) == {i \in Invs : Live(i) /\ invitations[i].guest = g}

ExistsForGuest(g) == InvitationsOf(g) # {}

\* Mutant: migration 014 without its unique index.
NoUniqueIndex(g) == TRUE

\* idx_invitations_unique_active: (event_id, guest_id) where not deleted.
UniqueActive(g) == InvitationsOf(g) = {}

\* A token is accepted: GetByTokenHash finds its row, and ValidateToken (and
\* its twin validateTokenForRSVP) finds it neither revoked nor expired.
ValidToken(i) ==
    /\ Live(i)
    /\ invitations[i].status # "revoked"
    /\ ~invitations[i].expired

----------------------------------------------------------------------------
(* Statements.                                                             *)

AddGuest(g) ==
    /\ ~OnRoster(g)
    /\ roster' = [roster EXCEPT ![g] = "active"]
    /\ UNCHANGED invitations

\* Mutant: Cancel deletes the row.
CancelDeletesRow(g) ==
    /\ OnRoster(g)
    /\ roster' = [roster EXCEPT ![g] = "absent"]
    /\ UNCHANGED invitations

\* Cancel only updates the status; the row stays.
CancelGuest(g) ==
    /\ OnRoster(g)
    /\ roster' = [roster EXCEPT ![g] = "cancelled"]
    /\ UNCHANGED invitations

Issue(i, g, n) ==
    /\ invitations[i].status = "absent"
    /\ OnRoster(g)
    /\ UniqueActive(g)
    /\ invitations' = [invitations EXCEPT ![i] =
         [ guest |-> g, status |-> "draft", deleted |-> FALSE,
           revoked |-> FALSE, expired |-> FALSE, maxPax |-> n ]]
    /\ UNCHANGED roster

Revoke(i) ==
    /\ Live(i)
    /\ invitations' = [invitations EXCEPT ![i].status = "revoked",
                                          ![i].revoked = TRUE]
    /\ UNCHANGED roster

\* SoftDelete also sets the status.
SoftDelete(i) ==
    /\ Live(i)
    /\ invitations' = [invitations EXCEPT ![i].status = "revoked",
                                          ![i].deleted = TRUE]
    /\ UNCHANGED roster

\* UpdateStatus(responded): no condition on the status it overwrites.
MarkResponded(i) ==
    /\ Live(i)
    /\ invitations' = [invitations EXCEPT ![i].status = "responded"]
    /\ UNCHANGED roster

\* The clock passes expires_at; no statement records it.
Expire(i) ==
    /\ invitations[i].status # "absent"
    /\ ~invitations[i].expired
    /\ invitations' = [invitations EXCEPT ![i].expired = TRUE]
    /\ UNCHANGED roster

----------------------------------------------------------------------------

TableInit ==
    /\ roster = [g \in Guests |-> "absent"]
    /\ invitations = [i \in Invs |-> NoRow]

\* What the organiser's side does; the answers of the guests come from Rsvp.
OrganiserNext ==
    \/ \E g \in Guests : AddGuest(g) \/ CancelGuest(g)
    \/ \E i \in Invs :
         \/ \E g \in Guests, n \in MaxPaxes : Issue(i, g, n)
         \/ Revoke(i)
         \/ SoftDelete(i)
         \/ Expire(i)

TableNext == OrganiserNext \/ \E i \in Invs : MarkResponded(i)

TableSpec == TableInit /\ [][TableNext]_tableVars

----------------------------------------------------------------------------
(* Properties.                                                             *)

TableTypeOK ==
    /\ roster \in [Guests -> RosterStatuses]
    /\ invitations \in [Invs -> Invitation]

\* migrations/014: "Unique constraint: one active invitation per guest per
\* event".  However creates, batches, revocations and deletions interleave,
\* a guest never holds two live invitations of the event.
OneLiveInvitation ==
    \A i, j \in Invs :
        Live(i) /\ Live(j) /\ invitations[i].guest = invitations[j].guest
            => i = j

\* "Invitations are credentials for an event roster member, never for a
\* tenant-wide contact that has not been added to this event"
\* (InvitationService.Create): every invitation row, deleted ones included,
\* belongs to a guest that has a roster row.
InvitedIsOnRoster ==
    \A i \in Invs :
        invitations[i].status # "absent" =>
            /\ invitations[i].guest \in Guests
            /\ OnRoster(invitations[i].guest)

\* A soft-deleted invitation is a dead credential: it stays revoked, whatever
\* the handlers that found it alive before the deletion still write.
DeletedIsDead ==
    \A i \in Invs : invitations[i].deleted => invitations[i].status = "revoked"
=============================================================================

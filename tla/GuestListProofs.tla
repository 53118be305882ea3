--------------------------- MODULE GuestListProofs ---------------------------
(***************************************************************************)
(* The guest list of an event for every set of guests, invitations and     *)
(* request handlers: the tables, the organiser's handlers (Invitations),   *)
(* the answers (Rsvp) and the door (Checkin).  The three sets of handlers  *)
(* share the tables and nothing else, so each is proved to take only steps *)
(* of TableNext, and what a step of the tables keeps is proved once.       *)
(***************************************************************************)
EXTENDS Invitations, Rsvp, Checkin, FiniteSetTheorems, TLAPS

----------------------------------------------------------------------------
(* The tables keep their promises for every interleaving of statements.    *)

TableInv ==
    /\ TableTypeOK
    /\ OneLiveInvitation
    /\ InvitedIsOnRoster
    /\ DeletedIsDead

USE DEF Live, OnRoster, UniqueActive, InvitationsOf, ExistsForGuest

\* The empty tables are as promised.
LEMMA TableInitInv == TableInit => TableInv
  BY TableAssumption DEF TableInit, TableInv, TableTypeOK, OneLiveInvitation,
     InvitedIsOnRoster, DeletedIsDead, NoRow, Invitation, InvitationStatuses,
     RosterStatuses

\* A step of the tables preserves the types.
LEMMA TableTypeStep == TableTypeOK /\ [TableNext]_tableVars => TableTypeOK'
<1> SUFFICES ASSUME TableTypeOK, [TableNext]_tableVars PROVE TableTypeOK'
  OBVIOUS
<1> USE TableAssumption DEF TableTypeOK, Invitation, InvitationStatuses,
      RosterStatuses
<1>1. ASSUME NEW g \in Guests, AddGuest(g) PROVE TableTypeOK'
  BY <1>1 DEF AddGuest
<1>2. ASSUME NEW g \in Guests, CancelGuest(g) PROVE TableTypeOK'
  BY <1>2 DEF CancelGuest
<1>3. ASSUME NEW i \in Invs, NEW g \in Guests, NEW n \in MaxPaxes, Issue(i, g, n)
      PROVE TableTypeOK'
  BY <1>3 DEF Issue
<1>4. ASSUME NEW i \in Invs, Revoke(i) PROVE TableTypeOK'
  <2> DEFINE row == [invitations[i] EXCEPT !.status = "revoked", !.revoked = TRUE]
  <2>1. row \in Invitation
    OBVIOUS
  <2>2. invitations' = [invitations EXCEPT ![i] = row] /\ roster' = roster
    BY <1>4 DEF Revoke
  <2> HIDE DEF row
  <2> QED
    BY <2>1, <2>2
<1>5. ASSUME NEW i \in Invs, SoftDelete(i) PROVE TableTypeOK'
  <2> DEFINE row == [invitations[i] EXCEPT !.status = "revoked", !.deleted = TRUE]
  <2>1. row \in Invitation
    OBVIOUS
  <2>2. invitations' = [invitations EXCEPT ![i] = row] /\ roster' = roster
    BY <1>5 DEF SoftDelete
  <2> HIDE DEF row
  <2> QED
    BY <2>1, <2>2
<1>6. ASSUME NEW i \in Invs, Expire(i) PROVE TableTypeOK'
  BY <1>6 DEF Expire
<1>7. ASSUME NEW i \in Invs, MarkResponded(i) PROVE TableTypeOK'
  BY <1>7 DEF MarkResponded
<1>8. CASE UNCHANGED tableVars
  BY <1>8 DEF tableVars
<1> QED
  BY <1>1, <1>2, <1>3, <1>4, <1>5, <1>6, <1>7, <1>8 DEF TableNext, OrganiserNext

\* A statement that takes effect keeps the index, the roster link and the
\* dead rows: INSERT is guarded by the index and the roster check, the
\* UPDATEs by deleted_at IS NULL.
LEMMA TableInvStep == TableInv /\ [TableNext]_tableVars => TableInv'
<1> SUFFICES ASSUME TableInv, [TableNext]_tableVars PROVE TableInv'
  OBVIOUS
<1> USE DEF TableInv
<1>t. TableTypeOK'
  BY TableTypeStep
<1>1. ASSUME NEW g \in Guests, AddGuest(g) \/ CancelGuest(g) PROVE TableInv'
  <2>1. invitations' = invitations /\ (\A h \in Guests : OnRoster(h) => OnRoster(h)')
    BY <1>1 DEF AddGuest, CancelGuest, TableTypeOK
  <2> QED
    BY <1>t, <2>1 DEF OneLiveInvitation, InvitedIsOnRoster, DeletedIsDead
<1>2. ASSUME NEW i \in Invs, NEW g \in Guests, NEW n \in MaxPaxes, Issue(i, g, n)
      PROVE TableInv'
  <2>1. /\ roster' = roster
        /\ invitations'[i].guest = g /\ invitations'[i].status = "draft"
        /\ invitations'[i].deleted = FALSE
        /\ \A j \in Invs : j # i => invitations'[j] = invitations[j]
    BY <1>2 DEF Issue, TableTypeOK
  <2>2. \A j \in Invs : j # i /\ Live(j) => invitations[j].guest # g
    BY <1>2 DEF Issue
  <2>3. OneLiveInvitation'
    BY <2>1, <2>2 DEF OneLiveInvitation
  <2>4. InvitedIsOnRoster'
    BY <1>2, <2>1 DEF InvitedIsOnRoster, Issue
  <2>5. DeletedIsDead'
    BY <2>1 DEF DeletedIsDead
  <2> QED
    BY <1>t, <2>3, <2>4, <2>5
<1>3. ASSUME NEW i \in Invs, Revoke(i) \/ SoftDelete(i) \/ MarkResponded(i) \/ Expire(i)
      PROVE TableInv'
  <2>1. /\ roster' = roster
        /\ invitations[i].status # "absent"
        /\ invitations'[i].guest = invitations[i].guest
        /\ invitations'[i].status # "absent"
        /\ invitations[i].deleted => invitations'[i].deleted
        /\ invitations'[i].deleted => invitations'[i].status = "revoked"
        /\ \A j \in Invs : j # i => invitations'[j] = invitations[j]
    BY <1>3 DEF Revoke, SoftDelete, MarkResponded, Expire, TableTypeOK,
       Invitation, DeletedIsDead
  <2>2. \A j \in Invs : Live(j)' => Live(j)
    BY <2>1, <1>t DEF TableTypeOK, Invitation
  <2>3. OneLiveInvitation'
    BY <2>1, <2>2 DEF OneLiveInvitation
  <2>4. InvitedIsOnRoster'
    BY <2>1 DEF InvitedIsOnRoster
  <2>5. DeletedIsDead'
    BY <2>1 DEF DeletedIsDead
  <2> QED
    BY <1>t, <2>3, <2>4, <2>5
<1>4. CASE UNCHANGED tableVars
  BY <1>4, <1>t DEF tableVars, OneLiveInvitation, InvitedIsOnRoster, DeletedIsDead
<1> QED
  BY <1>1, <1>2, <1>3, <1>4 DEF TableNext, OrganiserNext

\* Roster rows are never deleted.
LEMMA RosterGrows ==
    TableTypeOK /\ [TableNext]_tableVars =>
        \A g \in Guests : OnRoster(g) => OnRoster(g)'
  BY DEF TableTypeOK, TableNext, OrganiserNext, AddGuest, CancelGuest, Issue,
     Revoke, SoftDelete, Expire, MarkResponded, tableVars

\* An issued row keeps its guest and its max_pax: no statement of the tables
\* inserts over it or updates these columns.
LEMMA IssuedStays ==
    TableTypeOK /\ [TableNext]_tableVars =>
        \A i \in Invs : invitations[i].status # "absent" =>
            /\ invitations'[i].status # "absent"
            /\ invitations'[i].guest = invitations[i].guest
            /\ invitations'[i].maxPax = invitations[i].maxPax
            /\ invitations'[i].status # invitations[i].status =>
                 invitations'[i].status \in {"revoked", "responded"}
<1> SUFFICES ASSUME TableTypeOK, [TableNext]_tableVars,
                    NEW i \in Invs, invitations[i].status # "absent"
             PROVE  /\ invitations'[i].status # "absent"
                    /\ invitations'[i].guest = invitations[i].guest
                    /\ invitations'[i].maxPax = invitations[i].maxPax
                    /\ invitations'[i].status # invitations[i].status =>
                         invitations'[i].status \in {"revoked", "responded"}
  OBVIOUS
<1> USE DEF TableTypeOK, Invitation
<1>1. ASSUME NEW g \in Guests, AddGuest(g) \/ CancelGuest(g) PROVE invitations' = invitations
  BY <1>1 DEF AddGuest, CancelGuest
<1>2. ASSUME NEW j \in Invs, NEW g \in Guests, NEW n \in MaxPaxes, Issue(j, g, n)
      PROVE invitations'[i] = invitations[i]
  BY <1>2 DEF Issue
<1>3. ASSUME NEW j \in Invs, Revoke(j) \/ SoftDelete(j) \/ MarkResponded(j) \/ Expire(j)
      PROVE  /\ invitations'[i].status # "absent"
             /\ invitations'[i].guest = invitations[i].guest
             /\ invitations'[i].maxPax = invitations[i].maxPax
             /\ invitations'[i].status # invitations[i].status =>
                  invitations'[i].status \in {"revoked", "responded"}
  BY <1>3 DEF Revoke, SoftDelete, MarkResponded, Expire
<1> QED
  BY <1>1, <1>2, <1>3 DEF TableNext, OrganiserNext, tableVars

\* However statements interleave, the tables keep one live invitation per
\* guest, the roster link of every invitation and the deadness of deleted
\* ones (idx_invitations_unique_active, Create's roster check, and the
\* deleted_at filter of every UPDATE).
THEOREM TableCorrect == TableSpec => []TableInv
<1>1. TableInit => TableInv
  BY TableInitInv
<1>2. TableInv /\ [TableNext]_tableVars => TableInv'
  BY TableInvStep
<1> QED
  BY <1>1, <1>2, PTL DEF TableSpec

----------------------------------------------------------------------------
(* The handlers of Invitations implement the tables.                       *)

HandlerInv == InvitationsTypeOK /\ CreateHasRoster

\* Nobody is serving a request, nothing is on the tables.
LEMMA HandlerInit == InvitationsInit => HandlerInv
  BY TableAssumption DEF InvitationsInit, TableInit, HandlerInv,
     InvitationsTypeOK, TableTypeOK, CreateHasRoster, Idle, Request, Steps, GuestSteps,
     NoRow,
     Invitation, InvitationStatuses, RosterStatuses

\* Every step of a handler is a step of the tables or leaves them alone.
\* The INSERT of an invitation needs CreateHasRoster: the roster row was
\* read two statements earlier.
LEMMA HandlerRefines == HandlerInv /\ [InvitationsNext]_handlerVars => [TableNext]_tableVars
<1> SUFFICES ASSUME HandlerInv, [InvitationsNext]_handlerVars PROVE [TableNext]_tableVars
  OBVIOUS
<1> USE DEF HandlerInv, InvitationsTypeOK
<1>1. ASSUME NEW p \in Admins, NEW i \in Invs, NEW n \in MaxPaxes,
             CreateInsert(p, i, n)
      PROVE [TableNext]_tableVars
  <2>1. req[p].guest \in Guests /\ OnRoster(req[p].guest)
    BY <1>1 DEF CreateInsert, CreateHasRoster, GuestSteps
  <2>2. Issue(i, req[p].guest, n)
    BY <1>1, <2>1 DEF CreateInsert, Issue
  <2> QED
    BY <2>1, <2>2 DEF TableNext, OrganiserNext
<1>2. ASSUME NEW p \in Admins, RosterInsert(p) PROVE [TableNext]_tableVars
  <2>1. req[p].guest \in Guests
    BY <1>2 DEF RosterInsert, GuestSteps
  <2> QED
    BY <1>2, <2>1 DEF RosterInsert, AddGuest, TableNext, OrganiserNext,
       tableVars, TableTypeOK
<1>3. ASSUME NEW p \in Admins, RevokeWrite(p) PROVE [TableNext]_tableVars
  BY <1>3 DEF RevokeWrite, Revoke, TableNext, OrganiserNext, tableVars,
     TableTypeOK, Request
<1>4. CASE OneStatement
  BY <1>4 DEF OneStatement, TableNext, OrganiserNext
<1>5. ASSUME NEW p \in Admins, NEW g \in Guests,
             CreateRequest(p, g) \/ CreateCheckEvent(p, g) \/ RosterCheck(p, g)
      PROVE [TableNext]_tableVars
  BY <1>5 DEF CreateRequest, CreateCheckEvent, RosterCheck, tableVars
<1>6. ASSUME NEW p \in Admins, NEW gs \in SUBSET Guests, GenerateBatch(p, gs)
      PROVE [TableNext]_tableVars
  BY <1>6 DEF GenerateBatch, tableVars
<1>7. ASSUME NEW p \in Admins, NEW i \in Invs, RevokeRead(p, i)
      PROVE [TableNext]_tableVars
  BY <1>7 DEF RevokeRead, tableVars
<1>8. ASSUME NEW p \in Admins, CreateCheckRoster(p) \/ CreateCheckExists(p)
                              \/ CreateConflict(p)
      PROVE [TableNext]_tableVars
  BY <1>8 DEF CreateCheckRoster, CreateCheckExists, CreateConflict, tableVars
<1>10. ASSUME NEW p \in Admins, AbortRequest(p) PROVE [TableNext]_tableVars
  BY <1>10 DEF AbortRequest, tableVars
<1>9. CASE SetEventStatus \/ UNCHANGED handlerVars
  BY <1>9 DEF SetEventStatus, handlerVars, tableVars
<1> QED
  BY <1>1, <1>2, <1>3, <1>4, <1>5, <1>6, <1>7, <1>8, <1>9, <1>10
  DEF InvitationsNext

\* The local state of a handler keeps its type, and a create that has found
\* a roster row still has it: no step of any handler removes one.
LEMMA HandlerStep == HandlerInv /\ [InvitationsNext]_handlerVars => HandlerInv'
<1> SUFFICES ASSUME HandlerInv, [InvitationsNext]_handlerVars PROVE HandlerInv'
  OBVIOUS
<1> DEFINE Good(r) ==
      /\ r \in Request
      /\ r.pc \in GuestSteps => r.guest \in Guests
      /\ r.pc \in {"create_exists", "create_insert"} => roster'[r.guest] # "absent"
<1>t. TableTypeOK'
  BY HandlerRefines, TableTypeStep DEF HandlerInv, InvitationsTypeOK
<1>r. \A g \in Guests : OnRoster(g) => OnRoster(g)'
  BY HandlerRefines, RosterGrows DEF HandlerInv, InvitationsTypeOK
<1>g. \A p \in Admins : Good(req[p])
  BY <1>r DEF HandlerInv, InvitationsTypeOK, CreateHasRoster, GuestSteps
<1>q. SUFFICES eventOpen' \in BOOLEAN /\ req' \in [Admins -> Request]
               /\ \A p \in Admins : Good(req'[p])
  BY <1>t DEF HandlerInv, InvitationsTypeOK, CreateHasRoster
<1> HIDE DEF Good
<1>c. eventOpen \in BOOLEAN /\ req \in [Admins -> Request]
  BY DEF HandlerInv, InvitationsTypeOK
<1>goto. ASSUME NEW p \in Admins, NEW r, Good(r), Goto(p, r)
         PROVE  req' \in [Admins -> Request] /\ \A q \in Admins : Good(req'[q])
  <2>1. r \in Request
    BY <1>goto DEF Good
  <2> QED
    BY <1>goto, <2>1, <1>c, <1>g DEF Goto
<1>i. Good(Idle)
  BY TableAssumption DEF Good, Idle, Request, Steps, GuestSteps
<1>serve. ASSUME NEW p \in Admins, NEW rest \in SUBSET Guests, Serve(p, rest)
          PROVE  req' \in [Admins -> Request] /\ \A q \in Admins : Good(req'[q])
  <2>1. Good([Idle EXCEPT !.pc = "create_event", !.todo = rest])
    BY DEF Good, Idle, Request, Steps, GuestSteps
  <2> QED
    BY <1>serve, <1>goto, <1>i, <2>1 DEF Serve
<1>todo. \A p \in Admins : req[p].todo \in SUBSET Guests
  BY <1>c DEF Request
<1>1. ASSUME NEW p \in Admins, NEW g \in Guests, CreateRequest(p, g)
      PROVE  eventOpen' = eventOpen /\ \E rest \in SUBSET Guests : Serve(p, rest)
  BY <1>1 DEF CreateRequest
<1>2. ASSUME NEW p \in Admins, NEW g \in Guests, CreateCheckEvent(p, g)
      PROVE  eventOpen' = eventOpen /\ \E r : Good(r) /\ Goto(p, r)
  <2> DEFINE rest == req[p].todo \ {g}
             r == [ pc |-> "create_roster", guest |-> g, inv |-> NoInv, todo |-> rest ]
  <2>1. rest \in SUBSET Guests
    BY <1>todo
  <2>2. Good(r)
    BY <2>1 DEF Good, Request, Steps, GuestSteps
  <2>3. Good([Idle EXCEPT !.pc = "create_event", !.todo = rest])
    BY <2>1 DEF Good, Idle, Request, Steps, GuestSteps
  <2> QED
    BY <1>2, <1>i, <2>2, <2>3 DEF CreateCheckEvent, Serve
<1>3. ASSUME NEW p \in Admins, NEW g \in Guests, RosterCheck(p, g)
      PROVE  eventOpen' = eventOpen /\ \E r : Good(r) /\ Goto(p, r)
  <2>1. Good([Idle EXCEPT !.pc = "roster_insert", !.guest = g])
    BY DEF Good, Idle, Request, Steps, GuestSteps
  <2> QED
    BY <1>3, <2>1 DEF RosterCheck
<1>4. ASSUME NEW p \in Admins, NEW gs \in SUBSET Guests, GenerateBatch(p, gs)
      PROVE  eventOpen' = eventOpen /\ \E rest \in SUBSET Guests : Serve(p, rest)
  BY <1>4 DEF GenerateBatch
<1>5. ASSUME NEW p \in Admins, NEW i \in Invs, NEW n \in MaxPaxes,
             CreateInsert(p, i, n)
      PROVE  eventOpen' = eventOpen /\ \E rest \in SUBSET Guests : Serve(p, rest)
  BY <1>5, <1>todo DEF CreateInsert
<1>6. ASSUME NEW p \in Admins, CreateConflict(p)
      PROVE  eventOpen' = eventOpen /\ \E rest \in SUBSET Guests : Serve(p, rest)
  BY <1>6, <1>todo DEF CreateConflict
<1>7. ASSUME NEW p \in Admins, NEW i \in Invs, RevokeRead(p, i)
      PROVE  eventOpen' = eventOpen /\ \E r : Good(r) /\ Goto(p, r)
  <2>1. Good([Idle EXCEPT !.pc = "revoke_write", !.inv = i])
    BY DEF Good, Idle, Request, Steps, GuestSteps
  <2> QED
    BY <1>7, <2>1 DEF RevokeRead
<1>8. ASSUME NEW p \in Admins, CreateCheckRoster(p)
      PROVE  /\ eventOpen' = eventOpen
             /\ \/ \E r : Good(r) /\ Goto(p, r)
                \/ \E rest \in SUBSET Guests : Serve(p, rest)
  <2>1. CASE OnRoster(req[p].guest)
    <3>1. roster' = roster /\ req[p].guest \in Guests
      BY <1>8, <1>g DEF CreateCheckRoster, Good, GuestSteps
    <3>2. Good([req[p] EXCEPT !.pc = "create_exists"])
      BY <2>1, <3>1, <1>c DEF Good, Request, Steps
    <3> QED
      BY <1>8, <2>1, <3>2 DEF CreateCheckRoster
  <2>2. CASE ~OnRoster(req[p].guest)
    BY <1>8, <1>todo, <2>2 DEF CreateCheckRoster
  <2> QED
    BY <2>1, <2>2
<1>9. ASSUME NEW p \in Admins, CreateCheckExists(p)
      PROVE  /\ eventOpen' = eventOpen
             /\ \/ \E r : Good(r) /\ Goto(p, r)
                \/ \E rest \in SUBSET Guests : Serve(p, rest)
  <2>1. CASE ExistsForGuest(req[p].guest)
    BY <1>9, <1>todo, <2>1 DEF CreateCheckExists
  <2>2. CASE ~ExistsForGuest(req[p].guest)
    <3>1. Good([req[p] EXCEPT !.pc = "create_insert"])
      BY <1>9, <1>g, <1>c DEF CreateCheckExists, Good, Request, Steps, GuestSteps
    <3> QED
      BY <1>9, <2>2, <3>1 DEF CreateCheckExists
  <2> QED
    BY <2>1, <2>2
<1>10. ASSUME NEW p \in Admins, RosterInsert(p) \/ RevokeWrite(p) \/ AbortRequest(p)
      PROVE  eventOpen' = eventOpen /\ \E r : Good(r) /\ Goto(p, r)
  BY <1>10, <1>i DEF RosterInsert, RevokeWrite, AbortRequest
<1>11. CASE OneStatement \/ SetEventStatus \/ UNCHANGED handlerVars
  BY <1>11, <1>c, <1>g DEF OneStatement, SetEventStatus, handlerVars
<1> QED
  BY <1>c, <1>goto, <1>serve, <1>1, <1>2, <1>3, <1>4, <1>5, <1>6, <1>7, <1>8, <1>9,
     <1>10, <1>11 DEF InvitationsNext

\* A create relies on a roster row it read two statements before its INSERT:
\* for any number of handlers the row is still there (Cancel only changes
\* its status).
THEOREM HandlersCorrect == InvitationsSpec => [](InvitationsTypeOK /\ CreateHasRoster)
<1>1. InvitationsInit => HandlerInv
  BY HandlerInit
<1>2. HandlerInv /\ [InvitationsNext]_handlerVars => HandlerInv'
  BY HandlerStep
<1> QED
  BY <1>1, <1>2, PTL DEF InvitationsSpec, HandlerInv

\* The check-then-act handlers implement the atomic tables: each of their
\* writes is a statement TableSpec allows, whatever they read before it.
THEOREM Refinement == InvitationsSpec => TableSpec
<1>1. InvitationsInit => HandlerInv /\ TableInit
  BY HandlerInit DEF InvitationsInit
<1>2. HandlerInv /\ [InvitationsNext]_handlerVars => HandlerInv'
  BY HandlerStep
<1>3. HandlerInv /\ [InvitationsNext]_handlerVars => [TableNext]_tableVars
  BY HandlerRefines
<1> QED
  BY <1>1, <1>2, <1>3, PTL DEF InvitationsSpec, TableSpec

\* idx_invitations_unique_active and the order of the checks in Create keep
\* one live invitation per guest and the roster link of every invitation
\* under every interleaving of creates, batches, revocations and deletions.
THEOREM InvitationsSafe ==
    InvitationsSpec => []OneLiveInvitation /\ []InvitedIsOnRoster /\ []DeletedIsDead
<1>1. TableInv => OneLiveInvitation /\ InvitedIsOnRoster /\ DeletedIsDead
  BY DEF TableInv
<1> QED
  BY <1>1, TableCorrect, Refinement, PTL

----------------------------------------------------------------------------
(* The RSVP handlers implement the tables, and the two tables agree.       *)

USE DEF HasResponse

\* Every step of an RSVP handler is a step of the tables or leaves them
\* alone: MarkInvitation finds the row alive or writes nothing.
LEMMA RsvpRefinesStep == RsvpTypeOK /\ [RsvpFaultyNext]_rsvpAllVars => [TableNext]_tableVars
<1> SUFFICES ASSUME RsvpTypeOK, [RsvpFaultyNext]_rsvpAllVars PROVE [TableNext]_tableVars
  OBVIOUS
<1> USE DEF tableVars
<1>1. CASE OrganiserStep
  BY <1>1 DEF OrganiserStep, TableNext
<1>2. ASSUME NEW c \in Clients, MarkInvitation(c) PROVE [TableNext]_tableVars
  <2>1. sub[c].inv \in Invs
    BY <1>2 DEF RsvpTypeOK, MarkInvitation
  <2> QED
    BY <1>2, <2>1 DEF MarkInvitation, TableNext
<1>3. ASSUME NEW c \in Clients, NEW i \in Invs, NEW n \in Paxes, NEW s \in RsvpStatuses,
             SubmitToken(c, i, s, n) \/ UpsertFind(c, i, s, n)
               \/ UpdateByOfficer(c, i, s, n)
      PROVE [TableNext]_tableVars
  BY <1>3 DEF SubmitToken, UpsertFind, UpdateByOfficer
<1>4. ASSUME NEW c \in Clients,
             SubmitDeadline(c) \/ CapacitySum(c) \/ CapacityOwn(c) \/ LookUp(c)
               \/ WriteResponse(c) \/ AbortSub(c)
      PROVE [TableNext]_tableVars
  BY <1>4 DEF SubmitDeadline, CapacitySum, CapacityOwn, LookUp, WriteResponse, StoreResponse, AbortSub
<1>5. CASE MoveDeadline \/ UNCHANGED rsvpAllVars
  BY <1>5 DEF MoveDeadline, rsvpAllVars
<1> QED
  BY <1>1, <1>2, <1>3, <1>4, <1>5
  DEF RsvpFaultyNext, RsvpNext, RsvpCheckedNext, UpsertByGuest, EditById, RsvpStatuses, SubmitStatuses

----------------------------------------------------------------------------
(* The inductive invariant.                                                *)

\* What a request knows about the row it works on.  It is about a row that
\* was issued, whose max_pax is the one it read; the row of an edit is there,
\* and so is the row of an answer about to be marked.
Known(r) ==
    r.pc # "idle" =>
        /\ invitations[r.inv].status # "absent"
        /\ r.route \in {"submit", "upsert", "update"}
        /\ r.route = "submit" => r.maxPax = invitations[r.inv].maxPax
        /\ r.route = "submit" /\ r.pc \in {"look", "write", "mark"} => r.pax <= r.maxPax
        /\ r.route = "update" => r.pc \in {"cap_sum", "cap_own", "write"}
        /\ r.route = "update" \/ r.pc = "mark" => HasResponse(r.inv)

\* Only an invitation that was issued has an answer.
AnsweredIsIssued ==
    \A i \in Invs : HasResponse(i) => invitations[i].status # "absent"

RsvpInv ==
    /\ RsvpTypeOK
    /\ AnsweredIsIssued
    /\ \A c \in Clients : Known(sub[c])
    /\ MarkedIsAnswered

\* Nobody has been invited and nobody has answered.
LEMMA RsvpInitInv == RsvpInit => RsvpInv
<1> SUFFICES ASSUME RsvpInit PROVE RsvpInv
  OBVIOUS
<1>1. TableTypeOK /\ \A i \in Invs : invitations[i].status = "absent"
  BY TableInitInv DEF RsvpInit, TableInv, TableInit, NoRow
<1>2. deadlinePassed \in BOOLEAN /\ \A i \in Invs : ~HasResponse(i)
  BY DEF RsvpInit, NoResponse
<1>3. rsvp \in [Invs -> Response]
  BY DEF RsvpInit, NoResponse, Response
<1>4. IdleSub \in Submission /\ IdleSub.pc = "idle"
  BY DEF IdleSub, Submission, SubSteps, RsvpStatuses, SubmitStatuses
<1>5. sub \in [Clients -> Submission] /\ \A c \in Clients : sub[c].pc = "idle"
  BY <1>4 DEF RsvpInit
<1> QED
  BY <1>1, <1>2, <1>3, <1>5 DEF RsvpInv, RsvpTypeOK, AnsweredIsIssued, Known, MarkedIsAnswered

\* A deleted row stays deleted.
LEMMA DeletedStays ==
    TableTypeOK /\ [TableNext]_tableVars =>
        \A i \in Invs : Live(i)' /\ invitations[i].status # "absent" => Live(i)
<1> SUFFICES ASSUME TableTypeOK, [TableNext]_tableVars,
                    NEW i \in Invs, Live(i)', invitations[i].status # "absent"
             PROVE  Live(i)
  OBVIOUS
<1> USE DEF TableTypeOK, Invitation
<1>1. ASSUME NEW g \in Guests, AddGuest(g) \/ CancelGuest(g) PROVE invitations' = invitations
  BY <1>1 DEF AddGuest, CancelGuest
<1>2. ASSUME NEW j \in Invs, NEW g \in Guests, NEW n \in MaxPaxes, Issue(j, g, n)
      PROVE Live(i)
  BY <1>2 DEF Issue
<1>3. ASSUME NEW j \in Invs, Revoke(j) \/ SoftDelete(j) \/ MarkResponded(j) \/ Expire(j)
      PROVE Live(i)
  BY <1>3 DEF Revoke, SoftDelete, MarkResponded, Expire
<1> QED
  BY <1>1, <1>2, <1>3 DEF TableNext, OrganiserNext, tableVars

\* The organiser never marks an invitation responded.
LEMMA OrganiserMarksNothing ==
    TableTypeOK /\ OrganiserNext =>
        \A i \in Invs : invitations'[i].status = "responded" =>
            invitations[i].status = "responded"
<1> SUFFICES ASSUME TableTypeOK, OrganiserNext,
                    NEW i \in Invs, invitations'[i].status = "responded"
             PROVE  invitations[i].status = "responded"
  OBVIOUS
<1> USE DEF TableTypeOK, Invitation
<1>1. ASSUME NEW g \in Guests, AddGuest(g) \/ CancelGuest(g) PROVE invitations' = invitations
  BY <1>1 DEF AddGuest, CancelGuest
<1>2. ASSUME NEW j \in Invs, NEW g \in Guests, NEW n \in MaxPaxes, Issue(j, g, n)
      PROVE invitations[i].status = "responded"
  BY <1>2 DEF Issue
<1>3. ASSUME NEW j \in Invs, Revoke(j) \/ SoftDelete(j) \/ Expire(j)
      PROVE invitations[i].status = "responded"
  BY <1>3 DEF Revoke, SoftDelete, Expire
<1> QED
  BY <1>1, <1>2, <1>3 DEF OrganiserNext

\* An answer is typed and is never taken back: only WriteResponse touches
\* the table, and it stores a status.
LEMMA AnswersGrow ==
    RsvpTypeOK /\ [RsvpFaultyNext]_rsvpAllVars =>
        /\ rsvp' \in [Invs -> Response]
        /\ \A i \in Invs : HasResponse(i) => HasResponse(i)'
        /\ \/ rsvp' = rsvp
           \/ \E c \in Clients : WriteResponse(c)
<1> SUFFICES ASSUME RsvpTypeOK, [RsvpFaultyNext]_rsvpAllVars
             PROVE  /\ rsvp' \in [Invs -> Response]
                    /\ \A i \in Invs : HasResponse(i) => HasResponse(i)'
                    /\ \/ rsvp' = rsvp
                       \/ \E c \in Clients : WriteResponse(c)
  OBVIOUS
<1>1. ASSUME NEW c \in Clients, WriteResponse(c)
      PROVE  /\ rsvp' \in [Invs -> Response]
             /\ \A i \in Invs : HasResponse(i) => HasResponse(i)'
  <2>1. /\ sub[c] \in Submission /\ sub[c].inv \in Invs
        /\ sub[c].status \in RsvpStatuses /\ sub[c].status # "absent"
        /\ sub[c].pax \in Int
    BY <1>1 DEF RsvpTypeOK, WriteResponse, StoreResponse, Submission, RsvpStatuses, SubmitStatuses
  <2> DEFINE row == [ status |-> sub[c].status, pax |-> sub[c].pax ]
  <2>2. row \in Response /\ row.status # "absent"
    BY <2>1 DEF Response
  <2>3. rsvp' = rsvp \/ rsvp' = [rsvp EXCEPT ![sub[c].inv] = row]
    BY <1>1 DEF WriteResponse, StoreResponse
  <2> HIDE DEF row
  <2> QED
    BY <2>1, <2>2, <2>3 DEF RsvpTypeOK
<1>2. rsvp' = rsvp \/ \E c \in Clients : WriteResponse(c)
  BY DEF RsvpFaultyNext, RsvpNext, RsvpCheckedNext, UpsertByGuest, EditById, OrganiserStep, rsvpAllVars,
     SubmitToken, UpsertFind,
     UpdateByOfficer, SubmitDeadline, CapacitySum, CapacityOwn, LookUp, MarkInvitation,
     MoveDeadline, AbortSub
<1> QED
  BY <1>1, <1>2 DEF RsvpTypeOK

\* Every request keeps knowing its row, whatever the other handlers do.
LEMMA RsvpInvStep == RsvpInv /\ [RsvpFaultyNext]_rsvpAllVars => RsvpInv'
<1> SUFFICES ASSUME RsvpInv, [RsvpFaultyNext]_rsvpAllVars PROVE RsvpInv'
  OBVIOUS
<1> DEFINE K(r) ==
      /\ r \in Submission
      /\ r.pc # "idle" =>
           /\ r.inv \in Invs
           /\ invitations'[r.inv].status # "absent"
           /\ r.route \in {"submit", "upsert", "update"}
           /\ r.route = "submit" => r.maxPax = invitations'[r.inv].maxPax
           /\ r.route = "submit" /\ r.pc \in {"look", "write", "mark"} => r.pax <= r.maxPax
           /\ r.route = "update" => r.pc \in {"cap_sum", "cap_own", "write"}
           /\ r.route = "update" \/ r.pc = "mark" => rsvp'[r.inv].status # "absent"
<1>c. RsvpTypeOK /\ sub \in [Clients -> Submission]
  BY DEF RsvpInv, RsvpTypeOK
<1>t. [TableNext]_tableVars /\ TableTypeOK'
  BY <1>c, RsvpRefinesStep, TableTypeStep DEF RsvpTypeOK
<1>i. \A i \in Invs : invitations[i].status # "absent" =>
          /\ invitations'[i].status # "absent"
          /\ invitations'[i].maxPax = invitations[i].maxPax
  BY <1>c, <1>t, IssuedStays DEF RsvpTypeOK
<1>h. /\ rsvp' \in [Invs -> Response]
      /\ \A i \in Invs : HasResponse(i) => rsvp'[i].status # "absent"
      /\ rsvp' = rsvp \/ \E c \in Clients : WriteResponse(c)
  BY <1>c, AnswersGrow
<1>k. \A c \in Clients : K(sub[c])
  <2> SUFFICES ASSUME NEW c \in Clients PROVE K(sub[c])
    OBVIOUS
  <2>1. sub[c] \in Submission /\ Known(sub[c])
        /\ (sub[c].pc # "idle" => sub[c].inv \in Invs)
    BY DEF RsvpInv, RsvpTypeOK
  <2> QED
    BY <2>1, <1>i, <1>h DEF Known
<1>d. deadlinePassed' \in BOOLEAN
  BY <1>c DEF RsvpTypeOK, RsvpFaultyNext, RsvpNext, RsvpCheckedNext, UpsertByGuest, EditById, OrganiserStep,
     rsvpAllVars, SubmitToken,
     UpsertFind, UpdateByOfficer, SubmitDeadline, CapacitySum, CapacityOwn, LookUp,
     WriteResponse, StoreResponse, MarkInvitation, MoveDeadline, AbortSub
<1>a. AnsweredIsIssued'
  <2>1. ASSUME NEW c \in Clients, WriteResponse(c) PROVE AnsweredIsIssued'
    <3>1. sub[c].inv \in Invs /\ invitations'[sub[c].inv].status # "absent"
      BY <2>1, <1>k DEF WriteResponse, StoreResponse
    <3>2. \A i \in Invs : i # sub[c].inv => rsvp'[i] = rsvp[i]
      BY <2>1, <1>c DEF WriteResponse, StoreResponse, RsvpTypeOK
    <3> QED
      BY <3>1, <3>2, <1>i DEF AnsweredIsIssued, RsvpInv
  <2>2. CASE rsvp' = rsvp
    BY <2>2, <1>i DEF AnsweredIsIssued, RsvpInv
  <2> QED
    BY <2>1, <2>2, <1>h
<1>m. MarkedIsAnswered'
  <2>0. invitations' = invitations \/ OrganiserNext \/ \E c \in Clients : MarkInvitation(c)
    BY DEF RsvpFaultyNext, RsvpNext, RsvpCheckedNext, UpsertByGuest, EditById, OrganiserStep, tableVars, rsvpAllVars, SubmitToken,
       UpsertFind, UpdateByOfficer, SubmitDeadline, CapacitySum, CapacityOwn, LookUp,
       WriteResponse, StoreResponse, MoveDeadline, AbortSub
  <2>1. CASE invitations' = invitations
    BY <2>1, <1>h DEF MarkedIsAnswered, RsvpInv
  <2>2. CASE OrganiserNext
    BY <2>2, <1>c, <1>h, OrganiserMarksNothing DEF MarkedIsAnswered, RsvpInv, RsvpTypeOK
  <2>3. ASSUME NEW c \in Clients, MarkInvitation(c) PROVE MarkedIsAnswered'
    <3>1. sub[c].inv \in Invs /\ rsvp'[sub[c].inv].status # "absent"
      BY <2>3, <1>k DEF MarkInvitation
    <3>2. \A i \in Invs : i # sub[c].inv => invitations'[i] = invitations[i]
      BY <2>3, <1>c DEF MarkInvitation, MarkResponded, tableVars, RsvpTypeOK, TableTypeOK
    <3> QED
      BY <3>1, <3>2, <1>h DEF MarkedIsAnswered, RsvpInv
  <2> QED
    BY <2>0, <2>1, <2>2, <2>3
<1>q. SUFFICES sub' \in [Clients -> Submission] /\ \A c \in Clients : K(sub'[c])
  BY <1>t, <1>h, <1>d, <1>a, <1>m DEF RsvpInv, RsvpTypeOK, Known
<1>goto. ASSUME NEW c \in Clients, NEW r, K(r), GotoSub(c, r)
         PROVE  sub' \in [Clients -> Submission] /\ \A d \in Clients : K(sub'[d])
  <2> HIDE DEF K
  <2>1. r \in Submission
    BY <1>goto DEF K
  <2> QED
    BY <1>goto, <2>1, <1>c, <1>k DEF GotoSub
<1>idle. K(IdleSub)
  BY DEF IdleSub, Submission, SubSteps, RsvpStatuses, SubmitStatuses
<1>end. ASSUME NEW c \in Clients, EndSub(c) PROVE \E r : K(r) /\ GotoSub(c, r)
  BY <1>end, <1>idle DEF EndSub
<1>p. ASSUME NEW c \in Clients, NEW p \in SubSteps, sub[c].pc # "idle",
             sub[c].route = "submit" /\ p \in {"look", "write", "mark"} =>
                 sub[c].pax <= sub[c].maxPax,
             sub[c].route = "update" => p \in {"cap_sum", "cap_own", "write"},
             p = "mark" => rsvp'[sub[c].inv].status # "absent"
      PROVE  K([sub[c] EXCEPT !.pc = p])
  BY <1>p, <1>k DEF Submission
<1>after. ASSUME NEW c \in Clients, sub[c].pc # "idle", AfterCapacity(c, sub[c])
          PROVE  \E r : K(r) /\ GotoSub(c, r)
  <2> DEFINE p == IF sub[c].route = "submit" THEN "look" ELSE "write"
  <2>1. CASE sub[c].route = "submit" /\ sub[c].pax > sub[c].maxPax
    BY <2>1, <1>after, <1>end DEF AfterCapacity
  <2>2. CASE ~(sub[c].route = "submit" /\ sub[c].pax > sub[c].maxPax)
    <3>1. p \in SubSteps /\ p # "mark"
      BY DEF SubSteps
    <3>2. sub[c].route = "submit" => sub[c].pax <= sub[c].maxPax
      BY <2>2, <1>c DEF Submission
    <3>3. K([sub[c] EXCEPT !.pc = p])
      BY <3>1, <3>2, <1>p, <1>after
    <3>4. GotoSub(c, [sub[c] EXCEPT !.pc = p])
      BY <2>2, <1>after DEF AfterCapacity
    <3> HIDE DEF K, p
    <3> QED
      BY <3>3, <3>4
  <2> QED
    BY <2>1, <2>2
<1> HIDE DEF K
<1>1. ASSUME NEW c \in Clients, NEW i \in Invs, NEW n \in Paxes, NEW s \in RsvpStatuses,
             SubmitToken(c, i, s, n) \/ UpsertFind(c, i, s, n)
      PROVE  \E r : K(r) /\ GotoSub(c, r)
  <2>1. n \in Int /\ NormalPax(s, n) \in Int /\ invitations[i].maxPax \in Int
    BY <1>c, RsvpAssumption DEF NormalPax, RsvpTypeOK, TableTypeOK, Invitation
  <2>2. invitations' = invitations /\ invitations[i].status # "absent"
    BY <1>1 DEF SubmitToken, UpsertFind, ValidToken, tableVars
  <2>3. CASE SubmitToken(c, i, s, n)
    <3> DEFINE r == [ pc |-> "deadline", route |-> "submit", inv |-> i,
                      status |-> s, pax |-> NormalPax(s, n),
                      maxPax |-> invitations[i].maxPax, exists |-> FALSE,
                      lapsed |-> FALSE ]
    <3>1. K(r)
      BY <2>1, <2>2 DEF K, Submission, SubSteps
    <3> QED
      BY <2>3, <3>1 DEF SubmitToken
  <2>4. CASE UpsertFind(c, i, s, n)
    <3> DEFINE r == [ pc |-> "look", route |-> "upsert", inv |-> i, status |-> s,
                      pax |-> IF n < 0 THEN 0 ELSE NormalPax(s, n),
                      maxPax |-> 0, exists |-> FALSE, lapsed |-> FALSE ]
    <3>1. K(r)
      BY <2>1, <2>2 DEF K, Submission, SubSteps
    <3> QED
      BY <2>4, <3>1 DEF UpsertFind
  <2> QED
    BY <1>1, <2>3, <2>4
<1>2. ASSUME NEW c \in Clients, NEW i \in Invs, NEW n \in Paxes, NEW s \in RsvpStatuses,
             UpdateByOfficer(c, i, s, n)
      PROVE  \E r : K(r) /\ GotoSub(c, r)
  <2> DEFINE p == IF s = "attending" /\ rsvp[i].status # "attending"
                  THEN CapacityStep("write") ELSE "write"
             r == [ route |-> "update", inv |-> i, status |-> s, pax |-> n,
                    maxPax |-> 0, exists |-> TRUE, lapsed |-> FALSE, pc |-> p ]
  <2>1. n \in Int /\ p \in {"cap_sum", "write"}
    BY RsvpAssumption DEF CapacityStep
  <2>2. invitations'[i].status # "absent" /\ rsvp'[i].status # "absent"
    BY <1>2, <1>i, <1>h DEF UpdateByOfficer, RsvpInv, AnsweredIsIssued
  <2>3. GotoSub(c, r)
    BY <1>2 DEF UpdateByOfficer
  <2> HIDE DEF p
  <2>4. K(r)
    BY <2>1, <2>2 DEF K, Submission, SubSteps
  <2> QED
    BY <2>3, <2>4
<1>3. ASSUME NEW c \in Clients, SubmitDeadline(c) PROVE \E r : K(r) /\ GotoSub(c, r)
  <2>1. K([sub[c] EXCEPT !.pc = "cap_sum"])
    BY <1>3, <1>p DEF SubmitDeadline, SubSteps
  <2> QED
    BY <1>3, <1>end, <1>after, <2>1 DEF SubmitDeadline
<1>4. ASSUME NEW c \in Clients, CapacitySum(c) PROVE \E r : K(r) /\ GotoSub(c, r)
  <2>1. K([sub[c] EXCEPT !.pc = "cap_own"])
    BY <1>4, <1>p DEF CapacitySum, SubSteps
  <2> QED
    BY <1>4, <2>1 DEF CapacitySum
<1>5. ASSUME NEW c \in Clients, CapacityOwn(c) PROVE \E r : K(r) /\ GotoSub(c, r)
  BY <1>5, <1>end, <1>after DEF CapacityOwn
<1>6. ASSUME NEW c \in Clients, LookUp(c) PROVE \E r : K(r) /\ GotoSub(c, r)
  <2> DEFINE e == HasResponse(sub[c].inv)
             p == IF sub[c].route = "upsert" /\ sub[c].status = "attending"
                  THEN CapacityStep("write") ELSE "write"
             r == [[sub[c] EXCEPT !.exists = e] EXCEPT !.pc = p]
  <2>1. e \in BOOLEAN /\ p \in {"cap_sum", "write"}
    BY DEF CapacityStep
  <2>2. K(sub[c]) /\ sub[c].pc = "look"
    BY <1>6, <1>k DEF LookUp
  <2>3. GotoSub(c, r)
    BY <1>6 DEF LookUp, Submission
  <2> HIDE DEF p, e
  <2>4. K(r)
    BY <2>1, <2>2 DEF K, Submission, SubSteps
  <2> QED
    BY <2>3, <2>4
<1>7. ASSUME NEW c \in Clients, WriteResponse(c) PROVE \E r : K(r) /\ GotoSub(c, r)
  <2>1. CASE EndSub(c)
    BY <2>1, <1>end
  <2>2. CASE ~EndSub(c)
    <3>1. /\ sub[c].pc = "write" /\ sub[c].route # "update"
          /\ rsvp' = [rsvp EXCEPT ![sub[c].inv] =
                         [ status |-> sub[c].status, pax |-> sub[c].pax ]]
          /\ GotoSub(c, [sub[c] EXCEPT !.pc = "mark"])
      BY <1>7, <2>2 DEF WriteResponse, StoreResponse
    <3>2. sub[c].status # "absent" /\ sub[c].inv \in Invs
      BY <1>c, <1>k, <3>1 DEF K, Submission, RsvpStatuses, SubmitStatuses
    <3>3. rsvp'[sub[c].inv].status # "absent"
      BY <3>1, <3>2, <1>c DEF RsvpTypeOK
    <3>4. sub[c].route = "submit" => sub[c].pax <= sub[c].maxPax
      BY <1>k, <3>1 DEF K
    <3>5. K([sub[c] EXCEPT !.pc = "mark"])
      BY <1>p, <3>1, <3>3, <3>4 DEF SubSteps
    <3> QED
      BY <3>1, <3>5
  <2> QED
    BY <2>1, <2>2
<1>8. ASSUME NEW c \in Clients, MarkInvitation(c) \/ AbortSub(c)
      PROVE  \E r : K(r) /\ GotoSub(c, r)
  BY <1>8, <1>end DEF MarkInvitation, AbortSub
<1>9. CASE sub' = sub
  BY <1>9, <1>c, <1>k
<1>11. CASE OrganiserStep
  <2>1. \A c \in Clients, b \in BOOLEAN : K([sub[c] EXCEPT !.lapsed = b])
    BY <1>c, <1>k DEF K, Submission
  <2>2. \A c \in Clients : \E b \in BOOLEAN : sub'[c] = [sub[c] EXCEPT !.lapsed = b]
    BY <1>11, <1>c DEF OrganiserStep, Submission
  <2>3. \A c \in Clients : K(sub'[c])
    BY <2>1, <2>2
  <2>4. \A c \in Clients : sub'[c] \in Submission
    BY <2>3 DEF K
  <2>5. DOMAIN sub' = Clients /\ sub' = [c \in Clients |-> sub'[c]]
    BY <1>11 DEF OrganiserStep
  <2> QED
    BY <2>3, <2>4, <2>5
<1>10. sub' = sub \/ OrganiserStep \/ \E c \in Clients : \E r : K(r) /\ GotoSub(c, r)
  BY <1>1, <1>2, <1>3, <1>4, <1>5, <1>6, <1>7, <1>8
  DEF RsvpFaultyNext, RsvpNext, RsvpCheckedNext, UpsertByGuest, EditById, MoveDeadline, rsvpAllVars,
      RsvpStatuses, SubmitStatuses
<1> QED
  BY <1>9, <1>10, <1>11, <1>goto

\* A request that writes an answer goes on to mark the invitation; an edit
\* finds an answer that another request has marked or is about to mark.
LEMMA AnsweredIsMarkedStep ==
    RsvpInv /\ AnsweredIsMarked /\ [RsvpNext]_rsvpAllVars => AnsweredIsMarked'
<1> SUFFICES ASSUME RsvpInv, AnsweredIsMarked, [RsvpNext]_rsvpAllVars,
                    NEW i \in Invs, HasResponse(i)', Live(i)',
                    invitations'[i].status = "draft"
             PROVE  \E c \in Clients : sub'[c].pc = "mark" /\ sub'[c].inv = i
  BY DEF AnsweredIsMarked
<1>c. RsvpTypeOK /\ sub \in [Clients -> Submission]
  BY DEF RsvpInv, RsvpTypeOK
<1>f. [RsvpFaultyNext]_rsvpAllVars
  BY DEF RsvpFaultyNext
<1>t. [TableNext]_tableVars
  BY <1>c, <1>f, RsvpRefinesStep
<1>1. CASE HasResponse(i)
  <2>1. invitations[i].status = "draft"
    BY <1>1, <1>c, <1>t, IssuedStays DEF RsvpInv, AnsweredIsIssued, RsvpTypeOK
  <2>2. Live(i)
    BY <2>1, <1>c, <1>t, DeletedStays DEF RsvpTypeOK
  <2>3. PICK c \in Clients : sub[c].pc = "mark" /\ sub[c].inv = i
    BY <1>1, <2>1, <2>2 DEF AnsweredIsMarked
  <2>4. CASE sub'[c] = sub[c]
    BY <2>3, <2>4
  <2>6. CASE OrganiserStep
    <3>1. sub'[c].pc = sub[c].pc /\ sub'[c].inv = sub[c].inv
      BY <2>6, <1>c DEF OrganiserStep, Submission
    <3> QED
      BY <2>3, <3>1
  <2>5. CASE sub'[c] # sub[c] /\ ~OrganiserStep
    <3>a. ASSUME NEW d \in Clients, NEW r, GotoSub(d, r), sub[d].pc # "mark" PROVE FALSE
      BY <3>a, <2>3, <2>5, <1>c DEF GotoSub
    <3>e. \A d \in Clients : \A r :
             EndSub(d) \/ AfterCapacity(d, r) => \E q : GotoSub(d, q)
      BY DEF EndSub, AfterCapacity
    <3>b. ASSUME NEW d \in Clients,
                 SubmitDeadline(d) \/ CapacitySum(d) \/ CapacityOwn(d) \/ LookUp(d)
                   \/ WriteResponse(d)
          PROVE  FALSE
      <4>1. sub[d].pc # "mark" /\ \E r : GotoSub(d, r)
        BY <3>b, <3>e DEF SubmitDeadline, CapacitySum, CapacityOwn, LookUp,
           WriteResponse, StoreResponse
      <4> QED
        BY <4>1, <3>a
    <3>c. ASSUME NEW d \in Clients, NEW j \in Invs, NEW s, NEW n,
                 SubmitToken(d, j, s, n) \/ UpsertFind(d, j, s, n)
                   \/ UpdateByOfficer(d, j, s, n)
          PROVE  FALSE
      <4>1. sub[d].pc # "mark" /\ \E r : GotoSub(d, r)
        BY <3>c DEF SubmitToken, UpsertFind, UpdateByOfficer
      <4> QED
        BY <4>1, <3>a
    <3>d. ASSUME NEW d \in Clients, MarkInvitation(d) PROVE d = c
      BY <3>d, <2>3, <2>5, <1>c DEF MarkInvitation, EndSub, GotoSub
    <3>1. MarkInvitation(c)
      BY <2>5, <3>b, <3>c, <3>d DEF RsvpNext, RsvpCheckedNext, UpsertByGuest,
         EditById, MoveDeadline, rsvpAllVars
    <3>2. invitations'[i].status = "responded"
      BY <3>1, <2>2, <2>3, <1>c DEF MarkInvitation, MarkResponded, RsvpTypeOK, TableTypeOK,
         Invitation
    <3> QED
      BY <3>2
  <2> QED
    BY <2>4, <2>5, <2>6
<1>2. CASE ~HasResponse(i)
  <2>1. PICK c \in Clients : WriteResponse(c)
    BY <1>2, <1>c, <1>f, AnswersGrow
  <2>2. sub[c].inv = i /\ sub[c].route # "update"
    BY <2>1, <1>2, <1>c DEF WriteResponse, StoreResponse, RsvpTypeOK, RsvpInv, Known
  <2>3. sub' = [sub EXCEPT ![c] = [sub[c] EXCEPT !.pc = "mark"]]
    BY <2>1, <2>2, <1>2 DEF WriteResponse, StoreResponse, GotoSub
  <2>4. sub'[c].pc = "mark" /\ sub'[c].inv = i
    BY <2>2, <2>3, <1>c DEF Submission
  <2> QED
    BY <2>4
<1> QED
  BY <1>1, <1>2

\* What a public submission carries: its token is valid, or was until the
\* organiser or the clock closed it under the request.
TokenHeld ==
    \A c \in Clients :
        sub[c].pc # "idle" /\ sub[c].route = "submit" =>
            ValidToken(sub[c].inv) \/ sub[c].lapsed

\* Only the organiser's side closes a token, and it notes whom it overtakes.
LEMMA TokenHeldStep ==
    RsvpTypeOK /\ TokenHeld /\ [RsvpFaultyNext]_rsvpAllVars => TokenHeld'
<1> SUFFICES ASSUME RsvpTypeOK, TokenHeld, [RsvpFaultyNext]_rsvpAllVars PROVE TokenHeld'
  OBVIOUS
<1> DEFINE V(i) == ValidToken(i)
           VP(i) == /\ invitations'[i].status # "absent" /\ ~invitations'[i].deleted
                    /\ invitations'[i].status # "revoked" /\ ~invitations'[i].expired
           H(r) == r.pc # "idle" /\ r.route = "submit" => VP(r.inv) \/ r.lapsed
<1>c. /\ sub \in [Clients -> Submission]
      /\ \A c \in Clients : sub[c].pc # "idle" => sub[c].inv \in Invs
  BY DEF RsvpTypeOK
<1>q. SUFFICES \A c \in Clients : H(sub'[c])
  BY DEF TokenHeld, ValidToken
<1>o. CASE OrganiserStep
  <2> SUFFICES ASSUME NEW c \in Clients, sub'[c].pc # "idle", sub'[c].route = "submit"
               PROVE  VP(sub'[c].inv) \/ sub'[c].lapsed
    OBVIOUS
  <2>1. /\ sub'[c].pc = sub[c].pc /\ sub'[c].route = sub[c].route
        /\ sub'[c].inv = sub[c].inv
        /\ sub'[c].lapsed =
             (sub[c].lapsed \/ (sub[c].route = "submit" /\
                sub[c].inv \in {i \in Invs : ValidToken(i) /\ ~ValidToken(i)'}))
    BY <1>o, <1>c DEF OrganiserStep, Submission
  <2>2. sub[c].inv \in Invs /\ (V(sub[c].inv) \/ sub[c].lapsed)
    BY <2>1, <1>c DEF TokenHeld
  <2> QED
    BY <2>1, <2>2 DEF ValidToken
<1>v. ASSUME ~OrganiserStep PROVE \A i \in Invs : V(i) => VP(i)
  <2>1. invitations' = invitations \/ \E c \in Clients : MarkInvitation(c)
    BY <1>v DEF RsvpFaultyNext, RsvpNext, RsvpCheckedNext, UpsertByGuest, EditById,
       tableVars, rsvpAllVars, SubmitToken, UpsertFind, UpdateByOfficer, SubmitDeadline,
       CapacitySum, CapacityOwn, LookUp, WriteResponse, StoreResponse, MoveDeadline, AbortSub
  <2>2. CASE invitations' = invitations
    BY <2>2 DEF ValidToken
  <2>3. ASSUME NEW c \in Clients, MarkInvitation(c) PROVE \A i \in Invs : V(i) => VP(i)
    BY <2>3 DEF MarkInvitation, MarkResponded, ValidToken, tableVars,
       RsvpTypeOK, TableTypeOK, Invitation
  <2> QED
    BY <2>1, <2>2, <2>3
<1>k. ASSUME ~OrganiserStep, NEW c \in Clients PROVE H(sub[c])
  BY <1>k, <1>v, <1>c DEF TokenHeld
<1>p. ASSUME ~OrganiserStep, NEW c \in Clients, NEW p, NEW e, sub[c].pc # "idle"
      PROVE  H([sub[c] EXCEPT !.pc = p]) /\ H([[sub[c] EXCEPT !.exists = e] EXCEPT !.pc = p])
  BY <1>p, <1>k, <1>c DEF Submission
<1>idle. H(IdleSub)
  BY DEF IdleSub
<1> HIDE DEF H
<1>goto. ASSUME ~OrganiserStep, NEW c \in Clients, NEW r, H(r), GotoSub(c, r)
         PROVE  \A d \in Clients : H(sub'[d])
  BY <1>goto, <1>k, <1>c DEF GotoSub
<1>end. ASSUME NEW c \in Clients, EndSub(c) PROVE \E r : H(r) /\ GotoSub(c, r)
  BY <1>end, <1>idle DEF EndSub
<1>after. ASSUME ~OrganiserStep, NEW c \in Clients, sub[c].pc # "idle",
                 AfterCapacity(c, sub[c])
          PROVE  \E r : H(r) /\ GotoSub(c, r)
  BY <1>after, <1>end, <1>p DEF AfterCapacity
<1>1. ASSUME ~OrganiserStep, NEW c \in Clients, NEW i \in Invs, NEW n, NEW s,
             SubmitToken(c, i, s, n)
      PROVE  \E r : H(r) /\ GotoSub(c, r)
  <2> DEFINE r == [ pc |-> "deadline", route |-> "submit", inv |-> i,
                    status |-> s, pax |-> NormalPax(s, n), lapsed |-> FALSE,
                    maxPax |-> invitations[i].maxPax, exists |-> FALSE ]
  <2>1. H(r)
    BY <1>1, <1>v DEF H, SubmitToken
  <2> QED
    BY <1>1, <2>1 DEF SubmitToken
<1>2. ASSUME NEW c \in Clients, NEW i \in Invs, NEW n, NEW s,
             UpsertFind(c, i, s, n) \/ UpdateByOfficer(c, i, s, n)
      PROVE  \E r : H(r) /\ GotoSub(c, r)
  <2>1. \A r : r.route \in {"upsert", "update"} => H(r)
    BY DEF H
  <2>2. PICK r : r.route \in {"upsert", "update"} /\ GotoSub(c, r)
    BY <1>2 DEF UpsertFind, UpdateByOfficer
  <2> QED
    BY <2>1, <2>2
<1>3. ASSUME ~OrganiserStep, NEW c \in Clients,
             SubmitDeadline(c) \/ CapacitySum(c) \/ CapacityOwn(c)
      PROVE  \E r : H(r) /\ GotoSub(c, r)
  BY <1>3, <1>end, <1>after, <1>p DEF SubmitDeadline, CapacitySum, CapacityOwn
<1>4. ASSUME ~OrganiserStep, NEW c \in Clients, LookUp(c)
      PROVE  \E r : H(r) /\ GotoSub(c, r)
  <2> DEFINE e == HasResponse(sub[c].inv)
             p == IF sub[c].route = "upsert" /\ sub[c].status = "attending"
                  THEN CapacityStep("write") ELSE "write"
             r == [[sub[c] EXCEPT !.exists = e] EXCEPT !.pc = p]
  <2>1. GotoSub(c, r)
    BY <1>4, <1>c DEF LookUp, Submission
  <2>2. sub[c].pc # "idle"
    BY <1>4 DEF LookUp
  <2> HIDE DEF e, p
  <2>3. H(r)
    BY <1>4, <2>2, <1>p
  <2> QED
    BY <2>1, <2>3
<1>5. ASSUME ~OrganiserStep, NEW c \in Clients,
             WriteResponse(c) \/ MarkInvitation(c) \/ AbortSub(c)
      PROVE  \E r : H(r) /\ GotoSub(c, r)
  BY <1>5, <1>end, <1>p DEF WriteResponse, StoreResponse, MarkInvitation, AbortSub
<1>6. ~OrganiserStep => sub' = sub \/ \E c \in Clients : \E r : H(r) /\ GotoSub(c, r)
  BY <1>1, <1>2, <1>3, <1>4, <1>5
  DEF RsvpFaultyNext, RsvpNext, RsvpCheckedNext, UpsertByGuest, EditById, MoveDeadline,
      rsvpAllVars
<1> QED
  BY <1>o, <1>6, <1>goto, <1>k DEF H

\* The organiser's side and the clock never reopen a token.
LEMMA OrganiserReopensNothing ==
    TableTypeOK /\ OrganiserNext =>
        \A i \in Invs : ValidToken(i)' /\ invitations[i].status # "absent" => ValidToken(i)
<1> SUFFICES ASSUME TableTypeOK, OrganiserNext,
                    NEW i \in Invs, ValidToken(i)', invitations[i].status # "absent"
             PROVE  ValidToken(i)
  OBVIOUS
<1> USE DEF TableTypeOK, Invitation, ValidToken
<1>1. ASSUME NEW g \in Guests, AddGuest(g) \/ CancelGuest(g) PROVE invitations' = invitations
  BY <1>1 DEF AddGuest, CancelGuest
<1>2. ASSUME NEW j \in Invs, NEW g \in Guests, NEW n \in MaxPaxes, Issue(j, g, n)
      PROVE ValidToken(i)
  BY <1>2 DEF Issue
<1>3. ASSUME NEW j \in Invs, Revoke(j) \/ SoftDelete(j) \/ Expire(j)
      PROVE ValidToken(i)
  BY <1>3 DEF Revoke, SoftDelete, Expire
<1> QED
  BY <1>1, <1>2, <1>3 DEF OrganiserNext

\* A step that changes the answer of a closed invitation, or reopens it, is
\* the write or the mark of a request on that invitation.
LEMMA ClosedStep ==
    ASSUME RsvpTypeOK, TokenHeld, [RsvpFaultyNext]_rsvpAllVars,
           NEW i \in Invs, invitations[i].status # "absent", ~ValidToken(i),
           rsvp'[i] # rsvp[i] \/ ValidToken(i)'
    PROVE  \E c \in Clients :
              /\ sub[c].inv = i /\ sub'[c] # sub[c]
              /\ sub[c].pc \in {"write", "mark"}
              /\ sub[c].route # "submit" \/ sub[c].lapsed
<1>c. sub \in [Clients -> Submission]
  BY DEF RsvpTypeOK
<1>1. \/ \E c \in Clients : WriteResponse(c) \/ MarkInvitation(c)
      \/ rsvp' = rsvp /\ (invitations' = invitations \/ OrganiserNext)
  BY DEF RsvpFaultyNext, RsvpNext, RsvpCheckedNext, UpsertByGuest, EditById, OrganiserStep,
     tableVars, rsvpAllVars, SubmitToken, UpsertFind, UpdateByOfficer, SubmitDeadline,
     CapacitySum, CapacityOwn, LookUp, MoveDeadline, AbortSub
<1>2. PICK c \in Clients : WriteResponse(c) \/ MarkInvitation(c)
  <2>1. CASE rsvp' = rsvp /\ invitations' = invitations
    BY <2>1 DEF ValidToken
  <2>2. CASE rsvp' = rsvp /\ OrganiserNext
    BY <2>2, OrganiserReopensNothing DEF RsvpTypeOK
  <2> QED
    BY <1>1, <2>1, <2>2
<1>3. sub[c].pc \in {"write", "mark"} /\ sub'[c] # sub[c]
  <2>1. IdleSub.pc = "idle"
    BY DEF IdleSub
  <2>2. sub'[c].pc \in {"idle", "mark"} /\ (sub[c].pc = "mark" => sub'[c].pc = "idle")
    BY <1>2, <1>c, <2>1 DEF WriteResponse, StoreResponse, MarkInvitation, EndSub, GotoSub,
       Submission
  <2>3. sub[c].pc \in {"write", "mark"}
    BY <1>2 DEF WriteResponse, MarkInvitation
  <2> QED
    BY <2>2, <2>3
<1>4. sub[c].inv = i
  <2>1. CASE WriteResponse(c)
    <3>1. \A j \in Invs : j # sub[c].inv => rsvp'[j] = rsvp[j]
      BY <2>1 DEF WriteResponse, StoreResponse, RsvpTypeOK
    <3>2. invitations' = invitations
      BY <2>1 DEF WriteResponse, tableVars
    <3> QED
      BY <3>1, <3>2 DEF ValidToken
  <2>2. CASE MarkInvitation(c)
    <3>1. \A j \in Invs : j # sub[c].inv => invitations'[j] = invitations[j]
      BY <2>2 DEF MarkInvitation, MarkResponded, tableVars, RsvpTypeOK, TableTypeOK
    <3>2. rsvp' = rsvp
      BY <2>2 DEF MarkInvitation
    <3> QED
      BY <3>1, <3>2 DEF ValidToken
  <2> QED
    BY <1>2, <2>1, <2>2
<1> QED
  BY <1>3, <1>4 DEF TokenHeld

----------------------------------------------------------------------------
(* Theorems.                                                               *)

\* Requests that are cut short included: the public form never exceeds the
\* max_pax of the invitation it answers, although the limit is compared with
\* a copy read several statements before the write; and an invitation that
\* reads "responded" has an answer.
THEOREM RsvpCorrect ==
    RsvpFaultySpec => [](RsvpTypeOK /\ SubmitWithinMaxPax /\ MarkedIsAnswered)
<1>1. RsvpInit => RsvpInv
  BY RsvpInitInv
<1>2. RsvpInv /\ [RsvpFaultyNext]_rsvpAllVars => RsvpInv'
  BY RsvpInvStep
<1>3. RsvpInv => RsvpTypeOK /\ SubmitWithinMaxPax /\ MarkedIsAnswered
  BY DEF RsvpInv, Known, SubmitWithinMaxPax, RsvpTypeOK
<1> QED
  BY <1>1, <1>2, <1>3, PTL DEF RsvpFaultySpec

\* When no request is cut short, the invitation of every stored answer reads
\* "responded" or is about to (Submit and UpsertByOfficer end with
\* UpdateStatus; UpdateByOfficer need not).
THEOREM AnswersAreMarked == RsvpSpec => []AnsweredIsMarked
<1>1. RsvpInit => RsvpInv /\ AnsweredIsMarked
  BY RsvpInitInv DEF RsvpInit, NoResponse, AnsweredIsMarked
<1>2. RsvpInv /\ AnsweredIsMarked /\ [RsvpNext]_rsvpAllVars => RsvpInv' /\ AnsweredIsMarked'
  BY RsvpInvStep, AnsweredIsMarkedStep DEF RsvpFaultyNext
<1> QED
  BY <1>1, <1>2, PTL DEF RsvpSpec

\* An invitation is marked responded only once there is an answer to show,
\* although the answer and the mark are two statements of a request that may
\* stop between them.
THEOREM MarksAreAnswered == RsvpFaultySpec => []MarkedIsAnswered
  BY RsvpCorrect, PTL

\* A revoked, deleted or expired invitation is closed: only an officer, or a
\* submission that had its token accepted before, still changes its answer
\* or makes its token valid again, whatever the handlers interleave.
THEOREM ClosedInvitations == RsvpFaultySpec => ClosedStaysClosed
<1>1. RsvpInit => RsvpInv /\ TokenHeld
  BY RsvpInitInv DEF RsvpInit, IdleSub, TokenHeld
<1>2. RsvpInv /\ TokenHeld /\ [RsvpFaultyNext]_rsvpAllVars => RsvpInv' /\ TokenHeld'
  BY RsvpInvStep, TokenHeldStep DEF RsvpInv
<1> DEFINE A == \A i \in Invs :
         /\ invitations[i].status # "absent" /\ ~ValidToken(i)
         /\ rsvp'[i] # rsvp[i] \/ ValidToken(i)'
         => \E c \in Clients :
              /\ sub[c].inv = i /\ sub'[c] # sub[c]
              /\ sub[c].pc \in {"write", "mark"}
              /\ sub[c].route # "submit" \/ sub[c].lapsed
<1>3. RsvpInv /\ TokenHeld /\ [RsvpFaultyNext]_rsvpAllVars => [A]_rsvpAllVars
  BY ClosedStep DEF RsvpInv
<1> QED
  BY <1>1, <1>2, <1>3, PTL DEF RsvpFaultySpec, ClosedStaysClosed

----------------------------------------------------------------------------
(* Check-in: the inductive invariant.                                      *)

\* Guest g may come in with n people by method m on invitation i: the
\* invitation is one that was issued to g, and a party that checks itself in
\* is within its quota.
Entitled(g, i, m, n) ==
    /\ g \in Guests
    /\ i # NoInv => invitations[i].status # "absent" /\ invitations[i].guest = g
    /\ m = "kiosk" =>
         i \in Invs /\ (invitations[i].maxPax > 0 => n <= invitations[i].maxPax)

\* What a check-in request has established, although it holds no lock: it is
\* entitled to admit its guest, and behind the roster check the guest has a
\* roster row.
DeskKnows(r) ==
    r.pc # "idle" =>
        /\ Entitled(r.guest, r.inv, r.method, r.pax)
        /\ r.pc \in {"dup", "insert"} => OnRoster(r.guest)

\* The same of a row that admitted somebody.
RowKnows(w) ==
    w.status = "success" => Entitled(w.guest, w.inv, w.method, w.pax) /\ OnRoster(w.guest)

\* The tables' own invariant is needed for the guest of a token.
AdmissionInv ==
    /\ CheckinTypeOK
    /\ TableInv
    /\ \A o \in Desks : DeskKnows(desk[o])
    /\ \A k \in CheckinIds : RowKnows(checkins[k])

\* No row, no request.
LEMMA AdmissionInit == CheckinInit => AdmissionInv
<1> SUFFICES ASSUME CheckinInit PROVE AdmissionInv
  OBVIOUS
<1>1. TableInv /\ TableTypeOK
  BY TableInitInv DEF CheckinInit, TableInv
<1>2. NoCheckin \in CheckinRow /\ IdleDesk \in DeskRequest
  BY DEF NoCheckin, CheckinRow, CheckinStatuses, Methods, IdleDesk, DeskRequest, DeskSteps
<1> QED
  BY <1>1, <1>2 DEF CheckinInit, AdmissionInv, CheckinTypeOK, EventStates, DeskKnows,
     RowKnows, NoCheckin, IdleDesk

\* Check-in touches the tables only where a walk-in gets a roster row.
LEMMA CheckinRefinesStep ==
    [CheckinFaultyNext]_checkinAllVars => [TableNext]_tableVars
<1> SUFFICES ASSUME [CheckinFaultyNext]_checkinAllVars PROVE [TableNext]_tableVars
  OBVIOUS
<1>1. CASE TableStep
  BY <1>1 DEF TableStep, TableNext
<1>2. ASSUME NEW o \in Desks, NEW r \in WalkinRequest, ProcessWalkin(o, r)
      PROVE  [TableNext]_tableVars
  BY <1>2, CheckinAssumption DEF ProcessWalkin, WalkinRequest, TableNext, OrganiserNext
<1>3. ASSUME NEW o \in Desks, NEW n \in ActualPaxes, NEW i \in Invs,
             ProcessQRScan(o, i, n) \/ SelfCheckin(o, i, n)
      PROVE  [TableNext]_tableVars
  BY <1>3 DEF ProcessQRScan, SelfCheckin
<1>4. ASSUME NEW o \in Desks, NEW n \in ActualPaxes, NEW g \in Guests,
             ProcessManualSearch(o, g, n)
      PROVE  [TableNext]_tableVars
  BY <1>4 DEF ProcessManualSearch
<1>5. ASSUME NEW o \in Desks, NEW k \in CheckinIds,
             InsertCheckin(o, k) \/ \E g \in Guests : RecordDuplicate(o, k, g)
      PROVE  [TableNext]_tableVars
  BY <1>5 DEF InsertCheckin, RecordDuplicate
<1>6. ASSUME NEW o \in Desks, SelfEvent(o) \/ CheckEvent(o) \/ CheckDuplicate(o)
                                \/ LoseDuplicate(o) \/ AbortDesk(o)
      PROVE  [TableNext]_tableVars
  BY <1>6 DEF SelfEvent, CheckEvent, CheckDuplicate, LoseDuplicate, AbortDesk
<1>f. ASSUME NEW g \in Guests, NEW k \in CheckinIds,
             ScanFindsNobody(g, k) \/ \E s \in {"invalid", "wrong_event"} : SearchFindsNobody(g, k, s)
      PROVE  [TableNext]_tableVars
  BY <1>f DEF ScanFindsNobody, SearchFindsNobody
<1>7. ASSUME NEW s \in EventStates, ChangeEvent(s) PROVE [TableNext]_tableVars
  BY <1>7 DEF ChangeEvent
<1>8. CASE UNCHANGED checkinAllVars
  BY <1>8 DEF checkinAllVars, tableVars
<1> QED
  BY <1>1, <1>2, <1>3, <1>4, <1>5, <1>6, <1>7, <1>8, <1>f DEF CheckinFaultyNext, CheckinNext

\* A step of the tables takes no entitlement away: what an invitation says of
\* its guest and its quota was written when it was issued.
LEMMA EntitledStays ==
    ASSUME TableTypeOK, [TableNext]_tableVars, NEW g, NEW i \in Invs \cup {NoInv},
           NEW m, NEW n, Entitled(g, i, m, n)
    PROVE  /\ i # NoInv => invitations'[i].status # "absent" /\ invitations'[i].guest = g
           /\ m = "kiosk" =>
                i \in Invs /\ (invitations'[i].maxPax > 0 => n <= invitations'[i].maxPax)
<1>1. i # NoInv => i \in Invs
  OBVIOUS
<1>2. m = "kiosk" => i \in Invs /\ i # NoInv
  BY TableAssumption DEF Entitled
<1> QED
  BY IssuedStays, <1>1, <1>2 DEF Entitled

\* Each statement of a request keeps what the request knows, and the row it
\* inserts says no more than that; meanwhile the tables may change.
LEMMA AdmissionStep ==
    AdmissionInv /\ [CheckinFaultyNext]_checkinAllVars => AdmissionInv'
<1> SUFFICES ASSUME AdmissionInv, [CheckinFaultyNext]_checkinAllVars PROVE AdmissionInv'
  OBVIOUS
<1> DEFINE Ok(g, i, m, n) ==
             /\ g \in Guests
             /\ i # NoInv => invitations'[i].status # "absent" /\ invitations'[i].guest = g
             /\ m = "kiosk" =>
                  i \in Invs /\ (invitations'[i].maxPax > 0 => n <= invitations'[i].maxPax)
           Good(r) ==
             /\ r \in DeskRequest
             /\ r.pc # "idle" =>
                  /\ Ok(r.guest, r.inv, r.method, r.pax)
                  /\ r.pc \in {"dup", "insert"} => roster'[r.guest] # "absent"
           GoodRow(w) ==
             /\ w \in CheckinRow
             /\ w.status = "success" =>
                  Ok(w.guest, w.inv, w.method, w.pax) /\ roster'[w.guest] # "absent"
<1>n. [TableNext]_tableVars
  BY CheckinRefinesStep
<1>c. /\ TableInv /\ TableTypeOK
      /\ event \in EventStates
      /\ checkins \in [CheckinIds -> CheckinRow]
      /\ desk \in [Desks -> DeskRequest]
  BY DEF AdmissionInv, CheckinTypeOK
<1>t. TableInv' /\ TableTypeOK'
  BY <1>n, <1>c, TableInvStep DEF TableInv
<1>r. \A g \in Guests : OnRoster(g) => roster'[g] # "absent"
  BY <1>n, <1>c, RosterGrows
<1>e. ASSUME NEW g, NEW i \in Invs \cup {NoInv}, NEW m, NEW n, Entitled(g, i, m, n)
      PROVE  Ok(g, i, m, n)
  BY <1>e, <1>n, <1>c, EntitledStays DEF Entitled
<1>d. ASSUME NEW o \in Desks PROVE Good(desk[o])
  <2>1. desk[o] \in DeskRequest /\ DeskKnows(desk[o]) /\ desk[o].inv \in Invs \cup {NoInv}
    BY <1>c DEF AdmissionInv, DeskRequest
  <2>2. desk[o].pc # "idle" => desk[o].guest \in Guests
    BY <2>1 DEF DeskKnows, Entitled
  <2> HIDE DEF Ok
  <2>3. desk[o].pc # "idle" => Ok(desk[o].guest, desk[o].inv, desk[o].method, desk[o].pax)
    BY <2>1, <1>e DEF DeskKnows
  <2> QED
    BY <2>1, <2>2, <2>3, <1>r DEF DeskKnows
<1>k. ASSUME NEW k \in CheckinIds PROVE GoodRow(checkins[k])
  <2>1. /\ checkins[k] \in CheckinRow
        /\ RowKnows(checkins[k])
        /\ checkins[k].inv \in Invs \cup {NoInv}
    BY <1>c DEF AdmissionInv, CheckinRow
  <2>2. checkins[k].status = "success" => checkins[k].guest \in Guests
    BY <2>1 DEF RowKnows, Entitled
  <2> HIDE DEF Ok
  <2>3. checkins[k].status = "success" =>
          Ok(checkins[k].guest, checkins[k].inv, checkins[k].method, checkins[k].pax)
    BY <2>1, <1>e DEF RowKnows
  <2>4. checkins[k].status = "success" => roster'[checkins[k].guest] # "absent"
    BY <2>1, <2>2, <1>r DEF RowKnows
  <2> QED
    BY <2>1, <2>3, <2>4
<1>q. SUFFICES /\ event' \in EventStates
               /\ checkins' \in [CheckinIds -> CheckinRow]
               /\ \A k \in CheckinIds : GoodRow(checkins'[k])
               /\ desk' \in [Desks -> DeskRequest]
               /\ \A o \in Desks : Good(desk'[o])
  BY <1>t DEF AdmissionInv, CheckinTypeOK, DeskKnows, RowKnows, Entitled
<1> HIDE DEF Good, GoodRow, Ok
<1> DEFINE Goal == /\ desk' \in [Desks -> DeskRequest]
                   /\ \A o \in Desks : Good(desk'[o])
           RowGoal == /\ checkins' \in [CheckinIds -> CheckinRow]
                      /\ \A k \in CheckinIds : GoodRow(checkins'[k])
<1>goto. ASSUME NEW o \in Desks, NEW r, Good(r), GotoDesk(o, r) PROVE Goal
  <2>1. r \in DeskRequest
    BY <1>goto DEF Good
  <2> QED
    BY <1>goto, <2>1, <1>c, <1>d DEF GotoDesk
<1>i. Good(IdleDesk)
  BY DEF Good, IdleDesk, DeskRequest, DeskSteps, CheckinStatuses, Methods
<1>perform. ASSUME NEW o \in Desks, NEW g \in Guests, NEW i \in Invs \cup {NoInv},
                   NEW m \in Methods, NEW n \in Int, NEW pc \in {"event", "self_event"},
                   Ok(g, i, m, ActualPax(n)), Perform(o, g, i, m, n, pc)
            PROVE  Goal
  <2>1. ActualPax(n) \in Int
    BY DEF ActualPax
  <2>2. Good([ pc |-> pc, guest |-> g, inv |-> i, method |-> m,
               pax |-> ActualPax(n) ])
    BY <2>1, <1>perform DEF Good, DeskRequest, DeskSteps, Methods
  <2> QED
    BY <1>perform, <2>2, <1>goto DEF Perform
<1>keep. checkins' = checkins => RowGoal
  BY <1>c, <1>k
<1>row. ASSUME NEW k \in CheckinIds, NEW w, GoodRow(w), CreateCheckin(k, w) PROVE RowGoal
  <2>1. w \in CheckinRow
    BY <1>row DEF GoodRow
  <2> QED
    BY <1>row, <2>1, <1>c, <1>k DEF CreateCheckin
<1>m. ASSUME NEW i \in Invs, Live(i), NEW m, NEW n,
             m = "kiosk" => (invitations[i].maxPax > 0 => n <= invitations[i].maxPax)
      PROVE  /\ invitations[i].guest \in Guests
             /\ Ok(invitations[i].guest, i, m, n)
  <2>1. invitations[i].guest \in Guests
    BY <1>m, <1>c DEF TableInv, InvitedIsOnRoster
  <2>2. Entitled(invitations[i].guest, i, m, n)
    BY <1>m, <2>1 DEF Entitled
  <2> QED
    BY <2>1, <2>2, <1>e
<1>a. \A n : \A g \in Guests, m \in Methods \ {"kiosk"} : Ok(g, NoInv, m, n)
  BY DEF Ok
<1>p. \A n \in ActualPaxes : n \in Int
  BY CheckinAssumption
<1>1. ASSUME NEW o \in Desks, NEW n \in ActualPaxes, NEW i \in Invs, ProcessQRScan(o, i, n)
      PROVE  Goal /\ RowGoal /\ event' = event
  <2>1. Live(i) /\ Perform(o, invitations[i].guest, i, "qr_scan", n, "event")
    BY <1>1 DEF ProcessQRScan, FindGuestByToken
  <2>2. invitations[i].guest \in Guests /\ Ok(invitations[i].guest, i, "qr_scan", ActualPax(n))
    BY <2>1, <1>m
  <2>3. Goal
    BY <2>1, <2>2, <1>perform, <1>p DEF Methods
  <2> QED
    BY <2>3, <1>1, <1>keep DEF ProcessQRScan
<1>2. ASSUME NEW o \in Desks, NEW n \in ActualPaxes, NEW i \in Invs, SelfCheckin(o, i, n)
      PROVE  Goal /\ RowGoal /\ event' = event
  <2>1. /\ Live(i)
        /\ invitations[i].maxPax > 0 => ActualPax(n) <= invitations[i].maxPax
        /\ Perform(o, invitations[i].guest, i, "kiosk", n, "self_event")
    BY <1>2 DEF SelfCheckin, ValidToken
  <2>2. invitations[i].guest \in Guests /\ Ok(invitations[i].guest, i, "kiosk", ActualPax(n))
    BY <2>1, <1>m
  <2>3. Goal
    BY <2>1, <2>2, <1>perform, <1>p DEF Methods
  <2> QED
    BY <2>3, <1>2, <1>keep DEF SelfCheckin
<1>3. ASSUME NEW o \in Desks, NEW n \in ActualPaxes, NEW g \in Guests,
             ProcessManualSearch(o, g, n)
      PROVE  Goal /\ RowGoal /\ event' = event
  BY <1>3, <1>a, <1>p, <1>perform, <1>keep DEF Methods, ProcessManualSearch
<1>4. ASSUME NEW o \in Desks, NEW r \in WalkinRequest, ProcessWalkin(o, r)
      PROVE  Goal /\ RowGoal /\ event' = event
  <2>1. r.guest \in Guests /\ r.pax \in Int
    BY CheckinAssumption DEF WalkinRequest
  <2> QED
    BY <1>4, <2>1, <1>a, <1>perform, <1>keep DEF Methods, ProcessWalkin
<1>5. ASSUME NEW o \in Desks, SelfEvent(o) PROVE Goal /\ RowGoal /\ event' = event
  <2>1. Good([desk[o] EXCEPT !.pc = "event"])
    BY <1>5, <1>d, <1>c DEF SelfEvent, Good, DeskRequest, DeskSteps
  <2> QED
    BY <1>5, <2>1, <1>i, <1>goto, <1>keep DEF SelfEvent
<1>6. ASSUME NEW o \in Desks, CheckEvent(o) PROVE Goal /\ RowGoal /\ event' = event
  <2>1. CASE event # "deleted" /\ OnRoster(desk[o].guest)
    <3>1. desk[o].guest \in Guests
      BY <1>6, <1>d DEF Good, Ok, CheckEvent
    <3>2. Good([desk[o] EXCEPT !.pc = "dup"])
      BY <1>6, <2>1, <3>1, <1>d, <1>r, <1>c DEF CheckEvent, Good, DeskRequest, DeskSteps
    <3> QED
      BY <1>6, <2>1, <3>2, <1>goto, <1>keep DEF CheckEvent
  <2>2. CASE ~(event # "deleted" /\ OnRoster(desk[o].guest))
    BY <1>6, <2>2, <1>i, <1>goto, <1>keep DEF CheckEvent
  <2> QED
    BY <2>1, <2>2
<1>7. ASSUME NEW o \in Desks, CheckDuplicate(o) PROVE Goal /\ RowGoal /\ event' = event
  <2>1. Good([desk[o] EXCEPT !.pc = "insert"])
    BY <1>7, <1>d, <1>c DEF CheckDuplicate, Good, DeskRequest, DeskSteps
  <2> QED
    BY <1>7, <2>1, <1>goto, <1>keep DEF CheckDuplicate
<1>8. ASSUME NEW o \in Desks, NEW k \in CheckinIds, InsertCheckin(o, k)
      PROVE  Goal /\ RowGoal /\ event' = event
  <2> DEFINE w == [ guest |-> desk[o].guest, status |-> "success", inv |-> desk[o].inv,
                    method |-> desk[o].method, pax |-> desk[o].pax ]
  <2>1. GoodRow(w)
    BY <1>8, <1>d, <1>c DEF InsertCheckin, Good, GoodRow, DeskRequest, CheckinRow,
       CheckinStatuses
  <2>2. CreateCheckin(k, w) /\ GotoDesk(o, IdleDesk) /\ event' = event
    BY <1>8 DEF InsertCheckin
  <2> HIDE DEF w
  <2> QED
    BY <2>1, <2>2, <1>i, <1>goto, <1>row
<1>w. ASSUME NEW k \in CheckinIds, NEW g \in Guests, NEW m \in Methods,
             NEW status \in CheckinStatuses \ {"success"}, RecordFailedCheckin(k, g, m, status)
      PROVE  RowGoal
  <2> DEFINE w == [ guest |-> g, status |-> status, inv |-> NoInv, method |-> m, pax |-> 0 ]
  <2>1. GoodRow(w)
    BY DEF GoodRow, CheckinRow
  <2>2. CreateCheckin(k, w)
    BY <1>w DEF RecordFailedCheckin
  <2> HIDE DEF w
  <2> QED
    BY <2>1, <2>2, <1>row
<1>9. ASSUME NEW o \in Desks, NEW k \in CheckinIds, NEW g \in Guests, RecordDuplicate(o, k, g)
      PROVE  Goal /\ RowGoal /\ event' = event
  <2>1. desk[o].method \in Methods
    BY <1>c DEF DeskRequest
  <2>2. RecordFailedCheckin(k, g, desk[o].method, "duplicate")
        /\ GotoDesk(o, IdleDesk) /\ event' = event
    BY <1>9 DEF RecordDuplicate
  <2> QED
    BY <2>1, <2>2, <1>i, <1>goto, <1>w DEF CheckinStatuses
<1>f. ASSUME NEW g \in Guests, NEW k \in CheckinIds,
             ScanFindsNobody(g, k) \/ \E s \in {"invalid", "wrong_event"} : SearchFindsNobody(g, k, s)
      PROVE  Goal /\ RowGoal /\ event' = event
  <2>1. desk' = desk /\ event' = event
    BY <1>f DEF ScanFindsNobody, SearchFindsNobody
  <2>2. RowGoal
    BY <1>f, <1>w DEF ScanFindsNobody, SearchFindsNobody, CheckinStatuses, Methods
  <2> QED
    BY <2>1, <2>2, <1>c, <1>d
<1>10. ASSUME NEW o \in Desks, LoseDuplicate(o) \/ AbortDesk(o)
       PROVE  Goal /\ RowGoal /\ event' = event
  BY <1>10, <1>i, <1>goto, <1>keep DEF LoseDuplicate, AbortDesk
<1>11. CASE TableStep \/ (\E s \in EventStates : ChangeEvent(s)) \/ UNCHANGED checkinAllVars
  <2>1. event' \in EventStates /\ checkins' = checkins /\ desk' = desk
    BY <1>11, <1>c DEF TableStep, ChangeEvent, checkinVars, checkinAllVars
  <2> QED
    BY <2>1, <1>c, <1>d, <1>keep
<1> HIDE DEF Goal, RowGoal
<1>12. Goal /\ RowGoal /\ event' \in EventStates
  BY <1>c, <1>1, <1>2, <1>3, <1>4, <1>5, <1>6, <1>7, <1>8, <1>9, <1>f, <1>10, <1>11
  DEF CheckinFaultyNext, CheckinNext, Goal, RowGoal
<1> QED
  BY <1>12 DEF Goal, RowGoal

\* However check-ins interleave with each other, with the organiser and with
\* answers, and wherever a request stops, AdmissionInv holds.
LEMMA AdmissionCorrect == CheckinFaultySpec => []AdmissionInv
  BY AdmissionInit, AdmissionStep, PTL DEF CheckinFaultySpec

\* Roster, invitations, checkins rows and requests keep their types.
THEOREM CheckinTypes == CheckinFaultySpec => []CheckinTypeOK
<1>1. AdmissionInv => CheckinTypeOK
  BY DEF AdmissionInv
<1> QED
  BY <1>1, AdmissionCorrect, PTL

\* performCheckin, from whichever way in: whoever was admitted was on the
\* roster, and the invitation the row names was issued to that guest.
THEOREM AdmittedAreKnown == CheckinFaultySpec => []AdmittedIsKnown
<1>1. AdmissionInv => AdmittedIsKnown
  BY DEF AdmissionInv, AdmittedIsKnown, RowKnows, Entitled
<1> QED
  BY <1>1, AdmissionCorrect, PTL

\* SelfCheckin compares the party with the quota four statements before the
\* INSERT; the row is still within the quota of its invitation.
THEOREM SelfCheckinWithinQuota == CheckinFaultySpec => []SelfWithinQuota
<1>1. AdmissionInv => SelfWithinQuota
  BY DEF AdmissionInv, SelfWithinQuota, RowKnows, Entitled
<1> QED
  BY <1>1, AdmissionCorrect, PTL

----------------------------------------------------------------------------
(* Check-in: how often a guest can be admitted.                            *)

\* The requests past their duplicate check for g.
Inserting(g) == {o \in Desks : desk[o].pc = "insert" /\ desk[o].guest = g}

\* DuplicatesBounded needs finitely many rows to count.
CountInv ==
    \A g \in Guests :
        /\ IsFiniteSet(SuccessRows(g))
        /\ Cardinality(SuccessRows(g)) + Cardinality(Inserting(g)) <= Cardinality(Desks)

\* Sets of requests are finite and have at most as many members as Desks.
LEMMA DesksCount ==
    ASSUME NEW S \in SUBSET Desks
    PROVE  /\ IsFiniteSet(S) /\ Cardinality(S) \in Nat
           /\ Cardinality(Desks) \in Nat /\ Cardinality(S) <= Cardinality(Desks)
  BY CheckinAssumption, FS_Subset, FS_CardinalityType

\* A step that gives g no new row, and lets no request for g past its
\* duplicate check, keeps the bound.
LEMMA CountKept ==
    ASSUME CountInv, NEW g \in Guests,
           SuccessRows(g)' = SuccessRows(g), Inserting(g)' \subseteq Inserting(g)
    PROVE  /\ IsFiniteSet(SuccessRows(g)')
           /\ Cardinality(SuccessRows(g)') + Cardinality(Inserting(g)')
                <= Cardinality(Desks)
<1>1. Inserting(g) \in SUBSET Desks
  BY DEF Inserting
<1>2. /\ IsFiniteSet(Inserting(g)) /\ Cardinality(Inserting(g)) \in Nat
      /\ Cardinality(Desks) \in Nat
  BY <1>1, DesksCount
<1>3. Cardinality(Inserting(g)') \in Nat
      /\ Cardinality(Inserting(g)') <= Cardinality(Inserting(g))
  BY <1>2, FS_Subset, FS_CardinalityType
<1>4. Cardinality(SuccessRows(g)) \in Nat
  BY FS_CardinalityType DEF CountInv
<1> QED
  BY <1>2, <1>3, <1>4 DEF CountInv

\* performCheckin counts before it inserts: only a request that saw no row of
\* its guest goes on to insert one, and it inserts one.
LEMMA CountStep ==
    CountInv /\ AdmissionInv /\ [CheckinFaultyNext]_checkinAllVars => CountInv'
<1> SUFFICES ASSUME CountInv, AdmissionInv, [CheckinFaultyNext]_checkinAllVars,
                    NEW g \in Guests
             PROVE  /\ IsFiniteSet(SuccessRows(g)')
                    /\ Cardinality(SuccessRows(g)') + Cardinality(Inserting(g)')
                         <= Cardinality(Desks)
  BY DEF CountInv
<1> DEFINE Kept == SuccessRows(g)' = SuccessRows(g) /\ Inserting(g)' \subseteq Inserting(g)
<1>c. /\ checkins \in [CheckinIds -> CheckinRow]
      /\ desk \in [Desks -> DeskRequest]
  BY DEF AdmissionInv, CheckinTypeOK
<1>goto. ASSUME NEW o \in Desks, NEW r, GotoDesk(o, r), r.pc # "insert"
         PROVE  Inserting(g)' \subseteq Inserting(g) \ {o}
  BY <1>goto, <1>c DEF GotoDesk, Inserting
<1>keep. checkins' = checkins => SuccessRows(g)' = SuccessRows(g)
  BY DEF SuccessRows
<1>i. IdleDesk.pc # "insert"
  BY DEF IdleDesk
<1>1. ASSUME NEW o \in Desks, NEW n \in ActualPaxes, NEW i \in Invs,
             ProcessQRScan(o, i, n) \/ SelfCheckin(o, i, n)
      PROVE  Kept
  BY <1>1, <1>goto, <1>keep DEF ProcessQRScan, SelfCheckin, Perform
<1>2. ASSUME NEW o \in Desks, NEW n \in ActualPaxes, NEW h \in Guests,
             ProcessManualSearch(o, h, n)
      PROVE  Kept
  BY <1>2, <1>goto, <1>keep DEF ProcessManualSearch, Perform
<1>3. ASSUME NEW o \in Desks, NEW r \in WalkinRequest, ProcessWalkin(o, r) PROVE Kept
  BY <1>3, <1>goto, <1>keep DEF ProcessWalkin, Perform
<1>4. ASSUME NEW o \in Desks, SelfEvent(o) PROVE Kept
  BY <1>4, <1>goto, <1>keep, <1>i, <1>c DEF SelfEvent, DeskRequest
<1>5. ASSUME NEW o \in Desks, CheckEvent(o) PROVE Kept
  BY <1>5, <1>goto, <1>keep, <1>i, <1>c DEF CheckEvent, DeskRequest
<1>6. ASSUME NEW o \in Desks, LoseDuplicate(o) \/ AbortDesk(o) PROVE Kept
  BY <1>6, <1>goto, <1>keep, <1>i DEF LoseDuplicate, AbortDesk
<1>f. ASSUME NEW k \in CheckinIds, NEW h, NEW m, NEW status, status # "success",
             RecordFailedCheckin(k, h, m, status)
      PROVE  SuccessRows(g)' = SuccessRows(g)
  BY <1>f, <1>c DEF RecordFailedCheckin, CreateCheckin, SuccessRows
<1>7. ASSUME NEW o \in Desks, NEW k \in CheckinIds, NEW h \in Guests, RecordDuplicate(o, k, h)
      PROVE  Kept
  BY <1>7, <1>f, <1>goto, <1>i DEF RecordDuplicate
<1>n. ASSUME NEW h \in Guests, NEW k \in CheckinIds,
             ScanFindsNobody(h, k) \/ \E s \in {"invalid", "wrong_event"} : SearchFindsNobody(h, k, s)
      PROVE  Kept
  <2>1. desk' = desk
    BY <1>n DEF ScanFindsNobody, SearchFindsNobody
  <2>2. SuccessRows(g)' = SuccessRows(g)
    BY <1>n, <1>f DEF ScanFindsNobody, SearchFindsNobody
  <2> QED
    BY <2>1, <2>2 DEF Inserting
<1>8. ASSUME TableStep \/ (\E s \in EventStates : ChangeEvent(s)) \/ UNCHANGED checkinAllVars
      PROVE  Kept
  BY <1>8, <1>keep DEF TableStep, ChangeEvent, checkinVars, checkinAllVars, Inserting
<1>9. ASSUME Kept
      PROVE  /\ IsFiniteSet(SuccessRows(g)')
             /\ Cardinality(SuccessRows(g)') + Cardinality(Inserting(g)') <= Cardinality(Desks)
  BY <1>9, CountKept
<1>10. ASSUME NEW o \in Desks, CheckDuplicate(o)
       PROVE  /\ IsFiniteSet(SuccessRows(g)')
              /\ Cardinality(SuccessRows(g)') + Cardinality(Inserting(g)') <= Cardinality(Desks)
  <2>1. CASE IsCheckedIn(desk[o].guest) \/ desk[o].guest # g
    <3>1. Kept
      BY <1>10, <2>1, <1>keep, <1>c DEF CheckDuplicate, GotoDesk, Inserting, DeskRequest
    <3> QED
      BY <3>1, <1>9
  <2>2. CASE ~IsCheckedIn(desk[o].guest) /\ desk[o].guest = g
    <3>1. SuccessRows(g)' = {}
      BY <1>10, <2>2, <1>keep DEF CheckDuplicate, IsCheckedIn
    <3>2. Inserting(g)' \in SUBSET Desks
      BY DEF Inserting
    <3>3. Cardinality(Inserting(g)') \in Nat /\ Cardinality(Desks) \in Nat
          /\ Cardinality(Inserting(g)') <= Cardinality(Desks)
      BY <3>2, DesksCount
    <3> QED
      BY <3>1, <3>3, FS_EmptySet
  <2> QED
    BY <2>1, <2>2
<1>11. ASSUME NEW o \in Desks, NEW k \in CheckinIds, InsertCheckin(o, k)
       PROVE  /\ IsFiniteSet(SuccessRows(g)')
              /\ Cardinality(SuccessRows(g)') + Cardinality(Inserting(g)') <= Cardinality(Desks)
  <2>1. k \notin SuccessRows(g) /\ desk[o].pc = "insert"
    BY <1>11 DEF InsertCheckin, CreateCheckin, SuccessRows
  <2>2. Inserting(g)' \subseteq Inserting(g) \ {o}
    BY <1>11, <1>goto, <1>i DEF InsertCheckin
  <2>3. CASE desk[o].guest # g
    <3>1. SuccessRows(g)' = SuccessRows(g)
      BY <1>11, <2>1, <2>3, <1>c DEF InsertCheckin, CreateCheckin, SuccessRows
    <3> QED
      BY <3>1, <2>2, <1>9
  <2>4. CASE desk[o].guest = g
    <3>1. SuccessRows(g)' = SuccessRows(g) \cup {k}
      BY <1>11, <2>4, <1>c DEF InsertCheckin, CreateCheckin, SuccessRows
    <3>2. o \in Inserting(g) /\ Inserting(g) \in SUBSET Desks
      BY <2>1, <2>4 DEF Inserting
    <3>3. /\ IsFiniteSet(Inserting(g)) /\ Cardinality(Inserting(g)) \in Nat
          /\ Cardinality(Desks) \in Nat
      BY <3>2, DesksCount
    <3>4. /\ IsFiniteSet(Inserting(g) \ {o})
          /\ Cardinality(Inserting(g) \ {o}) = Cardinality(Inserting(g)) - 1
      BY <3>2, <3>3, FS_RemoveElement
    <3>5. Cardinality(Inserting(g)') \in Nat
          /\ Cardinality(Inserting(g)') <= Cardinality(Inserting(g)) - 1
      BY <2>2, <3>4, FS_Subset, FS_CardinalityType
    <3>6. IsFiniteSet(SuccessRows(g)) /\ Cardinality(SuccessRows(g)) \in Nat
      BY FS_CardinalityType DEF CountInv
    <3>7. /\ IsFiniteSet(SuccessRows(g)')
          /\ Cardinality(SuccessRows(g)') = Cardinality(SuccessRows(g)) + 1
      BY <3>1, <3>6, <2>1, FS_AddElement
    <3>8. Cardinality(SuccessRows(g)) + Cardinality(Inserting(g)) <= Cardinality(Desks)
      BY DEF CountInv
    <3> QED
      BY <3>3, <3>5, <3>6, <3>7, <3>8
  <2> QED
    BY <2>3, <2>4
<1> HIDE DEF Kept
<1> QED
  BY <1>1, <1>2, <1>3, <1>4, <1>5, <1>6, <1>7, <1>n, <1>8, <1>9, <1>10, <1>11
  DEF CheckinFaultyNext, CheckinNext

\* idx_checkins_duplicate is no unique index and performCheckin opens no
\* transaction: a guest is admitted at most once per concurrent request, and
\* no more than once when one desk serves the event.
THEOREM AdmissionsBounded == CheckinFaultySpec => []DuplicatesBounded
<1>1. CheckinInit => CountInv
  <2> SUFFICES ASSUME CheckinInit, NEW g \in Guests
               PROVE  /\ IsFiniteSet(SuccessRows(g))
                      /\ Cardinality(SuccessRows(g)) + Cardinality(Inserting(g))
                           <= Cardinality(Desks)
    BY DEF CountInv
  <2>1. SuccessRows(g) = {} /\ Inserting(g) = {}
    BY DEF CheckinInit, SuccessRows, Inserting, NoCheckin, IdleDesk
  <2>2. Cardinality(Desks) \in Nat
    BY DesksCount
  <2> QED
    BY <2>1, <2>2, FS_EmptySet
<1>2. CountInv /\ AdmissionInv /\ [CheckinFaultyNext]_checkinAllVars => CountInv'
  BY CountStep
<1>3. CountInv => DuplicatesBounded
  BY DEF CountInv, DuplicatesBounded, Inserting
<1> QED
  BY <1>1, <1>2, <1>3, AdmissionCorrect, PTL DEF CheckinFaultySpec
=============================================================================

-------------------------------- MODULE Rsvp --------------------------------
(***************************************************************************)
(* RSVP responses to the invitations of one event: the public form         *)
(* (Submit, by token) and the officer's two routes (UpsertByOfficer, by    *)
(* guest, and UpdateByOfficer, by response).  The three share their tail:  *)
(* capacity check, lookup of the existing row, insert or update, and - but *)
(* for UpdateByOfficer - the UPDATE that marks the invitation responded.   *)
(* A request whose check fails returns an error and ends.  One action is   *)
(* one SQL statement.                                                      *)
(***************************************************************************)
EXTENDS InvitationTable, FiniteSetsExt

CONSTANTS
    Clients,    \* concurrent RSVP request handlers
    Paxes,      \* attending_pax values a request may carry
    Capacity    \* the event's capacity; 0 stands for none

ASSUME RsvpAssumption ==
    /\ Paxes \subseteq Int
    /\ Capacity \in Nat

VARIABLES
    deadlinePassed, \* now is after the event's rsvp_deadline
    rsvp,           \* rsvp[i]: the rsvp_responses row of invitation i
    sub,            \* sub[c]: the RSVP request handler c is serving
    seenTotal       \* seenTotal[c]: the sum its capacity check has read

rsvpAllVars == <<roster, invitations, deadlinePassed, rsvp, sub, seenTotal>>

----------------------------------------------------------------------------
(* Rows and requests.                                                      *)

SubmitStatuses == {"attending", "not_attending", "maybe"}

\* "waitlist" stands for the statuses that only an officer may set.
RsvpStatuses == SubmitStatuses \cup {"waitlist"}

Response ==
    [ status : RsvpStatuses \cup {"absent"},
      pax    : Int ]

NoResponse == [ status |-> "absent", pax |-> 0 ]

SubSteps ==
    { "idle", "deadline", "look", "cap_sum", "cap_own", "write", "mark" }

Submission ==
    [ pc     : SubSteps,
      route  : {"submit", "upsert", "update", "none"},
      inv    : Invs \cup {NoInv},
      status : RsvpStatuses,
      pax    : Int,
      maxPax : Int,         \* invitation.max_pax as read with the token
      exists : BOOLEAN,     \* the lookup found a row
      lapsed : BOOLEAN ]    \* history: the token Submit accepted has since
                            \* been revoked, deleted or expired

IdleSub ==
    [ pc |-> "idle", route |-> "none", inv |-> NoInv, status |-> "maybe",
      pax |-> 0, maxPax |-> 0, exists |-> FALSE, lapsed |-> FALSE ]

HasResponse(i) == rsvp[i].status # "absent"

\* What a row contributes to the event's attendance.
CountedPax(i) == IF rsvp[i].status = "attending" THEN rsvp[i].pax ELSE 0

\* SELECT SUM(attending_pax) ... WHERE status = 'attending': the rows of
\* revoked and of deleted invitations are counted too.
SumAttendingPax == MapThenSumSet(CountedPax, Invs)

----------------------------------------------------------------------------
(* Control flow.                                                           *)

GotoSub(c, r) == sub' = [sub EXCEPT ![c] = r]

EndSub(c) == GotoSub(c, IdleSub)

\* A declined invitation brings nobody.
NormalPax(s, n) == IF s = "not_attending" THEN 0 ELSE n

\* ValidateCapacity starts with the event row and is over when it sets no
\* capacity.
CapacityStep(next) == IF Capacity = 0 THEN next ELSE "cap_sum"

\* Mutant: Submit without the max_pax check.
NoMaxPaxCheck(c, r) ==
    GotoSub(c, [r EXCEPT !.pc = IF r.route = "submit" THEN "look" ELSE "write"])

\* Submit compares with the invitation's limit after the capacity check and
\* before it looks for a row; the officer's routes have no such check.
AfterCapacity(c, r) ==
    IF r.route = "submit" /\ r.pax > r.maxPax
    THEN EndSub(c)
    ELSE GotoSub(c, [r EXCEPT !.pc = IF r.route = "submit" THEN "look" ELSE "write"])

\* Mutant: Submit without validateTokenForRSVP.
SubmitAnyToken(c, i, s, n) ==
    /\ sub[c].pc = "idle"
    /\ Live(i)
    /\ GotoSub(c, [ pc |-> "deadline", route |-> "submit", inv |-> i,
                    status |-> s, pax |-> NormalPax(s, n), lapsed |-> FALSE,
                    maxPax |-> invitations[i].maxPax, exists |-> FALSE ])
    /\ UNCHANGED <<tableVars, deadlinePassed, rsvp, seenTotal>>

\* Submit finds the invitation of the token.
SubmitToken(c, i, s, n) ==
    /\ sub[c].pc = "idle"
    /\ ValidToken(i)
    /\ GotoSub(c, [ pc |-> "deadline", route |-> "submit", inv |-> i,
                    status |-> s, pax |-> NormalPax(s, n), lapsed |-> FALSE,
                    maxPax |-> invitations[i].maxPax, exists |-> FALSE ])
    /\ UNCHANGED <<tableVars, deadlinePassed, rsvp, seenTotal>>

\* Submit reads the deadline; an attending answer goes on to the capacity.
SubmitDeadline(c) ==
    /\ sub[c].pc = "deadline"
    /\ IF deadlinePassed
       THEN EndSub(c)
       ELSE IF sub[c].status = "attending" /\ Capacity # 0
            THEN GotoSub(c, [sub[c] EXCEPT !.pc = "cap_sum"])
            ELSE AfterCapacity(c, sub[c])
    /\ UNCHANGED <<tableVars, deadlinePassed, rsvp, seenTotal>>

\* ValidateCapacity reads the total ...
CapacitySum(c) ==
    /\ sub[c].pc = "cap_sum"
    /\ seenTotal' = [seenTotal EXCEPT ![c] = SumAttendingPax]
    /\ GotoSub(c, [sub[c] EXCEPT !.pc = "cap_own"])
    /\ UNCHANGED <<tableVars, deadlinePassed, rsvp>>

\* ... and then, in a second statement, what the total owes to this guest.
CapacityOwn(c) ==
    /\ sub[c].pc = "cap_own"
    /\ IF seenTotal[c] - CountedPax(sub[c].inv) + sub[c].pax > Capacity
       THEN EndSub(c)
       ELSE AfterCapacity(c, sub[c])
    /\ seenTotal' = [seenTotal EXCEPT ![c] = 0]
    /\ UNCHANGED <<tableVars, deadlinePassed, rsvp>>

\* Mutant: the invitation is marked before the answer is stored.
MarkFirst(c) ==
    /\ sub[c].pc = "look"
    /\ GotoSub(c, [sub[c] EXCEPT !.pc = "mark"])
    /\ UNCHANGED <<tableVars, deadlinePassed, rsvp, seenTotal>>

\* GetByInvitation.  Submit looks after the capacity check, Upsert before.
LookUp(c) ==
    /\ sub[c].pc = "look"
    /\ LET r == [sub[c] EXCEPT !.exists = HasResponse(sub[c].inv)] IN
       GotoSub(c, [r EXCEPT !.pc =
           IF r.route = "upsert" /\ r.status = "attending"
           THEN CapacityStep("write") ELSE "write"])
    /\ UNCHANGED <<tableVars, deadlinePassed, rsvp, seenTotal>>

\* The INSERT or UPDATE of the row of invitation i.
StoreResponse(i, s, n) == rsvp' = [rsvp EXCEPT ![i] = [ status |-> s, pax |-> n ]]

\* Mutant: the officer's routes do not mark the invitation.
OfficerDoesNotMark(c) ==
    /\ sub[c].pc = "write"
    /\ sub[c].exists \/ ~HasResponse(sub[c].inv)
    /\ StoreResponse(sub[c].inv, sub[c].status, sub[c].pax)
    /\ IF sub[c].route = "submit"
       THEN GotoSub(c, [sub[c] EXCEPT !.pc = "mark"])
       ELSE EndSub(c)
    /\ UNCHANGED <<tableVars, deadlinePassed, seenTotal>>

\* UPDATE of the row that was found, or INSERT of a new one, which
\* idx_rsvp_unique_invitation rejects when another request was faster.
WriteResponse(c) ==
    /\ sub[c].pc = "write"
    /\ IF ~sub[c].exists /\ HasResponse(sub[c].inv)
       THEN /\ EndSub(c)
            /\ UNCHANGED rsvp
       ELSE /\ StoreResponse(sub[c].inv, sub[c].status, sub[c].pax)
            /\ IF sub[c].route = "update"
               THEN EndSub(c)
               ELSE GotoSub(c, [sub[c] EXCEPT !.pc = "mark"])
    /\ UNCHANGED <<tableVars, deadlinePassed, seenTotal>>

\* UpdateStatus(responded), which finds no row when the invitation was
\* deleted meanwhile; its error is ignored.
MarkInvitation(c) ==
    /\ sub[c].pc = "mark"
    /\ IF Live(sub[c].inv) THEN MarkResponded(sub[c].inv)
                            ELSE UNCHANGED tableVars
    /\ EndSub(c)
    /\ UNCHANGED <<deadlinePassed, rsvp, seenTotal>>

\* The request's context is cancelled or a statement fails: the handler
\* returns where it stands (the error of UpdateStatus is ignored).
AbortSub(c) ==
    /\ sub[c].pc # "idle"
    /\ EndSub(c)
    /\ seenTotal' = [seenTotal EXCEPT ![c] = 0]
    /\ UNCHANGED <<tableVars, deadlinePassed, rsvp>>

\* UpsertByOfficer finds the roster row and the live invitation of a guest,
\* revoked ones included.
UpsertFind(c, i, s, n) ==
    /\ sub[c].pc = "idle"
    /\ Live(i)
    /\ OnRoster(invitations[i].guest)
    /\ GotoSub(c, [ pc |-> "look", route |-> "upsert", inv |-> i, status |-> s,
                    pax |-> IF n < 0 THEN 0 ELSE NormalPax(s, n),
                    maxPax |-> 0, exists |-> FALSE, lapsed |-> FALSE ])
    /\ UNCHANGED <<tableVars, deadlinePassed, rsvp, seenTotal>>

\* UpdateByOfficer reads the row and checks the capacity only when the guest
\* becomes attending.
UpdateByOfficer(c, i, s, n) ==
    /\ sub[c].pc = "idle"
    /\ HasResponse(i)
    /\ GotoSub(c, [ route |-> "update", inv |-> i, status |-> s, pax |-> n,
                    maxPax |-> 0, exists |-> TRUE, lapsed |-> FALSE,
                    pc |-> IF s = "attending" /\ rsvp[i].status # "attending"
                           THEN CapacityStep("write") ELSE "write" ])
    /\ UNCHANGED <<tableVars, deadlinePassed, rsvp, seenTotal>>

\* The organiser's side at work; a submission whose token it closes is noted.
OrganiserStep ==
    /\ OrganiserNext
    /\ LET closed == {i \in Invs : ValidToken(i) /\ ~ValidToken(i)'} IN
       sub' = [c \in Clients |-> [sub[c] EXCEPT !.lapsed =
                  @ \/ (sub[c].route = "submit" /\ sub[c].inv \in closed)]]
    /\ UNCHANGED <<deadlinePassed, rsvp, seenTotal>>

\* Time passes the deadline, or EventService.Update moves it.
MoveDeadline ==
    /\ deadlinePassed' = ~deadlinePassed
    /\ UNCHANGED <<tableVars, rsvp, sub, seenTotal>>

----------------------------------------------------------------------------

RsvpInit ==
    /\ TableInit
    /\ deadlinePassed = FALSE
    /\ rsvp = [i \in Invs |-> NoResponse]
    /\ sub = [c \in Clients |-> IdleSub]
    /\ seenTotal = [c \in Clients |-> 0]

\* The officer's requests.
UpsertByGuest(c) ==
    \E i \in Invs, n \in Paxes, s \in RsvpStatuses : UpsertFind(c, i, s, n)
EditById(c) ==
    \E i \in Invs, n \in Paxes, s \in RsvpStatuses : UpdateByOfficer(c, i, s, n)

\* The steps common to every route, and the two routes that check capacity.
RsvpCheckedNext ==
    \/ OrganiserStep
    \/ \E c \in Clients :
         \/ \E i \in Invs, n \in Paxes, s \in SubmitStatuses : SubmitToken(c, i, s, n)
         \/ UpsertByGuest(c)
         \/ SubmitDeadline(c)
         \/ CapacitySum(c)
         \/ CapacityOwn(c)
         \/ LookUp(c)
         \/ WriteResponse(c)
         \/ MarkInvitation(c)
    \/ MoveDeadline

RsvpNext ==
    \/ RsvpCheckedNext
    \/ \E c \in Clients : EditById(c)

RsvpSpec == RsvpInit /\ [][RsvpNext]_rsvpAllVars

\* The system with requests that end early.
RsvpFaultyNext == RsvpNext \/ \E c \in Clients : AbortSub(c)

RsvpFaultySpec == RsvpInit /\ [][RsvpFaultyNext]_rsvpAllVars

\* The system while no officer edits a response by its id.
RsvpCheckedSpec == RsvpInit /\ [][RsvpCheckedNext \/ \E c \in Clients : AbortSub(c)]_rsvpAllVars

----------------------------------------------------------------------------
(* Properties.                                                             *)

RsvpTypeOK ==
    /\ TableTypeOK
    /\ deadlinePassed \in BOOLEAN
    /\ rsvp \in [Invs -> Response]
    /\ sub \in [Clients -> Submission]
    /\ \A c \in Clients : sub[c].pc # "idle" => sub[c].inv \in Invs

\* "ValidateCapacity ensures total attending pax does not exceed event
\* capacity": the sum the code itself computes stays within the capacity.  It
\* does while one request is served at a time and no officer edits a response
\* by its id (UpdateByOfficer checks nothing when the guest was attending).
WithinCapacity == Capacity # 0 => SumAttendingPax <= Capacity

\* A guest cannot bring more people than the invitation grants: what the
\* public form is about to write, or has just written, is within max_pax of
\* the row as it is now.
SubmitWithinMaxPax ==
    \A c \in Clients :
        sub[c].route = "submit" /\ sub[c].pc \in {"look", "write", "mark"} =>
            sub[c].pax <= invitations[sub[c].inv].maxPax

\* The two tables agree: an answered, live invitation still reads "draft"
\* only while a handler that wrote its answer is about to mark it (a handler
\* that is cut short there leaves it so: this one is about RsvpSpec).
AnsweredIsMarked ==
    \A i \in Invs :
        HasResponse(i) /\ Live(i) /\ invitations[i].status = "draft" =>
            \E c \in Clients : sub[c].pc = "mark" /\ sub[c].inv = i

\* An invitation is marked responded only when there is an answer to show.
MarkedIsAnswered ==
    \A i \in Invs : invitations[i].status = "responded" => HasResponse(i)

\* Revoking, deleting or letting an invitation expire closes the public form.
\* Its answer changes, or its token is accepted again (UpdateStatus writes
\* "responded" over "revoked"), only by the hand of an officer or of a
\* submission that had found the token valid before it was closed.
ClosedStaysClosed ==
    [][\A i \in Invs :
         /\ invitations[i].status # "absent" /\ ~ValidToken(i)
         /\ rsvp'[i] # rsvp[i] \/ ValidToken(i)'
         => \E c \in Clients :
              /\ sub[c].inv = i /\ sub'[c] # sub[c]
              /\ sub[c].pc \in {"write", "mark"}
              /\ sub[c].route # "submit" \/ sub[c].lapsed]_rsvpAllVars
=============================================================================

-------------------------------- MODULE Access --------------------------------
(***************************************************************************)
(* Who may do what in one tenant: memberships and their roles, the cache   *)
(* of permissions in the server process, and the staff of one event.       *)
(*                                                                         *)
(* A request passes its middleware (RequirePermission on the cached role,  *)
(* RequireEventPermission on the database) and then changes the team or    *)
(* the event's staff, statement by statement.  A cache miss is filled in   *)
(* two steps: the role is read, and put into the cache, where it stays     *)
(* until it expires or a change of the membership removes it.              *)
(*                                                                         *)
(* Roles: the owner (the only one with team:write), event managers (who    *)
(* may assign staff to events) and staff, for all other roles.             *)
(***************************************************************************)
EXTENDS Integers, FiniteSets

CONSTANTS
    Users,      \* accounts
    Owner,      \* the account that created the tenant
    Ushers,     \* accounts that requests assign to the event
    Handlers,   \* concurrent request handlers
    MaxTeam,    \* MaxTeamMembers of the tenant's plan
    NoUser

ASSUME AccessAssumption ==
    /\ IsFiniteSet(Users) /\ IsFiniteSet(Handlers) /\ Handlers # {}
    /\ Owner \in Users /\ Ushers \subseteq Users
    /\ NoUser \notin Users
    /\ MaxTeam \in Nat \ {0}

VARIABLES
    members,    \* members[u]: the tenant_users row of u
    staff,      \* staff[u]: the event_members row of u at the event
    cache,      \* cache[u]: the role cached for u
    late,       \* history: users whose entry was out of date when it was put
    uncounted,  \* history: some AddUser could not count the team
    req         \* req[h]: the request that handler h is serving

vars == <<members, staff, cache, late, uncounted, req>>

----------------------------------------------------------------------------
(* Rows, roles and requests.                                               *)

Roles == {"owner", "manager", "staff"}
NoRole == "none"

MemberStatuses == {"absent", "active", "inactive"}
Member == [role : Roles \cup {NoRole}, status : MemberStatuses]
Absent == [role |-> NoRole, status |-> "absent"]

Active(u) == members[u].status = "active"
Team == {u \in Users : Active(u)}

\* GetRole: no row, or an inactive one, is ErrMembershipNotFound.
CurrentRole(u) == IF Active(u) THEN members[u].role ELSE NoRole

\* RolePermissions: team:write, and event_team:write.
TeamWrite(r) == r = "owner"
EventTeamWrite(r) == r \in {"owner", "manager"}

\* What the handlers take from a request.
AddUserRequest == [user : Users, role : Roles]
RemoveUserRequest == [user : Users]
UpdateUserRoleRequest == [user : Users, role : Roles]
EventMemberRequest == [user : Ushers]
EventRoleRequest == [user : Ushers]
EventRemoveRequest == [user : Ushers]

Steps == {"idle", "lookup", "fill", "team", "add_member", "add_upsert",
          "remove_write", "role_write", "invalidate", "assign_member",
          "assign_insert"}

\* found is the role read for the actor.
Request ==
    [ pc    : Steps,
      actor : Users \cup {NoUser},
      user  : Users \cup {NoUser},
      role  : Roles \cup {NoRole},
      found : Roles \cup {NoRole} ]

Idle ==
    [ pc |-> "idle", actor |-> NoUser, user |-> NoUser,
      role |-> NoRole, found |-> NoRole ]

Goto(h, r) == req' = [req EXCEPT ![h] = r]
Step(h, pc) == Goto(h, [req[h] EXCEPT !.pc = pc])
End(h) == Goto(h, Idle)

----------------------------------------------------------------------------
(* RBAC.                                                                   *)

\* RequirePermission(team:write): the request goes on to its handler.  All
\* other permissions and roles open handlers that change nothing here, as do
\* the requests that end in Refuse.
Enforce(r, role) ==
    IF TeamWrite(role)
    THEN [Idle EXCEPT !.pc = "team", !.actor = r.actor] ELSE Idle

\* A tenant request of user a; getCachedPermissions.
Arrive(h, a) ==
    /\ req[h].pc = "idle"
    /\ LET r == [Idle EXCEPT !.pc = "lookup", !.actor = a] IN
       Goto(h, IF cache[a] = NoRole THEN r ELSE Enforce(r, cache[a]))
    /\ UNCHANGED <<members, staff, cache, late, uncounted>>

\* A miss: the role is read from tenant_users.
LookUp(h) ==
    /\ req[h].pc = "lookup"
    /\ LET found == CurrentRole(req[h].actor) IN
       IF found = NoRole THEN End(h)
       ELSE Goto(h, [req[h] EXCEPT !.pc = "fill", !.found = found])
    /\ UNCHANGED <<members, staff, cache, late, uncounted>>

\* setCachedPermissions with a new expiry.
Fill(h) ==
    LET a == req[h].actor IN
    /\ req[h].pc = "fill"
    /\ cache' = [cache EXCEPT ![a] = req[h].found]
    /\ late' = IF req[h].found = CurrentRole(a) THEN late \ {a} ELSE late \cup {a}
    /\ Goto(h, Enforce(req[h], req[h].found))
    /\ UNCHANGED <<members, staff, uncounted>>

\* Mutant: an entry never expires.
NeverExpires(u) ==
    /\ cache[u] # NoRole
    /\ UNCHANGED vars

\* Five minutes after it was put the entry counts no more.
Expire(u) ==
    /\ cache[u] # NoRole
    /\ cache' = [cache EXCEPT ![u] = NoRole]
    /\ late' = late \ {u}
    /\ UNCHANGED <<members, staff, uncounted, req>>

\* InvalidateUser, after a change of the membership.
Invalidate(h) ==
    /\ req[h].pc = "invalidate"
    /\ cache' = [cache EXCEPT ![req[h].user] = NoRole]
    /\ late' = late \ {req[h].user}
    /\ End(h)
    /\ UNCHANGED <<members, staff, uncounted>>

----------------------------------------------------------------------------
(* The team.                                                               *)

\* The handler's request on user u, with role r.
Begin(h, pc, u, r) == Goto(h, [req[h] EXCEPT !.pc = pc, !.user = u, !.role = r])

\* Mutant: the quota is not compared.
AddNoQuota(h, r, counted) ==
    /\ req[h].pc = "team"
    /\ r.role # "owner"
    /\ Begin(h, "add_member", r.user, r.role)
    /\ uncounted' = (uncounted \/ ~counted)
    /\ UNCHANGED <<members, staff, cache, late>>

\* AddUser: the quota, unless it cannot be read or the team not be counted;
\* then the owner's role is refused.
AddQuota(h, r, counted) ==
    /\ req[h].pc = "team"
    /\ counted => Cardinality(Team) < MaxTeam
    /\ r.role # "owner"
    /\ Begin(h, "add_member", r.user, r.role)
    /\ uncounted' = (uncounted \/ ~counted)
    /\ UNCHANGED <<members, staff, cache, late>>

\* Mutant: an active membership is overwritten.
AddMemberAnyway(h) ==
    /\ req[h].pc = "add_member"
    /\ Step(h, "add_upsert")
    /\ UNCHANGED <<members, staff, cache, late, uncounted>>

\* An active member is ErrAlreadyExists.
AddMember(h) ==
    /\ req[h].pc = "add_member"
    /\ IF Active(req[h].user) THEN End(h) ELSE Step(h, "add_upsert")
    /\ UNCHANGED <<members, staff, cache, late, uncounted>>

\* UpsertActive overwrites the role and the status of whatever row there is.
AddUpsert(h) ==
    /\ req[h].pc = "add_upsert"
    /\ members' = [members EXCEPT ![req[h].user] =
                     [role |-> req[h].role, status |-> "active"]]
    /\ Step(h, "invalidate")
    /\ UNCHANGED <<staff, cache, late, uncounted>>

\* RemoveUser: the owner stays.
RemoveRead(h, r) ==
    /\ req[h].pc = "team"
    /\ CurrentRole(r.user) \notin {NoRole, "owner"}
    /\ Begin(h, "remove_write", r.user, NoRole)
    /\ UNCHANGED <<members, staff, cache, late, uncounted>>

\* SoftDelete of the active row, whose role nobody reads any more; the
\* event_members rows stay as they are.
RemoveWrite(h) ==
    /\ req[h].pc = "remove_write"
    /\ IF Active(req[h].user)
       THEN /\ members' = [members EXCEPT ![req[h].user] =
                            [role |-> NoRole, status |-> "inactive"]]
            /\ Step(h, "invalidate")
       ELSE UNCHANGED members /\ End(h)
    /\ UNCHANGED <<staff, cache, late, uncounted>>

\* UpdateUserRole: neither from nor to the owner's role.
RoleRead(h, r) ==
    /\ req[h].pc = "team"
    /\ CurrentRole(r.user) \notin {NoRole, "owner"}
    /\ r.role # "owner"
    /\ Begin(h, "role_write", r.user, r.role)
    /\ UNCHANGED <<members, staff, cache, late, uncounted>>

\* Mutant: the cache is not told of a new role.
RoleNotInvalidated(h) ==
    /\ req[h].pc = "role_write"
    /\ IF Active(req[h].user)
       THEN members' = [members EXCEPT ![req[h].user].role = req[h].role]
       ELSE UNCHANGED members
    /\ End(h)
    /\ UNCHANGED <<staff, cache, late, uncounted>>

RoleWrite(h) ==
    /\ req[h].pc = "role_write"
    /\ IF Active(req[h].user)
       THEN /\ members' = [members EXCEPT ![req[h].user].role = req[h].role]
            /\ Step(h, "invalidate")
       ELSE UNCHANGED members /\ End(h)
    /\ UNCHANGED <<staff, cache, late, uncounted>>

----------------------------------------------------------------------------
(* The staff of the event.                                                 *)

\* RequireEventPermission(event_team:write): Resolve reads the membership; the
\* roles that event_members may hold do not carry the permission.
ArriveEvent(h, a, r) ==
    /\ req[h].pc = "idle"
    /\ EventTeamWrite(CurrentRole(a))
    /\ Goto(h, [Idle EXCEPT !.pc = "assign_member", !.user = r.user])
    /\ UNCHANGED <<members, staff, cache, late, uncounted>>

\* EventMemberService.Create: only active members are assigned ...
AssignMember(h) ==
    /\ req[h].pc = "assign_member"
    /\ IF Active(req[h].user) THEN Step(h, "assign_insert") ELSE End(h)
    /\ UNCHANGED <<members, staff, cache, late, uncounted>>

\* ... by an upsert that also brings back a row that was deactivated.
AssignInsert(h) ==
    /\ req[h].pc = "assign_insert"
    /\ staff' = [staff EXCEPT ![req[h].user] = "active"]
    /\ End(h)
    /\ UNCHANGED <<members, cache, late, uncounted>>

\* The UPDATE of a row, active or not.
SetStaff(u, status) ==
    /\ staff[u] # "absent"
    /\ staff' = [staff EXCEPT ![u] = status]
    /\ UNCHANGED <<members, cache, late, uncounted, req>>

\* UpdateRole makes the row active again, whatever it was.
UpdateEventRole(a, r) ==
    /\ EventTeamWrite(CurrentRole(a))
    /\ SetStaff(r.user, "active")

RemoveFromEvent(a, r) ==
    /\ EventTeamWrite(CurrentRole(a))
    /\ SetStaff(r.user, "inactive")

\* The handler refuses the request, or a statement fails.  Between the change
\* of a membership and InvalidateUser nothing can fail.
Refuse(h) ==
    /\ req[h].pc \notin {"idle", "invalidate"}
    /\ End(h)
    /\ UNCHANGED <<members, staff, cache, late, uncounted>>

\* The server process stops, wherever its requests are, and starts again.
Restart ==
    /\ cache' = [u \in Users |-> NoRole]
    /\ late' = {}
    /\ req' = [h \in Handlers |-> Idle]
    /\ UNCHANGED <<members, staff, uncounted>>

----------------------------------------------------------------------------

\* Registration: the owner's membership is there from the start.
Init ==
    /\ members = [u \in Users |-> IF u = Owner
                    THEN [role |-> "owner", status |-> "active"] ELSE Absent]
    /\ staff = [u \in Users |-> "absent"]
    /\ cache = [u \in Users |-> NoRole]
    /\ late = {}
    /\ uncounted = FALSE
    /\ req = [h \in Handlers |-> Idle]

CacheStep(h) == LookUp(h) \/ Fill(h) \/ Invalidate(h)
TeamStep(h) ==
    \/ \E r \in AddUserRequest, counted \in BOOLEAN : AddQuota(h, r, counted)
    \/ \E r \in RemoveUserRequest : RemoveRead(h, r)
    \/ \E r \in UpdateUserRoleRequest : RoleRead(h, r)
    \/ AddMember(h) \/ AddUpsert(h)
    \/ RemoveWrite(h)
    \/ RoleWrite(h)
StaffStep(h) == AssignMember(h) \/ AssignInsert(h)

Next ==
    \/ \E h \in Handlers, a \in Users :
         \/ Arrive(h, a)
         \/ \E r \in EventMemberRequest : ArriveEvent(h, a, r)
    \/ \E h \in Handlers : CacheStep(h) \/ TeamStep(h) \/ StaffStep(h) \/ Refuse(h)
    \/ \E a \in Users :
         \/ \E r \in EventRoleRequest : UpdateEventRole(a, r)
         \/ \E r \in EventRemoveRequest : RemoveFromEvent(a, r)
    \/ \E u \in Users : Expire(u)
    \/ Restart

\* Time passes: entries expire.  Requests need not get anywhere.
Spec == Init /\ [][Next]_vars /\ \A u \in Users \ {Owner} : WF_vars(Expire(u))

----------------------------------------------------------------------------
(* Properties.                                                             *)

TypeOK ==
    /\ members \in [Users -> Member]
    /\ staff \in [Users -> MemberStatuses]
    /\ cache \in [Users -> Roles \cup {NoRole}]
    /\ late \in SUBSET Users
    /\ uncounted \in BOOLEAN
    /\ req \in [Handlers -> Request]

\* AddUser, RemoveUser, UpdateUserRole and the permission cache together: the
\* owner keeps the membership and nobody else ever holds, has cached, or acts
\* with, the role that manages the team.
OwnerManages ==
    /\ members[Owner] = [role |-> "owner", status |-> "active"]
    /\ \A u \in Users \ {Owner} : members[u].role # "owner" /\ cache[u] # "owner"
    /\ \A h \in Handlers :
          req[h].pc \in {"team", "add_member", "add_upsert", "remove_write",
                         "role_write", "invalidate"}
            => req[h].actor = Owner

\* AddUser compares the quota before it inserts: the team outgrows the plan
\* by no more than the other requests that are being served.
TeamBounded ==
    uncounted \/
    Cardinality(Team)
      + Cardinality({h \in Handlers : req[h].pc \in {"add_member", "add_upsert"}})
    < MaxTeam + Cardinality(Handlers)

\* InvalidateUser: a cached role differs from the one in tenant_users only
\* while the change that made it differ is about to invalidate it, or because
\* a slow request has put a role it read before the change.
StaleOnlyByLateFill ==
    \A u \in Users :
        cache[u] \notin {NoRole, CurrentRole(u)} =>
            \/ u \in late
            \/ \E h \in Handlers : req[h].pc = "invalidate" /\ req[h].user = u

\* The expiry of the cache: an outdated role does not stay for ever, even
\* when its invalidation was missed.
CacheCatchesUp ==
    \A u \in Users \ {Owner} :
        cache[u] \notin {NoRole, CurrentRole(u)}
            ~> cache[u] \in {NoRole, CurrentRole(u)}
=============================================================================

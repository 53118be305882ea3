----------------------------- MODULE AccessProofs -----------------------------
(***************************************************************************)
(* For any number of accounts and requests: only the owner manages the     *)
(* team, a cached permission is out of date only while its invalidation is *)
(* under way or because of a late fill, and the team outgrows the plan by  *)
(* less than the number of requests being served.                          *)
(*                                                                         *)
(* The strengthening says what each request has checked by the time it     *)
(* writes: a role read for somebody else is not the owner's, and the       *)
(* membership that is about to change is not the owner's.                  *)
(***************************************************************************)
EXTENDS Access, FiniteSetTheorems, TLAPS

Adds == {"add_member", "add_upsert"}
Writes == {"add_upsert", "remove_write", "role_write"}
Acts == {"team", "add_member", "add_upsert", "remove_write", "role_write", "invalidate"}
Names == {"add_member", "add_upsert", "remove_write", "role_write", "invalidate",
          "assign_member", "assign_insert"}

\* What a request has made sure of.
Checked(r) ==
    /\ r.pc \in {"lookup", "fill"} => r.actor \in Users
    /\ r.pc = "fill" => (r.found = "owner" => r.actor = Owner)
    /\ r.pc \in Acts => r.actor = Owner
    /\ r.pc \in Names => r.user \in Users
    /\ r.pc \in Adds \cup {"role_write"} => r.role # "owner"
    /\ r.pc \in Writes => r.user # Owner

AccessInv ==
    /\ TypeOK
    /\ OwnerManages
    /\ StaleOnlyByLateFill
    /\ \A h \in Handlers : Checked(req[h])

LEMMA IdleChecked == Idle \in Request /\ Checked(Idle) /\ Idle.pc = "idle"
  BY DEF Idle, Request, Steps, Checked, Acts, Names, Adds, Writes

LEMMA AccessInit == Init => AccessInv
<1> SUFFICES ASSUME Init PROVE AccessInv
  OBVIOUS
<1>1. \A h \in Handlers : req[h] = Idle
  BY DEF Init
<1>2. TypeOK
  BY IdleChecked DEF Init, TypeOK, Member, Absent, Roles, MemberStatuses, NoRole
<1>3. OwnerManages
  BY <1>1, IdleChecked, AccessAssumption DEF Init, OwnerManages, Absent, NoRole
<1>4. StaleOnlyByLateFill
  BY DEF Init, StaleOnlyByLateFill
<1> QED
  BY <1>1, <1>2, <1>3, <1>4, IdleChecked DEF AccessInv

\* A request goes on and leaves memberships and cache alone.
LEMMA Advance ==
    ASSUME AccessInv, NEW h \in Handlers, NEW r \in Request, Goto(h, r), Checked(r),
           req[h].pc # "invalidate",
           UNCHANGED <<members, cache, late>>,
           staff' \in [Users -> MemberStatuses], uncounted' \in BOOLEAN
    PROVE  AccessInv'
<1> USE DEF AccessInv
<1>1. TypeOK'
  BY DEF TypeOK, Goto
<1>2. \A i \in Handlers : req'[i] = IF i = h THEN r ELSE req[i]
  BY DEF TypeOK, Goto
<1>3. OwnerManages'
  BY <1>2 DEF OwnerManages, Checked, Acts
<1>4. StaleOnlyByLateFill'
  BY <1>2 DEF StaleOnlyByLateFill, CurrentRole, Active
<1>5. \A i \in Handlers : Checked(req[i])'
  BY <1>2 DEF Checked
<1> QED
  BY <1>1, <1>3, <1>4, <1>5

\* Somebody else's membership is written, and its cached role is to go.
LEMMA MemberWrite ==
    ASSUME AccessInv, NEW h \in Handlers, NEW u \in Users, NEW row \in Member,
           u # Owner, row.role # "owner", req[h].user = u, req[h].pc \in Writes,
           members' = [members EXCEPT ![u] = row], Step(h, "invalidate"),
           UNCHANGED <<staff, cache, late, uncounted>>
    PROVE  AccessInv'
<1> USE DEF AccessInv
<1> DEFINE r == [req[h] EXCEPT !.pc = "invalidate"]
<1>1. req[h] \in Request /\ Checked(req[h])
  BY DEF TypeOK
<1>2. PICK q \in Request : q = r
  BY <1>1 DEF Request, Steps
<1>3. q.pc = "invalidate" /\ q.user = u /\ q.actor = Owner
  BY <1>1, <1>2 DEF Request, Checked, Writes, Acts
<1>4. req' = [req EXCEPT ![h] = q]
  BY <1>2 DEF Step, Goto
<1>5. TypeOK'
  BY <1>4 DEF TypeOK
<1>6. \A i \in Handlers : req'[i] = IF i = h THEN q ELSE req[i]
  BY <1>4 DEF TypeOK
<1>7. \A v \in Users : members'[v] = IF v = u THEN row ELSE members[v]
  BY DEF TypeOK
<1>8. OwnerManages'
  BY <1>3, <1>6, <1>7, AccessAssumption DEF OwnerManages
<1>9. ASSUME NEW v \in Users, cache'[v] \notin {NoRole, CurrentRole(v)'}
      PROVE  v \in late' \/ \E i \in Handlers : req'[i].pc = "invalidate" /\ req'[i].user = v
  <2>1. CASE v = u
    BY <1>3, <1>6, <2>1
  <2>2. CASE v # u
    <3>1. cache[v] \notin {NoRole, CurrentRole(v)}
      BY <1>7, <1>9, <2>2 DEF CurrentRole, Active
    <3>2. v \in late \/ \E i \in Handlers : req[i].pc = "invalidate" /\ req[i].user = v
      BY <3>1 DEF StaleOnlyByLateFill
    <3> QED
      BY <3>2, <1>6 DEF Writes
  <2> QED
    BY <2>1, <2>2
<1>10. StaleOnlyByLateFill'
  BY <1>9 DEF StaleOnlyByLateFill
<1>11. Checked(q)
  BY <1>3 DEF Checked, Adds, Writes
<1>12. \A i \in Handlers : Checked(req[i])'
  BY <1>6, <1>11 DEF Checked
<1> QED
  BY <1>5, <1>8, <1>10, <1>12

\* What Enforce lets through acts for the owner.
LEMMA Enforced ==
    ASSUME NEW r \in Request, NEW role, r.actor \in Users, role = "owner" => r.actor = Owner
    PROVE  /\ Enforce(r, role) \in Request /\ Checked(Enforce(r, role))
           /\ Enforce(r, role).pc \in {"idle", "team"}
<1> DEFINE t == [Idle EXCEPT !.pc = "team", !.actor = r.actor]
<1>1. t \in Request /\ t.pc = "team" /\ t.actor = r.actor
  BY IdleChecked DEF Idle, Request, Steps
<1>2. role = "owner" => Checked(t)
  BY <1>1 DEF Checked, Adds, Writes, Acts, Names
<1> HIDE DEF t
<1>3. Enforce(r, role) = IF role = "owner" THEN t ELSE Idle
  BY DEF Enforce, TeamWrite, t
<1> QED
  BY <1>1, <1>2, <1>3, IdleChecked

\* Requests on the team and on the event's staff up to their writes.
LEMMA ReadStep ==
    ASSUME AccessInv, NEW h \in Handlers,
           \/ \E a \in Users : Arrive(h, a)
           \/ \E a \in Users, r \in EventMemberRequest : ArriveEvent(h, a, r)
           \/ LookUp(h)
           \/ \E r \in AddUserRequest, counted \in BOOLEAN : AddQuota(h, r, counted)
           \/ \E r \in RemoveUserRequest : RemoveRead(h, r)
           \/ \E r \in UpdateUserRoleRequest : RoleRead(h, r)
           \/ AddMember(h)
           \/ StaffStep(h)
           \/ Refuse(h)
    PROVE  AccessInv'
<1>1. /\ req[h] \in Request /\ Checked(req[h])
      /\ staff \in [Users -> MemberStatuses] /\ uncounted \in BOOLEAN
      /\ Idle \in Request /\ Checked(Idle)
  BY IdleChecked DEF AccessInv, TypeOK
<1> DEFINE Good(r) == r \in Request /\ Checked(r)
<1>2. ASSUME NEW r, Good(r), Goto(h, r), req[h].pc # "invalidate",
             UNCHANGED <<members, staff, cache, late, uncounted>>
      PROVE  AccessInv'
  BY <1>1, <1>2, Advance
<1>3. ASSUME NEW a \in Users, Arrive(h, a) PROVE AccessInv'
  <2> DEFINE r == [Idle EXCEPT !.pc = "lookup", !.actor = a]
  <2>1. r \in Request /\ r.actor = a /\ r.pc = "lookup"
    BY <1>1 DEF Idle, Request, Steps
  <2>2. Good(r)
    BY <2>1 DEF Checked, Acts, Names, Adds, Writes
  <2>3. cache[a] = "owner" => a = Owner
    BY DEF AccessInv, OwnerManages
  <2>4. Goto(h, r) \/ Goto(h, Enforce(r, cache[a]))
    BY <1>3 DEF Arrive
  <2>5. req[h].pc # "invalidate" /\ UNCHANGED <<members, staff, cache, late, uncounted>>
    BY <1>3 DEF Arrive
  <2> HIDE DEF r
  <2>6. Good(Enforce(r, cache[a]))
    BY <2>1, <2>3, Enforced
  <2> QED
    BY <1>2, <2>2, <2>4, <2>5, <2>6
<1>4. ASSUME NEW a \in Users, NEW r \in EventMemberRequest, ArriveEvent(h, a, r)
      PROVE  AccessInv'
  <2> DEFINE s == [Idle EXCEPT !.pc = "assign_member", !.user = r.user]
  <2>1. r.user \in Users
    BY AccessAssumption DEF EventMemberRequest
  <2>2. s \in Request /\ s.user = r.user /\ s.pc = "assign_member"
    BY <1>1, <2>1 DEF Idle, Request, Steps
  <2>3. Good(s)
    BY <2>1, <2>2 DEF Checked, Acts, Names, Adds, Writes
  <2>4. /\ Goto(h, s) /\ req[h].pc # "invalidate"
        /\ UNCHANGED <<members, staff, cache, late, uncounted>>
    BY <1>4 DEF ArriveEvent
  <2> HIDE DEF s
  <2> QED
    BY <1>2, <2>3, <2>4
<1>5. CASE LookUp(h)
  <2> DEFINE a == req[h].actor
             s == [req[h] EXCEPT !.pc = "fill", !.found = CurrentRole(a)]
  <2>1. a \in Users /\ req[h].pc = "lookup"
    BY <1>1, <1>5 DEF Checked, LookUp
  <2>2. CurrentRole(a) \in Roles \cup {NoRole} /\ (CurrentRole(a) = "owner" => a = Owner)
    BY <2>1 DEF AccessInv, TypeOK, OwnerManages, CurrentRole, Member, NoRole
  <2>3. s \in Request /\ s.pc = "fill" /\ s.actor = a /\ s.found = CurrentRole(a)
    BY <1>1, <2>2 DEF Request, Steps
  <2>4. Good(s)
    BY <2>1, <2>2, <2>3 DEF Checked, Acts, Names, Adds, Writes
  <2>5. Goto(h, s) \/ Goto(h, Idle)
    BY <1>5 DEF LookUp, End
  <2>6. UNCHANGED <<members, staff, cache, late, uncounted>>
    BY <1>5 DEF LookUp
  <2> HIDE DEF s
  <2> QED
    BY <1>1, <1>2, <2>1, <2>4, <2>5, <2>6
<1>6. ASSUME NEW pc \in {"add_member", "remove_write", "role_write"}, NEW u \in Users,
             NEW role \in Roles \cup {NoRole}, role # "owner",
             req[h].pc = "team", pc # "add_member" => u # Owner
      PROVE  Good([req[h] EXCEPT !.pc = pc, !.user = u, !.role = role])
  <2> DEFINE s == [req[h] EXCEPT !.pc = pc, !.user = u, !.role = role]
  <2>1. s \in Request /\ s.pc = pc /\ s.user = u /\ s.role = role /\ s.actor = req[h].actor
    BY <1>1, <1>6 DEF Request, Steps
  <2>2. req[h].actor = Owner
    BY <1>1, <1>6 DEF Checked, Acts
  <2> HIDE DEF s
  <2>3. Good(s)
    BY <1>6, <2>1, <2>2 DEF Checked, Acts, Names, Adds, Writes
  <2> QED
    BY <2>3 DEF s
<1>7. CurrentRole(Owner) = "owner"
  BY DEF AccessInv, OwnerManages, CurrentRole, Active
<1>8. ASSUME NEW r \in AddUserRequest, NEW counted \in BOOLEAN, AddQuota(h, r, counted)
      PROVE  AccessInv'
  <2> DEFINE s == [req[h] EXCEPT !.pc = "add_member", !.user = r.user, !.role = r.role]
  <2>1. r.user \in Users /\ r.role \in Roles /\ r.role # "owner" /\ req[h].pc = "team"
    BY <1>8 DEF AddUserRequest, AddQuota
  <2>2. Good(s)
    BY <1>6, <2>1
  <2>3. Goto(h, s) /\ UNCHANGED <<members, staff, cache, late>>
    BY <1>8 DEF AddQuota, Begin
  <2>4. PICK o \in BOOLEAN : uncounted' = o
    BY <1>8 DEF AddQuota
  <2> HIDE DEF s
  <2> QED
    BY <1>1, <2>1, <2>2, <2>3, <2>4, Advance
<1>9. ASSUME NEW r \in RemoveUserRequest, RemoveRead(h, r) PROVE AccessInv'
  <2> DEFINE s == [req[h] EXCEPT !.pc = "remove_write", !.user = r.user, !.role = NoRole]
  <2>1. r.user \in Users /\ r.user # Owner /\ req[h].pc = "team"
    BY <1>7, <1>9 DEF RemoveUserRequest, RemoveRead
  <2>2. Good(s)
    BY <1>6, <2>1 DEF NoRole
  <2>3. Goto(h, s) /\ UNCHANGED <<members, staff, cache, late, uncounted>>
    BY <1>9 DEF RemoveRead, Begin
  <2> HIDE DEF s
  <2> QED
    BY <1>2, <2>1, <2>2, <2>3
<1>10. ASSUME NEW r \in UpdateUserRoleRequest, RoleRead(h, r) PROVE AccessInv'
  <2> DEFINE s == [req[h] EXCEPT !.pc = "role_write", !.user = r.user, !.role = r.role]
  <2>1. /\ r.user \in Users /\ r.user # Owner /\ r.role \in Roles /\ r.role # "owner"
        /\ req[h].pc = "team"
    BY <1>7, <1>10 DEF UpdateUserRoleRequest, RoleRead
  <2>2. Good(s)
    BY <1>6, <2>1
  <2>3. Goto(h, s) /\ UNCHANGED <<members, staff, cache, late, uncounted>>
    BY <1>10 DEF RoleRead, Begin
  <2> HIDE DEF s
  <2> QED
    BY <1>2, <2>1, <2>2, <2>3
<1>11. CASE AddMember(h)
  <2> DEFINE s == [req[h] EXCEPT !.pc = "add_upsert"]
  <2>1. req[h].pc = "add_member" /\ UNCHANGED <<members, staff, cache, late, uncounted>>
    BY <1>11 DEF AddMember
  <2>2. /\ s \in Request /\ s.pc = "add_upsert" /\ s.user = req[h].user
        /\ s.role = req[h].role /\ s.actor = req[h].actor
    BY <1>1 DEF Request, Steps
  <2>3. CASE Active(req[h].user)
    <3>1. Goto(h, Idle)
      BY <1>11, <2>3 DEF AddMember, End
    <3> QED
      BY <1>1, <1>2, <2>1, <3>1
  <2>4. CASE ~Active(req[h].user)
    <3>1. req[h].user # Owner
      BY <2>4 DEF AccessInv, OwnerManages, Active
    <3>2. Goto(h, s)
      BY <1>11, <2>4 DEF AddMember, Step
    <3> HIDE DEF s
    <3>3. Good(s)
      BY <1>1, <2>1, <2>2, <3>1 DEF Checked, Acts, Names, Adds, Writes
    <3> QED
      BY <1>2, <2>1, <3>2, <3>3
  <2> QED
    BY <2>3, <2>4
<1>12. CASE AssignMember(h)
  <2> DEFINE s == [req[h] EXCEPT !.pc = "assign_insert"]
  <2>1. req[h].pc = "assign_member" /\ UNCHANGED <<members, staff, cache, late, uncounted>>
    BY <1>12 DEF AssignMember
  <2>2. s \in Request /\ s.pc = "assign_insert" /\ s.user = req[h].user
    BY <1>1 DEF Request, Steps
  <2>3. Goto(h, s) \/ Goto(h, Idle)
    BY <1>12 DEF AssignMember, Step, End
  <2> HIDE DEF s
  <2>4. Good(s)
    BY <1>1, <2>1, <2>2 DEF Checked, Acts, Names, Adds, Writes
  <2> QED
    BY <1>1, <1>2, <2>1, <2>3, <2>4
<1>13. CASE AssignInsert(h)
  <2>1. Goto(h, Idle) /\ req[h].pc # "invalidate" /\ UNCHANGED <<members, cache, late, uncounted>>
    BY <1>13 DEF AssignInsert, End
  <2>2. staff' \in [Users -> MemberStatuses]
    BY <1>1, <1>13 DEF AssignInsert, MemberStatuses
  <2> QED
    BY <1>1, <2>1, <2>2, Advance
<1>14. CASE Refuse(h)
  <2>1. /\ Goto(h, Idle) /\ req[h].pc # "invalidate"
        /\ UNCHANGED <<members, staff, cache, late, uncounted>>
    BY <1>14 DEF Refuse, End
  <2> QED
    BY <1>1, <1>2, <2>1
<1> QED
  BY <1>3, <1>4, <1>5, <1>8, <1>9, <1>10, <1>11, <1>12, <1>13, <1>14 DEF StaffStep

\* The three writes of a membership.
LEMMA WriteStep ==
    ASSUME AccessInv, NEW h \in Handlers, AddUpsert(h) \/ RemoveWrite(h) \/ RoleWrite(h)
    PROVE  AccessInv'
<1> DEFINE u == req[h].user
<1>1. /\ req[h] \in Request /\ Checked(req[h]) /\ req[h].pc \in Writes
      /\ staff \in [Users -> MemberStatuses] /\ uncounted \in BOOLEAN
  BY DEF AccessInv, TypeOK, AddUpsert, RemoveWrite, RoleWrite, Writes
<1>2. u \in Users /\ u # Owner /\ UNCHANGED <<staff, cache, late, uncounted>>
  BY <1>1 DEF Checked, Names, Writes, AddUpsert, RemoveWrite, RoleWrite
<1>3. CASE AddUpsert(h)
  <2> DEFINE row == [role |-> req[h].role, status |-> "active"]
  <2>1. row \in Member /\ row.role = req[h].role
    BY <1>1 DEF Request, Member, MemberStatuses
  <2>2. row.role # "owner"
    BY <1>1, <1>3, <2>1 DEF Checked, Adds, AddUpsert
  <2>3. members' = [members EXCEPT ![u] = row] /\ Step(h, "invalidate")
    BY <1>3 DEF AddUpsert
  <2> HIDE DEF row
  <2> QED
    BY <1>1, <1>2, <2>1, <2>2, <2>3, MemberWrite
<1>4. CASE RemoveWrite(h) /\ Active(u)
  <2> DEFINE row == [role |-> NoRole, status |-> "inactive"]
  <2>1. row \in Member /\ row.role # "owner"
    BY DEF Member, MemberStatuses, NoRole
  <2>2. members' = [members EXCEPT ![u] = row] /\ Step(h, "invalidate")
    BY <1>4 DEF RemoveWrite
  <2> HIDE DEF row
  <2> QED
    BY <1>1, <1>2, <2>1, <2>2, MemberWrite
<1>5. CASE RoleWrite(h) /\ Active(u)
  <2> DEFINE row == [members[u] EXCEPT !.role = req[h].role]
  <2>1. members[u] \in Member
    BY <1>2 DEF AccessInv, TypeOK
  <2>2. row \in Member /\ row.role = req[h].role
    BY <1>1, <2>1 DEF Request, Member
  <2>3. row.role # "owner"
    BY <1>1, <1>5, <2>2 DEF Checked, RoleWrite
  <2>4. members' = [members EXCEPT ![u] = row] /\ Step(h, "invalidate")
    BY <1>5 DEF RoleWrite
  <2> HIDE DEF row
  <2> QED
    BY <1>1, <1>2, <2>2, <2>3, <2>4, MemberWrite
<1>6. CASE (RemoveWrite(h) \/ RoleWrite(h)) /\ ~Active(u)
  <2>1. Goto(h, Idle) /\ UNCHANGED members
    BY <1>6 DEF RemoveWrite, RoleWrite, End
  <2>2. req[h].pc # "invalidate"
    BY <1>1 DEF Writes
  <2> QED
    BY <1>1, <1>2, <2>1, <2>2, IdleChecked, Advance
<1> QED
  BY <1>3, <1>4, <1>5, <1>6

\* A role is put into the cache: the owner's only for the owner.
LEMMA FillStep ==
    ASSUME AccessInv, NEW h \in Handlers, Fill(h)
    PROVE  AccessInv'
<1> USE DEF AccessInv
<1>1. /\ req[h] \in Request /\ Checked(req[h]) /\ req[h].pc = "fill"
      /\ UNCHANGED <<members, staff, uncounted>>
  BY DEF TypeOK, Fill
<1>2. PICK a \in Users : a = req[h].actor
  BY <1>1 DEF Checked
<1>3. PICK f \in Roles \cup {NoRole} : f = req[h].found
  BY <1>1 DEF Request
<1>4. f = "owner" => a = Owner
  BY <1>1, <1>2, <1>3 DEF Checked
<1>5. PICK q \in Request : q = Enforce(req[h], f) /\ Checked(q) /\ q.pc \in {"idle", "team"}
  BY <1>1, <1>2, <1>4, Enforced
<1>6. req' = [req EXCEPT ![h] = q] /\ cache' = [cache EXCEPT ![a] = f]
  BY <1>2, <1>3, <1>5 DEF Fill, Goto
<1>7. late' = IF f = CurrentRole(a) THEN late \ {a} ELSE late \cup {a}
  BY <1>2, <1>3 DEF Fill
<1>8. TypeOK'
  BY <1>1, <1>6, <1>7 DEF TypeOK
<1>9. \A i \in Handlers : req'[i] = IF i = h THEN q ELSE req[i]
  BY <1>6 DEF TypeOK
<1>10. \A v \in Users : cache'[v] = IF v = a THEN f ELSE cache[v]
  BY <1>6 DEF TypeOK
<1>11. OwnerManages'
  BY <1>1, <1>4, <1>5, <1>9, <1>10 DEF OwnerManages, Checked, Acts
<1>12. \A v \in Users : CurrentRole(v)' = CurrentRole(v)
  BY <1>1 DEF CurrentRole, Active
<1>13. ASSUME NEW v \in Users, cache'[v] \notin {NoRole, CurrentRole(v)'}
       PROVE  v \in late' \/ \E i \in Handlers : req'[i].pc = "invalidate" /\ req'[i].user = v
  <2>1. CASE v = a
    BY <1>7, <1>10, <1>12, <1>13, <2>1
  <2>2. CASE v # a
    <3>1. v \in late \/ \E i \in Handlers : req[i].pc = "invalidate" /\ req[i].user = v
      BY <1>10, <1>12, <1>13, <2>2 DEF StaleOnlyByLateFill
    <3> QED
      BY <1>1, <1>7, <1>9, <2>2, <3>1
  <2> QED
    BY <2>1, <2>2
<1>14. StaleOnlyByLateFill'
  BY <1>13 DEF StaleOnlyByLateFill
<1>15. \A i \in Handlers : Checked(req[i])'
  BY <1>5, <1>9 DEF Checked
<1> QED
  BY <1>8, <1>11, <1>14, <1>15

\* An entry leaves the cache, by its invalidation or by its age.
LEMMA DropStep ==
    ASSUME AccessInv, NEW u \in Users,
           cache' = [cache EXCEPT ![u] = NoRole], late' = late \ {u},
           UNCHANGED <<members, staff, uncounted>>,
           \/ UNCHANGED req
           \/ \E h \in Handlers : Goto(h, Idle) /\ (req[h].pc = "invalidate" => req[h].user = u)
    PROVE  AccessInv'
<1> USE DEF AccessInv
<1>1. TypeOK'
  BY IdleChecked DEF TypeOK, Goto
<1>2. \A i \in Handlers :
         req'[i] = req[i] \/ (req'[i] = Idle /\ (req[i].pc = "invalidate" => req[i].user = u))
  BY DEF TypeOK, Goto
<1>3. \A v \in Users : cache'[v] = IF v = u THEN NoRole ELSE cache[v]
  BY DEF TypeOK
<1>4. OwnerManages'
  BY <1>2, <1>3, IdleChecked DEF OwnerManages, NoRole
<1>5. ASSUME NEW v \in Users, cache'[v] \notin {NoRole, CurrentRole(v)'}
      PROVE  v \in late' \/ \E i \in Handlers : req'[i].pc = "invalidate" /\ req'[i].user = v
  <2>1. v # u /\ cache[v] \notin {NoRole, CurrentRole(v)}
    BY <1>3, <1>5 DEF CurrentRole, Active
  <2>2. v \in late \/ \E i \in Handlers : req[i].pc = "invalidate" /\ req[i].user = v
    BY <2>1 DEF StaleOnlyByLateFill
  <2> QED
    BY <1>2, <2>1, <2>2
<1>6. StaleOnlyByLateFill'
  BY <1>5 DEF StaleOnlyByLateFill
<1>7. \A i \in Handlers : Checked(req[i])'
  BY <1>2, IdleChecked DEF Checked
<1> QED
  BY <1>1, <1>4, <1>6, <1>7

\* Every step keeps the invariant.
LEMMA AccessStep == AccessInv /\ [Next]_vars => AccessInv'
<1> SUFFICES ASSUME AccessInv, [Next]_vars PROVE AccessInv'
  OBVIOUS
<1>1. ASSUME NEW h \in Handlers, Invalidate(h) PROVE AccessInv'
  <2>1. req[h].user \in Users
    BY <1>1 DEF AccessInv, Checked, Names, Invalidate
  <2> QED
    BY <1>1, <2>1, DropStep DEF Invalidate, End
<1>2. ASSUME NEW u \in Users, Expire(u) PROVE AccessInv'
  BY <1>2, DropStep DEF Expire
<1>3. ASSUME NEW u, NEW status \in MemberStatuses, SetStaff(u, status) PROVE AccessInv'
  <2> USE DEF AccessInv
  <2>1. TypeOK' /\ UNCHANGED <<members, cache, late, req>>
    BY <1>3 DEF SetStaff, TypeOK
  <2>2. OwnerManages' /\ StaleOnlyByLateFill'
    BY <2>1 DEF OwnerManages, StaleOnlyByLateFill, CurrentRole, Active
  <2>3. \A i \in Handlers : Checked(req[i])'
    BY <2>1 DEF Checked
  <2> QED
    BY <2>1, <2>2, <2>3
<1>4. ASSUME NEW a, NEW r, UpdateEventRole(a, r) \/ RemoveFromEvent(a, r) PROVE AccessInv'
  BY <1>3, <1>4 DEF UpdateEventRole, RemoveFromEvent, MemberStatuses
<1>5. CASE Restart
  <2> USE DEF AccessInv
  <2>1. \A i \in Handlers : req'[i] = Idle
    BY <1>5 DEF Restart
  <2>2. TypeOK'
    BY <1>5, IdleChecked DEF Restart, TypeOK
  <2>3. OwnerManages' /\ StaleOnlyByLateFill'
    BY <1>5, <2>1, IdleChecked DEF Restart, OwnerManages, StaleOnlyByLateFill, NoRole
  <2>4. \A i \in Handlers : Checked(req[i])'
    BY <2>1, IdleChecked DEF Checked
  <2> QED
    BY <2>2, <2>3, <2>4
<1>6. CASE UNCHANGED vars
  BY <1>6 DEF vars, AccessInv, TypeOK, OwnerManages, StaleOnlyByLateFill, CurrentRole,
              Active, Checked
<1>7. ASSUME NEW h \in Handlers,
             CacheStep(h) \/ TeamStep(h) \/ StaffStep(h) \/ Refuse(h)
      PROVE  AccessInv'
  BY <1>1, <1>7, ReadStep, WriteStep, FillStep DEF CacheStep, TeamStep
<1>8. ASSUME NEW h \in Handlers, NEW a \in Users,
             Arrive(h, a) \/ \E r \in EventMemberRequest : ArriveEvent(h, a, r)
      PROVE  AccessInv'
  BY <1>8, ReadStep
<1> QED
  BY <1>2, <1>4, <1>5, <1>6, <1>7, <1>8 DEF Next

\* AddUser, RemoveUser and UpdateUserRole with the permission cache, for any
\* team and any number of requests: only the owner manages the team, and a
\* cached role is out of date only while InvalidateUser is about to run or
\* because a slow request put a role it had read before the change.
THEOREM AccessCorrect == Spec => [](TypeOK /\ OwnerManages /\ StaleOnlyByLateFill)
<1>1. Init => AccessInv
  BY AccessInit
<1>2. AccessInv /\ [Next]_vars => AccessInv'
  BY AccessStep
<1>3. AccessInv => TypeOK /\ OwnerManages /\ StaleOnlyByLateFill
  BY DEF AccessInv
<1> QED
  BY <1>1, <1>2, <1>3, PTL DEF Spec

\* RequirePermission decides by the cache: a role it finds there that is not
\* the member's is about to be invalidated, or a request that had read it
\* before the change put it back afterwards.
THEOREM CacheIsFresh == Spec => []StaleOnlyByLateFill
  BY AccessCorrect, PTL

----------------------------------------------------------------------------
(* The quota.                                                              *)

Adding == {h \in Handlers : req[h].pc \in {"add_member", "add_upsert"}}

LEMMA TeamSets ==
    /\ IsFiniteSet(Team) /\ Cardinality(Team) \in Nat
    /\ IsFiniteSet(Adding) /\ Cardinality(Adding) \in Nat
    /\ Cardinality(Handlers) \in Nat /\ Cardinality(Adding) <= Cardinality(Handlers)
<1>1. Team \subseteq Users /\ Adding \subseteq Handlers
  BY DEF Team, Adding
<1>2. IsFiniteSet(Users) /\ IsFiniteSet(Handlers)
  BY AccessAssumption
<1> QED
  BY <1>1, <1>2, FS_Subset, FS_CardinalityType

\* Neither the team nor the requests that will add to it grow.
LEMMA NotMore ==
    ASSUME TeamBounded, Team' \subseteq Team, Adding' \subseteq Adding, UNCHANGED uncounted
    PROVE  TeamBounded'
<1>1. Cardinality(Team') <= Cardinality(Team) /\ Cardinality(Team') \in Nat
  BY TeamSets, FS_Subset, FS_CardinalityType
<1>2. Cardinality(Adding') <= Cardinality(Adding) /\ Cardinality(Adding') \in Nat
  BY TeamSets, FS_Subset, FS_CardinalityType
<1>3. MaxTeam \in Nat
  BY AccessAssumption
<1> QED
  BY <1>1, <1>2, <1>3, TeamSets DEF TeamBounded, Adding

\* A request that goes on to any other step, or ends.
LEMMA NotAdding ==
    ASSUME AccessInv, NEW h \in Handlers, NEW r, Goto(h, r),
           r.pc \notin {"add_member", "add_upsert"} \/ h \in Adding
    PROVE  Adding' \subseteq Adding
<1>1. \A i \in Handlers : req'[i] = IF i = h THEN r ELSE req[i]
  BY DEF AccessInv, TypeOK, Goto
<1> QED
  BY <1>1 DEF Adding

LEMMA QuotaStep == AccessInv /\ TeamBounded /\ [Next]_vars => TeamBounded'
<1> SUFFICES ASSUME AccessInv, TeamBounded, [Next]_vars PROVE TeamBounded'
  OBVIOUS
<1>1. members \in [Users -> Member] /\ req \in [Handlers -> Request]
  BY DEF AccessInv, TypeOK
<1>2. Idle.pc \notin {"add_member", "add_upsert"}
  BY DEF Idle
<1>3. ASSUME UNCHANGED members PROVE Team' = Team
  BY <1>3 DEF Team, Active
<1>4. ASSUME UNCHANGED req PROVE Adding' = Adding
  BY <1>4 DEF Adding
<1>5. ASSUME NEW h \in Handlers, NEW r \in AddUserRequest, NEW counted \in BOOLEAN,
             AddQuota(h, r, counted)
      PROVE  TeamBounded'
  <2>1. CASE ~counted
    BY <1>5, <2>1 DEF AddQuota, TeamBounded
  <2>2. CASE counted
    <3>1. Cardinality(Team') < MaxTeam
      BY <1>3, <1>5, <2>2 DEF AddQuota
    <3>2. /\ Cardinality(Adding') <= Cardinality(Handlers) /\ Cardinality(Adding') \in Nat
          /\ Cardinality(Team') \in Nat
      <4>1. Team' \subseteq Users /\ Adding' \subseteq Handlers
        BY DEF Team, Adding
      <4> QED
        BY <4>1, AccessAssumption, FS_Subset, FS_CardinalityType
    <3> QED
      BY <3>1, <3>2, TeamSets, AccessAssumption DEF TeamBounded, Adding
  <2> QED
    BY <2>1, <2>2
<1>6. ASSUME NEW h \in Handlers, AddUpsert(h) PROVE TeamBounded'
  <2> DEFINE u == req[h].user
  <2>1. Team' \subseteq Team \cup {u}
    BY <1>1, <1>6 DEF AddUpsert, Team, Active
  <2>2. Adding' = Adding \ {h} /\ h \in Adding
    <3>1. \A i \in Handlers \ {h} : req'[i] = req[i]
      BY <1>1, <1>6 DEF AddUpsert, Step, Goto
    <3>2. req'[h].pc = "invalidate" /\ req[h].pc = "add_upsert"
      BY <1>1, <1>6 DEF AddUpsert, Step, Goto, Request
    <3> QED
      BY <3>1, <3>2 DEF Adding
  <2>3. Cardinality(Adding') = Cardinality(Adding) - 1
    BY <2>2, TeamSets, FS_RemoveElement
  <2>4. Cardinality(Team \cup {u}) <= Cardinality(Team) + 1 /\ IsFiniteSet(Team \cup {u})
    BY TeamSets, FS_AddElement
  <2>5. Cardinality(Team') <= Cardinality(Team \cup {u}) /\ Cardinality(Team') \in Nat
        /\ Cardinality(Team \cup {u}) \in Nat
    BY <2>1, <2>4, FS_Subset, FS_CardinalityType
  <2>6. UNCHANGED uncounted
    BY <1>6 DEF AddUpsert
  <2> QED
    BY <2>3, <2>4, <2>5, <2>6, TeamSets, AccessAssumption DEF TeamBounded, Adding
<1>7. ASSUME NEW h \in Handlers, RemoveWrite(h) \/ RoleWrite(h) PROVE TeamBounded'
  <2>1. Team' \subseteq Team
    BY <1>1, <1>7 DEF RemoveWrite, RoleWrite, Team, Active, Member
  <2>2. [req[h] EXCEPT !.pc = "invalidate"].pc = "invalidate"
    BY <1>1 DEF Request
  <2>3. Adding' \subseteq Adding
    BY <1>2, <1>7, <2>2, NotAdding DEF RemoveWrite, RoleWrite, Step, End
  <2>4. UNCHANGED uncounted
    BY <1>7 DEF RemoveWrite, RoleWrite
  <2> QED
    BY <2>1, <2>3, <2>4, NotMore
<1>8. ASSUME NEW h \in Handlers, NEW r, Goto(h, r), UNCHANGED <<members, uncounted>>,
             r.pc \notin {"add_member", "add_upsert"} \/ h \in Adding
      PROVE  TeamBounded'
  BY <1>3, <1>8, NotAdding, NotMore
<1>9. ASSUME NEW h \in Handlers, AddMember(h) PROVE TeamBounded'
  <2>1. h \in Adding /\ UNCHANGED <<members, uncounted>>
    BY <1>9 DEF AddMember, Adding
  <2>2. Goto(h, Idle) \/ Goto(h, [req[h] EXCEPT !.pc = "add_upsert"])
    BY <1>9 DEF AddMember, End, Step
  <2> QED
    BY <1>8, <2>1, <2>2
<1>10. ASSUME NEW h \in Handlers,
              \/ \E r \in RemoveUserRequest : RemoveRead(h, r)
              \/ \E r \in UpdateUserRoleRequest : RoleRead(h, r)
       PROVE  TeamBounded'
  <2>1. UNCHANGED <<members, uncounted>>
    BY <1>10 DEF RemoveRead, RoleRead
  <2>2. ASSUME NEW u, NEW role, NEW pc \in {"remove_write", "role_write"}, Begin(h, pc, u, role)
        PROVE  TeamBounded'
    <3> DEFINE r == [req[h] EXCEPT !.pc = pc, !.user = u, !.role = role]
    <3>1. r.pc = pc
      BY <1>1 DEF Request
    <3>2. Goto(h, r)
      BY <2>2 DEF Begin
    <3> HIDE DEF r
    <3> QED
      BY <1>8, <2>1, <3>1, <3>2
  <2> QED
    BY <1>10, <2>2 DEF RemoveRead, RoleRead
<1>11. ASSUME NEW h \in Handlers, StaffStep(h) \/ Refuse(h) \/ LookUp(h) \/ Invalidate(h)
       PROVE  TeamBounded'
  <2> DEFINE found == CurrentRole(req[h].actor)
  <2>1. PICK pc \in {"assign_insert", "fill"} :
          \/ Goto(h, Idle)
          \/ Goto(h, [req[h] EXCEPT !.pc = pc])
          \/ Goto(h, [req[h] EXCEPT !.pc = pc, !.found = found])
    BY <1>11 DEF StaffStep, AssignMember, AssignInsert, Refuse, LookUp, Invalidate, Step, End
  <2>2. /\ [req[h] EXCEPT !.pc = pc].pc = pc
        /\ [req[h] EXCEPT !.pc = pc, !.found = found].pc = pc
    BY <1>1 DEF Request
  <2>3. UNCHANGED <<members, uncounted>>
    BY <1>11 DEF StaffStep, AssignMember, AssignInsert, Refuse, LookUp, Invalidate
  <2> QED
    BY <1>2, <1>8, <2>1, <2>2, <2>3
<1>12. ASSUME NEW r, NEW role PROVE Enforce(r, role).pc \notin {"add_member", "add_upsert"}
  BY <1>2 DEF Enforce, Idle
<1>13. ASSUME NEW h \in Handlers, Fill(h) \/ \E a \in Users : Arrive(h, a) PROVE TeamBounded'
  <2>1. UNCHANGED <<members, uncounted>>
    BY <1>13 DEF Fill, Arrive
  <2>2. ASSUME NEW a, Arrive(h, a) PROVE TeamBounded'
    <3> DEFINE r == [Idle EXCEPT !.pc = "lookup", !.actor = a]
    <3>1. r.pc = "lookup"
      BY DEF Idle
    <3>2. Goto(h, r) \/ Goto(h, Enforce(r, cache[a]))
      BY <2>2 DEF Arrive
    <3> HIDE DEF r
    <3> QED
      BY <1>8, <1>12, <2>1, <3>1, <3>2
  <2>3. CASE Fill(h)
    BY <1>8, <1>12, <2>1, <2>3 DEF Fill
  <2> QED
    BY <1>13, <2>2, <2>3
<1>14. ASSUME NEW h \in Handlers, NEW a \in Users, NEW r \in EventMemberRequest,
              ArriveEvent(h, a, r)
       PROVE  TeamBounded'
  <2> DEFINE s == [Idle EXCEPT !.pc = "assign_member", !.user = r.user]
  <2>1. s.pc = "assign_member"
    BY DEF Idle
  <2>2. Goto(h, s) /\ UNCHANGED <<members, uncounted>>
    BY <1>14 DEF ArriveEvent
  <2> HIDE DEF s
  <2> QED
    BY <1>8, <2>1, <2>2
<1>15. CASE Restart
  <2>1. Adding' \subseteq Adding
    BY <1>2, <1>15 DEF Restart, Adding
  <2> QED
    BY <1>3, <1>15, <2>1, NotMore DEF Restart
<1>16. ASSUME UNCHANGED <<members, uncounted, req>> PROVE TeamBounded'
  BY <1>3, <1>4, <1>16, NotMore
<1>17. ASSUME \/ UNCHANGED vars
              \/ \E u \in Users : Expire(u)
              \/ \E a \in Users : \/ \E r \in EventRoleRequest : UpdateEventRole(a, r)
                                 \/ \E r \in EventRemoveRequest : RemoveFromEvent(a, r)
       PROVE  TeamBounded'
  BY <1>16, <1>17 DEF vars, Expire, UpdateEventRole, RemoveFromEvent, SetStaff
<1> QED
  BY <1>5, <1>6, <1>7, <1>9, <1>10, <1>11, <1>13, <1>14, <1>15, <1>17
     DEF Next, CacheStep, TeamStep

\* AddUser, for any plan and any number of requests: as long as the team can
\* be counted it outgrows the plan by less than the requests being served.
THEOREM TeamIsBounded == Spec => []TeamBounded
<1>1. Init => AccessInv /\ TeamBounded
  <2> SUFFICES ASSUME Init PROVE TeamBounded
    BY AccessInit
  <2>1. Team = {Owner} /\ Adding = {}
    BY AccessAssumption DEF Init, Team, Active, Absent, Adding, Idle
  <2>2. Cardinality(Team) = 1 /\ Cardinality(Adding) = 0
    BY <2>1, FS_Singleton, FS_EmptySet
  <2>3. Cardinality(Handlers) # 0
    BY AccessAssumption, FS_EmptySet
  <2> QED
    BY <2>2, <2>3, TeamSets, AccessAssumption DEF TeamBounded, Adding
<1>2. AccessInv /\ TeamBounded /\ [Next]_vars => (AccessInv /\ TeamBounded)'
  BY AccessStep, QuotaStep
<1> QED
  BY <1>1, <1>2, PTL DEF Spec
=============================================================================

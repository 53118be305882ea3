------------------------------ MODULE AuthProofs ------------------------------
(***************************************************************************)
(* For any number of links, sessions, requests and password changes: an    *)
(* account with a session is verified, sessions from before a password     *)
(* change end as OldSessionsEnd says, and a link or refresh token opens at *)
(* most one session.                                                       *)
(*                                                                         *)
(* The strengthening has two parts.  Proven says what a request knows of   *)
(* the account: a row that is about to be written back is verified, and so *)
(* is the account that is about to get a session.  Once says that a        *)
(* credential that can still be spent was not used for anything, that one  *)
(* that was spent has one user, and that the links invalidated by a        *)
(* transaction under way are nobody else's.                                *)
(***************************************************************************)
EXTENDS Auth, FiniteSetTheorems, TLAPS

\* What a request knows at its next step.
Knows(r) ==
    /\ r.pc = "row" => r.row.exists /\ r.row.verified
    /\ r.pc = "session" => user.verified
    /\ r.pc = "revoke" => r.from \in Sessions /\ sessions[r.from].state # "absent"
    /\ r.pc \in {"mail", "insert"} => user.exists

Proven ==
    /\ user.verified => user.exists
    /\ SignedIn => user.verified
    /\ \A m \in Mails : mails[m].state # "absent" => user.exists
    /\ \A h \in Handlers : Knows(req[h])

\* Request h is about to open a session for credential c.
Holds(h, c) == req[h].pc \in {"magic", "session"} /\ req[h].from = c

Free(c) ==
    /\ \A s \in Sessions : sessions[s].from # c
    /\ \A h \in Handlers : ~Holds(h, c)

Single ==
    \A c \in Mails \cup Sessions :
        /\ \A s, t \in Sessions : sessions[s].from = c /\ sessions[t].from = c => s = t
        /\ \A h, i \in Handlers : Holds(h, c) /\ Holds(i, c) => h = i
        /\ \A s \in Sessions, h \in Handlers : ~(sessions[s].from = c /\ Holds(h, c))

Taken ==
    \A h \in Handlers : \A m \in req[h].taken :
        /\ req[h].pc = "insert"
        /\ mails[m].state = "used"
        /\ Free(m)
        /\ \A i \in Handlers \ {h} : m \notin req[i].taken

Unspent ==
    /\ \A m \in Mails : mails[m].state # "used" => Free(m)
    /\ \A s \in Sessions : sessions[s].state # "revoked" => Free(s)

Once == Single /\ Taken /\ Unspent

----------------------------------------------------------------------------
(* Types.                                                                  *)

LEMMA IdleTypes ==
    /\ Idle \in Request /\ Idle.pc = "idle" /\ Idle.taken = {} /\ Idle.from = Nothing
    /\ NoAccount \in User /\ NoMail \in Mail /\ NoSession \in Session
  BY DEF Idle, Request, Steps, Purposes, NoAccount, User, NoMail, Mail, NoSession, Session

LEMMA AuthTypes == TypeOK /\ [Next]_vars => TypeOK'
<1> SUFFICES ASSUME TypeOK, [Next]_vars PROVE TypeOK'
  OBVIOUS
<1> USE IdleTypes
<1>1. ASSUME NEW h \in Handlers, NEW r \in Request, Goto(h, r) PROVE req' \in [Handlers -> Request]
  BY <1>1 DEF Goto, TypeOK
<1>2. ASSUME NEW h \in Handlers, AccountStep(h) PROVE TypeOK'
  <2>1. CASE RegisterCheck(h)
    <3>1. [Idle EXCEPT !.pc = "register"] \in Request
      BY DEF Request, Steps
    <3> QED
      BY <1>1, <2>1, <3>1 DEF RegisterCheck, TypeOK
  <2>2. CASE AddUserRead(h)
    <3>1. [Idle EXCEPT !.pc = "add"] \in Request
      BY DEF Request, Steps
    <3>2. [user EXCEPT !.verified = TRUE] \in User
      BY DEF User, TypeOK
    <3>3. [Idle EXCEPT !.pc = "row", !.row = [user EXCEPT !.verified = TRUE]] \in Request
      BY <3>2 DEF Request, Steps
    <3> QED
      BY <1>1, <2>2, <3>1, <3>3 DEF AddUserRead, TypeOK
  <2>3. CASE AddUserCreate(h)
    <3>1. [NoAccount EXCEPT !.exists = TRUE, !.verified = TRUE] \in User
      BY DEF User
    <3> QED
      BY <1>1, <2>3, <3>1 DEF AddUserCreate, TypeOK, End
  <2>4. CASE UpdateProfileRead(h)
    <3>1. [Idle EXCEPT !.pc = "row", !.row = user] \in Request
      BY DEF Request, Steps, TypeOK
    <3> QED
      BY <1>1, <2>4, <3>1 DEF UpdateProfileRead, TypeOK
  <2>5. CASE RowWrite(h)
    <3>1. req[h].row \in User
      BY DEF TypeOK, Request
    <3> QED
      BY <1>1, <2>5, <3>1 DEF RowWrite, TypeOK, End
  <2>6. CASE ChangePassword(h)
    <3>1. [Idle EXCEPT !.pc = "password"] \in Request
      BY DEF Request, Steps
    <3> QED
      BY <1>1, <2>6, <3>1 DEF ChangePassword, TypeOK
  <2>7. CASE UpdatePassword(h)
    <3>1. [Idle EXCEPT !.pc = "revoke_all"] \in Request
      BY DEF Request, Steps
    <3>2. latest' \in Nat /\ [user EXCEPT !.password = latest + 1] \in User
      BY <2>7 DEF User, TypeOK, UpdatePassword
    <3> QED
      BY <1>1, <2>7, <3>1, <3>2 DEF UpdatePassword, TypeOK
  <2>8. CASE RevokeAll(h)
    <3>1. ASSUME NEW s \in Sessions PROVE [sessions[s] EXCEPT !.state = "revoked"] \in Session
      BY DEF Session, TypeOK
    <3>2. sessions' \in [Sessions -> Session]
      BY <2>8, <3>1 DEF RevokeAll, RevokeAllForUser, TypeOK
    <3> QED
      BY <1>1, <2>8, <3>2 DEF RevokeAll, TypeOK, End
  <2> QED
    BY <1>2, <2>1, <2>2, <2>3, <2>4, <2>5, <2>6, <2>7, <2>8 DEF AccountStep
<1>3. ASSUME NEW m \in Mails, NEW x \in {"absent", "active", "used", "expired"}
      PROVE  [mails EXCEPT ![m].state = x] \in [Mails -> Mail]
  BY DEF Mail, TypeOK
<1>4. ASSUME NEW m \in Mails, NEW p \in Purposes
      PROVE  [mails EXCEPT ![m] = [state |-> "active", purpose |-> p]] \in [Mails -> Mail]
  BY DEF Mail, TypeOK
<1>5. ASSUME NEW h \in Handlers, LinkStep(h) PROVE TypeOK'
  <2>1. ASSUME NEW p \in Purposes, RequestLink(h, p) PROVE TypeOK'
    <3>1. [Idle EXCEPT !.pc = "mail", !.purpose = p] \in Request
      BY DEF Request, Steps
    <3> QED
      BY <1>1, <2>1, <3>1 DEF RequestLink, TypeOK
  <2>2. CASE InvalidateActive(h)
    <3>1. [req[h] EXCEPT !.pc = "insert", !.taken = ActiveMails(req[h].purpose)] \in Request
      BY DEF Request, Steps, TypeOK, ActiveMails
    <3>2. ASSUME NEW m \in Mails PROVE [mails[m] EXCEPT !.state = "used"] \in Mail
      BY DEF Mail, TypeOK
    <3>3. mails' \in [Mails -> Mail]
      BY <2>2, <3>2 DEF InvalidateActive, TypeOK
    <3>4. req' \in [Handlers -> Request] /\ UNCHANGED <<user, latest, sessions, cut>>
      BY <1>1, <2>2, <3>1 DEF InvalidateActive
    <3> QED
      BY <3>3, <3>4 DEF TypeOK
  <2>3. CASE MagicUser(h)
    <3>1. [req[h] EXCEPT !.pc = "session"] \in Request
      BY DEF Request, Steps, TypeOK
    <3> QED
      BY <1>1, <2>3, <3>1 DEF MagicUser, TypeOK
  <2>4. ASSUME NEW m \in Mails, RegisterCommit(h, m) PROVE TypeOK'
    <3>1. [NoAccount EXCEPT !.exists = TRUE] \in User /\ "verify" \in Purposes
      BY DEF User, Purposes
    <3>2. user' \in User /\ mails' \in [Mails -> Mail]
      <4>1. \/ UNCHANGED <<user, mails>>
            \/ /\ user' = [NoAccount EXCEPT !.exists = TRUE]
               /\ mails' = [mails EXCEPT ![m] = [state |-> "active", purpose |-> "verify"]]
        BY <2>4 DEF RegisterCommit
      <4>2. [mails EXCEPT ![m] = [state |-> "active", purpose |-> "verify"]] \in [Mails -> Mail]
        BY <1>4, <3>1
      <4>3. user \in User /\ mails \in [Mails -> Mail]
        BY DEF TypeOK
      <4> QED
        BY <3>1, <4>1, <4>2, <4>3
    <3> QED
      BY <1>1, <2>4, <3>2 DEF RegisterCommit, TypeOK, End
  <2>5. ASSUME NEW m \in Mails, CreateLink(h, m) PROVE TypeOK'
    <3>1. req[h].purpose \in Purposes
      BY DEF TypeOK, Request
    <3> QED
      BY <1>1, <1>4, <2>5, <3>1 DEF CreateLink, TypeOK, End
  <2>6. ASSUME NEW m \in Mails, VerifyEmail(h, m) PROVE TypeOK'
    <3>1. [Idle EXCEPT !.pc = "session", !.from = m, !.password = latest] \in Request
      BY DEF Request, Steps, TypeOK
    <3>2. [user EXCEPT !.verified = TRUE] \in User
      BY DEF User, TypeOK
    <3> QED
      BY <1>1, <1>3, <2>6, <3>1, <3>2 DEF VerifyEmail, ConsumeVerification, Consume, TypeOK
  <2>7. ASSUME NEW m \in Mails, ConsumeMagicLink(h, m) PROVE TypeOK'
    <3>1. [Idle EXCEPT !.pc = "magic", !.from = m, !.password = latest] \in Request
      BY DEF Request, Steps, TypeOK
    <3> QED
      BY <1>1, <1>3, <2>7, <3>1 DEF ConsumeMagicLink, Consume, TypeOK
  <2>8. ASSUME NEW m \in Mails, ResetPassword(h, m) PROVE TypeOK'
    <3>1. [Idle EXCEPT !.pc = "password"] \in Request
      BY DEF Request, Steps
    <3> QED
      BY <1>1, <1>3, <2>8, <3>1 DEF ResetPassword, Consume, TypeOK
  <2> QED
    BY <1>5, <2>1, <2>2, <2>3, <2>4, <2>5, <2>6, <2>7, <2>8 DEF LinkStep
<1>6. ASSUME NEW h \in Handlers, SessionStep(h) PROVE TypeOK'
  <2>1. CASE Login(h)
    <3>1. user.password \in Nat
      BY DEF TypeOK, User
    <3>2. [Idle EXCEPT !.pc = "session", !.password = user.password] \in Request
      BY <3>1 DEF Request, Steps
    <3> QED
      BY <1>1, <2>1, <3>2 DEF Login, TypeOK
  <2>2. ASSUME NEW s \in Sessions, RefreshValidate(h, s) PROVE TypeOK'
    <3>1. sessions[s].password \in Nat
      BY DEF TypeOK, Session
    <3>2. [Idle EXCEPT !.pc = "revoke", !.from = s, !.password = sessions[s].password] \in Request
      BY <3>1 DEF Request, Steps
    <3> QED
      BY <1>1, <2>2, <3>2 DEF RefreshValidate, TypeOK
  <2>3. CASE RefreshRevoke(h)
    <3>1. [req[h] EXCEPT !.pc = "session"] \in Request
      BY DEF Request, Steps, TypeOK
    <3>2. sessions' \in [Sessions -> Session]
      BY <2>3 DEF RefreshRevoke, TypeOK, Session
    <3> QED
      BY <1>1, <2>3, <3>1, <3>2 DEF RefreshRevoke, TypeOK, End
  <2>4. ASSUME NEW s \in Sessions, CreateSession(h, s) PROVE TypeOK'
    <3>1. req[h].password \in Nat /\ req[h].from \in Mails \cup Sessions \cup {Nothing}
      BY DEF TypeOK, Request
    <3>2. PICK b \in BOOLEAN : b = (req[h].password # latest)
      OBVIOUS
    <3>3. [state |-> "live", password |-> req[h].password, from |-> req[h].from, late |-> b]
            \in Session
      BY <3>1 DEF Session
    <3>4. sessions' \in [Sessions -> Session]
      BY <2>4, <3>2, <3>3 DEF CreateSession, TypeOK
    <3> QED
      BY <1>1, <2>4, <3>4 DEF CreateSession, TypeOK, End
  <2> QED
    BY <1>6, <2>1, <2>2, <2>3, <2>4 DEF SessionStep, Refresh
<1>7. ASSUME NEW h \in Handlers, Abort(h) PROVE TypeOK'
  <2>1. ASSUME NEW m \in Mails PROVE [mails[m] EXCEPT !.state = "active"] \in Mail
    BY DEF Mail, TypeOK
  <2>2. mails' \in [Mails -> Mail]
    BY <1>7, <2>1 DEF Abort, TypeOK
  <2>3. PICK b \in BOOLEAN : cut' = b
    BY <1>7 DEF Abort
  <2> QED
    BY <1>1, <1>7, <2>2, <2>3 DEF Abort, TypeOK, End
<1>8. ASSUME NEW m \in Mails, ExpireMail(m) PROVE TypeOK'
  BY <1>3, <1>8 DEF ExpireMail, TypeOK
<1>9. ASSUME NEW s \in Sessions, ExpireSession(s) PROVE TypeOK'
  BY <1>9 DEF ExpireSession, TypeOK, Session
<1>10. CASE UNCHANGED vars
  BY <1>10 DEF vars, TypeOK
<1> QED
  BY <1>2, <1>5, <1>6, <1>7, <1>8, <1>9, <1>10 DEF Next

----------------------------------------------------------------------------
(* The account behind a session.                                           *)

LEMMA Moves ==
    ASSUME TypeOK, NEW h \in Handlers, NEW r, Goto(h, r)
    PROVE  req'[h] = r /\ \A i \in Handlers \ {h} : req'[i] = req[i]
  BY DEF TypeOK, Goto

\* A request goes on: the account stays verified and no session goes away.
LEMMA ProvenStep ==
    ASSUME TypeOK, Proven, NEW h \in Handlers, NEW r, Goto(h, r),
           Knows(r)',
           user.verified => user'.verified,
           user.exists => user'.exists,
           user'.verified => user'.exists,
           \A m \in Mails : mails'[m].state # "absent" => user'.exists,
           SignedIn' => user'.verified,
           \A s \in Sessions : sessions[s].state # "absent" => sessions'[s].state # "absent"
    PROVE  Proven'
<1>1. req'[h] = r /\ \A i \in Handlers \ {h} : req'[i] = req[i]
  BY Moves
<1>2. ASSUME NEW i \in Handlers, i # h PROVE Knows(req[i])'
  <2>1. Knows(req[i]) /\ req'[i] = req[i]
    BY <1>1, <1>2 DEF Proven, Knows
  <2> QED
    BY <2>1 DEF Knows
<1>3. Knows(req[h])'
  BY <1>1 DEF Knows
<1> QED
  BY <1>2, <1>3 DEF Proven, Knows

\* The account and the sessions are left alone.
LEMMA ProvenQuiet ==
    ASSUME TypeOK, Proven, NEW h \in Handlers, NEW r, Goto(h, r), Knows(r),
           UNCHANGED <<user, sessions>>,
           \A m \in Mails : mails'[m].state # "absent" => mails[m].state # "absent" \/ user.exists
    PROVE  Proven'
<1>1. Knows(r)'
  BY DEF Knows
<1>2. SignedIn' => user'.verified
  BY DEF Proven, SignedIn
<1> QED
  BY <1>1, <1>2, ProvenStep DEF Proven

\* A request with nothing to know.
LEMMA PlainKnows ==
    ASSUME NEW r, r.pc \notin {"row", "session", "revoke", "mail", "insert"}
    PROVE  Knows(r)
  BY DEF Knows

LEMMA AuthProven == TypeOK /\ Proven /\ Once /\ [Next]_vars => Proven'
<1> SUFFICES ASSUME TypeOK, Proven, Once, [Next]_vars PROVE Proven'
  OBVIOUS
<1>i. Idle \in Request /\ Idle.pc = "idle" /\ Knows(Idle)
  BY IdleTypes, PlainKnows
<1>p. ASSUME NEW pc \in Steps \ {"row", "session", "revoke", "mail", "insert"}, NEW r \in Request
      PROVE  Knows([r EXCEPT !.pc = pc])
  BY <1>p DEF Knows, Request
<1>u. user \in User
  BY DEF TypeOK
<1>1. ASSUME NEW h \in Handlers, AccountStep(h) PROVE Proven'
  <2>1. CASE RegisterCheck(h) \/ ChangePassword(h)
    <3>1. PICK pc \in {"register", "password"} : Goto(h, [Idle EXCEPT !.pc = pc])
      BY <2>1 DEF RegisterCheck, ChangePassword
    <3> QED
      BY <1>i, <1>p, <2>1, <3>1, ProvenQuiet DEF RegisterCheck, ChangePassword, Steps
  <2>2. CASE AddUserRead(h) /\ ~user.exists
    <3>1. Goto(h, [Idle EXCEPT !.pc = "add"]) /\ UNCHANGED <<user, mails, sessions>>
      BY <2>2 DEF AddUserRead
    <3> QED
      BY <1>i, <1>p, <3>1, ProvenQuiet DEF Steps
  <2>3. CASE (AddUserRead(h) /\ user.exists) \/ UpdateProfileRead(h)
    <3>1. PICK row \in User : /\ row.exists /\ row.verified
                              /\ Goto(h, [Idle EXCEPT !.pc = "row", !.row = row])
      <4>1. CASE AddUserRead(h) /\ user.exists
        <5>1. /\ [user EXCEPT !.verified = TRUE] \in User
              /\ [user EXCEPT !.verified = TRUE].exists = user.exists
              /\ [user EXCEPT !.verified = TRUE].verified
          BY <1>u DEF User
        <5>2. Goto(h, [Idle EXCEPT !.pc = "row", !.row = [user EXCEPT !.verified = TRUE]])
          BY <4>1 DEF AddUserRead
        <5> QED
          BY <4>1, <5>1, <5>2
      <4>2. CASE UpdateProfileRead(h)
        BY <1>u, <4>2 DEF UpdateProfileRead, Proven
      <4> QED
        BY <2>3, <4>1, <4>2
    <3> DEFINE r == [Idle EXCEPT !.pc = "row", !.row = row]
    <3>2. r.pc = "row" /\ r.row = row
      BY <1>i DEF Idle
    <3> HIDE DEF r
    <3>3. Knows(r)
      BY <3>1, <3>2 DEF Knows
    <3>4. Goto(h, r) /\ UNCHANGED <<user, mails, sessions>>
      BY <2>3, <3>1 DEF r, AddUserRead, UpdateProfileRead
    <3> QED
      BY <3>3, <3>4, ProvenQuiet
  <2>4. CASE AddUserCreate(h) \/ RowWrite(h)
    <3>1. Goto(h, Idle) /\ UNCHANGED <<mails, sessions>>
      BY <2>4 DEF AddUserCreate, RowWrite, End
    <3>2. user' = user \/ (user'.verified /\ user'.exists)
      BY <2>4 DEF AddUserCreate, RowWrite, Proven, Knows, NoAccount
    <3>3. SignedIn' => user'.verified
      BY <3>1, <3>2 DEF SignedIn, Proven
    <3>4. Knows(Idle)'
      BY <1>i DEF Knows
    <3> QED
      BY <3>1, <3>2, <3>3, <3>4, ProvenStep DEF Proven
  <2>5. CASE UpdatePassword(h)
    <3> DEFINE r == [Idle EXCEPT !.pc = "revoke_all"]
    <3>1. Goto(h, r) /\ UNCHANGED <<mails, sessions>>
      BY <2>5 DEF UpdatePassword
    <3>2. user'.verified = user.verified /\ user'.exists = user.exists
      BY <1>u, <2>5 DEF UpdatePassword, User
    <3>3. SignedIn' => user'.verified
      BY <3>1, <3>2 DEF SignedIn, Proven
    <3>4. r.pc = "revoke_all"
      BY <1>i DEF Idle
    <3> HIDE DEF r
    <3>5. Knows(r)'
      BY <3>4 DEF Knows
    <3> QED
      BY <3>1, <3>2, <3>3, <3>5, ProvenStep DEF Proven
  <2>6. CASE RevokeAll(h)
    <3>1. Goto(h, Idle) /\ UNCHANGED <<user, mails>>
      BY <2>6 DEF RevokeAll, End
    <3>2. \A s \in Sessions : sessions[s].state # "absent" <=> sessions'[s].state # "absent"
      BY <2>6 DEF RevokeAll, RevokeAllForUser, TypeOK, Session
    <3>3. SignedIn' => user'.verified
      BY <3>1, <3>2 DEF SignedIn, Proven
    <3>4. Knows(Idle)'
      BY <1>i DEF Knows
    <3> QED
      BY <3>1, <3>2, <3>3, <3>4, ProvenStep DEF Proven
  <2> QED
    BY <1>1, <2>1, <2>2, <2>3, <2>4, <2>5, <2>6 DEF AccountStep
<1>2. ASSUME NEW h \in Handlers, LinkStep(h) PROVE Proven'
  <2>1. ASSUME NEW p \in Purposes, RequestLink(h, p) PROVE Proven'
    <3> DEFINE r == [Idle EXCEPT !.pc = "mail", !.purpose = p]
    <3>1. r.pc = "mail"
      BY <1>i DEF Idle
    <3>2. Goto(h, r) /\ UNCHANGED <<user, mails, sessions>>
      BY <2>1 DEF RequestLink
    <3>3. user.exists
      BY <2>1 DEF RequestLink, MayRequest, Purposes
    <3> HIDE DEF r
    <3>4. Knows(r)
      BY <3>1, <3>3 DEF Knows
    <3> QED
      BY <3>2, <3>4, ProvenQuiet
  <2>2. CASE InvalidateActive(h)
    <3> DEFINE r == [req[h] EXCEPT !.pc = "insert", !.taken = ActiveMails(req[h].purpose)]
    <3>1. r.pc = "insert"
      BY DEF TypeOK, Request
    <3>2. Goto(h, r) /\ UNCHANGED <<user, sessions>>
      BY <2>2 DEF InvalidateActive
    <3>3. user.exists
      BY <2>2 DEF InvalidateActive, Proven, Knows
    <3> HIDE DEF r
    <3>4. Knows(r)
      BY <3>1, <3>3 DEF Knows
    <3> QED
      BY <3>2, <3>3, <3>4, ProvenQuiet
  <2>3. CASE MagicUser(h)
    <3> DEFINE r == [req[h] EXCEPT !.pc = "session"]
    <3>1. r.pc = "session"
      BY DEF TypeOK, Request
    <3>2. UNCHANGED <<user, mails, sessions>> /\ ((Goto(h, r) /\ user.verified) \/ Goto(h, Idle))
      BY <2>3 DEF MagicUser
    <3> HIDE DEF r
    <3>3. user.verified => Knows(r)
      BY <3>1 DEF Knows
    <3> QED
      BY <1>i, <3>2, <3>3, ProvenQuiet
  <2>4. ASSUME NEW m \in Mails, RegisterCommit(h, m) PROVE Proven'
    <3>1. Goto(h, Idle) /\ UNCHANGED sessions
      BY <2>4 DEF RegisterCommit, End
    <3>2. (user.exists /\ user' = user) \/ (user'.exists /\ ~user.exists)
      BY <2>4 DEF RegisterCommit, NoAccount
    <3>3. user.verified => user'.verified
      BY <3>2 DEF Proven
    <3>4. user'.verified => user'.exists
      BY <3>2 DEF Proven
    <3>5. SignedIn' => user'.verified
      BY <3>1, <3>3 DEF SignedIn, Proven
    <3>6. Knows(Idle)'
      BY <1>i DEF Knows
    <3> QED
      BY <3>1, <3>2, <3>3, <3>4, <3>5, <3>6, ProvenStep
  <2>5. ASSUME NEW m \in Mails, CreateLink(h, m) PROVE Proven'
    <3>1. user.exists
      BY <2>5 DEF CreateLink, Proven, Knows
    <3> QED
      BY <1>i, <2>5, <3>1, ProvenQuiet DEF CreateLink, End
  <2>6. ASSUME NEW m \in Mails, VerifyEmail(h, m) PROVE Proven'
    <3> DEFINE r == [Idle EXCEPT !.pc = "session", !.from = m, !.password = latest]
    <3>1. PICK q : q = r
      OBVIOUS
    <3>q. q.pc = "session"
      BY <3>1 DEF Idle
    <3>2. Goto(h, q) /\ UNCHANGED sessions
      BY <2>6, <3>1 DEF VerifyEmail
    <3>3. user'.verified /\ user'.exists = user.exists
      BY <1>u, <2>6 DEF VerifyEmail, ConsumeVerification, User
    <3>4. user.exists
      BY <2>6 DEF VerifyEmail, ConsumeVerification, Consume, Proven
    <3>5. Knows(q)'
      BY <3>q, <3>3 DEF Knows
    <3> QED
      BY <3>2, <3>3, <3>4, <3>5, ProvenStep
  <2>7. ASSUME NEW m \in Mails, ConsumeMagicLink(h, m) PROVE Proven'
    <3> DEFINE r == [Idle EXCEPT !.pc = "magic", !.from = m, !.password = latest]
    <3>1. r.pc = "magic"
      BY <1>i DEF Idle
    <3>2. Goto(h, r) /\ UNCHANGED <<user, sessions>>
      BY <2>7 DEF ConsumeMagicLink
    <3>3. user.exists
      BY <2>7 DEF ConsumeMagicLink, Consume, Proven
    <3> HIDE DEF r
    <3> QED
      BY <3>1, <3>2, <3>3, PlainKnows, ProvenQuiet
  <2>8. ASSUME NEW m \in Mails, ResetPassword(h, m) PROVE Proven'
    <3>1. Goto(h, [Idle EXCEPT !.pc = "password"]) /\ UNCHANGED <<user, sessions>>
      BY <2>8 DEF ResetPassword
    <3>2. user.exists
      BY <2>8 DEF ResetPassword, Consume, Proven
    <3> QED
      BY <1>i, <1>p, <3>1, <3>2, ProvenQuiet DEF Steps
  <2> QED
    BY <1>2, <2>1, <2>2, <2>3, <2>4, <2>5, <2>6, <2>7, <2>8 DEF LinkStep
<1>3. ASSUME NEW h \in Handlers, SessionStep(h) PROVE Proven'
  <2>1. CASE Login(h)
    <3> DEFINE r == [Idle EXCEPT !.pc = "session", !.password = user.password]
    <3>1. r.pc = "session"
      BY <1>i DEF Idle
    <3>2. Goto(h, r) /\ user.verified /\ UNCHANGED <<user, mails, sessions>>
      BY <2>1 DEF Login
    <3> HIDE DEF r
    <3>3. Knows(r)
      BY <3>1, <3>2 DEF Knows
    <3> QED
      BY <3>2, <3>3, ProvenQuiet
  <2>2. ASSUME NEW s \in Sessions, RefreshValidate(h, s) PROVE Proven'
    <3> DEFINE r == [Idle EXCEPT !.pc = "revoke", !.from = s, !.password = sessions[s].password]
    <3>1. r.pc = "revoke" /\ r.from = s
      BY <1>i DEF Idle
    <3>2. /\ Goto(h, r) /\ sessions[s].state = "live"
          /\ UNCHANGED <<user, mails, sessions>>
      BY <2>2 DEF RefreshValidate
    <3> HIDE DEF r
    <3>3. Knows(r)
      BY <3>1, <3>2 DEF Knows
    <3> QED
      BY <3>2, <3>3, ProvenQuiet
  <2>3. CASE RefreshRevoke(h)
    <3>1. PICK q : q = [req[h] EXCEPT !.pc = "session"]
      OBVIOUS
    <3>q. q.pc = "session"
      BY <3>1 DEF TypeOK, Request
    <3>2. req[h].from \in Sessions /\ sessions[req[h].from].state # "absent"
      BY <2>3 DEF RefreshRevoke, Proven, Knows
    <3>3. SignedIn /\ user.verified
      BY <3>2 DEF SignedIn, Proven
    <3>4. UNCHANGED <<user, mails>> /\ (Goto(h, q) \/ Goto(h, Idle))
      BY <2>3, <3>1 DEF RefreshRevoke, End
    <3>5. \A s \in Sessions : sessions[s].state # "absent" => sessions'[s].state # "absent"
      BY <2>3 DEF RefreshRevoke, TypeOK, Session
    <3>6. Knows(q)' /\ Knows(Idle)'
      BY <1>i, <3>q, <3>3, <3>4 DEF Knows
    <3> QED
      BY <3>3, <3>4, <3>5, <3>6, ProvenStep DEF Proven
  <2>4. ASSUME NEW s \in Sessions, CreateSession(h, s) PROVE Proven'
    <3>1. user.verified
      BY <2>4 DEF CreateSession, Proven, Knows
    <3>2. Goto(h, Idle) /\ UNCHANGED <<user, mails>>
      BY <2>4 DEF CreateSession, End
    <3>3. \A t \in Sessions : sessions[t].state # "absent" => sessions'[t].state # "absent"
      BY <2>4 DEF CreateSession, TypeOK
    <3>4. Knows(Idle)'
      BY <1>i DEF Knows
    <3> QED
      BY <3>1, <3>2, <3>3, <3>4, ProvenStep DEF Proven
  <2> QED
    BY <1>3, <2>1, <2>2, <2>3, <2>4 DEF SessionStep, Refresh
<1>4. ASSUME NEW h \in Handlers, Abort(h) PROVE Proven'
  <2>1. Goto(h, Idle) /\ UNCHANGED <<user, sessions>>
    BY <1>4 DEF Abort, End
  <2>2. CASE user.exists
    BY <1>i, <2>1, <2>2, ProvenQuiet
  <2>3. CASE ~user.exists
    <3>1. req[h].taken \subseteq Mails
      BY DEF TypeOK, Request
    <3>2. \A m \in Mails : mails[m].state = "absent"
      BY <2>3 DEF Proven
    <3>3. \A m \in Mails \ req[h].taken : mails'[m] = mails[m]
      BY <1>4 DEF Abort
    <3>4. req[h].taken = {}
      BY <3>1, <3>2 DEF Once, Taken
    <3> QED
      BY <1>i, <2>1, <3>3, <3>4, ProvenQuiet
  <2> QED
    BY <2>2, <2>3
<1>5. ASSUME UNCHANGED <<user, req>>,
             \A s \in Sessions : sessions'[s].state # "absent" <=> sessions[s].state # "absent",
             \A m \in Mails : mails'[m].state # "absent" => mails[m].state # "absent"
      PROVE  Proven'
  <2>1. SignedIn' => user'.verified
    BY <1>5 DEF SignedIn, Proven
  <2>2. \A h \in Handlers : Knows(req[h])'
    BY <1>5 DEF Knows, Proven
  <2> QED
    BY <1>5, <2>1, <2>2 DEF Proven
<1>6. ASSUME NEW m \in Mails, ExpireMail(m) PROVE Proven'
  BY <1>5, <1>6 DEF ExpireMail, TypeOK
<1>7. ASSUME NEW s \in Sessions, ExpireSession(s) PROVE Proven'
  BY <1>5, <1>7 DEF ExpireSession, TypeOK, Session
<1>8. CASE UNCHANGED vars
  BY <1>5, <1>8 DEF vars
<1> QED
  BY <1>1, <1>2, <1>3, <1>4, <1>6, <1>7, <1>8 DEF Next

----------------------------------------------------------------------------
(* Sessions from before a change of the password.                          *)

\* The password stays, and a session that is open was open before or is known
\* to be late.
LEMMA OldKept ==
    ASSUME OldSessionsEnd, UNCHANGED <<latest, cut>>,
           \A h \in Handlers : req[h].pc = "revoke_all" => req'[h].pc = "revoke_all",
           \A s \in Sessions : sessions'[s].state = "live" =>
               \/ sessions'[s] = sessions[s]
               \/ sessions'[s].password # latest => sessions'[s].late
    PROVE  OldSessionsEnd'
<1> SUFFICES ASSUME NEW s \in Sessions, sessions'[s].state = "live",
                    sessions'[s].password # latest, ~sessions'[s].late
             PROVE  cut' \/ \E h \in Handlers : req'[h].pc = "revoke_all"
  BY DEF OldSessionsEnd
<1>1. sessions'[s] = sessions[s]
  OBVIOUS
<1> QED
  BY <1>1 DEF OldSessionsEnd

LEMMA AuthOld == TypeOK /\ OldSessionsEnd /\ [Next]_vars => OldSessionsEnd'
<1> SUFFICES ASSUME TypeOK, OldSessionsEnd, [Next]_vars PROVE OldSessionsEnd'
  OBVIOUS
<1>q. ASSUME NEW h \in Handlers, NEW r, Goto(h, r), req[h].pc # "revoke_all",
             UNCHANGED <<latest, cut, sessions>>
      PROVE  OldSessionsEnd'
  <2>1. \A i \in Handlers : req[i].pc = "revoke_all" => req'[i].pc = "revoke_all"
    BY <1>q, Moves
  <2> QED
    BY <1>q, <2>1, OldKept
<1>1. ASSUME NEW h \in Handlers, AccountStep(h) PROVE OldSessionsEnd'
  <2>1. CASE UpdatePassword(h)
    <3>1. req'[h].pc = "revoke_all"
      BY <2>1 DEF UpdatePassword, Goto, TypeOK, Idle
    <3> QED
      BY <3>1 DEF OldSessionsEnd
  <2>2. CASE RevokeAll(h)
    <3>1. \A s \in Sessions : sessions'[s].state # "live"
      BY <2>2 DEF RevokeAll, RevokeAllForUser, TypeOK, Session
    <3> QED
      BY <3>1 DEF OldSessionsEnd
  <2>3. CASE \/ RegisterCheck(h) \/ AddUserRead(h) \/ AddUserCreate(h)
             \/ UpdateProfileRead(h) \/ RowWrite(h) \/ ChangePassword(h)
    BY <1>q, <2>3 DEF RegisterCheck, AddUserRead, AddUserCreate, UpdateProfileRead,
                      RowWrite, ChangePassword, End
  <2> QED
    BY <1>1, <2>1, <2>2, <2>3 DEF AccountStep
<1>2. ASSUME NEW h \in Handlers, LinkStep(h) PROVE OldSessionsEnd'
  <2>1. CASE InvalidateActive(h) \/ MagicUser(h) \/ \E p \in Purposes : RequestLink(h, p)
    BY <1>q, <2>1 DEF InvalidateActive, MagicUser, RequestLink
  <2>2. ASSUME NEW m \in Mails,
               \/ RegisterCommit(h, m) \/ CreateLink(h, m) \/ VerifyEmail(h, m)
               \/ ConsumeMagicLink(h, m) \/ ResetPassword(h, m)
        PROVE  OldSessionsEnd'
    BY <1>q, <2>2 DEF RegisterCommit, CreateLink, VerifyEmail, ConsumeMagicLink, ResetPassword, End
  <2> QED
    BY <1>2, <2>1, <2>2 DEF LinkStep
<1>3. ASSUME NEW h \in Handlers, SessionStep(h) PROVE OldSessionsEnd'
  <2>1. CASE Login(h) \/ \E s \in Sessions : RefreshValidate(h, s)
    BY <1>q, <2>1 DEF Login, RefreshValidate
  <2>2. CASE RefreshRevoke(h)
    <3>1. \A i \in Handlers : req[i].pc = "revoke_all" => req'[i].pc = "revoke_all"
      BY <2>2 DEF RefreshRevoke, Goto, End, TypeOK
    <3>2. \A s \in Sessions : sessions'[s].state = "live" => sessions'[s] = sessions[s]
      BY <2>2 DEF RefreshRevoke, TypeOK, Session
    <3> QED
      BY <2>2, <3>1, <3>2, OldKept DEF RefreshRevoke
  <2>3. ASSUME NEW s \in Sessions, CreateSession(h, s) PROVE OldSessionsEnd'
    <3>1. \A i \in Handlers : req[i].pc = "revoke_all" => req'[i].pc = "revoke_all"
      BY <2>3 DEF CreateSession, Goto, End, TypeOK
    <3>2. sessions'[s].password # latest => sessions'[s].late
      BY <2>3 DEF CreateSession, TypeOK
    <3>3. \A t \in Sessions \ {s} : sessions'[t] = sessions[t]
      BY <2>3 DEF CreateSession, TypeOK
    <3> QED
      BY <2>3, <3>1, <3>2, <3>3, OldKept DEF CreateSession
  <2> QED
    BY <1>3, <2>1, <2>2, <2>3 DEF SessionStep, Refresh
<1>4. ASSUME NEW h \in Handlers, Abort(h) PROVE OldSessionsEnd'
  <2>1. UNCHANGED <<latest, sessions>> /\ Goto(h, Idle)
    BY <1>4 DEF Abort, End
  <2>2. CASE req[h].pc = "revoke_all"
    <3>1. cut'
      BY <1>4, <2>2 DEF Abort
    <3> QED
      BY <3>1 DEF OldSessionsEnd
  <2>3. CASE req[h].pc # "revoke_all"
    <3>1. cut => cut'
      BY <1>4 DEF Abort
    <3>2. \A i \in Handlers : req[i].pc = "revoke_all" => req'[i].pc = "revoke_all"
      BY <2>1, <2>3, Moves
    <3> QED
      BY <2>1, <3>1, <3>2 DEF OldSessionsEnd
  <2> QED
    BY <2>2, <2>3
<1>5. ASSUME NEW s \in Sessions, ExpireSession(s) PROVE OldSessionsEnd'
  <2>1. \A t \in Sessions : sessions'[t].state = "live" => sessions'[t] = sessions[t]
    BY <1>5 DEF ExpireSession, TypeOK, Session
  <2> QED
    BY <1>5, <2>1, OldKept DEF ExpireSession
<1>6. CASE UNCHANGED vars \/ \E m \in Mails : ExpireMail(m)
  BY <1>6, OldKept DEF vars, ExpireMail
<1> QED
  BY <1>1, <1>2, <1>3, <1>4, <1>5, <1>6 DEF Next

----------------------------------------------------------------------------
(* One session for a credential.                                           *)

\* Request h goes on without opening a session.  What it comes to hold was
\* spent in this step; what it takes, it took in this step.
LEMMA OnceStep ==
    ASSUME TypeOK, Once, NEW h \in Handlers, NEW r, Goto(h, r),
           \A s \in Sessions : /\ sessions'[s].from = sessions[s].from
                               /\ sessions[s].state = "revoked" => sessions'[s].state = "revoked",
           \A m \in Mails : mails[m].state = "used" /\ m \notin req[h].taken
                                => mails'[m].state = "used",
           r.pc \in {"magic", "session"} =>
               \/ r.from = Nothing
               \/ Holds(h, r.from)
               \/ /\ r.from \in Mails
                  /\ mails[r.from].state = "active" /\ mails'[r.from].state = "used"
               \/ /\ r.from \in Sessions
                  /\ sessions[r.from].state # "revoked" /\ sessions'[r.from].state = "revoked",
           \A m \in r.taken : /\ r.pc = "insert" /\ m \in Mails
                              /\ mails[m].state = "active" /\ mails'[m].state = "used"
    PROVE  Once'
<1> USE DEF Once
<1>1. req'[h] = r /\ \A i \in Handlers \ {h} : req'[i] = req[i]
  BY Moves
<1>2. \A i \in Handlers \ {h} : \A c : Holds(i, c)' <=> Holds(i, c)
  BY <1>1 DEF Holds
<1>3. \A c : Holds(h, c)' => r.pc \in {"magic", "session"} /\ r.from = c
  BY <1>1 DEF Holds
<1>4. ASSUME NEW c \in Mails \cup Sessions, Holds(h, c)', ~Holds(h, c) PROVE Free(c)
  <2>1. c # Nothing
    BY AuthAssumption
  <2> QED
    BY <1>3, <1>4, <2>1 DEF Unspent
<1>5. ASSUME NEW c \in Mails \cup Sessions, Free(c), ~Holds(h, c)' PROVE Free(c)'
  BY <1>2, <1>5 DEF Free
<1>6. Single'
  <2> SUFFICES ASSUME NEW c \in Mails \cup Sessions
               PROVE  /\ \A s, t \in Sessions : sessions'[s].from = c /\ sessions'[t].from = c => s = t
                      /\ \A i, j \in Handlers : Holds(i, c)' /\ Holds(j, c)' => i = j
                      /\ \A s \in Sessions, i \in Handlers : ~(sessions'[s].from = c /\ Holds(i, c)')
    BY DEF Single
  <2>1. CASE Holds(h, c)' /\ ~Holds(h, c)
    BY <1>2, <1>4, <2>1 DEF Free
  <2>2. CASE Holds(h, c)' => Holds(h, c)
    BY <1>2, <2>2 DEF Single
  <2> QED
    BY <2>1, <2>2
<1>7. \A i \in Handlers : req[i].taken \subseteq Mails
  BY DEF TypeOK, Request
<1>8. ASSUME NEW i \in Handlers \ {h}, NEW m \in req[i].taken
      PROVE  m \in Mails /\ mails'[m].state = "used" /\ ~Holds(h, m)' /\ m \notin r.taken /\ Free(m)
  <2>1. /\ m \in Mails /\ mails[m].state = "used" /\ Free(m)
        /\ m \notin req[h].taken
    BY <1>7 DEF Taken
  <2>2. ~Holds(h, m)'
    <3>1. ~Holds(h, m) /\ m # Nothing /\ m \notin Sessions
      BY <2>1, AuthAssumption DEF Free
    <3> QED
      BY <1>3, <2>1, <3>1
  <2> QED
    BY <2>1, <2>2
<1>9. ASSUME NEW m \in r.taken
      PROVE  m \in Mails /\ mails'[m].state = "used" /\ ~Holds(h, m)' /\ Free(m)
  <2>1. m \in Mails /\ mails'[m].state = "used" /\ r.pc = "insert" /\ mails[m].state = "active"
    OBVIOUS
  <2> QED
    BY <1>3, <2>1 DEF Unspent
<1>10. Taken'
  <2> SUFFICES ASSUME NEW i \in Handlers, NEW m \in req'[i].taken
               PROVE  /\ req'[i].pc = "insert" /\ mails'[m].state = "used" /\ Free(m)'
                      /\ \A j \in Handlers \ {i} : m \notin req'[j].taken
    BY DEF Taken
  <2>1. CASE i = h
    BY <1>1, <1>5, <1>8, <1>9, <2>1
  <2>2. CASE i # h
    BY <1>1, <1>5, <1>8, <2>2 DEF Taken
  <2> QED
    BY <2>1, <2>2
<1>11. Unspent'
  <2>1. ASSUME NEW m \in Mails, mails'[m].state # "used" PROVE Free(m)'
    <3>1. Free(m)
      BY <2>1 DEF Taken, Unspent
    <3>2. ~Holds(h, m)'
      BY <1>3, <2>1, <3>1, AuthAssumption DEF Free
    <3> QED
      BY <1>5, <3>1, <3>2
  <2>2. ASSUME NEW s \in Sessions, sessions'[s].state # "revoked" PROVE Free(s)'
    <3>1. Free(s)
      BY <2>2 DEF Unspent
    <3>2. ~Holds(h, s)'
      BY <1>3, <2>2, <3>1, AuthAssumption DEF Free
    <3> QED
      BY <1>5, <3>1, <3>2
  <2> QED
    BY <2>1, <2>2 DEF Unspent
<1> QED
  BY <1>6, <1>10, <1>11

\* The session takes over the credential from the request.
LEMMA OnceCreate ==
    ASSUME TypeOK, Once, NEW h \in Handlers, NEW s \in Sessions, CreateSession(h, s)
    PROVE  Once'
<1> USE DEF Once
<1> DEFINE c == req[h].from
<1>1. req'[h] = Idle /\ (\A i \in Handlers \ {h} : req'[i] = req[i]) /\ UNCHANGED mails
  BY Moves DEF CreateSession, End
<1>2. \A t \in Sessions \ {s} : sessions'[t] = sessions[t]
  BY DEF CreateSession, TypeOK
<1>3. sessions'[s].from = c /\ sessions'[s].state = "live" /\ sessions[s].state = "absent"
  BY DEF CreateSession, TypeOK
<1>4. Holds(h, c)
  BY DEF CreateSession, Holds
<1>5. \A d : ~Holds(h, d)'
  BY <1>1, IdleTypes DEF Holds
<1>6. \A i \in Handlers \ {h} : \A d : Holds(i, d)' <=> Holds(i, d)
  BY <1>1 DEF Holds
<1>7. ASSUME NEW d \in Mails \cup Sessions, Free(d) PROVE Free(d)'
  <2>1. d # c
    BY <1>4, <1>7 DEF Free
  <2> QED
    BY <1>2, <1>3, <1>5, <1>6, <1>7, <2>1 DEF Free
<1>8. Single'
  <2> SUFFICES ASSUME NEW d \in Mails \cup Sessions
               PROVE  /\ \A x, y \in Sessions : sessions'[x].from = d /\ sessions'[y].from = d => x = y
                      /\ \A i, j \in Handlers : Holds(i, d)' /\ Holds(j, d)' => i = j
                      /\ \A x \in Sessions, i \in Handlers : ~(sessions'[x].from = d /\ Holds(i, d)')
    BY DEF Single
  <2>1. /\ \A x, y \in Sessions : sessions[x].from = d /\ sessions[y].from = d => x = y
        /\ \A i, j \in Handlers : Holds(i, d) /\ Holds(j, d) => i = j
        /\ \A x \in Sessions, i \in Handlers : ~(sessions[x].from = d /\ Holds(i, d))
    BY DEF Single
  <2>2. CASE d = c
    BY <1>2, <1>3, <1>4, <1>5, <1>6, <2>1, <2>2
  <2>3. CASE d # c
    BY <1>2, <1>3, <1>5, <1>6, <2>1, <2>3
  <2> QED
    BY <2>2, <2>3
<1>9. \A i \in Handlers : req[i].taken \subseteq Mails
  BY DEF TypeOK, Request
<1>10. Taken'
  BY <1>1, <1>7, <1>9, IdleTypes DEF Taken
<1>11. Unspent'
  BY <1>1, <1>2, <1>3, <1>7 DEF Unspent
<1> QED
  BY <1>8, <1>10, <1>11

LEMMA AuthOnce == TypeOK /\ Proven /\ Once /\ [Next]_vars => Once'
<1> SUFFICES ASSUME TypeOK, Proven, Once, [Next]_vars PROVE Once'
  OBVIOUS
\* A step of a request that holds and takes nothing.
<1>q. ASSUME NEW h \in Handlers, NEW r, Goto(h, r), r.taken = {},
             r.pc \notin {"magic", "session"} \/ r.from = Nothing,
             \A s \in Sessions : /\ sessions'[s].from = sessions[s].from
                                 /\ sessions[s].state = "revoked" => sessions'[s].state = "revoked",
             \A m \in Mails : mails[m].state = "used" /\ m \notin req[h].taken
                                  => mails'[m].state = "used"
      PROVE  Once'
  BY <1>q, OnceStep
<1>i. Idle.taken = {} /\ Idle.pc = "idle" /\ Idle.from = Nothing /\ Idle \in Request
  BY IdleTypes
<1>1. ASSUME NEW h \in Handlers, AccountStep(h) PROVE Once'
  <2>1. CASE RevokeAll(h)
    <3>1. \A s \in Sessions : /\ sessions'[s].from = sessions[s].from
                              /\ sessions[s].state = "revoked" => sessions'[s].state = "revoked"
      BY <2>1 DEF RevokeAll, RevokeAllForUser, TypeOK, Session
    <3> QED
      BY <1>q, <1>i, <2>1, <3>1 DEF RevokeAll, End
  <2>2. ASSUME NEW pc \in {"register", "add", "row", "password", "revoke_all"}, NEW row,
               \/ Goto(h, [Idle EXCEPT !.pc = pc])
               \/ Goto(h, [Idle EXCEPT !.pc = pc, !.row = row])
               \/ Goto(h, Idle),
               UNCHANGED <<mails, sessions>>
        PROVE  Once'
    <3> DEFINE r == [Idle EXCEPT !.pc = pc]
               q == [Idle EXCEPT !.pc = pc, !.row = row]
    <3>1. r.taken = {} /\ r.pc = pc /\ q.taken = {} /\ q.pc = pc
      BY DEF Idle
    <3> HIDE DEF r, q
    <3>2. Goto(h, r) \/ Goto(h, q) \/ Goto(h, Idle)
      BY <2>2 DEF r, q
    <3> QED
      BY <1>q, <1>i, <2>2, <3>1, <3>2
  <2>3. CASE RegisterCheck(h) \/ ChangePassword(h) \/ UpdatePassword(h)
    BY <2>2, <2>3 DEF RegisterCheck, ChangePassword, UpdatePassword
  <2>4. CASE AddUserRead(h) \/ UpdateProfileRead(h)
    BY <2>2, <2>4 DEF AddUserRead, UpdateProfileRead
  <2>5. CASE AddUserCreate(h) \/ RowWrite(h)
    BY <2>2, <2>5 DEF AddUserCreate, RowWrite, End
  <2> QED
    BY <1>1, <2>1, <2>3, <2>4, <2>5 DEF AccountStep
<1>2. ASSUME NEW h \in Handlers, LinkStep(h) PROVE Once'
  <2>1. ASSUME NEW p \in Purposes, RequestLink(h, p) PROVE Once'
    <3> DEFINE r == [Idle EXCEPT !.pc = "mail", !.purpose = p]
    <3>1. r.taken = {} /\ r.pc = "mail"
      BY DEF Idle
    <3>2. Goto(h, r) /\ UNCHANGED <<mails, sessions>>
      BY <2>1 DEF RequestLink
    <3> HIDE DEF r
    <3> QED
      BY <1>q, <3>1, <3>2
  <2>2. CASE InvalidateActive(h)
    <3> DEFINE A == ActiveMails(req[h].purpose)
               r == [req[h] EXCEPT !.pc = "insert", !.taken = A]
    <3>1. r.taken = A /\ r.pc = "insert"
      BY DEF TypeOK, Request
    <3>2. Goto(h, r) /\ UNCHANGED sessions
      BY <2>2 DEF InvalidateActive
    <3>3. \A m \in A : m \in Mails /\ mails[m].state = "active" /\ mails'[m].state = "used"
      BY <2>2 DEF InvalidateActive, ActiveMails, TypeOK, Mail
    <3>4. \A m \in Mails : mails[m].state = "used" => mails'[m].state = "used"
      BY <2>2 DEF InvalidateActive, ActiveMails, TypeOK, Mail
    <3> HIDE DEF A, r
    <3> QED
      BY <3>1, <3>2, <3>3, <3>4, OnceStep
  <2>3. CASE MagicUser(h)
    <3> DEFINE r == [req[h] EXCEPT !.pc = "session"]
    <3>1. r.pc = "session" /\ r.from = req[h].from /\ r.taken = req[h].taken
      BY DEF TypeOK, Request
    <3>2. Holds(h, req[h].from) /\ req[h].pc = "magic"
      BY <2>3 DEF MagicUser, Holds
    <3>3. req[h].taken = {}
      BY <3>2 DEF Once, Taken
    <3>4. UNCHANGED <<mails, sessions>> /\ (Goto(h, r) \/ Goto(h, Idle))
      BY <2>3 DEF MagicUser
    <3> HIDE DEF r
    <3>5. CASE Goto(h, r)
      BY <3>1, <3>2, <3>3, <3>4, <3>5, OnceStep
    <3>6. CASE Goto(h, Idle)
      BY <1>q, <1>i, <3>4, <3>6
    <3> QED
      BY <3>4, <3>5, <3>6
  <2>4. ASSUME NEW m \in Mails, RegisterCommit(h, m) \/ CreateLink(h, m) PROVE Once'
    <3>1. Goto(h, Idle) /\ UNCHANGED sessions
      BY <2>4 DEF RegisterCommit, CreateLink, End
    <3>2. \A n \in Mails : mails[n].state = "used" => mails'[n].state = "used"
      BY <2>4 DEF RegisterCommit, CreateLink, TypeOK
    <3> QED
      BY <1>q, <1>i, <3>1, <3>2
  <2>5. ASSUME NEW m \in Mails, NEW p, Consume(m, p)
        PROVE  /\ mails[m].state = "active" /\ mails'[m].state = "used"
               /\ \A n \in Mails : mails[n].state = "used" => mails'[n].state = "used"
    BY <2>5 DEF Consume, TypeOK, Mail
  <2>6. ASSUME NEW m \in Mails, VerifyEmail(h, m) \/ ConsumeMagicLink(h, m) PROVE Once'
    <3>1. PICK pc \in {"magic", "session"} :
            Goto(h, [Idle EXCEPT !.pc = pc, !.from = m, !.password = latest])
      BY <2>6 DEF VerifyEmail, ConsumeMagicLink
    <3> DEFINE r == [Idle EXCEPT !.pc = pc, !.from = m, !.password = latest]
    <3>2. r.from = m /\ r.taken = {}
      BY DEF Idle
    <3>3. UNCHANGED sessions /\ \E p : Consume(m, p)
      BY <2>6 DEF VerifyEmail, ConsumeVerification, ConsumeMagicLink
    <3> HIDE DEF r
    <3>4. Goto(h, r)
      BY <3>1 DEF r
    <3> QED
      BY <2>5, <3>2, <3>3, <3>4, OnceStep
  <2>7. ASSUME NEW m \in Mails, ResetPassword(h, m) PROVE Once'
    <3> DEFINE r == [Idle EXCEPT !.pc = "password"]
    <3>1. r.pc = "password" /\ r.taken = {}
      BY DEF Idle
    <3>2. Goto(h, r) /\ UNCHANGED sessions /\ Consume(m, "reset")
      BY <2>7 DEF ResetPassword
    <3> HIDE DEF r
    <3> QED
      BY <1>q, <2>5, <3>1, <3>2
  <2> QED
    BY <1>2, <2>1, <2>2, <2>3, <2>4, <2>6, <2>7 DEF LinkStep
<1>3. ASSUME NEW h \in Handlers, SessionStep(h) PROVE Once'
  <2>1. CASE Login(h)
    <3> DEFINE r == [Idle EXCEPT !.pc = "session", !.password = user.password]
    <3>1. r.from = Nothing /\ r.taken = {}
      BY DEF Idle
    <3>2. Goto(h, r) /\ UNCHANGED <<mails, sessions>>
      BY <2>1 DEF Login
    <3> HIDE DEF r
    <3> QED
      BY <1>q, <3>1, <3>2
  <2>2. ASSUME NEW s \in Sessions, RefreshValidate(h, s) PROVE Once'
    <3> DEFINE r == [Idle EXCEPT !.pc = "revoke", !.from = s, !.password = sessions[s].password]
    <3>1. r.pc = "revoke" /\ r.taken = {}
      BY DEF Idle
    <3>2. Goto(h, r) /\ UNCHANGED <<mails, sessions>>
      BY <2>2 DEF RefreshValidate
    <3> HIDE DEF r
    <3> QED
      BY <1>q, <3>1, <3>2
  <2>3. CASE RefreshRevoke(h)
    <3> DEFINE s == req[h].from
               r == [req[h] EXCEPT !.pc = "session"]
    <3>1. s \in Sessions /\ req[h].pc = "revoke" /\ UNCHANGED mails
      BY <2>3 DEF RefreshRevoke, Proven, Knows
    <3>2. r.from = s /\ r.taken = req[h].taken
      BY DEF TypeOK, Request
    <3>3. req[h].taken = {}
      BY <3>1 DEF Once, Taken
    <3> HIDE DEF r
    <3>4. CASE sessions[s].state = "revoked"
      BY <1>q, <1>i, <2>3, <3>1, <3>4 DEF RefreshRevoke, End
    <3>5. CASE sessions[s].state # "revoked"
      <4>1. Goto(h, r) /\ sessions' = [sessions EXCEPT ![s].state = "revoked"]
        BY <2>3, <3>5 DEF RefreshRevoke, r
      <4>2. /\ sessions'[s].state = "revoked"
            /\ \A t \in Sessions : /\ sessions'[t].from = sessions[t].from
                                    /\ sessions[t].state = "revoked" => sessions'[t].state = "revoked"
        BY <3>1, <4>1 DEF TypeOK, Session
      <4> QED
        BY <3>1, <3>2, <3>3, <3>5, <4>1, <4>2, OnceStep
    <3> QED
      BY <3>4, <3>5
  <2> QED
    BY <1>3, <2>1, <2>2, <2>3, OnceCreate DEF SessionStep, Refresh
<1>4. ASSUME NEW h \in Handlers, Abort(h) PROVE Once'
  <2>1. Goto(h, Idle) /\ UNCHANGED sessions
    BY <1>4 DEF Abort, End
  <2>2. \A m \in Mails \ req[h].taken : mails'[m] = mails[m]
    BY <1>4 DEF Abort
  <2> QED
    BY <1>q, <1>i, <2>1, <2>2
\* What expires was not spent, and cannot be spent any more.
<1>5. ASSUME UNCHANGED req,
             \A m \in Mails : mails[m].state = "used" <=> mails'[m].state = "used",
             \A s \in Sessions : /\ sessions'[s].from = sessions[s].from
                                 /\ sessions[s].state = "revoked" <=> sessions'[s].state = "revoked"
      PROVE  Once'
  <2>1. \A h \in Handlers : \A c : Holds(h, c)' <=> Holds(h, c)
    BY <1>5 DEF Holds
  <2>2. \A c : Free(c) => Free(c)'
    BY <1>5, <2>1 DEF Free
  <2>3. Single'
    BY <1>5, <2>1 DEF Once, Single
  <2>4. \A h \in Handlers : req[h].taken \subseteq Mails
    BY DEF TypeOK, Request
  <2>5. Taken'
    BY <1>5, <2>2, <2>4 DEF Once, Taken
  <2>6. Unspent'
    BY <1>5, <2>2 DEF Once, Unspent
  <2> QED
    BY <2>3, <2>5, <2>6 DEF Once
<1>6. ASSUME NEW m \in Mails, ExpireMail(m) PROVE Once'
  BY <1>5, <1>6 DEF ExpireMail, TypeOK, Mail
<1>7. ASSUME NEW s \in Sessions, ExpireSession(s) PROVE Once'
  BY <1>5, <1>7 DEF ExpireSession, TypeOK, Session
<1>8. CASE UNCHANGED vars
  BY <1>5, <1>8 DEF vars
<1> QED
  BY <1>1, <1>2, <1>3, <1>4, <1>6, <1>7, <1>8 DEF Next

\* Pairwise different users of a credential, counted.
LEMMA AtMostOne ==
    ASSUME NEW S, \A x, y \in S : x = y
    PROVE  S = {} \/ \E x : S = {x}
  OBVIOUS

LEMMA SingleCounts == Single => OneSessionPerCredential
<1> SUFFICES ASSUME Single, NEW c \in Mails \cup Sessions
             PROVE  Cardinality({s \in Sessions : sessions[s].from = c})
                      + Cardinality({h \in Handlers : req[h].pc \in {"magic", "session"}
                                                      /\ req[h].from = c}) <= 1
  BY DEF OneSessionPerCredential
<1> DEFINE S == {s \in Sessions : sessions[s].from = c}
           H == {h \in Handlers : req[h].pc \in {"magic", "session"} /\ req[h].from = c}
<1>1. /\ \A x, y \in S : x = y
      /\ \A x, y \in H : x = y
      /\ S = {} \/ H = {}
  BY DEF Single, Holds
<1> HIDE DEF S, H
<1>2. (S = {} \/ \E x : S = {x}) /\ (H = {} \/ \E x : H = {x})
  BY <1>1, AtMostOne
<1>3. \A x : Cardinality({x}) = 1
  BY FS_Singleton
<1>4. Cardinality({}) = 0
  BY FS_EmptySet
<1>5. Cardinality(S) + Cardinality(H) <= 1
  <2>1. Cardinality(S) \in {0, 1} /\ Cardinality(H) \in {0, 1}
    BY <1>2, <1>3, <1>4, Zenon
  <2>2. Cardinality(S) = 0 \/ Cardinality(H) = 0
    BY <1>1, <1>4, Zenon
  <2> QED
    BY <2>1, <2>2
<1> QED
  BY <1>5 DEF S, H

----------------------------------------------------------------------------
(* The theorems.                                                           *)

AuthInv == TypeOK /\ Proven /\ OldSessionsEnd /\ Once

LEMMA AuthInit == Init => AuthInv
<1> SUFFICES ASSUME Init PROVE AuthInv
  OBVIOUS
<1>1. \A h \in Handlers : req[h] = Idle
  BY DEF Init
<1>2. \A s \in Sessions : sessions[s] = NoSession
  BY DEF Init
<1>3. \A m \in Mails : mails[m] = NoMail
  BY DEF Init
<1>4. TypeOK
  BY IdleTypes DEF Init, TypeOK
<1>5. Proven
  BY <1>1, <1>2, <1>3, IdleTypes DEF Init, Proven, Knows, SignedIn, NoSession, NoAccount, NoMail
<1>6. OldSessionsEnd
  BY <1>2 DEF OldSessionsEnd, NoSession
<1>7. \A c \in Mails \cup Sessions : Free(c)
  BY <1>1, <1>2, IdleTypes, AuthAssumption DEF Free, Holds, NoSession
<1>8. Single
  BY <1>7 DEF Single, Free
<1>9. Taken
  BY <1>1, IdleTypes DEF Taken
<1>10. Unspent
  BY <1>7 DEF Unspent
<1> QED
  BY <1>4, <1>5, <1>6, <1>8, <1>9, <1>10 DEF AuthInv, Once

\* However requests overlap and fail, for any number of links, sessions and
\* password changes: whoever has a session is verified, although two requests
\* write the whole account row as they read it; sessions end after ResetPassword
\* and ChangePassword as OldSessionsEnd says; and a link or a refresh token that
\* several requests present opens one session.
THEOREM AuthCorrect ==
    Spec => [](TypeOK /\ SessionsAreVerified /\ OldSessionsEnd /\ OneSessionPerCredential)
<1>1. Init => AuthInv
  BY AuthInit
<1>2. AuthInv /\ [Next]_vars => AuthInv'
  BY AuthTypes, AuthProven, AuthOld, AuthOnce DEF AuthInv
<1>3. AuthInv => TypeOK /\ SessionsAreVerified /\ OldSessionsEnd /\ OneSessionPerCredential
  BY SingleCounts DEF AuthInv, Proven, Once, SessionsAreVerified
<1> QED
  BY <1>1, <1>2, <1>3, PTL DEF Spec

\* Login, Refresh and the mailed links open sessions of verified accounts only,
\* although UpdateProfile and AddUser write the whole row as they read it.
THEOREM SessionsVerified == Spec => []SessionsAreVerified
  BY AuthCorrect, PTL

\* ResetPassword and ChangePassword revoke the sessions of the old password, as
\* far as OldSessionsEnd says, wherever other requests stand at that moment.
THEOREM OldSessionsAreEnded == Spec => []OldSessionsEnd
  BY AuthCorrect, PTL
=============================================================================

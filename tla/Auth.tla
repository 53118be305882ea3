--------------------------------- MODULE Auth ---------------------------------
(***************************************************************************)
(* One account from registration on, with email delivery enabled: one-time *)
(* links (verify, reset, magic login), refresh sessions and their          *)
(* rotation, password changes, and the two requests that write the whole   *)
(* users row as they read it (UpdateProfile, TenantService.AddUser).       *)
(*                                                                         *)
(* Passwords are numbered in the order in which they are set.  A session   *)
(* records the number of the password in force when its owner proved who   *)
(* they are; a session that replaces another one inherits the number.      *)
(***************************************************************************)
EXTENDS Integers, FiniteSets

CONSTANTS
    Mails,        \* identities of the mailed one-time tokens
    Sessions,     \* identities of the refresh_tokens rows
    Handlers,     \* concurrent request handlers
    MaxPasswords, \* bound: how often the password is changed
    Nothing       \* "no credential"

ASSUME AuthAssumption ==
    /\ Nothing \notin Mails \cup Sessions
    /\ Mails \cap Sessions = {}
    /\ MaxPasswords \in Nat

VARIABLES
    user,     \* the users row
    latest,   \* history: the number of the password set last
    mails,    \* mails[m]: email_verification_tokens and auth_email_tokens
    sessions, \* sessions[s]: the refresh_tokens row s
    cut,      \* history: a password change stopped before it revoked sessions
    req       \* req[h]: the request that handler h is serving

vars == <<user, latest, mails, sessions, cut, req>>

----------------------------------------------------------------------------
(* Rows and requests.                                                      *)

User == [exists : BOOLEAN, verified : BOOLEAN, password : Nat]
NoAccount == [exists |-> FALSE, verified |-> FALSE, password |-> 0]

Purposes == {"verify", "reset", "magic"}
Mail == [state : {"absent", "active", "used", "expired"}, purpose : Purposes]
NoMail == [state |-> "absent", purpose |-> "verify"]

\* from is the mailed token or the session that this one was given for; late
\* tells that the password had changed since its owner proved who they are.
Session ==
    [ state    : {"absent", "live", "revoked", "expired"},
      password : Nat,
      from     : Mails \cup Sessions \cup {Nothing},
      late     : BOOLEAN ]
NoSession ==
    [state |-> "absent", password |-> 0, from |-> Nothing, late |-> FALSE]

Steps == {"idle", "register", "add", "row", "mail", "insert", "magic",
          "revoke", "session", "password", "revoke_all"}

\* row is the users row as read, taken the tokens invalidated by a transaction
\* that has not committed yet.
Request ==
    [ pc       : Steps,
      purpose  : Purposes,
      from     : Mails \cup Sessions \cup {Nothing},
      password : Nat,
      row      : User,
      taken    : SUBSET Mails ]

Idle ==
    [ pc |-> "idle", purpose |-> "verify", from |-> Nothing, password |-> 0,
      row |-> NoAccount, taken |-> {} ]

Goto(h, r) == req' = [req EXCEPT ![h] = r]
End(h) == Goto(h, Idle)

\* An access token: some session was created (access tokens outlive it).
SignedIn == \E s \in Sessions : sessions[s].state # "absent"

ActiveMails(p) == {m \in Mails : mails[m].state = "active" /\ mails[m].purpose = p}

----------------------------------------------------------------------------
(* The account.                                                            *)

\* EmailExists.
RegisterCheck(h) ==
    /\ req[h].pc = "idle"
    /\ ~user.exists
    /\ Goto(h, [Idle EXCEPT !.pc = "register"])
    /\ UNCHANGED <<user, latest, mails, sessions, cut>>

\* One transaction for the account, its tenant and the verification token.
\* The email is unique: the second of two registrations fails.
RegisterCommit(h, m) ==
    /\ req[h].pc = "register"
    /\ mails[m].state = "absent"
    /\ IF user.exists
       THEN UNCHANGED <<user, mails>>
       ELSE /\ user' = [NoAccount EXCEPT !.exists = TRUE]
            /\ mails' = [mails EXCEPT ![m] = [state |-> "active", purpose |-> "verify"]]
    /\ End(h)
    /\ UNCHANGED <<latest, sessions, cut>>

\* TenantService.AddUser: an account that exists is to become verified ...
AddUserRead(h) ==
    /\ req[h].pc = "idle"
    /\ Goto(h, IF user.exists
               THEN [Idle EXCEPT !.pc = "row", !.row = [user EXCEPT !.verified = TRUE]]
               ELSE [Idle EXCEPT !.pc = "add"])
    /\ UNCHANGED <<user, latest, mails, sessions, cut>>

\* ... and one that does not is created verified.
AddUserCreate(h) ==
    /\ req[h].pc = "add"
    /\ user' = IF user.exists THEN user
               ELSE [NoAccount EXCEPT !.exists = TRUE, !.verified = TRUE]
    /\ End(h)
    /\ UNCHANGED <<latest, mails, sessions, cut>>

UpdateProfileRead(h) ==
    /\ req[h].pc = "idle"
    /\ SignedIn
    /\ Goto(h, [Idle EXCEPT !.pc = "row", !.row = user])
    /\ UNCHANGED <<user, latest, mails, sessions, cut>>

\* UserRepository.Update writes every column, the password hash included.
RowWrite(h) ==
    /\ req[h].pc = "row"
    /\ user' = req[h].row
    /\ End(h)
    /\ UNCHANGED <<latest, mails, sessions, cut>>

----------------------------------------------------------------------------
(* One-time links.                                                         *)

\* Who gets which mail.
MayRequest(p) ==
    CASE p = "verify" -> user.exists /\ ~user.verified
      [] p = "reset"  -> user.exists
      [] p = "magic"  -> user.exists /\ user.verified

\* ResendVerification, ForgotPassword, RequestMagicLink.
RequestLink(h, p) ==
    /\ req[h].pc = "idle"
    /\ MayRequest(p)
    /\ Goto(h, [Idle EXCEPT !.pc = "mail", !.purpose = p])
    /\ UNCHANGED <<user, latest, mails, sessions, cut>>

\* InvalidateActive, in the transaction that ends with the insert.
InvalidateActive(h) ==
    LET A == ActiveMails(req[h].purpose) IN
    /\ req[h].pc = "mail"
    /\ mails' = [m \in Mails |->
                   IF m \in A THEN [mails[m] EXCEPT !.state = "used"] ELSE mails[m]]
    /\ Goto(h, [req[h] EXCEPT !.pc = "insert", !.taken = A])
    /\ UNCHANGED <<user, latest, sessions, cut>>

CreateLink(h, m) ==
    /\ req[h].pc = "insert"
    /\ mails[m].state = "absent"
    /\ mails' = [mails EXCEPT ![m] =
                   [state |-> "active", purpose |-> req[h].purpose]]
    /\ End(h)
    /\ UNCHANGED <<user, latest, sessions, cut>>

\* Consume: the row is locked, must be unused and in time, and is marked.
Consume(m, p) ==
    /\ mails[m].state = "active"
    /\ mails[m].purpose = p
    /\ mails' = [mails EXCEPT ![m].state = "used"]

\* The verification token is consumed and the account marked in one
\* transaction.
ConsumeVerification(m) ==
    /\ Consume(m, "verify")
    /\ user' = [user EXCEPT !.verified = TRUE]

VerifyEmail(h, m) ==
    /\ req[h].pc = "idle"
    /\ ConsumeVerification(m)
    /\ Goto(h, [Idle EXCEPT !.pc = "session", !.from = m, !.password = latest])
    /\ UNCHANGED <<latest, sessions, cut>>

ConsumeMagicLink(h, m) ==
    /\ req[h].pc = "idle"
    /\ Consume(m, "magic")
    /\ Goto(h, [Idle EXCEPT !.pc = "magic", !.from = m, !.password = latest])
    /\ UNCHANGED <<user, latest, sessions, cut>>

\* Only a verified account.
MagicUser(h) ==
    /\ req[h].pc = "magic"
    /\ Goto(h, IF user.verified THEN [req[h] EXCEPT !.pc = "session"] ELSE Idle)
    /\ UNCHANGED <<user, latest, mails, sessions, cut>>

----------------------------------------------------------------------------
(* Sessions.                                                               *)

\* Mutant: an unverified account may log in.
LoginUnverified(h) ==
    /\ req[h].pc = "idle"
    /\ user.exists
    /\ Goto(h, [Idle EXCEPT !.pc = "session", !.password = user.password])
    /\ UNCHANGED <<user, latest, mails, sessions, cut>>

\* Login with the password of the row.
Login(h) ==
    /\ req[h].pc = "idle"
    /\ user.exists
    /\ user.verified
    /\ Goto(h, [Idle EXCEPT !.pc = "session", !.password = user.password])
    /\ UNCHANGED <<user, latest, mails, sessions, cut>>

\* RefreshTokenService.create.
CreateSession(h, s) ==
    /\ req[h].pc = "session"
    /\ sessions[s].state = "absent"
    /\ sessions' = [sessions EXCEPT ![s] =
         [ state |-> "live", password |-> req[h].password, from |-> req[h].from,
           late |-> req[h].password # latest ]]
    /\ End(h)
    /\ UNCHANGED <<user, latest, mails, cut>>

\* Refresh: Validate, ...
RefreshValidate(h, s) ==
    /\ req[h].pc = "idle"
    /\ sessions[s].state = "live"
    /\ Goto(h, [Idle EXCEPT !.pc = "revoke", !.from = s,
                            !.password = sessions[s].password])
    /\ UNCHANGED <<user, latest, mails, sessions, cut>>

\* Mutant: that no row was revoked goes unnoticed.
RevokeUnchecked(h) ==
    LET s == req[h].from IN
    /\ req[h].pc = "revoke"
    /\ sessions' = [sessions EXCEPT ![s].state = "revoked"]
    /\ Goto(h, [req[h] EXCEPT !.pc = "session"])
    /\ UNCHANGED <<user, latest, mails, cut>>

\* ... Revoke, which fails when the row is revoked already, and then
\* CreateSession.
RefreshRevoke(h) ==
    LET s == req[h].from IN
    /\ req[h].pc = "revoke"
    /\ IF sessions[s].state = "revoked"
       THEN UNCHANGED sessions /\ End(h)
       ELSE /\ sessions' = [sessions EXCEPT ![s].state = "revoked"]
            /\ Goto(h, [req[h] EXCEPT !.pc = "session"])
    /\ UNCHANGED <<user, latest, mails, cut>>

----------------------------------------------------------------------------
(* Passwords.                                                              *)

ResetPassword(h, m) ==
    /\ req[h].pc = "idle"
    /\ Consume(m, "reset")
    /\ Goto(h, [Idle EXCEPT !.pc = "password"])
    /\ UNCHANGED <<user, latest, sessions, cut>>

\* ChangePassword compares the current password first.
ChangePassword(h) ==
    /\ req[h].pc = "idle"
    /\ SignedIn
    /\ Goto(h, [Idle EXCEPT !.pc = "password"])
    /\ UNCHANGED <<user, latest, mails, sessions, cut>>

UpdatePassword(h) ==
    /\ req[h].pc = "password"
    /\ latest < MaxPasswords
    /\ latest' = latest + 1
    /\ user' = [user EXCEPT !.password = latest + 1]
    /\ Goto(h, [Idle EXCEPT !.pc = "revoke_all"])
    /\ UNCHANGED <<mails, sessions, cut>>

\* Mutant: sessions that a link opened survive.
RevokeLoginsOnly(h) ==
    /\ req[h].pc = "revoke_all"
    /\ sessions' = [s \in Sessions |->
         IF sessions[s].state = "absent" \/ sessions[s].from \in Mails
         THEN sessions[s] ELSE [sessions[s] EXCEPT !.state = "revoked"]]
    /\ cut' = FALSE
    /\ End(h)
    /\ UNCHANGED <<user, latest, mails>>

\* ResetPassword uses this statement of the repository, ChangePassword the
\* same one of the token service.
RevokeAllForUser ==
    sessions' = [s \in Sessions |->
        IF sessions[s].state = "absent"
        THEN sessions[s] ELSE [sessions[s] EXCEPT !.state = "revoked"]]

RevokeAll(h) ==
    /\ req[h].pc = "revoke_all"
    /\ RevokeAllForUser
    /\ cut' = FALSE
    /\ End(h)
    /\ UNCHANGED <<user, latest, mails>>

----------------------------------------------------------------------------
(* Time and failures.                                                      *)

ExpireMail(m) ==
    /\ mails[m].state = "active"
    /\ mails' = [mails EXCEPT ![m].state = "expired"]
    /\ UNCHANGED <<user, latest, sessions, cut, req>>

ExpireSession(s) ==
    /\ sessions[s].state = "live"
    /\ sessions' = [sessions EXCEPT ![s].state = "expired"]
    /\ UNCHANGED <<user, latest, mails, cut, req>>

\* A failing statement ends the request; an open transaction is rolled back.
Abort(h) ==
    /\ req[h].pc # "idle"
    /\ mails' = [m \in Mails |-> IF m \in req[h].taken
                   THEN [mails[m] EXCEPT !.state = "active"] ELSE mails[m]]
    /\ cut' = (cut \/ req[h].pc = "revoke_all")
    /\ End(h)
    /\ UNCHANGED <<user, latest, sessions>>

----------------------------------------------------------------------------

Init ==
    /\ user = NoAccount
    /\ latest = 0
    /\ mails = [m \in Mails |-> NoMail]
    /\ sessions = [s \in Sessions |-> NoSession]
    /\ cut = FALSE
    /\ req = [h \in Handlers |-> Idle]

AccountStep(h) ==
    \/ RegisterCheck(h) \/ AddUserRead(h) \/ AddUserCreate(h)
    \/ UpdateProfileRead(h) \/ RowWrite(h)
    \/ ChangePassword(h) \/ UpdatePassword(h) \/ RevokeAll(h)
LinkStep(h) ==
    \/ \E p \in Purposes : RequestLink(h, p)
    \/ InvalidateActive(h)
    \/ MagicUser(h)
    \/ \E m \in Mails :
         \/ RegisterCommit(h, m) \/ CreateLink(h, m)
         \/ VerifyEmail(h, m) \/ ConsumeMagicLink(h, m) \/ ResetPassword(h, m)
Refresh(h) == RefreshRevoke(h) \/ \E s \in Sessions : RefreshValidate(h, s)
SessionStep(h) ==
    \/ Login(h)
    \/ Refresh(h)
    \/ \E s \in Sessions : CreateSession(h, s)

Next ==
    \/ \E h \in Handlers : AccountStep(h) \/ LinkStep(h) \/ SessionStep(h) \/ Abort(h)
    \/ \E m \in Mails : ExpireMail(m)
    \/ \E s \in Sessions : ExpireSession(s)

Spec == Init /\ [][Next]_vars

----------------------------------------------------------------------------
(* Properties.                                                             *)

TypeOK ==
    /\ user \in User
    /\ latest \in Nat
    /\ mails \in [Mails -> Mail]
    /\ sessions \in [Sessions -> Session]
    /\ cut \in BOOLEAN
    /\ req \in [Handlers -> Request]

\* VerifyEmail, ConsumeMagicLink and Refresh: a link or a refresh token that
\* two requests present at the same time opens one session, not two.
OneSessionPerCredential ==
    \A c \in Mails \cup Sessions :
        Cardinality({s \in Sessions : sessions[s].from = c})
          + Cardinality({h \in Handlers : req[h].pc \in {"magic", "session"}
                                          /\ req[h].from = c})
        <= 1

\* Login, VerifyEmail, ConsumeMagicLink against the requests that write the
\* whole row as they read it: an account with a session is verified.
SessionsAreVerified == SignedIn => user.verified

\* ChangePassword, ResetPassword: a session opened before the password was
\* changed stays open only until RevokeAll runs, unless the request that
\* opened it was overtaken by the change - or logged in with an old password
\* that UpdateProfile or AddUser had written back with the whole row - or the
\* change itself was cut short.
OldSessionsEnd ==
    \A s \in Sessions :
        sessions[s].state = "live" /\ sessions[s].password # latest =>
            \/ sessions[s].late
            \/ cut
            \/ \E h \in Handlers : req[h].pc = "revoke_all"
=============================================================================

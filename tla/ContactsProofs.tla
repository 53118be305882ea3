--------------------------- MODULE ContactsProofs ---------------------------
(***************************************************************************)
(* Proofs about Contacts: duplicates and imports, for any number of        *)
(* contacts, keys, rows of a file and requests.                            *)
(***************************************************************************)
EXTENDS Contacts, FiniteSetTheorems, FunctionTheorems, TLAPS

----------------------------------------------------------------------------
(* What requests know.                                                     *)

\* No live contact of table cs has key k.
Nobody(cs, k) == \A c \in Contacts : cs[c].state = "live" => k \notin cs[c].keys

\* What CheckDuplicates answered for key k: a contact with that key, or nobody.
Answered(cs, x, k) == IF x = NoContact THEN Nobody(cs, k) ELSE k \in cs[x].keys

\* One of the contacts in S has a key of row K.
Stands(cs, S, K) == \E c \in S : cs[c].keys \cap K # {}

Updating == {"update_email", "update_phone", "update"}

\* What a request that is not unsure knows of the contacts cs and the roster ro:
\* the keys it looked up are free, or the row it updates has them already; an
\* import creates rows that share no key, and each row that it accepted for the
\* event is to be created, or is a guest who is or will be on the roster.
Knows(r, cs, ro) ==
    /\ r.pc \in {"phone", "insert"} => \A k \in r.keys \cap Emails : Nobody(cs, k)
    /\ r.pc = "insert" => \A k \in r.keys \cap Phones : Nobody(cs, k)
    /\ r.pc \in Updating =>
         /\ r.changed \cap cs[r.c].keys = {}
         /\ \A k \in r.keys \ r.changed : k \in cs[r.c].keys \/ Nobody(cs, k)
    /\ r.pc \in {"update_phone", "update"} => r.changed \cap Emails = {}
    /\ r.pc = "update" => r.changed \cap Phones = {}
    /\ r.pc = "import_emails" =>
         \A k \in InFile(r.file) \cap Phones : Answered(cs, r.found[k], k)
    /\ r.pc = "import_insert" =>
         /\ \A K \in r.rows : \A k \in K : Nobody(cs, k)
         /\ \A K, L \in r.rows : K # L => K \cap L = {}
         /\ \A K \in r.due : K \in r.rows \/ Stands(cs, r.ids, K)
    /\ r.pc \in {"roster", "roster_insert"} => \A K \in r.due : Stands(cs, r.ids \cup ro, K)

\* What holds of any request: it has a contact when it needs one, and the rows
\* of an import are finitely many.
Facts(r) ==
    /\ r.pc \in Updating \cup {"roster_insert"} => r.c \in Contacts
    /\ IsFiniteSet(r.rows)

\* A row that was never written has no keys.
Blank(cs) == \A c \in Contacts : cs[c].state = "none" => cs[c].keys = {}

\* DuplicatesAreUnchecked is not inductive: a request has to know that the keys it
\* looked up are still free when it writes them.
ContactsInv ==
    /\ TypeOK
    /\ Blank(contacts)
    /\ \A h \in Handlers : Facts(req[h])
    /\ \A h \in Handlers : ~req[h].unsure => Knows(req[h], contacts, roster)
    /\ DuplicatesAreUnchecked

----------------------------------------------------------------------------
(* Lemmas.                                                                 *)

LEMMA KeySetsClosed ==
    /\ {} \in KeySets
    /\ \A K \in KeySets : \A L : L \subseteq K => L \in KeySets
    /\ \A K \in KeySets : K \subseteq Keys
BY DEF KeySets, Keys

LEMMA IdleFacts ==
    /\ Idle \in Request /\ Idle.pc = "idle" /\ ~Idle.unsure
    /\ Facts(Idle)
    /\ \A cs, ro : Knows(Idle, cs, ro)
<1>1. Idle \in Request
  BY KeySetsClosed DEF Idle, Request, Steps
<1>2. Idle.pc = "idle" /\ Idle.unsure = FALSE /\ Idle.rows = {}
  BY DEF Idle
<1>3. Facts(Idle)
  BY <1>2, FS_EmptySet DEF Facts, Updating
<1> QED
  BY <1>1, <1>2, <1>3 DEF Knows, Updating

\* A set of one element is not empty.
LEMMA OneIsSome == \A S : Cardinality(S) = 1 => S # {}
<1>1. Cardinality({}) = 0
  BY FS_EmptySet
<1>2. Cardinality({}) # 1
  BY <1>1
<1>3. ASSUME NEW S, Cardinality(S) = 1, S = {} PROVE FALSE
  <2>1. Cardinality({}) = 1
    BY <1>3, Zenon
  <2> QED
    BY <1>2, <2>1
<1> QED
  BY <1>3

\* Nobody is Holders, of the table as it is.
LEMMA NobodyHolds == \A k : Nobody(contacts, k) <=> Holders(k) = {}
BY DEF Nobody, Holders, LiveContacts

\* A request goes on with r and writes no contact.
LEMMA QuietStep ==
    ASSUME ContactsInv, NEW h \in Handlers, NEW r \in Request, Goto(h, r),
           UNCHANGED contacts, roster \subseteq roster', roster' \subseteq Contacts,
           Facts(r), ~r.unsure => Knows(r, contacts, roster')
    PROVE  ContactsInv'
<1>1. req' \in [Handlers -> Request] /\ \A i \in Handlers : req'[i] = IF i = h THEN r ELSE req[i]
  BY DEF ContactsInv, TypeOK, Goto
<1>2. TypeOK'
  BY <1>1 DEF ContactsInv, TypeOK
<1>3. \A i \in Handlers : Facts(req'[i])
  BY <1>1 DEF ContactsInv
<1>4. \A i \in Handlers : ~req'[i].unsure => Knows(req'[i], contacts', roster')
  <2> SUFFICES ASSUME NEW i \in Handlers, i # h, ~req[i].unsure
               PROVE  Knows(req[i], contacts, roster')
    BY <1>1
  <2>1. Knows(req[i], contacts, roster)
    BY DEF ContactsInv
  <2> QED
    BY <2>1 DEF Knows, Stands
<1>5. DuplicatesAreUnchecked'
  BY DEF ContactsInv, DuplicatesAreUnchecked, LiveContacts
<1>6. Blank(contacts')
  BY DEF ContactsInv
<1> QED
  BY <1>2, <1>3, <1>4, <1>5, <1>6 DEF ContactsInv

\* A request ends.
LEMMA EndStep ==
    ASSUME ContactsInv, NEW h \in Handlers, End(h), UNCHANGED <<contacts, roster>>
    PROVE  ContactsInv'
BY IdleFacts, QuietStep DEF End, ContactsInv, TypeOK

\* A request writes contacts and goes on with r: whatever the others knew, they
\* are unsure of it now.
LEMMA WriteStep ==
    ASSUME ContactsInv, NEW h \in Handlers, NEW r \in Request, Wrote(h, r),
           contacts' \in [Contacts -> Contact], Blank(contacts'), UNCHANGED roster,
           Facts(r), ~r.unsure => Knows(r, contacts', roster),
           DuplicatesAreUnchecked'
    PROVE  ContactsInv'
<1>1. \A i \in Handlers : req[i] \in Request
  BY DEF ContactsInv, TypeOK
<1> DEFINE q(i) == [req[i] EXCEPT !.unsure = TRUE]
<1>2. \A i \in Handlers : q(i) \in Request /\ q(i).unsure = TRUE /\ q(i).pc = req[i].pc
                          /\ q(i).c = req[i].c /\ q(i).rows = req[i].rows
  BY <1>1 DEF Request
<1>3. \A i \in Handlers : req'[i] = IF i = h THEN r ELSE IF req[i].pc = "idle" THEN req[i] ELSE q(i)
  BY DEF Wrote
<1>4. req' \in [Handlers -> Request]
  BY <1>1, <1>2 DEF Wrote
<1> HIDE DEF q
<1>5. TypeOK'
  BY <1>4 DEF ContactsInv, TypeOK
<1>6. \A i \in Handlers : Facts(req'[i])
  BY <1>2, <1>3 DEF ContactsInv, Facts
<1>7. \A i \in Handlers : ~req'[i].unsure => Knows(req'[i], contacts', roster')
  BY <1>2, <1>3 DEF Knows, Updating
<1> QED
  BY <1>5, <1>6, <1>7 DEF ContactsInv

\* SoftDelete frees keys and changes none.
LEMMA SoftDeleteStep ==
    ASSUME ContactsInv, NEW c \in Contacts, SoftDelete(c)
    PROVE  ContactsInv'
<1> DEFINE row == [contacts[c] EXCEPT !.state = "deleted", !.unsure = FALSE]
<1>1. contacts[c] \in Contact /\ contacts \in [Contacts -> Contact]
  BY DEF ContactsInv, TypeOK
<1>2. row \in Contact /\ row.state = "deleted" /\ row.keys = contacts[c].keys
  BY <1>1 DEF Contact
<1>3. contacts' = [contacts EXCEPT ![c] = row] /\ UNCHANGED <<roster, req>>
  BY <1>1 DEF SoftDelete
<1> HIDE DEF row
<1>4. contacts' \in [Contacts -> Contact]
      /\ \A d \in Contacts : /\ contacts'[d].keys = contacts[d].keys
                             /\ contacts'[d].state = "live" => d # c /\ contacts'[d] = contacts[d]
  BY <1>1, <1>2, <1>3
<1>5. \A k : Nobody(contacts, k) => Nobody(contacts', k)
  BY <1>4 DEF Nobody
<1>6. TypeOK'
  BY <1>3, <1>4 DEF ContactsInv, TypeOK
<1>7. DuplicatesAreUnchecked'
  BY <1>4 DEF ContactsInv, DuplicatesAreUnchecked, LiveContacts
<1>8. ASSUME NEW h \in Handlers, ~req[h].unsure PROVE Knows(req[h], contacts', roster)
  <2>1. Knows(req[h], contacts, roster) /\ Facts(req[h]) /\ req[h] \in Request
    BY <1>8 DEF ContactsInv, TypeOK
  <2>2. \A S \in SUBSET Contacts : \A K : Stands(contacts, S, K) => Stands(contacts', S, K)
    BY <1>4 DEF Stands
  <2>3. req[h].ids \in SUBSET Contacts /\ req[h].ids \cup roster \in SUBSET Contacts
    BY <2>1 DEF ContactsInv, TypeOK, Request
  <2>4. \A x \in Contacts \cup {NoContact} : \A k : Answered(contacts, x, k) => Answered(contacts', x, k)
    BY <1>4, <1>5 DEF Answered
  <2>5. req[h].pc = "import_emails" =>
          \A k \in InFile(req[h].file) \cap Phones : Answered(contacts', req[h].found[k], k)
    BY <2>1, <2>4 DEF Knows, Request, Keys
  <2> QED
    BY <1>4, <1>5, <2>1, <2>2, <2>3, <2>5 DEF Knows, Facts, Updating
<1>9. Blank(contacts')
  BY <1>1, <1>2, <1>3, <1>4 DEF ContactsInv, Blank
<1> QED
  BY <1>3, <1>6, <1>7, <1>8, <1>9 DEF ContactsInv

----------------------------------------------------------------------------
(* Create and Update.                                                      *)

LEMMA CreateQuotaStep ==
    ASSUME ContactsInv, NEW h \in Handlers, NEW K \in Given, NEW b \in BOOLEAN,
           CreateQuota(h, K, b)
    PROVE  ContactsInv'
<1> DEFINE q == [Idle EXCEPT !.pc = "email", !.keys = K]
<1>1. Goto(h, q) /\ UNCHANGED <<contacts, roster>>
  BY DEF CreateQuota
<1>2. q \in Request /\ q.pc = "email" /\ q.rows = Idle.rows
  BY IdleFacts DEF Request, Steps, Given
<1> HIDE DEF q
<1>3. Facts(q) /\ Knows(q, contacts, roster)
  BY <1>2, IdleFacts DEF Facts, Knows, Updating
<1> QED
  BY <1>1, <1>2, <1>3, QuietStep DEF ContactsInv, TypeOK

\* Request q is r, at pc, after a check of the keys in S.
Follows(q, r, S, pc) ==
    /\ q.pc = pc /\ q.c = r.c /\ q.keys = r.keys
    /\ q.changed = r.changed \ S /\ q.rows = r.rows

\* A check of the keys in S lets a request go on to pc.
LEMMA PassedStep ==
    ASSUME ContactsInv, NEW h \in Handlers, NEW S, NEW ok \in BOOLEAN, NEW pc \in Steps,
           Passed(h, S, ok, pc), UNCHANGED <<contacts, roster>>,
           \A q \in Request : Follows(q, req[h], S, pc) =>
               Facts(q) /\ (~req[h].unsure /\ ok => Knows(q, contacts, roster))
    PROVE  ContactsInv'
<1>t. req[h] \in Request
  BY DEF ContactsInv, TypeOK
<1> DEFINE changed == req[h].changed \ S
           unsure == req[h].unsure \/ ~ok
           q == [req[h] EXCEPT !.pc = pc, !.changed = changed, !.unsure = unsure]
<1>1. Goto(h, q)
  BY DEF Passed
<1>2. changed \in KeySets /\ unsure \in BOOLEAN
  BY <1>t, KeySetsClosed DEF Request
<1>3. ~unsure => ~req[h].unsure /\ ok
  OBVIOUS
<1> HIDE DEF changed, unsure
<1>4. /\ q \in Request /\ q.pc = pc /\ q.c = req[h].c /\ q.keys = req[h].keys
      /\ q.changed = changed /\ q.rows = req[h].rows /\ q.unsure = unsure
  BY <1>t, <1>2 DEF Request
<1> HIDE DEF q
<1>5. Facts(q) /\ (~req[h].unsure /\ ok => Knows(q, contacts, roster))
  <2>1. Follows(q, req[h], S, pc)
    BY <1>4 DEF changed, Follows
  <2> QED
    BY <1>4, <2>1
<1>6. ~q.unsure => Knows(q, contacts, roster)
  BY <1>3, <1>4, <1>5
<1> QED
  BY <1>1, <1>4, <1>5, <1>6, QuietStep DEF ContactsInv, TypeOK

LEMMA CreateCheckStep ==
    ASSUME ContactsInv, NEW h \in Handlers, NEW ok \in BOOLEAN,
           CreateEmail(h, ok) \/ CreatePhone(h, ok)
    PROVE  ContactsInv'
<1>f. Facts(req[h]) /\ (~req[h].unsure => Knows(req[h], contacts, roster))
  BY DEF ContactsInv
<1>s. "phone" \in Steps /\ "insert" \in Steps
  BY DEF Steps
<1>n. ASSUME NEW K, Free(K) PROVE \A k \in K : Nobody(contacts, k)
  BY <1>n, NobodyHolds DEF Free
<1>1. CASE CreateEmail(h, ok) /\ ~End(h)
  <2>1. req[h].pc = "email"
        /\ (ok => Free(req[h].keys \cap Emails)) /\ Passed(h, Emails, ok, "phone")
        /\ UNCHANGED <<contacts, roster>>
    BY <1>1 DEF CreateEmail
  <2>2. \A q \in Request : Follows(q, req[h], Emails, "phone") =>
          Facts(q) /\ (~req[h].unsure /\ ok => Knows(q, contacts, roster))
    BY <1>f, <1>n, <2>1 DEF Follows, Facts, Knows, Updating
  <2> QED
    BY <1>s, <2>1, <2>2, PassedStep
<1>2. CASE CreatePhone(h, ok) /\ ~End(h)
  <2>1. req[h].pc = "phone"
        /\ (ok => Free(req[h].keys \cap Phones)) /\ Passed(h, Phones, ok, "insert")
        /\ UNCHANGED <<contacts, roster>>
    BY <1>2 DEF CreatePhone
  <2>2. \A q \in Request : Follows(q, req[h], Phones, "insert") =>
          Facts(q) /\ (~req[h].unsure /\ ok => Knows(q, contacts, roster))
    BY <1>f, <1>n, <2>1 DEF Follows, Facts, Knows, Updating
  <2> QED
    BY <1>s, <2>1, <2>2, PassedStep
<1>3. CASE End(h)
  BY <1>3, EndStep DEF CreateEmail, CreatePhone
<1> QED
  BY <1>1, <1>2, <1>3

LEMMA CreateInsertStep ==
    ASSUME ContactsInv, NEW h \in Handlers, NEW c \in Contacts, CreateInsert(h, c)
    PROVE  ContactsInv'
<1> DEFINE row == [state |-> "live", keys |-> req[h].keys, unsure |-> req[h].unsure]
<1>1. req[h].pc = "insert" /\ contacts[c].state = "none" /\ Wrote(h, Idle) /\ UNCHANGED roster
      /\ contacts' = [contacts EXCEPT ![c] = row]
  BY DEF CreateInsert
<1>2. req[h] \in Request /\ contacts \in [Contacts -> Contact]
      /\ (~req[h].unsure => Knows(req[h], contacts, roster))
  BY DEF ContactsInv, TypeOK
<1>3. row \in Contact /\ row.state = "live" /\ row.keys = req[h].keys /\ row.unsure = req[h].unsure
  BY <1>2 DEF Contact, Request
<1> HIDE DEF row
<1>4. contacts' \in [Contacts -> Contact]
      /\ contacts'[c] = row /\ \A d \in Contacts \ {c} : contacts'[d] = contacts[d]
  BY <1>1, <1>2, <1>3
<1>5. req[h].keys \subseteq Phones \cup Emails
  BY <1>2, KeySetsClosed DEF Request, Keys
<1>6. ~req[h].unsure => \A k \in row.keys : Nobody(contacts, k)
  BY <1>1, <1>2, <1>3, <1>5 DEF Knows
<1>7. DuplicatesAreUnchecked'
  BY <1>3, <1>4, <1>6 DEF ContactsInv, DuplicatesAreUnchecked, LiveContacts, Nobody
<1>8. Blank(contacts')
  BY <1>3, <1>4 DEF ContactsInv, Blank
<1> QED
  BY <1>1, <1>4, <1>7, <1>8, IdleFacts, WriteStep

LEMMA UpdateReadStep ==
    ASSUME ContactsInv, NEW h \in Handlers, NEW c \in Contacts, NEW K \in Given, UpdateRead(h, c, K)
    PROVE  ContactsInv'
<1> DEFINE changed == K \ contacts[c].keys
           q == [Idle EXCEPT !.pc = "update_email", !.c = c, !.keys = K, !.changed = changed]
<1>1. Goto(h, q) /\ UNCHANGED <<contacts, roster>>
  BY DEF UpdateRead
<1>2. K \in KeySets /\ changed \in KeySets
  BY KeySetsClosed DEF Given
<1>3. changed \cap contacts[c].keys = {} /\ \A k \in K \ changed : k \in contacts[c].keys
  OBVIOUS
<1> HIDE DEF changed
<1>4. /\ q \in Request /\ q.pc = "update_email" /\ q.c = c /\ q.keys = K /\ q.changed = changed
      /\ q.rows = Idle.rows
  BY <1>2, IdleFacts DEF Request, Steps
<1> HIDE DEF q
<1>5. Facts(q) /\ Knows(q, contacts, roster)
  BY <1>3, <1>4, IdleFacts DEF Facts, Knows, Updating
<1> QED
  BY <1>1, <1>4, <1>5, QuietStep DEF ContactsInv, TypeOK

LEMMA UpdateCheckStep ==
    ASSUME ContactsInv, NEW h \in Handlers, NEW ok \in BOOLEAN,
           UpdateEmail(h, ok) \/ UpdatePhone(h, ok)
    PROVE  ContactsInv'
<1>f. Facts(req[h]) /\ (~req[h].unsure => Knows(req[h], contacts, roster))
  BY DEF ContactsInv
<1>s. "update_phone" \in Steps /\ "update" \in Steps
  BY DEF Steps
<1>n. ASSUME NEW S, NoConflict(h, S), req[h].pc \in Updating, ~req[h].unsure
      PROVE  \A k \in req[h].changed \cap S : Nobody(contacts, k)
  <2>1. req[h].changed \cap contacts[req[h].c].keys = {}
    BY <1>f, <1>n DEF Knows
  <2> QED
    BY <1>n, <2>1, NobodyHolds DEF NoConflict, Holders
<1>1. CASE UpdateEmail(h, ok) /\ ~End(h)
  <2>1. req[h].pc = "update_email"
        /\ (ok => NoConflict(h, Emails)) /\ Passed(h, Emails, ok, "update_phone")
        /\ UNCHANGED <<contacts, roster>>
    BY <1>1 DEF UpdateEmail
  <2>2. \A q \in Request : Follows(q, req[h], Emails, "update_phone") =>
          Facts(q) /\ (~req[h].unsure /\ ok => Knows(q, contacts, roster))
    BY <1>f, <1>n, <2>1 DEF Follows, Facts, Knows, Updating
  <2> QED
    BY <1>s, <2>1, <2>2, PassedStep
<1>2. CASE UpdatePhone(h, ok) /\ ~End(h)
  <2>1. req[h].pc = "update_phone"
        /\ (ok => NoConflict(h, Phones)) /\ Passed(h, Phones, ok, "update")
        /\ UNCHANGED <<contacts, roster>>
    BY <1>2 DEF UpdatePhone
  <2>2. \A q \in Request : Follows(q, req[h], Phones, "update") =>
          Facts(q) /\ (~req[h].unsure /\ ok => Knows(q, contacts, roster))
    BY <1>f, <1>n, <2>1 DEF Follows, Facts, Knows, Updating
  <2> QED
    BY <1>s, <2>1, <2>2, PassedStep
<1>3. CASE End(h)
  BY <1>3, EndStep DEF UpdateEmail, UpdatePhone
<1> QED
  BY <1>1, <1>2, <1>3

LEMMA UpdateWriteStep ==
    ASSUME ContactsInv, NEW h \in Handlers, UpdateWrite(h)
    PROVE  ContactsInv'
<1>1. CASE UNCHANGED contacts /\ End(h)
  BY <1>1, EndStep DEF UpdateWrite
<1>2. ASSUME NEW c, c = req[h].c, contacts[c].state = "live",
             contacts' = [contacts EXCEPT ![c] =
                            [ state |-> "live", keys |-> req[h].keys,
                              unsure |-> contacts[c].unsure \/ req[h].unsure ]],
             Wrote(h, Idle)
      PROVE  ContactsInv'
  <2>1. req[h].pc = "update" /\ c \in Contacts /\ req[h] \in Request
        /\ contacts \in [Contacts -> Contact] /\ UNCHANGED roster
        /\ (~req[h].unsure => Knows(req[h], contacts, roster))
    BY <1>2 DEF UpdateWrite, ContactsInv, TypeOK, Facts, Updating
  <2> DEFINE unsure == contacts[c].unsure \/ req[h].unsure
             row == [state |-> "live", keys |-> req[h].keys, unsure |-> unsure]
  <2>2. contacts' = [contacts EXCEPT ![c] = row]
    BY <1>2, <2>1
  <2>3. contacts[c] \in Contact /\ unsure \in BOOLEAN
    BY <2>1 DEF Contact, Request
  <2>4. ~unsure => ~contacts[c].unsure /\ ~req[h].unsure
    OBVIOUS
  <2> HIDE DEF unsure
  <2>5. row \in Contact /\ row.state = "live" /\ row.keys = req[h].keys /\ row.unsure = unsure
    BY <2>1, <2>3 DEF Contact, Request
  <2> HIDE DEF row
  <2>6. contacts' \in [Contacts -> Contact]
        /\ contacts'[c] = row /\ \A d \in Contacts \ {c} : contacts'[d] = contacts[d]
    BY <2>1, <2>2, <2>5
  <2>7. ~req[h].unsure => \A k \in row.keys : k \in contacts[c].keys \/ Nobody(contacts, k)
    <3>1. req[h].changed \subseteq Phones \cup Emails
      BY <2>1, KeySetsClosed DEF Request, Keys
    <3> QED
      BY <1>2, <2>1, <2>5, <3>1 DEF Knows, Updating
  <2>8. DuplicatesAreUnchecked'
    BY <1>2, <2>1, <2>4, <2>5, <2>6, <2>7 DEF ContactsInv, DuplicatesAreUnchecked, LiveContacts, Nobody
  <2>9. Blank(contacts')
    BY <2>5, <2>6 DEF ContactsInv, Blank
  <2> QED
    BY <1>2, <2>1, <2>6, <2>8, <2>9, IdleFacts, WriteStep
<1> QED
  BY <1>1, <1>2 DEF UpdateWrite

----------------------------------------------------------------------------
(* Imports.                                                                *)

\* What CheckDuplicates answers, unless it breaks off.
LEMMA LookupAnswers ==
    ASSUME NEW r, NEW K \in SUBSET Keys, NEW f \in Lookup(r, K)
    PROVE  /\ f \in [Keys -> Contacts \cup {NoContact}]
           /\ \A k \in Keys \ K : f[k] = r.found[k]
           /\ ~Missed(f, K) => \A k \in K : Answered(contacts, f[k], k)
<1>1. f \in [Keys -> Contacts \cup {NoContact}] /\ \A k \in Keys \ K : f[k] = r.found[k]
  BY DEF Lookup
<1>2. \A k \in K : f[k] \in Holders(k) \cup {NoContact}
  BY DEF Lookup
<1>3. ASSUME ~Missed(f, K), NEW k \in K PROVE Answered(contacts, f[k], k)
  <2>1. CASE f[k] = NoContact
    BY <1>3, <2>1, NobodyHolds DEF Missed, Answered
  <2>2. CASE f[k] # NoContact
    BY <1>2, <2>2 DEF Holders, Answered
  <2> QED
    BY <2>1, <2>2
<1> QED
  BY <1>1, <1>3

LEMMA FileRows ==
    ASSUME NEW file \in Files \cup {<<>>}
    PROVE  /\ DOMAIN file \subseteq Nat /\ IsFiniteSet(DOMAIN file)
           /\ \A i \in DOMAIN file : file[i] \in Given /\ file[i] \subseteq Keys
           /\ InFile(file) \subseteq Keys
<1>1. CASE file = <<>>
  BY <1>1, FS_EmptySet DEF InFile
<1>2. CASE file \in Files
  <2>1. PICK n \in 1..MaxRows : file \in [1..n -> Rows]
    BY <1>2 DEF Files
  <2>2. DOMAIN file = 1..n /\ n \in Nat
    BY <2>1, ContactsAssumption
  <2>3. \A i \in DOMAIN file : file[i] \in Given /\ file[i] \subseteq Keys
    BY <2>1, <2>2, KeySetsClosed DEF Rows, Given
  <2>4. IsFiniteSet(1..n)
    BY <2>2, FS_Interval
  <2>5. InFile(file) \subseteq Keys
    BY <2>3 DEF InFile
  <2> QED
    BY <2>2, <2>3, <2>4, <2>5
<1> QED
  BY <1>1, <1>2

LEMMA ImportPhonesStep ==
    ASSUME ContactsInv, NEW h \in Handlers, NEW file \in Files, NEW event \in BOOLEAN,
           ImportPhones(h, file, event)
    PROVE  ContactsInv'
<1> DEFINE K == InFile(file) \cap Phones
<1>1. PICK f \in Lookup(Idle, K) :
        Goto(h, [Idle EXCEPT !.pc = "import_emails", !.file = file, !.event = event,
                             !.found = f, !.unsure = Missed(f, K)])
  BY DEF ImportPhones
<1> DEFINE missed == Missed(f, K)
           q == [Idle EXCEPT !.pc = "import_emails", !.file = file, !.event = event,
                             !.found = f, !.unsure = missed]
<1>2. Goto(h, q) /\ UNCHANGED <<contacts, roster>>
  BY <1>1 DEF ImportPhones
<1>3. K \in SUBSET Keys
  BY FileRows
<1>4. f \in [Keys -> Contacts \cup {NoContact}]
      /\ (~missed => \A k \in K : Answered(contacts, f[k], k))
  BY <1>3, LookupAnswers
<1>5. missed \in BOOLEAN
  BY DEF Missed
<1> HIDE DEF missed
<1>6. /\ q \in Request /\ q.pc = "import_emails" /\ q.file = file /\ q.found = f
      /\ q.rows = Idle.rows /\ q.unsure = missed
  BY <1>4, <1>5, IdleFacts DEF Request, Steps
<1> HIDE DEF q
<1>7. Facts(q) /\ (~q.unsure => Knows(q, contacts, roster))
  BY <1>4, <1>6, IdleFacts DEF Facts, Knows, Updating
<1> QED
  BY <1>2, <1>6, <1>7, QuietStep DEF ContactsInv, TypeOK

\* What importCSV makes of a file when CheckDuplicates answered for every key.
LEMMA FinalRows ==
    ASSUME NEW r, r.file \in Files \cup {<<>>}, r.found \in [Keys -> Contacts \cup {NoContact}]
    PROVE  /\ IsFiniteSet({r.file[i] : i \in Final(r)})
           /\ {r.file[i] : i \in Final(r)} \in SUBSET Rows
           /\ {r.file[i] : i \in Final(r) \cup Standing(r)} \in SUBSET Rows
           /\ Reused(r) \in SUBSET Contacts
           /\ \A i, j \in Final(r) : r.file[i] # r.file[j] => r.file[i] \cap r.file[j] = {}
           /\ (\A k \in InFile(r.file) : Answered(contacts, r.found[k], k)) =>
                /\ \A i \in Final(r) : \A k \in r.file[i] : Nobody(contacts, k)
                /\ \A i \in Standing(r) : Stands(contacts, Reused(r), r.file[i])
<1>1. /\ DOMAIN r.file \subseteq Nat /\ IsFiniteSet(DOMAIN r.file)
      /\ \A i \in DOMAIN r.file : r.file[i] \in Rows /\ r.file[i] \subseteq Keys
  BY FileRows DEF Rows
<1>2. Final(r) \subseteq Unique(r) /\ Unique(r) \subseteq DOMAIN r.file
      /\ Standing(r) \subseteq DOMAIN r.file
  BY DEF Final, Unique, Standing
<1>3. IsFiniteSet({r.file[i] : i \in Final(r)})
  <2>1. IsFiniteSet(Final(r))
    BY <1>1, <1>2, FS_Subset
  <2> DEFINE T == {r.file[i] : i \in Final(r)}
             f == [i \in Final(r) |-> r.file[i]]
  <2>2. f \in Surjection(Final(r), T)
    BY DEF Surjection
  <2> HIDE DEF T, f
  <2>3. IsFiniteSet(T)
    BY <2>1, <2>2, FS_Surjection
  <2> QED
    BY <2>3 DEF T
<1>4. \A i \in DOMAIN r.file : Known(r, i) \subseteq Contacts
  BY <1>1 DEF Known
<1>5. Reused(r) \in SUBSET Contacts
  BY <1>2, <1>4 DEF Reused
<1>6. ASSUME NEW i \in Final(r), NEW j \in Final(r), r.file[i] # r.file[j]
      PROVE  r.file[i] \cap r.file[j] = {}
  <2>1. i < j \/ j < i
    BY <1>1, <1>2, <1>6
  <2> QED
    BY <1>2, <2>1 DEF Final
<1>7. ASSUME \A k \in InFile(r.file) : Answered(contacts, r.found[k], k)
      PROVE  /\ \A i \in Final(r) : \A k \in r.file[i] : Nobody(contacts, k)
             /\ \A i \in Standing(r) : Stands(contacts, Reused(r), r.file[i])
  <2>1. ASSUME NEW i \in Final(r), NEW k \in r.file[i] PROVE Nobody(contacts, k)
    <3>1. k \in InFile(r.file) /\ r.found[k] = NoContact
      BY <1>2, <2>1 DEF InFile, Unique, Known
    <3> QED
      BY <1>7, <3>1 DEF Answered
  <2>2. ASSUME NEW i \in Standing(r) PROVE Stands(contacts, Reused(r), r.file[i])
    <3>1. Known(r, i) # {}
      <4>1. Cardinality(Known(r, i)) = 1
        BY DEF Standing
      <4> QED
        BY <4>1, OneIsSome
    <3>2. PICK k \in r.file[i] : r.found[k] \in Known(r, i) /\ r.found[k] # NoContact
      BY <3>1 DEF Known
    <3>3. k \in InFile(r.file)
      BY <1>2 DEF InFile
    <3>4. k \in contacts[r.found[k]].keys
      BY <1>7, <3>2, <3>3 DEF Answered
    <3>5. r.found[k] \in Reused(r)
      BY <3>2 DEF Reused
    <3> QED
      BY <3>4, <3>5 DEF Stands
  <2> QED
    BY <2>1, <2>2
<1> QED
  BY <1>1, <1>2, <1>3, <1>5, <1>6, <1>7

LEMMA ImportEmailsStep ==
    ASSUME ContactsInv, NEW h \in Handlers, ImportEmails(h)
    PROVE  ContactsInv'
<1>t. req[h] \in Request /\ req[h].pc = "import_emails" /\ UNCHANGED <<contacts, roster>>
      /\ (~req[h].unsure => Knows(req[h], contacts, roster))
  BY DEF ContactsInv, TypeOK, ImportEmails
<1> DEFINE K == InFile(req[h].file) \cap Emails
           R(f) == [req[h] EXCEPT !.found = f]
           RowsOf(f, I) == {R(f).file[i] : i \in I}
<1>1. PICK f \in Lookup(req[h], K) :
        Goto(h, [Idle EXCEPT
          !.pc = "import_insert", !.event = R(f).event,
          !.rows = RowsOf(f, Final(R(f))), !.ids = Reused(R(f)),
          !.due = IF R(f).event THEN RowsOf(f, Final(R(f)) \cup Standing(R(f))) ELSE {},
          !.unsure = R(f).unsure \/ Missed(f, K)])
  BY DEF ImportEmails
<1> DEFINE r == [req[h] EXCEPT !.found = f]
           event == r.event
           rows == {r.file[i] : i \in Final(r)}
           ids == Reused(r)
           due == IF event THEN {r.file[i] : i \in Final(r) \cup Standing(r)} ELSE {}
           unsure == r.unsure \/ Missed(f, K)
           q == [Idle EXCEPT !.pc = "import_insert", !.event = event, !.rows = rows,
                             !.ids = ids, !.due = due, !.unsure = unsure]
<1>2. Goto(h, q)
  BY <1>1
<1>3. K \in SUBSET Keys /\ InFile(req[h].file) \subseteq Keys
  <2>1. req[h].file \in Files \cup {<<>>}
    BY <1>t DEF Request
  <2> QED
    BY <2>1, FileRows
<1>4. /\ f \in [Keys -> Contacts \cup {NoContact}]
      /\ \A k \in Keys \ K : f[k] = req[h].found[k]
      /\ ~Missed(f, K) => \A k \in K : Answered(contacts, f[k], k)
  BY <1>3, LookupAnswers
<1>5. /\ r.found = f /\ r.file = req[h].file /\ r.file \in Files \cup {<<>>}
      /\ event \in BOOLEAN /\ r.unsure = req[h].unsure
  BY <1>t, <1>4 DEF Request
<1>6. unsure \in BOOLEAN /\ (~unsure => ~req[h].unsure /\ ~Missed(f, K))
  BY <1>t, <1>5 DEF Missed, Request
<1>7. ~unsure => \A k \in InFile(r.file) : Answered(contacts, r.found[k], k)
  <2> SUFFICES ASSUME ~unsure, NEW k \in InFile(req[h].file)
               PROVE  Answered(contacts, f[k], k)
    BY <1>5
  <2>1. CASE k \in K
    BY <1>4, <1>6, <2>1
  <2>2. CASE k \notin K
    <3>1. k \in Keys \ K /\ k \in Phones
      BY <1>3, <2>2 DEF Keys
    <3>2. Answered(contacts, req[h].found[k], k)
      BY <1>t, <1>6, <3>1 DEF Knows
    <3> QED
      BY <1>4, <3>1, <3>2
  <2> QED
    BY <2>1, <2>2
<1> HIDE DEF r
<1>8. /\ IsFiniteSet(rows) /\ rows \in SUBSET Rows /\ due \in SUBSET Rows /\ ids \in SUBSET Contacts
      /\ \A X, Y \in rows : X # Y => X \cap Y = {}
  <2>1. r.found \in [Keys -> Contacts \cup {NoContact}]
    BY <1>4, <1>5
  <2>2. /\ IsFiniteSet(rows) /\ rows \in SUBSET Rows /\ ids \in SUBSET Contacts
        /\ {r.file[i] : i \in Final(r) \cup Standing(r)} \in SUBSET Rows
        /\ \A i, j \in Final(r) : r.file[i] # r.file[j] => r.file[i] \cap r.file[j] = {}
    BY <1>5, <2>1, FinalRows
  <2>3. due \in SUBSET Rows
    BY <2>2
  <2>4. \A X, Y \in rows : X # Y => X \cap Y = {}
    BY <2>2
  <2> QED
    BY <2>2, <2>3, <2>4
<1>9. ~unsure => /\ \A X \in rows : \A k \in X : Nobody(contacts, k)
                 /\ \A X \in due : X \in rows \/ Stands(contacts, ids, X)
  <2> SUFFICES ASSUME ~unsure
               PROVE  /\ \A X \in rows : \A k \in X : Nobody(contacts, k)
                      /\ \A X \in due : X \in rows \/ Stands(contacts, ids, X)
    OBVIOUS
  <2>1. /\ \A i \in Final(r) : \A k \in r.file[i] : Nobody(contacts, k)
        /\ \A i \in Standing(r) : Stands(contacts, Reused(r), r.file[i])
    BY <1>4, <1>5, <1>7, FinalRows
  <2> QED
    BY <2>1
<1> HIDE DEF event, rows, ids, due, unsure
<1>10. /\ q \in Request /\ q.pc = "import_insert" /\ q.rows = rows /\ q.ids = ids
       /\ q.due = due /\ q.unsure = unsure
  BY <1>5, <1>6, <1>8, IdleFacts DEF Request, Steps
<1> HIDE DEF q
<1>11. Facts(q) /\ (~q.unsure => Knows(q, contacts, roster))
  BY <1>8, <1>9, <1>10 DEF Facts, Knows, Updating
<1> QED
  BY <1>t, <1>2, <1>10, <1>11, QuietStep DEF ContactsInv, TypeOK

\* BulkCreate: a new contact for each row.
LEMMA ImportInsertStep ==
    ASSUME ContactsInv, NEW h \in Handlers, NEW new \in [req[h].rows -> Contacts],
           ImportInsert(h, new)
    PROVE  ContactsInv'
<1> DEFINE rows == req[h].rows
           C == {new[K] : K \in rows}
           row(c) == [state |-> "live", keys |-> CHOOSE K \in rows : new[K] = c,
                      unsure |-> req[h].unsure]
<1>t. req[h] \in Request /\ contacts \in [Contacts -> Contact] /\ Facts(req[h])
      /\ (~req[h].unsure => Knows(req[h], contacts, roster))
  BY DEF ContactsInv, TypeOK
<1>1. /\ req[h].pc = "import_insert" /\ Cardinality(C) = Cardinality(rows)
      /\ \A c \in C : contacts[c].state = "none"
      /\ contacts' = [c \in Contacts |-> IF c \in C THEN row(c) ELSE contacts[c]]
      /\ UNCHANGED roster
  BY DEF ImportInsert
<1>2. rows \in SUBSET Given /\ IsFiniteSet(rows) /\ C \in SUBSET Contacts
  BY <1>t DEF Request, Rows, Facts
\* No contact stands for two rows.
<1>3. \A K, L \in rows : new[K] = new[L] => K = L
  <2>1. new \in Surjection(rows, C)
    BY DEF Surjection
  <2> HIDE DEF rows, C
  <2>2. new \in Injection(rows, C)
    BY <1>1, <1>2, <2>1, FS_SurjSameCardinalityImpliesInj
  <2> QED
    BY <2>2 DEF Injection, IsInjective
<1>4. \A K \in rows : (CHOOSE L \in rows : new[L] = new[K]) = K
  BY <1>3
<1>5. \A K \in rows : /\ row(new[K]) \in Contact /\ row(new[K]).state = "live"
                        /\ row(new[K]).keys = K /\ row(new[K]).unsure = req[h].unsure
  <2> SUFFICES ASSUME NEW K \in rows
               PROVE  /\ row(new[K]) \in Contact /\ row(new[K]).state = "live"
                      /\ row(new[K]).keys = K /\ row(new[K]).unsure = req[h].unsure
    OBVIOUS
  <2>1. row(new[K]) = [state |-> "live", keys |-> K, unsure |-> req[h].unsure]
    BY <1>4
  <2>2. K \in KeySets /\ req[h].unsure \in BOOLEAN
    BY <1>t, <1>2 DEF Request, Given
  <2> HIDE DEF row, rows
  <2> QED
    BY <2>1, <2>2 DEF Contact
<1> HIDE DEF row
<1>6. /\ \A K \in rows : /\ contacts'[new[K]] \in Contact /\ contacts'[new[K]].state = "live"
                          /\ contacts'[new[K]].keys = K
                          /\ contacts'[new[K]].unsure = req[h].unsure
      /\ \A c \in Contacts \ C : contacts'[c] = contacts[c]
  BY <1>1, <1>2, <1>5
<1>7. \A c \in C : \E K \in rows : c = new[K]
  OBVIOUS
<1>8. contacts' \in [Contacts -> Contact]
  <2>1. \A c \in Contacts : contacts'[c] \in Contact
    BY <1>t, <1>6, <1>7
  <2> HIDE DEF C
  <2> QED
    BY <1>1, <2>1
<1>9. Blank(contacts')
  BY <1>6, <1>7 DEF Blank, ContactsInv
<1>k. ~req[h].unsure => /\ \A K \in rows : \A k \in K : Nobody(contacts, k)
                        /\ \A K, L \in rows : K # L => K \cap L = {}
                        /\ \A K \in req[h].due : K \in rows \/ Stands(contacts, req[h].ids, K)
  BY <1>t, <1>1 DEF Knows
<1>10. DuplicatesAreUnchecked'
  <2> SUFFICES ASSUME NEW c \in Contacts, NEW d \in Contacts, c # d,
                      contacts'[c].state = "live", contacts'[d].state = "live",
                      contacts'[c].keys \cap contacts'[d].keys # {}
               PROVE  contacts'[c].unsure \/ contacts'[d].unsure
    BY DEF DuplicatesAreUnchecked, LiveContacts
  <2>1. CASE c \notin C /\ d \notin C
    BY <1>6, <2>1 DEF ContactsInv, DuplicatesAreUnchecked, LiveContacts
  <2>2. CASE c \in C /\ d \in C
    BY <1>6, <1>7, <1>k, <2>2
  <2>3. CASE c \in C /\ d \notin C
    BY <1>6, <1>7, <1>k, <2>3 DEF Nobody
  <2>4. CASE c \notin C /\ d \in C
    BY <1>6, <1>7, <1>k, <2>4 DEF Nobody
  <2> QED
    BY <2>1, <2>2, <2>3, <2>4
<1> DEFINE ids == req[h].ids \cup C
           none == {}
           q == [req[h] EXCEPT !.pc = "roster", !.rows = none, !.ids = ids]
           next == IF req[h].event THEN q ELSE Idle
<1>11. IF C = {} THEN Goto(h, next) ELSE Wrote(h, next)
  BY DEF ImportInsert
<1>12. ids \in SUBSET Contacts /\ none \in SUBSET Rows /\ IsFiniteSet(none)
  BY <1>t, <1>2, FS_EmptySet DEF Request
<1>13. ~req[h].unsure => \A K \in req[h].due : Stands(contacts', ids \cup roster, K)
  <2> SUFFICES ASSUME ~req[h].unsure, NEW K \in req[h].due
               PROVE  Stands(contacts', ids \cup roster, K)
    OBVIOUS
  <2>1. CASE K \in rows
    <3>1. new[K] \in ids \cup roster /\ contacts'[new[K]].keys = K /\ K # {}
      BY <1>2, <1>6, <2>1 DEF Given
    <3> QED
      BY <3>1 DEF Stands
  <2>2. CASE Stands(contacts, req[h].ids, K)
    <3>1. PICK c \in req[h].ids : contacts[c].keys \cap K # {}
      BY <2>2 DEF Stands
    <3>2. c \in Contacts
      BY <1>t DEF Request
    <3>3. contacts[c].state # "none"
      BY <3>1, <3>2 DEF ContactsInv, Blank
    <3>4. contacts'[c] = contacts[c]
      BY <1>1, <1>6, <3>2, <3>3
    <3> QED
      BY <3>1, <3>4 DEF Stands
  <2> QED
    BY <1>k, <2>1, <2>2
<1> HIDE DEF ids, none
<1>14. /\ q \in Request /\ q.pc = "roster" /\ q.rows = none /\ q.ids = ids
       /\ q.due = req[h].due /\ q.unsure = req[h].unsure
  BY <1>t, <1>12 DEF Request, Steps
<1> HIDE DEF q
<1>15. Facts(q) /\ (~q.unsure => Knows(q, contacts', roster))
  BY <1>12, <1>13, <1>14 DEF Facts, Knows, Updating
<1>16. next \in Request /\ Facts(next) /\ (~next.unsure => Knows(next, contacts', roster))
  BY <1>14, <1>15, IdleFacts
<1> HIDE DEF next, rows
<1>17. CASE C = {}
  <2>1. contacts' = contacts
    BY <1>t, <1>1, <1>17
  <2> QED
    BY <1>1, <1>11, <1>16, <1>17, <2>1, QuietStep DEF ContactsInv, TypeOK
<1>18. CASE C # {}
  BY <1>1, <1>8, <1>9, <1>10, <1>11, <1>16, <1>18, WriteStep
<1> QED
  BY <1>17, <1>18

----------------------------------------------------------------------------
(* The roster.                                                             *)

LEMMA RosterAddStep ==
    ASSUME ContactsInv, NEW h \in Handlers, NEW c \in Contacts, RosterAdd(h, c)
    PROVE  ContactsInv'
<1> DEFINE ids == {c}
           q == [Idle EXCEPT !.pc = "roster_insert", !.c = c, !.ids = ids]
<1>1. Goto(h, q) /\ UNCHANGED <<contacts, roster>>
  BY DEF RosterAdd
<1>2. ids \in SUBSET Contacts /\ Idle.due = {}
  BY DEF Idle
<1> HIDE DEF ids
<1>3. q \in Request /\ q.pc = "roster_insert" /\ q.c = c /\ q.rows = Idle.rows /\ q.due = Idle.due
  BY <1>2, IdleFacts DEF Request, Steps
<1> HIDE DEF q
<1>4. Facts(q) /\ Knows(q, contacts, roster)
  BY <1>2, <1>3, IdleFacts DEF Facts, Knows, Updating
<1> QED
  BY <1>1, <1>3, <1>4, QuietStep DEF ContactsInv, TypeOK

\* A walk-in is a new contact whom nobody has looked up.
LEMMA WalkinInsertStep ==
    ASSUME ContactsInv, NEW h \in Handlers, NEW c \in Contacts, NEW K \in Given,
           WalkinInsert(h, c, K)
    PROVE  ContactsInv'
<1> DEFINE ids == {c}
           q == [Idle EXCEPT !.pc = "roster_insert", !.c = c, !.ids = ids]
           row == [state |-> "live", keys |-> K, unsure |-> TRUE]
<1>1. /\ contacts[c].state = "none" /\ Wrote(h, q) /\ UNCHANGED roster
      /\ contacts' = [contacts EXCEPT ![c] = row]
  BY DEF WalkinInsert
<1>2. ids \in SUBSET Contacts /\ Idle.due = {}
  BY DEF Idle
<1> HIDE DEF ids
<1>3. /\ q \in Request /\ q.pc = "roster_insert" /\ q.c = c /\ q.rows = Idle.rows
      /\ q.due = Idle.due
  BY <1>2, IdleFacts DEF Request, Steps
<1> HIDE DEF q
<1>4. Facts(q) /\ Knows(q, contacts', roster)
  BY <1>2, <1>3, IdleFacts DEF Facts, Knows, Updating
<1>5. row \in Contact /\ row.state = "live" /\ row.unsure = TRUE
  BY DEF Contact, Given
<1> HIDE DEF row
<1>6. /\ contacts' \in [Contacts -> Contact]
      /\ contacts'[c] = row /\ \A d \in Contacts \ {c} : contacts'[d] = contacts[d]
  BY <1>1, <1>5 DEF ContactsInv, TypeOK
<1>7. DuplicatesAreUnchecked'
  BY <1>5, <1>6 DEF ContactsInv, DuplicatesAreUnchecked, LiveContacts
<1>8. Blank(contacts')
  BY <1>5, <1>6 DEF ContactsInv, Blank
<1> QED
  BY <1>1, <1>3, <1>4, <1>6, <1>7, <1>8, WriteStep

LEMMA RosterCheckStep ==
    ASSUME ContactsInv, NEW h \in Handlers, NEW c \in Contacts, RosterCheck(h, c)
    PROVE  ContactsInv'
<1>t. req[h] \in Request /\ req[h].pc = "roster" /\ Facts(req[h])
      /\ (~req[h].unsure => Knows(req[h], contacts, roster)) /\ UNCHANGED <<contacts, roster>>
  BY DEF ContactsInv, TypeOK, RosterCheck
<1>1. CASE c \in roster
  <2> DEFINE ids == req[h].ids \ {c}
             q == [req[h] EXCEPT !.ids = ids]
  <2>1. Goto(h, q)
    BY <1>1 DEF RosterCheck
  <2>2. ids \in SUBSET Contacts /\ req[h].ids \cup roster = ids \cup roster
    BY <1>t, <1>1 DEF Request
  <2> HIDE DEF ids
  <2>3. /\ q \in Request /\ q.pc = req[h].pc /\ q.c = req[h].c /\ q.rows = req[h].rows
        /\ q.ids = ids /\ q.due = req[h].due /\ q.unsure = req[h].unsure
    BY <1>t, <2>2 DEF Request
  <2> HIDE DEF q
  <2>4. Facts(q) /\ (~q.unsure => Knows(q, contacts, roster))
    BY <1>t, <2>2, <2>3 DEF Facts, Knows, Updating
  <2> QED
    BY <1>t, <2>1, <2>3, <2>4, QuietStep DEF ContactsInv, TypeOK
<1>2. CASE c \notin roster
  <2> DEFINE q == [req[h] EXCEPT !.pc = "roster_insert", !.c = c]
  <2>1. Goto(h, q)
    BY <1>2 DEF RosterCheck
  <2>2. /\ q \in Request /\ q.pc = "roster_insert" /\ q.c = c /\ q.rows = req[h].rows
        /\ q.ids = req[h].ids /\ q.due = req[h].due /\ q.unsure = req[h].unsure
    BY <1>t DEF Request, Steps
  <2> HIDE DEF q
  <2>3. Facts(q) /\ (~q.unsure => Knows(q, contacts, roster))
    BY <1>t, <2>2 DEF Facts, Knows, Updating
  <2> QED
    BY <1>t, <2>1, <2>2, <2>3, QuietStep DEF ContactsInv, TypeOK
<1> QED
  BY <1>1, <1>2

LEMMA RosterInsertStep ==
    ASSUME ContactsInv, NEW h \in Handlers, RosterInsert(h)
    PROVE  ContactsInv'
<1>t. req[h] \in Request /\ req[h].pc = "roster_insert" /\ Facts(req[h])
      /\ (~req[h].unsure => Knows(req[h], contacts, roster)) /\ UNCHANGED contacts
  BY DEF ContactsInv, TypeOK, RosterInsert
<1>1. CASE req[h].c \in roster
  BY <1>1, EndStep DEF RosterInsert
<1>2. CASE req[h].c \notin roster
  <2> DEFINE ids == req[h].ids \ {req[h].c}
             q == [req[h] EXCEPT !.pc = "roster", !.c = NoContact, !.ids = ids]
  <2>1. Goto(h, q) /\ roster' = roster \cup {req[h].c}
    BY <1>2 DEF RosterInsert
  <2>2. ids \in SUBSET Contacts /\ req[h].ids \cup roster \subseteq ids \cup roster'
        /\ roster \subseteq roster' /\ roster' \subseteq Contacts
    BY <1>t, <2>1 DEF Request, Facts, ContactsInv, TypeOK
  <2> HIDE DEF ids
  <2>3. /\ q \in Request /\ q.pc = "roster" /\ q.rows = req[h].rows
        /\ q.ids = ids /\ q.due = req[h].due /\ q.unsure = req[h].unsure
    BY <1>t, <2>2 DEF Request, Steps
  <2> HIDE DEF q
  <2>4. Facts(q)
    BY <1>t, <2>3 DEF Facts, Updating
  <2>5. ~q.unsure => Knows(q, contacts, roster')
    BY <1>t, <2>2, <2>3 DEF Knows, Updating, Stands
  <2> QED
    BY <1>t, <2>1, <2>2, <2>3, <2>4, <2>5, QuietStep
<1> QED
  BY <1>1, <1>2

----------------------------------------------------------------------------
(* Theorems.                                                               *)

LEMMA ContactsInit == Init => ContactsInv
<1> SUFFICES ASSUME Init PROVE ContactsInv
  OBVIOUS
<1>1. NoRow \in Contact /\ NoRow.keys = {} /\ NoRow.state = "none"
  BY KeySetsClosed DEF NoRow, Contact
<1>2. \A h \in Handlers : req[h] = Idle
  BY DEF Init
<1>3. \A c \in Contacts : contacts[c] = NoRow
  BY DEF Init
<1>4. TypeOK
  BY <1>1, IdleFacts DEF Init, TypeOK
<1> QED
  BY <1>1, <1>2, <1>3, <1>4, IdleFacts DEF ContactsInv, Blank, DuplicatesAreUnchecked, LiveContacts

LEMMA ContactsStep == ContactsInv /\ [Next]_vars => ContactsInv'
<1> SUFFICES ASSUME ContactsInv, [Next]_vars PROVE ContactsInv'
  OBVIOUS
<1>1. CASE UNCHANGED vars
  BY <1>1 DEF vars, ContactsInv, TypeOK, DuplicatesAreUnchecked, LiveContacts
<1>2. ASSUME NEW h \in Handlers, CreateStep(h) PROVE ContactsInv'
  BY <1>2, CreateQuotaStep, CreateCheckStep, CreateInsertStep DEF CreateStep
<1>3. ASSUME NEW h \in Handlers, UpdateStep(h) PROVE ContactsInv'
  BY <1>3, UpdateReadStep, UpdateCheckStep, UpdateWriteStep DEF UpdateStep
<1>4. ASSUME NEW h \in Handlers, ImportStep(h) PROVE ContactsInv'
  BY <1>4, ImportPhonesStep, ImportEmailsStep, ImportInsertStep DEF ImportStep
<1>5. ASSUME NEW h \in Handlers, RosterStep(h) PROVE ContactsInv'
  BY <1>5, RosterAddStep, WalkinInsertStep, RosterCheckStep, RosterInsertStep, EndStep
  DEF RosterStep, RosterEnd
<1>6. ASSUME NEW h \in Handlers, Abort(h) PROVE ContactsInv'
  BY <1>6, EndStep DEF Abort
<1>7. CASE DeleteStep
  BY <1>7, SoftDeleteStep DEF DeleteStep
<1> QED
  BY <1>1, <1>2, <1>3, <1>4, <1>5, <1>6, <1>7 DEF Next

\* Every request keeps the rows and the other requests well formed.
THEOREM ContactsTypes == Spec => []TypeOK
<1>1. ContactsInv => TypeOK
  BY DEF ContactsInv
<1> QED
  BY <1>1, ContactsInit, ContactsStep, PTL DEF Spec

\* Whatever Create, Update, Delete, imports and walk-ins run side by side, two
\* contacts share a phone number or an address only if one of them is a walk-in,
\* or a request was overtaken after its checks, or a check failed.
THEOREM DuplicatesGoUnchecked == Spec => []DuplicatesAreUnchecked
<1>1. ContactsInv => DuplicatesAreUnchecked
  BY DEF ContactsInv
<1> QED
  BY <1>1, ContactsInit, ContactsStep, PTL DEF Spec

\* An import for the event that gets to its end, and was neither overtaken nor
\* told less than there was, has a guest on the roster for every row accepted.
THEOREM ImportsFillRoster == Spec => []ImportFillsRoster
<1>1. ContactsInv => ImportFillsRoster
  <2> SUFFICES ASSUME ContactsInv, NEW h \in Handlers, req[h].pc = "roster", req[h].ids = {},
                      ~req[h].unsure, NEW K \in req[h].due
               PROVE  \E c \in roster : contacts[c].keys \cap K # {}
    BY DEF ImportFillsRoster
  <2>1. Knows(req[h], contacts, roster)
    BY DEF ContactsInv
  <2> QED
    BY <2>1 DEF Knows, Stands
<1> QED
  BY <1>1, ContactsInit, ContactsStep, PTL DEF Spec
=============================================================================

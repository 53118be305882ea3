------------------------------- MODULE Contacts -------------------------------
(***************************************************************************)
(* A tenant's contacts and the roster of one event: create, update and     *)
(* delete contacts, put one on the roster, let in a walk-in, import a CSV  *)
(* file of contacts, or of guests of the event.  No index keeps phone      *)
(* numbers or addresses apart: each request looks for duplicates first and *)
(* writes later, and the walk-in does not look.                            *)
(*                                                                         *)
(* A contact has at most one phone number and one email address; both are  *)
(* keys, compared as they are stored.                                      *)
(***************************************************************************)
EXTENDS Integers, FiniteSets, Sequences

CONSTANTS
    Contacts,  \* identities of contacts
    Phones,    \* phone numbers, as stored
    Emails,    \* email addresses, as stored
    Handlers,  \* concurrent request handlers
    MaxGuests, \* the plan's quota
    MaxRows,   \* bound: rows of an imported file
    MaxImports, \* bound: imports under way at the same time
    NoContact  \* "no contact"

ASSUME ContactsAssumption ==
    /\ NoContact \notin Contacts
    /\ Phones \cap Emails = {}
    /\ MaxGuests \in Nat
    /\ MaxRows \in Nat
    /\ MaxImports \in Nat

VARIABLES
    contacts, \* contacts[c]: the guests row c
    roster,   \* the contacts that have an event_guests row, of any status
    req       \* req[h]: the request that handler h is serving

vars == <<contacts, roster, req>>

----------------------------------------------------------------------------
(* Rows and requests.                                                      *)

Keys == Phones \cup Emails
KeySets == {K \in SUBSET Keys : \A S \in {Phones, Emails} : \A k, l \in K \cap S : k = l}
\* NewGuest stores the fields that are not blank.  A request that gives no key
\* at all meets no duplicate and is left out.
Given == KeySets \ {{}}

\* unsure (history): the row was written on checks that another request may
\* have made void by a write of its own, that failed, or that were never made.
Contact == [state : {"none", "live", "deleted"}, keys : KeySets, unsure : BOOLEAN]
NoRow == [state |-> "none", keys |-> {}, unsure |-> FALSE]

Steps == {"idle", "email", "phone", "insert", "update_email", "update_phone",
          "update", "import_emails", "import_insert", "roster", "roster_insert"}

\* validateRow: the rows that pass; the others are reported and left out.
Rows == Given
Files == UNION {[1..n -> Rows] : n \in 1..MaxRows}

\* c is the contact being updated or put on the roster, keys what is to be
\* written and changed those of them that the row did not have when it was
\* read and that are still to be looked up.  Of an import, found is the contact
\* that CheckDuplicates found under each key, rows what is to be created, ids
\* the guests of the event still to be handled and due (history) the rows that
\* were accepted for the event.
Request ==
    [ pc    : Steps,
      c     : Contacts \cup {NoContact},
      keys  : KeySets,
      changed : KeySets,
      file  : Files \cup {<<>>},
      event : BOOLEAN,
      found : [Keys -> Contacts \cup {NoContact}],
      rows  : SUBSET Rows,
      ids   : SUBSET Contacts,
      due   : SUBSET Rows,
      unsure : BOOLEAN ]

Idle ==
    [ pc |-> "idle", c |-> NoContact, keys |-> {}, changed |-> {}, file |-> <<>>,
      event |-> FALSE, found |-> [k \in Keys |-> NoContact], rows |-> {},
      ids |-> {}, due |-> {}, unsure |-> FALSE ]

LiveContacts == {c \in Contacts : contacts[c].state = "live"}
Holders(k) == {c \in LiveContacts : k \in contacts[c].keys}

Goto(h, r) == req' = [req EXCEPT ![h] = r]
End(h) == Goto(h, Idle)

\* What a write of contacts does to the request and to those beside it.
Wrote(h, r) ==
    req' = [i \in Handlers |-> IF i = h THEN r
              ELSE IF req[i].pc = "idle" THEN req[i] ELSE [req[i] EXCEPT !.unsure = TRUE]]

----------------------------------------------------------------------------
(* GuestService.Create.                                                    *)

\* The quota, unless it cannot be counted.
CreateQuota(h, K, counted) ==
    /\ req[h].pc = "idle"
    /\ counted => Cardinality(LiveContacts) < MaxGuests
    /\ Goto(h, [Idle EXCEPT !.pc = "email", !.keys = K])
    /\ UNCHANGED <<contacts, roster>>

\* FindByPhoneOrEmail: no live contact has one of these keys.
Free(K) == \A k \in K : Holders(k) = {}

\* A check of the keys in S lets the request go on to pc, also when it fails
\* (~ok).
Passed(h, S, ok, pc) ==
    Goto(h, [req[h] EXCEPT !.pc = pc, !.changed = @ \ S, !.unsure = @ \/ ~ok])

CreateEmail(h, ok) ==
    /\ req[h].pc = "email"
    /\ IF ok /\ ~Free(req[h].keys \cap Emails) THEN End(h) ELSE Passed(h, Emails, ok, "phone")
    /\ UNCHANGED <<contacts, roster>>

\* Mutant: a contact that has an email address is not looked for by phone.
CreateOneCheck(h, ok) ==
    /\ req[h].pc = "phone"
    /\ IF ok /\ req[h].keys \cap Emails = {} /\ ~Free(req[h].keys \cap Phones)
       THEN End(h) ELSE Passed(h, Phones, ok, "insert")
    /\ UNCHANGED <<contacts, roster>>

CreatePhone(h, ok) ==
    /\ req[h].pc = "phone"
    /\ IF ok /\ ~Free(req[h].keys \cap Phones) THEN End(h) ELSE Passed(h, Phones, ok, "insert")
    /\ UNCHANGED <<contacts, roster>>

CreateInsert(h, c) ==
    /\ req[h].pc = "insert"
    /\ contacts[c].state = "none"
    /\ contacts' = [contacts EXCEPT ![c] =
         [state |-> "live", keys |-> req[h].keys, unsure |-> req[h].unsure]]
    /\ Wrote(h, Idle)
    /\ UNCHANGED roster

----------------------------------------------------------------------------
(* GuestService.Update and Delete.                                         *)

\* ApplyUpdate: the keys of the request replace both keys of the row; one that
\* the request leaves out is cleared.
UpdateRead(h, c, K) ==
    /\ req[h].pc = "idle"
    /\ contacts[c].state = "live"
    /\ Goto(h, [Idle EXCEPT !.pc = "update_email", !.c = c, !.keys = K,
                            !.changed = K \ contacts[c].keys])
    /\ UNCHANGED <<contacts, roster>>

\* Only a key that changes is looked up; LIMIT 1 may find the contact itself.
NoConflict(h, S) ==
    \A k \in req[h].changed \cap S :
        Holders(k) = {} \/ req[h].c \in Holders(k)

UpdateEmail(h, ok) ==
    /\ req[h].pc = "update_email"
    /\ IF ok /\ ~NoConflict(h, Emails) THEN End(h) ELSE Passed(h, Emails, ok, "update_phone")
    /\ UNCHANGED <<contacts, roster>>

UpdatePhone(h, ok) ==
    /\ req[h].pc = "update_phone"
    /\ IF ok /\ ~NoConflict(h, Phones) THEN End(h) ELSE Passed(h, Phones, ok, "update")
    /\ UNCHANGED <<contacts, roster>>

\* The whole row is written, unless it was deleted meanwhile.
UpdateWrite(h) ==
    LET c == req[h].c IN
    /\ req[h].pc = "update"
    /\ IF contacts[c].state = "live"
       THEN /\ contacts' = [contacts EXCEPT ![c] =
                 [ state |-> "live", keys |-> req[h].keys,
                   unsure |-> contacts[c].unsure \/ req[h].unsure ]]
            /\ Wrote(h, Idle)
       ELSE UNCHANGED contacts /\ End(h)
    /\ UNCHANGED roster

SoftDelete(c) ==
    /\ contacts[c].state = "live"
    /\ contacts' = [contacts EXCEPT ![c].state = "deleted", ![c].unsure = FALSE]
    /\ UNCHANGED <<roster, req>>

----------------------------------------------------------------------------
(* ImportService.importCSV, of a file whose rows are valid.                *)

InFile(file) == UNION {file[i] : i \in DOMAIN file}

\* CheckDuplicates: for each key of K in use one contact that has it, and the
\* rest as before.  That the answer may break off (rows.Err) goes unnoticed.
Lookup(r, K) ==
    {f \in [Keys -> Contacts \cup {NoContact}] :
        \A k \in Keys : IF k \in K THEN f[k] \in Holders(k) \cup {NoContact}
                        ELSE f[k] = r.found[k]}
Missed(f, K) == \E k \in K : f[k] = NoContact /\ Holders(k) # {}

Importing(h) == req[h].pc \in {"import_emails", "import_insert"} \/ req[h].event

\* First the phone numbers ...
ImportPhones(h, file, event) ==
    LET K == InFile(file) \cap Phones IN
    /\ req[h].pc = "idle"
    /\ Cardinality({i \in Handlers : Importing(i)}) < MaxImports
    /\ \E f \in Lookup(Idle, K) :
          Goto(h, [Idle EXCEPT !.pc = "import_emails", !.file = file, !.event = event,
                               !.found = f, !.unsure = Missed(f, K)])
    /\ UNCHANGED <<contacts, roster>>

\* Mutant: a key that was not found is looked up all the same.
KnownOrNil(r, i) == {r.found[k] : k \in r.file[i]}

\* The contacts that row i repeats, and the rows that repeat none.
Known(r, i) == {r.found[k] : k \in r.file[i]} \ {NoContact}
Unique(r) == {i \in DOMAIN r.file : Known(r, i) = {}}

\* Rows that repeat a key of an earlier one are dropped, without a message.
Final(r) ==
    {i \in Unique(r) : \A j \in Unique(r) : j < i => r.file[i] \cap r.file[j] = {}}

\* ImportCSVForEvent: a row that repeats one contact stands for it; a row that
\* repeats two is reported.
Standing(r) == {i \in DOMAIN r.file : r.event /\ Cardinality(Known(r, i)) = 1}

\* Mutant: a contact that exists is a duplicate, for an event as well.
ReuseNone(r) == {c \in Contacts : FALSE}

Reused(r) == UNION {Known(r, i) : i \in Standing(r)}

\* ... then the email addresses, and what becomes of the rows.
ImportEmails(h) ==
    LET K == InFile(req[h].file) \cap Emails IN
    /\ req[h].pc = "import_emails"
    /\ \E f \in Lookup(req[h], K) :
          LET r == [req[h] EXCEPT !.found = f]
              RowsOf(I) == {r.file[i] : i \in I}
          IN  Goto(h, [Idle EXCEPT
                !.pc = "import_insert", !.event = r.event,
                !.rows = RowsOf(Final(r)), !.ids = Reused(r),
                !.due = IF r.event THEN RowsOf(Final(r) \cup Standing(r)) ELSE {},
                !.unsure = r.unsure \/ Missed(f, K)])
    /\ UNCHANGED <<contacts, roster>>

\* BulkCreate: one transaction for all of them.  new names the new contacts.
\* For an event the import goes on to the roster.
ImportInsert(h, new) ==
    LET r == req[h]
        C == {new[K] : K \in r.rows}
        next == IF r.event
                THEN [r EXCEPT !.pc = "roster", !.rows = {}, !.ids = @ \cup C] ELSE Idle
    IN
    /\ r.pc = "import_insert"
    /\ Cardinality(C) = Cardinality(r.rows)
    /\ \A c \in C : contacts[c].state = "none"
    /\ contacts' = [c \in Contacts |->
         IF c \in C
         THEN [ state |-> "live", keys |-> CHOOSE K \in r.rows : new[K] = c,
                unsure |-> r.unsure ]
         ELSE contacts[c]]
    /\ IF C = {} THEN Goto(h, next) ELSE Wrote(h, next)
    /\ UNCHANGED roster

----------------------------------------------------------------------------
(* EventGuestService: the roster of the event.                             *)

\* Create: the contact is there and not on the roster yet.
RosterAdd(h, c) ==
    /\ req[h].pc = "idle"
    /\ contacts[c].state = "live"
    /\ c \notin roster
    /\ Goto(h, [Idle EXCEPT !.pc = "roster_insert", !.c = c, !.ids = {c}])
    /\ UNCHANGED <<contacts, roster>>

\* CheckinService.ProcessWalkin: a contact is inserted as it stands at the desk,
\* with no lookup, and goes on the roster next.
WalkinInsert(h, c, K) ==
    /\ req[h].pc = "idle"
    /\ contacts[c].state = "none"
    /\ contacts' = [contacts EXCEPT ![c] = [state |-> "live", keys |-> K, unsure |-> TRUE]]
    /\ Wrote(h, [Idle EXCEPT !.pc = "roster_insert", !.c = c, !.ids = {c}])
    /\ UNCHANGED roster

\* ImportCSV: the next guest, who is skipped if on the roster already.
RosterCheck(h, c) ==
    /\ req[h].pc = "roster"
    /\ c \in req[h].ids
    /\ Goto(h, IF c \in roster THEN [req[h] EXCEPT !.ids = @ \ {c}]
               ELSE [req[h] EXCEPT !.pc = "roster_insert", !.c = c])
    /\ UNCHANGED <<contacts, roster>>

\* The index on event and guest refuses a second row: the request ends, and
\* an import leaves the rest undone.
RosterInsert(h) ==
    LET c == req[h].c IN
    /\ req[h].pc = "roster_insert"
    /\ IF c \in roster
       THEN UNCHANGED roster /\ End(h)
       ELSE /\ roster' = roster \cup {c}
            /\ Goto(h, [req[h] EXCEPT !.pc = "roster", !.c = NoContact, !.ids = @ \ {c}])
    /\ UNCHANGED contacts

\* All done.
RosterEnd(h) ==
    /\ req[h].pc = "roster"
    /\ req[h].ids = {}
    /\ End(h)
    /\ UNCHANGED <<contacts, roster>>

\* The process stops, or a statement fails.
Abort(h) ==
    /\ req[h].pc # "idle"
    /\ End(h)
    /\ UNCHANGED <<contacts, roster>>

----------------------------------------------------------------------------

Init ==
    /\ contacts = [c \in Contacts |-> NoRow]
    /\ roster = {}
    /\ req = [h \in Handlers |-> Idle]

CreateStep(h) ==
    \/ \E K \in Given, b \in BOOLEAN : CreateQuota(h, K, b)
    \/ \E ok \in BOOLEAN : CreateEmail(h, ok) \/ CreatePhone(h, ok)
    \/ \E c \in Contacts : CreateInsert(h, c)
UpdateStep(h) ==
    \/ \E K \in Given, c \in Contacts : UpdateRead(h, c, K)
    \/ \E ok \in BOOLEAN : UpdateEmail(h, ok) \/ UpdatePhone(h, ok)
    \/ UpdateWrite(h)
ImportStep(h) ==
    \/ \E file \in Files, event \in BOOLEAN : ImportPhones(h, file, event)
    \/ ImportEmails(h)
    \/ \E new \in [req[h].rows -> Contacts] : ImportInsert(h, new)
RosterStep(h) ==
    \/ \E c \in Contacts : RosterAdd(h, c) \/ RosterCheck(h, c)
    \/ \E c \in Contacts, K \in Given : WalkinInsert(h, c, K)
    \/ RosterInsert(h)
    \/ RosterEnd(h)
DeleteStep == \E c \in Contacts : SoftDelete(c)

Next ==
    \/ \E h \in Handlers :
         CreateStep(h) \/ UpdateStep(h) \/ ImportStep(h) \/ RosterStep(h) \/ Abort(h)
    \/ DeleteStep

Spec == Init /\ [][Next]_vars

----------------------------------------------------------------------------
(* Properties.                                                             *)

TypeOK ==
    /\ contacts \in [Contacts -> Contact]
    /\ roster \subseteq Contacts
    /\ req \in [Handlers -> Request]

\* Create, Update and importCSV look for duplicates before they write: two
\* contacts have the same number or address only if one of them is a walk-in,
\* or was written by a request that another one overtook after its checks, or
\* whose checks failed.
DuplicatesAreUnchecked ==
    \A c, d \in LiveContacts :
        contacts[c].keys \cap contacts[d].keys # {} =>
            c = d \/ contacts[c].unsure \/ contacts[d].unsure

\* EventGuestService.ImportCSV creates contacts first and fills the roster one
\* guest at a time, and may stop anywhere.  An import that gets to its end has
\* every row that it accepted on the roster, whatever earlier imports of the
\* file left behind, unless it was overtaken or not told of a contact.
ImportFillsRoster ==
    \A h \in Handlers :
        req[h].pc = "roster" /\ req[h].ids = {} /\ ~req[h].unsure =>
            \A K \in req[h].due : \E c \in roster : contacts[c].keys \cap K # {}
=============================================================================

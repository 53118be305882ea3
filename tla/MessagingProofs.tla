--------------------------- MODULE MessagingProofs ---------------------------
(***************************************************************************)
(* Whatever requests overlap and however they fail, for any number of      *)
(* guests, messages and requests: the message table keeps the promise of   *)
(* Delivery, and the reminder throttle holds.                              *)
(*                                                                         *)
(* The strengthening ties the table to the local state of the requests: a  *)
(* message on its way to the provider is queued, belongs to one request,   *)
(* and was handed over exactly when that request is past the call; only a  *)
(* message that was sent has an id, and so a receipt; a retry refers to a  *)
(* failed row, which nothing writes any more.                              *)
(***************************************************************************)
EXTENDS Messaging, TLAPS

InFlight == {"dispatch", "sent", "failed"}
Known == {"sent", "delivered", "read"}

\* What the local state r of a request says of the message it works on.
Tied(r) ==
    /\ r.pc \in InFlight =>
         /\ r.msg \in Messages
         /\ messages[r.msg].state = "queued"
         /\ handed[r.msg] = IF r.pc = "dispatch" THEN 0 ELSE 1
    /\ r.pc = "receipt" =>
         /\ r.msg \in Messages
         /\ r.seen \in {"delivered", "read"}
         /\ messages[r.msg].state \in Known

Exclusive ==
    \A h, i \in Handlers :
        req[h].pc \in InFlight /\ req[i].pc \in InFlight /\ req[h].msg = req[i].msg => h = i

RowsTied ==
    \A m \in Messages :
        /\ messages[m].state = "none" => handed[m] = 0 /\ messages[m].by = "other"
        /\ messages[m].id => messages[m].state \in Known
        /\ messages[m].of # 0 => Retries(m)

Ordered ==
    \A m, n \in Messages : m < n /\ messages[n].state # "none" => messages[m].state # "none"

MessagingInv ==
    /\ TypeOK
    /\ \A h \in Handlers : Tied(req[h])
    /\ Exclusive
    /\ RowsTied
    /\ Ordered
    /\ ReminderThrottle

LEMMA KindTypes == AKind \in Kinds /\ NoMessage \in Message /\ Idle \in Request
<1>1. AKind \in Kinds
  BY MessagingAssumption DEF AKind
<1> QED
  BY <1>1 DEF NoMessage, Message, Idle, Request, Steps, CampaignStatuses

\* There is no message and nobody is serving a request.
LEMMA MessagingInit == Init => MessagingInv /\ D!Init
<1> SUFFICES ASSUME Init PROVE MessagingInv /\ D!Init
  OBVIOUS
<1>1. \A m \in Messages : messages[m] = NoMessage /\ handed[m] = 0
  BY DEF Init
<1>2. \A h \in Handlers : req[h] = Idle
  BY DEF Init
<1>3. TypeOK
  BY KindTypes DEF Init, TypeOK, CampaignStatuses
<1>4. \A h \in Handlers : Tied(req[h])
  BY <1>2 DEF Idle, Tied, InFlight
<1>5. Exclusive
  BY <1>2 DEF Idle, Exclusive, InFlight
<1>6. RowsTied /\ Ordered
  BY <1>1 DEF RowsTied, Ordered, NoMessage
<1>7. ReminderThrottle
  BY <1>1 DEF ReminderThrottle, NoMessage
<1>8. \A m \in Messages : TableState(m) = "none"
  BY <1>1 DEF TableState, NoMessage
<1> QED
  BY <1>3, <1>4, <1>5, <1>6, <1>7, <1>8 DEF MessagingInv, D!Init, Init

\* A step that touches neither messages nor the provider.
LEMMA LocalStep ==
    ASSUME MessagingInv, NEW h \in Handlers, NEW r \in Request, Goto(h, r),
           UNCHANGED <<messages, handed>>,
           gone' \subseteq Guests, campaign' \in CampaignStatuses, overlap' \in BOOLEAN,
           r.pc \notin InFlight, Tied(r)
    PROVE  MessagingInv' /\ UNCHANGED D!vars
<1> USE DEF MessagingInv, Goto
<1>1. TypeOK'
  BY DEF TypeOK
<1>2. \A i \in Handlers : req'[i] = IF i = h THEN r ELSE req[i]
  BY DEF TypeOK
<1>3. \A i \in Handlers : Tied(req[i])'
  BY <1>2 DEF Tied
<1>4. Exclusive'
  BY <1>2 DEF Exclusive
<1>5. RowsTied' /\ Ordered' /\ ReminderThrottle'
  BY DEF RowsTied, Ordered, ReminderThrottle, Retries
<1>6. UNCHANGED D!vars
  BY DEF D!vars, TableState
<1> QED
  BY <1>1, <1>3, <1>4, <1>5, <1>6

\* What a request becomes when it is done with a guest.
LEMMA Continues ==
    ASSUME NEW r \in Request
    PROVE  /\ Continue(r) \in Request /\ Continue(r).pc \in {"idle", "loop"}
           /\ \A g : Without(r, g) \in Request /\ Without(r, g).pc \in {"idle", "loop"}
<1>1. ASSUME NEW q \in Request
      PROVE Continue(q) \in Request /\ Continue(q).pc \in {"idle", "loop"}
  BY KindTypes DEF Continue, Idle, Request, Steps
<1>2. ASSUME NEW g PROVE [r EXCEPT !.todo = @ \ {g}] \in Request
  BY DEF Request
<1> QED
  BY <1>1, <1>2 DEF Without

\* A request that goes on, or ends, without a message.
LEMMA PlainTied ==
    ASSUME NEW r \in Request, r.pc \notin InFlight \cup {"receipt"}
    PROVE  Tied(r)
  BY DEF Tied

\* A step that only moves the request on.
LEMMA MoveStep ==
    ASSUME MessagingInv, NEW h \in Handlers, NEW r \in Request, Goto(h, r),
           r.pc \notin InFlight \cup {"receipt"}, UNCHANGED <<messages, handed>>,
           gone' \subseteq Guests, campaign' \in CampaignStatuses, overlap' \in BOOLEAN
    PROVE  MessagingInv' /\ UNCHANGED D!vars
  BY LocalStep, PlainTied

\* A row counts for the throttle.
Counts(row) == row.by = "reminder" /\ row.recent /\ row.state \notin {"none", "failed"}

\* Of the rows that count for a guest, the later ones are retries.
Throttled(m, row) ==
    Counts(row) =>
        \A n \in Messages \ {m} :
            Counts(messages[n]) /\ messages[n].guest = row.guest =>
                IF n < m THEN row.of # 0 ELSE messages[n].of # 0

\* A statement of request h writes the row of message m.  Nobody else is taking
\* m to the provider, and the row tells of no receipt that is not there any more.
LEMMA RowStep ==
    ASSUME MessagingInv,
           NEW h \in Handlers, NEW r \in Request, Goto(h, r),
           NEW m \in Messages, NEW row \in Message,
           messages' = [messages EXCEPT ![m] = row],
           UNCHANGED <<gone, campaign, handed, overlap>>,
           \A i \in Handlers \ {h} : req[i].pc \in InFlight => req[i].msg # m,
           messages[m].state \in Known => row.state \in Known,
           r.pc \in {"idle", "loop", "dispatch"},
           r.pc = "dispatch" => r.msg = m /\ row.state = "queued" /\ handed[m] = 0,
           row.state # "none",
           row.id => row.state \in Known,
           messages[m].state # "failed",
           messages[m].state = "none" => Fresh(m),
           row.of # 0 => /\ row.of \in Messages
                         /\ messages[row.of].state = "failed"
                         /\ messages[row.of].guest = row.guest
                         /\ messages[row.of].by = row.by,
           Throttled(m, row)
    PROVE  MessagingInv'
<1> USE DEF MessagingInv, Goto
<1>1. TypeOK'
  BY DEF TypeOK
<1>2. \A i \in Handlers : req'[i] = IF i = h THEN r ELSE req[i]
  BY DEF TypeOK
<1>3. \A n \in Messages : messages'[n] = IF n = m THEN row ELSE messages[n]
  BY DEF TypeOK
<1>4. Tied(r)'
  BY <1>3 DEF Tied, InFlight
<1>5. ASSUME NEW i \in Handlers, i # h PROVE Tied(req[i])'
  <2>1. Tied(req[i]) /\ req'[i] = req[i]
    BY <1>2, <1>5
  <2>2. req[i].pc \in InFlight => req[i].msg # m
    BY <1>5
  <2> QED
    BY <2>1, <2>2, <1>3 DEF Tied
<1>6. \A i \in Handlers : Tied(req[i])'
  BY <1>2, <1>4, <1>5
<1>7. Exclusive'
  BY <1>2 DEF Exclusive, InFlight
<1>8. RowsTied'
  <2>1. \A n \in Messages : messages'[n].of # 0 => Retries(n)'
    BY <1>3 DEF RowsTied, Retries
  <2> QED
    BY <1>3, <2>1 DEF RowsTied
<1>9. Ordered'
  BY <1>3 DEF Ordered, Fresh
<1>10. ReminderThrottle'
  <2> SUFFICES ASSUME NEW a \in Messages, NEW b \in Messages, a < b,
                      Counts(messages'[a]), Counts(messages'[b]),
                      messages'[a].guest = messages'[b].guest
               PROVE  messages'[b].of # 0
    BY <1>8 DEF ReminderThrottle, Counts, RowsTied
  <2>0. a \in Int /\ b \in Int
    BY DEF Messages
  <2>1. CASE b = m
    BY <1>3, <2>0, <2>1 DEF Throttled
  <2>2. CASE a = m
    BY <1>3, <2>0, <2>2 DEF Throttled
  <2>3. CASE a # m /\ b # m
    <3>1. Retries(b)
      BY <1>3, <2>3 DEF ReminderThrottle, Counts
    <3> QED
      BY <1>3, <2>3, <3>1 DEF Retries, Messages
  <2> QED
    BY <2>1, <2>2, <2>3
<1> QED
  BY <1>1, <1>6, <1>7, <1>8, <1>9, <1>10

\* A new row: nobody can have been working on it.
LEMMA CreateRow ==
    ASSUME MessagingInv,
           NEW h \in Handlers, NEW r \in Request, Goto(h, r),
           NEW m \in Messages, Fresh(m),
           NEW g \in Guests \cup {NoGuest}, NEW k \in Kinds, NEW by,
           NEW of \in Messages \cup {0},
           CreateMessage(m, g, k, by, of),
           of # 0 => /\ messages[of].state = "failed"
                     /\ messages[of].guest = g
                     /\ messages[of].by = by,
           UNCHANGED <<gone, campaign, handed, overlap>>,
           r.pc \in {"idle", "loop", "dispatch"},
           r.pc = "dispatch" => r.msg = m,
           by = "reminder" => of # 0 \/ ~RecentlyReminded(g)
    PROVE  MessagingInv' /\ D!Next
<1> DEFINE row == [ state |-> "queued", guest |-> g, kind |-> k,
                    by |-> IF by \in {"reminder", "campaign"} THEN by ELSE "other",
                    recent |-> TypeOf(k) = "reminder", id |-> FALSE, of |-> of ]
<1>1. row \in Message
  <2>1. (TypeOf(k) = "reminder") \in BOOLEAN
    OBVIOUS
  <2> QED
    BY <2>1 DEF Message
<1>2. messages' = [messages EXCEPT ![m] = row]
  BY DEF CreateMessage
<1>3. messages[m].state = "none" /\ handed[m] = 0
  BY DEF MessagingInv, RowsTied, Fresh
<1>4. \A i \in Handlers \ {h} : req[i].pc \in InFlight => req[i].msg # m
  BY <1>3 DEF MessagingInv, Tied
<1>5. row.by = "reminder" <=> by = "reminder"
  OBVIOUS
<1>6. Throttled(m, row)
  <2>1. \A n \in Messages \ {m} : ~(n < m) => messages[n].state = "none"
    BY <1>3 DEF MessagingInv, Ordered, Messages
  <2>2. \A n \in Messages \ {m} : Counts(messages[n]) => n < m
    BY <2>1 DEF Counts
  <2>3. row.guest = g /\ row.of = of
    OBVIOUS
  <2>4. ASSUME Counts(row), NEW n \in Messages \ {m}, Counts(messages[n]),
               messages[n].guest = g
        PROVE  of # 0
    <3>1. by = "reminder"
      BY <2>4, <1>5 DEF Counts
    <3>2. RecentlyReminded(g)
      BY <2>4 DEF Counts, RecentlyReminded
    <3> QED
      BY <3>1, <3>2
  <2> HIDE DEF row
  <2> QED
    BY <2>2, <2>3, <2>4 DEF Throttled
<1>o. row.of # 0 => /\ row.of \in Messages
                    /\ messages[row.of].state = "failed"
                    /\ messages[row.of].guest = row.guest
                    /\ messages[row.of].by = row.by
  <2>1. row.of = of /\ row.guest = g
    OBVIOUS
  <2>2. of # 0 => of \in Messages /\ messages[of] \in Message
    BY DEF MessagingInv, TypeOK
  <2>3. of # 0 => row.by = by
    BY <2>2 DEF Message
  <2> HIDE DEF row
  <2> QED
    BY <2>1, <2>2, <2>3
<1>7. row.state = "queued" /\ (row.id => row.state \in Known)
  OBVIOUS
<1>8. messages[m].state \notin Known
  BY <1>3 DEF Known
<1> HIDE DEF row
<1>9. MessagingInv'
  <2>1. row.state # "none" /\ messages[m].state # "failed"
    BY <1>3, <1>7
  <2>2. messages[m].state \in Known => row.state \in Known
    BY <1>8
  <2>3. r.pc = "dispatch" => r.msg = m /\ row.state = "queued" /\ handed[m] = 0
    BY <1>3, <1>7
  <2> QED
    BY <1>1, <1>2, <1>4, <1>6, <1>7, <1>o, <2>1, <2>2, <2>3, RowStep, Zenon
<1>10. \A n \in Messages : TableState(n)' = IF n = m THEN "queued" ELSE TableState(n)
  BY <1>2, <1>7 DEF TableState, MessagingInv, TypeOK
<1>11. D!Queue(m)
  BY <1>3, <1>10 DEF D!Queue, D!Move, TableState
<1> QED
  BY <1>9, <1>11 DEF D!Next

\* The request after it created a message.
LEMMA AfterCreates ==
    ASSUME NEW h, NEW g, NEW m \in Messages, req[h] \in Request, AfterCreate(h, g, m)
    PROVE  \E r \in Request : /\ Goto(h, r)
                              /\ r.pc \in {"idle", "loop", "dispatch"}
                              /\ r.pc = "dispatch" => r.msg = m
<1> DEFINE w == Without(req[h], g)
<1>1. w \in Request /\ w.pc \in {"idle", "loop"}
  BY Continues
<1> HIDE DEF w
<1>2. [w EXCEPT !.pc = "dispatch", !.msg = m] \in Request
  BY <1>1 DEF Request, Steps
<1>3. Goto(h, w) \/ Goto(h, [w EXCEPT !.pc = "dispatch", !.msg = m])
  BY DEF AfterCreate, w
<1>4. [w EXCEPT !.pc = "dispatch", !.msg = m].msg = m
      /\ [w EXCEPT !.pc = "dispatch", !.msg = m].pc = "dispatch"
  BY <1>1 DEF Request
<1> QED
  BY <1>1, <1>2, <1>3, <1>4

\* The three loops that create messages.
LEMMA QueueStep ==
    ASSUME MessagingInv, NEW h \in Handlers, NEW g \in Guests, NEW m \in Messages,
           QueueMessage(h, g, m) \/ QueueReminder(h, g, m) \/ QueueCampaign(h, g, m)
    PROVE  MessagingInv' /\ D!Next
<1>1. req[h] \in Request /\ req[h].kind \in Kinds
  BY DEF MessagingInv, TypeOK, Request
<1>2. /\ Fresh(m)
      /\ CreateMessage(m, g, req[h].kind, req[h].by, 0)
      /\ AfterCreate(h, g, m)
      /\ UNCHANGED <<gone, campaign, handed, overlap>>
      /\ req[h].by = "reminder" => ~RecentlyReminded(g)
  BY DEF QueueMessage, QueueReminder, QueueCampaign
<1>3. PICK r \in Request : /\ Goto(h, r)
                           /\ r.pc \in {"idle", "loop", "dispatch"}
                           /\ r.pc = "dispatch" => r.msg = m
  BY <1>1, <1>2, AfterCreates
<1> QED
  BY <1>1, <1>2, <1>3, CreateRow

LEMMA RetryStep ==
    ASSUME MessagingInv, NEW h \in Handlers, NEW m \in Messages, NEW n \in Messages,
           RetryMessage(h, m, n)
    PROVE  MessagingInv' /\ D!Next
<1> DEFINE r == [Idle EXCEPT !.pc = "dispatch", !.msg = n]
<1>1. r \in Request /\ r.pc = "dispatch" /\ r.msg = n
  BY KindTypes DEF Idle, Request, Steps
<1>2. messages[m].guest \in Guests \cup {NoGuest} /\ messages[m].kind \in Kinds
  BY DEF MessagingInv, TypeOK, Message
<1>3. /\ Goto(h, r) /\ Fresh(n)
      /\ CreateMessage(n, messages[m].guest, messages[m].kind, messages[m].by, m)
      /\ messages[m].state = "failed"
      /\ UNCHANGED <<gone, campaign, handed, overlap>>
  BY DEF RetryMessage
<1>4. m # 0
  BY DEF Messages
<1> HIDE DEF r
<1> QED
  BY <1>1, <1>2, <1>3, <1>4, CreateRow

\* The call of the provider: the first one for this message.
LEMMA DispatchStep ==
    ASSUME MessagingInv, NEW h \in Handlers, NEW a \in Answers, Dispatch(h, a)
    PROVE  MessagingInv' /\ D!Next
<1> DEFINE r == [req[h] EXCEPT !.pc = a]
           m == req[h].msg
<1> USE DEF MessagingInv
<1>1. req[h] \in Request /\ req[h].pc = "dispatch" /\ Tied(req[h])
  BY DEF TypeOK, Dispatch
<1>2. m \in Messages /\ messages[m].state = "queued" /\ handed[m] = 0
  BY <1>1 DEF Tied, InFlight
<1>3. r \in Request /\ r.msg = m /\ r.pc = a /\ a \in {"sent", "failed"}
  BY <1>1 DEF Request, Steps, Answers
<1>4. handed' = [handed EXCEPT ![m] = 1] /\ UNCHANGED <<gone, campaign, messages, overlap>>
  BY <1>2 DEF Dispatch
<1>5. req' = [req EXCEPT ![h] = r]
  BY DEF Dispatch, Goto
<1> HIDE DEF r, m
<1>6. TypeOK'
  BY <1>2, <1>3, <1>4, <1>5 DEF TypeOK
<1>7. \A i \in Handlers : req'[i] = IF i = h THEN r ELSE req[i]
  BY <1>5 DEF TypeOK
<1>8. \A n \in Messages : handed'[n] = IF n = m THEN 1 ELSE handed[n]
  BY <1>4 DEF TypeOK
<1>9. Tied(req[h])'
  <2>1. req'[h] = r /\ messages' = messages
    BY <1>4, <1>7
  <2> QED
    BY <1>2, <1>3, <1>8, <2>1 DEF Tied, InFlight
<1>10. \A i \in Handlers \ {h} : req[i].pc \in InFlight => req[i].msg # m
  BY <1>1 DEF Exclusive, InFlight, m
<1>11. ASSUME NEW i \in Handlers, i # h PROVE Tied(req[i])'
  <2>1. Tied(req[i]) /\ req'[i] = req[i]
    BY <1>7, <1>11
  <2>2. req[i].pc \in InFlight => req[i].msg # m
    BY <1>10, <1>11
  <2> QED
    BY <2>1, <2>2, <1>4, <1>8 DEF Tied
<1>12. Exclusive'
  BY <1>3, <1>7, <1>10 DEF Exclusive
<1>13. RowsTied' /\ Ordered' /\ ReminderThrottle'
  BY <1>2, <1>4, <1>8 DEF RowsTied, Ordered, ReminderThrottle, Retries
<1>14. MessagingInv'
  BY <1>6, <1>7, <1>9, <1>11, <1>12, <1>13
<1>15. D!HandOver(m)
  BY <1>2, <1>4 DEF D!HandOver, TableState
<1> QED
  BY <1>2, <1>14, <1>15 DEF D!Next

\* A row that is written again counts at most as it did.
LEMMA StaysThrottled ==
    ASSUME MessagingInv, NEW m \in Messages, NEW row,
           Counts(row) => Counts(messages[m]),
           row.guest = messages[m].guest, row.of = messages[m].of
    PROVE  Throttled(m, row)
<1> SUFFICES ASSUME Counts(messages[m]), NEW n \in Messages, n # m, Counts(messages[n]),
                    messages[n].guest = messages[m].guest
             PROVE  IF n < m THEN messages[m].of # 0 ELSE messages[n].of # 0
  BY DEF Throttled
<1>1. IF n < m THEN Retries(m) ELSE Retries(n)
  BY DEF MessagingInv, ReminderThrottle, Counts, Messages
<1> QED
  BY <1>1 DEF Retries, Messages

\* The outcome of the call is written, once, by the request that made it.
LEMMA OutcomeStep ==
    ASSUME MessagingInv, NEW h \in Handlers,
           RecordFailed(h) \/ \E id \in BOOLEAN : RecordSent(h, id)
    PROVE  MessagingInv' /\ D!Next
<1> DEFINE r == Continue(req[h])
           m == req[h].msg
<1>1. req[h] \in Request /\ req[h].pc \in {"sent", "failed"} /\ Tied(req[h])
  BY DEF MessagingInv, TypeOK, RecordFailed, RecordSent
<1>2. m \in Messages /\ messages[m].state = "queued" /\ handed[m] = 1 /\ ~messages[m].id
  BY <1>1 DEF MessagingInv, RowsTied, Tied, InFlight, Known
<1>3. r \in Request /\ r.pc \in {"idle", "loop"}
  BY <1>1, Continues
<1>4. messages[m] \in Message
  BY <1>2 DEF MessagingInv, TypeOK
<1>5. PICK row \in Message :
        /\ messages' = [messages EXCEPT ![m] = row]
        /\ row.state \in {"sent", "failed"}
        /\ row.id => row.state \in Known
        /\ row.by = messages[m].by /\ row.recent = messages[m].recent
        /\ row.guest = messages[m].guest /\ row.of = messages[m].of
  <2>1. CASE RecordFailed(h)
    <3> DEFINE row == [messages[m] EXCEPT !.state = "failed"]
    <3>1. messages' = [messages EXCEPT ![m] = row]
      BY <2>1 DEF RecordFailed
    <3>2. row \in Message
      BY <1>4 DEF Message
    <3>3. row.id = messages[m].id /\ row.state = "failed"
          /\ row.by = messages[m].by /\ row.recent = messages[m].recent
          /\ row.guest = messages[m].guest /\ row.of = messages[m].of
      BY <1>4 DEF Message
    <3> HIDE DEF row
    <3> QED
      BY <1>2, <3>1, <3>2, <3>3
  <2>2. ASSUME NEW id \in BOOLEAN, RecordSent(h, id)
        PROVE  \E row \in Message :
                 /\ messages' = [messages EXCEPT ![m] = row]
                 /\ row.state \in {"sent", "failed"}
                 /\ row.id => row.state \in Known
                 /\ row.by = messages[m].by /\ row.recent = messages[m].recent
                 /\ row.guest = messages[m].guest /\ row.of = messages[m].of
    <3> DEFINE row == [messages[m] EXCEPT !.state = "sent", !.id = id]
    <3>1. messages' = [messages EXCEPT ![m] = row]
      BY <2>2, <1>2 DEF RecordSent, MessagingInv, TypeOK
    <3>2. row \in Message
      BY <1>4 DEF Message
    <3>3. row.state = "sent"
          /\ row.by = messages[m].by /\ row.recent = messages[m].recent
          /\ row.guest = messages[m].guest /\ row.of = messages[m].of
      BY <1>4 DEF Message
    <3> HIDE DEF row
    <3> QED
      BY <3>1, <3>2, <3>3 DEF Known
  <2> QED
    BY <2>1, <2>2
<1>6. Goto(h, r) /\ UNCHANGED <<gone, campaign, handed, overlap>>
  BY DEF RecordFailed, RecordSent
<1>7. \A i \in Handlers \ {h} : req[i].pc \in InFlight => req[i].msg # m
  BY <1>1 DEF MessagingInv, Exclusive, InFlight
<1>8. Throttled(m, row)
  <2>1. Counts(row) => Counts(messages[m])
    BY <1>2, <1>5 DEF Counts, Known
  <2> QED
    BY <1>2, <1>5, <2>1, StaysThrottled
<1>o. row.of # 0 => /\ row.of \in Messages
                    /\ messages[row.of].state = "failed"
                    /\ messages[row.of].guest = row.guest
                    /\ messages[row.of].by = row.by
  BY <1>2, <1>5 DEF MessagingInv, RowsTied, Retries
<1>9. messages[m].state \notin Known
  BY <1>2 DEF Known
<1> HIDE DEF r, m
<1>10. MessagingInv'
  <2>1. row.state # "none" /\ (messages[m].state \in Known => row.state \in Known)
        /\ messages[m].state \notin {"none", "failed"}
    BY <1>2, <1>5, <1>9
  <2>2. r.pc \in {"idle", "loop", "dispatch"}
        /\ (r.pc = "dispatch" => r.msg = m /\ row.state = "queued" /\ handed[m] = 0)
    BY <1>3
  <2> QED
    BY <1>2, <1>3, <1>5, <1>6, <1>7, <1>8, <1>o, <2>1, <2>2, RowStep
<1>11. \A n \in Messages : TableState(n)' = IF n = m THEN row.state ELSE TableState(n)
  BY <1>2, <1>5 DEF TableState, MessagingInv, TypeOK
<1>12. TableState(m) = "queued"
  BY <1>2 DEF TableState
<1>13. D!Sent(m) \/ D!Failed(m)
  BY <1>2, <1>5, <1>6, <1>11, <1>12 DEF D!Sent, D!Failed, D!Move
<1> QED
  BY <1>2, <1>10, <1>13 DEF D!Next

\* A receipt is written to a message that was sent.
LEMMA ReceiptStep ==
    ASSUME MessagingInv, NEW h \in Handlers, ReceiptWrite(h)
    PROVE  MessagingInv' /\ D!Next
<1> DEFINE m == req[h].msg
           row == [messages[m] EXCEPT !.state = req[h].seen]
<1>1. req[h] \in Request /\ req[h].pc = "receipt" /\ Tied(req[h])
  BY DEF MessagingInv, TypeOK, ReceiptWrite
<1>2. m \in Messages /\ messages[m].state \in Known /\ req[h].seen \in {"delivered", "read"}
  BY <1>1 DEF Tied
<1>3. messages[m] \in Message
  BY <1>2 DEF MessagingInv, TypeOK
<1>4. row \in Message /\ row.state \in {"delivered", "read"} /\ row.state \in Known
      /\ row.by = messages[m].by /\ row.recent = messages[m].recent
      /\ row.guest = messages[m].guest /\ row.of = messages[m].of
  BY <1>2, <1>3 DEF Message, Known
<1>5. messages' = [messages EXCEPT ![m] = row]
  BY DEF ReceiptWrite
<1>6. Goto(h, Idle) /\ UNCHANGED <<gone, campaign, handed, overlap>>
  BY DEF ReceiptWrite, End
<1>7. \A i \in Handlers \ {h} : req[i].pc \in InFlight => req[i].msg # m
  BY <1>2 DEF MessagingInv, Tied, Known
<1>8. Throttled(m, row)
  <2>1. Counts(row) => Counts(messages[m])
    BY <1>2, <1>4 DEF Counts, Known
  <2> QED
    BY <1>2, <1>4, <2>1, StaysThrottled
<1>o. row.of # 0 => /\ row.of \in Messages
                    /\ messages[row.of].state = "failed"
                    /\ messages[row.of].guest = row.guest
                    /\ messages[row.of].by = row.by
  BY <1>2, <1>4 DEF MessagingInv, RowsTied, Retries
<1> HIDE DEF row, m
<1>9. MessagingInv'
  <2>1. Idle \in Request /\ Idle.pc = "idle"
    BY KindTypes DEF Idle
  <2>2. row.state # "none" /\ (row.id => row.state \in Known)
        /\ (messages[m].state \in Known => row.state \in Known)
        /\ messages[m].state \notin {"none", "failed"}
    BY <1>2, <1>4 DEF Known
  <2>3. Idle.pc \in {"idle", "loop", "dispatch"}
        /\ (Idle.pc = "dispatch" => Idle.msg = m /\ row.state = "queued" /\ handed[m] = 0)
    BY <2>1
  <2> QED
    BY <1>2, <1>4, <1>5, <1>6, <1>7, <1>8, <1>o, <2>1, <2>2, <2>3, RowStep
<1>10. \A n \in Messages : TableState(n)' = IF n = m THEN "acknowledged" ELSE TableState(n)
  BY <1>2, <1>4, <1>5 DEF TableState, MessagingInv, TypeOK
<1>11. TableState(m) \in {"sent", "acknowledged"}
  BY <1>2 DEF TableState, Known
<1>12. D!Acknowledged(m)
  BY <1>2, <1>6, <1>10, <1>11 DEF D!Acknowledged, D!Move
<1> QED
  BY <1>2, <1>9, <1>12 DEF D!Next

\* A reminder that grows old leaves only less to compare.
LEMMA AgeStep ==
    ASSUME MessagingInv, NEW m \in Messages, Age(m)
    PROVE  MessagingInv' /\ UNCHANGED D!vars
<1> USE DEF MessagingInv
<1>1. messages[m] \in Message /\ UNCHANGED <<gone, campaign, handed, overlap, req>>
  BY DEF TypeOK, Age
<1>2. [messages[m] EXCEPT !.recent = FALSE] \in Message
  BY <1>1 DEF Message
<1>3. messages' = [messages EXCEPT ![m] = [messages[m] EXCEPT !.recent = FALSE]]
  BY DEF Age
<1>4. TypeOK'
  BY <1>1, <1>2, <1>3 DEF TypeOK
<1>5. \A n \in Messages : /\ messages'[n].state = messages[n].state
                          /\ messages'[n].id = messages[n].id
                          /\ messages'[n].by = messages[n].by
                          /\ messages'[n].guest = messages[n].guest
                          /\ messages'[n].of = messages[n].of
  BY <1>1, <1>3 DEF TypeOK, Message
<1>6. \A n \in Messages : messages'[n].recent => messages[n].recent
  <2>1. messages[m].recent
    BY DEF Age
  <2>2. \A n \in Messages \ {m} : messages'[n] = messages[n]
    BY <1>3 DEF TypeOK
  <2> QED
    BY <2>1, <2>2
<1>7. ASSUME NEW i \in Handlers PROVE Tied(req[i])'
  BY <1>1, <1>5 DEF Tied
<1>8. Exclusive'
  BY <1>1 DEF Exclusive
<1>9. RowsTied'
  <2>1. \A n \in Messages : messages'[n].state = "none" => handed'[n] = 0 /\ messages'[n].by = "other"
    BY <1>1, <1>5 DEF RowsTied
  <2>2. \A n \in Messages : messages'[n].id => messages'[n].state \in Known
    BY <1>5 DEF RowsTied
  <2>3. \A n \in Messages : messages'[n].of # 0 => Retries(n)'
    BY <1>5 DEF RowsTied, Retries
  <2> QED
    BY <2>1, <2>2, <2>3 DEF RowsTied
<1>o. Ordered'
  BY <1>5 DEF Ordered
<1>10. ReminderThrottle'
  BY <1>5, <1>6 DEF ReminderThrottle, Retries
<1>11. UNCHANGED D!vars
  BY <1>1, <1>5 DEF D!vars, TableState
<1> QED
  BY <1>4, <1>7, <1>8, <1>9, <1>o, <1>10, <1>11

\* The steps that write no message.
LEMMA PlainStep ==
    ASSUME MessagingInv, NEW h \in Handlers,
           \/ \E r \in SendMessageRequest : SendMessage(h, r)
           \/ \E r \in RSVPReminderSendRequest : SendRSVPReminders(h, r)
           \/ CampaignStep(h)
           \/ CompleteCampaign(h)
           \/ \E g \in Guests : SkipGuest(h, g) \/ QueueStops(h, g)
           \/ RecordLost(h)
           \/ Abort(h)
    PROVE  MessagingInv' /\ UNCHANGED D!vars
<1>1. req[h] \in Request /\ Idle \in Request /\ Idle.pc = "idle"
  BY KindTypes DEF MessagingInv, TypeOK, Idle
<1>2. gone \subseteq Guests /\ campaign \in CampaignStatuses /\ overlap \in BOOLEAN
  BY DEF MessagingInv, TypeOK
<1> DEFINE Plain(r) == r \in Request /\ r.pc \notin InFlight \cup {"receipt"}
<1>3. Plain(Idle)
  BY <1>1 DEF InFlight
<1>4. ASSUME NEW r \in SendMessageRequest, SendMessage(h, r)
      PROVE  MessagingInv' /\ UNCHANGED D!vars
  <2> DEFINE s == [Idle EXCEPT !.pc = "loop", !.by = "send", !.kind = r.kind, !.todo = r.guests]
  <2>1. Plain(s)
    BY KindTypes DEF Idle, Request, Steps, InFlight, SendMessageRequest
  <2>2. Goto(h, s) /\ UNCHANGED <<gone, campaign, messages, handed, overlap>>
    BY <1>4 DEF SendMessage
  <2> HIDE DEF s
  <2> QED
    BY <1>2, <2>1, <2>2, MoveStep
<1>5. ASSUME NEW r \in RSVPReminderSendRequest, SendRSVPReminders(h, r)
      PROVE  MessagingInv' /\ UNCHANGED D!vars
  <2> DEFINE s == [Idle EXCEPT !.pc = "loop", !.kind = r.kind,
                     !.by = IF r.force THEN "forced" ELSE "reminder", !.todo = Eligible(r)]
  <2>1. Eligible(r) \subseteq Guests /\ r.kind \in Kinds
    BY DEF Eligible, ReminderCandidates, RSVPReminderSendRequest
  <2>2. Plain(s)
    BY KindTypes, <2>1 DEF Idle, Request, Steps, InFlight
  <2>3. Goto(h, s) /\ UNCHANGED <<gone, campaign, messages, handed, overlap>>
    BY <1>5 DEF SendRSVPReminders
  <2> HIDE DEF s
  <2> QED
    BY <1>2, <2>2, <2>3, MoveStep
<1>6. CASE LaunchCampaign(h)
  <2> DEFINE s == [Idle EXCEPT !.pc = "launch", !.by = "campaign", !.kind = CampaignKind,
                     !.seen = campaign, !.todo = Guests]
  <2>1. Plain(s)
    BY KindTypes, MessagingAssumption, <1>2 DEF Idle, Request, Steps, InFlight
  <2>2. Goto(h, s) /\ UNCHANGED <<gone, campaign, messages, handed, overlap>>
    BY <1>6 DEF LaunchCampaign
  <2> HIDE DEF s
  <2> QED
    BY <1>2, <2>1, <2>2, MoveStep
<1>7. CASE LaunchSending(h)
  <2> DEFINE s == [req[h] EXCEPT !.pc = "loop"]
  <2>1. Plain(s)
    BY <1>1 DEF Request, Steps, InFlight
  <2>2. Goto(h, s) /\ campaign' = "sending" /\ UNCHANGED <<gone, messages, handed>>
    BY <1>7 DEF LaunchSending
  <2>3. PICK o \in BOOLEAN : overlap' = o
    BY <1>7 DEF LaunchSending
  <2> HIDE DEF s
  <2> QED
    BY <1>2, <2>1, <2>2, <2>3, MoveStep DEF CampaignStatuses
<1>8. CASE CancelRead(h)
  <2> DEFINE s == [Idle EXCEPT !.pc = "cancel", !.seen = campaign]
  <2>1. Plain(s)
    BY KindTypes, <1>2 DEF Idle, Request, Steps, InFlight
  <2>2. Goto(h, s) /\ UNCHANGED <<gone, campaign, messages, handed, overlap>>
    BY <1>8 DEF CancelRead
  <2> HIDE DEF s
  <2> QED
    BY <1>2, <2>1, <2>2, MoveStep
<1>9. CASE CancelWrite(h)
  <2>1. Goto(h, Idle) /\ campaign' = "cancelled" /\ UNCHANGED <<gone, messages, handed>>
    BY <1>9 DEF CancelWrite, End
  <2>2. PICK o \in BOOLEAN : overlap' = o
    BY <1>9 DEF CancelWrite
  <2> QED
    BY <1>2, <1>3, <2>1, <2>2, MoveStep DEF CampaignStatuses
<1>10. CASE CompleteCampaign(h)
  <2>1. Goto(h, Idle) /\ campaign' = "completed" /\ UNCHANGED <<gone, messages, handed, overlap>>
    BY <1>10 DEF CompleteCampaign, End
  <2> QED
    BY <1>2, <1>3, <2>1, MoveStep DEF CampaignStatuses
<1>11. ASSUME NEW g \in Guests, SkipGuest(h, g)
       PROVE  MessagingInv' /\ UNCHANGED D!vars
  <2>1. Plain(Without(req[h], g))
    BY <1>1, Continues DEF InFlight
  <2>2. Goto(h, Without(req[h], g)) /\ UNCHANGED <<gone, campaign, messages, handed, overlap>>
    BY <1>11 DEF SkipGuest
  <2> QED
    BY <1>2, <2>1, <2>2, MoveStep
<1>12. CASE RecordLost(h)
  <2>1. Plain(Continue(req[h]))
    BY <1>1, Continues DEF InFlight
  <2>2. Goto(h, Continue(req[h])) \/ Goto(h, Idle)
    BY <1>12 DEF RecordLost
  <2>3. UNCHANGED <<gone, campaign, messages, handed, overlap>>
    BY <1>12 DEF RecordLost
  <2> QED
    BY <1>2, <1>3, <2>1, <2>2, <2>3, MoveStep
<1>13. CASE Abort(h) \/ \E g \in Guests : QueueStops(h, g)
  <2>1. Goto(h, Idle) /\ UNCHANGED <<gone, campaign, messages, handed, overlap>>
    BY <1>13 DEF Abort, QueueStops, End
  <2> QED
    BY <1>2, <1>3, <2>1, MoveStep
<1> QED
  BY <1>4, <1>5, <1>6, <1>7, <1>8, <1>9, <1>10, <1>11, <1>12, <1>13 DEF CampaignStep

\* The webhook finds the message of a receipt by its id.
LEMMA ReceiptRead ==
    ASSUME MessagingInv, NEW h \in Handlers, NEW m \in Messages,
           NEW s \in {"delivered", "read"}, Receipt(h, m, s)
    PROVE  MessagingInv' /\ UNCHANGED D!vars
<1> DEFINE r == [Idle EXCEPT !.pc = "receipt", !.msg = m, !.seen = s]
<1>1. r \in Request /\ r.pc = "receipt" /\ r.msg = m /\ r.seen = s
  BY KindTypes DEF Idle, Request, Steps
<1>2. Goto(h, r) /\ UNCHANGED <<gone, campaign, messages, handed, overlap>>
  BY DEF Receipt
<1>3. messages[m].state \in Known
  BY DEF Receipt, MessagingInv, RowsTied
<1> HIDE DEF r
<1>4. Tied(r) /\ r.pc \notin InFlight
  BY <1>1, <1>3 DEF Tied, InFlight
<1>5. gone' \subseteq Guests /\ campaign' \in CampaignStatuses /\ overlap' \in BOOLEAN
  BY <1>2 DEF MessagingInv, TypeOK
<1> QED
  BY <1>1, <1>2, <1>4, <1>5, LocalStep

\* The steps that belong to no request, other than Age.
LEMMA OutsideStep ==
    ASSUME MessagingInv, CreateCampaign \/ \E g \in Guests : DeleteContact(g)
    PROVE  MessagingInv' /\ UNCHANGED D!vars
<1> USE DEF MessagingInv
<1>1. UNCHANGED <<messages, handed, req>>
  BY DEF CreateCampaign, DeleteContact
<1>2. TypeOK'
  BY <1>1 DEF TypeOK, CreateCampaign, DeleteContact, CampaignStatuses
<1>3. (\A h \in Handlers : Tied(req[h]))' /\ Exclusive' /\ RowsTied' /\ Ordered' /\ ReminderThrottle'
  BY <1>1 DEF Tied, Exclusive, RowsTied, Ordered, ReminderThrottle, Retries
<1>4. UNCHANGED D!vars
  BY <1>1 DEF D!vars, TableState
<1> QED
  BY <1>2, <1>3, <1>4

\* Every step keeps the invariant and is a step of Delivery, or none.
LEMMA MessagingStep ==
    ASSUME MessagingInv, [Next]_vars
    PROVE  MessagingInv' /\ [D!Next]_(D!vars)
<1>1. ASSUME NEW h \in Handlers, StartStep(h) PROVE MessagingInv' /\ [D!Next]_(D!vars)
  BY <1>1, PlainStep, RetryStep DEF StartStep, RetryRequest
<1>2. ASSUME NEW h \in Handlers, LoopStep(h) PROVE MessagingInv' /\ [D!Next]_(D!vars)
  BY <1>2, PlainStep, QueueStep DEF LoopStep
<1>3. ASSUME NEW h \in Handlers, ProviderStep(h) PROVE MessagingInv' /\ [D!Next]_(D!vars)
  BY <1>3, PlainStep, DispatchStep, OutcomeStep, ReceiptStep, ReceiptRead DEF ProviderStep
<1>4. ASSUME NEW h \in Handlers, CampaignStep(h) \/ Abort(h)
      PROVE  MessagingInv' /\ [D!Next]_(D!vars)
  BY <1>4, PlainStep
<1>5. CASE CreateCampaign \/ \E g \in Guests : DeleteContact(g)
  BY <1>5, OutsideStep
<1>6. ASSUME NEW m \in Messages, Age(m) PROVE MessagingInv' /\ [D!Next]_(D!vars)
  BY <1>6, AgeStep
<1>7. CASE UNCHANGED vars
  <2>1. MessagingInv'
    BY <1>7 DEF vars, MessagingInv, TypeOK, Tied, Exclusive, RowsTied, Ordered,
       ReminderThrottle, Retries
  <2>2. UNCHANGED D!vars
    BY <1>7 DEF vars, D!vars, TableState
  <2> QED
    BY <2>1, <2>2
<1> QED
  BY <1>1, <1>2, <1>3, <1>4, <1>5, <1>6, <1>7 DEF Next

\* However requests overlap and fail, the rows and the requests keep their
\* types, and nobody gets two reminders in 24 hours that were not forced and
\* did not fail, but for a retry of a failed one: CreateRSVPReminderMessage looks
\* again under its lock.
THEOREM MessagingCorrect == Spec => [](TypeOK /\ ReminderThrottle)
<1>1. Init => MessagingInv
  BY MessagingInit
<1>2. MessagingInv /\ [Next]_vars => MessagingInv'
  BY MessagingStep
<1>3. MessagingInv => TypeOK /\ ReminderThrottle
  BY DEF MessagingInv
<1> QED
  BY <1>1, <1>2, <1>3, PTL DEF Spec

\* The detailed specification implements Delivery: whoever sends a message, it
\* reaches the provider at most once, its outcome is recorded at most once and
\* after the call, and only a sent message is ever acknowledged.
THEOREM DeliveryRefinement == Spec => DeliverySpec
<1>1. Init => MessagingInv /\ D!Init
  BY MessagingInit
<1>2. MessagingInv /\ [Next]_vars => MessagingInv' /\ [D!Next]_(D!vars)
  BY MessagingStep
<1> QED
  BY <1>1, <1>2, PTL DEF Spec, DeliverySpec, D!Spec

----------------------------------------------------------------------------
(* The campaign.                                                           *)

\* A request that sends the campaign.
Running(r) == r.by = "campaign" /\ r.pc \in InFlight \cup {"loop"}

\* As long as no status was overwritten unread: a campaign that is not sending
\* or completed has sent nothing and nobody is sending it; one request sends
\* it, and the guests it still has to serve got nothing yet.
CampaignQuiet ==
    campaign \notin {"sending", "completed"} =>
        /\ \A h \in Handlers : ~Running(req[h])
        /\ \A m \in Messages : messages[m].by # "campaign"

OneRun ==
    \A h, i \in Handlers : Running(req[h]) /\ Running(req[i]) => h = i

TodoUnserved ==
    \A h \in Handlers, m \in Messages :
        Running(req[h]) /\ messages[m].by = "campaign" => messages[m].guest \notin req[h].todo

\* CampaignOnce, whatever the row is that a retry refers to.
CampaignFirst ==
    \A m, n \in Messages :
        /\ m < n
        /\ messages[m].by = "campaign" /\ messages[n].by = "campaign"
        /\ messages[m].guest = messages[n].guest
        => overlap \/ messages[n].of # 0

CampaignInv ==
    /\ \A h \in Handlers : req[h].pc = "launch" => req[h].seen \in {"draft", "cancelled"}
    /\ \A h \in Handlers : req[h].pc = "cancel" => req[h].seen \in {"draft", "cancelled"}
    /\ ~overlap => CampaignQuiet /\ OneRun /\ TodoUnserved
    /\ CampaignFirst

\* A step that makes no message of the campaign, starts no run of it and lets
\* no run have more to do.
LEMMA CampaignKept ==
    ASSUME CampaignInv, TypeOK, NEW h \in Handlers, NEW r, Goto(h, r),
           overlap' = overlap,
           campaign' = campaign \/ campaign' = "completed",
           \A m \in Messages : messages'[m].by = "campaign" =>
               /\ messages[m].by = "campaign"
               /\ messages'[m].guest = messages[m].guest
               /\ messages'[m].of = messages[m].of,
           Running(r) => Running(req[h]) /\ r.todo \subseteq req[h].todo,
           r.pc \in {"launch", "cancel"} => r.seen \in {"draft", "cancelled"}
    PROVE  CampaignInv'
<1>1. \A i \in Handlers : req'[i] = IF i = h THEN r ELSE req[i]
  BY DEF TypeOK, Goto
<1>2. \A i \in Handlers : Running(req'[i]) => Running(req[i]) /\ req'[i].todo \subseteq req[i].todo
  BY <1>1
<1>3. \A i \in Handlers : req'[i].pc \in {"launch", "cancel"} =>
                            req'[i].seen \in {"draft", "cancelled"}
  BY <1>1 DEF CampaignInv
<1>4. CampaignFirst'
  BY DEF CampaignInv, CampaignFirst
<1>5. ASSUME ~overlap PROVE (CampaignQuiet /\ OneRun /\ TodoUnserved)'
  <2>1. CampaignQuiet /\ OneRun /\ TodoUnserved
    BY <1>5 DEF CampaignInv
  <2>2. CampaignQuiet'
    <3> SUFFICES ASSUME campaign' \notin {"sending", "completed"}
                 PROVE  /\ \A i \in Handlers : ~Running(req'[i])
                        /\ \A m \in Messages : messages'[m].by # "campaign"
      BY DEF CampaignQuiet, Running
    <3> QED
      BY <2>1, <1>2 DEF CampaignQuiet
  <2>3. OneRun'
    <3> SUFFICES ASSUME NEW i \in Handlers, NEW j \in Handlers,
                        Running(req'[i]), Running(req'[j])
                 PROVE  i = j
      BY DEF OneRun, Running
    <3> QED
      BY <2>1, <1>2 DEF OneRun
  <2>4. TodoUnserved'
    <3> SUFFICES ASSUME NEW i \in Handlers, NEW m \in Messages,
                        Running(req'[i]), messages'[m].by = "campaign"
                 PROVE  messages'[m].guest \notin req'[i].todo
      BY DEF TodoUnserved, Running
    <3> QED
      BY <2>1, <1>2 DEF TodoUnserved
  <2> QED
    BY <2>2, <2>3, <2>4
<1> QED
  BY <1>3, <1>4, <1>5 DEF CampaignInv

\* A request that is done with its guest, or with one of its guests, has no
\* more to do than before.
LEMMA ContinuesRun ==
    ASSUME NEW q \in Request, q.pc \in InFlight \cup {"loop"}
    PROVE  /\ Running(Continue(q)) => Running(q) /\ Continue(q).todo \subseteq q.todo
           /\ \A g : Running(Without(q, g)) =>
                       Running(q) /\ Without(q, g).todo \subseteq q.todo \ {g}
           /\ Continue(q).pc \in {"idle", "loop"}
           /\ \A g : Without(q, g).pc \in {"idle", "loop"}
<1>1. ASSUME NEW r \in Request
      PROVE  /\ Running(Continue(r)) => r.by = "campaign" /\ Continue(r).todo = r.todo
             /\ Continue(r).pc \in {"idle", "loop"}
  <2>1. CASE r.todo = {} /\ r.by # "campaign"
    <3>1. Continue(r) = Idle
      BY <2>1 DEF Continue
    <3>2. Idle.pc = "idle" /\ Idle.by = "send"
      BY DEF Idle
    <3> QED
      BY <3>1, <3>2 DEF Running
  <2>2. CASE ~(r.todo = {} /\ r.by # "campaign")
    <3>1. Continue(r) = [r EXCEPT !.pc = "loop", !.msg = 0]
      BY <2>2 DEF Continue
    <3>2. Continue(r).pc = "loop" /\ Continue(r).by = r.by /\ Continue(r).todo = r.todo
      BY <3>1 DEF Request
    <3> QED
      BY <3>2 DEF Running
  <2> QED
    BY <2>1, <2>2
<1>2. ASSUME NEW g
      PROVE  /\ [q EXCEPT !.todo = @ \ {g}] \in Request
             /\ [q EXCEPT !.todo = @ \ {g}].todo = q.todo \ {g}
             /\ [q EXCEPT !.todo = @ \ {g}].by = q.by
  BY DEF Request
<1>3. Running(Continue(q)) => Running(q) /\ Continue(q).todo \subseteq q.todo
  BY <1>1 DEF Running
<1>4. ASSUME NEW g
      PROVE  /\ Running(Without(q, g)) => Running(q) /\ Without(q, g).todo \subseteq q.todo \ {g}
             /\ Without(q, g).pc \in {"idle", "loop"}
  <2> DEFINE w == [q EXCEPT !.todo = @ \ {g}]
  <2>1. w \in Request /\ w.todo = q.todo \ {g} /\ w.by = q.by
    BY <1>2
  <2>2. Without(q, g) = Continue(w)
    BY DEF Without
  <2> HIDE DEF w
  <2> QED
    BY <1>1, <2>1, <2>2 DEF Running
<1> QED
  BY <1>1, <1>3, <1>4

\* SendCampaign marks the campaign as sending; if nobody changed the status
\* since it was read, it is the first to do so.
LEMMA LaunchStep ==
    ASSUME CampaignInv, TypeOK, NEW h \in Handlers, LaunchSending(h)
    PROVE  CampaignInv'
<1> DEFINE r == [req[h] EXCEPT !.pc = "loop"]
<1>1. r.pc = "loop"
  BY DEF TypeOK, Request
<1>2. Goto(h, r) /\ messages' = messages /\ campaign' = "sending"
  BY DEF LaunchSending
<1> HIDE DEF r
<1>3. \A i \in Handlers : req'[i] = IF i = h THEN r ELSE req[i]
  BY <1>2 DEF TypeOK, Goto
<1>4. \A i \in Handlers : req'[i].pc \in {"launch", "cancel"} =>
                            req'[i].seen \in {"draft", "cancelled"}
  BY <1>1, <1>3 DEF CampaignInv
<1>5. overlap => overlap'
  BY DEF LaunchSending
<1>6. CampaignFirst'
  BY <1>2, <1>5 DEF CampaignInv, CampaignFirst
<1>7. ASSUME ~overlap' PROVE (CampaignQuiet /\ OneRun /\ TodoUnserved)'
  <2>1. ~overlap /\ campaign = req[h].seen
    BY <1>7 DEF LaunchSending
  <2>2. campaign \in {"draft", "cancelled"}
    BY <2>1 DEF CampaignInv, LaunchSending
  <2>3. (\A i \in Handlers : ~Running(req[i])) /\ (\A m \in Messages : messages[m].by # "campaign")
    BY <2>1, <2>2 DEF CampaignInv, CampaignQuiet
  <2>4. \A i \in Handlers : Running(req'[i]) => i = h
    BY <2>3, <1>3
  <2>5. CampaignQuiet'
    BY <1>2 DEF CampaignQuiet
  <2>6. OneRun'
    BY <2>4 DEF OneRun, Running
  <2>7. TodoUnserved'
    BY <2>3, <1>2 DEF TodoUnserved
  <2> QED
    BY <2>5, <2>6, <2>7
<1> QED
  BY <1>4, <1>6, <1>7 DEF CampaignInv

\* A cancellation of a campaign that was launched meanwhile is an overlap.
LEMMA CancelStep ==
    ASSUME CampaignInv, TypeOK, NEW h \in Handlers, CancelWrite(h)
    PROVE  CampaignInv'
<1>1. Goto(h, Idle) /\ messages' = messages /\ campaign' = "cancelled"
  BY DEF CancelWrite, End
<1>2. \A i \in Handlers : req'[i] = IF i = h THEN Idle ELSE req[i]
  BY <1>1 DEF TypeOK, Goto
<1>3. Idle.pc = "idle" /\ ~Running(Idle)
  BY DEF Idle, Running
<1>4. \A i \in Handlers : req'[i].pc \in {"launch", "cancel"} =>
                            req'[i].seen \in {"draft", "cancelled"}
  BY <1>2, <1>3 DEF CampaignInv
<1>5. overlap => overlap'
  BY DEF CancelWrite
<1>6. CampaignFirst'
  BY <1>1, <1>5 DEF CampaignInv, CampaignFirst
<1>7. ASSUME ~overlap' PROVE (CampaignQuiet /\ OneRun /\ TodoUnserved)'
  <2>1. ~overlap /\ campaign = req[h].seen
    BY <1>7 DEF CancelWrite
  <2>2. campaign \in {"draft", "cancelled"}
    BY <2>1 DEF CampaignInv, CancelWrite
  <2>3. (\A i \in Handlers : ~Running(req[i])) /\ (\A m \in Messages : messages[m].by # "campaign")
    BY <2>1, <2>2 DEF CampaignInv, CampaignQuiet
  <2>4. \A i \in Handlers : ~Running(req'[i])
    BY <2>3, <1>2, <1>3
  <2> QED
    BY <2>3, <2>4, <1>1 DEF CampaignQuiet, OneRun, TodoUnserved, Running
<1> QED
  BY <1>4, <1>6, <1>7 DEF CampaignInv

\* The campaign's own INSERT: its guest is taken off the list of the only run.
LEMMA CampaignInsert ==
    ASSUME CampaignInv, TypeOK, NEW h \in Handlers, NEW g \in Guests, NEW m \in Messages,
           QueueCampaign(h, g, m)
    PROVE  CampaignInv'
<1> DEFINE w == Without(req[h], g)
           row == [ state |-> "queued", guest |-> g, kind |-> req[h].kind, by |-> "campaign",
                    recent |-> TypeOf(req[h].kind) = "reminder", id |-> FALSE, of |-> 0 ]
<1>1. req[h] \in Request /\ Running(req[h]) /\ req[h].pc = "loop" /\ g \in req[h].todo
  BY DEF TypeOK, QueueCampaign, Running
<1>2. w \in Request /\ (Running(w) => w.todo \subseteq req[h].todo \ {g})
      /\ w.pc \in {"idle", "loop"} /\ w.by = "campaign" /\ w.todo \subseteq req[h].todo \ {g}
  <2>1. w = [[req[h] EXCEPT !.todo = @ \ {g}] EXCEPT !.pc = "loop", !.msg = 0]
    BY <1>1 DEF Without, Continue, Request, Running
  <2> QED
    BY <2>1, <1>1, Continues DEF Request, Running
<1>3. messages' = [messages EXCEPT ![m] = row] /\ row.by = "campaign" /\ row.guest = g
  BY <1>1 DEF QueueCampaign, CreateMessage, Running
<1>4. \A n \in Messages : messages'[n] = IF n = m THEN row ELSE messages[n]
  BY <1>3 DEF TypeOK
<1>5. PICK r : Goto(h, r) /\ r.pc \in {"idle", "loop", "dispatch"}
               /\ (Running(r) => r.todo \subseteq req[h].todo \ {g})
  <2> DEFINE d == [w EXCEPT !.pc = "dispatch", !.msg = m]
  <2>1. Goto(h, w) \/ Goto(h, d)
    BY DEF QueueCampaign, AfterCreate
  <2> HIDE DEF w
  <2>2. d.pc = "dispatch" /\ d.todo = w.todo
    BY <1>2 DEF Request
  <2> HIDE DEF d
  <2> QED
    BY <1>2, <2>1, <2>2
<1> HIDE DEF row, w
<1>6. \A i \in Handlers : req'[i] = IF i = h THEN r ELSE req[i]
  BY <1>5 DEF TypeOK, Goto
<1>7. \A i \in Handlers : req'[i].pc \in {"launch", "cancel"} =>
                            req'[i].seen \in {"draft", "cancelled"}
  BY <1>5, <1>6 DEF CampaignInv
<1>8. overlap' = overlap /\ campaign' = campaign
  BY DEF QueueCampaign
<1>9. CASE overlap
  BY <1>7, <1>8, <1>9 DEF CampaignInv, CampaignFirst
<1>10. CASE ~overlap
  <2>1. CampaignQuiet /\ OneRun /\ TodoUnserved /\ CampaignFirst
    BY <1>10 DEF CampaignInv
  <2>2. \A i \in Handlers : Running(req'[i]) => i = h
    BY <1>1, <1>6, <2>1 DEF OneRun
  <2>3. \A n \in Messages : messages[n].by = "campaign" => messages[n].guest \notin req[h].todo
    BY <1>1, <2>1 DEF TodoUnserved
  <2>4. CampaignQuiet'
    BY <1>1, <1>8, <2>1 DEF CampaignQuiet
  <2>5. OneRun'
    BY <2>2 DEF OneRun, Running
  <2>6. TodoUnserved'
    <3> SUFFICES ASSUME NEW i \in Handlers, NEW n \in Messages,
                        Running(req'[i]), messages'[n].by = "campaign"
                 PROVE  messages'[n].guest \notin req'[i].todo
      BY DEF TodoUnserved, Running
    <3>1. i = h /\ req'[i] = r /\ Running(r)
      BY <2>2, <1>6
    <3> QED
      BY <3>1, <2>3, <1>3, <1>4, <1>5
  <2>7. CampaignFirst'
    <3> SUFFICES ASSUME NEW a \in Messages, NEW b \in Messages, a < b,
                        messages'[a].by = "campaign", messages'[b].by = "campaign",
                        messages'[a].guest = messages'[b].guest
                 PROVE  messages'[b].of # 0
      BY DEF CampaignFirst
    <3>0. a # b
      BY DEF Messages
    <3>1. CASE a # m /\ b # m
      BY <3>1, <1>4, <1>10, <2>1 DEF CampaignFirst
    <3>2. CASE a = m \/ b = m
      BY <3>0, <3>2, <1>1, <1>3, <1>4, <2>3
    <3> QED
      BY <3>1, <3>2
  <2> QED
    BY <1>7, <2>4, <2>5, <2>6, <2>7 DEF CampaignInv
<1> QED
  BY <1>9, <1>10

\* A retry of a message of the campaign is another one for the same guest: the
\* campaign was launched, and no run has that guest on its list.
LEMMA CampaignRetry ==
    ASSUME CampaignInv, MessagingInv, NEW h \in Handlers, NEW m \in Messages,
           NEW n \in Messages, RetryMessage(h, m, n)
    PROVE  CampaignInv'
<1> DEFINE s == [Idle EXCEPT !.pc = "dispatch", !.msg = n]
           old == messages[m]
           row == [ state |-> "queued", guest |-> old.guest, kind |-> old.kind,
                    by |-> IF old.by \in {"reminder", "campaign"} THEN old.by ELSE "other",
                    recent |-> TypeOf(old.kind) = "reminder", id |-> FALSE, of |-> m ]
<1>1. s.pc = "dispatch" /\ ~Running(s)
  BY DEF Idle, Running
<1>2. /\ row.guest = old.guest /\ row.of = m
      /\ row.by = "campaign" => old.by = "campaign"
  OBVIOUS
<1>3. /\ Goto(h, s) /\ messages' = [messages EXCEPT ![n] = row] /\ Fresh(n)
      /\ overlap' = overlap /\ campaign' = campaign
  BY DEF RetryMessage, CreateMessage
<1> HIDE DEF s, row
<1>4. \A i \in Handlers : req'[i] = IF i = h THEN s ELSE req[i]
  BY <1>3 DEF MessagingInv, TypeOK, Goto
<1>5. \A a \in Messages : messages'[a] = IF a = n THEN row ELSE messages[a]
  BY <1>3 DEF MessagingInv, TypeOK
<1>6. \A i \in Handlers : req'[i].pc \in {"launch", "cancel"} =>
                            req'[i].seen \in {"draft", "cancelled"}
  BY <1>1, <1>4 DEF CampaignInv
<1>7. CampaignFirst'
  <2> SUFFICES ASSUME NEW a \in Messages, NEW b \in Messages, a < b, ~overlap,
                      messages'[a].by = "campaign", messages'[b].by = "campaign",
                      messages'[a].guest = messages'[b].guest
               PROVE  messages'[b].of # 0
    BY <1>3 DEF CampaignFirst
  <2>1. CASE b = n
    BY <2>1, <1>2, <1>5 DEF Messages
  <2>2. CASE a = n /\ b # n
    <3>1. messages[n].state = "none" /\ messages'[b] = messages[b]
      BY <2>2, <1>3, <1>5 DEF Fresh
    <3>2. messages[b].state = "none"
      BY <2>2, <3>1 DEF MessagingInv, Ordered
    <3> QED
      BY <3>1, <3>2 DEF MessagingInv, RowsTied
  <2>3. CASE a # n /\ b # n
    BY <2>3, <1>5 DEF CampaignInv, CampaignFirst
  <2> QED
    BY <2>1, <2>2, <2>3
<1>8. ASSUME ~overlap PROVE (CampaignQuiet /\ OneRun /\ TodoUnserved)'
  <2>1. CampaignQuiet /\ OneRun /\ TodoUnserved
    BY <1>8 DEF CampaignInv
  <2>2. \A i \in Handlers : Running(req'[i]) => req'[i] = req[i]
    BY <1>1, <1>4
  <2>3. ASSUME NEW a \in Messages, messages'[a].by = "campaign"
        PROVE  \E b \in Messages : messages[b].by = "campaign"
                                   /\ messages[b].guest = messages'[a].guest
    BY <2>3, <1>2, <1>5
  <2>4. CampaignQuiet'
    <3> SUFFICES ASSUME campaign' \notin {"sending", "completed"}
                 PROVE  /\ \A i \in Handlers : ~Running(req'[i])
                        /\ \A a \in Messages : messages'[a].by # "campaign"
      BY DEF CampaignQuiet, Running
    <3> QED
      BY <1>3, <2>1, <2>2, <2>3 DEF CampaignQuiet
  <2>5. OneRun'
    <3> SUFFICES ASSUME NEW i \in Handlers, NEW j \in Handlers,
                        Running(req'[i]), Running(req'[j])
                 PROVE  i = j
      BY DEF OneRun, Running
    <3> QED
      BY <2>1, <2>2 DEF OneRun
  <2>6. TodoUnserved'
    <3> SUFFICES ASSUME NEW i \in Handlers, NEW a \in Messages,
                        Running(req'[i]), messages'[a].by = "campaign"
                 PROVE  messages'[a].guest \notin req'[i].todo
      BY DEF TodoUnserved, Running
    <3> QED
      BY <2>1, <2>2, <2>3 DEF TodoUnserved
  <2> QED
    BY <2>4, <2>5, <2>6
<1> QED
  BY <1>3, <1>6, <1>7, <1>8 DEF CampaignInv

\* The other steps of requests make no message of the campaign and start no run.
LEMMA CampaignOthers ==
    ASSUME CampaignInv, MessagingInv, NEW h \in Handlers,
           \/ StartStep(h)
           \/ LaunchCampaign(h) \/ CancelRead(h) \/ CompleteCampaign(h)
           \/ \E g \in Guests : SkipGuest(h, g) \/ QueueStops(h, g)
           \/ \E g \in Guests, m \in Messages : QueueMessage(h, g, m) \/ QueueReminder(h, g, m)
           \/ ProviderStep(h)
           \/ Abort(h)
    PROVE  CampaignInv'
<1> DEFINE Tame(r) ==
             /\ Running(r) => Running(req[h]) /\ r.todo \subseteq req[h].todo
             /\ r.pc \in {"launch", "cancel"} => r.seen \in {"draft", "cancelled"}
           Same == \A m \in Messages : messages'[m].by = "campaign" =>
                     /\ messages[m].by = "campaign"
                     /\ messages'[m].guest = messages[m].guest
                     /\ messages'[m].of = messages[m].of
<1>t. req[h] \in Request /\ messages \in [Messages -> Message]
  BY DEF MessagingInv, TypeOK
<1>idle. Tame(Idle)
  BY DEF Idle, Running
<1>same. messages' = messages => Same
  OBVIOUS
<1>new. ASSUME NEW m \in Messages, NEW g, NEW k, NEW by, by # "campaign",
               CreateMessage(m, g, k, by, 0)
        PROVE  Same
  <2> DEFINE row == [ state |-> "queued", guest |-> g, kind |-> k,
                      by |-> IF by \in {"reminder", "campaign"} THEN by ELSE "other",
                      recent |-> TypeOf(k) = "reminder", id |-> FALSE, of |-> 0 ]
  <2>1. messages' = [messages EXCEPT ![m] = row] /\ row.by # "campaign"
    BY <1>new DEF CreateMessage
  <2> HIDE DEF row
  <2>2. \A n \in Messages : messages'[n] = IF n = m THEN row ELSE messages[n]
    BY <2>1, <1>t
  <2> QED
    BY <2>1, <2>2
<1>go. ASSUME NEW r, Goto(h, r), Tame(r), Same, overlap' = overlap,
              campaign' = campaign \/ campaign' = "completed"
       PROVE  CampaignInv'
  BY <1>go, CampaignKept DEF MessagingInv
<1>cont. ASSUME req[h].pc \in InFlight \cup {"loop"}
         PROVE  /\ Tame(Continue(req[h]))
                /\ \A g : Tame(Without(req[h], g))
  <2>1. /\ Continue(req[h]).pc \in {"idle", "loop"}
        /\ \A g : Without(req[h], g).pc \in {"idle", "loop"}
    BY <1>cont, <1>t, ContinuesRun
  <2>2. Running(Continue(req[h])) => Running(req[h]) /\ Continue(req[h]).todo \subseteq req[h].todo
    BY <1>cont, <1>t, ContinuesRun
  <2>3. \A g : Running(Without(req[h], g)) =>
                 Running(req[h]) /\ Without(req[h], g).todo \subseteq req[h].todo
    BY <1>cont, <1>t, ContinuesRun
  <2> QED
    BY <2>1, <2>2, <2>3
<1> HIDE DEF Tame, Same
<1>1. ASSUME NEW r \in SendMessageRequest, SendMessage(h, r) PROVE CampaignInv'
  <2> DEFINE s == [Idle EXCEPT !.pc = "loop", !.by = "send", !.kind = r.kind, !.todo = r.guests]
  <2>1. Tame(s)
    BY DEF Tame, Idle, Running
  <2> HIDE DEF s
  <2> QED
    BY <1>1, <2>1, <1>go, <1>same DEF SendMessage, s
<1>2. ASSUME NEW r \in RSVPReminderSendRequest, SendRSVPReminders(h, r) PROVE CampaignInv'
  <2> DEFINE s == [Idle EXCEPT !.pc = "loop", !.kind = r.kind,
                     !.by = IF r.force THEN "forced" ELSE "reminder", !.todo = Eligible(r)]
  <2>1. Tame(s)
    BY DEF Tame, Idle, Running
  <2> HIDE DEF s
  <2> QED
    BY <1>2, <2>1, <1>go, <1>same DEF SendRSVPReminders, s
<1>3. ASSUME NEW m \in Messages, NEW n \in Messages, RetryMessage(h, m, n) PROVE CampaignInv'
  BY <1>3, CampaignRetry
<1>4. CASE LaunchCampaign(h)
  <2> DEFINE s == [Idle EXCEPT !.pc = "launch", !.by = "campaign", !.kind = CampaignKind,
                     !.seen = campaign, !.todo = Guests]
  <2>1. Tame(s)
    BY <1>4 DEF Tame, Idle, Running, InFlight, LaunchCampaign
  <2> HIDE DEF s
  <2> QED
    BY <1>4, <2>1, <1>go, <1>same DEF LaunchCampaign, s
<1>5. CASE CancelRead(h)
  <2> DEFINE s == [Idle EXCEPT !.pc = "cancel", !.seen = campaign]
  <2>1. Tame(s)
    BY <1>5 DEF Tame, Idle, Running, InFlight, CancelRead
  <2> HIDE DEF s
  <2> QED
    BY <1>5, <2>1, <1>go, <1>same DEF CancelRead, s
<1>6. CASE CompleteCampaign(h) \/ Abort(h) \/ \E g \in Guests : QueueStops(h, g)
  BY <1>6, <1>idle, <1>go, <1>same DEF CompleteCampaign, Abort, QueueStops, End
<1>7. ASSUME NEW g \in Guests, SkipGuest(h, g) PROVE CampaignInv'
  BY <1>7, <1>cont, <1>go, <1>same DEF SkipGuest
<1>8. ASSUME NEW g \in Guests, NEW m \in Messages,
             QueueMessage(h, g, m) \/ QueueReminder(h, g, m)
      PROVE  CampaignInv'
  <2>1. /\ req[h].pc = "loop" /\ req[h].by # "campaign"
        /\ CreateMessage(m, g, req[h].kind, req[h].by, 0)
        /\ AfterCreate(h, g, m) /\ overlap' = overlap /\ campaign' = campaign
    BY <1>8 DEF QueueMessage, QueueReminder
  <2>2. Same
    BY <2>1, <1>new
  <2> DEFINE w == Without(req[h], g)
             d == [w EXCEPT !.pc = "dispatch", !.msg = m]
  <2>3. w \in Request /\ Tame(w)
    BY <2>1, <1>t, <1>cont, Continues
  <2>4. w.by # "campaign"
    BY <2>1, <1>t, ContinuesRun DEF Without, Continue, Idle, Request
  <2>5. Goto(h, w) \/ Goto(h, d)
    BY <2>1 DEF AfterCreate
  <2> HIDE DEF w
  <2>6. Tame(d)
    BY <2>3, <2>4 DEF Tame, Running, Request
  <2> HIDE DEF d
  <2> QED
    BY <2>1, <2>2, <2>3, <2>5, <2>6, <1>go
<1>9. ASSUME NEW a \in Answers, Dispatch(h, a) PROVE CampaignInv'
  <2> DEFINE r == [req[h] EXCEPT !.pc = a]
  <2>1. Tame(r)
    BY <1>9, <1>t DEF Tame, Dispatch, Running, InFlight, Request, Answers
  <2>2. Goto(h, r) /\ messages' = messages /\ overlap' = overlap /\ campaign' = campaign
    BY <1>9 DEF Dispatch
  <2> HIDE DEF r
  <2> QED
    BY <2>1, <2>2, <1>go, <1>same
<1>10. CASE RecordLost(h)
  BY <1>10, <1>cont, <1>idle, <1>go, <1>same DEF RecordLost, InFlight
<1>11. ASSUME RecordFailed(h) \/ \E id \in BOOLEAN : RecordSent(h, id) PROVE CampaignInv'
  <2>1. req[h].pc \in InFlight /\ Goto(h, Continue(req[h]))
        /\ overlap' = overlap /\ campaign' = campaign
    BY <1>11 DEF RecordFailed, RecordSent, InFlight
  <2>2. \A n \in Messages : messages'[n].by = messages[n].by
                            /\ messages'[n].guest = messages[n].guest
                            /\ messages'[n].of = messages[n].of
    <3> DEFINE m == req[h].msg
    <3>1. m \in Messages
      BY <2>1 DEF MessagingInv, Tied, InFlight
    <3>2. ASSUME RecordFailed(h)
          PROVE  \A n \in Messages : messages'[n].by = messages[n].by
                                     /\ messages'[n].guest = messages[n].guest
                                     /\ messages'[n].of = messages[n].of
      BY <3>1, <3>2, <1>t DEF RecordFailed, Message
    <3>3. ASSUME NEW id \in BOOLEAN, RecordSent(h, id)
          PROVE  \A n \in Messages : messages'[n].by = messages[n].by
                                     /\ messages'[n].guest = messages[n].guest
                                     /\ messages'[n].of = messages[n].of
      <4> DEFINE row == [messages[m] EXCEPT !.state = "sent", !.id = id]
      <4>1. messages' = [messages EXCEPT ![m] = row]
        BY <3>1, <3>3, <1>t DEF RecordSent
      <4>2. row.by = messages[m].by /\ row.guest = messages[m].guest /\ row.of = messages[m].of
        BY <3>1, <1>t DEF Message
      <4> HIDE DEF row, m
      <4> QED
        BY <3>1, <4>1, <4>2, <1>t
    <3> QED
      BY <1>11, <3>2, <3>3
  <2> QED
    BY <2>1, <2>2, <1>cont, <1>go DEF Same
<1>12. CASE ReceiptWrite(h)
  <2>1. \A n \in Messages : messages'[n].by = messages[n].by
                            /\ messages'[n].guest = messages[n].guest
                            /\ messages'[n].of = messages[n].of
    BY <1>12, <1>t DEF ReceiptWrite, Message
  <2> QED
    BY <2>1, <1>12, <1>idle, <1>go DEF ReceiptWrite, End, Same
<1>13. ASSUME NEW m \in Messages, NEW st \in {"delivered", "read"}, Receipt(h, m, st)
       PROVE  CampaignInv'
  <2> DEFINE s == [Idle EXCEPT !.pc = "receipt", !.msg = m, !.seen = st]
  <2>1. Tame(s)
    BY DEF Tame, Idle, Running, InFlight
  <2> HIDE DEF s
  <2> QED
    BY <1>13, <2>1, <1>go, <1>same DEF Receipt, s
<1> QED
  BY <1>1, <1>2, <1>3, <1>4, <1>5, <1>6, <1>7, <1>8, <1>9, <1>10, <1>11, <1>12, <1>13
  DEF StartStep, ProviderStep, RetryRequest

\* SendCampaign sends once: while no request overwrites a status of the
\* campaign that it has not read, a guest gets one message of it and the retries
\* of failed ones, however launches, cancellations, crashes, retries and other
\* messages interleave.
THEOREM CampaignSendsOnce == Spec => []CampaignOnce
<1>1. Init => CampaignInv
  <2> SUFFICES ASSUME Init PROVE CampaignInv
    OBVIOUS
  <2>1. \A h \in Handlers : req[h].pc = "idle"
    BY DEF Init, Idle
  <2>2. \A m \in Messages : messages[m].by = "other"
    BY DEF Init, NoMessage
  <2> QED
    BY <2>1, <2>2 DEF CampaignInv, CampaignQuiet, OneRun, TodoUnserved, CampaignFirst,
       Running, InFlight
<1>2. MessagingInv /\ CampaignInv /\ [Next]_vars => CampaignInv'
  <2> SUFFICES ASSUME MessagingInv, CampaignInv, [Next]_vars PROVE CampaignInv'
    OBVIOUS
  <2>t. TypeOK
    BY DEF MessagingInv
  <2>1. ASSUME NEW h \in Handlers,
               StartStep(h) \/ CampaignStep(h) \/ LoopStep(h) \/ ProviderStep(h) \/ Abort(h)
        PROVE  CampaignInv'
    BY <2>1, <2>t, CampaignOthers, LaunchStep, CancelStep, CampaignInsert
    DEF CampaignStep, LoopStep
  <2>2. ASSUME UNCHANGED <<overlap, req>>,
               campaign' = campaign \/ campaign = "none",
               \A m \in Messages : messages'[m].by = messages[m].by
                                   /\ messages'[m].guest = messages[m].guest
                                   /\ messages'[m].of = messages[m].of
        PROVE  CampaignInv'
    <3>1. CampaignFirst'
      BY <2>2 DEF CampaignInv, CampaignFirst
    <3>2. CampaignQuiet => CampaignQuiet'
      BY <2>2 DEF CampaignQuiet, Running
    <3>3. OneRun => OneRun'
      BY <2>2 DEF OneRun, Running
    <3>4. TodoUnserved => TodoUnserved'
      BY <2>2 DEF TodoUnserved, Running
    <3> QED
      BY <2>2, <3>1, <3>2, <3>3, <3>4 DEF CampaignInv
  <2>3. ASSUME NEW m \in Messages, Age(m) PROVE CampaignInv'
    <3>1. \A n \in Messages : messages'[n].by = messages[n].by
                              /\ messages'[n].guest = messages[n].guest
                              /\ messages'[n].of = messages[n].of
      BY <2>3, <2>t DEF Age, TypeOK, Message
    <3> QED
      BY <2>3, <3>1, <2>2 DEF Age
  <2>4. CASE CreateCampaign \/ (\E g \in Guests : DeleteContact(g)) \/ UNCHANGED vars
    BY <2>4, <2>2 DEF CreateCampaign, DeleteContact, vars
  <2> QED
    BY <2>1, <2>3, <2>4 DEF Next
<1>3. MessagingInv /\ CampaignInv => CampaignOnce
  BY DEF MessagingInv, RowsTied, CampaignInv, CampaignFirst, CampaignOnce
<1> QED
  <2>1. Init => MessagingInv
    BY MessagingInit
  <2>2. MessagingInv /\ [Next]_vars => MessagingInv'
    BY MessagingStep
  <2> QED
    BY <1>1, <1>2, <1>3, <2>1, <2>2, PTL DEF Spec
=============================================================================

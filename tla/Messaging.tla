------------------------------ MODULE Messaging ------------------------------
(***************************************************************************)
(* The messages of one event: manual messages, RSVP reminders, retries,    *)
(* one campaign, and the receipts that the WhatsApp gateway (GOWA) sends   *)
(* to the webhook.  Every request runs one statement or one provider call  *)
(* at a time, beside the other requests.                                   *)
(*                                                                         *)
(* A request names an active template of some kind; templates are edited   *)
(* elsewhere.  Left out: rendering, subjects, timestamps other than the    *)
(* age of a row, the counters of the campaign, listings and statistics.    *)
(* Numbers and addresses may be edited at any time, so that whether one is *)
(* valid is decided when it is used.                                       *)
(***************************************************************************)
EXTENDS Integers, FiniteSets

CONSTANTS
    Guests,      \* the event's roster
    Kinds,       \* which of the kinds of templates below occur
    CampaignKind, \* the kind of the campaign
    MaxMessages, \* bound: how many messages are ever created
    Handlers,    \* concurrent request handlers
    NoGuest      \* "no guest": a message that does not exist

ASSUME MessagingAssumption ==
    /\ NoGuest \notin Guests
    /\ Kinds \subseteq {"reminder", "email", "sms"}
    /\ CampaignKind \in Kinds
    /\ MaxMessages \in Nat

VARIABLES
    gone,      \* the guests whose contact is deleted
    campaign,  \* the status of the event's campaign
    messages,  \* messages[m]: communication_messages, in order of insertion
    handed,    \* handed[m]: how often m was handed to the provider
    overlap,   \* history: a status of the campaign was overwritten unread
    req        \* req[h]: the request that handler h is serving

vars == <<gone, campaign, messages, handed, overlap, req>>

Messages == 1..MaxMessages

----------------------------------------------------------------------------
(* Rows and requests.                                                      *)

\* "reminder" is the default WhatsApp reminder, "email" a reminder by email,
\* "sms" another message by SMS.
ChannelOf(k) == CASE k = "reminder" -> "whatsapp" [] k = "email" -> "email" [] k = "sms" -> "sms"
TypeOf(k) == IF k = "sms" THEN "other" ELSE "reminder"

\* "draft" is also scheduled: nothing starts a campaign at its time.
CampaignStatuses == {"none", "draft", "sending", "completed", "cancelled"}

\* by tells from which request the message comes (the campaign, by campaign_id);
\* recent, that it is a reminder younger than 24 hours; id, that external_id is
\* known; of, a history, is the failed row that an operator retried with it.
Message ==
    [ state  : {"none", "queued", "sent", "delivered", "read", "failed"},
      guest  : Guests \cup {NoGuest},
      kind   : Kinds,
      by     : {"reminder", "campaign", "other"},
      recent : BOOLEAN,
      id     : BOOLEAN,
      of     : Messages \cup {0} ]

Steps == {"idle", "loop", "dispatch", "sent", "failed", "launch", "cancel",
          "receipt"}

\* seen is the status that the request has read.
Request ==
    [ pc   : Steps,
      by   : {"send", "reminder", "forced", "campaign"},
      kind : Kinds,
      todo : SUBSET Guests,
      msg  : Messages \cup {0},
      seen : CampaignStatuses \cup {"delivered", "read"} ]

\* What the handlers let through.
SendMessageRequest == [kind : Kinds, guests : SUBSET Guests \ {{}}]
RSVPReminderSendRequest == [kind : Kinds, guests : SUBSET Guests, force : BOOLEAN]
RetryRequest == Messages

\* validateRSVPReminderTemplate.
ReminderTemplate(k) == TypeOf(k) = "reminder" /\ ChannelOf(k) \in {"whatsapp", "email"}

\* What comes of a call of the provider (SendFor, Mailer.Send): it fails
\* without a valid number or address, and may fail although the provider took
\* the message.
Answers == {"sent", "failed"}

AKind == CHOOSE k \in Kinds : TRUE
NoMessage ==
    [ state |-> "none", guest |-> NoGuest, kind |-> AKind, by |-> "other",
      recent |-> FALSE, id |-> FALSE, of |-> 0 ]
Idle ==
    [ pc |-> "idle", by |-> "send", kind |-> AKind, todo |-> {}, msg |-> 0,
      seen |-> "draft" ]

Goto(h, r) == req' = [req EXCEPT ![h] = r]
End(h) == Goto(h, Idle)

\* The statement SELECT EXISTS of CreateRSVPReminderMessage; the candidate
\* list has the same condition.
RecentlyReminded(g) ==
    \E m \in Messages :
        /\ messages[m].guest = g
        /\ messages[m].state # "failed"
        /\ messages[m].recent

----------------------------------------------------------------------------
(* Sending.  A request handles its guests in any order.                    *)

\* SendMessage.  A WhatsApp batch is validated before anything is written: the
\* guests have a contact and a valid number.
SendMessage(h, r) ==
    /\ req[h].pc = "idle"
    /\ ChannelOf(r.kind) = "whatsapp" => r.guests \cap gone = {}
    /\ Goto(h, [Idle EXCEPT !.pc = "loop", !.by = "send", !.kind = r.kind, !.todo = r.guests])
    /\ UNCHANGED <<gone, campaign, messages, handed, overlap>>

\* ListRSVPReminderCandidates, of guests who hold a live invitation and have
\* not answered it.
ReminderCandidates == Guests \ gone

\* filterRSVPReminderCandidates, of guests who have a valid number.
Eligible(r) ==
    {g \in ReminderCandidates \cap r.guests : r.force \/ ~RecentlyReminded(g)}

SendRSVPReminders(h, r) ==
    /\ req[h].pc = "idle"
    /\ ReminderTemplate(r.kind)
    /\ Eligible(r) # {}
    /\ Goto(h, [Idle EXCEPT !.pc = "loop", !.kind = r.kind,
                  !.by = IF r.force THEN "forced" ELSE "reminder",
                  !.todo = Eligible(r)])
    /\ UNCHANGED <<gone, campaign, messages, handed, overlap>>

\* Mutant: a campaign that was completed may be launched again.
LaunchAgain(h) ==
    /\ req[h].pc = "idle"
    /\ campaign \in {"draft", "cancelled", "completed"}
    /\ Goto(h, [Idle EXCEPT !.pc = "launch", !.by = "campaign", !.kind = CampaignKind,
                  !.seen = campaign, !.todo = Guests])
    /\ UNCHANGED <<gone, campaign, messages, handed, overlap>>

\* SendCampaign: the status is read and the recipients are listed.
LaunchCampaign(h) ==
    /\ req[h].pc = "idle"
    /\ campaign \in {"draft", "cancelled"}
    /\ Goto(h, [Idle EXCEPT !.pc = "launch", !.by = "campaign", !.kind = CampaignKind,
                  !.seen = campaign, !.todo = Guests])
    /\ UNCHANGED <<gone, campaign, messages, handed, overlap>>

\* UpdateCampaignStatus(sending).
LaunchSending(h) ==
    /\ req[h].pc = "launch"
    /\ campaign' = "sending"
    /\ overlap' = (overlap \/ campaign # req[h].seen)
    /\ Goto(h, [req[h] EXCEPT !.pc = "loop"])
    /\ UNCHANGED <<gone, messages, handed>>

\* The next message; rows are numbered in the order of their insertion.
Fresh(m) ==
    /\ messages[m].state = "none"
    /\ \A n \in Messages : n < m => messages[n].state # "none"

CreateMessage(m, g, k, by, of) ==
    messages' = [messages EXCEPT ![m] =
        [ state |-> "queued", guest |-> g, kind |-> k,
          by |-> IF by \in {"reminder", "campaign"} THEN by ELSE "other",
          recent |-> TypeOf(k) = "reminder", id |-> FALSE, of |-> of ]]

\* A request with nothing left to do has ended; a campaign has to be completed.
Continue(r) ==
    IF r.todo = {} /\ r.by # "campaign" THEN Idle ELSE [r EXCEPT !.pc = "loop", !.msg = 0]
Without(r, g) == Continue([r EXCEPT !.todo = @ \ {g}])

\* An SMS, and an email of a campaign, stays queued: nothing dispatches it.
AfterCreate(h, g, m) ==
    LET c == ChannelOf(req[h].kind)
        r == Without(req[h], g)
    IN  Goto(h, IF c = "whatsapp" \/ (c = "email" /\ req[h].by # "campaign")
                THEN [r EXCEPT !.pc = "dispatch", !.msg = m] ELSE r)

\* SendMessage.  Off WhatsApp the contact is read only now.
QueueMessage(h, g, m) ==
    /\ req[h].pc = "loop"
    /\ req[h].by = "send"
    /\ g \in req[h].todo
    /\ ChannelOf(req[h].kind) # "whatsapp" => g \notin gone
    /\ Fresh(m)
    /\ CreateMessage(m, g, req[h].kind, req[h].by, 0)
    /\ AfterCreate(h, g, m)
    /\ UNCHANGED <<gone, campaign, handed, overlap>>

\* A contact that is gone ends the batch; what was sent stays sent.
QueueStops(h, g) ==
    /\ req[h].pc = "loop"
    /\ req[h].by = "send"
    /\ ChannelOf(req[h].kind) # "whatsapp"
    /\ g \in req[h].todo
    /\ g \in gone
    /\ End(h)
    /\ UNCHANGED <<gone, campaign, messages, handed, overlap>>

\* Mutant: the candidate list was check enough.
ClaimWithoutLock(h, g, m) ==
    /\ req[h].pc = "loop"
    /\ req[h].by \in {"reminder", "forced"}
    /\ g \in req[h].todo
    /\ g \notin gone
    /\ Fresh(m)
    /\ CreateMessage(m, g, req[h].kind, req[h].by, 0)
    /\ AfterCreate(h, g, m)
    /\ UNCHANGED <<gone, campaign, handed, overlap>>

\* CreateRSVPReminderMessage: under an advisory lock, look again and insert.
QueueReminder(h, g, m) ==
    /\ req[h].pc = "loop"
    /\ req[h].by \in {"reminder", "forced"}
    /\ g \in req[h].todo
    /\ g \notin gone
    /\ req[h].by = "forced" \/ ~RecentlyReminded(g)
    /\ Fresh(m)
    /\ CreateMessage(m, g, req[h].kind, req[h].by, 0)
    /\ AfterCreate(h, g, m)
    /\ UNCHANGED <<gone, campaign, handed, overlap>>

\* SendCampaign's loop over the recipients.
QueueCampaign(h, g, m) ==
    /\ req[h].pc = "loop"
    /\ req[h].by = "campaign"
    /\ g \in req[h].todo
    /\ g \notin gone
    /\ Fresh(m)
    /\ CreateMessage(m, g, req[h].kind, req[h].by, 0)
    /\ AfterCreate(h, g, m)
    /\ UNCHANGED <<gone, campaign, handed, overlap>>

\* Reminders and campaigns pass over a guest and go on: reminders, when the
\* contact or the invitation is gone (an invitation may be deleted at any time)
\* or the guest was reminded meanwhile; a campaign, also when the number is not
\* valid or the insert fails.
SkipGuest(h, g) ==
    /\ req[h].pc = "loop"
    /\ g \in req[h].todo
    /\ req[h].by \in {"reminder", "forced", "campaign"}
    /\ Goto(h, Without(req[h], g))
    /\ UNCHANGED <<gone, campaign, messages, handed, overlap>>

\* RetryMessage: a failed message is sent again as another row, of the same
\* type and campaign, and without a look at the throttle.  A failed row never
\* changes, so that it may as well be read when the new one is inserted; it was
\* dispatched, so that its channel can be.
RetryMessage(h, m, n) ==
    LET r == messages[m] IN
    /\ req[h].pc = "idle"
    /\ r.state = "failed"
    /\ r.guest \notin gone
    /\ Fresh(n)
    /\ CreateMessage(n, r.guest, r.kind, r.by, m)
    /\ Goto(h, [Idle EXCEPT !.pc = "dispatch", !.msg = n])
    /\ UNCHANGED <<gone, campaign, handed, overlap>>

\* The end of a campaign's loop: completed, whatever its status is now.
CompleteCampaign(h) ==
    /\ req[h].pc = "loop"
    /\ req[h].todo = {}
    /\ campaign' = "completed"
    /\ End(h)
    /\ UNCHANGED <<gone, messages, handed, overlap>>

----------------------------------------------------------------------------
(* The provider.                                                           *)

\* dispatchWhatsApp, dispatchEmail: the call.
Dispatch(h, answer) ==
    LET m == req[h].msg IN
    /\ req[h].pc = "dispatch"
    /\ handed' = [handed EXCEPT ![m] = @ + 1]
    /\ Goto(h, [req[h] EXCEPT !.pc = answer])
    /\ UNCHANGED <<gone, campaign, messages, overlap>>

\* UpdateMessageStatus(sent), with the provider's id if it gave one.
RecordSent(h, id) ==
    LET m == req[h].msg IN
    /\ req[h].pc = "sent"
    /\ id => ChannelOf(messages[m].kind) = "whatsapp"
    /\ messages' = [messages EXCEPT ![m].state = "sent", ![m].id = id]
    /\ Goto(h, Continue(req[h]))
    /\ UNCHANGED <<gone, campaign, handed, overlap>>

\* Mutant: a call that failed is repeated at once.
RequeueFailed(h) ==
    /\ req[h].pc = "failed"
    /\ Goto(h, [req[h] EXCEPT !.pc = "dispatch"])
    /\ UNCHANGED <<gone, campaign, messages, handed, overlap>>

\* UpdateMessageStatus(failed).
RecordFailed(h) ==
    LET m == req[h].msg IN
    /\ req[h].pc = "failed"
    /\ messages' = [messages EXCEPT ![m].state = "failed"]
    /\ Goto(h, Continue(req[h]))
    /\ UNCHANGED <<gone, campaign, handed, overlap>>

\* The outcome cannot be written: a campaign goes on, other requests end.
RecordLost(h) ==
    /\ req[h].pc \in {"sent", "failed"}
    /\ Goto(h, IF req[h].by = "campaign" THEN Continue(req[h]) ELSE Idle)
    /\ UNCHANGED <<gone, campaign, messages, handed, overlap>>

\* GOWAWebhookHandler.Handle: receipts come in any order, and repeatedly; one
\* whose id is not known yet is dropped.
Receipt(h, m, status) ==
    /\ req[h].pc = "idle"
    /\ messages[m].id
    /\ messages[m].state \notin {"read", "failed"}
    /\ ~(messages[m].state = "delivered" /\ status = "delivered")
    /\ Goto(h, [Idle EXCEPT !.pc = "receipt", !.msg = m, !.seen = status])
    /\ UNCHANGED <<gone, campaign, messages, handed, overlap>>

ReceiptWrite(h) ==
    LET m == req[h].msg IN
    /\ req[h].pc = "receipt"
    /\ messages' = [messages EXCEPT ![m].state = req[h].seen]
    /\ End(h)
    /\ UNCHANGED <<gone, campaign, handed, overlap>>

----------------------------------------------------------------------------
(* The campaign, the other tables, time and failures.                      *)

CreateCampaign ==
    /\ campaign = "none"
    /\ campaign' = "draft"
    /\ UNCHANGED <<gone, messages, handed, overlap, req>>

CancelRead(h) ==
    /\ req[h].pc = "idle"
    /\ campaign \in {"draft", "cancelled"}
    /\ Goto(h, [Idle EXCEPT !.pc = "cancel", !.seen = campaign])
    /\ UNCHANGED <<gone, campaign, messages, handed, overlap>>

CancelWrite(h) ==
    /\ req[h].pc = "cancel"
    /\ campaign' = "cancelled"
    /\ overlap' = (overlap \/ campaign # req[h].seen)
    /\ End(h)
    /\ UNCHANGED <<gone, messages, handed>>

DeleteContact(g) ==
    /\ g \notin gone
    /\ gone' = gone \cup {g}
    /\ UNCHANGED <<campaign, messages, handed, overlap, req>>

\* 24 hours pass.
Age(m) ==
    /\ messages[m].recent
    /\ messages' = [messages EXCEPT ![m].recent = FALSE]
    /\ UNCHANGED <<gone, campaign, handed, overlap, req>>

\* The process stops, or a statement fails.
Abort(h) ==
    /\ req[h].pc # "idle"
    /\ End(h)
    /\ UNCHANGED <<gone, campaign, messages, handed, overlap>>

----------------------------------------------------------------------------

Init ==
    /\ gone = {}
    /\ campaign = "none"
    /\ messages = [m \in Messages |-> NoMessage]
    /\ handed = [m \in Messages |-> 0]
    /\ overlap = FALSE
    /\ req = [h \in Handlers |-> Idle]

StartStep(h) ==
    \/ \E r \in SendMessageRequest : SendMessage(h, r)
    \/ \E r \in RSVPReminderSendRequest : SendRSVPReminders(h, r)
    \/ \E m \in RetryRequest, n \in Messages : RetryMessage(h, m, n)
CampaignStep(h) ==
    LaunchCampaign(h) \/ LaunchSending(h) \/ CancelRead(h) \/ CancelWrite(h)
LoopStep(h) ==
    \/ CompleteCampaign(h)
    \/ \E g \in Guests :
         \/ SkipGuest(h, g) \/ QueueStops(h, g)
         \/ \E m \in Messages :
              QueueMessage(h, g, m) \/ QueueReminder(h, g, m) \/ QueueCampaign(h, g, m)
ProviderStep(h) ==
    \/ \E a \in Answers : Dispatch(h, a)
    \/ \E id \in BOOLEAN : RecordSent(h, id)
    \/ RecordFailed(h) \/ RecordLost(h) \/ ReceiptWrite(h)
    \/ \E m \in Messages, s \in {"delivered", "read"} : Receipt(h, m, s)

Next ==
    \/ \E h \in Handlers :
         StartStep(h) \/ CampaignStep(h) \/ LoopStep(h) \/ ProviderStep(h) \/ Abort(h)
    \/ CreateCampaign
    \/ \E g \in Guests : DeleteContact(g)
    \/ \E m \in Messages : Age(m)

Spec == Init /\ [][Next]_vars

----------------------------------------------------------------------------
(* Properties.                                                             *)

TypeOK ==
    /\ gone \subseteq Guests
    /\ campaign \in CampaignStatuses
    /\ messages \in [Messages -> Message]
    /\ handed \in [Messages -> Nat]
    /\ overlap \in BOOLEAN
    /\ req \in [Handlers -> Request]

\* Message n sends the failed message of the same guest again.
Retries(n) ==
    LET m == messages[n].of IN
    /\ m \in Messages
    /\ messages[m].state = "failed"
    /\ messages[m].guest = messages[n].guest
    /\ messages[m].by = messages[n].by

\* SendRSVPReminders: however requests overlap, nobody has two reminders of
\* the last 24 hours that were not forced and did not fail, unless the later
\* one is an operator's retry of a reminder that failed.
ReminderThrottle ==
    \A m, n \in Messages :
        /\ m < n
        /\ messages[m].by = "reminder" /\ messages[n].by = "reminder"
        /\ messages[m].guest = messages[n].guest
        /\ messages[m].recent /\ messages[n].recent
        /\ {messages[m].state, messages[n].state} \cap {"none", "failed"} = {}
        => Retries(n)

\* SendCampaign: a guest gets another message of the campaign only if a launch
\* and another launch or a cancellation overlapped, or as the retry of one that
\* failed.
CampaignOnce ==
    \A m, n \in Messages :
        /\ m < n
        /\ messages[m].by = "campaign" /\ messages[n].by = "campaign"
        /\ messages[m].guest = messages[n].guest
        => overlap \/ Retries(n)

\* The rows of every sender, with the receipts, keep the promise of Delivery:
\* delivered and read are both an acknowledgement.
TableState(m) ==
    CASE messages[m].state \in {"delivered", "read"} -> "acknowledged"
      [] OTHER -> messages[m].state

D == INSTANCE Delivery WITH state <- [m \in Messages |-> TableState(m)]

DeliverySpec == D!Spec
=============================================================================

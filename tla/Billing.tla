------------------------------- MODULE Billing -------------------------------
(***************************************************************************)
(* Payments and subscriptions of one tenant.                               *)
(*                                                                         *)
(* Midtrans, the payment gateway, notifies the outcome of an order to a    *)
(* webhook and repeats a notification until it is answered with HTTP 200.  *)
(* The webhook handler runs without a transaction; beside it the billing   *)
(* page, the tenant's settings pages and the daily cron read and write the *)
(* tenant's status.  One action is one SQL statement.                      *)
(***************************************************************************)
EXTENDS Integers, Sequences, FiniteSets

CONSTANTS
    Orders,     \* orders that may be created at Midtrans
    NoOrder,    \* the order of a handler that has none
    Hooks,      \* concurrent webhook handlers
    Pages,      \* concurrent handlers of pages that read the tenant's row
    Servers,    \* server processes, each with a cron of its own
    MaxFaults   \* bound on the failures of one behaviour

ASSUME BillingAssumption ==
    /\ NoOrder \notin Orders
    /\ IsFiniteSet(Hooks)
    /\ MaxFaults \in Nat

VARIABLES
    tenant,     \* tenants.status
    trialEnded, \* trial_ends_at has passed
    payments,   \* payments[o]: the payments row of order o
    subs,       \* the subscriptions rows, oldest first
    gateway,    \* gateway[o]: the order at Midtrans
    inbox,      \* notifications Midtrans goes on sending
    hook,       \* hook[h]: the notification webhook handler h is processing
    page,       \* page[p]: what page handler p is doing
    cron,       \* cron[s]: the cron's run of ProcessExpiredSubscriptions
    faults      \* failures so far

vars == <<tenant, trialEnded, payments, subs, gateway, inbox, hook, page, cron, faults>>

----------------------------------------------------------------------------
(* Rows, notifications and handlers.                                       *)

\* The cron writes "trial_expired", which is no TenantStatus constant.
TenantStatuses == {"trial", "active", "suspended", "trial_expired"}

\* "failed" stands for failed and expired; sub is subscription_id, 0 for NULL.
Payment ==
    [ status : {"absent", "pending", "success", "failed"},
      sub    : Nat ]

NoPayment == [ status |-> "absent", sub |-> 0 ]

\* lapsed: expires_at has passed.
Subscription ==
    [ order  : Orders,
      status : {"active", "expired"},
      lapsed : BOOLEAN ]

ActiveSubs == {k \in DOMAIN subs : subs[k].status = "active"}

\* GetByMidtransOrderID finds a row.
Recorded(o) == payments[o].status # "absent"

\* What a notification says: paid, failed (or expired), or still undecided
\* ("pending", or a card "capture" that is held for a fraud check).
Kinds == {"settlement", "failure", "pending"}

\* Mutant: a capture counts as paid whatever the fraud status.
AnyCaptureIsSuccess(kind) == kind \in {"settlement", "pending"}

IsSuccessStatus(kind) == kind = "settlement"

IsFailedStatus(kind) == kind = "failure"

Handler ==
    [ pc    : {"idle", "fail", "expire", "insert", "paid", "activate", "reply"},
      order : Orders \cup {NoOrder},
      kind  : Kinds,
      sub   : Nat,    \* the subscription the handler has created
      overtaken : BOOLEAN ]   \* history: it found the order not paid, and
                              \* another request has recorded it as paid

IdleHook ==
    [ pc |-> "idle", order |-> NoOrder, kind |-> "pending", sub |-> 0,
      overtaken |-> FALSE ]

PageSteps == {"idle", "status_sub", "sub_expire", "suspend", "edit"}

\* seen is the status of the tenant's row as read; sub the row to expire.
PageRequest == [ pc : PageSteps, seen : TenantStatuses, sub : Nat ]

IdlePage == [ pc |-> "idle", seen |-> "trial", sub |-> 0 ]

CronRun ==
    [ pc   : {"idle", "trial", "list", "expire", "suspend"},
      todo : SUBSET Nat ]   \* lapsed subscriptions still to be processed

IdleCron == [ pc |-> "idle", todo |-> {} ]

----------------------------------------------------------------------------
(* Checkout and the gateway.                                               *)

\* The order at Midtrans.
CreateTransaction(o) ==
    /\ gateway[o] = "none"
    /\ gateway' = [gateway EXCEPT ![o] = "open"]
    /\ inbox' = inbox \cup {<<o, "pending">>}

CreatePayment(o) == payments' = [payments EXCEPT ![o].status = "pending"]

\* The order is created at Midtrans, then the pending row: a failure of the
\* INSERT is logged and ignored.  Nobody can pay before Checkout returns the
\* token, so the two are one step.
Checkout(o) ==
    /\ CreateTransaction(o)
    /\ \/ /\ CreatePayment(o)
          /\ UNCHANGED faults
       \/ /\ faults < MaxFaults
          /\ faults' = faults + 1
          /\ UNCHANGED payments
    /\ UNCHANGED <<tenant, trialEnded, subs, hook, page, cron>>

\* A payment attempt is denied; the customer may try again.
Deny(o) ==
    /\ gateway[o] = "open"
    /\ <<o, "failure">> \notin inbox
    /\ inbox' = inbox \cup {<<o, "failure">>}
    /\ UNCHANGED <<tenant, trialEnded, payments, subs, gateway, hook, page, cron, faults>>

\* The customer pays.
Settle(o) ==
    /\ gateway[o] = "open"
    /\ gateway' = [gateway EXCEPT ![o] = "settled"]
    /\ inbox' = inbox \cup {<<o, "settlement">>}
    /\ UNCHANGED <<tenant, trialEnded, payments, subs, hook, page, cron, faults>>

----------------------------------------------------------------------------
(* HandleWebhookNotification and activateSubscription.                     *)

HookGoto(h, pc) == hook' = [hook EXCEPT ![h].pc = pc]

\* Mutant: a payment that succeeded is processed again.
NoSuccessCheck(h, o, kind) ==
    /\ hook[h].pc = "idle"
    /\ <<o, kind>> \in inbox
    /\ Recorded(o)
    /\ hook' = [hook EXCEPT ![h] =
         [ order |-> o, kind |-> kind, sub |-> 0, overtaken |-> FALSE,
           pc |-> IF IsSuccessStatus(kind) THEN "expire"
                  ELSE IF IsFailedStatus(kind) THEN "fail"
                  ELSE "reply" ]]
    /\ UNCHANGED <<tenant, trialEnded, payments, subs, gateway, inbox, page, cron, faults>>

\* The handler looks up the payment (an order without a row is answered 404)
\* and has nothing to do when it succeeded already.
HookRead(h, o, kind) ==
    /\ hook[h].pc = "idle"
    /\ <<o, kind>> \in inbox
    /\ Recorded(o)
    /\ hook' = [hook EXCEPT ![h] =
         [ order |-> o, kind |-> kind, sub |-> 0, overtaken |-> FALSE,
           pc |-> IF payments[o].status = "success" THEN "reply"
                  ELSE IF IsSuccessStatus(kind) THEN "expire"
                  ELSE IF IsFailedStatus(kind) THEN "fail"
                  ELSE "reply" ]]
    /\ UNCHANGED <<tenant, trialEnded, payments, subs, gateway, inbox, page, cron, faults>>

\* UpdateOnFailed: no condition on the status it overwrites.
HookFail(h) ==
    /\ hook[h].pc = "fail"
    /\ payments' = [payments EXCEPT ![hook[h].order].status = "failed"]
    /\ HookGoto(h, "reply")
    /\ UNCHANGED <<tenant, trialEnded, subs, gateway, inbox, page, cron, faults>>

\* Mutant: activateSubscription leaves older subscriptions active.
KeepActive(h) ==
    /\ hook[h].pc = "expire"
    /\ HookGoto(h, "insert")
    /\ UNCHANGED <<tenant, trialEnded, payments, subs, gateway, inbox, page, cron, faults>>

\* ExpireAllActive; its error is ignored.
HookExpire(h) ==
    /\ hook[h].pc = "expire"
    /\ \/ /\ subs' = [k \in DOMAIN subs |-> [subs[k] EXCEPT !.status = "expired"]]
          /\ UNCHANGED faults
       \/ /\ faults < MaxFaults
          /\ faults' = faults + 1
          /\ UNCHANGED subs
    /\ HookGoto(h, "insert")
    /\ UNCHANGED <<tenant, trialEnded, payments, gateway, inbox, page, cron>>

CreateSubscription(o) ==
    subs' = Append(subs, [ order |-> o, status |-> "active", lapsed |-> FALSE ])

\* The new subscription starts now, whatever was left of the old one.
HookInsert(h) ==
    /\ hook[h].pc = "insert"
    /\ CreateSubscription(hook[h].order)
    /\ hook' = [hook EXCEPT ![h].pc = "paid", ![h].sub = Len(subs')]
    /\ UNCHANGED <<tenant, trialEnded, payments, gateway, inbox, page, cron, faults>>

\* Mutant: the row takes the gateway's word for the outcome.
RecordGatewayStatus(h) ==
    /\ hook[h].pc = "paid"
    /\ payments' = [payments EXCEPT ![hook[h].order] =
                      [ status |-> hook[h].kind, sub |-> hook[h].sub ]]
    /\ HookGoto(h, "activate")
    /\ UNCHANGED <<tenant, trialEnded, subs, gateway, inbox, page, cron, faults>>

\* Mutant: the payment is not linked to its subscription.
ForgetSubscription(h) ==
    /\ hook[h].pc = "paid"
    /\ payments' = [payments EXCEPT ![hook[h].order].status = "success"]
    /\ HookGoto(h, "activate")
    /\ UNCHANGED <<tenant, trialEnded, subs, gateway, inbox, page, cron, faults>>

UpdateOnSuccess(o, sub) ==
    payments' = [payments EXCEPT ![o] = [ status |-> "success", sub |-> sub ]]

HookPaid(h) ==
    /\ hook[h].pc = "paid"
    /\ UpdateOnSuccess(hook[h].order, hook[h].sub)
    /\ hook' = [g \in Hooks |->
         IF g = h THEN [hook[g] EXCEPT !.pc = "activate"]
         ELSE [hook[g] EXCEPT !.overtaken =
                 @ \/ (hook[g].pc = "fail" /\ hook[g].order = hook[h].order)]]
    /\ UNCHANGED <<tenant, trialEnded, subs, gateway, inbox, page, cron, faults>>

\* TenantRepository.Update: the whole row, of which the model keeps the status.
WriteTenant(status) == tenant' = status

\* Mutant: a tenant that is out of its trial is not made active.
ActivateTrialOnly(h) ==
    /\ hook[h].pc = "activate"
    /\ tenant' = IF tenant = "trial" THEN "active" ELSE tenant
    /\ HookGoto(h, "reply")
    /\ UNCHANGED <<trialEnded, payments, subs, gateway, inbox, page, cron, faults>>

\* updateTenantStatus.
HookActivate(h) ==
    /\ hook[h].pc = "activate"
    /\ WriteTenant("active")
    /\ HookGoto(h, "reply")
    /\ UNCHANGED <<trialEnded, payments, subs, gateway, inbox, page, cron, faults>>

\* HTTP 200: Midtrans stops sending this notification.
HookReply(h) ==
    /\ hook[h].pc = "reply"
    /\ inbox' = inbox \ {<<hook[h].order, hook[h].kind>>}
    /\ hook' = [hook EXCEPT ![h] = IdleHook]
    /\ UNCHANGED <<tenant, trialEnded, payments, subs, gateway, page, cron, faults>>

\* Mutant: the webhook answers 200 although a statement failed.
AcknowledgeFailure(h) ==
    /\ hook[h].pc # "idle"
    /\ faults < MaxFaults
    /\ faults' = faults + 1
    /\ inbox' = inbox \ {<<hook[h].order, hook[h].kind>>}
    /\ hook' = [hook EXCEPT ![h] = IdleHook]
    /\ UNCHANGED <<tenant, trialEnded, payments, subs, gateway, page, cron>>

\* A statement fails, the process stops or the answer is lost: Midtrans gets
\* no 200 and sends the notification again.
HookFault(h) ==
    /\ hook[h].pc # "idle"
    /\ faults < MaxFaults
    /\ faults' = faults + 1
    /\ hook' = [hook EXCEPT ![h] = IdleHook]
    /\ UNCHANGED <<tenant, trialEnded, payments, subs, gateway, inbox, page, cron>>

----------------------------------------------------------------------------
(* Pages that write the tenant's status.                                   *)

PageGoto(p, r) == page' = [page EXCEPT ![p] = r]

\* GetSubscriptionStatus reads the tenant ...
StatusTenant(p) ==
    /\ page[p].pc = "idle"
    /\ PageGoto(p, [ pc |-> "status_sub", seen |-> tenant, sub |-> 0 ])
    /\ UNCHANGED <<tenant, trialEnded, payments, subs, gateway, inbox, hook, cron, faults>>

\* ... then its newest active subscription: a lapsed one is expired and the
\* tenant suspended; without one a trial that is over is suspended.
StatusSubscription(p) ==
    /\ page[p].pc = "status_sub"
    /\ IF ActiveSubs = {}
       THEN PageGoto(p, IF page[p].seen = "trial" /\ trialEnded
                        THEN [page[p] EXCEPT !.pc = "suspend"] ELSE IdlePage)
       ELSE LET newest == CHOOSE k \in ActiveSubs : \A j \in ActiveSubs : j <= k IN
            PageGoto(p, IF subs[newest].lapsed
                        THEN [page[p] EXCEPT !.pc = "sub_expire", !.sub = newest]
                        ELSE IdlePage)
    /\ UNCHANGED <<tenant, trialEnded, payments, subs, gateway, inbox, hook, cron, faults>>

StatusExpire(p) ==
    /\ page[p].pc = "sub_expire"
    /\ subs' = [subs EXCEPT ![page[p].sub].status = "expired"]
    /\ PageGoto(p, [page[p] EXCEPT !.pc = "suspend"])
    /\ UNCHANGED <<tenant, trialEnded, payments, gateway, inbox, hook, cron, faults>>

\* TenantService.Get suspends a trial that is over.
GetTenant(p) ==
    /\ page[p].pc = "idle"
    /\ tenant = "trial" /\ trialEnded
    /\ PageGoto(p, [IdlePage EXCEPT !.pc = "suspend"])
    /\ UNCHANGED <<tenant, trialEnded, payments, subs, gateway, inbox, hook, cron, faults>>

SuspendTenant(p) ==
    /\ page[p].pc = "suspend"
    /\ WriteTenant("suspended")
    /\ PageGoto(p, IdlePage)
    /\ UNCHANGED <<trialEnded, payments, subs, gateway, inbox, hook, cron, faults>>

\* TenantService.Update and the WhatsApp settings read the row ...
EditRead(p) ==
    /\ page[p].pc = "idle"
    /\ PageGoto(p, [ pc |-> "edit", seen |-> tenant, sub |-> 0 ])
    /\ UNCHANGED <<tenant, trialEnded, payments, subs, gateway, inbox, hook, cron, faults>>

\* ... and write it back, the status as read included.
EditWrite(p) ==
    /\ page[p].pc = "edit"
    /\ WriteTenant(page[p].seen)
    /\ PageGoto(p, IdlePage)
    /\ UNCHANGED <<trialEnded, payments, subs, gateway, inbox, hook, cron, faults>>

----------------------------------------------------------------------------
(* ProcessExpiredSubscriptions.                                            *)

\* The cron lists the tenants in trial or active ...
CronTenants(s) ==
    /\ cron[s].pc = "idle"
    /\ cron' = [cron EXCEPT ![s].pc = IF tenant = "trial" /\ trialEnded
                                      THEN "trial" ELSE "list"]
    /\ UNCHANGED <<tenant, trialEnded, payments, subs, gateway, inbox, hook, page, faults>>

\* ... writes back the rows of the trials that were over when it read them,
CronTrial(s) ==
    /\ cron[s].pc = "trial"
    /\ WriteTenant("trial_expired")
    /\ cron' = [cron EXCEPT ![s].pc = "list"]
    /\ UNCHANGED <<trialEnded, payments, subs, gateway, inbox, hook, page, faults>>

CronNext(s, todo) ==
    cron' = [cron EXCEPT ![s] =
               [ pc |-> IF todo = {} THEN "idle" ELSE "expire", todo |-> todo ]]

\* lists the active subscriptions,
CronList(s) ==
    /\ cron[s].pc = "list"
    /\ CronNext(s, {k \in ActiveSubs : subs[k].lapsed})
    /\ UNCHANGED <<tenant, trialEnded, payments, subs, gateway, inbox, hook, page, faults>>

\* expires each one that has lapsed
CronExpire(s, k) ==
    /\ cron[s].pc = "expire"
    /\ k \in cron[s].todo
    /\ subs' = [subs EXCEPT ![k].status = "expired"]
    /\ cron' = [cron EXCEPT ![s] = [ pc |-> "suspend", todo |-> cron[s].todo \ {k} ]]
    /\ UNCHANGED <<tenant, trialEnded, payments, gateway, inbox, hook, page, faults>>

\* and suspends its tenant.
CronSuspend(s) ==
    /\ cron[s].pc = "suspend"
    /\ WriteTenant("suspended")
    /\ CronNext(s, cron[s].todo)
    /\ UNCHANGED <<trialEnded, payments, subs, gateway, inbox, hook, page, faults>>

----------------------------------------------------------------------------
(* Time.                                                                   *)

EndTrial ==
    /\ ~trialEnded
    /\ trialEnded' = TRUE
    /\ UNCHANGED <<tenant, payments, subs, gateway, inbox, hook, page, cron, faults>>

Lapse(k) ==
    /\ subs[k].status = "active" /\ ~subs[k].lapsed
    /\ subs' = [subs EXCEPT ![k].lapsed = TRUE]
    /\ UNCHANGED <<tenant, trialEnded, payments, gateway, inbox, hook, page, cron, faults>>

----------------------------------------------------------------------------

Init ==
    /\ tenant = "trial"
    /\ trialEnded = FALSE
    /\ payments = [o \in Orders |-> NoPayment]
    /\ subs = <<>>
    /\ gateway = [o \in Orders |-> "none"]
    /\ inbox = {}
    /\ hook = [h \in Hooks |-> IdleHook]
    /\ page = [p \in Pages |-> IdlePage]
    /\ cron = [s \in Servers |-> IdleCron]
    /\ faults = 0

\* The rest of a webhook request.
HookStep(h) ==
    \/ HookFail(h)
    \/ HookExpire(h)
    \/ HookInsert(h)
    \/ HookPaid(h)
    \/ HookActivate(h)
    \/ HookReply(h)

PageNext(p) ==
    \/ StatusTenant(p)
    \/ StatusSubscription(p)
    \/ StatusExpire(p)
    \/ GetTenant(p)
    \/ SuspendTenant(p)
    \/ EditRead(p)
    \/ EditWrite(p)

CronStep(s) ==
    \/ CronTenants(s)
    \/ CronTrial(s)
    \/ CronList(s)
    \/ \E k \in DOMAIN subs : CronExpire(s, k)
    \/ CronSuspend(s)

Next ==
    \/ \E o \in Orders : Checkout(o) \/ Deny(o) \/ Settle(o)
    \/ \E h \in Hooks :
         \/ \E o \in Orders, kind \in Kinds : HookRead(h, o, kind)
         \/ HookStep(h)
         \/ HookFault(h)
    \/ \E p \in Pages : PageNext(p)
    \/ \E s \in Servers : CronStep(s)
    \/ EndTrial
    \/ \E k \in DOMAIN subs : Lapse(k)

Spec == Init /\ [][Next]_vars

\* A handler that runs goes on until it returns, and Midtrans delivers a
\* notification again and again until it is acknowledged.
Fairness ==
    /\ \A h \in Hooks : WF_vars(HookStep(h))
    /\ \A o \in Orders, kind \in Kinds :
         SF_vars(\E h \in Hooks : HookRead(h, o, kind))

FairSpec == Spec /\ Fairness

----------------------------------------------------------------------------
(* Properties.                                                             *)

TypeOK ==
    /\ tenant \in TenantStatuses
    /\ trialEnded \in BOOLEAN
    /\ payments \in [Orders -> Payment]
    /\ subs \in Seq(Subscription)
    /\ gateway \in [Orders -> {"none", "open", "settled"}]
    /\ inbox \subseteq Orders \X Kinds
    /\ hook \in [Hooks -> Handler]
    /\ page \in [Pages -> PageRequest]
    /\ cron \in [Servers -> CronRun]
    /\ faults \in 0..MaxFaults

\* A payment that is recorded as paid names a subscription that was created
\* for its own order, however notifications repeat, overlap and fail.
PaidHasSubscription ==
    \A o \in Orders :
        /\ payments[o].status = "success" => payments[o].sub \in DOMAIN subs
        /\ payments[o].sub # 0 => subs[payments[o].sub].order = o

\* A tenant gets no subscription for an order that was not paid.
OnlyPaidIsServed == \A k \in DOMAIN subs : gateway[subs[k].order] = "settled"

\* migrations/1010: "tracks the active subscription per tenant".  There is
\* more than one only as far as webhook requests overlap or ExpireAllActive
\* failed: activateSubscription expires the others before it adds its own.
ActiveBounded ==
    Cardinality(ActiveSubs) + Cardinality({h \in Hooks : hook[h].pc = "insert"})
        <= Cardinality(Hooks) + faults

\* The webhook does not lose a payment: an order that was paid, and whose row
\* Checkout recorded, gets its subscription in the end, whatever fails.
PaidIsServed ==
    \A o \in Orders :
        gateway[o] = "settled" /\ payments[o].status # "absent"
            ~> \E k \in DOMAIN subs : subs[k].order = o

\* HandleWebhookNotification stops when the payment succeeded already, so a
\* success is not taken back by a notification of an earlier, denied attempt
\* that comes late: only a request that looked the payment up before another
\* request recorded the success, and writes after it, overwrites it.
SuccessStays ==
    [][\A o \in Orders :
         payments[o].status = "success" /\ payments'[o].status # "success" =>
             \E h \in Hooks :
                 /\ hook[h].order = o /\ hook[h].overtaken
                 /\ hook[h].pc = "fail" /\ hook'[h].pc = "reply"]_vars

\* A paid order makes its tenant active, also one that was suspended - unless
\* something fails: when a request stops between UpdateOnSuccess and the last
\* write, the repeated notification finds the payment successful and stops.
PaidActivates ==
    \A o \in Orders :
        gateway[o] = "settled" /\ payments[o].status \in {"pending", "failed"}
            ~> tenant = "active" \/ faults > 0
=============================================================================

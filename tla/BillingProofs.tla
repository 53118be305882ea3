--------------------------- MODULE BillingProofs ---------------------------
(***************************************************************************)
(* Proofs about Billing: the rows of payments and subscriptions agree for  *)
(* any number of orders, webhook requests, pages, crons and failures.      *)
(***************************************************************************)
EXTENDS Billing, FiniteSetTheorems, SequenceTheorems, WellFoundedInduction, TLAPS

\* What a webhook request relies on: the order it was notified of exists; it
\* was paid when the request is about to serve it; and the subscription that
\* the request has created is a row, of that order.
Sound(r, s, g) ==
    /\ r.pc # "idle" => r.order \in Orders
    /\ r.pc \in {"expire", "insert", "paid", "activate"} => g[r.order] = "settled"
    /\ r.pc \in {"paid", "activate"} => r.sub \in DOMAIN s /\ s[r.sub].order = r.order

\* The payment of order o names a subscription of its own order, if any.
Linked(o, r, s) ==
    /\ r.status = "success" => r.sub # 0
    /\ r.sub # 0 => r.sub \in DOMAIN s /\ s[r.sub].order = o

\* A request is sound only because what Midtrans says is true.
BillingInv ==
    /\ TypeOK
    /\ \A o \in Orders : <<o, "settlement">> \in inbox => gateway[o] = "settled"
    /\ \A h \in Hooks : Sound(hook[h], subs, gateway)
    /\ \A o \in Orders : Linked(o, payments[o], subs)
    /\ OnlyPaidIsServed

LEMMA BillingInit == Init => BillingInv
<1> SUFFICES ASSUME Init PROVE BillingInv
  OBVIOUS
<1>1. subs = <<>> /\ subs \in Seq(Subscription) /\ DOMAIN subs = {}
  BY EmptySeq DEF Init
<1>2. NoPayment \in Payment /\ IdleHook \in Handler /\ IdlePage \in PageRequest /\ IdleCron \in CronRun
  BY DEF NoPayment, Payment, IdleHook, Handler, Kinds, IdlePage, PageRequest, PageSteps,
     TenantStatuses, IdleCron, CronRun
<1>3. TypeOK
  <2>1. 0 \in 0..MaxFaults /\ "trial" \in TenantStatuses
    BY BillingAssumption DEF TenantStatuses
  <2> QED
    BY <1>1, <1>2, <2>1 DEF Init, TypeOK
<1>4. OnlyPaidIsServed
  BY <1>1 DEF OnlyPaidIsServed
<1>5. \A h \in Hooks : Sound(hook[h], subs, gateway)
  BY DEF Init, Sound, IdleHook
<1>6. \A o \in Orders : Linked(o, payments[o], subs)
  BY DEF Init, Linked, NoPayment
<1> QED
  BY <1>3, <1>4, <1>5, <1>6 DEF BillingInv, Init

----------------------------------------------------------------------------
(* The subscriptions.                                                      *)

\* Subscriptions are never deleted and never move to another order.
SubsKept ==
    \A k \in DOMAIN subs : k \in DOMAIN subs' /\ subs'[k].order = subs[k].order

LEMMA SubsType ==
    ASSUME TypeOK
    PROVE  /\ Len(subs) \in Nat
           /\ DOMAIN subs = 1..Len(subs)
           /\ subs \in [1..Len(subs) -> Subscription]
           /\ \A k \in DOMAIN subs : subs[k] \in Subscription
BY LenProperties DEF TypeOK

\* A function on the rows' numbers is again a table.
LEMMA RowsAreSeq ==
    ASSUME NEW n \in Nat, NEW f \in [1..n -> Subscription]
    PROVE  f \in Seq(Subscription) /\ Len(f) = n /\ DOMAIN f = 1..n
<1>1. f \in Seq(Subscription)
  BY SeqDef
<1> QED
  BY <1>1, LenProperties

\* ExpireAllActive, Expire and the passing of time change rows in place.
LEMMA RowsRewritten ==
    ASSUME TypeOK, NEW f, subs' = [k \in DOMAIN subs |-> f[k]],
           \A k \in DOMAIN subs : f[k] \in Subscription /\ f[k].order = subs[k].order
    PROVE  /\ subs' \in Seq(Subscription)
           /\ DOMAIN subs' = DOMAIN subs
           /\ \A k \in DOMAIN subs : subs'[k] = f[k]
           /\ SubsKept
<1>1. subs' \in [1..Len(subs) -> Subscription]
  BY SubsType
<1>2. subs' \in Seq(Subscription) /\ DOMAIN subs' = DOMAIN subs
  BY <1>1, SubsType, RowsAreSeq
<1> QED
  BY <1>2 DEF SubsKept

\* One row is written.
LEMMA RowWritten ==
    ASSUME TypeOK, NEW k \in DOMAIN subs, NEW row \in Subscription,
           row.order = subs[k].order, subs' = [subs EXCEPT ![k] = row]
    PROVE  /\ subs' \in Seq(Subscription)
           /\ DOMAIN subs' = DOMAIN subs
           /\ \A j \in DOMAIN subs : subs'[j] = IF j = k THEN row ELSE subs[j]
           /\ SubsKept
<1> DEFINE f == [j \in DOMAIN subs |-> IF j = k THEN row ELSE subs[j]]
<1>1. \A j \in DOMAIN subs : f[j] \in Subscription /\ f[j].order = subs[j].order
  BY SubsType
<1>2. subs' = [j \in DOMAIN subs |-> f[j]]
  BY SubsType
<1> QED
  BY <1>1, <1>2, RowsRewritten

\* CreateSubscription.
LEMMA RowAppended ==
    ASSUME TypeOK, NEW o \in Orders, CreateSubscription(o)
    PROVE  /\ subs' \in Seq(Subscription)
           /\ Len(subs') = Len(subs) + 1
           /\ DOMAIN subs' = DOMAIN subs \cup {Len(subs')}
           /\ \A j \in DOMAIN subs : subs'[j] = subs[j]
           /\ subs'[Len(subs')].order = o
           /\ subs'[Len(subs')].status = "active"
           /\ SubsKept
<1> DEFINE row == [ order |-> o, status |-> "active", lapsed |-> FALSE ]
<1>1. row \in Subscription
  BY DEF Subscription
<1>2. row.order = o /\ row.status = "active"
  OBVIOUS
<1>3. subs' = Append(subs, row) /\ subs \in Seq(Subscription)
  BY DEF CreateSubscription, TypeOK
<1> HIDE DEF row
<1>4. /\ subs' \in Seq(Subscription)
      /\ Len(subs') = Len(subs) + 1
      /\ \A i \in 1..Len(subs) : subs'[i] = subs[i]
      /\ subs'[Len(subs) + 1] = row
  BY <1>1, <1>3, AppendProperties
<1>5. DOMAIN subs' = 1..Len(subs') /\ DOMAIN subs = 1..Len(subs) /\ Len(subs) \in Nat
  BY <1>4, SubsType, LenProperties
<1> QED
  BY <1>2, <1>4, <1>5 DEF SubsKept

\* Of some numbers up to n one is the largest.
LEMMA LargestExists ==
    ASSUME NEW n \in Nat, NEW A, A \subseteq 1..n, A # {}
    PROVE  \E k \in A : \A j \in A : j <= k
<1> DEFINE T == {d \in Nat : n - d \in A}
           R == OpToRel(<, Nat)
<1>1. \A k \in A : n - k \in Nat /\ n - (n - k) = k
  OBVIOUS
<1>2. T \subseteq Nat /\ T # {}
  BY <1>1
<1>3. IsWellFoundedOn(R, Nat)
  BY NatLessThanWellFounded, Zenon
<1>4. \A x, y \in Nat : y < x => <<y, x>> \in R
  BY Zenon DEF OpToRel
<1> HIDE DEF R
<1>5. PICK x \in T : \A y \in T : <<y, x>> \notin R
  <2> HIDE DEF T
  <2> QED
    BY <1>2, <1>3, WFMin
<1>6. \A y \in T : ~(y < x)
  BY <1>4, <1>5
<1>7. n - x \in A /\ \A j \in A : j <= n - x
  BY <1>1, <1>6
<1> QED
  BY <1>7

\* GetActiveSubscription finds a row: the newest of the active ones.
LEMMA Newest ==
    ASSUME TypeOK, ActiveSubs # {}
    PROVE  (CHOOSE k \in ActiveSubs : \A j \in ActiveSubs : j <= k) \in DOMAIN subs
<1>1. Len(subs) \in Nat /\ ActiveSubs \subseteq 1..Len(subs)
  BY SubsType DEF ActiveSubs
<1>2. \E k \in ActiveSubs : \A j \in ActiveSubs : j <= k
  BY <1>1, LargestExists
<1> QED
  BY <1>2 DEF ActiveSubs

----------------------------------------------------------------------------
(* The steps.                                                              *)

\* What a step has to show: the rest follows because subscriptions stay, and an
\* order that was paid stays paid.
LEMMA BillingKept ==
    ASSUME BillingInv, TypeOK', SubsKept,
           \A o \in Orders : gateway[o] = "settled" => gateway'[o] = "settled",
           \A o \in Orders : <<o, "settlement">> \in inbox' =>
               <<o, "settlement">> \in inbox \/ gateway'[o] = "settled",
           \A h \in Hooks : hook'[h] = hook[h] \/ Sound(hook'[h], subs', gateway'),
           \A o \in Orders : payments'[o] = payments[o] \/ Linked(o, payments'[o], subs'),
           \A k \in DOMAIN subs' : k \in DOMAIN subs \/ gateway'[subs'[k].order] = "settled"
    PROVE  BillingInv'
<1>1. \A h \in Hooks : Sound(hook'[h], subs', gateway')
  BY DEF BillingInv, Sound, SubsKept
<1>2. \A o \in Orders : Linked(o, payments'[o], subs')
  BY DEF BillingInv, Linked, SubsKept
<1>3. \A o \in Orders : <<o, "settlement">> \in inbox' => gateway'[o] = "settled"
  BY DEF BillingInv
<1>4. OnlyPaidIsServed'
  <2> SUFFICES ASSUME NEW k \in DOMAIN subs' PROVE gateway'[subs'[k].order] = "settled"
    BY DEF OnlyPaidIsServed
  <2>1. CASE k \in DOMAIN subs
    <3>1. subs'[k].order = subs[k].order /\ gateway[subs[k].order] = "settled"
      BY <2>1 DEF SubsKept, BillingInv, OnlyPaidIsServed
    <3>2. subs[k].order \in Orders
      BY <2>1, SubsType DEF BillingInv, Subscription
    <3> QED
      BY <3>1, <3>2
  <2> QED
    BY <2>1
<1> QED
  BY <1>1, <1>2, <1>3, <1>4 DEF BillingInv

\* Checkout, Deny and Settle.
LEMMA GatewayStep ==
    ASSUME BillingInv, NEW o \in Orders, Checkout(o) \/ Deny(o) \/ Settle(o)
    PROVE  BillingInv'
<1>t. TypeOK
  BY DEF BillingInv
<1>1. UNCHANGED <<tenant, trialEnded, subs, hook, page, cron>>
  BY DEF Checkout, Deny, Settle
<1>2. SubsKept /\ DOMAIN subs' = DOMAIN subs
  BY <1>1 DEF SubsKept
<1>3. payments' \in [Orders -> Payment]
      /\ \A p \in Orders : payments'[p] = payments[p] \/ Linked(p, payments'[p], subs')
  <2>1. CASE payments' = payments
    BY <2>1, <1>t DEF TypeOK
  <2>2. CASE CreatePayment(o)
    <3> DEFINE row == [payments[o] EXCEPT !.status = "pending"]
    <3>1. payments[o] \in Payment
      BY <1>t DEF TypeOK
    <3>2. row \in Payment /\ row.status = "pending" /\ row.sub = payments[o].sub
      BY <3>1 DEF Payment
    <3>3. payments' = [payments EXCEPT ![o] = row]
      BY <2>2 DEF CreatePayment
    <3> HIDE DEF row
    <3>4. payments' \in [Orders -> Payment]
          /\ \A p \in Orders : payments'[p] = IF p = o THEN row ELSE payments[p]
      BY <3>2, <3>3, <1>t DEF TypeOK
    <3>5. Linked(o, row, subs')
      BY <3>2, <1>1 DEF Linked, BillingInv
    <3> QED
      BY <3>4, <3>5
  <2> QED
    BY <2>1, <2>2 DEF Checkout, Deny, Settle
<1>4. gateway' \in [Orders -> {"none", "open", "settled"}]
      /\ \A p \in Orders : gateway[p] = "settled" => gateway'[p] = "settled"
  BY <1>t DEF TypeOK, Checkout, CreateTransaction, Deny, Settle
<1>5. inbox' \subseteq Orders \X Kinds
  BY <1>t DEF TypeOK, Checkout, CreateTransaction, Deny, Settle, Kinds
<1>6. \A p \in Orders : <<p, "settlement">> \in inbox' =>
        <<p, "settlement">> \in inbox \/ gateway'[p] = "settled"
  BY <1>t DEF TypeOK, Checkout, CreateTransaction, Deny, Settle
<1>7. faults' \in 0..MaxFaults
  BY <1>t, BillingAssumption DEF TypeOK, Checkout, Deny, Settle
<1>8. TypeOK'
  BY <1>t, <1>1, <1>3, <1>4, <1>5, <1>7 DEF TypeOK
<1> QED
  BY <1>1, <1>2, <1>3, <1>4, <1>6, <1>8, BillingKept

\* A step of a webhook request leaves the gateway and the pages alone.
LEMMA HooksMove ==
    ASSUME BillingInv, hook' \in [Hooks -> Handler],
           \A h \in Hooks : hook'[h] = hook[h] \/ Sound(hook'[h], subs', gateway),
           tenant' \in TenantStatuses, faults' \in 0..MaxFaults,
           inbox' \subseteq inbox,
           UNCHANGED <<trialEnded, gateway, page, cron>>,
           subs' \in Seq(Subscription), SubsKept,
           \A k \in DOMAIN subs' : k \in DOMAIN subs \/ gateway[subs'[k].order] = "settled",
           payments' \in [Orders -> Payment],
           \A o \in Orders : payments'[o] = payments[o] \/ Linked(o, payments'[o], subs')
    PROVE  BillingInv'
<1>1. TypeOK'
  BY DEF BillingInv, TypeOK
<1> QED
  BY <1>1, BillingKept

\* A webhook request takes a step to r.
LEMMA HookMoves ==
    ASSUME BillingInv, NEW h \in Hooks, NEW r \in Handler,
           hook' = [hook EXCEPT ![h] = r],
           Sound(r, subs', gateway),
           tenant' \in TenantStatuses, faults' \in 0..MaxFaults,
           inbox' \subseteq inbox,
           UNCHANGED <<trialEnded, gateway, page, cron>>,
           subs' \in Seq(Subscription), SubsKept,
           \A k \in DOMAIN subs' : k \in DOMAIN subs \/ gateway[subs'[k].order] = "settled",
           payments' \in [Orders -> Payment],
           \A o \in Orders : payments'[o] = payments[o] \/ Linked(o, payments'[o], subs')
    PROVE  BillingInv'
<1>1. hook' \in [Hooks -> Handler] /\ \A i \in Hooks : hook'[i] = IF i = h THEN r ELSE hook[i]
  BY DEF BillingInv, TypeOK
<1> QED
  BY <1>1, HooksMove

LEMMA HookReadStep ==
    ASSUME BillingInv, NEW h \in Hooks, NEW o \in Orders, NEW kind \in Kinds, HookRead(h, o, kind)
    PROVE  BillingInv'
<1> DEFINE pc == IF payments[o].status = "success" THEN "reply"
                 ELSE IF IsSuccessStatus(kind) THEN "expire"
                 ELSE IF IsFailedStatus(kind) THEN "fail"
                 ELSE "reply"
           r == [ order |-> o, kind |-> kind, sub |-> 0, overtaken |-> FALSE, pc |-> pc ]
<1>1. hook' = [hook EXCEPT ![h] = r]
      /\ UNCHANGED <<tenant, trialEnded, payments, subs, gateway, inbox, page, cron, faults>>
  BY DEF HookRead
<1>2. pc \in {"reply", "expire", "fail"}
  OBVIOUS
<1>3. pc = "expire" => kind = "settlement"
  BY DEF IsSuccessStatus
<1>4. gateway[o] = "settled" \/ pc # "expire"
  BY <1>3 DEF BillingInv, HookRead
<1> HIDE DEF pc
<1>5. r \in Handler
  BY <1>2 DEF Handler
<1>6. Sound(r, subs', gateway)
  BY <1>1, <1>2, <1>4 DEF Sound
<1> HIDE DEF r
<1> QED
  BY <1>1, <1>5, <1>6, HookMoves DEF BillingInv, TypeOK, SubsKept

\* A request that ends.
LEMMA HookEndStep ==
    ASSUME BillingInv, NEW h \in Hooks, HookReply(h) \/ HookFault(h)
    PROVE  BillingInv'
<1>1. IdleHook \in Handler /\ Sound(IdleHook, subs', gateway)
  BY DEF IdleHook, Handler, Kinds, Sound
<1>2. faults' \in 0..MaxFaults
  BY BillingAssumption DEF BillingInv, TypeOK, HookReply, HookFault
<1> QED
  BY <1>1, <1>2, HookMoves DEF HookReply, HookFault, BillingInv, TypeOK, SubsKept

\* A request that goes on to pc with the order that it has.
LEMMA HookGoes ==
    ASSUME BillingInv, NEW h \in Hooks,
           NEW pc \in {"reply", "insert", "activate"}, HookGoto(h, pc), hook[h].pc # "idle"
    PROVE  LET r == [hook[h] EXCEPT !.pc = pc]
           IN  /\ r \in Handler
               /\ hook' = [hook EXCEPT ![h] = r]
               /\ r.pc = pc /\ r.order = hook[h].order /\ r.sub = hook[h].sub
               /\ hook[h].order \in Orders
BY DEF HookGoto, BillingInv, TypeOK, Handler, Sound

\* The request that records the success goes on; the others stay where they
\* are, and those that are about to record a failure of the order are overtaken.
LEMMA PaidMoves ==
    ASSUME TypeOK, NEW h \in Hooks, HookPaid(h)
    PROVE  /\ hook' \in [Hooks -> Handler]
           /\ \A g \in Hooks : g # h =>
                /\ hook'[g].pc = hook[g].pc /\ hook'[g].order = hook[g].order
                /\ hook'[g].sub = hook[g].sub
                /\ hook'[g].overtaken =
                     (hook[g].overtaken \/ (hook[g].pc = "fail" /\ hook[g].order = hook[h].order))
           /\ hook'[h].pc = "activate" /\ hook'[h].order = hook[h].order
           /\ hook'[h].sub = hook[h].sub
<1>1. \A g \in Hooks : hook[g] \in Handler
  BY DEF TypeOK
<1>2. ASSUME NEW g \in Hooks, NEW b \in BOOLEAN
      PROVE  /\ [hook[g] EXCEPT !.overtaken = b] \in Handler
             /\ [hook[g] EXCEPT !.pc = "activate"] \in Handler
  BY <1>1 DEF Handler
<1>3. \A g \in Hooks : hook'[g] \in Handler
  <2>1. ASSUME NEW g \in Hooks, g # h
        PROVE  \E b \in BOOLEAN : hook'[g] = [hook[g] EXCEPT !.overtaken = b]
    BY <2>1, <1>1 DEF HookPaid, Handler
  <2>2. hook'[h] = [hook[h] EXCEPT !.pc = "activate"]
    BY DEF HookPaid
  <2>3. ASSUME NEW g \in Hooks, g # h PROVE hook'[g] \in Handler
    <3>1. PICK b \in BOOLEAN : hook'[g] = [hook[g] EXCEPT !.overtaken = b]
      BY <2>1, <2>3
    <3>2. [hook[g] EXCEPT !.overtaken = b] \in Handler
      BY <1>2
    <3> QED
      BY <3>1, <3>2, Zenon
  <2>4. hook'[h] \in Handler
    BY <2>2, <1>2, Zenon
  <2> QED
    BY <2>3, <2>4
<1>4. hook' = [g \in Hooks |-> hook'[g]]
  BY DEF HookPaid
<1>5. hook' \in [Hooks -> Handler]
  BY <1>3, <1>4
<1>6. ASSUME NEW g \in Hooks, g # h
      PROVE  /\ hook'[g].pc = hook[g].pc /\ hook'[g].order = hook[g].order
             /\ hook'[g].sub = hook[g].sub
             /\ hook'[g].overtaken =
                  (hook[g].overtaken \/ (hook[g].pc = "fail" /\ hook[g].order = hook[h].order))
  BY <1>6, <1>1 DEF HookPaid, Handler
<1>7. hook'[h].pc = "activate" /\ hook'[h].order = hook[h].order /\ hook'[h].sub = hook[h].sub
  BY <1>1 DEF HookPaid, Handler
<1> QED
  BY <1>5, <1>6, <1>7

\* UpdateOnFailed and UpdateOnSuccess.
LEMMA HookPaymentStep ==
    ASSUME BillingInv, NEW h \in Hooks, HookFail(h) \/ HookPaid(h)
    PROVE  BillingInv'
<1> DEFINE o == hook[h].order
           row == IF HookFail(h) THEN [payments[o] EXCEPT !.status = "failed"]
                  ELSE [ status |-> "success", sub |-> hook[h].sub ]
<1>1. HookFail(h) => hook[h].pc = "fail"
  BY DEF HookFail
<1>2. ~HookFail(h) => hook[h].pc = "paid"
  BY DEF HookPaid
<1>3. hook[h] \in Handler /\ Sound(hook[h], subs, gateway) /\ o \in Orders
  BY <1>1, <1>2 DEF BillingInv, TypeOK, Sound
<1>4. payments[o] \in Payment /\ Linked(o, payments[o], subs)
  BY <1>3 DEF BillingInv, TypeOK
<1>5. row \in Payment /\ Linked(o, row, subs)
  <2>1. CASE HookFail(h)
    <3>1. row = [payments[o] EXCEPT !.status = "failed"]
      BY <2>1
    <3> QED
      BY <3>1, <1>4 DEF Payment, Linked
  <2>2. CASE ~HookFail(h)
    <3>1. row = [ status |-> "success", sub |-> hook[h].sub ]
      BY <2>2
    <3>2. hook[h].sub \in DOMAIN subs /\ subs[hook[h].sub].order = o
      BY <2>2, <1>2, <1>3 DEF Sound
    <3>3. hook[h].sub \in Nat /\ hook[h].sub # 0
      BY <3>2, SubsType DEF BillingInv
    <3> QED
      BY <3>1, <3>2, <3>3 DEF Payment, Linked
  <2> QED
    BY <2>1, <2>2
<1>6. payments' = [payments EXCEPT ![o] = row]
  BY DEF HookFail, HookPaid, UpdateOnSuccess
<1>7. /\ hook' \in [Hooks -> Handler]
      /\ \A g \in Hooks : g # h =>
           /\ hook'[g].pc = hook[g].pc /\ hook'[g].order = hook[g].order
           /\ hook'[g].sub = hook[g].sub
      /\ hook'[h].order = o /\ hook'[h].sub = hook[h].sub
      /\ hook'[h].pc \in {"reply", "activate"}
      /\ hook'[h].pc = "activate" => hook[h].pc = "paid"
  <2>1. CASE HookFail(h)
    BY <2>1 DEF HookFail, HookGoto, BillingInv, TypeOK, Handler
  <2>2. CASE HookPaid(h)
    BY <2>2, PaidMoves DEF HookPaid, BillingInv
  <2> QED
    BY <2>1, <2>2
<1>8. UNCHANGED <<tenant, trialEnded, subs, gateway, inbox, page, cron, faults>>
  BY DEF HookFail, HookPaid
<1> HIDE DEF o, row
<1>9. \A g \in Hooks : Sound(hook'[g], subs', gateway)
  <2>1. Sound(hook'[h], subs', gateway)
    BY <1>3, <1>7, <1>8 DEF Sound, o
  <2>2. \A g \in Hooks : Sound(hook[g], subs, gateway)
    BY DEF BillingInv
  <2>3. ASSUME NEW g \in Hooks, g # h PROVE Sound(hook'[g], subs', gateway)
    BY <2>2, <2>3, <1>7, <1>8 DEF Sound
  <2> QED
    BY <2>1, <2>3
<1>10. payments' \in [Orders -> Payment]
       /\ \A p \in Orders : payments'[p] = payments[p] \/ Linked(p, payments'[p], subs')
  BY <1>3, <1>5, <1>6, <1>8 DEF BillingInv, TypeOK
<1> QED
  BY <1>7, <1>8, <1>9, <1>10, HooksMove DEF BillingInv, TypeOK, SubsKept

\* ExpireAllActive, also when it fails.
LEMMA HookExpireStep ==
    ASSUME BillingInv, NEW h \in Hooks, HookExpire(h)
    PROVE  BillingInv' /\ DOMAIN subs' = DOMAIN subs
<1> DEFINE r == [hook[h] EXCEPT !.pc = "insert"]
<1>t. TypeOK
  BY DEF BillingInv
<1>1. hook[h].pc = "expire" /\ HookGoto(h, "insert")
      /\ UNCHANGED <<tenant, trialEnded, payments, gateway, inbox, page, cron>>
  BY DEF HookExpire
<1>2. /\ r \in Handler
      /\ hook' = [hook EXCEPT ![h] = r]
      /\ r.pc = "insert" /\ r.order = hook[h].order
  BY <1>1, HookGoes
<1>3. Sound(r, subs', gateway)
  BY <1>1, <1>2 DEF Sound, BillingInv
<1> HIDE DEF r
<1>4. subs' \in Seq(Subscription) /\ SubsKept /\ DOMAIN subs' = DOMAIN subs
  <2>1. CASE subs' = subs
    BY <2>1, <1>t DEF TypeOK, SubsKept
  <2>2. CASE subs' = [k \in DOMAIN subs |-> [subs[k] EXCEPT !.status = "expired"]]
    <3> DEFINE f == [k \in DOMAIN subs |-> [subs[k] EXCEPT !.status = "expired"]]
    <3>1. \A k \in DOMAIN subs : f[k] \in Subscription /\ f[k].order = subs[k].order
      BY <1>t, SubsType DEF Subscription
    <3>2. subs' = [k \in DOMAIN subs |-> f[k]]
      BY <2>2
    <3> HIDE DEF f
    <3> QED
      BY <1>t, <3>1, <3>2, RowsRewritten
  <2> QED
    BY <2>1, <2>2 DEF HookExpire
<1>5. faults' \in 0..MaxFaults
  BY <1>t, BillingAssumption DEF HookExpire, TypeOK
<1> QED
  BY <1>t, <1>1, <1>2, <1>3, <1>4, <1>5, HookMoves DEF TypeOK

\* CreateSubscription, of an order that was paid.
LEMMA HookInsertStep ==
    ASSUME BillingInv, NEW h \in Hooks, HookInsert(h)
    PROVE  BillingInv'
<1> DEFINE o == hook[h].order
           r == [hook[h] EXCEPT !.pc = "paid", !.sub = Len(subs')]
<1>t. TypeOK /\ hook[h] \in Handler
  BY DEF BillingInv, TypeOK
<1>1. hook[h].pc = "insert" /\ CreateSubscription(o)
      /\ UNCHANGED <<tenant, trialEnded, payments, gateway, inbox, page, cron, faults>>
  BY DEF HookInsert
<1>2. o \in Orders /\ gateway[o] = "settled"
  BY <1>1 DEF BillingInv, Sound
<1>3. /\ subs' \in Seq(Subscription)
      /\ DOMAIN subs' = DOMAIN subs \cup {Len(subs')}
      /\ subs'[Len(subs')].order = o
      /\ SubsKept
  BY <1>t, <1>1, <1>2, RowAppended
<1>4. Len(subs') \in Nat
  BY <1>3, LenProperties
<1>5. r \in Handler /\ r.pc = "paid" /\ r.order = o /\ r.sub = Len(subs')
  BY <1>t, <1>4 DEF Handler
<1>6. hook' = [hook EXCEPT ![h] = r]
  BY <1>t DEF HookInsert, TypeOK
<1> HIDE DEF r, o
<1>7. Sound(r, subs', gateway)
  BY <1>2, <1>3, <1>5 DEF Sound
<1>8. payments' \in [Orders -> Payment] /\ tenant' \in TenantStatuses /\ faults' \in 0..MaxFaults
  BY <1>t, <1>1 DEF TypeOK
<1> QED
  BY <1>1, <1>2, <1>3, <1>5, <1>6, <1>7, <1>8, HookMoves

\* updateTenantStatus.
LEMMA HookActivateStep ==
    ASSUME BillingInv, NEW h \in Hooks, HookActivate(h)
    PROVE  BillingInv'
<1> DEFINE r == [hook[h] EXCEPT !.pc = "reply"]
<1>1. /\ r \in Handler
      /\ hook' = [hook EXCEPT ![h] = r]
      /\ r.pc = "reply" /\ r.order \in Orders
  BY HookGoes DEF HookActivate
<1>2. Sound(r, subs', gateway)
  BY <1>1 DEF Sound
<1>3. tenant' = "active"
      /\ UNCHANGED <<trialEnded, payments, subs, gateway, inbox, page, cron, faults>>
  BY DEF HookActivate, WriteTenant
<1> HIDE DEF r
<1> QED
  BY <1>1, <1>2, <1>3, HookMoves DEF BillingInv, TypeOK, SubsKept, TenantStatuses

\* Pages, crons and time touch neither payments nor requests of the webhook.
LEMMA OthersMove ==
    ASSUME BillingInv, tenant' \in TenantStatuses, trialEnded' \in BOOLEAN,
           UNCHANGED <<payments, gateway, inbox, hook, faults>>,
           page' \in [Pages -> PageRequest], cron' \in [Servers -> CronRun],
           subs' \in Seq(Subscription), SubsKept, DOMAIN subs' = DOMAIN subs
    PROVE  BillingInv'
<1>1. TypeOK'
  BY DEF BillingInv, TypeOK
<1> QED
  BY <1>1, BillingKept

\* Expire and the passing of time change one row, and make none active.
LEMMA RowChanged ==
    ASSUME TypeOK, NEW k,
           \/ subs' = [subs EXCEPT ![k].status = "expired"]
           \/ subs' = [subs EXCEPT ![k].lapsed = TRUE]
    PROVE  /\ subs' \in Seq(Subscription)
           /\ SubsKept
           /\ DOMAIN subs' = DOMAIN subs
           /\ ActiveSubs' \subseteq ActiveSubs
<1>1. CASE k \notin DOMAIN subs
  <2>1. subs' = subs
    BY <1>1, SubsType
  <2> QED
    BY <2>1 DEF TypeOK, SubsKept, ActiveSubs
<1>2. ASSUME k \in DOMAIN subs, NEW row, row \in Subscription,
             row.order = subs[k].order,
             row.status = "active" => subs[k].status = "active",
             subs' = [subs EXCEPT ![k] = row]
      PROVE  /\ subs' \in Seq(Subscription)
             /\ SubsKept
             /\ DOMAIN subs' = DOMAIN subs
             /\ ActiveSubs' \subseteq ActiveSubs
  BY <1>2, RowWritten DEF ActiveSubs
<1>3. ASSUME k \in DOMAIN subs
      PROVE  \E row \in Subscription :
               /\ row.order = subs[k].order
               /\ row.status = "active" => subs[k].status = "active"
               /\ subs' = [subs EXCEPT ![k] = row]
  <2>1. subs[k] \in Subscription
    BY <1>3, SubsType
  <2>2. CASE subs' = [subs EXCEPT ![k].status = "expired"]
    <3> DEFINE row == [subs[k] EXCEPT !.status = "expired"]
    <3>1. row \in Subscription /\ row.order = subs[k].order /\ row.status = "expired"
      BY <2>1 DEF Subscription
    <3>2. subs' = [subs EXCEPT ![k] = row]
      BY <2>2
    <3> HIDE DEF row
    <3> QED
      BY <3>1, <3>2
  <2>3. CASE subs' = [subs EXCEPT ![k].lapsed = TRUE]
    <3> DEFINE row == [subs[k] EXCEPT !.lapsed = TRUE]
    <3>1. row \in Subscription /\ row.order = subs[k].order /\ row.status = subs[k].status
      BY <2>1 DEF Subscription
    <3>2. subs' = [subs EXCEPT ![k] = row]
      BY <2>3
    <3> HIDE DEF row
    <3> QED
      BY <3>1, <3>2
  <2> QED
    BY <2>2, <2>3
<1> QED
  BY <1>1, <1>2, <1>3

LEMMA PageStep ==
    ASSUME BillingInv, NEW p \in Pages, PageNext(p)
    PROVE  BillingInv' /\ ActiveSubs' \subseteq ActiveSubs
<1>t. TypeOK /\ page[p] \in PageRequest /\ tenant \in TenantStatuses
  BY DEF BillingInv, TypeOK
<1>goto. ASSUME NEW r \in PageRequest, PageGoto(p, r) PROVE page' \in [Pages -> PageRequest]
  BY <1>t, <1>goto DEF PageGoto, TypeOK
<1>idle. IdlePage \in PageRequest
  BY DEF IdlePage, PageRequest, PageSteps, TenantStatuses
<1>1. UNCHANGED <<trialEnded, payments, gateway, inbox, hook, cron, faults>>
  BY DEF PageNext, StatusTenant, StatusSubscription, StatusExpire, GetTenant, SuspendTenant,
     EditRead, EditWrite
<1>2. page' \in [Pages -> PageRequest]
  <2>1. CASE StatusTenant(p) \/ EditRead(p)
    <3>1. \A pc \in PageSteps : [ pc |-> pc, seen |-> tenant, sub |-> 0 ] \in PageRequest
      BY <1>t DEF PageRequest
    <3> QED
      BY <2>1, <3>1, <1>goto DEF StatusTenant, EditRead, PageSteps
  <2>2. CASE StatusSubscription(p)
    <3>1. [page[p] EXCEPT !.pc = "suspend"] \in PageRequest
      BY <1>t DEF PageRequest, PageSteps
    <3>2. CASE ActiveSubs = {}
      BY <2>2, <3>1, <3>2, <1>goto, <1>idle DEF StatusSubscription
    <3>3. CASE ActiveSubs # {}
      <4> DEFINE newest == CHOOSE k \in ActiveSubs : \A j \in ActiveSubs : j <= k
                 r == [page[p] EXCEPT !.pc = "sub_expire", !.sub = newest]
      <4>1. newest \in Nat
        BY <1>t, <3>3, Newest, SubsType
      <4>2. PageGoto(p, IF subs[newest].lapsed THEN r ELSE IdlePage)
        BY <2>2, <3>3 DEF StatusSubscription
      <4> HIDE DEF newest
      <4>3. r \in PageRequest
        BY <1>t, <4>1 DEF PageRequest, PageSteps
      <4> HIDE DEF r
      <4> QED
        BY <4>2, <4>3, <1>idle, <1>goto
    <3> QED
      BY <3>2, <3>3
  <2>3. CASE StatusExpire(p)
    <3>1. [page[p] EXCEPT !.pc = "suspend"] \in PageRequest
      BY <1>t DEF PageRequest, PageSteps
    <3> QED
      BY <2>3, <3>1, <1>goto DEF StatusExpire
  <2>4. CASE GetTenant(p)
    <3>1. [IdlePage EXCEPT !.pc = "suspend"] \in PageRequest
      BY <1>idle DEF PageRequest, PageSteps
    <3> QED
      BY <2>4, <3>1, <1>goto DEF GetTenant
  <2>5. CASE SuspendTenant(p) \/ EditWrite(p)
    BY <2>5, <1>idle, <1>goto DEF SuspendTenant, EditWrite
  <2> QED
    BY <2>1, <2>2, <2>3, <2>4, <2>5 DEF PageNext
<1>3. tenant' \in TenantStatuses
  BY <1>t DEF PageNext, StatusTenant, StatusSubscription, StatusExpire, GetTenant, SuspendTenant,
     EditRead, EditWrite, WriteTenant, TenantStatuses, PageRequest
<1>4. /\ subs' \in Seq(Subscription)
      /\ SubsKept
      /\ DOMAIN subs' = DOMAIN subs
      /\ ActiveSubs' \subseteq ActiveSubs
  <2>1. CASE subs' = subs
    BY <2>1, <1>t DEF TypeOK, SubsKept, ActiveSubs
  <2>2. CASE StatusExpire(p)
    BY <2>2, <1>t, RowChanged DEF StatusExpire
  <2> QED
    BY <2>1, <2>2 DEF PageNext, StatusTenant, StatusSubscription, GetTenant, SuspendTenant,
       EditRead, EditWrite
<1> QED
  BY <1>t, <1>1, <1>2, <1>3, <1>4, OthersMove DEF TypeOK

LEMMA CronMoves ==
    ASSUME BillingInv, NEW s \in Servers, CronStep(s)
    PROVE  BillingInv' /\ ActiveSubs' \subseteq ActiveSubs
<1>t. TypeOK /\ cron[s] \in CronRun
  BY DEF BillingInv, TypeOK
<1>1. UNCHANGED <<trialEnded, payments, gateway, inbox, hook, page, faults>>
  BY DEF CronStep, CronTenants, CronTrial, CronList, CronExpire, CronSuspend
<1>2. tenant' \in TenantStatuses
  BY <1>t DEF CronStep, CronTenants, CronTrial, CronList, CronExpire, CronSuspend, WriteTenant,
     TypeOK, TenantStatuses
<1>3. cron' \in [Servers -> CronRun]
  <2>1. CASE CronTenants(s) \/ CronTrial(s)
    <3>1. \A pc \in {"trial", "list"} : [cron[s] EXCEPT !.pc = pc] \in CronRun
      BY <1>t DEF CronRun
    <3> QED
      BY <2>1, <3>1, <1>t DEF CronTenants, CronTrial, TypeOK
  <2>2. ASSUME NEW todo \in SUBSET Nat, CronNext(s, todo) PROVE cron' \in [Servers -> CronRun]
    <3>1. [ pc |-> IF todo = {} THEN "idle" ELSE "expire", todo |-> todo ] \in CronRun
      BY DEF CronRun
    <3> QED
      BY <2>2, <3>1, <1>t DEF CronNext, TypeOK
  <2>3. CASE CronList(s)
    <3>1. {k \in ActiveSubs : subs[k].lapsed} \in SUBSET Nat
      BY <1>t, SubsType DEF ActiveSubs
    <3> QED
      BY <2>2, <2>3, <3>1 DEF CronList
  <2>4. CASE CronSuspend(s)
    BY <2>2, <2>4, <1>t DEF CronSuspend, CronRun
  <2>5. ASSUME NEW k, CronExpire(s, k) PROVE cron' \in [Servers -> CronRun]
    <3>1. [ pc |-> "suspend", todo |-> cron[s].todo \ {k} ] \in CronRun
      BY <1>t DEF CronRun
    <3> QED
      BY <2>5, <3>1, <1>t DEF CronExpire, TypeOK
  <2> QED
    BY <2>1, <2>3, <2>4, <2>5 DEF CronStep
<1>4. /\ subs' \in Seq(Subscription)
      /\ SubsKept
      /\ DOMAIN subs' = DOMAIN subs
      /\ ActiveSubs' \subseteq ActiveSubs
  <2>1. CASE subs' = subs
    BY <2>1, <1>t DEF TypeOK, SubsKept, ActiveSubs
  <2>2. ASSUME NEW k, CronExpire(s, k)
        PROVE  /\ subs' \in Seq(Subscription)
               /\ SubsKept
               /\ DOMAIN subs' = DOMAIN subs
               /\ ActiveSubs' \subseteq ActiveSubs
    BY <2>2, <1>t, RowChanged DEF CronExpire
  <2> QED
    BY <2>1, <2>2 DEF CronStep, CronTenants, CronTrial, CronList, CronSuspend
<1> QED
  BY <1>t, <1>1, <1>2, <1>3, <1>4, OthersMove DEF TypeOK

LEMMA TimeStep ==
    ASSUME BillingInv, EndTrial \/ \E k \in DOMAIN subs : Lapse(k)
    PROVE  BillingInv' /\ ActiveSubs' \subseteq ActiveSubs
<1>t. TypeOK
  BY DEF BillingInv
<1>1. UNCHANGED <<tenant, payments, gateway, inbox, hook, page, cron, faults>>
      /\ trialEnded' \in BOOLEAN
  BY <1>t DEF EndTrial, Lapse, TypeOK
<1>2. /\ subs' \in Seq(Subscription)
      /\ SubsKept
      /\ DOMAIN subs' = DOMAIN subs
      /\ ActiveSubs' \subseteq ActiveSubs
  <2>1. CASE subs' = subs
    BY <2>1, <1>t DEF TypeOK, SubsKept, ActiveSubs
  <2> QED
    BY <2>1, <1>t, RowChanged DEF EndTrial, Lapse
<1> QED
  BY <1>t, <1>1, <1>2, OthersMove DEF TypeOK

LEMMA BillingStep == BillingInv /\ [Next]_vars => BillingInv'
<1> SUFFICES ASSUME BillingInv, [Next]_vars PROVE BillingInv'
  OBVIOUS
<1>1. ASSUME NEW o \in Orders, Checkout(o) \/ Deny(o) \/ Settle(o) PROVE BillingInv'
  BY <1>1, GatewayStep
<1>2. ASSUME NEW h \in Hooks, HookStep(h) \/ HookFault(h) PROVE BillingInv'
  BY <1>2, HookPaymentStep, HookExpireStep, HookInsertStep, HookActivateStep, HookEndStep
  DEF HookStep
<1>3. ASSUME NEW h \in Hooks, NEW o \in Orders, NEW kind \in Kinds, HookRead(h, o, kind)
      PROVE  BillingInv'
  BY <1>3, HookReadStep
<1>4. CASE UNCHANGED vars
  <2>1. TypeOK' /\ SubsKept
    BY <1>4 DEF vars, BillingInv, TypeOK, SubsKept
  <2> QED
    BY <1>4, <2>1, BillingKept DEF vars
<1> QED
  BY <1>1, <1>2, <1>3, <1>4, PageStep, CronMoves, TimeStep DEF Next

----------------------------------------------------------------------------
(* Theorems.                                                               *)

\* The rows, notifications and requests keep their types: the newest active
\* subscription that GetSubscriptionStatus looks for exists, and no failure is
\* counted beyond its bound.
THEOREM BillingTypes == Spec => []TypeOK
<1>1. BillingInv => TypeOK
  BY DEF BillingInv
<1> QED
  BY <1>1, BillingInit, BillingStep, PTL DEF Spec

\* However many webhook requests repeat, overlap and fail: a payment recorded
\* by UpdateOnSuccess names a subscription that was created for its own order.
THEOREM PaymentsAreLinked == Spec => []PaidHasSubscription
<1>1. BillingInv => PaidHasSubscription
  BY DEF BillingInv, Linked, PaidHasSubscription
<1> QED
  BY <1>1, BillingInit, BillingStep, PTL DEF Spec

\* activateSubscription creates no subscription for an order that Midtrans did
\* not settle, however pages, crons and webhook requests interleave.
THEOREM SubscriptionsArePaid == Spec => []OnlyPaidIsServed
<1>1. BillingInv => OnlyPaidIsServed
  BY DEF BillingInv
<1> QED
  BY <1>1, BillingInit, BillingStep, PTL DEF Spec

----------------------------------------------------------------------------
(* How many subscriptions are active.                                      *)

\* The requests that are about to insert a subscription.
Inserting == {h \in Hooks : hook[h].pc = "insert"}

LEMMA SubsCounted ==
    ASSUME TypeOK
    PROVE  /\ IsFiniteSet(ActiveSubs) /\ Cardinality(ActiveSubs) \in Nat
           /\ IsFiniteSet(Inserting) /\ Cardinality(Inserting) \in Nat
           /\ Cardinality(Inserting) <= Cardinality(Hooks)
           /\ Cardinality(Hooks) \in Nat /\ faults \in Nat
<1>1. IsFiniteSet(DOMAIN subs) /\ ActiveSubs \subseteq DOMAIN subs
  BY SubsType, FS_Interval DEF ActiveSubs
<1>2. IsFiniteSet(ActiveSubs) /\ Cardinality(ActiveSubs) \in Nat
  BY <1>1, FS_Subset, FS_CardinalityType
<1>3. IsFiniteSet(Hooks) /\ Inserting \subseteq Hooks
  BY BillingAssumption DEF Inserting
<1>4. IsFiniteSet(Inserting) /\ Cardinality(Inserting) \in Nat
      /\ Cardinality(Inserting) <= Cardinality(Hooks) /\ Cardinality(Hooks) \in Nat
  BY <1>3, FS_Subset, FS_CardinalityType
<1>5. faults \in Nat
  BY BillingAssumption DEF TypeOK
<1> QED
  BY <1>2, <1>4, <1>5

\* A step that makes no subscription active and lets no request insert one.
LEMMA FewerActive ==
    ASSUME TypeOK, TypeOK', ActiveBounded, faults' >= faults,
           ActiveSubs' \subseteq ActiveSubs, Inserting' \subseteq Inserting
    PROVE  ActiveBounded'
<1>1. Cardinality(ActiveSubs') <= Cardinality(ActiveSubs)
  BY SubsCounted, FS_Subset
<1>2. Cardinality(Inserting') <= Cardinality(Inserting)
  BY SubsCounted, FS_Subset
<1>3. /\ Cardinality(ActiveSubs) \in Nat /\ Cardinality(Inserting) \in Nat
      /\ Cardinality(Hooks) \in Nat /\ faults \in Nat
  BY SubsCounted
<1>4. /\ Cardinality(ActiveSubs') \in Nat /\ Cardinality(Inserting') \in Nat
      /\ faults' \in Nat
  BY SubsCounted, FS_Subset, FS_CardinalityType, BillingAssumption DEF TypeOK
<1> QED
  BY <1>1, <1>2, <1>3, <1>4 DEF ActiveBounded, Inserting

\* ExpireAllActive leaves nothing active but what other requests insert; a
\* failure of it is counted.
LEMMA ExpireCounted ==
    ASSUME BillingInv, ActiveBounded, NEW h \in Hooks, HookExpire(h)
    PROVE  ActiveBounded'
<1>t. TypeOK /\ hook[h] \in Handler /\ hook[h].pc = "expire"
  BY DEF BillingInv, TypeOK, HookExpire
<1>1. Inserting' = Inserting \cup {h} /\ h \notin Inserting
  BY <1>t DEF HookExpire, HookGoto, Inserting, TypeOK, Handler
<1>2. /\ IsFiniteSet(Inserting) /\ Cardinality(Inserting) \in Nat
      /\ Cardinality(Hooks) \in Nat /\ faults \in Nat /\ Cardinality(ActiveSubs) \in Nat
  BY <1>t, SubsCounted
<1>3. Cardinality(Inserting') = Cardinality(Inserting) + 1
  BY <1>1, <1>2, FS_AddElement
<1>4. Cardinality(Inserting') <= Cardinality(Hooks)
  BY FS_Subset, BillingAssumption DEF Inserting
<1>5. CASE subs' = [k \in DOMAIN subs |-> [subs[k] EXCEPT !.status = "expired"]]
           /\ faults' = faults
  <2>1. ActiveSubs' = {}
    BY <1>5, <1>t, SubsType DEF ActiveSubs, Subscription
  <2>2. Cardinality(ActiveSubs') = 0
    BY <2>1, FS_EmptySet
  <2> QED
    BY <1>2, <1>3, <1>4, <1>5, <2>2 DEF ActiveBounded, Inserting
<1>6. CASE subs' = subs /\ faults' = faults + 1
  <2>1. ActiveSubs' = ActiveSubs
    BY <1>6 DEF ActiveSubs
  <2> QED
    BY <1>2, <1>3, <1>6, <2>1 DEF ActiveBounded, Inserting
<1> QED
  BY <1>5, <1>6 DEF HookExpire

\* A request that inserts a subscription stops being about to.
LEMMA InsertCounted ==
    ASSUME BillingInv, ActiveBounded, NEW h \in Hooks, HookInsert(h)
    PROVE  ActiveBounded'
<1>t. TypeOK /\ hook[h] \in Handler /\ hook[h].pc = "insert" /\ hook[h].order \in Orders
      /\ CreateSubscription(hook[h].order) /\ faults' = faults
  BY DEF BillingInv, TypeOK, HookInsert, Sound
<1> DEFINE r == [hook[h] EXCEPT !.pc = "paid", !.sub = Len(subs')]
<1>1. hook' = [hook EXCEPT ![h] = r] /\ r.pc = "paid"
  BY <1>t DEF HookInsert, TypeOK, Handler
<1> HIDE DEF r
<1>2. Inserting' = Inserting \ {h} /\ h \in Inserting
  BY <1>t, <1>1 DEF Inserting, TypeOK
<1>3. /\ IsFiniteSet(Inserting) /\ Cardinality(Inserting) \in Nat
      /\ Cardinality(Hooks) \in Nat /\ faults \in Nat
      /\ IsFiniteSet(ActiveSubs) /\ Cardinality(ActiveSubs) \in Nat
  BY <1>t, SubsCounted
<1>4. Cardinality(Inserting') = Cardinality(Inserting) - 1
  BY <1>2, <1>3, FS_RemoveElement
<1>5. /\ DOMAIN subs' = DOMAIN subs \cup {Len(subs')}
      /\ Len(subs') = Len(subs) + 1
      /\ \A j \in DOMAIN subs : subs'[j] = subs[j]
      /\ subs'[Len(subs')].status = "active"
  BY <1>t, RowAppended
<1>6. Len(subs') \notin DOMAIN subs
  BY <1>t, <1>5, SubsType
<1>7. ActiveSubs' = ActiveSubs \cup {Len(subs')} /\ Len(subs') \notin ActiveSubs
  BY <1>5, <1>6 DEF ActiveSubs
<1>8. Cardinality(ActiveSubs') = Cardinality(ActiveSubs) + 1
  BY <1>3, <1>7, FS_AddElement
<1> QED
  BY <1>t, <1>3, <1>4, <1>8 DEF ActiveBounded, Inserting

\* A tenant has no more active subscriptions than webhook requests overlapped
\* and ExpireAllActive failed: one, if neither happens.
THEOREM ActiveIsBounded == Spec => []ActiveBounded
<1>1. Init => ActiveBounded
  <2> SUFFICES ASSUME Init PROVE ActiveBounded
    OBVIOUS
  <2>1. ActiveSubs = {} /\ Inserting = {}
    BY EmptySeq DEF Init, ActiveSubs, Inserting, IdleHook
  <2>2. Cardinality(ActiveSubs) = 0 /\ Cardinality(Inserting) = 0 /\ Cardinality(Hooks) \in Nat
    BY <2>1, FS_EmptySet, FS_CardinalityType, BillingAssumption
  <2> QED
    BY <2>2 DEF ActiveBounded, Inserting, Init
<1>2. BillingInv /\ ActiveBounded /\ [Next]_vars => ActiveBounded'
  <2> SUFFICES ASSUME BillingInv, ActiveBounded, [Next]_vars PROVE ActiveBounded'
    OBVIOUS
  <2>t. TypeOK /\ TypeOK' /\ faults \in Nat
    BY BillingStep, SubsCounted DEF BillingInv
  <2>1. ASSUME UNCHANGED <<hook, faults>>, ActiveSubs' \subseteq ActiveSubs
        PROVE  ActiveBounded'
    <3>1. Inserting' = Inserting
      BY <2>1 DEF Inserting
    <3> QED
      BY <2>1, <2>t, <3>1, FewerActive
  <2>2. ASSUME UNCHANGED subs, faults' >= faults, NEW h \in Hooks, NEW r, r.pc # "insert",
               hook' = [hook EXCEPT ![h] = r]
        PROVE  ActiveBounded'
    <3>1. Inserting' \subseteq Inserting
      BY <2>2, <2>t DEF Inserting, TypeOK
    <3>2. ActiveSubs' = ActiveSubs
      BY <2>2 DEF ActiveSubs
    <3> QED
      BY <2>2, <2>t, <3>1, <3>2, FewerActive
  <2>3. ASSUME NEW h \in Hooks,
               HookFail(h) \/ HookActivate(h) \/ HookReply(h) \/ HookFault(h)
        PROVE  ActiveBounded'
    <3>1. UNCHANGED subs /\ faults' >= faults
      BY <2>3, <2>t DEF HookFail, HookActivate, HookReply, HookFault
    <3>2. ASSUME NEW pc, pc # "insert", HookGoto(h, pc) PROVE ActiveBounded'
      <4> DEFINE r == [hook[h] EXCEPT !.pc = pc]
      <4>1. hook' = [hook EXCEPT ![h] = r] /\ r.pc # "insert"
        BY <3>2, <2>t DEF HookGoto, TypeOK, Handler
      <4> HIDE DEF r
      <4> QED
        BY <3>1, <4>1, <2>2
    <3>3. CASE hook' = [hook EXCEPT ![h] = IdleHook]
      BY <3>1, <3>3, <2>2 DEF IdleHook
    <3> QED
      BY <2>3, <3>2, <3>3 DEF HookFail, HookActivate, HookReply, HookFault
  <2>10. ASSUME NEW h \in Hooks, HookPaid(h) PROVE ActiveBounded'
    <3>1. Inserting' \subseteq Inserting
      BY <2>10, <2>t, PaidMoves DEF Inserting
    <3>2. ActiveSubs' = ActiveSubs /\ faults' >= faults
      BY <2>10, <2>t DEF HookPaid, ActiveSubs
    <3> QED
      BY <2>t, <3>1, <3>2, FewerActive
  <2>4. ASSUME NEW h \in Hooks, NEW o \in Orders, NEW kind \in Kinds, HookRead(h, o, kind)
        PROVE  ActiveBounded'
    <3> DEFINE pc == IF payments[o].status = "success" THEN "reply"
                     ELSE IF IsSuccessStatus(kind) THEN "expire"
                     ELSE IF IsFailedStatus(kind) THEN "fail"
                     ELSE "reply"
               r == [ order |-> o, kind |-> kind, sub |-> 0, overtaken |-> FALSE, pc |-> pc ]
    <3>1. hook' = [hook EXCEPT ![h] = r] /\ UNCHANGED subs /\ faults' = faults
      BY <2>4 DEF HookRead
    <3>2. r.pc # "insert" /\ faults' >= faults
      BY <2>t, <3>1
    <3> HIDE DEF r
    <3> QED
      BY <3>1, <3>2, <2>2
  <2>5. ASSUME NEW o \in Orders, Checkout(o) \/ Deny(o) \/ Settle(o) PROVE ActiveBounded'
    <3>1. ActiveSubs' = ActiveSubs /\ Inserting' = Inserting /\ faults' >= faults
      BY <2>5, <2>t DEF Checkout, Deny, Settle, ActiveSubs, Inserting
    <3> QED
      BY <2>t, <3>1, FewerActive
  <2>6. ASSUME NEW p \in Pages, PageNext(p) PROVE ActiveBounded'
    <3>1. UNCHANGED <<hook, faults>>
      BY <2>6 DEF PageNext, StatusTenant, StatusSubscription, StatusExpire, GetTenant,
         SuspendTenant, EditRead, EditWrite
    <3> QED
      BY <2>1, <2>6, <3>1, PageStep
  <2>7. ASSUME NEW s \in Servers, CronStep(s) PROVE ActiveBounded'
    <3>1. UNCHANGED <<hook, faults>>
      BY <2>7 DEF CronStep, CronTenants, CronTrial, CronList, CronExpire, CronSuspend
    <3> QED
      BY <2>1, <2>7, <3>1, CronMoves
  <2>8. CASE EndTrial \/ \E k \in DOMAIN subs : Lapse(k)
    BY <2>1, <2>8, TimeStep DEF EndTrial, Lapse
  <2>9. CASE UNCHANGED vars
    BY <2>1, <2>9 DEF vars, ActiveSubs
  <2> QED
    BY <2>3, <2>4, <2>5, <2>6, <2>7, <2>8, <2>9, <2>10, ExpireCounted, InsertCounted DEF Next, HookStep
<1> QED
  BY <1>1, <1>2, BillingInit, BillingStep, PTL DEF Spec

----------------------------------------------------------------------------
(* A success is not taken back.                                            *)

\* A request that is about to record a failure found no success; if there is
\* one now, another request has recorded it since.
FailsOpen ==
    \A h \in Hooks : hook[h].pc = "fail" =>
        payments[hook[h].order].status # "success" \/ hook[h].overtaken

\* HandleWebhookNotification overwrites a payment that succeeded only where a
\* denial was looked up before the success was recorded and is written after
\* it: for any number of orders and webhook requests, in whatever order and
\* however often the outcomes of an order arrive.
THEOREM SuccessIsKept == Spec => SuccessStays
<1> DEFINE Kept == \A o \in Orders :
         payments[o].status = "success" /\ payments'[o].status # "success" =>
             \E h \in Hooks :
                 /\ hook[h].order = o /\ hook[h].overtaken
                 /\ hook[h].pc = "fail" /\ hook'[h].pc = "reply"
<1>1. Init => FailsOpen
  BY DEF Init, FailsOpen, IdleHook
<1>2. BillingInv /\ FailsOpen /\ [Next]_vars => FailsOpen' /\ Kept
  <2> SUFFICES ASSUME BillingInv, FailsOpen, [Next]_vars PROVE FailsOpen' /\ Kept
    OBVIOUS
  <2>t. TypeOK
    BY DEF BillingInv
  <2>1. CASE UNCHANGED <<hook, payments>>
    BY <2>1 DEF FailsOpen
  <2>2. ASSUME NEW h \in Hooks, NEW o \in Orders, NEW kind \in Kinds, HookRead(h, o, kind)
        PROVE  FailsOpen' /\ payments' = payments
    BY <2>2, <2>t DEF FailsOpen, HookRead, TypeOK
  <2>3. ASSUME NEW h \in Hooks, NEW pc, pc # "fail", HookGoto(h, pc), payments' = payments
        PROVE  FailsOpen'
    BY <2>3, <2>t DEF FailsOpen, HookGoto, TypeOK, Handler
  <2>o. \A h \in Hooks : hook[h] \in Handler /\ (hook[h].pc # "idle" => hook[h].order \in Orders)
    BY DEF BillingInv, TypeOK, Sound
  <2>4. ASSUME NEW h \in Hooks, HookFail(h) PROVE FailsOpen' /\ Kept
    <3> DEFINE p == hook[h].order
               row == [payments[p] EXCEPT !.status = "failed"]
    <3>1. p \in Orders /\ hook[h].pc = "fail"
      BY <2>4, <2>o DEF HookFail
    <3>2. row.status = "failed" /\ payments' = [payments EXCEPT ![p] = row]
      BY <2>4, <3>1, <2>t DEF HookFail, TypeOK, Payment
    <3>3. hook'[h].pc = "reply"
          /\ \A g \in Hooks : g # h => hook'[g] = hook[g]
      BY <2>4, <2>t DEF HookFail, HookGoto, TypeOK, Handler
    <3> HIDE DEF row, p
    <3>4. \A o \in Orders : payments'[o] = IF o = p THEN row ELSE payments[o]
      BY <3>1, <3>2, <2>t DEF TypeOK
    <3>5. FailsOpen'
      BY <3>2, <3>3, <3>4, <2>o DEF FailsOpen
    <3>6. Kept
      BY <3>1, <3>2, <3>3, <3>4 DEF FailsOpen, p
    <3> QED
      BY <3>5, <3>6
  <2>12. ASSUME NEW h \in Hooks, HookPaid(h) PROVE FailsOpen' /\ Kept
    <3> DEFINE p == hook[h].order
               row == [ status |-> "success", sub |-> hook[h].sub ]
    <3>1. p \in Orders
      BY <2>12, <2>o DEF HookPaid
    <3>2. row.status = "success" /\ payments' = [payments EXCEPT ![p] = row]
      BY <2>12 DEF HookPaid, UpdateOnSuccess
    <3> HIDE DEF row
    <3>4. \A o \in Orders : payments'[o] = IF o = p THEN row ELSE payments[o]
      BY <3>1, <3>2, <2>t DEF TypeOK
    <3>5. ASSUME NEW g \in Hooks, hook'[g].pc = "fail"
          PROVE  payments'[hook'[g].order].status # "success" \/ hook'[g].overtaken
      <4>1. g # h /\ hook[g].pc = "fail" /\ hook'[g].order = hook[g].order
            /\ hook'[g].overtaken = (hook[g].overtaken \/ hook[g].order = p)
        BY <2>12, <2>t, <3>5, PaidMoves
      <4> QED
        BY <4>1, <3>4, <2>o DEF FailsOpen
    <3>6. Kept
      BY <3>2, <3>4
    <3> QED
      BY <3>5, <3>6 DEF FailsOpen
  <2>5. ASSUME NEW h \in Hooks, HookExpire(h) \/ HookActivate(h)
        PROVE  FailsOpen' /\ payments' = payments
    BY <2>3, <2>5 DEF HookExpire, HookActivate
  <2>6. ASSUME NEW h \in Hooks, HookReply(h) \/ HookFault(h) PROVE FailsOpen' /\ payments' = payments
    BY <2>6, <2>t DEF HookReply, HookFault, FailsOpen, TypeOK, IdleHook
  <2>7. ASSUME NEW h \in Hooks, HookInsert(h) PROVE FailsOpen' /\ payments' = payments
    <3> DEFINE r == [hook[h] EXCEPT !.pc = "paid", !.sub = Len(subs')]
    <3>1. hook' = [hook EXCEPT ![h] = r] /\ r.pc = "paid" /\ payments' = payments
      BY <2>7, <2>t DEF HookInsert, TypeOK, Handler
    <3> HIDE DEF r
    <3> QED
      BY <3>1, <2>t DEF FailsOpen, TypeOK
  <2>8. ASSUME NEW o \in Orders, Checkout(o) \/ Deny(o) \/ Settle(o)
        PROVE  FailsOpen' /\ Kept
    <3>1. CASE payments' = payments
      BY <2>1, <2>8, <3>1 DEF Checkout, Deny, Settle
    <3>2. CASE CreatePayment(o) /\ gateway[o] = "none"
      <4>1. payments[o].status # "success"
        BY <3>2 DEF BillingInv, Linked, OnlyPaidIsServed
      <4>2. payments[o] \in Payment /\ UNCHANGED hook
        BY <2>8, <2>t DEF TypeOK, Checkout, Deny, Settle
      <4>3. \A p \in Orders : /\ payments[p].status = "success" => payments'[p] = payments[p]
                              /\ payments'[p].status = "success" => payments'[p] = payments[p]
        BY <3>2, <4>1, <4>2, <2>t DEF CreatePayment, TypeOK, Payment
      <4>4. \A h \in Hooks : hook[h].pc = "fail" => hook[h].order \in Orders
        BY DEF BillingInv, Sound
      <4> QED
        BY <4>2, <4>3, <4>4 DEF FailsOpen
    <3> QED
      BY <2>8, <3>1, <3>2 DEF Checkout, Deny, Settle, CreateTransaction
  <2>9. ASSUME NEW p \in Pages, PageNext(p) PROVE UNCHANGED <<hook, payments>>
    BY <2>9 DEF PageNext, StatusTenant, StatusSubscription, StatusExpire, GetTenant,
       SuspendTenant, EditRead, EditWrite
  <2>10. ASSUME NEW s \in Servers, CronStep(s) PROVE UNCHANGED <<hook, payments>>
    BY <2>10 DEF CronStep, CronTenants, CronTrial, CronList, CronExpire, CronSuspend
  <2>11. CASE EndTrial \/ (\E k \in DOMAIN subs : Lapse(k)) \/ UNCHANGED vars
    BY <2>1, <2>11 DEF EndTrial, Lapse, vars
  <2> QED
    BY <2>1, <2>2, <2>4, <2>5, <2>6, <2>7, <2>8, <2>9, <2>10, <2>11, <2>12 DEF Next, HookStep
<1> QED
  BY <1>1, <1>2, BillingInit, BillingStep, PTL DEF Spec, SuccessStays, Kept
=============================================================================

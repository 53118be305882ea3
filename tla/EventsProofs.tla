----------------------------- MODULE EventsProofs -----------------------------
(***************************************************************************)
(* The lifecycle of events, for any number of events, requests and days:   *)
(* the types, the order of the dates, and the rules on closed and ongoing  *)
(* events.                                                                 *)
(*                                                                         *)
(* The properties are not inductive: what a request has checked is in its  *)
(* local state.  The strengthening says that the row it carries is in      *)
(* order, and that what it read still holds until it is overtaken.         *)
(***************************************************************************)
EXTENDS Events, TLAPS

Writing == {"update", "publish", "delete"}

\* What a request is about to write.
Carries(r) ==
    /\ r.pc = "update" => r.row \in Row /\ Ordered(r.row)
    /\ r.pc \in Writing => r.event \in Events

\* What the request has read of its event.
ReadHolds(r) ==
    /\ Live(r.event)
    /\ r.pc = "update" =>
         /\ events[r.event].row.status # "closed"
         /\ events[r.event].row.deadline # NoDay => r.row.deadline # NoDay
    /\ r.pc = "publish" => events[r.event].row.status = "draft"
    /\ r.pc = "delete" => events[r.event].row.status # "ongoing"

Reads == \A h \in Handlers :
    req[h].pc \in Writing /\ ~req[h].overtaken => ReadHolds(req[h])

EventsInv ==
    /\ TypeOK
    /\ DatesOrdered
    /\ \A h \in Handlers : Carries(req[h])
    /\ Reads

\* Nobody is serving a request and there is no event.
LEMMA EventsInit == Init => EventsInv
<1> SUFFICES ASSUME Init PROVE EventsInv
  OBVIOUS
<1>1. Idle \in Request /\ NoRow \in Event /\ Carries(Idle) /\ Idle.pc = "idle"
  BY DEF Idle, Request, NoRow, Event, Carries, Writing
<1>2. TypeOK
  BY <1>1 DEF Init, TypeOK
<1>3. DatesOrdered
  BY DEF Init, DatesOrdered, LiveEvents, Live, NoRow
<1>4. \A h \in Handlers : req[h] = Idle
  BY DEF Init
<1> QED
  BY <1>1, <1>2, <1>3, <1>4 DEF EventsInv, Reads, Writing

\* A step that writes no event keeps the invariant when the request it leaves
\* behind is as it should be.
LEMMA LocalStep ==
    ASSUME EventsInv, NEW h \in Handlers, NEW r \in Request, Goto(h, r),
           UNCHANGED <<events, mixed>>,
           Carries(r), r.pc \in Writing /\ ~r.overtaken => ReadHolds(r)
    PROVE  EventsInv'
<1> USE DEF EventsInv, Goto
<1>1. TypeOK'
  BY DEF TypeOK
<1>2. DatesOrdered'
  BY DEF DatesOrdered, LiveEvents, Live
<1>3. \A i \in Handlers : req'[i] = IF i = h THEN r ELSE req[i]
  BY DEF TypeOK
<1>4. \A i \in Handlers : Carries(req'[i])
  BY <1>3
<1>5. Reads'
  BY <1>3 DEF Reads, ReadHolds, Live
<1> QED
  BY <1>1, <1>2, <1>4, <1>5 DEF Carries

LEMMA IdleFits == Idle \in Request /\ Carries(Idle) /\ Idle.pc \notin Writing
  BY DEF Idle, Request, Carries, Writing

\* The end of a request.
LEMMA EndStep ==
    ASSUME EventsInv, NEW h \in Handlers, End(h), UNCHANGED <<events, mixed>>
    PROVE  EventsInv'
  BY LocalStep, IdleFits DEF End, EventsInv, TypeOK

\* A request that starts on a live event.
LEMMA BeginStep ==
    ASSUME EventsInv, NEW h \in Handlers, NEW e \in Events, Live(e),
           NEW pc \in Writing, NEW r \in Row \cup {NoEvent}, Begin(h, pc, e, r),
           pc = "update" =>
             /\ r \in Row /\ Ordered(r)
             /\ events[e].row.status # "closed"
             /\ events[e].row.deadline # NoDay => r.deadline # NoDay,
           pc = "publish" => events[e].row.status = "draft",
           pc = "delete" => events[e].row.status # "ongoing"
    PROVE  EventsInv'
<1> DEFINE q == [Idle EXCEPT !.pc = pc, !.event = e, !.row = r]
<1>1. /\ q \in Request
      /\ q.pc = pc /\ q.event = e /\ q.row = r
  BY DEF Idle, Request, Writing
<1>2. Carries(q) /\ ReadHolds(q)
  BY <1>1 DEF Carries, ReadHolds, Writing
<1> QED
  BY <1>1, <1>2, LocalStep DEF Begin, EventsInv, TypeOK

\* A write of the event of a request: whoever else has read that event is
\* overtaken, and everybody else has read another one.
LEMMA WriteStep ==
    ASSUME EventsInv, NEW h \in Handlers, req[h].pc \in Writing,
           NEW r \in Event, Write(h, r),
           r.state = "live" => Ordered(r.row) \/ req[h].event \in mixed'
    PROVE  EventsInv'
<1> DEFINE e == req[h].event
<1> USE DEF EventsInv
<1>1. e \in Events
  BY DEF Carries
<1>2. \A d \in Events : events'[d] = IF d = e THEN r ELSE events[d]
  BY <1>1 DEF Write, TypeOK
<1>3. /\ req'[h] = Idle
      /\ \A i \in Handlers \ {h} :
           req'[i] = [req[i] EXCEPT !.overtaken = @ \/ req[i].event = e]
  BY DEF Write
<1>4. \A i \in Handlers \ {h} :
        /\ req'[i] \in Request
        /\ req'[i].pc = req[i].pc /\ req'[i].row = req[i].row
        /\ req'[i].event = req[i].event
        /\ ~req'[i].overtaken => ~req[i].overtaken /\ req[i].event # e
  <2> SUFFICES ASSUME NEW i \in Handlers \ {h}
               PROVE  /\ req'[i] \in Request
                      /\ req'[i].pc = req[i].pc /\ req'[i].row = req[i].row
                      /\ req'[i].event = req[i].event
                      /\ ~req'[i].overtaken => ~req[i].overtaken /\ req[i].event # e
    OBVIOUS
  <2>1. PICK o \in BOOLEAN : o = (req[i].overtaken \/ req[i].event = e)
    OBVIOUS
  <2>2. req'[i] = [req[i] EXCEPT !.overtaken = o]
    BY <1>3, <2>1
  <2>3. req[i] \in Request
    BY DEF TypeOK
  <2>4. /\ req'[i] \in Request
        /\ req'[i].pc = req[i].pc /\ req'[i].row = req[i].row
        /\ req'[i].event = req[i].event
        /\ req'[i].overtaken = o
    BY <2>2, <2>3 DEF Request
  <2> QED
    BY <2>1, <2>4
<1>5. mixed' \subseteq Events /\ \A d \in Events \ {e} : d \in mixed => d \in mixed'
  BY <1>1 DEF Write, TypeOK
<1>6. TypeOK'
  <2>1. events' \in [Events -> Event]
    BY <1>1 DEF Write, TypeOK
  <2>2. \A i \in Handlers : req'[i] \in Request
    BY <1>3, <1>4, IdleFits
  <2>3. req' \in [Handlers -> Request]
    BY <2>2 DEF Write
  <2> QED
    BY <2>1, <2>3, <1>5 DEF TypeOK, Write
<1>7. DatesOrdered'
  <2> SUFFICES ASSUME NEW d \in Events, events'[d].state = "live"
               PROVE  Ordered(events'[d].row) \/ d \in mixed'
    BY DEF DatesOrdered, LiveEvents, Live
  <2> QED
    BY <1>2, <1>5 DEF DatesOrdered, LiveEvents, Live
<1>8. \A i \in Handlers : Carries(req'[i])
  BY <1>3, <1>4, IdleFits DEF Carries
<1>9. Reads'
  <2> SUFFICES ASSUME NEW i \in Handlers, req'[i].pc \in Writing, ~req'[i].overtaken
               PROVE  ReadHolds(req[i])'
    BY DEF Reads
  <2>1. i # h
    BY <1>3, IdleFits
  <2>2. req[i].event \in Events /\ req[i].event # e /\ ReadHolds(req[i])
    BY <2>1, <1>4 DEF Reads, Carries
  <2> QED
    BY <2>1, <2>2, <1>2, <1>4 DEF ReadHolds, Live
<1> QED
  BY <1>6, <1>7, <1>8, <1>9 DEF Carries

\* Create inserts a row that nobody can have read.
LEMMA CreateStep ==
    ASSUME EventsInv, NEW e \in Events, NEW r \in EventCreateRequest, Create(e, r)
    PROVE  EventsInv'
<1> DEFINE n == [state |-> "live", row |-> r]
<1> USE DEF EventsInv
<1>1. n \in Event /\ Ordered(n.row) /\ ~Live(e)
  BY DEF Create, EventCreateRequest, Event, Live, NoRow
<1>2. \A d \in Events : events'[d] = IF d = e THEN n ELSE events[d]
  BY DEF Create, TypeOK
<1>3. req' = req /\ mixed' = mixed
  BY DEF Create
<1>4. TypeOK'
  BY <1>1, <1>3 DEF Create, TypeOK
<1>5. DatesOrdered'
  BY <1>1, <1>2, <1>3 DEF DatesOrdered, LiveEvents, Live
<1>6. \A i \in Handlers : Carries(req'[i])
  BY <1>3
<1>7. Reads'
  <2> SUFFICES ASSUME NEW i \in Handlers, req[i].pc \in Writing, ~req[i].overtaken
               PROVE  ReadHolds(req[i])'
    BY <1>3 DEF Reads
  <2>1. req[i].event \in Events /\ req[i].event # e /\ ReadHolds(req[i])
    BY <1>1 DEF Reads, Carries, ReadHolds
  <2> QED
    BY <2>1, <1>2, <1>3 DEF ReadHolds, Live
<1> QED
  BY <1>4, <1>5, <1>6, <1>7 DEF Carries

\* UpdateWrite puts the dates of its own row, which are in order, over those of
\* the event.  A deadline that it does not set is that of the event: there is
\* none, unless another request has set it meanwhile.
LEMMA UpdateWriteStep ==
    ASSUME EventsInv, NEW h \in Handlers, UpdateWrite(h)
    PROVE  EventsInv'
<1> DEFINE e == req[h].event
           new == Coalesce(events[e].row, req[h].row)
           r == [events[e] EXCEPT !.row = new]
<1> USE DEF EventsInv
<1>1. CASE ~Live(e)
  BY <1>1, EndStep DEF UpdateWrite, WriteLive
<1>2. CASE Live(e)
  <2>1. req[h].pc \in Writing /\ e \in Events /\ req[h].row \in Row /\ Ordered(req[h].row)
    BY DEF UpdateWrite, Carries, Writing
  <2>2. events[e].row \in Row
    BY <1>2, <2>1 DEF TypeOK, Event, Live
  <2>3. new \in Row
    BY <2>1, <2>2 DEF Coalesce, Row
  <2>4. r \in Event /\ r.row = new
    BY <1>2, <2>1, <2>3 DEF TypeOK, Event, Live
  <2>5. Write(h, r)
    BY <1>2 DEF UpdateWrite, WriteLive
  <2>6. Ordered(new) \/ e \in mixed'
    <3>1. CASE req[h].overtaken
      BY <3>1, <2>5 DEF Write, UpdateWrite
    <3>2. CASE ~req[h].overtaken
      <4>1. events[e].row.deadline # NoDay => req[h].row.deadline # NoDay
        BY <3>2, <2>1 DEF Reads, ReadHolds, UpdateWrite
      <4> QED
        BY <4>1, <2>1, <2>2 DEF Coalesce, Ordered, Row, NoDay, Days
    <3> QED
      BY <3>1, <3>2 DEF TypeOK, Request
  <2> QED
    BY <2>1, <2>4, <2>5, <2>6, WriteStep
<1> QED
  BY <1>1, <1>2

\* Publish keeps the dates.
LEMMA PublishWriteStep ==
    ASSUME EventsInv, NEW h \in Handlers, PublishWrite(h)
    PROVE  EventsInv'
<1> DEFINE e == req[h].event
           r == [events[e] EXCEPT !.row.status = "published"]
<1> USE DEF EventsInv
<1>1. CASE ~Live(e)
  BY <1>1, EndStep DEF PublishWrite, WriteLive
<1>2. CASE Live(e)
  <2>1. req[h].pc \in Writing /\ e \in Events
    BY DEF PublishWrite, Carries, Writing
  <2>2. events[e].row \in Row /\ events[e].state = "live"
    BY <1>2, <2>1 DEF TypeOK, Event, Live
  <2>3. /\ r \in Event
        /\ r.row.start = events[e].row.start
        /\ r.row.deadline = events[e].row.deadline
    BY <2>1, <2>2 DEF TypeOK, Event, Row, Statuses
  <2>4. Write(h, r)
    BY <1>2 DEF PublishWrite, WriteLive
  <2>5. Ordered(r.row) \/ e \in mixed'
    BY <1>2, <2>1, <2>3, <2>4 DEF DatesOrdered, LiveEvents, Ordered, Write, PublishWrite
  <2> QED
    BY <2>1, <2>3, <2>4, <2>5, WriteStep
<1> QED
  BY <1>1, <1>2

LEMMA DeleteWriteStep ==
    ASSUME EventsInv, NEW h \in Handlers, DeleteWrite(h)
    PROVE  EventsInv'
<1>1. DeletedRow \in Event /\ DeletedRow.state # "live"
  BY DEF DeletedRow, Event
<1>2. req[h].pc \in Writing
  BY DEF DeleteWrite, Writing
<1> QED
  BY <1>1, <1>2, WriteStep, EndStep DEF DeleteWrite, WriteLive

\* Every step of every request keeps the invariant.
LEMMA EventsStep == EventsInv /\ [Next]_vars => EventsInv'
<1> SUFFICES ASSUME EventsInv, [Next]_vars PROVE EventsInv'
  OBVIOUS
<1>1. ASSUME NEW e \in Events, NEW r \in EventCreateRequest, Create(e, r)
      PROVE  EventsInv'
  BY <1>1, CreateStep
<1>2. ASSUME NEW h \in Handlers, NEW e \in Events, UpdateRead(h, e) PROVE EventsInv'
  <2>1. PICK r \in EventUpdateRequest(events[e].row) : Begin(h, "update", e, r)
    BY <1>2 DEF UpdateRead
  <2>2. /\ r \in Row /\ Ordered(r)
        /\ events[e].row.deadline # NoDay => r.deadline # NoDay
    BY DEF EventUpdateRequest
  <2>3. "update" \in Writing
    BY DEF Writing
  <2> QED
    BY <1>2, <2>1, <2>2, <2>3, BeginStep DEF UpdateRead
<1>3. ASSUME NEW h \in Handlers, NEW e \in Events, PublishRead(h, e) PROVE EventsInv'
  BY <1>3, BeginStep DEF PublishRead, Writing
<1>4. ASSUME NEW h \in Handlers, NEW e \in Events, DeleteRead(h, e) PROVE EventsInv'
  BY <1>4, BeginStep DEF DeleteRead, Writing
<1>5. ASSUME NEW h \in Handlers, Abort(h) PROVE EventsInv'
  BY <1>5, EndStep DEF Abort
<1>6. CASE UNCHANGED vars
  BY <1>6 DEF vars, EventsInv, TypeOK, DatesOrdered, LiveEvents, Live, Carries, Reads,
     ReadHolds
<1> QED
  BY <1>1, <1>2, <1>3, <1>4, <1>5, <1>6, UpdateWriteStep, PublishWriteStep,
     DeleteWriteStep
  DEF Next, UpdateStep, PublishStep, DeleteStep

\* Create and Update: types, and dates in order unless requests overlapped.
THEOREM EventsCorrect == Spec => [](TypeOK /\ DatesOrdered)
<1>1. Init => EventsInv
  BY EventsInit
<1>2. EventsInv /\ [Next]_vars => EventsInv'
  BY EventsStep
<1>3. EventsInv => TypeOK /\ DatesOrdered
  BY DEF EventsInv
<1> QED
  BY <1>1, <1>2, <1>3, PTL DEF Spec

\* The rules on closed and ongoing events, as a formula on one step.
Lifecycle(e) ==
    Live(e) /\ events'[e] # events[e] =>
        \/ events[e].row.status = "closed" /\ events'[e].state = "deleted"
        \/ events[e].row.status = "ongoing" /\ events'[e].state = "live"
        \/ events[e].row.status \in {"draft", "published"}
        \/ \E h \in Handlers :
             req[h].event = e /\ req[h].overtaken /\ req'[h].pc = "idle"

\* An event that exists is written by WriteLive only.  A request that was not
\* overtaken still sees the status it has checked.
LEMMA LifecycleStep ==
    ASSUME EventsInv, [Next]_vars, NEW e \in Events PROVE Lifecycle(e)
<1> SUFFICES ASSUME Live(e), events'[e] # events[e] PROVE Lifecycle(e)
  BY DEF Lifecycle
<1> USE DEF EventsInv
<1>t. events[e].row.status \in Statuses
  BY DEF TypeOK, Event, Live, Row
<1>w. ASSUME NEW h \in Handlers, NEW r, req[h].pc \in Writing, WriteLive(h, r),
             req[h].pc \in {"update", "publish"} => r.state = "live",
             req[h].pc = "delete" => r.state = "deleted"
      PROVE  Lifecycle(e)
  <2>1. Write(h, r)
    BY <1>w DEF WriteLive
  <2>2. req[h].event = e /\ events'[e] = r
    BY <2>1 DEF Write, TypeOK
  <2>3. req'[h].pc = "idle"
    BY <2>1 DEF Write, Idle
  <2>4. CASE req[h].overtaken
    BY <2>2, <2>3, <2>4 DEF Lifecycle
  <2>5. CASE ~req[h].overtaken
    <3>1. ReadHolds(req[h])
      BY <1>w, <2>5 DEF Reads
    <3> QED
      BY <3>1, <1>w, <1>t, <2>2 DEF ReadHolds, Lifecycle, Writing, Statuses
  <2> QED
    BY <2>4, <2>5
<1>1. ASSUME NEW h \in Handlers, UpdateWrite(h) PROVE Lifecycle(e)
  <2> DEFINE d == req[h].event
             r == [events[d] EXCEPT !.row = Coalesce(@, req[h].row)]
  <2>1. WriteLive(h, r) /\ req[h].pc = "update" /\ d \in Events
    BY <1>1 DEF UpdateWrite, Carries, Writing
  <2>2. Live(d)
    BY <2>1 DEF WriteLive
  <2>3. r.state = "live"
    BY <2>1, <2>2 DEF Live, TypeOK, Event
  <2>4. req[h].pc \in Writing /\ req[h].pc # "delete"
    BY <2>1 DEF Writing
  <2> HIDE DEF r
  <2> QED
    BY <2>1, <2>3, <2>4, <1>w
<1>2. ASSUME NEW h \in Handlers, PublishWrite(h) PROVE Lifecycle(e)
  <2> DEFINE d == req[h].event
             r == [events[d] EXCEPT !.row.status = "published"]
  <2>1. WriteLive(h, r) /\ req[h].pc = "publish" /\ d \in Events
    BY <1>2 DEF PublishWrite, Carries, Writing
  <2>2. Live(d)
    BY <2>1 DEF WriteLive
  <2>3. r.state = "live"
    BY <2>1, <2>2 DEF Live, TypeOK, Event
  <2>4. req[h].pc \in Writing /\ req[h].pc # "delete"
    BY <2>1 DEF Writing
  <2> HIDE DEF r
  <2> QED
    BY <2>1, <2>3, <2>4, <1>w
<1>3. ASSUME NEW h \in Handlers, DeleteWrite(h) PROVE Lifecycle(e)
  BY <1>3, <1>w DEF DeleteWrite, Writing, DeletedRow
<1>4. \A h \in Handlers : ~Abort(h)
  BY DEF Abort
<1>5. ASSUME NEW h \in Handlers, NEW d \in Events
      PROVE  ~UpdateRead(h, d) /\ ~PublishRead(h, d) /\ ~DeleteRead(h, d)
  BY DEF UpdateRead, PublishRead, DeleteRead, Begin
<1>6. ASSUME NEW d \in Events, NEW r \in EventCreateRequest, Create(d, r)
      PROVE  FALSE
  <2>1. d # e
    BY <1>6 DEF Create, Live, NoRow
  <2> QED
    BY <2>1, <1>6 DEF Create, TypeOK
<1> QED
  BY <1>1, <1>2, <1>3, <1>4, <1>5, <1>6
  DEF Next, UpdateStep, PublishStep, DeleteStep, vars

\* Update and SoftDelete: no closed event changes, and no ongoing one is
\* deleted, but by a request that another one has overtaken.
THEOREM LifecycleIsKept == Spec => LifecycleHolds
<1>1. Init => EventsInv
  BY EventsInit
<1>2. EventsInv /\ [Next]_vars => EventsInv'
  BY EventsStep
<1>3. EventsInv /\ [Next]_vars => [\A e \in Events : Lifecycle(e)]_vars
  BY LifecycleStep
<1> QED
  BY <1>1, <1>2, <1>3, PTL DEF Spec, LifecycleHolds, Lifecycle
=============================================================================

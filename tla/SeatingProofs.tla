--------------------------- MODULE SeatingProofs ---------------------------
(***************************************************************************)
(* Proofs about Seating: what requests that run side by side may do to a   *)
(* table, for any number of tables, guests and requests.                   *)
(***************************************************************************)
EXTENDS Seating, FiniteSetTheorems, TLAPS

----------------------------------------------------------------------------
(* What requests know.                                                     *)

ByHand == {"guest", "roster", "count", "existing", "insert", "unassign",
           "occupancy", "write"}
Automatic == {"page", "taken", "seat"}

\* What holds of a request whatever the others do: roster rows stay.
Facts(r) ==
    /\ r.pc \in ByHand => r.table \in Tables
    /\ r.pc \in ByHand \ {"occupancy", "write"} => r.guest \in Guests
    /\ r.pc \in {"count", "existing", "insert"} => OnRoster(r.guest)
    /\ r.pc \in {"taken", "seat"} => \A g \in r.todo : OnRoster(g)
    /\ r.pc \in {"occupancy", "write"} => r.row.status = "live"

\* What request r knows of table t as long as nobody else writes it: row is the
\* table, A the guests who sit there, spoiled whether it may be overfull.
Knows(r, t, row, A, spoiled) ==
    /\ r.pc \in ByHand => t = r.table /\ row.status = "live"
    /\ r.pc \in {"guest", "roster", "count"} => r.row = row
    /\ r.pc \in {"guest", "roster", "count", "existing", "insert"} => ~row.locked
    /\ r.pc \in {"count", "existing", "insert"} => Admits(row.vipOnly, r.guest)
    /\ r.pc = "existing" => r.room = row.capacity - Cardinality(A)
    /\ r.pc = "insert" => Cardinality(A) < row.capacity \/ r.guest \in A
    /\ r.pc = "write" => spoiled \/ Cardinality(A) <= r.row.capacity
    /\ r.pc \in Automatic =>
         /\ r.free[t] = IF row.status = "live" /\ ~row.locked
                        THEN row.capacity - Cardinality(A) ELSE 0
         /\ t \in r.vip <=> row.status = "live" /\ row.vipOnly
    /\ r.pc = "seat" /\ row.status = "live" => r.todo \cap A = {}

\* SeatsWithinCapacity is not inductive: a request has to know that the room it
\* found is still there.
SeatingInv ==
    /\ TypeOK
    /\ \A h \in Handlers : Facts(req[h])
    /\ \A h \in Handlers : \A t \in req[h].seen :
         Knows(req[h], t, tables[t], AssignedTo(t), t \in stale)
    /\ SeatsWithinCapacity

\* q is request r, which has lost sight of the tables T.
Trimmed(q, r, T) ==
    /\ q.pc = r.pc /\ q.table = r.table /\ q.guest = r.guest /\ q.row = r.row
    /\ q.room = r.room /\ q.free = r.free /\ q.vip = r.vip /\ q.todo = r.todo
    /\ q.seen = r.seen \ T

----------------------------------------------------------------------------
(* Lemmas.                                                                 *)

LEMMA IdleFacts ==
    /\ Idle \in Request /\ Idle.pc = "idle" /\ Idle.seen = {}
    /\ Facts(Idle)
BY DEF Idle, Request, Steps, NoRow, TableRow, Facts, ByHand

LEMMA Occupied ==
    ASSUME NEW t
    PROVE  IsFiniteSet(AssignedTo(t)) /\ Occupancy(t) \in Nat
BY SeatingAssumption, FS_Subset, FS_CardinalityType DEF AssignedTo, Occupancy

\* A guest who sits down adds at most one, and none who sat there before.
LEMMA OneMore ==
    ASSUME NEW t, NEW g \in Guests, NEW B, B = AssignedTo(t) \cup {g}
    PROVE  /\ Cardinality(B) \in Nat
           /\ g \notin AssignedTo(t) => Cardinality(B) = Occupancy(t) + 1
           /\ g \in AssignedTo(t) => Cardinality(B) = Occupancy(t)
           /\ Cardinality(B) <= Occupancy(t) + 1
<1>1. IsFiniteSet(AssignedTo(t)) /\ Occupancy(t) \in Nat
  BY Occupied
<1>2. g \in AssignedTo(t) => B = AssignedTo(t)
  OBVIOUS
<1>3. g \notin AssignedTo(t) => Cardinality(B) = Occupancy(t) + 1
  BY <1>1, FS_AddElement DEF Occupancy
<1> QED
  BY <1>1, <1>2, <1>3 DEF Occupancy

\* A request of h goes on with r, and only the tables T and their seats are
\* written, which everybody else has then lost sight of.
LEMMA SeatingKept ==
    ASSUME SeatingInv, NEW h \in Handlers, NEW r \in Request, NEW T,
           tables' \in [Tables -> TableRow], seats' \in SUBSET SeatAssignment,
           \A u \in Tables \ T : tables'[u] = tables[u] /\ AssignedTo(u)' = AssignedTo(u),
           stale \subseteq stale', stale' \in SUBSET Tables, UNCHANGED others,
           req' \in [Handlers -> Request], req'[h] = r,
           \A k \in Handlers \ {h} : Trimmed(req'[k], req[k], T),
           Facts(r),
           \A u \in r.seen : Knows(r, u, tables'[u], AssignedTo(u)', u \in stale'),
           \A u \in (Tables \cap T) \ stale' :
               Occupancy(u)' <= IF u \in LiveTables' THEN tables'[u].capacity ELSE 0
    PROVE  SeatingInv'
<1>1. TypeOK'
  BY DEF SeatingInv, TypeOK, others
<1>2. \A k \in Handlers : Facts(req[k])'
  <2> SUFFICES ASSUME NEW k \in Handlers PROVE Facts(req[k])'
    OBVIOUS
  <2>1. \A g : OnRoster(g) <=> OnRoster(g)'
    BY DEF OnRoster, others
  <2>2. CASE k = h
    BY <2>1, <2>2 DEF Facts
  <2>3. CASE k # h
    <3>1. Facts(req[k])
      BY DEF SeatingInv
    <3>2. Trimmed(req'[k], req[k], T)
      BY <2>3
    <3> QED
      BY <2>1, <3>1, <3>2 DEF Facts, Trimmed
  <2> QED
    BY <2>2, <2>3
<1>3. \A k \in Handlers : \A t \in req'[k].seen :
        Knows(req'[k], t, tables'[t], AssignedTo(t)', t \in stale')
  <2> SUFFICES ASSUME NEW k \in Handlers, k # h, NEW t \in req'[k].seen
               PROVE  Knows(req'[k], t, tables'[t], AssignedTo(t)', t \in stale')
    OBVIOUS
  <2>1. Trimmed(req'[k], req[k], T)
    OBVIOUS
  <2>2. t \in req[k].seen /\ t \notin T
    BY <2>1 DEF Trimmed
  <2>3. t \in Tables
    BY <2>2 DEF SeatingInv, TypeOK, Request
  <2>4. tables'[t] = tables[t] /\ AssignedTo(t)' = AssignedTo(t)
    BY <2>2, <2>3
  <2>5. Knows(req[k], t, tables'[t], AssignedTo(t)', t \in stale)
    BY <2>2, <2>4 DEF SeatingInv
  <2>6. Knows(req[k], t, tables'[t], AssignedTo(t)', t \in stale')
    BY <2>5 DEF Knows
  <2> QED
    BY <2>1, <2>6 DEF Knows, Trimmed
<1>4. SeatsWithinCapacity'
  <2> SUFFICES ASSUME NEW u \in Tables \ stale'
               PROVE  Occupancy(u)' <= IF u \in LiveTables' THEN tables'[u].capacity ELSE 0
    BY DEF SeatsWithinCapacity
  <2>1. CASE u \notin T
    <3>1. /\ tables'[u] = tables[u] /\ Occupancy(u)' = Occupancy(u)
          /\ u \in LiveTables' <=> u \in LiveTables
      BY <2>1 DEF Occupancy, LiveTables
    <3>2. Occupancy(u) <= IF u \in LiveTables THEN tables[u].capacity ELSE 0
      BY DEF SeatingInv, SeatsWithinCapacity
    <3> QED
      BY <3>1, <3>2
  <2> QED
    BY <2>1
<1> QED
  BY <1>1, <1>2, <1>3, <1>4 DEF SeatingInv

\* A request reads, or ends, and writes nothing.
LEMMA ThinkKept ==
    ASSUME SeatingInv, NEW h \in Handlers, NEW r \in Request, Goto(h, r), Think,
           Facts(r),
           \A u \in r.seen : Knows(r, u, tables[u], AssignedTo(u), u \in stale)
    PROVE  SeatingInv'
<1>1. req' \in [Handlers -> Request] /\ \A k \in Handlers : req'[k] = IF k = h THEN r ELSE req[k]
  BY DEF SeatingInv, TypeOK, Goto
<1>2. \A k \in Handlers \ {h} : Trimmed(req'[k], req[k], {})
  BY <1>1 DEF Trimmed
<1>3. UNCHANGED <<tables, seats, stale>> /\ UNCHANGED others
  BY DEF Think
<1>4. \A u : AssignedTo(u)' = AssignedTo(u)
  BY <1>3 DEF AssignedTo
<1> QED
  BY <1>1, <1>2, <1>3, <1>4, SeatingKept DEF SeatingInv, TypeOK

LEMMA EndKept ==
    ASSUME SeatingInv, NEW h \in Handlers, End(h), Think
    PROVE  SeatingInv'
BY IdleFacts, ThinkKept DEF End

\* A request writes table t or its seats.
LEMMA TouchKept ==
    ASSUME SeatingInv, NEW h \in Handlers, NEW r \in Request, NEW t \in Tables, Touch(h, r, t),
           tables' \in [Tables -> TableRow], seats' \in SUBSET SeatAssignment,
           \A u \in Tables \ {t} : tables'[u] = tables[u] /\ AssignedTo(u)' = AssignedTo(u),
           Facts(r),
           \A u \in r.seen : Knows(r, u, tables'[u], AssignedTo(u)', u \in stale'),
           t \in req[h].seen /\ t \notin stale =>
               Occupancy(t)' <= IF t \in LiveTables' THEN tables'[t].capacity ELSE 0
    PROVE  SeatingInv'
<1>1. \A k \in Handlers : req[k] \in Request
  BY DEF SeatingInv, TypeOK
<1>2. \A k \in Handlers : [req[k] EXCEPT !.seen = @ \ {t}] \in Request
                          /\ Trimmed([req[k] EXCEPT !.seen = @ \ {t}], req[k], {t})
  BY <1>1 DEF Request, Trimmed
<1>3. req' \in [Handlers -> Request] /\ req'[h] = r
      /\ \A k \in Handlers \ {h} : req'[k] = [req[k] EXCEPT !.seen = @ \ {t}]
  BY <1>2 DEF Touch
<1>4. \A k \in Handlers \ {h} : Trimmed(req'[k], req[k], {t})
  BY <1>2, <1>3
<1>5. stale \subseteq stale' /\ stale' \in SUBSET Tables /\ UNCHANGED others
      /\ (t \notin stale' => t \in req[h].seen /\ t \notin stale)
  BY DEF Touch, SeatingInv, TypeOK
<1> QED
  BY <1>3, <1>4, <1>5, SeatingKept

\* A table is created or deleted in one statement.
LEMMA ForgetKept ==
    ASSUME SeatingInv, NEW h \in Handlers, req[h].pc = "idle", NEW t \in Tables, Forget(t),
           tables' \in [Tables -> TableRow], seats' \in SUBSET SeatAssignment,
           \A u \in Tables \ {t} : tables'[u] = tables[u] /\ AssignedTo(u)' = AssignedTo(u),
           UNCHANGED stale, UNCHANGED others,
           t \notin stale =>
               Occupancy(t)' <= IF t \in LiveTables' THEN tables'[t].capacity ELSE 0
    PROVE  SeatingInv'
<1>1. \A k \in Handlers : req[k] \in Request
  BY DEF SeatingInv, TypeOK
<1>2. \A k \in Handlers : [req[k] EXCEPT !.seen = @ \ {t}] \in Request
                          /\ Trimmed([req[k] EXCEPT !.seen = @ \ {t}], req[k], {t})
  BY <1>1 DEF Request, Trimmed
<1>3. req' \in [Handlers -> Request]
      /\ \A k \in Handlers : req'[k] = [req[k] EXCEPT !.seen = @ \ {t}]
  BY <1>2 DEF Forget
<1>4. \A k \in Handlers : req'[k] \in Request /\ Trimmed(req'[k], req[k], {t})
  BY <1>2, <1>3
<1>5. req'[h].pc = "idle"
  BY <1>4 DEF Trimmed
<1>6. Facts(req'[h]) /\ \A u : Knows(req'[h], u, tables'[u], AssignedTo(u)', u \in stale')
  BY <1>5 DEF Facts, Knows, ByHand, Automatic
<1>7. stale' \in SUBSET Tables /\ stale \subseteq stale'
  BY DEF SeatingInv, TypeOK
<1> DEFINE r == req'[h]
<1>8. r \in Request /\ req'[h] = r /\ Facts(r)
      /\ \A u \in r.seen : Knows(r, u, tables'[u], AssignedTo(u)', u \in stale')
  BY <1>4, <1>6
<1>9. \A k \in Handlers \ {h} : Trimmed(req'[k], req[k], {t})
  BY <1>4
<1>10. \A u \in (Tables \cap {t}) \ stale' :
         Occupancy(u)' <= IF u \in LiveTables' THEN tables'[u].capacity ELSE 0
  OBVIOUS
<1> HIDE DEF r
<1> QED
  BY <1>3, <1>7, <1>8, <1>9, <1>10, SeatingKept

----------------------------------------------------------------------------
(* Tables.                                                                 *)

LEMMA CreateTableStep ==
    ASSUME SeatingInv, NEW h \in Handlers, NEW t \in Tables, NEW r \in CreateTableRequest,
           CreateTable(h, t, r)
    PROVE  SeatingInv'
<1>1. LiveRow(r) \in TableRow /\ LiveRow(r).status = "live"
  BY SeatingAssumption DEF CreateTableRequest, LiveRow, TableRow
<1>2. tables' = [tables EXCEPT ![t] = LiveRow(r)] /\ Forget(t) /\ UNCHANGED <<seats, stale, others>>
      /\ req[h].pc = "idle" /\ tables[t].status = "absent"
  BY DEF CreateTable
<1>3. tables' \in [Tables -> TableRow] /\ tables'[t] = LiveRow(r)
      /\ \A u \in Tables \ {t} : tables'[u] = tables[u]
  BY <1>1, <1>2 DEF SeatingInv, TypeOK
<1>4. \A u : AssignedTo(u)' = AssignedTo(u) /\ Occupancy(u)' = Occupancy(u)
  BY <1>2 DEF AssignedTo, Occupancy
<1>5. t \notin stale => Occupancy(t) <= 0
  BY <1>2 DEF SeatingInv, SeatsWithinCapacity, LiveTables
<1>6. tables'[t].capacity \in Nat
  BY <1>3 DEF TableRow
<1>7. t \notin stale => Occupancy(t)' <= IF t \in LiveTables' THEN tables'[t].capacity ELSE 0
  BY <1>4, <1>5, <1>6, Occupied
<1>8. seats' \in SUBSET SeatAssignment
  BY <1>2 DEF SeatingInv, TypeOK
<1> QED
  BY <1>2, <1>3, <1>4, <1>7, <1>8, ForgetKept

LEMMA DeleteTableStep ==
    ASSUME SeatingInv, NEW h \in Handlers, NEW t \in Tables, DeleteTable(h, t)
    PROVE  SeatingInv'
<1> DEFINE row == [NoRow EXCEPT !.status = "deleted"]
<1>1. row \in TableRow
  BY DEF NoRow, TableRow
<1>2. tables' = [tables EXCEPT ![t] = row] /\ Forget(t) /\ UNCHANGED <<stale, others>>
      /\ req[h].pc = "idle" /\ seats' = {s \in seats : s[1] # t}
  BY DEF DeleteTable
<1> HIDE DEF row
<1>3. tables' \in [Tables -> TableRow] /\ \A u \in Tables \ {t} : tables'[u] = tables[u]
  BY <1>1, <1>2 DEF SeatingInv, TypeOK
<1>4. \A u, g : <<u, g>> \in seats' <=> <<u, g>> \in seats /\ u # t
  BY <1>2
<1>5. AssignedTo(t)' = {} /\ \A u \in Tables \ {t} : AssignedTo(u)' = AssignedTo(u)
  BY <1>4 DEF AssignedTo
<1>6. Occupancy(t)' = 0
  BY <1>5, FS_EmptySet DEF Occupancy
<1>7. tables'[t].capacity \in Nat
  BY <1>3 DEF TableRow
<1>8. Occupancy(t)' <= IF t \in LiveTables' THEN tables'[t].capacity ELSE 0
  BY <1>6, <1>7
<1>9. seats' \in SUBSET SeatAssignment
  BY <1>2 DEF SeatingInv, TypeOK
<1> QED
  BY <1>2, <1>3, <1>5, <1>8, <1>9, ForgetKept

LEMMA UpdateReadStep ==
    ASSUME SeatingInv, NEW h \in Handlers, NEW t \in Tables, NEW r \in UpdateTableRequest,
           UpdateRead(h, t, r)
    PROVE  SeatingInv'
<1> DEFINE row == LiveRow(r.new)
           pc == IF r.capacityGiven THEN "occupancy" ELSE "write"
           q == [Idle EXCEPT !.pc = pc, !.table = t, !.row = row, !.seen = {t}]
<1>1. row \in TableRow /\ row.status = "live" /\ row.capacity = r.new.capacity
  BY SeatingAssumption DEF UpdateTableRequest, LiveRow, TableRow
<1>2. Goto(h, q) /\ Think /\ t \in LiveTables
      /\ (~r.capacityGiven => row.capacity = tables[t].capacity)
  BY <1>1 DEF UpdateRead
<1>3. pc \in {"occupancy", "write"} /\ (pc = "write" => ~r.capacityGiven)
  OBVIOUS
<1> HIDE DEF row, pc
<1>4. /\ q \in Request
      /\ q.pc = pc /\ q.table = t /\ q.row = row /\ q.seen = {t}
  BY <1>1, <1>3, IdleFacts DEF Request, Steps
<1> HIDE DEF q
<1>5. Facts(q)
  BY <1>1, <1>3, <1>4 DEF Facts, ByHand
<1>6. t \notin stale => Occupancy(t) <= tables[t].capacity
  BY <1>2 DEF SeatingInv, SeatsWithinCapacity
<1>7. tables[t].status = "live"
  BY <1>2 DEF LiveTables
<1>8. Knows(q, t, tables[t], AssignedTo(t), t \in stale)
  BY <1>2, <1>3, <1>4, <1>6, <1>7 DEF Knows, ByHand, Automatic, Occupancy
<1> QED
  BY <1>2, <1>4, <1>5, <1>8, ThinkKept

\* A request goes to its next step and keeps everything else.
LEMMA NextPc ==
    ASSUME SeatingInv, NEW h \in Handlers, NEW pc \in Steps
    PROVE  LET q == [req[h] EXCEPT !.pc = pc]
           IN  /\ q \in Request /\ q.pc = pc
               /\ q.table = req[h].table /\ q.guest = req[h].guest /\ q.row = req[h].row
               /\ q.room = req[h].room /\ q.free = req[h].free /\ q.vip = req[h].vip
               /\ q.todo = req[h].todo /\ q.seen = req[h].seen
BY DEF SeatingInv, TypeOK, Request

LEMMA UpdateOccupancyStep ==
    ASSUME SeatingInv, NEW h \in Handlers, UpdateOccupancy(h)
    PROVE  SeatingInv'
<1> DEFINE q == [req[h] EXCEPT !.pc = "write"]
<1>1. CASE End(h)
  BY <1>1, EndKept DEF UpdateOccupancy
<1>2. CASE Goto(h, q) /\ ~(req[h].row.capacity < Occupancy(req[h].table))
  <2>1. /\ q \in Request /\ q.pc = "write"
        /\ q.table = req[h].table /\ q.row = req[h].row /\ q.seen = req[h].seen
    BY NextPc DEF Steps
  <2>2. req[h].pc = "occupancy" /\ Think
    BY DEF UpdateOccupancy
  <2> HIDE DEF q
  <2>3. Facts(req[h]) /\ \A t \in req[h].seen :
                            Knows(req[h], t, tables[t], AssignedTo(t), t \in stale)
    BY DEF SeatingInv
  <2>4. Facts(q)
    BY <2>1, <2>2, <2>3 DEF Facts, ByHand
  <2>5. req[h].row.capacity \in Nat
    BY DEF SeatingInv, TypeOK, Request, TableRow
  <2>6. Occupancy(req[h].table) <= q.row.capacity
    BY <1>2, <2>1, <2>5, Occupied
  <2>7. \A t \in q.seen : Knows(q, t, tables[t], AssignedTo(t), t \in stale)
    BY <2>1, <2>2, <2>3, <2>6 DEF Knows, ByHand, Automatic, Occupancy
  <2> QED
    BY <1>2, <2>1, <2>2, <2>4, <2>7, ThinkKept
<1> QED
  BY <1>1, <1>2 DEF UpdateOccupancy

LEMMA UpdateWriteStep ==
    ASSUME SeatingInv, NEW h \in Handlers, UpdateWrite(h)
    PROVE  SeatingInv'
<1>1. CASE Think /\ End(h)
  BY <1>1, EndKept
<1>2. ASSUME NEW t, t = req[h].table, t \in LiveTables,
             tables' = [tables EXCEPT ![t] = req[h].row],
             Touch(h, Idle, t), UNCHANGED seats
      PROVE  SeatingInv'
  <2>1. t \in Tables /\ req[h].row \in TableRow /\ req[h].pc = "write"
    BY <1>2 DEF SeatingInv, TypeOK, Request, LiveTables, UpdateWrite
  <2>2. req[h].row.status = "live"
    BY <2>1 DEF SeatingInv, Facts
  <2>3. tables' \in [Tables -> TableRow] /\ tables'[t] = req[h].row
        /\ \A u \in Tables \ {t} : tables'[u] = tables[u]
    BY <1>2, <2>1 DEF SeatingInv, TypeOK
  <2>4. \A u : AssignedTo(u)' = AssignedTo(u) /\ Occupancy(u)' = Occupancy(u)
    BY <1>2 DEF AssignedTo, Occupancy
  <2>5. seats' \in SUBSET SeatAssignment
    BY <1>2 DEF SeatingInv, TypeOK
  <2>6. t \in LiveTables'
    BY <2>1, <2>2, <2>3 DEF LiveTables
  <2>7. t \in req[h].seen /\ t \notin stale => Occupancy(t) <= req[h].row.capacity
    BY <2>1 DEF SeatingInv, Knows, Occupancy
  <2>8. t \in req[h].seen /\ t \notin stale =>
          Occupancy(t)' <= IF t \in LiveTables' THEN tables'[t].capacity ELSE 0
    BY <2>3, <2>4, <2>6, <2>7
  <2> QED
    BY <1>2, <2>1, <2>3, <2>4, <2>5, <2>8, IdleFacts, TouchKept
<1> QED
  BY <1>1, <1>2 DEF UpdateWrite

----------------------------------------------------------------------------
(* Seating by hand.                                                        *)

LEMMA HandReadStep ==
    ASSUME SeatingInv, NEW h \in Handlers, NEW r \in AssignGuestRequest,
           AssignRead(h, r) \/ UnassignRead(h, r)
    PROVE  SeatingInv'
<1> DEFINE t == r.table
<1>1. t \in LiveTables /\ t \in Tables /\ r.guest \in Guests /\ Think
      /\ tables[t].status = "live" /\ tables[t] \in TableRow
  BY DEF AssignRead, UnassignRead, AssignGuestRequest, LiveTables, SeatingInv, TypeOK
<1>2. CASE AssignRead(h, r)
  <2> DEFINE q == [Idle EXCEPT !.pc = "guest", !.table = t, !.guest = r.guest,
                               !.row = tables[t], !.seen = {t}]
  <2>1. Goto(h, q) /\ ~tables[t].locked
    BY <1>2 DEF AssignRead
  <2>2. /\ q \in Request
        /\ q.pc = "guest" /\ q.table = t /\ q.guest = r.guest /\ q.row = tables[t]
        /\ q.seen = {t}
    BY <1>1, IdleFacts DEF Request, Steps
  <2> HIDE DEF q, t
  <2>3. Facts(q)
    BY <1>1, <2>2 DEF Facts, ByHand
  <2>4. Knows(q, t, tables[t], AssignedTo(t), t \in stale)
    BY <1>1, <2>1, <2>2 DEF Knows, ByHand, Automatic
  <2> QED
    BY <1>1, <2>1, <2>2, <2>3, <2>4, ThinkKept
<1>3. CASE UnassignRead(h, r)
  <2> DEFINE q == [Idle EXCEPT !.pc = "unassign", !.table = t, !.guest = r.guest, !.seen = {t}]
  <2>1. Goto(h, q)
    BY <1>3 DEF UnassignRead
  <2>2. /\ q \in Request
        /\ q.pc = "unassign" /\ q.table = t /\ q.guest = r.guest /\ q.seen = {t}
    BY <1>1, IdleFacts DEF Request, Steps
  <2> HIDE DEF q, t
  <2>3. Facts(q)
    BY <1>1, <2>2 DEF Facts, ByHand
  <2>4. Knows(q, t, tables[t], AssignedTo(t), t \in stale)
    BY <1>1, <2>1, <2>2 DEF Knows, ByHand, Automatic
  <2> QED
    BY <1>1, <2>1, <2>2, <2>3, <2>4, ThinkKept
<1> QED
  BY <1>2, <1>3

LEMMA HandCheckStep ==
    ASSUME SeatingInv, NEW h \in Handlers, AssignContact(h) \/ AssignRoster(h)
    PROVE  SeatingInv'
<1>1. CASE End(h)
  BY <1>1, EndKept DEF AssignContact, AssignRoster
<1>2. Facts(req[h]) /\ \A t \in req[h].seen :
                          Knows(req[h], t, tables[t], AssignedTo(t), t \in stale)
  BY DEF SeatingInv
<1>3. CASE /\ req[h].pc = "guest" /\ Goto(h, [req[h] EXCEPT !.pc = "roster"]) /\ Think
  <2> DEFINE q == [req[h] EXCEPT !.pc = "roster"]
  <2>1. /\ q \in Request /\ q.pc = "roster"
        /\ q.table = req[h].table /\ q.guest = req[h].guest /\ q.row = req[h].row
        /\ q.seen = req[h].seen
    BY NextPc DEF Steps
  <2> HIDE DEF q
  <2>2. Facts(q) /\ \A t \in q.seen : Knows(q, t, tables[t], AssignedTo(t), t \in stale)
    BY <1>2, <1>3, <2>1 DEF Facts, Knows, ByHand, Automatic
  <2> QED
    BY <1>3, <2>1, <2>2, ThinkKept DEF q
<1>4. CASE /\ req[h].pc = "roster" /\ Goto(h, [req[h] EXCEPT !.pc = "count"]) /\ Think
           /\ OnRoster(req[h].guest) /\ Admits(req[h].row.vipOnly, req[h].guest)
  <2> DEFINE q == [req[h] EXCEPT !.pc = "count"]
  <2>1. /\ q \in Request /\ q.pc = "count"
        /\ q.table = req[h].table /\ q.guest = req[h].guest /\ q.row = req[h].row
        /\ q.seen = req[h].seen
    BY NextPc DEF Steps
  <2> HIDE DEF q
  <2>2. Facts(q) /\ \A t \in q.seen : Knows(q, t, tables[t], AssignedTo(t), t \in stale)
    BY <1>2, <1>4, <2>1 DEF Facts, Knows, ByHand, Automatic
  <2> QED
    BY <1>4, <2>1, <2>2, ThinkKept DEF q
<1> QED
  BY <1>1, <1>3, <1>4 DEF AssignContact, AssignRoster

LEMMA HandCountStep ==
    ASSUME SeatingInv, NEW h \in Handlers, AssignCount(h)
    PROVE  SeatingInv'
<1> DEFINE room == req[h].row.capacity - Occupancy(req[h].table)
           q == [req[h] EXCEPT !.pc = "existing", !.row = NoRow, !.room = room]
<1>1. req[h].pc = "count" /\ Goto(h, q) /\ Think
  BY DEF AssignCount
<1>2. room \in Int
  <2>1. req[h].row.capacity \in Nat
    BY DEF SeatingInv, TypeOK, Request, TableRow
  <2> QED
    BY <2>1, Occupied
<1>3. room = req[h].row.capacity - Cardinality(AssignedTo(req[h].table))
  BY DEF Occupancy
<1> HIDE DEF room
<1>4. /\ q \in Request /\ q.pc = "existing" /\ q.room = room
      /\ q.table = req[h].table /\ q.guest = req[h].guest /\ q.seen = req[h].seen
  BY <1>2 DEF SeatingInv, TypeOK, Request, Steps, NoRow, TableRow
<1> HIDE DEF q
<1>5. Facts(req[h]) /\ \A t \in req[h].seen :
                          Knows(req[h], t, tables[t], AssignedTo(t), t \in stale)
  BY DEF SeatingInv
<1>6. Facts(q) /\ \A t \in q.seen : Knows(q, t, tables[t], AssignedTo(t), t \in stale)
  BY <1>1, <1>3, <1>4, <1>5 DEF Facts, Knows, ByHand, Automatic
<1> QED
  BY <1>1, <1>4, <1>6, ThinkKept

LEMMA HandExistingStep ==
    ASSUME SeatingInv, NEW h \in Handlers, AssignExisting(h)
    PROVE  SeatingInv'
<1> DEFINE found == TablesOf(req[h].guest)
           room == 0
           q == [req[h] EXCEPT !.pc = "insert", !.room = room]
<1>1. CASE End(h)
  BY <1>1, EndKept DEF AssignExisting
<1>2. ASSUME NEW u, u \in (IF found = {} THEN {NoTable} ELSE found),
             CapacityAllows(req[h], u), Goto(h, q)
      PROVE  SeatingInv'
  <2>1. req[h].pc = "existing" /\ Think /\ req[h] \in Request
    BY DEF AssignExisting, SeatingInv, TypeOK
  <2>2. /\ q \in Request /\ q.pc = "insert"
        /\ q.table = req[h].table /\ q.guest = req[h].guest /\ q.seen = req[h].seen
    <3>1. room \in Int
      OBVIOUS
    <3> HIDE DEF room
    <3> QED
      BY <3>1 DEF SeatingInv, TypeOK, Request, Steps
  <2> HIDE DEF q
  <2>3. Facts(req[h]) /\ \A t \in req[h].seen :
                            Knows(req[h], t, tables[t], AssignedTo(t), t \in stale)
    BY DEF SeatingInv
  <2>4. req[h].table \in Tables /\ req[h].guest \in Guests
    BY <2>1, <2>3 DEF Facts, ByHand
  <2>5. \/ req[h].room > 0
        \/ req[h].guest \in AssignedTo(req[h].table)
    <3>1. u = req[h].table => u \in found
      BY <1>2, <2>4, SeatingAssumption
    <3> QED
      BY <1>2, <2>4, <3>1 DEF CapacityAllows, TablesOf, AssignedTo
  <2>6. \A t \in Tables : tables[t].capacity \in Nat /\ Cardinality(AssignedTo(t)) \in Nat
    BY Occupied DEF SeatingInv, TypeOK, TableRow, Occupancy
  <2>7. Facts(q)
    BY <2>1, <2>2, <2>3 DEF Facts, ByHand
  <2>8. \A t \in q.seen : Knows(q, t, tables[t], AssignedTo(t), t \in stale)
    BY <2>1, <2>2, <2>3, <2>4, <2>5, <2>6 DEF Knows, ByHand, Automatic
  <2> QED
    BY <1>2, <2>1, <2>2, <2>7, <2>8, ThinkKept
<1> QED
  BY <1>1, <1>2 DEF AssignExisting

\* A guest sits down at table t.
LEMMA SeatTaken ==
    ASSUME TypeOK, NEW t \in Tables, NEW g \in Guests, seats' = seats \cup {<<t, g>>}
    PROVE  /\ seats' \in SUBSET SeatAssignment
           /\ \A u \in Tables \ {t} : AssignedTo(u)' = AssignedTo(u)
           /\ AssignedTo(t)' = AssignedTo(t) \cup {g}
           /\ Occupancy(t) \in Nat /\ Occupancy(t)' \in Nat
           /\ g \notin AssignedTo(t) => Occupancy(t)' = Occupancy(t) + 1
           /\ g \in AssignedTo(t) => Occupancy(t)' = Occupancy(t)
           /\ Occupancy(t)' <= Occupancy(t) + 1
<1>1. seats' \in SUBSET SeatAssignment
  BY DEF TypeOK, SeatAssignment
<1>2. \A u, k : <<u, k>> \in seats' <=> <<u, k>> \in seats \/ (u = t /\ k = g)
  OBVIOUS
<1>3. /\ \A u \in Tables \ {t} : AssignedTo(u)' = AssignedTo(u)
      /\ AssignedTo(t)' = AssignedTo(t) \cup {g}
  BY <1>2 DEF AssignedTo
<1>4. Occupancy(t)' = Cardinality(AssignedTo(t)')
  BY DEF Occupancy
<1> QED
  BY <1>1, <1>3, <1>4, OneMore, Occupied

LEMMA HandInsertStep ==
    ASSUME SeatingInv, NEW h \in Handlers, AssignInsert(h)
    PROVE  SeatingInv'
<1>1. PICK t, g : t = req[h].table /\ g = req[h].guest
  OBVIOUS
<1>2. /\ req[h].pc = "insert" /\ seats' = seats \cup {<<t, g>>} /\ Touch(h, Idle, t)
      /\ UNCHANGED tables
  BY <1>1 DEF AssignInsert
<1>3. t \in Tables /\ g \in Guests /\ TypeOK
  BY <1>1, <1>2 DEF SeatingInv, Facts, ByHand
<1>4. t \in req[h].seen => /\ tables[t].status = "live"
                           /\ Occupancy(t) < tables[t].capacity \/ g \in AssignedTo(t)
  BY <1>1, <1>2 DEF SeatingInv, Knows, ByHand, Occupancy
<1>5. t \in req[h].seen /\ t \notin stale =>
        Occupancy(t)' <= IF t \in LiveTables' THEN tables'[t].capacity ELSE 0
  <2> SUFFICES ASSUME t \in req[h].seen, t \notin stale PROVE Occupancy(t)' <= tables[t].capacity
    BY <1>2, <1>3, <1>4 DEF LiveTables
  <2>1. t \in LiveTables /\ tables[t].capacity \in Nat
    BY <1>3, <1>4 DEF LiveTables, TypeOK, TableRow
  <2>2. Occupancy(t) <= tables[t].capacity
    BY <1>3, <2>1 DEF SeatingInv, SeatsWithinCapacity
  <2> QED
    BY <1>2, <1>3, <1>4, <2>1, <2>2, SeatTaken
<1>6. \A u \in Tables \ {t} : tables'[u] = tables[u] /\ AssignedTo(u)' = AssignedTo(u)
  BY <1>2, <1>3, SeatTaken
<1>7. tables' \in [Tables -> TableRow] /\ seats' \in SUBSET SeatAssignment
  BY <1>2, <1>3, SeatTaken DEF TypeOK
<1> QED
  BY <1>2, <1>3, <1>5, <1>6, <1>7, IdleFacts, TouchKept

LEMMA UnassignStep ==
    ASSUME SeatingInv, NEW h \in Handlers, UnassignDelete(h)
    PROVE  SeatingInv'
<1>1. CASE Think /\ End(h)
  BY <1>1, EndKept
<1>2. ASSUME NEW t, NEW g, t = req[h].table, g = req[h].guest,
             seats' = seats \ {<<t, g>>}, Touch(h, Idle, t), UNCHANGED tables
      PROVE  SeatingInv'
  <2>1. t \in Tables /\ TypeOK
    BY <1>2 DEF SeatingInv, Facts, ByHand, UnassignDelete
  <2>2. \A u, k : <<u, k>> \in seats' <=> <<u, k>> \in seats /\ ~(u = t /\ k = g)
    BY <1>2
  <2>3. /\ \A u \in Tables \ {t} : tables'[u] = tables[u] /\ AssignedTo(u)' = AssignedTo(u)
        /\ AssignedTo(t)' \subseteq AssignedTo(t)
    BY <1>2, <2>2 DEF AssignedTo
  <2>4. Occupancy(t)' \in Nat /\ Occupancy(t)' <= Occupancy(t) /\ Occupancy(t) \in Nat
    BY <2>3, Occupied, FS_Subset, FS_CardinalityType DEF Occupancy
  <2>5. t \notin stale => Occupancy(t)' <= IF t \in LiveTables' THEN tables'[t].capacity ELSE 0
    <3>1. LiveTables' = LiveTables /\ tables' = tables
      BY <1>2 DEF LiveTables
    <3>2. tables[t].capacity \in Nat
      BY <2>1 DEF TypeOK, TableRow
    <3> QED
      BY <2>1, <2>4, <3>1, <3>2 DEF SeatingInv, SeatsWithinCapacity
  <2>6. tables' \in [Tables -> TableRow] /\ seats' \in SUBSET SeatAssignment
    BY <1>2, <2>1 DEF TypeOK
  <2> QED
    BY <1>2, <2>1, <2>3, <2>5, <2>6, IdleFacts, TouchKept
<1> QED
  BY <1>1, <1>2 DEF UnassignDelete

----------------------------------------------------------------------------
(* AutoAssign.                                                             *)

LEMMA AutoTablesStep ==
    ASSUME SeatingInv, NEW h \in Handlers, AutoTables(h)
    PROVE  SeatingInv'
<1> DEFINE free == [t \in Tables |-> IF t \in LiveTables /\ ~tables[t].locked
                                     THEN tables[t].capacity - Occupancy(t) ELSE 0]
           vip == {t \in LiveTables : tables[t].vipOnly}
           q == [Idle EXCEPT !.pc = "page", !.free = free, !.vip = vip, !.seen = Tables]
<1>1. Goto(h, q) /\ Think
  BY DEF AutoTables
<1>2. \A t \in Tables : tables[t].capacity \in Nat /\ Occupancy(t) \in Nat
  BY Occupied DEF SeatingInv, TypeOK, TableRow
<1>3. free \in [Tables -> Int] /\ vip \in SUBSET Tables
  BY <1>2 DEF LiveTables
<1>4. \A t \in Tables :
        /\ free[t] = IF tables[t].status = "live" /\ ~tables[t].locked
                     THEN tables[t].capacity - Cardinality(AssignedTo(t)) ELSE 0
        /\ t \in vip <=> tables[t].status = "live" /\ tables[t].vipOnly
  BY DEF LiveTables, Occupancy
<1> HIDE DEF free, vip
<1>5. /\ q \in Request
      /\ q.pc = "page" /\ q.free = free /\ q.vip = vip /\ q.seen = Tables
  BY <1>3, IdleFacts DEF Request, Steps
<1> HIDE DEF q
<1>6. Facts(q)
  BY <1>5 DEF Facts, ByHand
<1>7. \A t \in q.seen : Knows(q, t, tables[t], AssignedTo(t), t \in stale)
  BY <1>4, <1>5 DEF Knows, ByHand, Automatic
<1> QED
  BY <1>1, <1>5, <1>6, <1>7, ThinkKept

LEMMA AutoListStep ==
    ASSUME SeatingInv, NEW h \in Handlers, AutoPage(h) \/ AutoTaken(h)
    PROVE  SeatingInv'
<1>t. req[h] \in Request /\ TypeOK
  BY DEF SeatingInv, TypeOK
<1>k. Facts(req[h]) /\ \A t \in req[h].seen :
                          Knows(req[h], t, tables[t], AssignedTo(t), t \in stale)
  BY DEF SeatingInv
<1>1. ASSUME NEW pc \in {"taken", "seat"}, NEW todo \in SUBSET Guests,
             Goto(h, [req[h] EXCEPT !.pc = pc, !.todo = todo]), Think,
             req[h].pc \in Automatic,
             \A g \in todo : OnRoster(g),
             pc = "seat" => \A g \in todo : TablesOf(g) = {}
      PROVE  SeatingInv'
  <2> DEFINE q == [req[h] EXCEPT !.pc = pc, !.todo = todo]
  <2>1. /\ q \in Request /\ q.pc = pc /\ q.todo = todo
        /\ q.free = req[h].free /\ q.vip = req[h].vip /\ q.seen = req[h].seen
    BY <1>t, <1>1 DEF Request, Steps
  <2>2. Goto(h, q)
    BY <1>1
  <2> HIDE DEF q
  <2>3. Facts(q)
    BY <1>1, <2>1 DEF Facts, ByHand
  <2>4. \A t \in Tables : pc = "seat" /\ tables[t].status = "live" => todo \cap AssignedTo(t) = {}
    BY <1>1 DEF TablesOf, LiveTables, AssignedTo
  <2>5. req[h].seen \subseteq Tables
    BY <1>t DEF Request
  <2>6. \A t \in q.seen : Knows(q, t, tables[t], AssignedTo(t), t \in stale)
    BY <1>k, <1>1, <2>1, <2>4, <2>5 DEF Knows, ByHand, Automatic
  <2> QED
    BY <1>1, <2>1, <2>2, <2>3, <2>6, ThinkKept
<1>2. CASE AutoPage(h)
  <2>1. PICK P \in Pages : Goto(h, [req[h] EXCEPT !.pc = "taken", !.todo = P])
    BY <1>2 DEF AutoPage
  <2>2. P \in SUBSET Guests /\ \A g \in P : OnRoster(g)
    BY DEF Pages, ActiveGuests, OnRoster
  <2> QED
    BY <1>1, <1>2, <2>1, <2>2 DEF AutoPage, Automatic
<1>3. CASE AutoTaken(h)
  <2> DEFINE todo == {g \in req[h].todo : TablesOf(g) = {}}
  <2>1. todo \in SUBSET Guests
    BY <1>t DEF Request
  <2>2. (\A g \in todo : OnRoster(g)) /\ (\A g \in todo : TablesOf(g) = {})
    BY <1>3, <1>k DEF AutoTaken, Facts
  <2>3. Goto(h, [req[h] EXCEPT !.pc = "seat", !.todo = todo])
    BY <1>3, <1>t DEF AutoTaken, Request
  <2> HIDE DEF todo
  <2> QED
    BY <1>1, <1>3, <2>1, <2>2, <2>3 DEF AutoTaken, Automatic
<1> QED
  BY <1>2, <1>3

LEMMA AutoRestStep ==
    ASSUME SeatingInv, NEW h \in Handlers,
           AutoEnd(h) \/ Abort(h) \/ \E g \in Guests : AutoSkip(h, g)
    PROVE  SeatingInv'
<1>1. CASE AutoEnd(h) \/ Abort(h)
  BY <1>1, EndKept DEF AutoEnd, Abort
<1>2. ASSUME NEW g \in Guests, AutoSkip(h, g) PROVE SeatingInv'
  <2> DEFINE todo == req[h].todo \ {g}
             q == [req[h] EXCEPT !.todo = todo]
  <2>1. /\ req[h].pc = "seat" /\ Goto(h, q) /\ Think /\ req[h] \in Request
    BY <1>2 DEF AutoSkip, SeatingInv, TypeOK
  <2>2. /\ q \in Request /\ q.pc = "seat" /\ q.todo \subseteq req[h].todo
        /\ q.free = req[h].free /\ q.vip = req[h].vip /\ q.seen = req[h].seen
    BY <2>1 DEF Request
  <2> HIDE DEF q
  <2>3. Facts(req[h]) /\ \A t \in req[h].seen :
                            Knows(req[h], t, tables[t], AssignedTo(t), t \in stale)
    BY DEF SeatingInv
  <2>4. Facts(q)
    BY <2>1, <2>2, <2>3 DEF Facts, ByHand
  <2>5. \A t \in q.seen : Knows(q, t, tables[t], AssignedTo(t), t \in stale)
    BY <2>1, <2>2, <2>3 DEF Knows, ByHand, Automatic
  <2> QED
    BY <2>1, <2>2, <2>4, <2>5, ThinkKept
<1> QED
  BY <1>1, <1>2

\* The table that AutoAssign chooses for a guest, as long as nobody else wrote
\* it, is what AutoAssign's list says.
LEMMA CandidateFits ==
    ASSUME SeatingInv, NEW h \in Handlers, NEW g \in Guests, NEW t \in Tables,
           req[h].pc = "seat", g \in req[h].todo, t \in Candidates(req[h], g)
    PROVE  /\ OnRoster(g)
           /\ t \in req[h].seen =>
                /\ t \in LiveTables /\ ~tables[t].locked
                /\ tables[t].vipOnly => g \in Vips
                /\ g \notin AssignedTo(t)
                /\ Occupancy(t) < tables[t].capacity
<1>1. OnRoster(g)
  BY DEF SeatingInv, Facts
<1>2. req[h].free[t] > 0 /\ (t \in req[h].vip => g \in Vips)
  BY DEF Candidates
<1> SUFFICES ASSUME t \in req[h].seen
             PROVE  /\ t \in LiveTables /\ ~tables[t].locked
                    /\ tables[t].vipOnly => g \in Vips
                    /\ g \notin AssignedTo(t)
                    /\ Occupancy(t) < tables[t].capacity
  BY <1>1
<1>3. Knows(req[h], t, tables[t], AssignedTo(t), t \in stale)
  BY DEF SeatingInv
<1>4. tables[t].capacity \in Nat /\ Occupancy(t) \in Nat
  BY Occupied DEF SeatingInv, TypeOK, TableRow
<1> QED
  BY <1>2, <1>3, <1>4 DEF Knows, Automatic, Occupancy, LiveTables

LEMMA AutoSeatStep ==
    ASSUME SeatingInv, NEW h \in Handlers, NEW g \in Guests, NEW t \in Tables,
           AutoSeat(h, g, t) \/ AutoInsertFails(h, g, t)
    PROVE  SeatingInv'
<1>1. req[h].pc = "seat" /\ g \in req[h].todo /\ t \in Candidates(req[h], g)
      /\ UNCHANGED tables /\ req[h] \in Request /\ TypeOK
  BY DEF AutoSeat, AutoInsertFails, SeatingInv, TypeOK
<1>2. t \in req[h].seen => /\ t \in LiveTables
                           /\ g \notin AssignedTo(t)
                           /\ Occupancy(t) < tables[t].capacity
  BY <1>1, CandidateFits
<1>3. tables' = tables /\ LiveTables' = LiveTables /\ tables[t].capacity \in Nat
      /\ tables' \in [Tables -> TableRow]
  BY <1>1 DEF LiveTables, TypeOK, TableRow
<1>4. Facts(req[h]) /\ \A u \in req[h].seen :
                          Knows(req[h], u, tables[u], AssignedTo(u), u \in stale)
  BY DEF SeatingInv
<1>5. CASE AutoSeat(h, g, t)
  <2> DEFINE free == [req[h].free EXCEPT ![t] = @ - 1]
             todo == req[h].todo \ {g}
             q == [req[h] EXCEPT !.todo = @ \ {g}, !.free[t] = @ - 1]
  <2>1. seats' = seats \cup {<<t, g>>} /\ Touch(h, q, t)
    BY <1>5 DEF AutoSeat
  <2>2. free \in [Tables -> Int] /\ todo \in SUBSET Guests
        /\ \A u \in Tables : free[u] = IF u = t THEN req[h].free[t] - 1 ELSE req[h].free[u]
    BY <1>1 DEF Request
  <2>3. q = [req[h] EXCEPT !.todo = todo, !.free = free]
    BY <1>1 DEF Request
  <2> HIDE DEF q, free
  <2>4. /\ q \in Request /\ q.pc = "seat" /\ q.todo = todo /\ q.free = free
        /\ q.vip = req[h].vip /\ q.seen = req[h].seen
    <3> HIDE DEF todo
    <3> QED
      BY <1>1, <2>2, <2>3 DEF Request
  <2>5. /\ seats' \in SUBSET SeatAssignment
        /\ \A u \in Tables \ {t} : AssignedTo(u)' = AssignedTo(u)
        /\ AssignedTo(t)' = AssignedTo(t) \cup {g}
        /\ Occupancy(t) \in Nat /\ Occupancy(t)' \in Nat
        /\ g \notin AssignedTo(t) => Occupancy(t)' = Occupancy(t) + 1
    BY <1>1, <2>1, SeatTaken
  <2>6. t \in req[h].seen => Occupancy(t)' <= IF t \in LiveTables' THEN tables'[t].capacity ELSE 0
    BY <1>2, <1>3, <2>5
  <2>7. Facts(q)
    BY <1>1, <1>4, <2>4 DEF Facts, ByHand
  <2>8. \A u \in q.seen : Knows(q, u, tables'[u], AssignedTo(u)', u \in stale')
    <3> SUFFICES ASSUME NEW u \in req[h].seen
                 PROVE  Knows(q, u, tables[u], AssignedTo(u)', u \in stale')
      BY <1>3, <2>4
    <3>1. u \in Tables /\ Knows(req[h], u, tables[u], AssignedTo(u), u \in stale)
      BY <1>1, <1>4 DEF Request
    <3>2. CASE u # t
      BY <1>1, <2>2, <2>4, <2>5, <3>1, <3>2 DEF Knows, ByHand, Automatic
    <3>3. CASE u = t
      <4>1. Cardinality(AssignedTo(t)') = Cardinality(AssignedTo(t)) + 1
            /\ Cardinality(AssignedTo(t)) \in Nat
        BY <1>2, <2>5, <3>3 DEF Occupancy
      <4>2. tables[t].status = "live" /\ ~tables[t].locked
        BY <1>1, <3>3, CandidateFits DEF LiveTables
      <4>3. free[t] = tables[t].capacity - Cardinality(AssignedTo(t)')
        BY <1>1, <1>3, <2>2, <3>1, <3>3, <4>1, <4>2 DEF Knows, Automatic
      <4>4. todo \cap AssignedTo(t)' = {}
        BY <1>1, <2>5, <3>1, <3>3, <4>2 DEF Knows
      <4> QED
        BY <1>1, <2>4, <3>1, <3>3, <4>2, <4>3, <4>4 DEF Knows, ByHand, Automatic
    <3> QED
      BY <3>2, <3>3
  <2>9. \A u \in Tables \ {t} : tables'[u] = tables[u] /\ AssignedTo(u)' = AssignedTo(u)
    BY <1>3, <2>5
  <2> QED
    BY <1>3, <2>1, <2>4, <2>5, <2>6, <2>7, <2>8, <2>9, TouchKept
<1>6. CASE AutoInsertFails(h, g, t)
  <2> DEFINE todo == req[h].todo \ {g}
             seen == req[h].seen \ {t}
             q == [req[h] EXCEPT !.todo = @ \ {g}, !.seen = @ \ {t}]
  <2>1. Touch(h, q, t) /\ (seats' = seats \/ seats' = seats \cup {<<t, g>>})
    BY <1>6 DEF AutoInsertFails
  <2>2. q = [req[h] EXCEPT !.todo = todo, !.seen = seen]
        /\ todo \in SUBSET Guests /\ seen \in SUBSET Tables
    BY <1>1 DEF Request
  <2> HIDE DEF q
  <2>3. /\ q \in Request /\ q.pc = "seat" /\ q.todo = todo /\ q.seen = seen
        /\ q.free = req[h].free /\ q.vip = req[h].vip
    <3> HIDE DEF todo, seen
    <3> QED
      BY <1>1, <2>2 DEF Request
  <2>4. /\ seats' \in SUBSET SeatAssignment
        /\ \A u \in Tables \ {t} : AssignedTo(u)' = AssignedTo(u)
        /\ Occupancy(t) \in Nat /\ Occupancy(t)' \in Nat
        /\ Occupancy(t)' <= Occupancy(t) + 1
    <3>1. CASE seats' = seats
      <4>1. \A u : AssignedTo(u)' = AssignedTo(u) /\ Occupancy(u)' = Occupancy(u)
        BY <3>1 DEF AssignedTo, Occupancy
      <4> QED
        BY <1>1, <3>1, <4>1, Occupied DEF TypeOK
    <3>2. CASE seats' = seats \cup {<<t, g>>}
      BY <1>1, <3>2, SeatTaken
    <3> QED
      BY <2>1, <3>1, <3>2
  <2>5. t \in req[h].seen => Occupancy(t)' <= IF t \in LiveTables' THEN tables'[t].capacity ELSE 0
    BY <1>2, <1>3, <2>4
  <2>6. Facts(q)
    BY <1>1, <1>4, <2>3 DEF Facts, ByHand
  <2>7. \A u \in q.seen : Knows(q, u, tables'[u], AssignedTo(u)', u \in stale')
    <3> SUFFICES ASSUME NEW u \in req[h].seen, u # t
                 PROVE  Knows(q, u, tables[u], AssignedTo(u)', u \in stale')
      BY <1>3, <2>3
    <3>1. u \in Tables /\ Knows(req[h], u, tables[u], AssignedTo(u), u \in stale)
      BY <1>1, <1>4 DEF Request
    <3> QED
      BY <1>1, <2>3, <2>4, <3>1 DEF Knows, ByHand, Automatic
  <2>8. \A u \in Tables \ {t} : tables'[u] = tables[u] /\ AssignedTo(u)' = AssignedTo(u)
    BY <1>3, <2>4
  <2> QED
    BY <1>3, <2>1, <2>3, <2>4, <2>5, <2>6, <2>7, <2>8, TouchKept
<1> QED
  BY <1>5, <1>6

----------------------------------------------------------------------------
(* Every step.                                                             *)

\* Zones, the roster and contacts change, but a roster row never goes away.
LEMMA RosterStep ==
    ASSUME SeatingInv,
           \/ \E z \in Zones : CreateZone(z)
           \/ \E g \in Guests : AddToRoster(g) \/ CancelGuest(g) \/ DeleteContact(g)
           \/ UNCHANGED vars
    PROVE  SeatingInv'
<1>1. UNCHANGED <<tables, seats, req, stale>>
  BY DEF CreateZone, AddToRoster, CancelGuest, DeleteContact, vars
<1>2. TypeOK'
  BY DEF SeatingInv, TypeOK, CreateZone, AddToRoster, CancelGuest, DeleteContact, vars
<1>3. \A g : OnRoster(g) /\ g \in Guests => OnRoster(g)'
  BY DEF SeatingInv, TypeOK, OnRoster, CreateZone, AddToRoster, CancelGuest, DeleteContact, vars
<1>4. \A h \in Handlers : Facts(req[h])'
  <2> SUFFICES ASSUME NEW h \in Handlers PROVE Facts(req[h])'
    OBVIOUS
  <2>1. req'[h] = req[h] /\ Facts(req[h]) /\ req[h].todo \subseteq Guests
    BY <1>1 DEF SeatingInv, TypeOK, Request
  <2> QED
    BY <1>3, <2>1 DEF Facts, ByHand
<1>5. \A u : AssignedTo(u)' = AssignedTo(u)
  BY <1>1 DEF AssignedTo
<1>6. SeatsWithinCapacity'
  BY <1>1, <1>5 DEF SeatingInv, SeatsWithinCapacity, Occupancy, LiveTables
<1> QED
  BY <1>1, <1>2, <1>4, <1>5, <1>6 DEF SeatingInv

LEMMA SeatingStep == SeatingInv /\ [Next]_vars => SeatingInv'
<1> SUFFICES ASSUME SeatingInv, [Next]_vars PROVE SeatingInv'
  OBVIOUS
<1>1. ASSUME NEW h \in Handlers, EditTable(h) PROVE SeatingInv'
  BY <1>1, CreateTableStep, UpdateReadStep, DeleteTableStep, UpdateOccupancyStep, UpdateWriteStep
  DEF EditTable
<1>2. ASSUME NEW h \in Handlers, SeatByHand(h) PROVE SeatingInv'
  BY <1>2, HandReadStep, HandCheckStep, HandCountStep, HandExistingStep, HandInsertStep,
     UnassignStep
  DEF SeatByHand, UnassignGuestRequest, AssignGuestRequest
<1>3. ASSUME NEW h \in Handlers, AutoAssign(h) \/ Abort(h) PROVE SeatingInv'
  BY <1>3, AutoTablesStep, AutoListStep, AutoRestStep, AutoSeatStep DEF AutoAssign
<1> QED
  BY <1>1, <1>2, <1>3, RosterStep DEF Next

LEMMA SeatingInit == Init => SeatingInv
<1> SUFFICES ASSUME Init PROVE SeatingInv
  OBVIOUS
<1>1. TypeOK
  BY IdleFacts DEF Init, TypeOK, NoRow, TableRow
<1>2. \A t : AssignedTo(t) = {} /\ Occupancy(t) = 0
  BY FS_EmptySet DEF Init, AssignedTo, Occupancy
<1>3. SeatsWithinCapacity
  BY <1>1, <1>2 DEF SeatsWithinCapacity, TypeOK, TableRow
<1>4. \A h \in Handlers : req[h] = Idle
  BY DEF Init
<1> QED
  BY <1>1, <1>3, <1>4, IdleFacts DEF SeatingInv

----------------------------------------------------------------------------
(* Theorems.                                                               *)

\* Tables, seats and requests keep their types, AutoAssign's running count of
\* free seats included.
THEOREM SeatingTypes == Spec => []TypeOK
<1>1. SeatingInv => TypeOK
  BY DEF SeatingInv
<1> QED
  BY <1>1, SeatingInit, SeatingStep, PTL DEF Spec

\* However AssignGuest, AutoAssign, UpdateTable, RemoveAssignment and
\* DeleteTable interleave, a table that no request wrote after another one had
\* overtaken it seats no more guests than its capacity, and none once it is
\* deleted.
THEOREM CapacityIsKept == Spec => []SeatsWithinCapacity
<1>1. SeatingInv => SeatsWithinCapacity
  BY DEF SeatingInv
<1> QED
  BY <1>1, SeatingInit, SeatingStep, PTL DEF Spec

----------------------------------------------------------------------------
(* What a step may do.                                                     *)

\* Only three statements insert a seat.
LEMMA SeatsOnlyBy ==
    ASSUME [Next]_vars
    PROVE  \/ seats' \subseteq seats
           \/ \E h \in Handlers : AssignInsert(h)
           \/ \E h \in Handlers, g \in Guests, t \in Tables :
                AutoSeat(h, g, t) \/ AutoInsertFails(h, g, t)
<1>1. ASSUME NEW h \in Handlers, EditTable(h) PROVE seats' \subseteq seats
  BY <1>1 DEF EditTable, CreateTable, UpdateRead, DeleteTable, UpdateOccupancy, UpdateWrite, Think
<1>2. ASSUME NEW h \in Handlers, SeatByHand(h) PROVE seats' \subseteq seats \/ AssignInsert(h)
  BY <1>2 DEF SeatByHand, AssignRead, UnassignRead, AssignContact, AssignRoster, AssignCount,
     AssignExisting, UnassignDelete, Think
<1>3. ASSUME NEW h \in Handlers, AutoAssign(h) \/ Abort(h)
      PROVE  \/ seats' \subseteq seats
             \/ \E g \in Guests, t \in Tables : AutoSeat(h, g, t) \/ AutoInsertFails(h, g, t)
  BY <1>3 DEF AutoAssign, AutoTables, AutoPage, AutoTaken, AutoSkip, AutoEnd, Abort, Think
<1>4. CASE \/ \E z \in Zones : CreateZone(z)
           \/ \E g \in Guests : AddToRoster(g) \/ CancelGuest(g) \/ DeleteContact(g)
           \/ UNCHANGED vars
  BY <1>4 DEF CreateZone, AddToRoster, CancelGuest, DeleteContact, vars
<1> QED
  BY <1>1, <1>2, <1>3, <1>4 DEF Next

\* AssignGuest and AutoAssign break no rule of a table that nobody changed
\* under them: what they checked several statements ago still holds when they
\* insert the seat.
THEOREM SeatsAreAllowed == Spec => NewSeatAllowed
<1> DEFINE Allowed(t, g) ==
             /\ t \in LiveTables
             /\ ~tables[t].locked
             /\ tables[t].vipOnly => g \in Vips
             /\ OnRoster(g)
<1>1. SeatingInv /\ [Next]_vars =>
        \A t \in Tables, g \in Guests :
          <<t, g>> \in seats' \ seats /\ t \notin stale' => Allowed(t, g)
  <2> SUFFICES ASSUME SeatingInv, [Next]_vars, NEW t \in Tables, NEW g \in Guests,
                      <<t, g>> \in seats' \ seats, t \notin stale'
               PROVE  Allowed(t, g)
    OBVIOUS
  <2>1. ASSUME NEW h \in Handlers, AssignInsert(h) PROVE Allowed(t, g)
    <3>1. req[h].pc = "insert" /\ t = req[h].table /\ g = req[h].guest
      BY <2>1 DEF AssignInsert
    <3>2. t \in req[h].seen
      BY <2>1, <3>1 DEF AssignInsert, Touch
    <3>3. Facts(req[h]) /\ Knows(req[h], t, tables[t], AssignedTo(t), t \in stale)
      BY <3>2 DEF SeatingInv
    <3> QED
      BY <3>1, <3>3 DEF Facts, Knows, ByHand, Admits, LiveTables
  <2>2. ASSUME NEW h \in Handlers, NEW k \in Guests, NEW u \in Tables,
               AutoSeat(h, k, u) \/ AutoInsertFails(h, k, u)
        PROVE  Allowed(t, g)
    <3>1. u = t /\ k = g
      BY <2>2 DEF AutoSeat, AutoInsertFails
    <3>2. t \in req[h].seen
      BY <2>2, <3>1 DEF AutoSeat, AutoInsertFails, Touch
    <3>3. req[h].pc = "seat" /\ g \in req[h].todo /\ t \in Candidates(req[h], g)
      BY <2>2, <3>1 DEF AutoSeat, AutoInsertFails
    <3> QED
      BY <3>2, <3>3, CandidateFits
  <2> QED
    BY <2>1, <2>2, SeatsOnlyBy
<1> QED
  BY <1>1, SeatingInit, SeatingStep, PTL DEF Spec, NewSeatAllowed

\* Only AutoAssign's loop takes guests off its list, one at a time.
LEMMA TodoOnlyBy ==
    ASSUME SeatingInv, [Next]_vars, NEW h \in Handlers, NEW g \in Guests,
           req[h].pc = "seat", g \in req[h].todo \ req'[h].todo
    PROVE  \/ AutoSkip(h, g)
           \/ \E t \in Tables : AutoSeat(h, g, t) \/ AutoInsertFails(h, g, t)
<1>t. \A k \in Handlers : req[k] \in Request
  BY DEF SeatingInv, TypeOK
<1>other. ASSUME NEW k \in Handlers, k # h,
                 EditTable(k) \/ SeatByHand(k) \/ AutoAssign(k) \/ Abort(k)
          PROVE  FALSE
  <2>1. ASSUME NEW r, Goto(k, r) PROVE FALSE
    BY <1>other, <2>1 DEF Goto, SeatingInv, TypeOK
  <2>2. ASSUME NEW r, NEW t, Touch(k, r, t) PROVE FALSE
    BY <1>other, <1>t, <2>2 DEF Touch, Request
  <2>3. ASSUME NEW t, Forget(t) PROVE FALSE
    BY <1>t, <2>3 DEF Forget, Request
  <2>4. CASE EditTable(k)
    BY <2>1, <2>2, <2>3, <2>4
    DEF EditTable, CreateTable, UpdateRead, DeleteTable, UpdateOccupancy, UpdateWrite, End
  <2>5. CASE SeatByHand(k)
    BY <2>1, <2>2, <2>5
    DEF SeatByHand, AssignRead, UnassignRead, AssignContact, AssignRoster, AssignCount,
        AssignExisting, AssignInsert, UnassignDelete, End
  <2>6. CASE AutoAssign(k) \/ Abort(k)
    BY <2>1, <2>2, <2>6
    DEF AutoAssign, AutoTables, AutoPage, AutoTaken, AutoSeat, AutoInsertFails, AutoSkip,
        AutoEnd, Abort, End
  <2> QED
    BY <1>other, <2>4, <2>5, <2>6
<1>1. ASSUME EditTable(h) \/ SeatByHand(h) \/ Abort(h) PROVE FALSE
  BY <1>1 DEF EditTable, CreateTable, UpdateRead, DeleteTable, UpdateOccupancy, UpdateWrite,
     SeatByHand, AssignRead, UnassignRead, AssignContact, AssignRoster, AssignCount,
     AssignExisting, AssignInsert, UnassignDelete, Abort
<1>2. ASSUME AutoAssign(h)
      PROVE  \/ AutoSkip(h, g)
             \/ \E t \in Tables : AutoSeat(h, g, t) \/ AutoInsertFails(h, g, t)
  <2>1. ASSUME NEW k \in Guests, AutoSkip(h, k) PROVE k = g
    BY <1>t, <2>1 DEF AutoSkip, Goto, Request, SeatingInv, TypeOK
  <2>2. ASSUME NEW k \in Guests, NEW t \in Tables, AutoSeat(h, k, t) PROVE k = g
    <3> DEFINE q == [req[h] EXCEPT !.todo = @ \ {k}, !.free[t] = @ - 1]
    <3>1. req'[h] = q
      BY <2>2 DEF AutoSeat, Touch
    <3>2. q.todo = req[h].todo \ {k}
      BY <1>t DEF Request
    <3> HIDE DEF q
    <3> QED
      BY <3>1, <3>2
  <2>3. ASSUME NEW k \in Guests, NEW t \in Tables, AutoInsertFails(h, k, t) PROVE k = g
    <3> DEFINE q == [req[h] EXCEPT !.todo = @ \ {k}, !.seen = @ \ {t}]
    <3>1. req'[h] = q
      BY <2>3 DEF AutoInsertFails, Touch
    <3>2. q.todo = req[h].todo \ {k}
      BY <1>t DEF Request
    <3> HIDE DEF q
    <3> QED
      BY <3>1, <3>2
  <2> QED
    BY <1>2, <2>1, <2>2, <2>3 DEF AutoAssign, AutoTables, AutoPage, AutoTaken, AutoEnd
<1>3. ASSUME \/ \E z \in Zones : CreateZone(z)
             \/ \E k \in Guests : AddToRoster(k) \/ CancelGuest(k) \/ DeleteContact(k)
             \/ UNCHANGED vars
      PROVE  FALSE
  BY <1>3 DEF CreateZone, AddToRoster, CancelGuest, DeleteContact, vars
<1> QED
  BY <1>other, <1>1, <1>2, <1>3 DEF Next

\* AutoAssign leaves a guest without a seat only if there is none: its running
\* count of free seats is exact for every table that nobody else writes.
THEOREM NobodyLeftStanding == Spec => LeftStandingOnlyIfFull
<1> DEFINE Closed(t, g) ==
             \/ tables[t].locked
             \/ tables[t].vipOnly /\ g \notin Vips \cap contacts
             \/ Occupancy(t) >= tables[t].capacity
<1>1. SeatingInv /\ [Next]_vars =>
        \A h \in Handlers, g \in Guests :
          /\ req[h].pc = "seat"
          /\ g \in req[h].todo \ req'[h].todo
          /\ req'[h].seen = Tables
          /\ TablesOf(g)' = {}
          => \A t \in LiveTables : Closed(t, g)
  <2> SUFFICES ASSUME SeatingInv, [Next]_vars, NEW h \in Handlers, NEW g \in Guests,
                      req[h].pc = "seat", g \in req[h].todo \ req'[h].todo,
                      req'[h].seen = Tables, TablesOf(g)' = {}, NEW t \in LiveTables
               PROVE  Closed(t, g)
    OBVIOUS
  <2>t. req[h] \in Request /\ t \in Tables
    BY DEF SeatingInv, TypeOK, LiveTables
  <2>1. CASE AutoSkip(h, g)
    <3>1. req[h].seen = Tables
      BY <2>1, <2>t DEF AutoSkip, Goto, Request, SeatingInv, TypeOK
    <3>2. Knows(req[h], t, tables[t], AssignedTo(t), t \in stale)
      BY <2>t, <3>1 DEF SeatingInv
    <3>3. ~(req[h].free[t] > 0) \/ (t \in req[h].vip /\ g \notin Vips \cap contacts)
      BY <2>1, <2>t DEF AutoSkip, Candidates
    <3>4. tables[t].capacity \in Nat /\ Cardinality(AssignedTo(t)) \in Nat
          /\ tables[t].status = "live"
      BY <2>t, Occupied DEF SeatingInv, TypeOK, TableRow, Occupancy, LiveTables
    <3> QED
      BY <3>2, <3>3, <3>4 DEF Knows, Automatic, Occupancy
  <2>2. ASSUME NEW u \in Tables, AutoSeat(h, g, u) PROVE FALSE
    <3> DEFINE q == [req[h] EXCEPT !.todo = @ \ {g}, !.free[u] = @ - 1]
    <3>1. req'[h] = q
      BY <2>2 DEF AutoSeat, Touch
    <3>2. q.seen = req[h].seen
      BY <2>t DEF Request
    <3> HIDE DEF q
    <3>3. u \in req[h].seen
      BY <3>1, <3>2
    <3>4. u \in LiveTables
      BY <2>2, <3>3, CandidateFits DEF AutoSeat
    <3>5. u \in LiveTables' /\ <<u, g>> \in seats'
      BY <2>2, <3>4 DEF AutoSeat, LiveTables
    <3> QED
      BY <3>5 DEF TablesOf
  <2>3. ASSUME NEW u \in Tables, AutoInsertFails(h, g, u) PROVE FALSE
    <3> DEFINE q == [req[h] EXCEPT !.todo = @ \ {g}, !.seen = @ \ {u}]
    <3>1. req'[h] = q
      BY <2>3 DEF AutoInsertFails, Touch
    <3>2. q.seen = req[h].seen \ {u}
      BY <2>t DEF Request
    <3> HIDE DEF q
    <3> QED
      BY <3>1, <3>2
  <2> QED
    BY <2>1, <2>2, <2>3, TodoOnlyBy
<1> QED
  BY <1>1, SeatingInit, SeatingStep, PTL DEF Spec, LeftStandingOnlyIfFull
=============================================================================

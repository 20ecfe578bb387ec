--------------------------- MODULE WhatsAppProofs ---------------------------
(***************************************************************************)
(* Proofs about WhatsAppOutbox for every set of events and invocations and *)
(* every number of attempts.  The heart of the argument is                 *)
(* DeliveriesReserved: every invocation that may still deliver an event's  *)
(* message, and the next claim if the queue would grant one, has a unit of *)
(* spare[e] set aside for it.  A live lease is what withholds the unit of  *)
(* the next claim; an expiry or a catch block pays for it.                 *)
(***************************************************************************)
EXTENDS WhatsAppOutbox, FiniteSetTheorems, TLAPS

(* An invocation between its claim and its last transaction. *)
Delivery == [step : {"claimed", "sending", "sent", "failed"},
             event : Event, withdrawn : BOOLEAN]

(* Every invocation is idle, dead or at work on an event. *)
WorkersTyped == worker \in [Worker -> Delivery \cup {Idle, Dead}]

(* Only a queued event carries a claim. *)
ClosedIsUnclaimed ==
    \A e \in Event : event[e].status # "queued" =>
        event[e].claimedBy = NoWorker /\ event[e].lease = "null"

(* A "ready" message is about an order that was paid, now or before. *)
ReadyWasPaid == \A e \in ReadyEvent : order[e].payment # "pending"

(* What an invocation found withdrawn at its claim is withdrawn still. *)
WithdrawnStays ==
    \A w \in Worker : worker[w] \in Delivery /\ worker[w].withdrawn =>
        Withdrawn(worker[w].event)

(* The invocations that may still deliver e's message. *)
Senders(e) ==
    {w \in Worker : worker[w].step \in {"claimed", "sending"} /\ worker[w].event = e}

(* The queue may grant another claim of e. *)
Grantable(e) == event[e].status \in {"none", "queued"} /\ event[e].lease # "live"

Reserve(e) == IF Grantable(e) THEN 1 ELSE 0

(* Each possible delivery is reserved. *)
DeliveriesReserved ==
    \A e \in Event : /\ IsFiniteSet(Senders(e))
                     /\ spare[e] >= Cardinality(Senders(e)) + Reserve(e)

(* The inductive invariant. *)
Inv == /\ TypeOK /\ WorkersTyped /\ ClosedIsUnclaimed /\ ReadyWasPaid
       /\ WithdrawnStays /\ WithdrawnIsSilent /\ DeadMeansExhausted
       /\ DeliveriesReserved

-----------------------------------------------------------------------------
(* Lemmas about the operators of the model *)

(* An invocation at one of the four steps is a delivery. *)
LEMMA BusyIsDelivery ==
  ASSUME WorkersTyped, NEW w \in Worker,
         worker[w].step \in {"claimed", "sending", "sent", "failed"}
  PROVE  worker[w] \in Delivery /\ worker[w].event \in Event
BY DEF WorkersTyped, Delivery, Idle, Dead

(* Claiming, publishing and releasing an event yields a row. *)
LEMMA RowType ==
  ASSUME NEW r \in EventRow, NEW w \in Worker
  PROVE  /\ Claimed(r, w) \in EventRow
         /\ Published(r, w) \in EventRow
         /\ Released(r, w) \in EventRow
<1>1. Claimed(r, w) \in EventRow
  <2>1. r.attempts + 1 \in Nat
    BY DEF EventRow
  <2>2. \A n \in Nat : [r EXCEPT !.claimedBy = w, !.lease = "live", !.attempts = n] \in EventRow
    BY DEF EventRow
  <2>3. QED
    BY <2>1, <2>2 DEF Claimed
<1>2. Published(r, w) \in EventRow
  BY DEF EventRow, Published
<1>3. Released(r, w) \in EventRow
  <2>1. [r EXCEPT !.claimedBy = NoWorker, !.lease = "null", !.available = FALSE,
                  !.status = "dead"] \in EventRow
    BY DEF EventRow
  <2>2. [r EXCEPT !.claimedBy = NoWorker, !.lease = "null", !.available = FALSE,
                  !.status = r.status] \in EventRow
    BY DEF EventRow
  <2>3. QED
    BY <2>1, <2>2 DEF Released
<1>4. QED
  BY <1>1, <1>2, <1>3

(* A message is sent only for an order that has not given it up. *)
LEMMA EligibleIsNotWithdrawn ==
  ASSUME TypeOK, NEW e \in Event, Eligible(e)
  PROVE  ~ Withdrawn(e)
BY DEF TypeOK, Eligible, ReadyEligible, OwnerEligible, Withdrawn, QueuedOrder, OrderView

(* No invocation's work on e changed: the same invocations may deliver it. *)
LEMMA SendersUnchanged ==
  ASSUME worker' = worker, NEW e \in Event
  PROVE  Senders(e)' = Senders(e)
BY DEF Senders

(* Only w moved, and not into a sending position: nobody new may deliver. *)
LEMMA SendersShrink ==
  ASSUME WorkersTyped, NEW w \in Worker, NEW d,
         worker' = [worker EXCEPT ![w] = d],
         d.step \in {"claimed", "sending"} =>
             worker[w].step \in {"claimed", "sending"} /\ d.event = worker[w].event,
         NEW e \in Event, IsFiniteSet(Senders(e))
  PROVE  /\ Senders(e)' \subseteq Senders(e)
         /\ IsFiniteSet(Senders(e)')
         /\ Cardinality(Senders(e)') <= Cardinality(Senders(e))
<1>1. Senders(e)' \subseteq Senders(e)
  BY DEF WorkersTyped, Senders
<1>2. QED
  BY <1>1, FS_Subset

(* A sender that moved on is no sender any more. *)
LEMMA SenderLeaves ==
  ASSUME WorkersTyped, NEW w \in Worker, NEW d,
         worker' = [worker EXCEPT ![w] = d],
         d.step \notin {"claimed", "sending"},
         NEW e \in Event, w \in Senders(e), IsFiniteSet(Senders(e))
  PROVE  /\ IsFiniteSet(Senders(e)')
         /\ Cardinality(Senders(e)') = Cardinality(Senders(e)) - 1
<1>1. Senders(e)' = Senders(e) \ {w}
  BY DEF WorkersTyped, Senders
<1>2. QED
  BY <1>1, FS_RemoveElement

(* A claim adds at most its own invocation to the senders of its event. *)
LEMMA SenderArrives ==
  ASSUME WorkersTyped, NEW w \in Worker, NEW d,
         worker' = [worker EXCEPT ![w] = d],
         NEW e \in Event, IsFiniteSet(Senders(e))
  PROVE  /\ IsFiniteSet(Senders(e)')
         /\ Cardinality(Senders(e)') <= Cardinality(Senders(e)) + 1
<1>1. Senders(e)' \subseteq Senders(e) \cup {w}
  BY DEF WorkersTyped, Senders
<1>2. /\ IsFiniteSet(Senders(e) \cup {w})
      /\ Cardinality(Senders(e) \cup {w}) <= Cardinality(Senders(e)) + 1
  <2>1. Cardinality(Senders(e)) \in Nat
    BY FS_CardinalityType
  <2>2. CASE w \in Senders(e)
    <3>1. Senders(e) \cup {w} = Senders(e)
      BY <2>2
    <3>2. QED
      BY <2>1, <3>1
  <2>3. CASE w \notin Senders(e)
    <3>1. IsFiniteSet(Senders(e) \cup {w})
      BY FS_AddElement
    <3>2. Cardinality(Senders(e) \cup {w}) = Cardinality(Senders(e)) + 1
      BY <2>3, FS_AddElement
    <3>3. QED
      BY <2>1, <3>1, <3>2
  <2>4. QED
    BY <2>2, <2>3
<1>3. /\ IsFiniteSet(Senders(e)')
      /\ Cardinality(Senders(e)') <= Cardinality(Senders(e) \cup {w})
  BY <1>1, <1>2, FS_Subset
<1>4. /\ Cardinality(Senders(e)') \in Nat
      /\ Cardinality(Senders(e) \cup {w}) \in Nat
      /\ Cardinality(Senders(e)) \in Nat
  BY <1>2, <1>3, FS_CardinalityType
<1>5. QED
  BY <1>2, <1>3, <1>4

-----------------------------------------------------------------------------
(* The inductive invariant *)

(* It holds initially: nothing is queued and one delivery is explained. *)
LEMMA InvInit == Init => Inv
<1> SUFFICES ASSUME Init PROVE Inv
  OBVIOUS
<1>1. TypeOK /\ WorkersTyped
  BY MaxSlowAssumption DEF Init, TypeOK, WorkersTyped, NoEvent, EventRow, QueuedOrder,
                           OrderView, Idle
<1>2. ClosedIsUnclaimed /\ ReadyWasPaid /\ DeadMeansExhausted
  BY DEF Init, ClosedIsUnclaimed, ReadyWasPaid, DeadMeansExhausted, NoEvent, QueuedOrder,
         Event
<1>3. WithdrawnStays /\ WithdrawnIsSilent
  BY DEF Init, WithdrawnStays, WithdrawnIsSilent, Delivery, Idle
<1>4. DeliveriesReserved
  <2> SUFFICES ASSUME NEW e \in Event
               PROVE  /\ IsFiniteSet(Senders(e))
                      /\ spare[e] >= Cardinality(Senders(e)) + Reserve(e)
    BY DEF DeliveriesReserved
  <2>1. Senders(e) = {}
    BY DEF Init, Senders, Idle
  <2>2. IsFiniteSet(Senders(e)) /\ Cardinality(Senders(e)) = 0
    BY <2>1, FS_EmptySet
  <2>3. spare[e] = 1 /\ Reserve(e) \in {0, 1}
    BY DEF Init, Reserve
  <2>4. QED
    BY <2>2, <2>3
<1>5. QED
  BY <1>1, <1>2, <1>3, <1>4 DEF Inv

(* What DeliveriesReserved says of one event, with the types of its parts. *)
LEMMA ReservedFor ==
  ASSUME Inv, NEW e \in Event
  PROVE  /\ IsFiniteSet(Senders(e))
         /\ Cardinality(Senders(e)) \in Nat
         /\ spare[e] \in Int
         /\ spare[e] >= Cardinality(Senders(e)) + Reserve(e)
         /\ Reserve(e) = IF Grantable(e) THEN 1 ELSE 0
BY FS_CardinalityType DEF Inv, DeliveriesReserved, TypeOK, Reserve

(* A worker that moves on from one of its steps keeps the types and does not  *)
(* change what it found withdrawn.                                            *)
LEMMA AdvanceKeeps ==
  ASSUME WorkersTyped, NEW w \in Worker, worker[w] \in Delivery,
         NEW step \in {"claimed", "sending", "sent", "failed"},
         worker' = [worker EXCEPT ![w].step = step]
  PROVE  /\ WorkersTyped'
         /\ worker' = [worker EXCEPT ![w] = [worker[w] EXCEPT !.step = step]]
         /\ worker'[w].step = step /\ worker'[w].event = worker[w].event
         /\ worker'[w].withdrawn = worker[w].withdrawn
BY DEF WorkersTyped, Delivery

(* Steps of the environment leave the invocations alone; with the orders         *)
(* unchanged too, nothing that was found withdrawn comes back.                   *)
LEMMA WithdrawnKept ==
  ASSUME Inv, UNCHANGED <<order, worker>>
  PROVE  ReadyWasPaid' /\ WorkersTyped' /\ WithdrawnStays' /\ WithdrawnIsSilent'
BY DEF Inv, ReadyWasPaid, WorkersTyped, WithdrawnStays, WithdrawnIsSilent, Withdrawn

(* Queueing an event. *)
LEMMA AppendKeeps ==
  ASSUME Inv, NEW e \in Event, Append(e)
  PROVE  Inv'
<1>1. /\ event[e] = NoEvent
      /\ event' = [event EXCEPT ![e] = [NoEvent EXCEPT !.status = "queued",
                                                      !.available = TRUE]]
  BY DEF Inv, TypeOK, Append
<1>2. TypeOK'
  BY <1>1 DEF Inv, TypeOK, Append, NoEvent, EventRow
<1>3. ClosedIsUnclaimed' /\ DeadMeansExhausted'
  BY <1>1, MaxAttemptsAssumption
  DEF Inv, TypeOK, ClosedIsUnclaimed, DeadMeansExhausted, NoEvent
<1>4. ReadyWasPaid' /\ WorkersTyped' /\ WithdrawnStays' /\ WithdrawnIsSilent'
  BY WithdrawnKept DEF Append
<1>5. DeliveriesReserved'
  <2> SUFFICES ASSUME NEW f \in Event
               PROVE  /\ IsFiniteSet(Senders(f))'
                      /\ spare'[f] >= Cardinality(Senders(f)') + Reserve(f)'
    BY DEF DeliveriesReserved
  <2>1. Senders(f)' = Senders(f) /\ spare' = spare
    BY SendersUnchanged DEF Append
  <2>2. Reserve(f)' = Reserve(f)
    BY <1>1 DEF Inv, TypeOK, Reserve, Grantable, NoEvent
  <2>3. QED
    BY <2>1, <2>2, ReservedFor
<1>6. QED
  BY <1>2, <1>3, <1>4, <1>5 DEF Inv

(* Collecting, refunding or cancelling an order. *)
LEMMA OrderChangesKeeps ==
  ASSUME Inv, NEW e \in Event, OrderChanges(e)
  PROVE  Inv'
<1>1. TypeOK' /\ ReadyWasPaid'
  <2>1. PICK p \in {"paid", "refunded", "pending"}, c \in BOOLEAN :
          /\ order' = [order EXCEPT ![e] = [payment |-> p, cancelled |-> c]]
          /\ p = "pending" => order[e].payment = "pending"
    BY ZenonT(60) DEF Inv, TypeOK, OrderChanges, OrderView
  <2>2. order' \in [Event -> OrderView]
    BY <2>1 DEF Inv, TypeOK, OrderView
  <2>3. ReadyWasPaid'
    BY <2>1 DEF Inv, TypeOK, ReadyWasPaid, Event
  <2>4. QED
    BY <2>2, <2>3 DEF Inv, TypeOK, OrderChanges
<1>2. \A f \in Event : Withdrawn(f) => Withdrawn(f)'
  BY DEF Inv, TypeOK, ReadyWasPaid, OrderChanges, OrderView, Withdrawn, QueuedOrder
<1>3. WorkersTyped' /\ WithdrawnStays' /\ WithdrawnIsSilent'
  BY <1>2, BusyIsDelivery DEF Inv, OrderChanges, WorkersTyped, WithdrawnStays, Delivery,
                              WithdrawnIsSilent
<1>4. ClosedIsUnclaimed' /\ DeadMeansExhausted'
  BY DEF Inv, OrderChanges, ClosedIsUnclaimed, DeadMeansExhausted
<1>5. DeliveriesReserved'
  BY SendersUnchanged DEF Inv, OrderChanges, DeliveriesReserved, Reserve, Grantable
<1>6. QED
  BY <1>1, <1>3, <1>4, <1>5 DEF Inv

(* The owner sets or clears the phone number. *)
LEMMA PhoneChangesKeeps ==
  ASSUME Inv, PhoneChanges
  PROVE  Inv'
<1>1. TypeOK' /\ ClosedIsUnclaimed' /\ DeadMeansExhausted'
  BY DEF Inv, PhoneChanges, TypeOK, ClosedIsUnclaimed, DeadMeansExhausted
<1>2. ReadyWasPaid' /\ WorkersTyped' /\ WithdrawnStays' /\ WithdrawnIsSilent'
  BY WithdrawnKept DEF PhoneChanges
<1>3. DeliveriesReserved'
  BY SendersUnchanged DEF Inv, PhoneChanges, DeliveriesReserved, Reserve, Grantable
<1>4. QED
  BY <1>1, <1>2, <1>3 DEF Inv

(* A lease runs out: the unit it held back goes to the next claim. *)
LEMMA LeaseExpiresKeeps ==
  ASSUME Inv, NEW e \in Event, LeaseExpires(e)
  PROVE  Inv'
<1>1. /\ event[e].lease = "live"
      /\ event' = [event EXCEPT ![e] = [event[e] EXCEPT !.lease = "expired"]]
      /\ spare' = [spare EXCEPT ![e] = spare[e] + 1]
  BY DEF LeaseExpires
<1>2. TypeOK'
  BY <1>1, MaxSlowAssumption DEF Inv, TypeOK, LeaseExpires, EventRow
<1>3. ClosedIsUnclaimed' /\ DeadMeansExhausted'
  BY <1>1 DEF Inv, TypeOK, EventRow, ClosedIsUnclaimed, DeadMeansExhausted
<1>4. ReadyWasPaid' /\ WorkersTyped' /\ WithdrawnStays' /\ WithdrawnIsSilent'
  BY WithdrawnKept DEF LeaseExpires
<1>5. DeliveriesReserved'
  <2> SUFFICES ASSUME NEW f \in Event
               PROVE  /\ IsFiniteSet(Senders(f))'
                      /\ spare'[f] >= Cardinality(Senders(f)') + Reserve(f)'
    BY DEF DeliveriesReserved
  <2>1. Senders(f)' = Senders(f)
    BY SendersUnchanged DEF LeaseExpires
  <2>2. CASE f = e
    <3>1. Reserve(e) = 0 /\ Reserve(e)' \in {0, 1} /\ spare'[e] = spare[e] + 1
      BY <1>1 DEF Inv, TypeOK, Reserve, Grantable
    <3>2. QED
      BY <2>1, <2>2, <3>1, ReservedFor
  <2>3. CASE f # e
    <3>1. Reserve(f)' = Reserve(f) /\ spare'[f] = spare[f]
      BY <1>1, <2>3 DEF Inv, TypeOK, Reserve, Grantable
    <3>2. QED
      BY <2>1, <3>1, ReservedFor
  <2>4. QED
    BY <2>2, <2>3
<1>6. QED
  BY <1>2, <1>3, <1>4, <1>5 DEF Inv

(* The pause of a released event ends. *)
LEMMA PauseEndsKeeps ==
  ASSUME Inv, NEW e \in Event, PauseEnds(e)
  PROVE  Inv'
<1>1. event' = [event EXCEPT ![e] = [event[e] EXCEPT !.available = TRUE]]
  BY DEF PauseEnds
<1>2. TypeOK'
  BY <1>1, ZenonT(60) DEF Inv, TypeOK, PauseEnds, EventRow
<1>3. ClosedIsUnclaimed' /\ DeadMeansExhausted'
  BY <1>1 DEF Inv, TypeOK, EventRow, ClosedIsUnclaimed, DeadMeansExhausted
<1>4. ReadyWasPaid' /\ WorkersTyped' /\ WithdrawnStays' /\ WithdrawnIsSilent'
  BY WithdrawnKept DEF PauseEnds
<1>5. DeliveriesReserved'
  <2> SUFFICES ASSUME NEW f \in Event
               PROVE  /\ IsFiniteSet(Senders(f))'
                      /\ spare'[f] >= Cardinality(Senders(f)') + Reserve(f)'
    BY DEF DeliveriesReserved
  <2>1. Senders(f)' = Senders(f) /\ spare' = spare
    BY SendersUnchanged DEF PauseEnds
  <2>2. Reserve(f)' = Reserve(f)
    BY <1>1 DEF Inv, TypeOK, EventRow, Reserve, Grantable
  <2>3. QED
    BY <2>1, <2>2, ReservedFor
<1>6. QED
  BY <1>2, <1>3, <1>4, <1>5 DEF Inv

(* A claim: the lease test makes the reserved unit the claimant's own. *)
LEMMA ClaimKeeps ==
  ASSUME Inv, NEW w \in Worker, NEW e \in Event, ClaimEvent(w, e)
  PROVE  Inv'
<1> DEFINE d == [step |-> "claimed", event |-> e, withdrawn |-> Withdrawn(e)]
<1>1. /\ worker[w] = Idle
      /\ event[e].status = "queued" /\ event[e].lease \in {"null", "expired"}
      /\ event' = [event EXCEPT ![e] = Claimed(event[e], w)]
      /\ worker' = [worker EXCEPT ![w] = d]
  BY DEF ClaimEvent, Candidate
<1>2. d \in Delivery
  BY DEF Delivery, Withdrawn
<1>3. WorkersTyped'
  BY <1>1, <1>2 DEF Inv, WorkersTyped
<1>4. event' \in [Event -> EventRow]
  BY <1>1, RowType DEF Inv, TypeOK
<1>5. TypeOK'
  <2>1. \A v \in Worker : worker'[v].step \in
          {"idle", "dead", "claimed", "sending", "sent", "failed"}
    BY <1>3 DEF WorkersTyped, Delivery, Idle, Dead
  <2>2. QED
    BY <1>4, <2>1 DEF Inv, TypeOK, ClaimEvent
<1>6. ClosedIsUnclaimed' /\ DeadMeansExhausted'
  <2>1. /\ event'[e].status = "queued" /\ event'[e].claimedBy # NoWorker
        /\ \A f \in Event \ {e} : event'[f] = event[f]
    BY <1>1, NoWorkerAssumption DEF Inv, TypeOK, EventRow, Claimed
  <2>2. QED
    BY <2>1 DEF Inv, ClosedIsUnclaimed, DeadMeansExhausted
<1>7. ReadyWasPaid'
  BY DEF Inv, ReadyWasPaid, ClaimEvent
<1>8. WithdrawnStays'
  <2> SUFFICES ASSUME NEW v \in Worker, worker'[v] \in Delivery, worker'[v].withdrawn
               PROVE  Withdrawn(worker[v].event)'
    BY DEF WithdrawnStays, Delivery
  <2>1. CASE v = w
    <3>1. worker'[v] = d
      BY <1>1, <2>1 DEF Inv, WorkersTyped
    <3>2. worker[v].event' = e /\ Withdrawn(e)
      BY <3>1
    <3>3. QED
      BY <3>2 DEF Withdrawn, ClaimEvent
  <2>2. CASE v # w
    <3>1. worker'[v] = worker[v]
      BY <1>1, <2>2 DEF Inv, WorkersTyped
    <3>2. QED
      BY <3>1 DEF Inv, WithdrawnStays, Withdrawn, ClaimEvent
  <2>3. QED
    BY <2>1, <2>2
<1>9. WithdrawnIsSilent'
  BY <1>1 DEF Inv, WorkersTyped, WithdrawnIsSilent
<1>10. DeliveriesReserved'
  <2> SUFFICES ASSUME NEW f \in Event
               PROVE  /\ IsFiniteSet(Senders(f))'
                      /\ spare'[f] >= Cardinality(Senders(f)') + Reserve(f)'
    BY DEF DeliveriesReserved
  <2>1. spare' = spare
    BY DEF ClaimEvent
  <2>2. CASE f = e
    <3>1. Reserve(e) = 1 /\ Reserve(e)' = 0
      BY <1>1 DEF Inv, TypeOK, EventRow, Reserve, Grantable, Claimed
    <3>2. /\ IsFiniteSet(Senders(e)')
          /\ Cardinality(Senders(e)') <= Cardinality(Senders(e)) + 1
      BY <1>1, SenderArrives, ReservedFor DEF Inv
    <3>3. Cardinality(Senders(e)') \in Nat
      BY <3>2, FS_CardinalityType
    <3>4. QED
      BY <2>1, <2>2, <3>1, <3>2, <3>3, ReservedFor
  <2>3. CASE f # e
    <3>1. Senders(f)' = Senders(f)
      BY <1>1, <2>3 DEF Inv, WorkersTyped, Senders, Idle
    <3>2. Reserve(f)' = Reserve(f)
      BY <1>1, <2>3 DEF Inv, TypeOK, Reserve, Grantable
    <3>3. QED
      BY <2>1, <3>1, <3>2, ReservedFor
  <2>4. QED
    BY <2>2, <2>3
<1>11. QED
  BY <1>3, <1>5, <1>6, <1>7, <1>8, <1>9, <1>10 DEF Inv

(* An invocation that moves on within its delivery, or ends, keeps what the      *)
(* invariant says of the invocations and of the orders.                          *)
LEMMA WorkerMoves ==
  ASSUME Inv, NEW w \in Worker, worker[w] \in Delivery, NEW d \in Delivery \cup {Idle, Dead},
         worker' = [worker EXCEPT ![w] = d],
         d \in Delivery => d.event = worker[w].event /\ d.withdrawn = worker[w].withdrawn,
         d.step = "sending" => ~ d.withdrawn,
         order' = order
  PROVE  /\ WorkersTyped' /\ ReadyWasPaid' /\ WithdrawnStays' /\ WithdrawnIsSilent'
         /\ \A v \in Worker : worker'[v].step \in
              {"idle", "dead", "claimed", "sending", "sent", "failed"}
<1>1. WorkersTyped'
  BY DEF Inv, WorkersTyped
<1>2. \A v \in Worker : worker'[v].step \in
        {"idle", "dead", "claimed", "sending", "sent", "failed"}
  BY <1>1 DEF WorkersTyped, Delivery, Idle, Dead
<1>3. ReadyWasPaid'
  BY DEF Inv, ReadyWasPaid
<1>4. WithdrawnStays'
  <2> SUFFICES ASSUME NEW v \in Worker, worker'[v] \in Delivery, worker'[v].withdrawn
               PROVE  Withdrawn(worker[v].event)'
    BY DEF WithdrawnStays
  <2>1. CASE v = w
    <3>1. /\ worker'[v] = d /\ d.event = worker[w].event
          /\ worker[w].withdrawn
      BY <2>1 DEF Inv, WorkersTyped
    <3>2. Withdrawn(worker[w].event)
      BY <3>1 DEF Inv, WithdrawnStays
    <3>3. QED
      BY <3>1, <3>2 DEF Withdrawn
  <2>2. CASE v # w
    <3>1. worker'[v] = worker[v]
      BY <2>2 DEF Inv, WorkersTyped
    <3>2. QED
      BY <3>1 DEF Inv, WithdrawnStays, Withdrawn
  <2>3. QED
    BY <2>1, <2>2
<1>5. WithdrawnIsSilent'
  BY DEF Inv, WorkersTyped, WithdrawnIsSilent
<1>6. QED
  BY <1>1, <1>2, <1>3, <1>4, <1>5

(* While the events stay put, so does what the invariant says of them alone.     *)
LEMMA EventsKept ==
  ASSUME Inv, event' = event
  PROVE  /\ event' \in [Event -> EventRow]
         /\ ClosedIsUnclaimed' /\ DeadMeansExhausted'
         /\ \A e \in Event : Reserve(e)' = Reserve(e)
BY DEF Inv, TypeOK, ClosedIsUnclaimed, DeadMeansExhausted, Reserve, Grantable

(* An invocation that does not become a sender leaves every event's account      *)
(* covered, if the event's share did not shrink and its reserve did not grow     *)
(* by more than the share.                                                       *)
LEMMA AccountKept ==
  ASSUME Inv, NEW w \in Worker, NEW d,
         worker' = [worker EXCEPT ![w] = d],
         d.step \in {"claimed", "sending"} =>
             worker[w].step \in {"claimed", "sending"} /\ d.event = worker[w].event,
         \A e \in Event : /\ spare'[e] \in Int
                          /\ Reserve(e)' - Reserve(e) <= spare'[e] - spare[e]
  PROVE  DeliveriesReserved'
<1> SUFFICES ASSUME NEW e \in Event
             PROVE  /\ IsFiniteSet(Senders(e))'
                    /\ spare'[e] >= Cardinality(Senders(e)') + Reserve(e)'
  BY DEF DeliveriesReserved
<1>1. /\ IsFiniteSet(Senders(e)')
      /\ Cardinality(Senders(e)') <= Cardinality(Senders(e))
  BY SendersShrink, ReservedFor DEF Inv
<1>2. Cardinality(Senders(e)') \in Nat
  BY <1>1, FS_CardinalityType
<1>3. Reserve(e) \in {0, 1} /\ Reserve(e)' \in {0, 1}
  BY DEF Reserve
<1>4. QED
  BY <1>1, <1>2, <1>3, ReservedFor

(* A sender that leaves takes at most its own unit along.                        *)
LEMMA SenderSpends ==
  ASSUME Inv, NEW w \in Worker, worker[w] \in Delivery, worker[w].step = "sending",
         NEW d, worker' = [worker EXCEPT ![w] = d], d.step \notin {"claimed", "sending"},
         event' = event,
         spare' = [spare EXCEPT ![worker[w].event] = @ - 1]
  PROVE  DeliveriesReserved'
<1> SUFFICES ASSUME NEW e \in Event
             PROVE  /\ IsFiniteSet(Senders(e))'
                    /\ spare'[e] >= Cardinality(Senders(e)') + Reserve(e)'
  BY DEF DeliveriesReserved
<1>1. Reserve(e)' = Reserve(e) /\ Reserve(e) \in {0, 1}
  BY EventsKept DEF Reserve
<1>2. CASE e = worker[w].event
  <2>1. w \in Senders(e)
    BY <1>2 DEF Senders
  <2>2. /\ IsFiniteSet(Senders(e)')
        /\ Cardinality(Senders(e)') = Cardinality(Senders(e)) - 1
    BY <2>1, SenderLeaves, ReservedFor DEF Inv
  <2>3. spare'[e] = spare[e] - 1
    BY <1>2 DEF Inv, TypeOK
  <2>4. QED
    BY <1>1, <2>2, <2>3, ReservedFor
<1>3. CASE e # worker[w].event
  <2>1. Senders(e)' = Senders(e)
    BY <1>3 DEF Inv, WorkersTyped, Senders
  <2>2. spare'[e] = spare[e]
    BY <1>3 DEF Inv, TypeOK
  <2>3. QED
    BY <1>1, <2>1, <2>2, ReservedFor
<1>4. QED
  BY <1>2, <1>3

(* The order is read again before the message is sent. *)
LEMMA RecheckKeeps ==
  ASSUME Inv, NEW w \in Worker, Recheck(w)
  PROVE  Inv'
<1> DEFINE step == IF Eligible(worker[w].event) THEN "sending" ELSE "sent"
           d == [worker[w] EXCEPT !.step = step]
<1>1. worker[w].step = "claimed" /\ worker[w] \in Delivery /\ worker[w].event \in Event
  BY BusyIsDelivery DEF Inv, Recheck
<1>2. worker' = [worker EXCEPT ![w] = d]
  BY DEF Recheck
<1>3. /\ d \in Delivery /\ d.event = worker[w].event
      /\ d.withdrawn = worker[w].withdrawn /\ d.step = step
  BY <1>1 DEF Delivery
<1>4. d.step = "sending" => ~ d.withdrawn
  <2>1. step = "sending" => ~ Withdrawn(worker[w].event)
    BY <1>1, EligibleIsNotWithdrawn DEF Inv
  <2>2. worker[w].withdrawn => Withdrawn(worker[w].event)
    BY <1>1 DEF Inv, WithdrawnStays
  <2>3. QED
    BY <1>3, <2>1, <2>2
<1> HIDE DEF d
<1>5. /\ WorkersTyped' /\ ReadyWasPaid' /\ WithdrawnStays' /\ WithdrawnIsSilent'
      /\ \A v \in Worker : worker'[v].step \in
           {"idle", "dead", "claimed", "sending", "sent", "failed"}
  BY <1>1, <1>2, <1>3, <1>4, WorkerMoves DEF Recheck
<1>6. TypeOK' /\ ClosedIsUnclaimed' /\ DeadMeansExhausted'
  BY <1>5, EventsKept DEF Inv, TypeOK, Recheck
<1>7. DeliveriesReserved'
  <2>1. \A e \in Event : /\ spare'[e] \in Int
                         /\ Reserve(e)' - Reserve(e) <= spare'[e] - spare[e]
    BY EventsKept DEF Inv, TypeOK, Recheck, Reserve
  <2>2. QED
    BY <1>1, <1>2, <1>3, <2>1, AccountKept
<1>8. QED
  BY <1>5, <1>6, <1>7 DEF Inv

(* Meta accepted the message: the sender spends its unit. *)
LEMMA SendKeeps ==
  ASSUME Inv, NEW w \in Worker, Send(w)
  PROVE  Inv'
<1> DEFINE d == [worker[w] EXCEPT !.step = "sent"]
<1>1. worker[w].step = "sending" /\ worker[w] \in Delivery /\ worker[w].event \in Event
  BY BusyIsDelivery DEF Inv, Send
<1>2. worker' = [worker EXCEPT ![w] = d]
  BY DEF Send
<1>3. /\ d \in Delivery /\ d.event = worker[w].event
      /\ d.withdrawn = worker[w].withdrawn /\ d.step = "sent"
  BY <1>1 DEF Delivery
<1> HIDE DEF d
<1>4. /\ WorkersTyped' /\ ReadyWasPaid' /\ WithdrawnStays' /\ WithdrawnIsSilent'
      /\ \A v \in Worker : worker'[v].step \in
           {"idle", "dead", "claimed", "sending", "sent", "failed"}
  BY <1>1, <1>2, <1>3, WorkerMoves DEF Send
<1>5. TypeOK' /\ ClosedIsUnclaimed' /\ DeadMeansExhausted'
  <2>1. spare' \in [Event -> Int]
    BY <1>1 DEF Inv, TypeOK, Send
  <2>2. QED
    BY <1>4, <2>1, EventsKept DEF Inv, TypeOK, Send
<1>6. DeliveriesReserved'
  BY <1>1, <1>2, <1>3, SenderSpends DEF Send
<1>7. QED
  BY <1>4, <1>5, <1>6 DEF Inv

(* An error, on either side of Meta's acceptance. *)
LEMMA FailKeeps ==
  ASSUME Inv, NEW w \in Worker, Fail(w)
  PROVE  Inv'
<1> DEFINE d == [worker[w] EXCEPT !.step = "failed"]
<1>1. worker[w] \in Delivery /\ worker[w].event \in Event
  BY BusyIsDelivery DEF Inv, Fail
<1>2. worker' = [worker EXCEPT ![w] = d]
  BY DEF Fail
<1>3. /\ d \in Delivery /\ d.event = worker[w].event
      /\ d.withdrawn = worker[w].withdrawn /\ d.step = "failed"
  BY <1>1 DEF Delivery
<1> HIDE DEF d
<1>4. /\ WorkersTyped' /\ ReadyWasPaid' /\ WithdrawnStays' /\ WithdrawnIsSilent'
      /\ \A v \in Worker : worker'[v].step \in
           {"idle", "dead", "claimed", "sending", "sent", "failed"}
  BY <1>1, <1>2, <1>3, WorkerMoves DEF Fail
<1>5. \/ spare' = spare
      \/ /\ worker[w].step = "sending"
         /\ spare' = [spare EXCEPT ![worker[w].event] = @ - 1]
  BY DEF Fail
<1>6. TypeOK' /\ ClosedIsUnclaimed' /\ DeadMeansExhausted'
  <2>1. spare' \in [Event -> Int]
    BY <1>1, <1>5 DEF Inv, TypeOK
  <2>2. QED
    BY <1>4, <2>1, EventsKept DEF Inv, TypeOK, Fail
<1>7. DeliveriesReserved'
  <2>1. CASE spare' = spare
    <3>1. \A e \in Event : /\ spare'[e] \in Int
                           /\ Reserve(e)' - Reserve(e) <= spare'[e] - spare[e]
      BY <2>1, EventsKept DEF Inv, TypeOK, Fail, Reserve
    <3>2. QED
      BY <1>2, <1>3, <3>1, AccountKept
  <2>2. CASE /\ worker[w].step = "sending"
             /\ spare' = [spare EXCEPT ![worker[w].event] = @ - 1]
    BY <1>1, <1>2, <1>3, <2>2, SenderSpends DEF Fail
  <2>3. QED
    BY <1>5, <2>1, <2>2
<1>8. QED
  BY <1>4, <1>6, <1>7 DEF Inv

(* An invocation whose process ends may deliver no more. *)
LEMMA CrashKeeps ==
  ASSUME Inv, NEW w \in Worker, Crash(w)
  PROVE  Inv'
<1>1. worker[w] \in Delivery
  BY DEF Inv, WorkersTyped, Crash
<1>2. worker' = [worker EXCEPT ![w] = Dead] /\ Dead \notin Delivery /\ Dead.step = "dead"
  BY DEF Crash, Dead, Delivery
<1>3. /\ WorkersTyped' /\ ReadyWasPaid' /\ WithdrawnStays' /\ WithdrawnIsSilent'
      /\ \A v \in Worker : worker'[v].step \in
           {"idle", "dead", "claimed", "sending", "sent", "failed"}
  BY <1>1, <1>2, WorkerMoves DEF Crash
<1>4. TypeOK' /\ ClosedIsUnclaimed' /\ DeadMeansExhausted'
  BY <1>3, EventsKept DEF Inv, TypeOK, Crash
<1>5. DeliveriesReserved'
  <2>1. \A e \in Event : /\ spare'[e] \in Int
                         /\ Reserve(e)' - Reserve(e) <= spare'[e] - spare[e]
    BY EventsKept DEF Inv, TypeOK, Crash, Reserve
  <2>2. QED
    BY <1>2, <2>1, AccountKept
<1>6. QED
  BY <1>3, <1>4, <1>5 DEF Inv

(* What publication and release write: nothing unless the claim is still the     *)
(* invocation's own, and then a row without a claim.                             *)
LEMMA ClosingOwnClaim ==
  ASSUME Inv, NEW w \in Worker, NEW e \in Event
  PROVE  /\ event[e].claimedBy # w => /\ Published(event[e], w) = event[e]
                                      /\ Released(event[e], w) = event[e]
         /\ event[e].claimedBy = w =>
              /\ event[e].status = "queued"
              /\ Published(event[e], w).status = "published"
              /\ Released(event[e], w).status =
                   IF event[e].attempts >= MaxAttempts THEN "dead" ELSE "queued"
              /\ Released(event[e], w).attempts = event[e].attempts
              /\ \A r \in {Published(event[e], w), Released(event[e], w)} :
                   r.claimedBy = NoWorker /\ r.lease = "null"
<1>1. CASE event[e].claimedBy # w
  BY <1>1 DEF Published, Released
<1>2. CASE event[e].claimedBy = w
  <2>1. event[e] \in EventRow /\ event[e].status = "queued"
    BY <1>2, NoWorkerAssumption DEF Inv, TypeOK, ClosedIsUnclaimed
  <2>2. /\ Published(event[e], w).status = "published"
        /\ Published(event[e], w).claimedBy = NoWorker
        /\ Published(event[e], w).lease = "null"
    BY <1>2, <2>1 DEF Published, EventRow
  <2>3. /\ Released(event[e], w).status =
             IF event[e].attempts >= MaxAttempts THEN "dead" ELSE "queued"
        /\ Released(event[e], w).attempts = event[e].attempts
        /\ Released(event[e], w).claimedBy = NoWorker
        /\ Released(event[e], w).lease = "null"
    BY <1>2, <2>1 DEF Released, EventRow
  <2>4. QED
    BY <1>2, <2>1, <2>2, <2>3
<1>3. QED
  BY <1>1, <1>2

(* The event is closed by the invocation that still holds it. *)
LEMMA PublishKeeps ==
  ASSUME Inv, NEW w \in Worker, Publish(w)
  PROVE  Inv'
<1> DEFINE e == worker[w].event
<1>1. worker[w] \in Delivery /\ e \in Event
  BY BusyIsDelivery DEF Inv, Publish
<1>2. /\ worker' = [worker EXCEPT ![w] = Idle] /\ Idle \notin Delivery /\ Idle.step = "idle"
      /\ event' = [event EXCEPT ![e] = Published(event[e], w)]
  BY DEF Publish, Idle, Delivery
<1> HIDE DEF e
<1>3. /\ WorkersTyped' /\ ReadyWasPaid' /\ WithdrawnStays' /\ WithdrawnIsSilent'
      /\ \A v \in Worker : worker'[v].step \in
           {"idle", "dead", "claimed", "sending", "sent", "failed"}
  BY <1>1, <1>2, WorkerMoves DEF Publish
<1>4. TypeOK'
  <2>1. event' \in [Event -> EventRow]
    BY <1>1, <1>2, RowType DEF Inv, TypeOK
  <2>2. QED
    BY <1>3, <2>1 DEF Inv, TypeOK, Publish
<1>5. ClosedIsUnclaimed' /\ DeadMeansExhausted'
  <2>1. \A f \in Event \ {e} : event'[f] = event[f]
    BY <1>2 DEF Inv, TypeOK
  <2>2. event'[e] = Published(event[e], w)
    BY <1>1, <1>2 DEF Inv, TypeOK
  <2>3. QED
    BY <1>1, <2>1, <2>2, ClosingOwnClaim DEF Inv, ClosedIsUnclaimed, DeadMeansExhausted
<1>6. DeliveriesReserved'
  <2>1. ASSUME NEW f \in Event
        PROVE  /\ spare'[f] \in Int
               /\ Reserve(f)' - Reserve(f) <= spare'[f] - spare[f]
    <3>1. spare'[f] = spare[f] /\ spare[f] \in Int
      BY DEF Inv, TypeOK, Publish
    <3>2. event'[f] = event[f] \/ event'[f].status = "published"
      BY <1>1, <1>2, ClosingOwnClaim DEF Inv, TypeOK
    <3>3. Reserve(f)' <= Reserve(f)
      BY <3>2 DEF Reserve, Grantable
    <3>4. Reserve(f) \in {0, 1} /\ Reserve(f)' \in {0, 1}
      BY DEF Reserve
    <3>5. QED
      BY <3>1, <3>3, <3>4
  <2>2. QED
    BY <1>2, <2>1, AccountKept
<1>7. QED
  BY <1>3, <1>4, <1>5, <1>6 DEF Inv

(* The catch block: a unit comes with the event that may be claimed again. *)
LEMMA ReleaseKeeps ==
  ASSUME Inv, NEW w \in Worker, Release(w)
  PROVE  Inv'
<1> DEFINE e == worker[w].event
<1>1. worker[w] \in Delivery /\ e \in Event
  BY BusyIsDelivery DEF Inv, Release
<1>2. /\ worker' = [worker EXCEPT ![w] = Idle] /\ Idle \notin Delivery /\ Idle.step = "idle"
      /\ event' = [event EXCEPT ![e] = Released(event[e], w)]
      /\ spare' = [spare EXCEPT ![e] = spare[e] + 1]
  BY DEF Release, Idle, Delivery
<1> HIDE DEF e
<1>3. /\ WorkersTyped' /\ ReadyWasPaid' /\ WithdrawnStays' /\ WithdrawnIsSilent'
      /\ \A v \in Worker : worker'[v].step \in
           {"idle", "dead", "claimed", "sending", "sent", "failed"}
  BY <1>1, <1>2, WorkerMoves DEF Release
<1>4. TypeOK'
  <2>1. event' \in [Event -> EventRow]
    BY <1>1, <1>2, RowType DEF Inv, TypeOK
  <2>2. spare' \in [Event -> Int]
    BY <1>1, <1>2 DEF Inv, TypeOK
  <2>3. QED
    BY <1>3, <2>1, <2>2 DEF Inv, TypeOK, Release
<1>5. ClosedIsUnclaimed' /\ DeadMeansExhausted'
  <2>1. \A f \in Event \ {e} : event'[f] = event[f]
    BY <1>2 DEF Inv, TypeOK
  <2>2. event'[e] = Released(event[e], w) /\ event[e].attempts \in Nat
    BY <1>1, <1>2 DEF Inv, TypeOK, EventRow
  <2>3. QED
    BY <1>1, <2>1, <2>2, ClosingOwnClaim, MaxAttemptsAssumption
    DEF Inv, ClosedIsUnclaimed, DeadMeansExhausted
<1>6. DeliveriesReserved'
  <2>1. ASSUME NEW f \in Event
        PROVE  /\ spare'[f] \in Int
               /\ Reserve(f)' - Reserve(f) <= spare'[f] - spare[f]
    <3>1. Reserve(f) \in {0, 1} /\ Reserve(f)' \in {0, 1}
      BY DEF Reserve
    <3>2. CASE f = e
      BY <1>1, <1>2, <3>1, <3>2 DEF Inv, TypeOK
    <3>3. CASE f # e
      <4>1. spare'[f] = spare[f] /\ spare[f] \in Int /\ event'[f] = event[f]
        BY <1>2, <3>3 DEF Inv, TypeOK
      <4>2. Reserve(f)' = Reserve(f)
        BY <4>1 DEF Reserve, Grantable
      <4>3. QED
        BY <3>1, <4>1, <4>2
    <3>4. QED
      BY <3>2, <3>3
  <2>2. QED
    BY <1>2, <2>1, AccountKept
<1>7. QED
  BY <1>3, <1>4, <1>5, <1>6 DEF Inv

-----------------------------------------------------------------------------
(* The theorems *)

(* Every step of the jobs, of the orders and of the clock keeps the invariant. *)
LEMMA InvNext == Inv /\ [Next]_vars => Inv'
<1> SUFFICES ASSUME Inv, [Next]_vars PROVE Inv'
  OBVIOUS
<1>1. ASSUME NEW e \in Event, Append(e) PROVE Inv'
  BY <1>1, AppendKeeps
<1>2. ASSUME NEW e \in Event, OrderChanges(e) PROVE Inv'
  BY <1>2, OrderChangesKeeps
<1>3. ASSUME NEW e \in Event, LeaseExpires(e) PROVE Inv'
  BY <1>3, LeaseExpiresKeeps
<1>4. ASSUME NEW e \in Event, PauseEnds(e) PROVE Inv'
  BY <1>4, PauseEndsKeeps
<1>5. CASE PhoneChanges
  BY <1>5, PhoneChangesKeeps
<1>6. ASSUME NEW w \in Worker, NEW e \in Event, ClaimEvent(w, e) PROVE Inv'
  BY <1>6, ClaimKeeps
<1>7. ASSUME NEW w \in Worker, Recheck(w) PROVE Inv'
  BY <1>7, RecheckKeeps
<1>8. ASSUME NEW w \in Worker, Send(w) PROVE Inv'
  BY <1>8, SendKeeps
<1>9. ASSUME NEW w \in Worker, Fail(w) PROVE Inv'
  BY <1>9, FailKeeps
<1>10. ASSUME NEW w \in Worker, Publish(w) PROVE Inv'
  BY <1>10, PublishKeeps
<1>11. ASSUME NEW w \in Worker, Release(w) PROVE Inv'
  BY <1>11, ReleaseKeeps
<1>12. ASSUME NEW w \in Worker, Crash(w) PROVE Inv'
  BY <1>12, CrashKeeps
<1>13. CASE UNCHANGED vars
  <2>1. UNCHANGED <<order, worker>> /\ event' = event
    BY <1>13 DEF vars
  <2>2. ReadyWasPaid' /\ WorkersTyped' /\ WithdrawnStays' /\ WithdrawnIsSilent'
    BY <2>1, WithdrawnKept
  <2>3. TypeOK' /\ ClosedIsUnclaimed' /\ DeadMeansExhausted'
    BY <1>13, <2>1, EventsKept DEF Inv, TypeOK, vars
  <2>4. DeliveriesReserved'
    BY <1>13, SendersUnchanged DEF Inv, vars, DeliveriesReserved, Reserve, Grantable
  <2>5. QED
    BY <2>2, <2>3, <2>4 DEF Inv
<1>14. QED
  BY <1>1, <1>2, <1>3, <1>4, <1>5, <1>6, <1>7, <1>8, <1>9, <1>10, <1>11, <1>12, <1>13
  DEF Next

(* The inductive invariant holds in every reachable state. *)
THEOREM InvAlways == Spec => []Inv
BY InvInit, InvNext, PTL DEF Spec

(* For every set of invocations: the rows keep their shapes, no message is on    *)
(* its way for an order that had given it up at the claim, and an event is given *)
(* up exactly when its attempts are spent.                                       *)
THEOREM EventsAgreeAlways == Spec => []EventsAgree
<1>1. Inv => EventsAgree
  BY DEF Inv, EventsAgree
<1>2. QED
  BY <1>1, InvAlways, PTL

(* Overlapping invocations of dispatchReadyWhatsApp and dispatchOwnerCashWhatsApp *)
(* never repeat a message without an expired lease or an error in between.        *)
THEOREM RepeatNeedsTroubleAlways == Spec => []RepeatNeedsTrouble
<1>1. Inv => RepeatNeedsTrouble
  <2> SUFFICES ASSUME Inv, NEW e \in Event PROVE spare[e] >= 0
    BY DEF RepeatNeedsTrouble
  <2>1. QED
    BY ReservedFor
<1>2. QED
  BY <1>1, InvAlways, PTL

(* No step of any invocation, however late, touches an event that was published  *)
(* or given up.                                                                  *)
LEMMA ClosedStaysClosed ==
  ASSUME Inv, [Next]_vars, NEW e \in Event, event[e].status \in {"published", "dead"}
  PROVE  event'[e] = event[e]
<1>1. event[e].claimedBy = NoWorker /\ event[e].lease = "null" /\ event[e] # NoEvent
  BY DEF Inv, ClosedIsUnclaimed, NoEvent
<1>2. ASSUME NEW f \in Event, Append(f) \/ LeaseExpires(f) \/ PauseEnds(f)
      PROVE  event'[e] = event[e]
  BY <1>1, <1>2 DEF Inv, TypeOK, Append, LeaseExpires, PauseEnds
<1>3. ASSUME NEW w \in Worker, NEW f \in Event, ClaimEvent(w, f)
      PROVE  event'[e] = event[e]
  BY <1>1, <1>3 DEF Inv, TypeOK, ClaimEvent, Candidate
<1>4. ASSUME NEW w \in Worker, Publish(w) \/ Release(w)
      PROVE  event'[e] = event[e]
  <2>1. event[e].claimedBy # w
    BY <1>1, NoWorkerAssumption
  <2>2. Published(event[e], w) = event[e] /\ Released(event[e], w) = event[e]
    BY <2>1, ClosingOwnClaim
  <2>3. QED
    BY <1>4, <2>2 DEF Inv, TypeOK, Publish, Release
<1>5. CASE event' = event
  BY <1>5
<1>6. QED
  BY <1>2, <1>3, <1>4, <1>5
  DEF Next, vars, OrderChanges, PhoneChanges, Recheck, Send, Fail, Crash

(* An event that was published or given up is final, whoever comes back late:    *)
(* the step part of QueuedIsClosed.                                              *)
THEOREM ClosedIsFinalAlways == Spec => ClosedIsFinal
<1>1. Inv /\ [Next]_vars =>
        [\A e \in Event : event[e].status \in {"published", "dead"} =>
            event'[e] = event[e]]_vars
  BY ClosedStaysClosed
<1>2. QED
  BY <1>1, InvAlways, PTL DEF Spec, ClosedIsFinal

=============================================================================

--------------------------- MODULE WhatsAppOutbox ---------------------------
(***************************************************************************)
(* The two cron jobs that send WhatsApp messages from outbox_events:       *)
(* dispatchReadyWhatsApp tells a customer that the order is ready and      *)
(* dispatchOwnerCashWhatsApp tells an Express owner of a pending cash      *)
(* order.  Each message is three transactions around one call to Meta:     *)
(* claim the event for 60 seconds, read the order again, send, then        *)
(* publish the event or, after any error, release it for five minutes.     *)
(* Invocations of the jobs overlap, and each dies when its process does.   *)
(*                                                                         *)
(* The clock is abstracted to the comparisons of the claim: a lease is     *)
(* live or expired, an event is available or not yet.                      *)
(***************************************************************************)
EXTENDS Integers, FiniteSets

CONSTANTS
    ReadyEvent,   \* sequence numbers of order.whatsapp_ready events
    OwnerEvent,   \* and of order.whatsapp_owner_cash_pending events
    Worker,       \* invocations; each has a fresh workerId, so a dead one stays dead
    MaxAttempts,  \* attempts before an event goes to the dead letters: 5
    MaxSlow,      \* bound: leases that run out on a living worker
    NoWorker      \* claimed_by IS NULL

ASSUME EventAssumption == /\ ReadyEvent \subseteq Nat /\ OwnerEvent \subseteq Nat
                          /\ ReadyEvent \intersect OwnerEvent = {}
ASSUME MaxAttemptsAssumption == MaxAttempts \in Nat \ {0}
ASSUME MaxSlowAssumption == MaxSlow \in Nat
ASSUME NoWorkerAssumption == NoWorker \notin Worker

Event == ReadyEvent \union OwnerEvent

VARIABLES
    event,    \* outbox_events rows
    order,    \* what the jobs read of the order of each event
    phone,    \* tenant_settings.owner_cash_alert_whatsapp_phone is set
    worker,   \* where each invocation is
    spare,    \* deliveries of each event that would be explained: one, one more for
              \* each lease that expired and each claim that ended in the catch
              \* block, less the messages Meta delivered
    slow      \* how many leases have run out on a living worker

vars == <<event, order, phone, worker, spare, slow>>

-----------------------------------------------------------------------------

EventRow == [status : {"none", "queued", "published", "dead"}, attempts : Nat,
             claimedBy : Worker \union {NoWorker},
             lease : {"null", "live", "expired"}, available : BOOLEAN]

NoEvent == [status |-> "none", attempts |-> 0, claimedBy |-> NoWorker,
            lease |-> "null", available |-> FALSE]

OrderView == [payment : {"pending", "paid", "refunded"}, cancelled : BOOLEAN]

Idle == [step |-> "idle"]
Dead == [step |-> "dead"]

\* The row a customer's "ready" message and an owner's alert are queued with.
QueuedOrder(e) ==
    [payment |-> IF e \in ReadyEvent THEN "paid" ELSE "pending", cancelled |-> FALSE]

Init ==
    /\ event = [e \in Event |-> NoEvent]
    /\ order = [e \in Event |-> QueuedOrder(e)]
    /\ phone = TRUE
    /\ worker = [w \in Worker |-> Idle]
    /\ spare = [e \in Event |-> 1]
    /\ slow = 0

-----------------------------------------------------------------------------
(* The rules of the jobs, each preceded by the slips it must not be. *)

CandidateLeased(r) == r.status = "queued" /\ r.available

CandidateWithoutExpiry(r) ==
    r.status = "queued" /\ r.available /\ r.lease = "null"

\* The candidate query of both jobs.
Candidate(r) ==
    r.status = "queued" /\ r.available /\ r.lease \in {"null", "expired"}

ReadyEligible(o) == o.payment = "paid" /\ ~ o.cancelled

\* The recheck of dispatchOwnerCashWhatsApp; the preset does not change.
OwnerEligible(o) == phone /\ o.payment = "pending" /\ ~ o.cancelled

TrustTheQueue(e) == TRUE

Eligible(e) ==
    IF e \in ReadyEvent THEN ReadyEligible(order[e]) ELSE OwnerEligible(order[e])

Claimed(r, w) == [r EXCEPT !.claimedBy = w, !.lease = "live", !.attempts = @ + 1]

\* UPDATE ... SET published_at = now() WHERE claimed_by = workerId
Published(r, w) ==
    IF r.claimedBy = w
    THEN [r EXCEPT !.status = "published", !.claimedBy = NoWorker, !.lease = "null"]
    ELSE r

\* The catch block: five minutes' pause, dead letter at the last attempt.
Released(r, w) ==
    IF r.claimedBy = w
    THEN [r EXCEPT !.claimedBy = NoWorker, !.lease = "null", !.available = FALSE,
                   !.status = IF r.attempts >= MaxAttempts THEN "dead" ELSE @]
    ELSE r

-----------------------------------------------------------------------------
(* The environment: orders change and so does the owner's phone number. *)

\* appendOutboxEvent, in the transaction of the transition or of the creation;
\* the counter row hands out the sequence numbers in the order of the commits.
Append(e) ==
    /\ event[e] = NoEvent
    /\ \A f \in Event : f < e => event[f] # NoEvent
    /\ Eligible(e)
    /\ event' = [event EXCEPT ![e].status = "queued", ![e].available = TRUE]
    /\ UNCHANGED <<order, phone, worker, spare, slow>>

\* Collecting, refunding or cancelling the order once its event is queued.
OrderChanges(e) ==
    /\ event[e] # NoEvent
    /\ ~ order[e].cancelled
    /\ \/ order[e].payment = "pending" /\ order' = [order EXCEPT ![e].payment = "paid"]
       \/ order[e].payment = "pending" /\ order' = [order EXCEPT ![e].cancelled = TRUE]
       \/ /\ order[e].payment = "paid"
          /\ order' = [order EXCEPT ![e] = [payment |-> "refunded", cancelled |-> TRUE]]
    /\ UNCHANGED <<event, phone, worker, spare, slow>>

PhoneChanges ==
    /\ phone' = ~ phone
    /\ UNCHANGED <<event, order, worker, spare, slow>>

LeaseExpires(e) ==
    /\ event[e].lease = "live"
    /\ \/ worker[event[e].claimedBy] = Dead /\ UNCHANGED slow
       \/ worker[event[e].claimedBy] # Dead /\ slow < MaxSlow /\ slow' = slow + 1
    /\ event' = [event EXCEPT ![e].lease = "expired"]
    /\ spare' = [spare EXCEPT ![e] = @ + 1]
    /\ UNCHANGED <<order, phone, worker>>

\* available_at <= now()
PauseEnds(e) ==
    /\ event[e].status = "queued"
    /\ ~ event[e].available
    /\ event' = [event EXCEPT ![e].available = TRUE]
    /\ UNCHANGED <<order, phone, worker, spare, slow>>

-----------------------------------------------------------------------------
(* One pass of the job's loop. *)

\* The events of e's job; each job sees its own event_type only.
Peers(e) == IF e \in ReadyEvent THEN ReadyEvent ELSE OwnerEvent

\* The order gave the message up for good: collected, refunded or cancelled.
Withdrawn(e) == order[e] # QueuedOrder(e)

\* ORDER BY sequence LIMIT 1: one statement.  withdrawn remembers, for the
\* property WithdrawnIsSilent, whether the order had given the message up.
ClaimEvent(w, e) ==
    /\ worker[w] = Idle
    /\ Candidate(event[e])
    /\ \A f \in Peers(e) : Candidate(event[f]) => e <= f
    /\ event' = [event EXCEPT ![e] = Claimed(@, w)]
    /\ worker' = [worker EXCEPT ![w] = [step |-> "claimed", event |-> e,
                                        withdrawn |-> Withdrawn(e)]]
    /\ UNCHANGED <<order, phone, spare, slow>>

\* The order is read again; a message without a reason goes straight to publish.
Recheck(w) ==
    /\ worker[w].step = "claimed"
    /\ worker' = [worker EXCEPT ![w].step =
                     IF Eligible(worker[w].event) THEN "sending" ELSE "sent"]
    /\ UNCHANGED <<event, order, phone, spare, slow>>

\* Meta accepted the message and the answer arrived.
Send(w) ==
    /\ worker[w].step = "sending"
    /\ spare' = [spare EXCEPT ![worker[w].event] = @ - 1]
    /\ worker' = [worker EXCEPT ![w].step = "sent"]
    /\ UNCHANGED <<event, order, phone, slow>>

\* An error of a read, of the call (delivered or not) or of the publication.
Fail(w) ==
    /\ worker[w].step \in {"claimed", "sending", "sent"}
    /\ spare' \in IF worker[w].step = "sending"
                  THEN {spare, [spare EXCEPT ![worker[w].event] = @ - 1]}
                  ELSE {spare}
    /\ worker' = [worker EXCEPT ![w].step = "failed"]
    /\ UNCHANGED <<event, order, phone, slow>>

Publish(w) ==
    /\ worker[w].step = "sent"
    /\ event' = [event EXCEPT ![worker[w].event] = Published(@, w)]
    /\ worker' = [worker EXCEPT ![w] = Idle]
    /\ UNCHANGED <<order, phone, spare, slow>>

Release(w) ==
    /\ worker[w].step = "failed"
    /\ event' = [event EXCEPT ![worker[w].event] = Released(@, w)]
    /\ spare' = [spare EXCEPT ![worker[w].event] = @ + 1]
    /\ worker' = [worker EXCEPT ![w] = Idle]
    /\ UNCHANGED <<order, phone, slow>>

\* The process ends, or the release itself fails; bound: one invocation lives on.
Crash(w) ==
    /\ worker[w] \notin {Idle, Dead}
    /\ \E v \in Worker \ {w} : worker[v] # Dead
    /\ worker' = [worker EXCEPT ![w] = Dead]
    /\ UNCHANGED <<event, order, phone, spare, slow>>

Next ==
    \/ \E e \in Event : Append(e) \/ OrderChanges(e) \/ LeaseExpires(e) \/ PauseEnds(e)
    \/ PhoneChanges
    \/ \E w \in Worker, e \in Event : ClaimEvent(w, e)
    \/ \E w \in Worker : \/ Recheck(w) \/ Send(w) \/ Fail(w)
                         \/ Publish(w) \/ Release(w) \/ Crash(w)

Spec == Init /\ [][Next]_vars

(***************************************************************************)
(* Fairness: the schedule keeps invoking the jobs and a living invocation  *)
(* goes on, with success or with an error; time passes.  Nothing is        *)
(* assumed of Meta, of the orders or of the owner.                         *)
(***************************************************************************)
FairSpec ==
    /\ Spec
    /\ \A w \in Worker :
         /\ WF_vars(\E e \in ReadyEvent : ClaimEvent(w, e))
         /\ WF_vars(\E e \in OwnerEvent : ClaimEvent(w, e))
         /\ WF_vars(Recheck(w) \/ Send(w) \/ Fail(w) \/ Publish(w) \/ Release(w))
    /\ \A e \in Event : WF_vars(LeaseExpires(e)) /\ WF_vars(PauseEnds(e))

-----------------------------------------------------------------------------
(* Properties *)

\* Events, the orders they tell of and the invocations keep their shapes.
TypeOK ==
    /\ event \in [Event -> EventRow]
    /\ order \in [Event -> OrderView]
    /\ phone \in BOOLEAN
    /\ \A w \in Worker : worker[w].step \in
         {"idle", "dead", "claimed", "sending", "sent", "failed"}
    /\ spare \in [Event -> Int]
    /\ slow \in 0 .. MaxSlow

\* Overlapping invocations do not repeat a message: a second delivery needs an
\* expired lease or an error after the first (Meta's answer or the publication
\* was lost).  The claim's lease test and SKIP LOCKED are what it rests on.
RepeatNeedsTrouble == \A e \in Event : spare[e] >= 0

\* An event that was published or given up is never touched again, not even by
\* an invocation whose lease expired long ago (WHERE claimed_by = workerId).
ClosedIsFinal ==
    [][\A e \in Event : event[e].status \in {"published", "dead"} =>
          event'[e] = event[e]]_vars

\* "dispatch rechecks the current phone, preset, payment and fulfillment status"
\* (README.md): when the order was collected, refunded or cancelled before the
\* claim, no message is on its way, however long the event waited or was retried.
WithdrawnIsSilent ==
    \A w \in Worker : worker[w].step = "sending" => ~ worker[w].withdrawn

\* An event reaches the dead letters only after all its attempts, and one that
\* was claimed for the last time with an error does not stay in the queue.
DeadMeansExhausted ==
    \A e \in Event :
        /\ event[e].status = "dead" => event[e].attempts >= MaxAttempts
        /\ event[e].status = "queued" /\ event[e].claimedBy = NoWorker
             => event[e].attempts < MaxAttempts

\* The queue keeps its word to the customer and to the owner: no message for an
\* order that was settled in the meantime, no event given up early or kept past
\* its attempts.
EventsAgree == TypeOK /\ WithdrawnIsSilent /\ DeadMeansExhausted

\* Every queued event leaves the queue for good, whoever crashes in the middle
\* of it and whoever comes back late.
QueuedIsClosed ==
    /\ \A e \in Event :
         event[e].status = "queued" ~> event[e].status \in {"published", "dead"}
    /\ ClosedIsFinal

=============================================================================

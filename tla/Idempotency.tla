---------------------------- MODULE Idempotency ----------------------------
(***************************************************************************)
(* lib/idempotency: what IdempotencyService makes of one row of            *)
(* idempotency_records.  The services differ in where they commit: most    *)
(* claim, act and complete in one transaction; PaymentSession commits the  *)
(* claim, calls the provider, and completes or fails it afterwards.        *)
(***************************************************************************)

CONSTANTS
    Body,      \* request bodies, told apart by hashIdempotencyRequest
    Response,  \* stored response bodies
    Nothing    \* a null column

RecordState == {"absent", "processing", "completed", "failed"}

\* lock: locked_until lies in the future ("held") or not ("free").
Record == [state : RecordState, hash : Body \union {Nothing},
           lock : {"held", "free"}, response : Response \union {Nothing}]

NoRecord == [state |-> "absent", hash |-> Nothing, lock |-> "free",
             response |-> Nothing]

\* Slip: the request hash is not compared.
OutcomeOfAnyBody(r, body) ==
  IF r.state = "absent" THEN "claimed"
  ELSE IF r.state = "completed" THEN "replayed"
  ELSE IF r.lock = "held" THEN "in_progress"
  ELSE "claimed"

\* claim: what the caller is told, in the order of the code's tests.
ClaimOutcome(r, body) ==
  IF r.state = "absent" THEN "claimed"
  ELSE IF r.hash # body THEN "conflict"
  ELSE IF r.state = "completed" THEN "replayed"
  ELSE IF r.lock = "held" THEN "in_progress"
  ELSE "claimed"

\* claim: the inserted row, or the row claimed again once its lock is free.
ClaimedRecord(r, body) ==
    [r EXCEPT !.state = "processing", !.hash = body, !.lock = "held"]

\* complete: by id, whatever the state; the lock is left as it is.
CompletedRecord(r, response) ==
    [r EXCEPT !.state = "completed", !.response = response]

\* fail: locked_until becomes the epoch, so that the key can be claimed at once.
FailedRecord(r) == [r EXCEPT !.state = "failed", !.lock = "free"]
=============================================================================

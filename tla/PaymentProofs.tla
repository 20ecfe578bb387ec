---------------------------- MODULE PaymentProofs ----------------------------
(***************************************************************************)
(* Proofs about PaymentSession for every set of carts, keys, bodies and    *)
(* requests, and about Storefront, the pages that ask for them, for every  *)
(* catalogue, any prices and any number of calls in flight.                *)
(*                                                                         *)
(* Payment sessions: the argument is about one key of one cart.  The       *)
(* transactions of prepare exclude each other (KeysHeldOnce), a committed  *)
(* request owns the attempt of its key (CommittedOwns), and until that     *)
(* attempt is turned down there is one request with a call to make and no  *)
(* answer yet (OneCaller).                                                 *)
(*                                                                         *)
(* Storefront: every cart the browser was told of is the server's cart at  *)
(* that version (Known), so the total a submission shows is the total its  *)
(* version has (ShowsTotal) and the server, which takes it at that version *)
(* only, charges it.  The totals are folds: FoldExists shows that a fold   *)
(* has running totals, and Climb goes up along them.                       *)
(*                                                                         *)
(* Quotes: Mercado Pago is asked for the subtotal less what the lines got  *)
(* of the discount (AskedIs).  Along the lines but the last that is the    *)
(* discount's part of their costs, up to half a cent a line                *)
(* (SpreadIsClose), and the last line takes the rest or what it costs.     *)
(***************************************************************************)
EXTENDS PaymentSession, Storefront, FiniteSetTheorems, SequenceTheorems,
        WellFoundedInduction, TLAPS

----------------------------------------------------------------------------
(* Payment sessions. *)

(* A request is idle, before or after its call, or has the provider's answer. *)
Open == [step : {"prepared", "calling", "failing"}, cart : Cart, key : Key, body : Body]
Called == [step : {"called"}, cart : Cart, key : Key, body : Body, response : Response]

RequestsTyped == request \in [Worker -> Open \cup Called \cup {Idle}]

(* Request w is about key k of cart c. *)
About(w, c, k) == request[w].cart = c /\ request[w].key = k

(* An attempt has a cart from its insertion on; one turned down is remembered. *)
AttemptsShaped ==
    \A k \in Key : /\ attempt[k].cart = Nothing <=> attempt[k].status = "none"
                   /\ attempt[k].status = "ended" => k \in ended

(* What is stored as an answer belongs to the attempt of its key, and a completed *)
(* record has one.                                                                *)
AnswersStored ==
    \A c \in Cart, k \in Key :
        /\ record[c][k].response # Nothing => attempt[k].cart = c
        /\ record[c][k].state = "completed" => record[c][k].response # Nothing

(* A key that was claimed keeps the body it was claimed with. *)
Bound(c, k, b) == record[c][k].state # "absent" /\ record[c][k].hash = b

CommittedOwns ==
    \A w \in Worker : request[w].step \in {"calling", "called", "failing"} =>
        /\ attempt[request[w].key].cart = request[w].cart
        /\ Bound(request[w].cart, request[w].key, request[w].body)

(* The open transaction of a key is alone, on an unclaimed record or one of its   *)
(* own body, and its cart has no attempt of the key that was not turned down.     *)
HeldBy(w, c, k) ==
    /\ \A v \in Worker : request[v].step = "prepared" /\ About(v, c, k) => v = w
    /\ record[c][k].state # "absent" => record[c][k].hash = request[w].body
    /\ k \notin ended => attempt[k].cart # c

KeysHeldOnce ==
    \A w \in Worker : request[w].step = "prepared" =>
        HeldBy(w, request[w].cart, request[w].key)

(* Until the attempt is turned down, one request calls for it, and before the     *)
(* answer is stored.                                                              *)
CallsAlone(w, c, k) ==
    k \notin ended =>
        /\ record[c][k].response = Nothing
        /\ \A v \in Worker :
             request[v].step \in {"calling", "called"} /\ About(v, c, k) => v = w

OneCaller ==
    \A w \in Worker : request[w].step \in {"calling", "called"} =>
        CallsAlone(w, request[w].cart, request[w].key)

(* Every answer was given to the body its key is bound to. *)
AnswersBound == \A x \in answers : Bound(x.cart, x.key, x.body)

(* The inductive invariant. *)
Inv == /\ TypeOK /\ RequestsTyped /\ AttemptsShaped /\ AnswersStored /\ CommittedOwns
       /\ KeysHeldOnce /\ OneCaller /\ AnswersBound /\ PayableHasAnswer

-----------------------------------------------------------------------------
(* Lemmas about requests and records *)

(* A request that is not idle has a cart, a key and a body. *)
LEMMA RequestType ==
  ASSUME RequestsTyped, NEW w \in Worker, request[w] # Idle
  PROVE  /\ request[w].cart \in Cart /\ request[w].key \in Key /\ request[w].body \in Body
         /\ request[w].step \in {"prepared", "calling", "called", "failing"}
         /\ request[w].step # "called" => request[w] \in Open
         /\ request[w].step = "called" =>
              request[w] \in Called /\ request[w].response \in Response
BY DEF RequestsTyped, Open, Called

(* A request at one of its steps is not idle, and an idle one is at none. *)
LEMMA StepNotIdle ==
  ASSUME NEW w \in Worker
  PROVE  /\ request[w].step \in {"prepared", "calling", "called", "failing"} =>
              request[w] # Idle
         /\ request[w] = Idle => request[w].step = "idle"
BY DEF Idle

(* What claim, complete and fail write. *)
LEMMA RecordWrites ==
  ASSUME NEW r \in Record, NEW b \in Body, NEW p \in Response
  PROVE  /\ ClaimedRecord(r, b) \in Record
         /\ CompletedRecord(r, p) \in Record
         /\ FailedRecord(r) \in Record
         /\ [r EXCEPT !.lock = "free"] \in Record
         /\ ClaimedRecord(r, b).state = "processing" /\ ClaimedRecord(r, b).hash = b
         /\ ClaimedRecord(r, b).response = r.response
         /\ CompletedRecord(r, p).state = "completed" /\ CompletedRecord(r, p).hash = r.hash
         /\ CompletedRecord(r, p).response = p
         /\ FailedRecord(r).state = "failed" /\ FailedRecord(r).hash = r.hash
         /\ FailedRecord(r).response = r.response
<1>1. /\ ClaimedRecord(r, b) \in Record /\ FailedRecord(r) \in Record
      /\ CompletedRecord(r, p) \in Record
      /\ [r EXCEPT !.lock = "free"] \in Record
  BY DEF Record, RecordState, ClaimedRecord, CompletedRecord, FailedRecord
<1>2. QED
  BY <1>1 DEF Record, ClaimedRecord, CompletedRecord, FailedRecord

(* An update of one record touches that record only. *)
LEMMA RecordAt ==
  ASSUME TypeOK, NEW c \in Cart, NEW k \in Key, NEW r \in Record,
         record' = [record EXCEPT ![c][k] = r]
  PROVE  /\ record' \in [Cart -> [Key -> Record]]
         /\ record'[c][k] = r
         /\ \A d \in Cart, l \in Key : d # c \/ l # k => record'[d][l] = record[d][l]
BY DEF TypeOK

(* complete stores the answer in one record and leaves its hash alone. *)
LEMMA CompletedAt ==
  ASSUME TypeOK, NEW c \in Cart, NEW k \in Key, NEW p \in Response,
         record' = [record EXCEPT ![c][k] = CompletedRecord(record[c][k], p)]
  PROVE  /\ record' \in [Cart -> [Key -> Record]]
         /\ record'[c][k].state = "completed" /\ record'[c][k].hash = record[c][k].hash
         /\ record'[c][k].response = p
         /\ \A d \in Cart, l \in Key : d # c \/ l # k => record'[d][l] = record[d][l]
<1> DEFINE q == CompletedRecord(record[c][k], p)
<1>1. record[c][k] \in Record
  BY DEF TypeOK
<1>2. q \in Record /\ q.state = "completed" /\ q.hash = record[c][k].hash /\ q.response = p
  BY <1>1 DEF Record, RecordState, CompletedRecord
<1> HIDE DEF q
<1>3. record' = [record EXCEPT ![c][k] = q]
  BY DEF q
<1>4. record' \in [Cart -> [Key -> Record]]
  BY <1>2, <1>3 DEF TypeOK
<1>5. record'[c][k] = q
  BY <1>2, <1>3 DEF TypeOK
<1>6. \A d \in Cart, l \in Key : d # c \/ l # k => record'[d][l] = record[d][l]
  BY <1>2, <1>3 DEF TypeOK
<1>7. QED
  BY <1>2, <1>4, <1>5, <1>6

(* A response is not null, and neither is a cart. *)
LEMMA NotNothing ==
  /\ \A p \in Response : p # Nothing
  /\ \A c \in Cart : c # Nothing
BY NothingAssumption, NothingIsNoCart

-----------------------------------------------------------------------------
(* The inductive invariant *)

(* It holds initially. *)
LEMMA InvInit == Init => Inv
<1> SUFFICES ASSUME Init PROVE Inv
  OBVIOUS
<1>1. TypeOK
  <2>1. NoRecord \in Record /\ NoAttempt \in AttemptRow
    BY DEF NoRecord, Record, RecordState, NoAttempt, AttemptRow
  <2>2. quote.lines = 0 /\ 0 \in 0 .. MaxLines /\ 0 \in 0 .. MaxCalls
    BY BoundsAssumption DEF Init
  <2>3. QED
    BY <2>1, <2>2 DEF Init, TypeOK, Idle
<1>2. RequestsTyped /\ CommittedOwns /\ KeysHeldOnce /\ OneCaller
  BY DEF Init, RequestsTyped, CommittedOwns, KeysHeldOnce, OneCaller, Idle
<1>3. AttemptsShaped /\ PayableHasAnswer
  BY DEF Init, AttemptsShaped, PayableHasAnswer, NoAttempt
<1>4. AnswersStored /\ AnswersBound
  BY DEF Init, AnswersStored, AnswersBound, NoRecord
<1>5. QED
  BY <1>1, <1>2, <1>3, <1>4 DEF Inv

(* A replay gives the stored answer to the body the key is bound to. *)
LEMMA ReplayKeeps ==
  ASSUME Inv, NEW w \in Worker, NEW c \in Cart, NEW k \in Key, NEW b \in Body,
         Replay(w, c, k, b)
  PROVE  Inv'
<1>1. /\ Bound(c, k, b) /\ record[c][k].state = "completed"
  BY DEF Replay, ClaimOutcome, Bound
<1>2. record[c][k] \in Record /\ record[c][k].response \in Response
  BY <1>1 DEF Inv, TypeOK, AnswersStored, Record
<1> DEFINE x == Answer(c, k, b, record[c][k].response)
<1>3. /\ x \in [cart : Cart, key : Key, body : Body, response : Response]
      /\ x.cart = c /\ x.key = k /\ x.body = b
  BY <1>2 DEF Answer
<1>4. answers' = answers \cup {x} /\ UNCHANGED <<record, attempt, request, made, quote, ended>>
  BY DEF Replay
<1> HIDE DEF x
<1>5. TypeOK' /\ RequestsTyped'
  BY <1>3, <1>4 DEF Inv, TypeOK, RequestsTyped
<1>6. AnswersBound'
  BY <1>1, <1>3, <1>4 DEF Inv, AnswersBound, Bound
<1>7. AttemptsShaped' /\ AnswersStored' /\ CommittedOwns' /\ PayableHasAnswer'
  BY <1>4 DEF Inv, AttemptsShaped, AnswersStored, CommittedOwns, PayableHasAnswer, Bound
<1>8. KeysHeldOnce' /\ OneCaller'
  BY <1>4 DEF Inv, KeysHeldOnce, OneCaller, HeldBy, CallsAlone, About
<1>9. QED
  BY <1>5, <1>6, <1>7, <1>8 DEF Inv

(* What the invariant says of records, attempts and answers alone is kept while  *)
(* those stay put.                                                               *)
LEMMA RowsKept ==
  ASSUME Inv, UNCHANGED <<record, attempt, answers, ended>>
  PROVE  AttemptsShaped' /\ AnswersStored' /\ AnswersBound' /\ PayableHasAnswer'
BY DEF Inv, AttemptsShaped, AnswersStored, AnswersBound, PayableHasAnswer, Bound

(* A request that goes idle, fails, or gets the provider's answer, while the rows *)
(* stay put.                                                                     *)
LEMMA MoveKeeps ==
  ASSUME Inv, NEW w \in Worker, request[w] # Idle, NEW d \in Open \cup Called \cup {Idle},
         request' = [request EXCEPT ![w] = d],
         d # Idle => /\ d.cart = request[w].cart /\ d.key = request[w].key
                     /\ d.body = request[w].body /\ d.step # "prepared"
                     /\ request[w].step # "prepared"
                     /\ d.step = "called" => request[w].step = "calling"
                     /\ d.step # "calling",
         UNCHANGED <<record, attempt, answers, ended>>,
         made' \in 0 .. MaxCalls, quote'.lines \in 0 .. MaxLines
  PROVE  Inv'
<1>1. \A v \in Worker : request'[v] = IF v = w THEN d ELSE request[v]
  BY DEF Inv, RequestsTyped
<1>2. RequestsTyped'
  BY DEF Inv, RequestsTyped
<1>3. TypeOK'
  <2>1. \A v \in Worker : request'[v].step \in
          {"idle", "prepared", "calling", "called", "failing"}
    BY <1>2 DEF RequestsTyped, Open, Called, Idle
  <2>2. QED
    BY <2>1 DEF Inv, TypeOK
<1>4. AttemptsShaped' /\ AnswersStored' /\ AnswersBound' /\ PayableHasAnswer'
  BY RowsKept
<1>5. \A v \in Worker : request'[v].step \in {"prepared", "calling", "called", "failing"} =>
        /\ request'[v].cart = request[v].cart /\ request'[v].key = request[v].key
        /\ request'[v].body = request[v].body
        /\ request'[v].step = "prepared" => request[v].step = "prepared"
        /\ request'[v].step \in {"calling", "called"} => request[v].step \in {"calling", "called"}
        /\ request'[v].step \in {"calling", "called", "failing"} =>
             request[v].step \in {"calling", "called", "failing"}
  <2>1. request[w].step \in {"prepared", "calling", "called", "failing"}
    BY RequestType DEF Inv
  <2>2. d = Idle => d.step = "idle"
    BY DEF Idle
  <2>3. d # Idle => d.step \in {"calling", "called", "failing"}
    BY DEF Open, Called
  <2>4. QED
    BY <1>1, <2>1, <2>2, <2>3
<1>6. CommittedOwns'
  BY <1>5, SMTT(30) DEF Inv, CommittedOwns, Bound
<1>7. KeysHeldOnce'
  BY <1>5, SMTT(30) DEF Inv, KeysHeldOnce, HeldBy, About
<1>8. OneCaller'
  BY <1>5 DEF Inv, OneCaller, CallsAlone, About
<1>9. QED
  BY <1>2, <1>3, <1>4, <1>6, <1>7, <1>8 DEF Inv

(* prepare opens its transaction: the key is free and the cart has no session. *)
LEMMA PrepareKeeps ==
  ASSUME Inv, NEW w \in Worker, NEW c \in Cart, NEW k \in Key, NEW b \in Body,
         Prepare(w, c, k, b)
  PROVE  Inv'
<1> DEFINE d == [step |-> "prepared", cart |-> c, key |-> k, body |-> b]
<1>1. /\ request[w] = Idle /\ ~ KeyBusy(c, k) /\ ~ Active(c)
      /\ request' = [request EXCEPT ![w] = d]
      /\ UNCHANGED <<record, attempt, made, answers, quote, ended>>
  BY DEF Prepare
<1>2. d \in Open /\ d.step = "prepared" /\ d.cart = c /\ d.key = k /\ d.body = b
  BY DEF Open
<1> HIDE DEF d
<1>3. /\ \A v \in Worker : request'[v] = IF v = w THEN d ELSE request[v]
      /\ RequestsTyped'
  BY <1>1, <1>2 DEF Inv, RequestsTyped
<1>4. TypeOK'
  <2>1. \A v \in Worker : request'[v].step \in
          {"idle", "prepared", "calling", "called", "failing"}
    BY <1>3 DEF RequestsTyped, Open, Called, Idle
  <2>2. QED
    BY <1>1, <2>1 DEF Inv, TypeOK
<1>5. AttemptsShaped' /\ AnswersStored' /\ AnswersBound' /\ PayableHasAnswer'
  BY <1>1, RowsKept
<1>6. CommittedOwns'
  BY <1>1, <1>2, <1>3, SMTT(30) DEF Inv, CommittedOwns, Bound
<1>7. OneCaller'
  BY <1>1, <1>2, <1>3 DEF Inv, OneCaller, CallsAlone, About
<1>8. KeysHeldOnce'
  <2> SUFFICES ASSUME NEW v \in Worker, request'[v].step = "prepared"
               PROVE  HeldBy(v, request[v].cart, request[v].key)'
    BY DEF KeysHeldOnce
  <2>1. CASE v = w
    <3>1. \A u \in Worker : request'[u].step = "prepared" /\ About(u, c, k)' => u = w
      BY <1>1, <1>3 DEF KeyBusy, About
    <3>2. record[c][k].state # "absent" => record[c][k].hash = b
      <4>1. ClaimOutcome(record[c][k], b) = "claimed"
        BY DEF Prepare
      <4>2. QED
        BY <4>1 DEF ClaimOutcome
    <3>3. k \notin ended => attempt[k].cart # c
      <4>1. attempt[k] \in AttemptRow
        BY DEF Inv, TypeOK
      <4>2. attempt[k].cart = c => attempt[k].status = "ended"
        BY <1>1, <4>1, NotNothing DEF Active, AttemptRow, Inv, AttemptsShaped
      <4>3. QED
        BY <4>2 DEF Inv, AttemptsShaped
    <3>4. QED
      BY <1>1, <1>2, <1>3, <2>1, <3>1, <3>2, <3>3 DEF HeldBy, About
  <2>2. CASE v # w
    <3>1. request'[v] = request[v] /\ request[v].step = "prepared"
      BY <1>3, <2>2
    <3>2. ~ About(v, c, k)
      BY <1>1, <3>1 DEF KeyBusy, About
    <3>3. HeldBy(v, request[v].cart, request[v].key)
      BY <3>1 DEF Inv, KeysHeldOnce
    <3>4. QED
      BY <1>1, <1>2, <1>3, <3>1, <3>2, <3>3, SMTT(30) DEF HeldBy, About
  <2>3. QED
    BY <2>1, <2>2
<1>9. QED
  BY <1>3, <1>4, <1>5, <1>6, <1>7, <1>8 DEF Inv

(* The commit of prepare binds the key to its body and gives the cart its attempt. *)
LEMMA CommitKeeps ==
  ASSUME Inv, NEW w \in Worker, CommitPrepare(w)
  PROVE  Inv'
<1> DEFINE c == request[w].cart
           k == request[w].key
           b == request[w].body
           d == [request[w] EXCEPT !.step = "calling"]
<1>1. /\ request[w].step = "prepared" /\ c \in Cart /\ k \in Key /\ b \in Body
      /\ request[w] \in Open
  BY StepNotIdle, RequestType DEF Inv, CommitPrepare
<1>2. /\ request' = [request EXCEPT ![w] = d]
      /\ d \in Open /\ d.step = "calling" /\ d.cart = c /\ d.key = k /\ d.body = b
  BY <1>1 DEF CommitPrepare, Open
<1>3. /\ attempt[k].cart \in {Nothing, c}
      /\ attempt' = IF attempt[k] = NoAttempt
                    THEN [attempt EXCEPT ![k] = [status |-> "initiated", cart |-> c]]
                    ELSE attempt
      /\ record' = [record EXCEPT ![c][k] = ClaimedRecord(record[c][k], b)]
      /\ UNCHANGED <<made, answers, quote, ended>>
  BY DEF CommitPrepare
<1>4. /\ record[c][k] \in Record
      /\ record[c][k].state # "absent" => record[c][k].hash = b
      /\ k \notin ended => attempt[k].cart # c
      /\ \A v \in Worker : request[v].step = "prepared" /\ About(v, c, k) => v = w
  BY <1>1 DEF Inv, TypeOK, KeysHeldOnce, HeldBy
<1> HIDE DEF c, k, b, d
<1>5. /\ record' \in [Cart -> [Key -> Record]]
      /\ record'[c][k].state = "processing" /\ record'[c][k].hash = b
      /\ record'[c][k].response = record[c][k].response
      /\ \A e \in Cart, l \in Key : e # c \/ l # k => record'[e][l] = record[e][l]
  <2>1. /\ ClaimedRecord(record[c][k], b) \in Record
        /\ ClaimedRecord(record[c][k], b).state = "processing"
        /\ ClaimedRecord(record[c][k], b).hash = b
        /\ ClaimedRecord(record[c][k], b).response = record[c][k].response
    BY <1>1, <1>4 DEF Record, RecordState, ClaimedRecord
  <2>2. QED
    BY <1>1, <1>3, <2>1, RecordAt, ZenonT(60) DEF Inv
<1>6. /\ attempt' \in [Key -> AttemptRow]
      /\ attempt'[k].cart = c
      /\ \A l \in Key : \/ attempt'[l] = attempt[l]
                        \/ /\ l = k /\ attempt[k].cart = Nothing
                           /\ attempt'[k].status = "initiated"
  <2>1. attempt[k] \in AttemptRow
    BY <1>1 DEF Inv, TypeOK
  <2>2. attempt[k].cart = Nothing => attempt[k] = NoAttempt
    BY <1>1, <2>1 DEF Inv, AttemptsShaped, AttemptRow, NoAttempt
  <2>3. [status |-> "initiated", cart |-> c] \in AttemptRow
    BY <1>1 DEF AttemptRow
  <2>4. NoAttempt.cart = Nothing
    BY DEF NoAttempt
  <2>5. QED
    BY <1>1, <1>3, <2>2, <2>3, <2>4, NotNothing DEF Inv, TypeOK
<1>7. /\ \A v \in Worker : request'[v] = IF v = w THEN d ELSE request[v]
      /\ RequestsTyped'
  BY <1>2 DEF Inv, RequestsTyped
<1>8. TypeOK'
  <2>1. \A v \in Worker : request'[v].step \in
          {"idle", "prepared", "calling", "called", "failing"}
    BY <1>7 DEF RequestsTyped, Open, Called, Idle
  <2>2. QED
    BY <1>3, <1>5, <1>6, <2>1 DEF Inv, TypeOK
<1>9. AttemptsShaped'
  BY <1>1, <1>3, <1>6, NotNothing DEF Inv, AttemptsShaped
<1>10. AnswersStored'
  BY <1>1, <1>5, <1>6, NotNothing DEF Inv, AnswersStored
<1>11. PayableHasAnswer'
  <2> SUFFICES ASSUME NEW l \in Key, attempt'[l].status = "processing"
               PROVE  record'[attempt'[l].cart][l].response # Nothing
    BY DEF PayableHasAnswer
  <2>1. attempt'[l] = attempt[l]
    BY <1>6
  <2>2. attempt[l].cart \in Cart
    BY <2>1 DEF Inv, TypeOK, AttemptRow, AttemptsShaped
  <2>3. record[attempt[l].cart][l].response # Nothing
    BY <2>1 DEF Inv, PayableHasAnswer
  <2>4. QED
    BY <1>1, <1>5, <2>1, <2>2, <2>3
<1>12. AnswersBound'
  <2>1. \A x \in answers : x.cart \in Cart /\ x.key \in Key
    BY DEF Inv, TypeOK
  <2>2. QED
    BY <1>1, <1>3, <1>4, <1>5, <2>1 DEF Inv, AnswersBound, Bound
<1>13. CommittedOwns'
  <2> SUFFICES ASSUME NEW v \in Worker, request'[v].step \in {"calling", "called", "failing"}
               PROVE  /\ attempt'[request'[v].key].cart = request'[v].cart
                      /\ Bound(request[v].cart, request[v].key, request[v].body)'
    BY DEF CommittedOwns
  <2>1. CASE v = w
    BY <1>2, <1>5, <1>6, <1>7, <2>1 DEF Bound
  <2>2. CASE v # w
    <3>1. /\ request'[v] = request[v]
          /\ request[v].cart \in Cart /\ request[v].key \in Key
          /\ attempt[request[v].key].cart = request[v].cart
          /\ Bound(request[v].cart, request[v].key, request[v].body)
      BY <1>7, <2>2, StepNotIdle, RequestType DEF Inv, CommittedOwns
    <3>2. attempt'[request[v].key].cart = request[v].cart
      BY <1>6, <3>1, NotNothing
    <3>3. QED
      BY <1>1, <1>4, <1>5, <3>1, <3>2 DEF Bound
  <2>3. QED
    BY <2>1, <2>2
<1>14. KeysHeldOnce'
  <2> SUFFICES ASSUME NEW v \in Worker, request'[v].step = "prepared"
               PROVE  HeldBy(v, request[v].cart, request[v].key)'
    BY DEF KeysHeldOnce
  <2>1. v # w /\ request'[v] = request[v] /\ request[v].step = "prepared"
    BY <1>2, <1>7
  <2>2. /\ request[v].cart \in Cart /\ request[v].key \in Key /\ ~ About(v, c, k)
    BY <1>4, <2>1, StepNotIdle, RequestType DEF Inv
  <2>3. record'[request[v].cart][request[v].key] = record[request[v].cart][request[v].key]
    BY <1>5, <2>2 DEF About
  <2>4. HeldBy(v, request[v].cart, request[v].key)
    BY <2>1 DEF Inv, KeysHeldOnce
  <2>5. request[v].key \notin ended => attempt'[request[v].key].cart # request[v].cart
    BY <1>1, <1>6, <2>1, <2>2, <2>4 DEF HeldBy, About
  <2>6. \A u \in Worker : request'[u].step = "prepared" => request'[u] = request[u]
    BY <1>2, <1>7
  <2>7. QED
    BY <1>3, <2>1, <2>3, <2>4, <2>5, <2>6 DEF HeldBy, About
<1>15. OneCaller'
  <2>1. ASSUME NEW v \in Worker, v # w, request[v].step \in {"calling", "called"}, k \notin ended
        PROVE  ~ About(v, c, k)
    BY <1>4, <2>1 DEF Inv, CommittedOwns, About
  <2> SUFFICES ASSUME NEW v \in Worker, request'[v].step \in {"calling", "called"},
                      request'[v].key \notin ended
               PROVE  CallsAlone(v, request[v].cart, request[v].key)'
    BY <1>3 DEF OneCaller, CallsAlone
  <2>2. CASE v = w
    <3>1. record[c][k].response = Nothing
      BY <1>1, <1>2, <1>4, <1>7, <2>2 DEF Inv, AnswersStored
    <3>2. k \notin ended
      BY <1>2, <1>7, <2>2
    <3>3. QED
      BY <1>2, <1>5, <1>7, <2>1, <2>2, <3>1, <3>2 DEF CallsAlone, About
  <2>3. CASE v # w
    <3>1. /\ request'[v] = request[v] /\ request[v].cart \in Cart /\ request[v].key \in Key
      BY <1>7, <2>3, StepNotIdle, RequestType DEF Inv
    <3>2. ~ About(v, c, k)
      BY <2>1, <2>3, <3>1 DEF About
    <3>3. record'[request[v].cart][request[v].key] = record[request[v].cart][request[v].key]
      BY <1>5, <3>1, <3>2 DEF About
    <3>4. QED
      BY <1>2, <1>3, <1>7, <2>3, <3>1, <3>2, <3>3, SMTT(30) DEF Inv, OneCaller, CallsAlone, About
  <2>4. QED
    BY <2>2, <2>3
<1>16. QED
  BY <1>7, <1>8, <1>9, <1>10, <1>11, <1>12, <1>13, <1>14, <1>15 DEF Inv

(* The last transaction stores the answer and makes the attempt payable: no other *)
(* request had a call to make for it, unless it had been turned down.             *)
LEMMA AttachKeeps ==
  ASSUME Inv, NEW w \in Worker, request[w].step = "called",
         NEW c \in Cart, NEW k \in Key, NEW b \in Body, NEW p \in Response,
         request[w].cart = c, request[w].key = k, request[w].body = b, request[w].response = p,
         NEW d \in Open \cup {Idle},
         d # Idle => d.step = "failing" /\ d.cart = c /\ d.key = k /\ d.body = b,
         attempt' = [attempt EXCEPT ![k] = [attempt[k] EXCEPT !.status = "processing"]],
         record' = [record EXCEPT ![c][k] = CompletedRecord(record[c][k], p)],
         request' = [request EXCEPT ![w] = d],
         answers' \subseteq answers \cup {Answer(c, k, b, p)},
         UNCHANGED <<made, quote, ended>>
  PROVE  Inv'
<1>1. attempt[k].cart = c /\ Bound(c, k, b) /\ CallsAlone(w, c, k)
  BY DEF Inv, CommittedOwns, OneCaller
<1>3. /\ record' \in [Cart -> [Key -> Record]]
      /\ record'[c][k].state = "completed" /\ record'[c][k].hash = record[c][k].hash
      /\ record'[c][k].response = p
      /\ \A e \in Cart, l \in Key : e # c \/ l # k => record'[e][l] = record[e][l]
  <2>1. TypeOK
    BY DEF Inv
  <2>2. record' = [record EXCEPT ![c][k] = CompletedRecord(record[c][k], p)]
    OBVIOUS
  <2>3. QED
    BY ONLY <2>1, <2>2, CompletedAt, c \in Cart, k \in Key, p \in Response, ZenonT(60)
<1>4. /\ attempt' \in [Key -> AttemptRow]
      /\ attempt'[k].cart = c /\ attempt'[k].status = "processing"
      /\ \A l \in Key : attempt'[l].cart = attempt[l].cart
      /\ \A l \in Key : l # k => attempt'[l] = attempt[l]
  <2>1. attempt[k] \in AttemptRow
    BY <1>1 DEF Inv, TypeOK
  <2>2. /\ [attempt[k] EXCEPT !.status = "processing"] \in AttemptRow
        /\ [attempt[k] EXCEPT !.status = "processing"].status = "processing"
        /\ [attempt[k] EXCEPT !.status = "processing"].cart = attempt[k].cart
    BY <2>1 DEF AttemptRow
  <2>3. QED
    BY <1>1, <2>2 DEF Inv, TypeOK
<1>5. /\ \A v \in Worker : request'[v] = IF v = w THEN d ELSE request[v]
      /\ RequestsTyped'
      /\ d.step \in {"failing", "idle"}
  BY DEF Inv, RequestsTyped, Idle
<1>6. TypeOK'
  <2>1. \A v \in Worker : request'[v].step \in
          {"idle", "prepared", "calling", "called", "failing"}
    BY <1>5 DEF RequestsTyped, Open, Called, Idle
  <2>2. Answer(c, k, b, p) \in [cart : Cart, key : Key, body : Body, response : Response]
    BY <1>1 DEF Answer
  <2>3. QED
    BY <1>3, <1>4, <2>1, <2>2 DEF Inv, TypeOK
<1>7. AttemptsShaped'
  BY <1>1, <1>4, NotNothing DEF Inv, AttemptsShaped
<1>8. AnswersStored'
  BY <1>1, <1>3, <1>4, NotNothing DEF Inv, AnswersStored
<1>9. PayableHasAnswer'
  <2> SUFFICES ASSUME NEW l \in Key, attempt'[l].status = "processing"
               PROVE  record'[attempt'[l].cart][l].response # Nothing
    BY DEF PayableHasAnswer
  <2>1. CASE l = k
    BY <1>1, <1>3, <1>4, <2>1, NotNothing
  <2>2. CASE l # k
    <3>1. attempt[l].cart \in Cart /\ attempt'[l] = attempt[l]
      BY <1>4, <2>2 DEF Inv, TypeOK, AttemptRow, AttemptsShaped
    <3>2. QED
      BY <1>3, <2>2, <3>1 DEF Inv, PayableHasAnswer
  <2>3. QED
    BY <2>1, <2>2
<1>10. \A e \in Cart, l \in Key, f \in Body : Bound(e, l, f) => Bound(e, l, f)'
  BY <1>1, <1>3 DEF Bound
<1>11. AnswersBound'
  <2>1. \A x \in answers : x.cart \in Cart /\ x.key \in Key /\ x.body \in Body
    BY DEF Inv, TypeOK
  <2>2. \A x \in answers : Bound(x.cart, x.key, x.body)'
    BY <1>10, <2>1 DEF Inv, AnswersBound
  <2>3. Bound(c, k, b)'
    BY <1>1, <1>10
  <2>4. LET x == Answer(c, k, b, p) IN x.cart = c /\ x.key = k /\ x.body = b
    BY DEF Answer
  <2>5. QED
    BY <2>2, <2>3, <2>4 DEF AnswersBound, Bound
<1>12. CommittedOwns'
  <2> SUFFICES ASSUME NEW v \in Worker, request'[v].step \in {"calling", "called", "failing"}
               PROVE  /\ attempt'[request'[v].key].cart = request'[v].cart
                      /\ Bound(request[v].cart, request[v].key, request[v].body)'
    BY DEF CommittedOwns
  <2>1. /\ request[v].step \in {"calling", "called", "failing"}
        /\ request'[v].cart = request[v].cart /\ request'[v].key = request[v].key
        /\ request'[v].body = request[v].body
    BY <1>5 DEF Idle
  <2>2. /\ request[v].cart \in Cart /\ request[v].key \in Key /\ request[v].body \in Body
        /\ attempt[request[v].key].cart = request[v].cart
        /\ Bound(request[v].cart, request[v].key, request[v].body)
    BY <2>1, StepNotIdle, RequestType DEF Inv, CommittedOwns
  <2>3. Bound(request[v].cart, request[v].key, request[v].body)'
    BY <1>3, <2>1, <2>2, <1>1, SMTT(30) DEF Bound
  <2>4. QED
    BY <1>4, <2>1, <2>2, <2>3
<1>13. KeysHeldOnce'
  <2> SUFFICES ASSUME NEW v \in Worker, request'[v].step = "prepared"
               PROVE  HeldBy(v, request[v].cart, request[v].key)'
    BY DEF KeysHeldOnce
  <2>1. request'[v] = request[v] /\ request[v].step = "prepared"
    BY <1>5
  <2>2. /\ HeldBy(v, request[v].cart, request[v].key)
        /\ request[v].cart \in Cart /\ request[v].key \in Key
    BY <2>1, StepNotIdle, RequestType DEF Inv, KeysHeldOnce
  <2>3. record'[request[v].cart][request[v].key].state # "absent" =>
          record'[request[v].cart][request[v].key].hash = request[v].body
    BY <1>1, <1>3, <2>2, SMTT(30) DEF HeldBy, Bound
  <2>4. \A u \in Worker : request'[u].step = "prepared" => request'[u] = request[u]
    BY <1>5
  <2>5. QED
    BY <1>4, <2>1, <2>2, <2>3, <2>4, SMTT(30) DEF HeldBy, About
<1>14. OneCaller'
  <2> SUFFICES ASSUME NEW v \in Worker, request'[v].step \in {"calling", "called"},
                      request'[v].key \notin ended
               PROVE  CallsAlone(v, request[v].cart, request[v].key)'
    BY DEF OneCaller, CallsAlone
  <2>1. v # w /\ request'[v] = request[v] /\ request[v].step \in {"calling", "called"}
    BY <1>5
  <2>2. /\ CallsAlone(v, request[v].cart, request[v].key)
        /\ request[v].cart \in Cart /\ request[v].key \in Key
    BY <2>1, StepNotIdle, RequestType DEF Inv, OneCaller
  <2>3. ~ About(v, c, k)
    BY <1>1, <2>1 DEF CallsAlone, About
  <2>4. record'[request[v].cart][request[v].key] = record[request[v].cart][request[v].key]
    BY <1>3, <2>2, <2>3 DEF About
  <2>5. \A u \in Worker : request'[u].step \in {"calling", "called"} => request'[u] = request[u]
    BY <1>5
  <2>6. QED
    BY <2>1, <2>2, <2>4, <2>5 DEF CallsAlone, About
<1>15. QED
  BY <1>5, <1>6, <1>7, <1>8, <1>9, <1>11, <1>12, <1>13, <1>14 DEF Inv

(* Failing a key, a lapsing lock and a request that ends write nothing but the    *)
(* lock and the state of a record.                                               *)
LEMMA SoftKeeps ==
  ASSUME Inv, UNCHANGED <<attempt, answers, made, quote, ended>>,
         record' \in [Cart -> [Key -> Record]],
         \A c \in Cart, k \in Key :
           /\ record'[c][k].hash = record[c][k].hash
           /\ record'[c][k].response = record[c][k].response
           /\ record'[c][k].state = "absent" <=> record[c][k].state = "absent"
           /\ record'[c][k].state = "completed" => record[c][k].state = "completed",
         request' \in [Worker -> Open \cup Called \cup {Idle}],
         \A v \in Worker : request'[v] = request[v] \/ request'[v] = Idle
  PROVE  Inv'
<1>1. TypeOK' /\ RequestsTyped'
  <2>1. \A v \in Worker : request'[v].step \in
          {"idle", "prepared", "calling", "called", "failing"}
    BY DEF Open, Called, Idle
  <2>2. QED
    BY <2>1 DEF Inv, TypeOK, RequestsTyped
<1>2. AttemptsShaped' /\ AnswersStored'
  BY DEF Inv, AttemptsShaped, AnswersStored
<1>3. PayableHasAnswer'
  <2>1. \A k \in Key : attempt[k].status = "processing" => attempt[k].cart \in Cart
    BY DEF Inv, TypeOK, AttemptRow, AttemptsShaped
  <2>2. QED
    BY <2>1 DEF Inv, PayableHasAnswer
<1>4. AnswersBound'
  <2>1. \A x \in answers : x.cart \in Cart /\ x.key \in Key
    BY DEF Inv, TypeOK
  <2>2. QED
    BY <2>1 DEF Inv, AnswersBound, Bound
<1>5. \A v \in Worker : request'[v].step \in {"prepared", "calling", "called", "failing"} =>
        /\ request'[v] = request[v]
        /\ request[v].cart \in Cart /\ request[v].key \in Key
  BY StepNotIdle, RequestType DEF Inv, Idle
<1>6. CommittedOwns'
  BY <1>5 DEF Inv, CommittedOwns, Bound
<1>7. KeysHeldOnce'
  BY <1>5 DEF Inv, KeysHeldOnce, HeldBy, About
<1>8. OneCaller'
  BY <1>5 DEF Inv, OneCaller, CallsAlone, About
<1>9. QED
  BY <1>1, <1>2, <1>3, <1>4, <1>6, <1>7, <1>8 DEF Inv

(* The catch block. *)
LEMMA FailKeyKeeps ==
  ASSUME Inv, NEW w \in Worker, FailKey(w)
  PROVE  Inv'
<1> DEFINE c == request[w].cart
           k == request[w].key
<1>1. /\ c \in Cart /\ k \in Key /\ record[c][k].state # "absent" /\ record[c][k] \in Record
  BY StepNotIdle, RequestType DEF Inv, TypeOK, FailKey, CommittedOwns, Bound
<1>2. /\ record' = [record EXCEPT ![c][k] = FailedRecord(record[c][k])]
      /\ request' = [request EXCEPT ![w] = Idle]
      /\ UNCHANGED <<attempt, answers, made, quote, ended>>
  BY DEF FailKey
<1> HIDE DEF c, k
<1>3. /\ FailedRecord(record[c][k]) \in Record
      /\ FailedRecord(record[c][k]).state = "failed"
      /\ FailedRecord(record[c][k]).hash = record[c][k].hash
      /\ FailedRecord(record[c][k]).response = record[c][k].response
  BY <1>1 DEF Record, RecordState, FailedRecord
<1>4. /\ record' \in [Cart -> [Key -> Record]]
      /\ record'[c][k] = FailedRecord(record[c][k])
      /\ \A e \in Cart, l \in Key : e # c \/ l # k => record'[e][l] = record[e][l]
  BY <1>1, <1>2, <1>3, RecordAt, ZenonT(60) DEF Inv
<1>5. \A e \in Cart, l \in Key :
        /\ record'[e][l].hash = record[e][l].hash
        /\ record'[e][l].response = record[e][l].response
        /\ record'[e][l].state = "absent" <=> record[e][l].state = "absent"
        /\ record'[e][l].state = "completed" => record[e][l].state = "completed"
  BY <1>1, <1>3, <1>4
<1>6. /\ request' \in [Worker -> Open \cup Called \cup {Idle}]
      /\ \A v \in Worker : request'[v] = request[v] \/ request'[v] = Idle
  BY <1>2 DEF Inv, RequestsTyped
<1>7. QED
  BY <1>2, <1>4, <1>5, <1>6, SoftKeeps

(* Thirty seconds after the claim. *)
LEMMA LockLapsesKeeps ==
  ASSUME Inv, NEW c \in Cart, NEW k \in Key, LockLapses(c, k)
  PROVE  Inv'
<1> DEFINE r == [record[c][k] EXCEPT !.lock = "free"]
<1>1. /\ record' = [record EXCEPT ![c][k] = r]
      /\ UNCHANGED <<attempt, request, answers, made, quote, ended>>
  BY DEF LockLapses
<1>2. /\ r \in Record /\ r.hash = record[c][k].hash
      /\ r.state = record[c][k].state /\ r.response = record[c][k].response
  <2>1. record[c][k] \in Record
    BY DEF Inv, TypeOK
  <2>2. QED
    BY <2>1 DEF Record
<1> HIDE DEF r
<1>3. /\ record' \in [Cart -> [Key -> Record]]
      /\ record'[c][k] = r
      /\ \A e \in Cart, l \in Key : e # c \/ l # k => record'[e][l] = record[e][l]
  BY <1>1, <1>2, RecordAt, ZenonT(60) DEF Inv
<1>4. \A e \in Cart, l \in Key :
        /\ record'[e][l].hash = record[e][l].hash
        /\ record'[e][l].response = record[e][l].response
        /\ record'[e][l].state = "absent" <=> record[e][l].state = "absent"
        /\ record'[e][l].state = "completed" => record[e][l].state = "completed"
  BY <1>2, <1>3
<1>5. request' \in [Worker -> Open \cup Called \cup {Idle}]
  BY <1>1 DEF Inv, RequestsTyped
<1>6. QED
  BY <1>1, <1>3, <1>4, <1>5, SoftKeeps

(* A notification turns an attempt down, and the turn is remembered. *)
LEMMA AttemptEndsKeeps ==
  ASSUME Inv, NEW k \in Key, AttemptEnds(k)
  PROVE  Inv'
<1>1. /\ attempt[k].status = "processing"
      /\ attempt' = [attempt EXCEPT ![k] = [attempt[k] EXCEPT !.status = "ended"]]
      /\ ended' = ended \cup {k}
      /\ UNCHANGED <<record, request, made, answers, quote>>
  BY DEF AttemptEnds
<1>2. /\ attempt' \in [Key -> AttemptRow]
      /\ attempt'[k].status = "ended"
      /\ \A l \in Key : attempt'[l].cart = attempt[l].cart
      /\ \A l \in Key : l # k => attempt'[l] = attempt[l]
  <2>1. attempt[k] \in AttemptRow
    BY DEF Inv, TypeOK
  <2>2. /\ [attempt[k] EXCEPT !.status = "ended"] \in AttemptRow
        /\ [attempt[k] EXCEPT !.status = "ended"].status = "ended"
        /\ [attempt[k] EXCEPT !.status = "ended"].cart = attempt[k].cart
    BY <2>1 DEF AttemptRow
  <2>3. QED
    BY <1>1, <2>2 DEF Inv, TypeOK
<1>3. TypeOK' /\ RequestsTyped'
  BY <1>1, <1>2 DEF Inv, TypeOK, RequestsTyped
<1>4. AttemptsShaped' /\ AnswersStored' /\ AnswersBound' /\ PayableHasAnswer'
  BY <1>1, <1>2 DEF Inv, AttemptsShaped, AnswersStored, AnswersBound, PayableHasAnswer, Bound
<1>5. \A v \in Worker : request[v].step \in {"prepared", "calling", "called", "failing"} =>
        request[v].key \in Key
  BY StepNotIdle, RequestType DEF Inv
<1>6. CommittedOwns'
  BY <1>1, <1>2, <1>5 DEF Inv, CommittedOwns, Bound
<1>7. KeysHeldOnce'
  BY <1>1, <1>2, <1>5 DEF Inv, KeysHeldOnce, HeldBy, About
<1>8. OneCaller'
  BY <1>1, <1>2, <1>5 DEF Inv, OneCaller, CallsAlone, About
<1>9. QED
  BY <1>3, <1>4, <1>6, <1>7, <1>8 DEF Inv

-----------------------------------------------------------------------------
(* The steps *)

(* The provider's answer is a new preference, and its quote has lines. *)
LEMMA CallSucceedsKeeps ==
  ASSUME Inv, NEW w \in Worker, CallSucceeds(w)
  PROVE  Inv'
<1> DEFINE d == [step |-> "called", cart |-> request[w].cart, key |-> request[w].key,
                 body |-> request[w].body, response |-> made + 1]
<1>1. /\ request[w].step = "calling" /\ request[w] # Idle
      /\ request[w].cart \in Cart /\ request[w].key \in Key /\ request[w].body \in Body
  BY StepNotIdle, RequestType DEF Inv, CallSucceeds
<1>2. /\ request' = [request EXCEPT ![w] = d]
      /\ made < MaxCalls /\ made' = made + 1 /\ quote' \in Quotes
      /\ UNCHANGED <<record, attempt, answers, ended>>
  BY DEF CallSucceeds
<1>3. made' \in 0 .. MaxCalls /\ made + 1 \in Response
  BY <1>2, ResponseAssumption, BoundsAssumption DEF Inv, TypeOK
<1>4. quote'.lines \in 0 .. MaxLines
  BY <1>2, BoundsAssumption DEF Quotes
<1>5. /\ d \in Called /\ d.step = "called" /\ d.cart = request[w].cart
      /\ d.key = request[w].key /\ d.body = request[w].body
  BY <1>1, <1>3 DEF Called
<1> HIDE DEF d
<1>6. QED
  BY <1>1, <1>2, <1>3, <1>4, <1>5, MoveKeeps

(* A call or its last transaction fails. *)
LEMMA FailuresKeep ==
  ASSUME Inv, NEW w \in Worker, CallFails(w) \/ AttachFails(w)
  PROVE  Inv'
<1> DEFINE d == [step |-> "failing", cart |-> request[w].cart, key |-> request[w].key,
                 body |-> request[w].body]
<1>1. /\ request[w].step \in {"calling", "called"} /\ request[w] # Idle
      /\ request[w].cart \in Cart /\ request[w].key \in Key /\ request[w].body \in Body
      /\ request[w].step = "calling" => request[w] \in Open
  BY StepNotIdle, RequestType DEF Inv, CallFails, AttachFails
<1>2. request' = [request EXCEPT ![w] = d]
  <2>1. CASE CallFails(w)
    <3>1. [request[w] EXCEPT !.step = "failing"] = d
      BY <1>1, <2>1 DEF CallFails, Open
    <3>2. QED
      BY <2>1, <3>1 DEF CallFails
  <2>2. CASE AttachFails(w)
    BY <2>2 DEF AttachFails
  <2>3. QED
    BY <2>1, <2>2
<1>3. /\ UNCHANGED <<record, attempt, answers, ended, made, quote>>
      /\ made' \in 0 .. MaxCalls /\ quote'.lines \in 0 .. MaxLines
  BY DEF CallFails, AttachFails, Inv, TypeOK
<1>4. /\ d \in Open /\ d.step = "failing" /\ d.cart = request[w].cart
      /\ d.key = request[w].key /\ d.body = request[w].body
  BY <1>1 DEF Open
<1> HIDE DEF d
<1>5. QED
  BY <1>1, <1>2, <1>3, <1>4, MoveKeeps

(* The process ends. *)
LEMMA AbandonKeeps ==
  ASSUME Inv, NEW w \in Worker, Abandon(w)
  PROVE  Inv'
<1>1. /\ request[w] # Idle /\ request' = [request EXCEPT ![w] = Idle]
      /\ UNCHANGED <<record, attempt, answers, ended, made, quote>>
  BY DEF Abandon
<1>2. made' \in 0 .. MaxCalls /\ quote'.lines \in 0 .. MaxLines
  BY <1>1 DEF Inv, TypeOK
<1>3. QED
  BY <1>1, <1>2, MoveKeeps

(* The last transaction commits, and the server hears of it or does not. *)
LEMMA AttachesKeep ==
  ASSUME Inv, NEW w \in Worker, Attach(w) \/ AttachUnacknowledged(w)
  PROVE  Inv'
<1>1. /\ request[w].step = "called" /\ request[w] # Idle
      /\ request[w].cart \in Cart /\ request[w].key \in Key /\ request[w].body \in Body
      /\ request[w].response \in Response
  BY StepNotIdle, RequestType DEF Inv, Attach, AttachUnacknowledged
<1>2. PICK c \in Cart, k \in Key, b \in Body, p \in Response :
        /\ request[w].cart = c /\ request[w].key = k
        /\ request[w].body = b /\ request[w].response = p
  BY <1>1
<1> DEFINE d == [step |-> "failing", cart |-> c, key |-> k, body |-> b]
<1>3. /\ attempt' = [attempt EXCEPT ![k] = [attempt[k] EXCEPT !.status = "processing"]]
      /\ record' = [record EXCEPT ![c][k] = CompletedRecord(record[c][k], p)]
      /\ answers' \subseteq answers \cup {Answer(c, k, b, p)}
      /\ UNCHANGED <<made, quote, ended>>
      /\ request' = [request EXCEPT ![w] = Idle] \/ request' = [request EXCEPT ![w] = d]
  BY <1>2 DEF Attach, AttachUnacknowledged
<1>4. d \in Open /\ d.step = "failing" /\ d.cart = c /\ d.key = k /\ d.body = b
  BY DEF Open
<1> HIDE DEF d
<1>5. CASE request' = [request EXCEPT ![w] = Idle]
  BY <1>1, <1>2, <1>3, <1>5, AttachKeeps
<1>6. CASE request' = [request EXCEPT ![w] = d]
  BY <1>1, <1>2, <1>3, <1>4, <1>6, AttachKeeps
<1>7. QED
  BY <1>3, <1>5, <1>6

(* Every step keeps the inductive invariant. *)
LEMMA InvNext == Inv /\ [Next]_vars => Inv'
<1> SUFFICES ASSUME Inv, [Next]_vars PROVE Inv'
  OBVIOUS
<1>1. ASSUME NEW w \in Worker, NEW c \in Cart, NEW k \in Key, NEW b \in Body, Ask(w, c, k, b)
      PROVE  Inv'
  BY <1>1, ReplayKeeps, PrepareKeeps DEF Ask
<1>2. ASSUME NEW w \in Worker, Serve(w)
      PROVE  Inv'
  BY <1>2, CommitKeeps, CallSucceedsKeeps, FailuresKeep, AttachesKeep, FailKeyKeeps, AbandonKeeps
  DEF Serve
<1>3. ASSUME NEW c \in Cart, NEW k \in Key, LockLapses(c, k)
      PROVE  Inv'
  BY <1>3, LockLapsesKeeps
<1>4. ASSUME NEW k \in Key, AttemptEnds(k)
      PROVE  Inv'
  BY <1>4, AttemptEndsKeeps
<1>5. CASE UNCHANGED vars
  <2>1. /\ UNCHANGED <<attempt, answers, made, quote, ended>>
        /\ record' = record /\ request' = request
    BY <1>5 DEF vars
  <2>2. record' \in [Cart -> [Key -> Record]]
        /\ request' \in [Worker -> Open \cup Called \cup {Idle}]
    BY <2>1 DEF Inv, TypeOK, RequestsTyped
  <2>3. QED
    BY <2>1, <2>2, SoftKeeps
<1>6. QED
  BY <1>1, <1>2, <1>3, <1>4, <1>5 DEF Next

-----------------------------------------------------------------------------
(* Theorems *)

(* Over lapsed locks, lost answers, crashes and repeated requests, the records of *)
(* keys, the attempts and the requests in progress agree as Inv says: each key    *)
(* has one open prepare, and one call until its attempt is turned down.           *)
THEOREM InvAlways == Spec => []Inv
<1>1. QED
  BY InvInit, InvNext, PTL DEF Spec

(* All the answers of a key belong to one request body, and every attempt that    *)
(* can be paid has its answer stored (payment-session.service.ts prepare and      *)
(* complete), whatever the carts, keys, bodies and servers.                       *)
THEOREM AnswersAgreeAlways == Spec => []AnswersAgree
<1>1. Inv => AnswersAgree
  BY DEF Inv, AnswersAgree, KeyHasOneBody, AnswersBound, Bound
<1>2. QED
  BY <1>1, InvAlways, PTL

(* The answer stored for a key is replaced only once its attempt was turned down, *)
(* although complete and fail update a record without looking at its state.       *)
THEOREM AnswerIsFinalAlways == Spec => AnswerIsFinal
<1>1. ASSUME Inv, [Next]_vars, NEW c \in Cart, NEW k \in Key,
             record[c][k].response # Nothing, k \notin ended
      PROVE  record'[c][k].response = record[c][k].response
  <2>1. record \in [Cart -> [Key -> Record]] /\ record[c][k] \in Record
    BY <1>1 DEF Inv, TypeOK
  <2>2. ASSUME NEW w \in Worker, request[w].step = "called"
        PROVE  ~ About(w, c, k)
    BY <1>1, <2>2 DEF Inv, OneCaller, CallsAlone, About
  <2>3. ASSUME NEW e \in Cart, NEW l \in Key, NEW r \in Record,
               record' = [record EXCEPT ![e][l] = r],
               r.response = record[e][l].response \/ e # c \/ l # k
        PROVE  record'[c][k].response = record[c][k].response
    BY <2>1, <2>3
  <2>4. ASSUME NEW w \in Worker, CommitPrepare(w)
        PROVE  record'[c][k].response = record[c][k].response
    <3>1. PICK e \in Cart, l \in Key, b \in Body :
            request[w].cart = e /\ request[w].key = l /\ request[w].body = b
      BY <1>1, <2>4, StepNotIdle, RequestType DEF Inv, CommitPrepare
    <3>2. record[e][l] \in Record
      BY <1>1 DEF Inv, TypeOK
    <3>3. /\ record' = [record EXCEPT ![e][l] = ClaimedRecord(record[e][l], b)]
          /\ ClaimedRecord(record[e][l], b) \in Record
          /\ ClaimedRecord(record[e][l], b).response = record[e][l].response
      BY <2>4, <3>1, <3>2 DEF CommitPrepare, ClaimedRecord, Record, RecordState
    <3>4. QED
      BY <2>3, <3>3
  <2>5. ASSUME NEW w \in Worker, Attach(w) \/ AttachUnacknowledged(w)
        PROVE  record'[c][k].response = record[c][k].response
    <3>1. PICK e \in Cart, l \in Key, p \in Response :
            request[w].cart = e /\ request[w].key = l /\ request[w].response = p
      BY <1>1, <2>5, StepNotIdle, RequestType DEF Inv, Attach, AttachUnacknowledged
    <3>2. record' = [record EXCEPT ![e][l] = CompletedRecord(record[e][l], p)]
      BY <2>5, <3>1 DEF Attach, AttachUnacknowledged
    <3>3. e # c \/ l # k
      BY <2>2, <2>5, <3>1 DEF About, Attach, AttachUnacknowledged
    <3>4. QED
      BY <1>1, <3>2, <3>3, CompletedAt DEF Inv
  <2>6. ASSUME NEW w \in Worker, FailKey(w)
        PROVE  record'[c][k].response = record[c][k].response
    <3>1. PICK e \in Cart, l \in Key : request[w].cart = e /\ request[w].key = l
      BY <1>1, <2>6, StepNotIdle, RequestType DEF Inv, FailKey
    <3>2. record[e][l] \in Record
      BY <1>1 DEF Inv, TypeOK
    <3>3. /\ record' = [record EXCEPT ![e][l] = FailedRecord(record[e][l])]
          /\ FailedRecord(record[e][l]) \in Record
          /\ FailedRecord(record[e][l]).response = record[e][l].response
      BY <2>6, <3>1, <3>2 DEF FailKey, FailedRecord, Record, RecordState
    <3>4. QED
      BY <2>3, <3>3
  <2>7. ASSUME NEW e \in Cart, NEW l \in Key, LockLapses(e, l)
        PROVE  record'[c][k].response = record[c][k].response
    BY <2>1, <2>7 DEF LockLapses, Record
  <2>8. CASE record' = record
    BY <2>8
  <2>9. QED
    BY <1>1, <2>4, <2>5, <2>6, <2>7, <2>8
    DEF Next, Ask, Serve, Replay, Prepare, CallSucceeds, CallFails, AttachFails, Abandon,
        AttemptEnds, vars
<1>2. Inv /\ [Next]_vars =>
        \A c \in Cart, k \in Key :
          record[c][k].response # Nothing /\ k \notin ended =>
            record'[c][k].response = record[c][k].response
  BY <1>1
<1>3. QED
  BY <1>2, InvAlways, PTL DEF Spec, AnswerIsFinal

----------------------------------------------------------------------------
(* Storefront: the shapes of its state and what holds of them. *)

Coupons == {NoCoupon, "any", "cash"}
Pages == {"menu", "pay", "status", "redirected"}
Kinds == {"checkout", "create", "couponSync", "get", "coupon", "uncoupon", "submit"}
Validating == {"checkout", "create", "couponSync"}

(* Lines of the basket, of a request and of a validated cart. *)
BasketLine(Q) == [id : Nat \X Nat, prod : Products, qty : Q, addon : BOOLEAN, price : Nat]
Sent == [prod : Products, qty : 1..MaxUnits, addon : BOOLEAN, confirmed : Nat]
Sold == [prod : Products, qty : 1..MaxUnits, addon : BOOLEAN, unit : Nat]
Lines == Seq(BasketLine(1..MaxUnits))

Basket == [items : Lines, cartId : Nat, coupon : Coupons, discount : Nat,
           sync : {"idle", "syncing", "ready", "error"}]
StoredCart == [status : {"validated", "converted", "expired"}, version : Nat,
         lines : Seq(Sold), coupon : Coupons, discount : Nat]
Official == [id : Nat, version : Nat, lines : Seq(Sold), coupon : Coupons, discount : Nat]
PayPage == [visit : Nat, official : {NoCart} \cup Official, loading : BOOLEAN,
            isSubmitting : BOOLEAN, submittingRef : BOOLEAN,
            leaving : {"no", "status", "redirected"}, failed : BOOLEAN, busy : BOOLEAN]
ACall == [kind : Kinds, state : {"sent", "answered"}, answer : {Lost} \cup Official,
          live : BOOLEAN, visit : Nat, from : Pages, cart : Nat, items : Lines,
          coupon : Coupons, discount : Nat, version : Nat,
          method : {"none", "cash", "mercadopago"}, shown : Int, suppressed : BOOLEAN]
Backup == [items : Lines, coupon : Coupons, discount : Nat]

(* The server's side. *)
StoreOK ==
  /\ price \in [Products -> Nat]
  /\ promo \in [state : {"active", "off", "deleted"}, tender : {"any", "cash"}, value : Savings]
  /\ carts \in Seq(StoredCart) /\ Len(carts) <= MaxCarts
  /\ \A k \in DOMAIN carts : carts[k].discount <= CartSubtotal(carts[k].lines)

(* What the browser was told of a cart is what the cart was at that version. *)
Known(a) ==
  a # Lost =>
    /\ a.id \in DOMAIN carts
    /\ a.lines = carts[a.id].lines
    /\ a.version <= carts[a.id].version
    /\ a.version = carts[a.id].version => /\ a.coupon = carts[a.id].coupon
                                          /\ a.discount = carts[a.id].discount

(* What a request adds up to at the prices it confirms. *)
Confirmed(sent) ==
  [i \in DOMAIN sent |->
     [prod |-> sent[i].prod, qty |-> sent[i].qty, addon |-> sent[i].addon,
      unit |-> sent[i].confirmed + (IF sent[i].addon THEN AddonPrice ELSE 0)]]

(* A cart that was validated is the basket that was sent. *)
Fits(c) ==
  c.kind \in Validating /\ c.answer # Lost =>
    c.answer.lines = Confirmed(cartLinesToSnapshots(c.items))

(* What a submission shows is the total of its cart at its version. *)
ShowsTotal(c) ==
  c.kind = "submit" =>
    /\ c.cart \in DOMAIN carts
    /\ c.version <= carts[c.cart].version
    /\ c.version = carts[c.cart].version =>
         c.shown = CartSubtotal(carts[c.cart].lines)
                     - (IF c.suppressed THEN 0 ELSE carts[c.cart].discount)

CallOK(c) == c \in ACall /\ Known(c.answer) /\ Fits(c) /\ ShowsTotal(c)
CallsOK == /\ calls \in [Slots -> {NoCall} \cup ACall]
           /\ \A s \in Slots : calls[s] # NoCall => CallOK(calls[s])

BasketOK == ctx \in Basket /\ ctx.cartId <= Len(carts)

PageOK ==
  /\ page \in Pages /\ due \subseteq {"match", "resolve", "render"}
  /\ pay \in PayPage /\ Known(pay.official)
  /\ backup \in {NoCart} \cup Backup

(* Submissions are of visits up to this one, and this visit's holds its page. *)
VisitsOK ==
  /\ OneSubmitPerVisit
  /\ \A s \in Slots : calls[s].kind = "submit" =>
       /\ calls[s].visit <= pay.visit
       /\ page = "pay" /\ calls[s].visit = pay.visit => pay.submittingRef

StorefrontInv ==
  /\ StoreOK /\ CallsOK /\ BasketOK /\ PageOK /\ VisitsOK /\ PaysWhatWasShown

----------------------------------------------------------------------------
(* Folds. *)

(* A set of numbers with a member has a least one. *)
LEMMA HasLeast ==
  ASSUME NEW U \in SUBSET Nat, U # {}
  PROVE  \E m \in U : \A y \in U : m <= y
<1>1. PICK m \in U : \A y \in U : <<y, m>> \notin OpToRel(<, Nat)
  BY WFMin, NatLessThanWellFounded
<1>2. \A y \in U : ~(y < m)
  BY <1>1 DEF OpToRel
<1>3. QED
  BY <1>2

(* What holds at 0 and at m + 1 with m holds up to n. *)
LEMMA Climb ==
  ASSUME NEW n \in Nat, NEW Good0, 0 \in Good0,
         \A m \in 0..(n - 1) : m \in Good0 => m + 1 \in Good0
  PROVE  \A m \in 0..n : m \in Good0
<1> DEFINE bad == {m \in 0..n : m \notin Good0}
<1>1. SUFFICES ASSUME bad # {} PROVE FALSE
  OBVIOUS
<1>2. bad \in SUBSET Nat
  OBVIOUS
<1>3. PICK m \in bad : \A y \in bad : m <= y
  BY <1>1, <1>2, HasLeast
<1>4. m \in 0..n /\ m # 0 /\ m \notin Good0
  BY <1>3
<1>5. m - 1 \in 0..(n - 1) /\ m - 1 \notin bad
  BY <1>3, <1>4
<1>6. m - 1 \in Good0
  BY <1>5
<1>7. QED
  BY <1>4, <1>5, <1>6

(* The largest of the numbers up to n + 1 that are in a set. *)
LEMMA MaxIs ==
  ASSUME NEW n \in Nat, NEW s \in SUBSET (1..(n + 1)), n + 1 \in s
  PROVE  Max(s) = n + 1
<1>1. \A y \in s : n + 1 >= y
  OBVIOUS
<1>2. \A x \in s : (\A y \in s : x >= y) => x = n + 1
  OBVIOUS
<1>3. QED
  BY <1>1, <1>2 DEF Max

(* One step of a fold that takes the last number of a set first. *)
StepOf(it, base, g, s) == IF s = {} THEN base ELSE g[Max(s)][it[s \ {Max(s)}]]

Foldable(n, V, base, g) ==
  \E it \in [SUBSET (1..n) -> V] :
    \A s \in SUBSET (1..n) : it[s] = StepOf(it, base, g, s)

(* A recursion over the sets of numbers up to n has a solution. *)
LEMMA FoldExists ==
  ASSUME NEW n \in Nat, NEW V, NEW base \in V, NEW g \in [1..n -> [V -> V]]
  PROVE  Foldable(n, V, base, g)
<1> DEFINE Sol(m) == {it \in [SUBSET (1..m) -> V] :
                        \A s \in SUBSET (1..m) : it[s] = StepOf(it, base, g, s)}
           ok == {m \in 0..n : Sol(m) # {}}
<1>1. 0 \in ok
  <2> DEFINE it == [s \in SUBSET (1..0) |-> base]
  <2>1. \A s \in SUBSET (1..0) : s = {}
    OBVIOUS
  <2>2. it \in [SUBSET (1..0) -> V]
    OBVIOUS
  <2>3. \A s \in SUBSET (1..0) : it[s] = StepOf(it, base, g, s)
    BY <2>1 DEF StepOf
  <2>4. it \in Sol(0)
    BY <2>2, <2>3
  <2>5. 0 \in 0..n
    OBVIOUS
  <2> HIDE DEF Sol
  <2>6. QED
    BY <2>4, <2>5
<1>2. ASSUME NEW m \in 0..(n - 1), m \in ok PROVE m + 1 \in ok
  <2>1. PICK it \in Sol(m) : TRUE
    BY <1>2
  <2>2. it \in [SUBSET (1..m) -> V] /\ \A s \in SUBSET (1..m) : it[s] = StepOf(it, base, g, s)
    BY <2>1
  <2> HIDE DEF Sol
  <2>3. m \in Nat /\ m + 1 \in 1..n
    OBVIOUS
  <2> DEFINE new == [s \in SUBSET (1..(m + 1)) |->
                       IF m + 1 \in s THEN g[m + 1][it[s \ {m + 1}]] ELSE it[s]]
  <2>4. \A s \in SUBSET (1..(m + 1)) : s \ {m + 1} \in SUBSET (1..m)
    BY <2>3
  <2>5. \A s \in SUBSET (1..(m + 1)) : m + 1 \notin s => s \in SUBSET (1..m)
    BY <2>3
  <2>6. g[m + 1] \in [V -> V]
    BY <2>3
  <2>7. new \in [SUBSET (1..(m + 1)) -> V]
    BY <2>2, <2>4, <2>5, <2>6
  <2>8. \A s \in SUBSET (1..m) : s \in SUBSET (1..(m + 1)) /\ new[s] = it[s]
    BY <2>3
  <2>9. ASSUME NEW s \in SUBSET (1..(m + 1)) PROVE new[s] = StepOf(new, base, g, s)
    <3>1. CASE m + 1 \in s
      <4>1. Max(s) = m + 1 /\ s # {}
        BY <2>3, <3>1, MaxIs
      <4>2. new[s \ {m + 1}] = it[s \ {m + 1}]
        BY <2>4, <2>8
      <4>3. new[s] = g[m + 1][it[s \ {m + 1}]]
        BY <3>1
      <4>4. QED
        BY <4>1, <4>2, <4>3 DEF StepOf
    <3>2. CASE m + 1 \notin s
      <4>1. s \in SUBSET (1..m) /\ s \ {Max(s)} \in SUBSET (1..m)
        BY <2>5, <3>2
      <4>2. new[s] = it[s] /\ new[s \ {Max(s)}] = it[s \ {Max(s)}]
        BY <2>8, <4>1
      <4>3. it[s] = StepOf(it, base, g, s)
        BY <2>2, <4>1
      <4>4. QED
        BY <4>2, <4>3 DEF StepOf
    <3>3. QED
      BY <3>1, <3>2
  <2>10. new \in Sol(m + 1)
    BY <2>7, <2>9 DEF Sol
  <2>11. QED
    BY <2>3, <2>10
<1>3. \A m \in 0..n : m \in ok
  <2> HIDE DEF ok
  <2>1. \A m \in 0..(n - 1) : m \in ok => m + 1 \in ok
    BY <1>2
  <2>2. QED
    BY <1>1, <2>1, Climb
<1>4. n \in ok
  <2> HIDE DEF ok
  <2>1. QED
    BY <1>3
<1>5. QED
  BY <1>4 DEF Foldable

(* The same for a sum of weights. *)
IsSum(it, n, w) ==
  it = [s \in SUBSET (1..n) |-> IF s = {} THEN 0 ELSE it[s \ {Max(s)}] + w[Max(s)]]

(* The largest of a set of numbers up to n is one of them. *)
LEMMA MaxInside ==
  ASSUME NEW n \in Nat
  PROVE  \A s \in SUBSET (1..n) : s # {} => Max(s) \in 1..n /\ Max(s) \in s
<1> SUFFICES ASSUME NEW s \in SUBSET (1..n), s # {} PROVE Max(s) \in s
  OBVIOUS
<1> DEFINE U == {u \in Nat : \A x \in s : x <= u}
<1>1. U \in SUBSET Nat /\ n \in U
  OBVIOUS
<1>2. PICK m \in U : \A y \in U : m <= y
  <2> HIDE DEF U
  <2>1. QED
    BY <1>1, HasLeast
<1>3. m \in s
  <2>1. SUFFICES ASSUME m \notin s PROVE FALSE
    OBVIOUS
  <2>2. PICK x \in s : TRUE
    OBVIOUS
  <2>3. m - 1 \in U
    BY <1>2, <2>1, <2>2
  <2>4. QED
    BY <1>2, <2>3
<1>4. \A y \in s : m >= y
  BY <1>2
<1>5. QED
  BY <1>3, <1>4 DEF Max

(* A sum over the numbers up to n has a solution. *)
LEMMA SumExists ==
  ASSUME NEW n \in Nat, NEW w \in [1..n -> Nat]
  PROVE  \E it : IsSum(it, n, w)
<1> DEFINE g == [i \in 1..n |-> [v \in Nat |-> v + w[i]]]
<1>1. g \in [1..n -> [Nat -> Nat]]
  OBVIOUS
<1>2. PICK it \in [SUBSET (1..n) -> Nat] :
        \A s \in SUBSET (1..n) : it[s] = StepOf(it, 0, g, s)
  <2>1. 0 \in Nat
    OBVIOUS
  <2> HIDE DEF g
  <2>2. Foldable(n, Nat, 0, g)
    BY <1>1, <2>1, FoldExists
  <2>3. QED
    BY <2>2 DEF Foldable
<1>3. ASSUME NEW s \in SUBSET (1..n)
      PROVE  it[s] = IF s = {} THEN 0 ELSE it[s \ {Max(s)}] + w[Max(s)]
  <2>1. CASE s # {}
    <3>1. Max(s) \in 1..n
      BY <2>1, MaxInside
    <3>2. it[s \ {Max(s)}] \in Nat
      OBVIOUS
    <3>3. QED
      BY <1>2, <2>1, <3>1, <3>2 DEF StepOf
  <2>2. QED
    BY <1>2, <2>1 DEF StepOf
<1>4. QED
  BY <1>3 DEF IsSum

(* The running totals of a sum. *)
Totals(p, n, w) ==
  /\ p \in [0..n -> Nat]
  /\ p[0] = 0
  /\ \A m \in 1..n : p[m] = p[m - 1] + w[m]

(* A sum over the numbers up to n ends its running totals. *)
LEMMA SumRuns ==
  ASSUME NEW n \in Nat, NEW w \in [1..n -> Nat], NEW it, IsSum(it, n, w)
  PROVE  \E p : Totals(p, n, w) /\ it[1..n] = p[n]
<1> DEFINE p == [m \in 0..n |-> it[1..m]]
<1>1. p[0] = 0
  <2>1. 1..0 = {} /\ {} \in SUBSET (1..n) /\ 0 \in 0..n
    OBVIOUS
  <2>2. QED
    BY <2>1 DEF IsSum
<1>2. ASSUME NEW m \in 1..n PROVE p[m] = p[m - 1] + w[m]
  <2>1. m - 1 \in Nat /\ m = (m - 1) + 1 /\ 1..m \in SUBSET (1..n) /\ m \in 1..m
    OBVIOUS
  <2>2. Max(1..m) = m
    BY <2>1, MaxIs
  <2>3. (1..m) \ {m} = 1..(m - 1)
    OBVIOUS
  <2>4. it[1..m] = it[1..(m - 1)] + w[m]
    BY <2>1, <2>2, <2>3 DEF IsSum
  <2>5. QED
    BY <2>1, <2>4
<1>3. \A m \in 0..n : p[m] \in Nat
  <2> DEFINE ok == {m \in 0..n : p[m] \in Nat}
  <2>1. 0 \in ok
    BY <1>1
  <2>2. ASSUME NEW m \in 0..(n - 1), m \in ok PROVE m + 1 \in ok
    <3>1. m + 1 \in 1..n /\ (m + 1) - 1 = m
      OBVIOUS
    <3>2. p[m + 1] = p[m] + w[m + 1]
      BY <1>2, <3>1
    <3>3. QED
      BY <2>2, <3>1, <3>2
  <2>3. \A m \in 0..n : m \in ok
    <3> HIDE DEF ok
    <3>1. QED
      BY <2>1, <2>2, Climb
  <2>4. QED
    BY <2>3
<1>4. p \in [0..n -> Nat] /\ it[1..n] = p[n]
  BY <1>3
<1> HIDE DEF p
<1>5. QED
  BY <1>1, <1>2, <1>4 DEF Totals

(* The total of a cart is the last of its running totals. *)
LEMMA CartSubtotalRuns ==
  ASSUME NEW n \in Nat, NEW lines, DOMAIN lines = 1..n,
         \A i \in 1..n : LineTotal(lines[i]) \in Nat
  PROVE  \E p : /\ Totals(p, n, [i \in 1..n |-> LineTotal(lines[i])])
                /\ CartSubtotal(lines) = p[n]
<1> DEFINE w == [i \in 1..n |-> LineTotal(lines[i])]
           Rec(it) == it = [s \in SUBSET (1..n) |->
                             IF s = {} THEN 0 ELSE it[s \ {Max(s)}] + LineTotal(lines[Max(s)])]
<1>1. CartSubtotal(lines) = (CHOOSE it : Rec(it))[1..n]
  BY DEF CartSubtotal, FoldLeft, MapThenFoldSet
<1>2. w \in [1..n -> Nat]
  OBVIOUS
<1>3. ASSUME NEW it PROVE Rec(it) <=> IsSum(it, n, w)
  <2>1. \A s \in SUBSET (1..n) : s # {} => w[Max(s)] = LineTotal(lines[Max(s)])
    BY MaxInside
  <2> HIDE DEF w
  <2>2. QED
    BY <2>1 DEF IsSum
<1> HIDE DEF w, Rec
<1>4. Rec(CHOOSE it : Rec(it))
  BY <1>2, <1>3, SumExists
<1>5. \E p : Totals(p, n, w) /\ (CHOOSE it : Rec(it))[1..n] = p[n]
  BY <1>2, <1>3, <1>4, SumRuns
<1>6. QED
  BY <1>1, <1>5 DEF w

(* The units of a basket are the last of their running totals. *)
LEMMA ItemCountRuns ==
  ASSUME NEW n \in Nat, NEW ls, DOMAIN ls = 1..n,
         \A i \in 1..n : ls[i].qty \in Nat
  PROVE  \E p : /\ Totals(p, n, [i \in 1..n |-> ls[i].qty])
                /\ itemCount(ls) = p[n]
<1> DEFINE w == [i \in 1..n |-> ls[i].qty]
           Rec(it) == it = [s \in SUBSET (1..n) |->
                             IF s = {} THEN 0 ELSE it[s \ {Max(s)}] + ls[Max(s)].qty]
<1>1. itemCount(ls) = (CHOOSE it : Rec(it))[1..n]
  BY DEF itemCount, FoldLeft, MapThenFoldSet
<1>2. w \in [1..n -> Nat]
  OBVIOUS
<1>3. ASSUME NEW it PROVE Rec(it) <=> IsSum(it, n, w)
  <2>1. \A s \in SUBSET (1..n) : s # {} => w[Max(s)] = ls[Max(s)].qty
    BY MaxInside
  <2> HIDE DEF w
  <2>2. QED
    BY <2>1 DEF IsSum
<1> HIDE DEF w, Rec
<1>4. Rec(CHOOSE it : Rec(it))
  BY <1>2, <1>3, SumExists
<1>5. \E p : Totals(p, n, w) /\ (CHOOSE it : Rec(it))[1..n] = p[n]
  BY <1>2, <1>3, <1>4, SumRuns
<1>6. QED
  BY <1>1, <1>5 DEF w

(* So is what the ticket adds up to. *)
LEMMA SubtotalRuns ==
  ASSUME NEW n \in Nat, NEW ls, DOMAIN ls = 1..n,
         \A i \in 1..n : getCartLineSubtotal(ls[i]) \in Nat
  PROVE  \E p : /\ Totals(p, n, [i \in 1..n |-> getCartLineSubtotal(ls[i])])
                /\ subtotal(ls) = p[n]
<1> DEFINE w == [i \in 1..n |-> getCartLineSubtotal(ls[i])]
           Rec(it) == it = [s \in SUBSET (1..n) |->
                             IF s = {} THEN 0
                             ELSE it[s \ {Max(s)}] + getCartLineSubtotal(ls[Max(s)])]
<1>1. subtotal(ls) = (CHOOSE it : Rec(it))[1..n]
  BY DEF subtotal, FoldLeft, MapThenFoldSet
<1>2. w \in [1..n -> Nat]
  OBVIOUS
<1>3. ASSUME NEW it PROVE Rec(it) <=> IsSum(it, n, w)
  <2>1. \A s \in SUBSET (1..n) : s # {} => w[Max(s)] = getCartLineSubtotal(ls[Max(s)])
    BY MaxInside
  <2> HIDE DEF w
  <2>2. QED
    BY <2>1 DEF IsSum
<1> HIDE DEF w, Rec
<1>4. Rec(CHOOSE it : Rec(it))
  BY <1>2, <1>3, SumExists
<1>5. \E p : Totals(p, n, w) /\ (CHOOSE it : Rec(it))[1..n] = p[n]
  BY <1>2, <1>3, <1>4, SumRuns
<1>6. QED
  BY <1>1, <1>5 DEF w

(* No weight is above the total. *)
LEMMA TotalCovers ==
  ASSUME NEW n \in Nat, NEW w \in [1..n -> Nat], NEW p, Totals(p, n, w), NEW i \in 1..n
  PROVE  w[i] <= p[n]
<1> DEFINE ok == {m \in 0..n : i <= m => w[i] <= p[m]}
<1>1. 0 \in ok
  OBVIOUS
<1>2. ASSUME NEW m \in 0..(n - 1), m \in ok PROVE m + 1 \in ok
  <2>1. m + 1 \in 1..n /\ (m + 1) - 1 = m /\ m \in 0..n
    OBVIOUS
  <2>2. p[m + 1] = p[m] + w[m + 1] /\ p[m] \in Nat /\ w[m + 1] \in Nat /\ w[i] \in Nat
    BY <2>1 DEF Totals
  <2>3. i <= m => w[i] <= p[m]
    BY <1>2
  <2>4. i <= m + 1 => w[i] <= p[m + 1]
    BY <2>1, <2>2, <2>3
  <2>5. QED
    BY <2>1, <2>4
<1>3. \A m \in 0..n : m \in ok
  <2> HIDE DEF ok
  <2>1. QED
    BY <1>1, <1>2, Climb
<1>4. QED
  BY <1>3

(* Two sums with the same weights up to m have the same totals up to m. *)
LEMMA TotalsAgree ==
  ASSUME NEW n \in Nat, NEW k \in Nat, NEW m \in Nat, m <= n, m <= k,
         NEW v \in [1..n -> Nat], NEW w \in [1..k -> Nat],
         \A i \in 1..m : v[i] = w[i],
         NEW p, Totals(p, n, v), NEW q, Totals(q, k, w)
  PROVE  p[m] = q[m]
<1> DEFINE ok == {j \in 0..m : p[j] = q[j]}
<1>1. 0 \in ok
  BY DEF Totals
<1>2. ASSUME NEW j \in 0..(m - 1), j \in ok PROVE j + 1 \in ok
  <2>1. j + 1 \in 1..n /\ j + 1 \in 1..k /\ (j + 1) - 1 = j /\ j + 1 \in 1..m
    OBVIOUS
  <2>2. p[j + 1] = p[j] + v[j + 1] /\ q[j + 1] = q[j] + w[j + 1]
    BY <2>1 DEF Totals
  <2>3. QED
    BY <1>2, <2>1, <2>2
<1>3. \A j \in 0..m : j \in ok
  <2> HIDE DEF ok
  <2>1. QED
    BY <1>1, <1>2, Climb
<1>4. QED
  BY <1>3

(* The requests of the lines, put together from left to right. *)
Joined(r, n, ls, S) ==
  /\ r \in [0..n -> Seq(S)]
  /\ r[0] = <<>>
  /\ \A m \in 1..n : r[m] = r[m - 1] \o Snapshot(ls[m])

(* The request of a basket ends the requests put together. *)
LEMMA SnapshotsJoin ==
  ASSUME NEW n \in Nat, NEW ls, DOMAIN ls = 1..n, NEW S,
         \A i \in 1..n : Snapshot(ls[i]) \in Seq(S)
  PROVE  \E r : Joined(r, n, ls, S) /\ cartLinesToSnapshots(ls) = r[n]
<1> DEFINE Rec(it) == it = [s \in SUBSET (1..n) |->
                         IF s = {} THEN <<>> ELSE it[s \ {Max(s)}] \o Snapshot(ls[Max(s)])]
           g == [i \in 1..n |-> [v \in Seq(S) |-> v \o Snapshot(ls[i])]]
<1>1. cartLinesToSnapshots(ls) = (CHOOSE it : Rec(it))[1..n]
  BY DEF cartLinesToSnapshots, FoldLeft, MapThenFoldSet
<1>2. <<>> \in Seq(S) /\ g \in [1..n -> [Seq(S) -> Seq(S)]]
  <2>1. ASSUME NEW i \in 1..n, NEW v \in Seq(S) PROVE v \o Snapshot(ls[i]) \in Seq(S)
    OBVIOUS
  <2>2. QED
    BY <2>1
<1>3. Foldable(n, Seq(S), <<>>, g)
  <2> HIDE DEF g
  <2>1. QED
    BY <1>2, FoldExists
<1>4. PICK it0 \in [SUBSET (1..n) -> Seq(S)] :
        \A s \in SUBSET (1..n) : it0[s] = StepOf(it0, <<>>, g, s)
  BY <1>3 DEF Foldable
<1>5. ASSUME NEW s \in SUBSET (1..n)
      PROVE  it0[s] = IF s = {} THEN <<>> ELSE it0[s \ {Max(s)}] \o Snapshot(ls[Max(s)])
  <2>1. CASE s # {}
    <3>1. Max(s) \in 1..n
      BY <2>1, MaxInside
    <3>2. it0[s \ {Max(s)}] \in Seq(S)
      OBVIOUS
    <3>3. QED
      BY <1>4, <2>1, <3>1, <3>2 DEF StepOf
  <2>2. QED
    BY <1>4, <2>1 DEF StepOf
<1>6. Rec(it0)
  BY <1>5
<1> DEFINE it == CHOOSE f : Rec(f)
<1>7. Rec(it)
  <2> HIDE DEF Rec
  <2>1. QED
    BY <1>6
<1>8. \A s \in SUBSET (1..n) :
        it[s] = IF s = {} THEN <<>> ELSE it[s \ {Max(s)}] \o Snapshot(ls[Max(s)])
  <2> HIDE DEF it
  <2>1. QED
    BY <1>7
<1> HIDE DEF it, Rec, g
<1> DEFINE r == [m \in 0..n |-> it[1..m]]
<1>9. r[0] = <<>>
  <2>1. 1..0 = {} /\ {} \in SUBSET (1..n) /\ 0 \in 0..n
    OBVIOUS
  <2>2. QED
    BY <1>8, <2>1
<1>10. ASSUME NEW m \in 1..n PROVE r[m] = r[m - 1] \o Snapshot(ls[m])
  <2>1. m - 1 \in Nat /\ m = (m - 1) + 1 /\ 1..m \in SUBSET (1..n) /\ m \in 1..m
    OBVIOUS
  <2>2. Max(1..m) = m
    BY <2>1, MaxIs
  <2>3. (1..m) \ {m} = 1..(m - 1)
    OBVIOUS
  <2>4. it[1..m] = it[1..(m - 1)] \o Snapshot(ls[m])
    BY <1>8, <2>1, <2>2, <2>3
  <2>5. QED
    BY <2>1, <2>4
<1>11. \A m \in 0..n : r[m] \in Seq(S)
  <2> DEFINE ok == {m \in 0..n : r[m] \in Seq(S)}
  <2> HIDE DEF r
  <2>0. r[0] \in Seq(S)
    BY <1>2, <1>9
  <2>1. 0 \in ok
    BY <2>0
  <2>2. ASSUME NEW m \in 0..(n - 1), m \in ok PROVE m + 1 \in ok
    <3>1. m + 1 \in 1..n /\ (m + 1) - 1 = m
      OBVIOUS
    <3>2. r[m + 1] = r[m] \o Snapshot(ls[m + 1])
      BY <1>10, <3>1
    <3>3. r[m] \in Seq(S) /\ Snapshot(ls[m + 1]) \in Seq(S)
      BY <2>2, <3>1
    <3>4. r[m + 1] \in Seq(S)
      BY <3>2, <3>3
    <3>5. m + 1 \in 0..n
      BY <3>1
    <3>6. QED
      BY <3>4, <3>5
  <2>3. \A m \in 0..n : m \in ok
    <3> HIDE DEF ok
    <3>1. QED
      BY <2>1, <2>2, Climb
  <2>4. QED
    BY <2>3
<1>12. r \in [0..n -> Seq(S)] /\ it[1..n] = r[n]
  BY <1>11
<1>13. cartLinesToSnapshots(ls) = it[1..n]
  BY <1>1 DEF it
<1> HIDE DEF r
<1>14. QED
  BY <1>9, <1>10, <1>12, <1>13 DEF Joined

----------------------------------------------------------------------------
(* What the lines of a basket are sent as. *)

(* The unit price without the add-on, and the line's total. *)
LEMMA BaseIsNat ==
  ASSUME NEW Q \in SUBSET Nat, NEW l \in BasketLine(Q)
  PROVE  /\ getCartLineBaseUnitPrice(l) \in Nat
         /\ getCartLineOptionsDelta(l) \in Nat
         /\ getCartLineSubtotal(l) \in Nat
<1>1. AddonPrice \in Nat /\ l.price \in Nat /\ l.qty \in Nat /\ l.addon \in BOOLEAN
  BY CartLinesAssumption DEF BasketLine
<1>2. getCartLineBaseUnitPrice(l) \in Nat /\ getCartLineOptionsDelta(l) \in Nat
  BY <1>1 DEF getCartLineBaseUnitPrice, getCartLineOptionsDelta
<1>3. getCartLineBaseUnitPrice(l) * l.qty \in Nat
  BY <1>1, <1>2
<1>4. QED
  BY <1>2, <1>3 DEF getCartLineSubtotal

(* A line is sent as one or two lines. *)
LEMMA SnapshotIsSent ==
  ASSUME MaxUnits \in Nat, NEW l \in BasketLine(1..MaxUnits)
  PROVE  Snapshot(l) \in Seq(Sent)
<1> DEFINE sent(qty, addon) == [prod |-> l.prod, qty |-> qty, addon |-> addon,
                                confirmed |-> getCartLineBaseUnitPrice(l)]
<1>1. /\ l.prod \in Products /\ l.qty \in 1..MaxUnits /\ l.addon \in BOOLEAN
      /\ getCartLineBaseUnitPrice(l) \in Nat
  <2>1. 1..MaxUnits \in SUBSET Nat
    OBVIOUS
  <2>2. QED
    BY <2>1, BaseIsNat DEF BasketLine
<1>2. \A qty \in 1..MaxUnits, addon \in BOOLEAN : sent(qty, addon) \in Sent
  BY <1>1 DEF Sent
<1>3. CASE l.addon /\ l.qty > 1
  <2>1. 1 \in 1..MaxUnits /\ l.qty - 1 \in 1..MaxUnits
    BY <1>1, <1>3
  <2>2. sent(1, TRUE) \in Sent /\ sent(l.qty - 1, FALSE) \in Sent
    BY <1>2, <2>1
  <2>3. Snapshot(l) = <<sent(1, TRUE), sent(l.qty - 1, FALSE)>>
    BY <1>3 DEF Snapshot
  <2>4. \A a, b \in Sent : <<a, b>> \in Seq(Sent)
    OBVIOUS
  <2> HIDE DEF sent
  <2>5. QED
    BY <2>2, <2>3, <2>4
<1>4. CASE ~(l.addon /\ l.qty > 1)
  <2>1. sent(l.qty, l.addon) \in Sent
    BY <1>1, <1>2
  <2>2. Snapshot(l) = <<sent(l.qty, l.addon)>>
    BY <1>4 DEF Snapshot
  <2> HIDE DEF sent
  <2>3. QED
    BY <2>1, <2>2
<1>5. QED
  BY <1>3, <1>4

(* What is sent of a basket. *)
LEMMA RequestIsSent ==
  ASSUME MaxUnits \in Nat, NEW ls \in Lines
  PROVE  cartLinesToSnapshots(ls) \in Seq(Sent)
<1>1. Len(ls) \in Nat /\ DOMAIN ls = 1..Len(ls)
      /\ \A i \in 1..Len(ls) : ls[i] \in BasketLine(1..MaxUnits)
  BY DEF Lines
<1>2. \A i \in 1..Len(ls) : Snapshot(ls[i]) \in Seq(Sent)
  BY <1>1, SnapshotIsSent
<1>3. PICK r : Joined(r, Len(ls), ls, Sent) /\ cartLinesToSnapshots(ls) = r[Len(ls)]
  BY <1>1, <1>2, SnapshotsJoin
<1>4. QED
  BY <1>1, <1>3 DEF Joined

(* The total of a validated cart is a number. *)
LEMMA SoldTotal ==
  ASSUME MaxUnits \in Nat, NEW lines \in Seq(Sold)
  PROVE  CartSubtotal(lines) \in Nat
<1>1. Len(lines) \in Nat /\ DOMAIN lines = 1..Len(lines)
      /\ \A i \in 1..Len(lines) : lines[i] \in Sold
  OBVIOUS
<1>2. \A i \in 1..Len(lines) : LineTotal(lines[i]) \in Nat
  BY <1>1 DEF LineTotal, Sold
<1>3. PICK p : /\ Totals(p, Len(lines), [i \in 1..Len(lines) |-> LineTotal(lines[i])])
               /\ CartSubtotal(lines) = p[Len(lines)]
  BY <1>1, <1>2, CartSubtotalRuns
<1>4. QED
  BY <1>1, <1>3 DEF Totals

(* No line has more units than the basket. *)
LEMMA UnitsCovered ==
  ASSUME NEW ls \in Seq(BasketLine(Nat))
  PROVE  /\ itemCount(ls) \in Nat
         /\ \A i \in DOMAIN ls : ls[i].qty <= itemCount(ls)
<1> DEFINE n == Len(ls)
           w == [i \in 1..n |-> ls[i].qty]
<1>1. n \in Nat /\ DOMAIN ls = 1..n /\ \A i \in 1..n : ls[i] \in BasketLine(Nat)
  OBVIOUS
<1>2. \A i \in 1..n : ls[i].qty \in Nat
  BY <1>1 DEF BasketLine
<1>3. w \in [1..n -> Nat] /\ \A i \in 1..n : w[i] = ls[i].qty
  BY <1>2
<1> HIDE DEF n
<1>4. PICK p : Totals(p, n, w) /\ itemCount(ls) = p[n]
  BY <1>1, <1>2, ItemCountRuns
<1> HIDE DEF w
<1>5. \A i \in 1..n : w[i] <= p[n]
  BY <1>1, <1>3, <1>4, TotalCovers
<1>6. p[n] \in Nat
  BY <1>1, <1>4 DEF Totals
<1>7. QED
  BY <1>1, <1>3, <1>4, <1>5, <1>6

(* A basket with at most MaxUnits units. *)
LEMMA FewUnits ==
  ASSUME MaxUnits \in Nat, NEW ls \in Seq(BasketLine(Nat \ {0})), itemCount(ls) <= MaxUnits
  PROVE  ls \in Lines
<1>1. ls \in Seq(BasketLine(Nat))
  <2>1. \A l \in BasketLine(Nat \ {0}) : l \in BasketLine(Nat)
    BY DEF BasketLine
  <2>2. QED
    BY <2>1
<1>2. ASSUME NEW i \in 1..Len(ls) PROVE ls[i] \in BasketLine(1..MaxUnits)
  <2>1. ls[i] \in BasketLine(Nat \ {0}) /\ i \in DOMAIN ls
    OBVIOUS
  <2>2. ls[i].qty \in Nat \ {0} /\ ls[i].qty <= itemCount(ls) /\ itemCount(ls) \in Nat
    BY <1>1, <2>1, UnitsCovered DEF BasketLine
  <2>3. ls[i].qty \in 1..MaxUnits
    BY <2>2
  <2>4. QED
    BY <2>1, <2>3 DEF BasketLine
<1>3. QED
  BY <1>2 DEF Lines

----------------------------------------------------------------------------
(* Edits of the ticket. *)

Positive == Nat \ {0}

(* Every basket within the bound is a basket. *)
LEMMA LinesAreLines ==
  ASSUME MaxUnits \in Nat, NEW ls \in Lines
  PROVE  ls \in Seq(BasketLine(Positive))
<1>1. \A l \in BasketLine(1..MaxUnits) : l \in BasketLine(Positive)
  BY DEF BasketLine, Positive
<1>2. QED
  BY <1>1 DEF Lines

(* The first of some places is one of them. *)
LEMMA FirstIs ==
  ASSUME NEW n \in Nat, NEW S \in SUBSET (1..n)
  PROVE  First(S) = 0 \/ First(S) \in S
<1>1. CASE S # {}
  <2>1. S \in SUBSET Nat
    OBVIOUS
  <2>2. \E m \in S : \A y \in S : m <= y
    BY <1>1, <2>1, HasLeast
  <2>3. QED
    BY <1>1, <2>2 DEF First
<1>2. QED
  BY <1>1 DEF First

(* The lines that an edit finds are lines of the ticket. *)
LEMMA PlacesAre ==
  ASSUME NEW Q, NEW ls \in Seq(BasketLine(Q)), NEW key, NEW t
  PROVE  /\ TargetIndex(ls, key) = 0 \/ TargetIndex(ls, key) \in 1..Len(ls)
         /\ Sibling(ls, t) = 0 \/ Sibling(ls, t) \in 1..Len(ls)
<1>1. DOMAIN ls = 1..Len(ls) /\ Len(ls) \in Nat
  OBVIOUS
<1>2. {i \in DOMAIN ls : ls[i].id = key} \in SUBSET (1..Len(ls))
      /\ {i \in DOMAIN ls : cartLineId(ls[i].prod, FALSE) = key} \in SUBSET (1..Len(ls))
      /\ {i \in DOMAIN ls \ {t} : ls[i].prod = ls[t].prod /\ ~ls[i].addon}
           \in SUBSET (1..Len(ls))
  BY <1>1
<1>3. \A S \in SUBSET (1..Len(ls)) : First(S) = 0 \/ First(S) \in 1..Len(ls)
  BY <1>1, FirstIs
<1>4. QED
  BY <1>2, <1>3 DEF TargetIndex, Sibling

(* A sequence without one of its members. *)
LEMMA RemoveIsSeq ==
  ASSUME NEW S, NEW s \in Seq(S), NEW i \in 1..Len(s)
  PROVE  RemoveAt(s, i) \in Seq(S)
<1>1. SubSeq(s, 1, i - 1) \in Seq(S) /\ SubSeq(s, i + 1, Len(s)) \in Seq(S)
  OBVIOUS
<1>2. QED
  BY <1>1 DEF RemoveAt

(* The identity of a line the server has not named. *)
LEMMA IdIs ==
  ASSUME NEW p \in Products, NEW addon \in BOOLEAN
  PROVE  cartLineId(p, addon) \in Nat \X Nat
BY CartLinesAssumption DEF cartLineId

(* Adding an item. *)
LEMMA AddIs ==
  ASSUME NEW ls \in Seq(BasketLine(Positive)), NEW p \in Products, NEW addon \in BOOLEAN,
         NEW base \in Nat
  PROVE  addItem(ls, p, addon, base) \in Seq(BasketLine(Positive))
<1> DEFINE new == NewLine(p, addon, base)
           id == cartLineId(p, addon)
<1>1. new \in BasketLine(Positive)
  BY IdIs, CartLinesAssumption DEF NewLine, BasketLine, Positive
<1>2. \A q \in Positive : [new EXCEPT !.qty = q + 1] \in BasketLine(Positive)
  <2>1. \A q \in Positive : q + 1 \in Positive
    BY DEF Positive
  <2>2. \A q \in Positive : [new EXCEPT !.qty = q] \in BasketLine(Positive)
    <3> HIDE DEF new
    <3>1. QED
      BY <1>1 DEF BasketLine
  <2> HIDE DEF new
  <2>3. QED
    BY <2>1, <2>2
<1>3. \A i \in 1..Len(ls) : ls[i] \in BasketLine(Positive) /\ ls[i].qty \in Positive
  <2>1. \A l \in BasketLine(Positive) : l.qty \in Positive
    BY DEF BasketLine
  <2>2. QED
    BY <2>1
<1> DEFINE grown == [i \in DOMAIN ls |->
                       IF ls[i].id = id THEN [new EXCEPT !.qty = ls[i].qty + 1] ELSE ls[i]]
<1>4. grown \in Seq(BasketLine(Positive))
  <2>1. DOMAIN ls = 1..Len(ls) /\ Len(ls) \in Nat
    OBVIOUS
  <2> HIDE DEF new, id
  <2>2. \A i \in 1..Len(ls) : grown[i] \in BasketLine(Positive)
    BY <1>2, <1>3, <2>1
  <2>3. grown = [i \in 1..Len(ls) |-> grown[i]]
    BY <2>1
  <2> HIDE DEF grown
  <2>4. QED
    BY <2>1, <2>2, <2>3
<1>5. Append(ls, new) \in Seq(BasketLine(Positive))
  <2> HIDE DEF new
  <2>1. QED
    BY <1>1
<1>6. addItem(ls, p, addon, base) = grown \/ addItem(ls, p, addon, base) = Append(ls, new)
  BY DEF addItem
<1>7. QED
  BY <1>4, <1>5, <1>6

(* An add-on moves to another line. *)
LEMMA TransferIs ==
  ASSUME NEW ls \in Seq(BasketLine(Positive)), NEW t \in 1..Len(ls), NEW s \in 1..Len(ls)
  PROVE  TransferAddon(ls, t, s) \in Seq(BasketLine(Positive))
<1> DEFINE moved == [ls EXCEPT ![s].addon = TRUE, ![s].price = ls[t].price,
                               ![s].id = cartLineId(ls[t].prod, TRUE)]
           line == [ls[s] EXCEPT !.addon = TRUE, !.price = ls[t].price,
                                 !.id = cartLineId(ls[t].prod, TRUE)]
<1>1. ls[s] \in BasketLine(Positive) /\ ls[t] \in BasketLine(Positive)
  OBVIOUS
<1>2. ls[t].price \in Nat /\ cartLineId(ls[t].prod, TRUE) \in Nat \X Nat
  BY <1>1, IdIs DEF BasketLine
<1>3. line \in BasketLine(Positive)
  BY <1>1, <1>2 DEF BasketLine
<1>4. moved = [ls EXCEPT ![s] = line]
  OBVIOUS
<1>5. moved \in Seq(BasketLine(Positive)) /\ Len(moved) = Len(ls)
  <2> HIDE DEF line
  <2>1. [ls EXCEPT ![s] = line] \in Seq(BasketLine(Positive))
        /\ Len([ls EXCEPT ![s] = line]) = Len(ls)
    BY <1>3
  <2> HIDE DEF moved
  <2>2. QED
    BY <1>4, <2>1
<1> HIDE DEF moved
<1>6. RemoveAt(moved, t) \in Seq(BasketLine(Positive))
  BY <1>5, RemoveIsSeq
<1>7. QED
  BY <1>6 DEF TransferAddon, moved

(* One unit less, a line less, an add-on less. *)
LEMMA LessIs ==
  ASSUME NEW ls \in Seq(BasketLine(Positive)), NEW key
  PROVE  /\ decrementItem(ls, key) \in Seq(BasketLine(Positive))
         /\ removeItem(ls, key) \in Seq(BasketLine(Positive))
         /\ removeAddonFromLine(ls, key) \in Seq(BasketLine(Positive))
<1> DEFINE t == TargetIndex(ls, key)
           s == Sibling(ls, t)
<1>1. (t = 0 \/ t \in 1..Len(ls)) /\ (s = 0 \/ s \in 1..Len(ls))
  BY PlacesAre
<1>2. ASSUME t # 0
      PROVE  RemoveAt(ls, t) \in Seq(BasketLine(Positive))
  BY <1>1, <1>2, RemoveIsSeq
<1>3. ASSUME t # 0, s # 0
      PROVE  TransferAddon(ls, t, s) \in Seq(BasketLine(Positive))
  BY <1>1, <1>3, TransferIs
<1>4. ASSUME t # 0, ls[t].qty # 1
      PROVE  [ls EXCEPT ![t].qty = @ - 1] \in Seq(BasketLine(Positive))
  <2>1. t \in 1..Len(ls) /\ ls[t] \in BasketLine(Positive)
    BY <1>1, <1>4
  <2>2. ls[t].qty - 1 \in Positive
    <3>1. PICK q \in Positive : q = ls[t].qty
      BY <2>1 DEF BasketLine
    <3>2. q - 1 \in Positive
      BY <1>4, <3>1 DEF Positive
    <3>3. QED
      BY <3>1, <3>2
  <2>3. [ls[t] EXCEPT !.qty = @ - 1] \in BasketLine(Positive)
    BY <2>1, <2>2 DEF BasketLine
  <2>4. [ls EXCEPT ![t].qty = @ - 1] = [ls EXCEPT ![t] = [ls[t] EXCEPT !.qty = @ - 1]]
    BY <2>1
  <2> DEFINE line == [ls[t] EXCEPT !.qty = @ - 1]
  <2> HIDE DEF line, t
  <2>5. [ls EXCEPT ![t] = line] \in Seq(BasketLine(Positive))
    BY <2>1, <2>3 DEF line
  <2>6. QED
    BY <2>4, <2>5 DEF line
<1> HIDE DEF t, s
<1>5. decrementItem(ls, key) \in Seq(BasketLine(Positive))
  BY <1>2, <1>3, <1>4 DEF decrementItem, t, s
<1>6. removeItem(ls, key) \in Seq(BasketLine(Positive))
  BY <1>2, <1>3 DEF removeItem, t, s
<1>7. removeAddonFromLine(ls, key) \in Seq(BasketLine(Positive))
  <2> DEFINE plain(l) == [l EXCEPT !.addon = FALSE, !.price = getCartLineBaseUnitPrice(l),
                                   !.id = cartLineId(l.prod, FALSE)]
             f == [i \in DOMAIN ls |->
                     IF ls[i].id = key /\ ls[i].addon THEN plain(ls[i]) ELSE ls[i]]
  <2>1. ASSUME NEW l \in BasketLine(Positive) PROVE plain(l) \in BasketLine(Positive)
    <3>1. getCartLineBaseUnitPrice(l) \in Nat /\ cartLineId(l.prod, FALSE) \in Nat \X Nat
      <4>1. Positive \in SUBSET Nat
        BY DEF Positive
      <4>2. l.prod \in Products
        BY DEF BasketLine
      <4>3. QED
        BY <4>1, <4>2, BaseIsNat, IdIs
    <3>2. QED
      BY <3>1 DEF BasketLine
  <2>2. DOMAIN ls = 1..Len(ls) /\ Len(ls) \in Nat
        /\ \A i \in 1..Len(ls) : ls[i] \in BasketLine(Positive)
    OBVIOUS
  <2> HIDE DEF plain
  <2>3. \A i \in 1..Len(ls) : f[i] \in BasketLine(Positive)
    BY <2>1, <2>2
  <2>4. f = [i \in 1..Len(ls) |-> f[i]]
    BY <2>2
  <2>5. removeAddonFromLine(ls, key) = f
    BY DEF removeAddonFromLine, plain
  <2> HIDE DEF f
  <2>6. QED
    BY <2>2, <2>3, <2>4, <2>5
<1>8. QED
  BY <1>5, <1>6, <1>7

----------------------------------------------------------------------------
(* What survives when carts move on. *)

(* A cart after a step is the cart before it, or a later version of its lines. *)
Kept(c, d) ==
  /\ d.lines = c.lines
  /\ c.version <= d.version
  /\ c.version = d.version => d.coupon = c.coupon /\ d.discount = c.discount

CartsMove ==
  /\ Len(carts) <= Len(carts')
  /\ \A k \in DOMAIN carts : k \in DOMAIN carts' /\ Kept(carts[k], carts'[k])

(* Carts that stay the same move on trivially. *)
LEMMA SameCarts ==
  ASSUME StoreOK, carts' = carts
  PROVE  CartsMove
<1>1. Len(carts) \in Nat /\ \A k \in DOMAIN carts : carts[k].version \in Nat
  <2>1. \A k \in DOMAIN carts : carts[k] \in StoredCart
    BY DEF StoreOK
  <2>2. QED
    BY <2>1 DEF StoreOK, StoredCart
<1>2. QED
  BY <1>1 DEF CartsMove, Kept

(* What the browser knows stays true. *)
LEMMA KnownStays ==
  ASSUME StoreOK, StoreOK', CartsMove, NEW a \in {Lost} \cup Official, Known(a)
  PROVE  Known(a)'
<1>1. CASE a # Lost
  <2>1. a \in Official /\ a.version \in Nat
    BY <1>1 DEF Official
  <2>2. a.id \in DOMAIN carts /\ a.lines = carts[a.id].lines
        /\ a.version <= carts[a.id].version
    BY <1>1 DEF Known
  <2>3. a.id \in DOMAIN carts' /\ Kept(carts[a.id], carts'[a.id])
    BY <2>2 DEF CartsMove
  <2>4. carts[a.id] \in StoredCart /\ carts'[a.id] \in StoredCart
    BY <2>2, <2>3 DEF StoreOK
  <2>5. carts[a.id].version \in Nat /\ carts'[a.id].version \in Nat
    BY <2>4 DEF StoredCart
  <2>6. QED
    BY <1>1, <2>1, <2>2, <2>3, <2>5 DEF Known, Kept
<1>2. QED
  BY <1>1 DEF Known

(* What holds of a call holds of it when carts move on. *)
LEMMA CallStays ==
  ASSUME StoreOK, StoreOK', CartsMove, NEW c, CallOK(c)
  PROVE  CallOK(c)'
<1>1. c \in ACall /\ Known(c.answer) /\ Fits(c) /\ ShowsTotal(c)
  BY DEF CallOK
<1>2. c.answer \in {Lost} \cup Official /\ c.version \in Nat
  BY <1>1 DEF ACall
<1>3. Known(c.answer)'
  BY <1>1, <1>2, KnownStays
<1>4. ShowsTotal(c)'
  <2>1. SUFFICES ASSUME c.kind = "submit" PROVE ShowsTotal(c)'
    BY DEF ShowsTotal
  <2>2. c.cart \in DOMAIN carts /\ c.version <= carts[c.cart].version
    BY <1>1, <2>1 DEF ShowsTotal
  <2>3. c.cart \in DOMAIN carts' /\ Kept(carts[c.cart], carts'[c.cart])
    BY <2>2 DEF CartsMove
  <2>4. carts[c.cart] \in StoredCart /\ carts'[c.cart] \in StoredCart
    BY <2>2, <2>3 DEF StoreOK
  <2>5. carts[c.cart].version \in Nat /\ carts'[c.cart].version \in Nat
    BY <2>4 DEF StoredCart
  <2>6. c.version <= carts'[c.cart].version
    BY <1>2, <2>2, <2>3, <2>5 DEF Kept
  <2>7. ASSUME c.version = carts'[c.cart].version
        PROVE  c.shown = CartSubtotal(carts'[c.cart].lines)
                           - (IF c.suppressed THEN 0 ELSE carts'[c.cart].discount)
    <3>1. c.version = carts[c.cart].version /\ carts[c.cart].version = carts'[c.cart].version
      BY <1>2, <2>2, <2>3, <2>5, <2>7 DEF Kept
    <3>2. /\ carts'[c.cart].lines = carts[c.cart].lines
          /\ carts'[c.cart].discount = carts[c.cart].discount
      BY <2>3, <3>1 DEF Kept
    <3>3. QED
      BY <1>1, <2>1, <3>1, <3>2 DEF ShowsTotal
  <2>8. QED
    BY <2>3, <2>6, <2>7 DEF ShowsTotal
<1>5. Fits(c)'
  BY <1>1 DEF Fits
<1>6. QED
  BY <1>1, <1>3, <1>4, <1>5 DEF CallOK

(* Every call of a step is an old one, or free, or sound. *)
LEMMA CallsStay ==
  ASSUME StoreOK, StoreOK', CartsMove, CallsOK,
         calls' \in [Slots -> {NoCall} \cup ACall],
         \A s \in Slots : calls'[s] = calls[s] \/ calls'[s] = NoCall
                            \/ \E c : calls'[s] = c /\ CallOK(c)'
  PROVE  CallsOK'
<1>1. ASSUME NEW s \in Slots, calls'[s] # NoCall
      PROVE  CallOK(calls[s])'
  <2>1. CASE calls'[s] = calls[s]
    <3>1. PICK c : c = calls[s]
      OBVIOUS
    <3>2. CallOK(c)
      BY <1>1, <2>1, <3>1 DEF CallsOK
    <3>3. CallOK(c)'
      BY <3>2, CallStays
    <3>4. QED
      BY <2>1, <3>1, <3>3
  <2>2. QED
    BY <1>1, <2>1
<1>2. QED
  BY <1>1 DEF CallsOK

(* Visits are only disturbed by a submission and by the answer to one. *)
LEMMA VisitsStay ==
  ASSUME VisitsOK, CallsOK, pay.visit \in Nat, pay'.visit \in Nat, pay.visit <= pay'.visit,
         \A s \in Slots : calls'[s].kind = "submit" =>
            calls[s].kind = "submit" /\ calls'[s].visit = calls[s].visit,
         page' = "pay" /\ pay'.visit = pay.visit =>
            page = "pay" /\ (pay.submittingRef => pay'.submittingRef)
  PROVE  VisitsOK'
<1>1. OneSubmitPerVisit'
  BY DEF VisitsOK, OneSubmitPerVisit
<1>2. ASSUME NEW s \in Slots, calls'[s].kind = "submit"
      PROVE  /\ calls'[s].visit <= pay'.visit
             /\ page' = "pay" /\ calls'[s].visit = pay'.visit => pay'.submittingRef
  <2>1. calls[s].kind = "submit" /\ calls'[s].visit = calls[s].visit
    BY <1>2
  <2>2. calls[s].visit \in Nat /\ calls[s].visit <= pay.visit
        /\ (page = "pay" /\ calls[s].visit = pay.visit => pay.submittingRef)
    <3>1. calls[s] # NoCall
      BY <2>1 DEF NoCall
    <3>2. calls[s] \in ACall
      BY <3>1 DEF CallsOK
    <3>3. QED
      BY <2>1, <3>2 DEF VisitsOK, ACall
  <2>3. QED
    BY <2>1, <2>2
<1>3. QED
  BY <1>1, <1>2 DEF VisitsOK

----------------------------------------------------------------------------
(* The server. *)

(* What the coupon takes off a cart. *)
LEMMA DiscountIs ==
  ASSUME StoreOK, NEW lines \in Seq(Sold)
  PROVE  DiscountOf(lines) \in Nat /\ DiscountOf(lines) <= CartSubtotal(lines)
<1>1. CartSubtotal(lines) \in Nat /\ promo.value \in Nat
  BY SoldTotal, StorefrontAssumption DEF StoreOK
<1>2. QED
  BY <1>1 DEF DiscountOf

(* A cart with a coupon put on, taken off or checked again. *)
LEMMA CouponKeepsCart ==
  ASSUME StoreOK, NEW c \in StoredCart, c.discount <= CartSubtotal(c.lines),
         NEW d \in {WithCoupon(c), WithoutCoupon(c), Revalidated(c)}
  PROVE  d \in StoredCart /\ Kept(c, d) /\ d.discount <= CartSubtotal(d.lines)
<1>1. c.lines \in Seq(Sold) /\ c.version \in Nat /\ promo.tender \in Coupons
  BY DEF StoredCart, StoreOK, Coupons
<1>2. DiscountOf(c.lines) \in Nat /\ DiscountOf(c.lines) <= CartSubtotal(c.lines)
      /\ CartSubtotal(c.lines) \in Nat
  BY <1>1, DiscountIs, SoldTotal, StorefrontAssumption
<1>3. c.version + 1 \in Nat /\ NoCoupon \in Coupons /\ 0 \in Nat
  BY <1>1 DEF Coupons
<1>4. WithCoupon(c) \in StoredCart /\ WithCoupon(c).lines = c.lines
      /\ WithCoupon(c).version = c.version + 1 /\ WithCoupon(c).discount = DiscountOf(c.lines)
  BY <1>1, <1>2, <1>3 DEF WithCoupon, StoredCart
<1>5. WithoutCoupon(c) \in StoredCart /\ WithoutCoupon(c).lines = c.lines
      /\ WithoutCoupon(c).version = c.version + 1 /\ WithoutCoupon(c).discount = 0
  BY <1>1, <1>2, <1>3 DEF WithoutCoupon, StoredCart
<1>6. Revalidated(c) \in {c, WithCoupon(c), WithoutCoupon(c)}
  BY DEF Revalidated
<1>7. CASE d = c
  BY <1>1, <1>7 DEF Kept
<1>8. CASE d = WithCoupon(c)
  BY <1>1, <1>2, <1>4, <1>8 DEF Kept
<1>9. CASE d = WithoutCoupon(c)
  BY <1>1, <1>2, <1>5, <1>9 DEF Kept
<1>10. QED
  BY <1>6, <1>7, <1>8, <1>9

(* A cart is written over with a later version of it. *)
LEMMA CartWritten ==
  ASSUME StoreOK, NEW k \in DOMAIN carts, NEW d \in StoredCart, Kept(carts[k], d),
         d.discount <= CartSubtotal(d.lines), carts' = [carts EXCEPT ![k] = d],
         UNCHANGED <<price, promo>>
  PROVE  /\ StoreOK' /\ CartsMove
         /\ toOfficialCart(k, d) \in Official /\ Known(toOfficialCart(k, d))'
<1>1. carts \in Seq(StoredCart) /\ DOMAIN carts = 1..Len(carts) /\ Len(carts) \in Nat
  BY DEF StoreOK
<1>2. carts' \in Seq(StoredCart) /\ Len(carts') = Len(carts) /\ DOMAIN carts' = DOMAIN carts
  BY <1>1
<1>3. \A j \in DOMAIN carts : carts'[j] = IF j = k THEN d ELSE carts[j]
  BY <1>1
<1>4. StoreOK'
  BY <1>2, <1>3 DEF StoreOK
<1>5. ASSUME NEW j \in DOMAIN carts PROVE Kept(carts[j], carts'[j])
  <2>1. carts[j] \in StoredCart
    BY <1>1
  <2>2. carts[j].version \in Nat
    BY <2>1 DEF StoredCart
  <2>3. QED
    BY <1>3, <2>2 DEF Kept
<1>6. CartsMove
  BY <1>1, <1>2, <1>5 DEF CartsMove
<1>7. toOfficialCart(k, d) \in Official
  BY <1>1 DEF toOfficialCart, Official, StoredCart
<1>8. Known(toOfficialCart(k, d))'
  BY <1>1, <1>2, <1>3 DEF Known, toOfficialCart, StoredCart
<1>9. QED
  BY <1>4, <1>6, <1>7, <1>8

(* The answer a call is given, sound on what the server holds afterwards. *)
Answers(s) ==
  \E a \in {Lost} \cup Official :
    /\ Reply(s, a)
    /\ Known(a)'
    /\ Fits([calls[s] EXCEPT !.answer = a])

(* A refusal is an answer. *)
LEMMA LostAnswers ==
  ASSUME NEW s, Reply(s, Lost), calls[s] \in ACall
  PROVE  Answers(s)
<1>1. [calls[s] EXCEPT !.answer = Lost].answer = Lost
  BY DEF ACall
<1>2. QED
  BY <1>1 DEF Answers, Known, Fits

(* The server reads a cart, or puts a coupon on it or takes it off. *)
LEMMA ServeCartKeeps ==
  ASSUME StoreOK, CallsOK, NEW s \in Slots, calls[s] # NoCall,
         ServeGet(s) \/ ServeCoupon(s) \/ ServeUncoupon(s), UNCHANGED <<price, promo>>
  PROVE  StoreOK' /\ CartsMove /\ Answers(s) /\ orders' = orders
<1>1. calls[s] \in ACall
  BY DEF CallsOK
<1>2. CASE UNCHANGED carts /\ Reply(s, Lost)
  <2>1. StoreOK'
    BY <1>2 DEF StoreOK
  <2>2. QED
    BY <1>1, <1>2, <2>1, SameCarts, LostAnswers DEF ServeGet, ServeCoupon, ServeUncoupon
<1>3. CASE ~(UNCHANGED carts /\ Reply(s, Lost))
  <2> DEFINE k == calls[s].cart
  <2>1. PICK d \in {WithCoupon(carts[k]), WithoutCoupon(carts[k]), Revalidated(carts[k])} :
          k \in DOMAIN carts /\ carts' = [carts EXCEPT ![k] = d] /\ Reply(s, toOfficialCart(k, d))
    BY <1>3 DEF ServeGet, ServeCoupon, ServeUncoupon, Live
  <2>2. calls[s].kind \notin Validating
    BY <1>3 DEF ServeGet, ServeCoupon, ServeUncoupon, Validating
  <2>3. carts[k] \in StoredCart /\ carts[k].discount <= CartSubtotal(carts[k].lines)
    BY <2>1 DEF StoreOK
  <2>4. d \in StoredCart /\ Kept(carts[k], d) /\ d.discount <= CartSubtotal(d.lines)
    <3>1. PICK c : c = carts[k]
      OBVIOUS
    <3>2. QED
      BY <2>1, <2>3, <3>1, CouponKeepsCart
  <2>5. PICK j : j = k
    OBVIOUS
  <2>6. PICK e : e = d
    OBVIOUS
  <2>7. /\ StoreOK' /\ CartsMove
        /\ toOfficialCart(j, e) \in Official /\ Known(toOfficialCart(j, e))'
    BY <2>1, <2>4, <2>5, <2>6, CartWritten
  <2>8. [calls[s] EXCEPT !.answer = toOfficialCart(j, e)].kind = calls[s].kind
    BY <1>1 DEF ACall
  <2>9. Answers(s)
    BY <2>1, <2>2, <2>5, <2>6, <2>7, <2>8 DEF Answers, Fits
  <2>10. QED
    BY <2>7, <2>9 DEF ServeGet, ServeCoupon, ServeUncoupon
<1>4. QED
  BY <1>2, <1>3

(* Validation prices the lines that were sent. *)
LEMMA ValidatedIs ==
  ASSUME StoreOK, NEW sent \in Seq(Sent), Sellable(sent), NEW coupon
  PROVE  LET c == ValidatedCart(sent, coupon)
         IN  c \in StoredCart /\ c.discount <= CartSubtotal(c.lines) /\ c.lines = Confirmed(sent)
<1> DEFINE lines == [i \in DOMAIN sent |->
                     [prod |-> sent[i].prod, qty |-> sent[i].qty,
                      addon |-> sent[i].addon,
                      unit |-> price[sent[i].prod]
                               + (IF sent[i].addon THEN AddonPrice ELSE 0)]]
           c == ValidatedCart(sent, coupon)
<1>1. Len(sent) \in Nat /\ DOMAIN sent = 1..Len(sent) /\ \A i \in 1..Len(sent) : sent[i] \in Sent
  OBVIOUS
<1>2. ASSUME NEW i \in 1..Len(sent)
      PROVE  lines[i] \in Sold /\ lines[i] = Confirmed(sent)[i]
  <2>1. sent[i] \in Sent /\ price[sent[i].prod] = sent[i].confirmed
    BY <1>1 DEF Sellable
  <2>2. sent[i].confirmed \in Nat /\ AddonPrice \in Nat
    BY <2>1, CartLinesAssumption DEF Sent
  <2>3. sent[i].confirmed + (IF sent[i].addon THEN AddonPrice ELSE 0) \in Nat
    BY <2>2
  <2>4. QED
    BY <1>1, <2>1, <2>3 DEF Sent, Sold, Confirmed
<1>3. lines = Confirmed(sent)
  BY <1>1, <1>2 DEF Confirmed
<1>4. lines \in Seq(Sold)
  <2>1. lines = [i \in 1..Len(sent) |-> lines[i]]
    BY <1>1
  <2> HIDE DEF lines
  <2>2. QED
    BY <1>1, <1>2, <2>1
<1>5. c.lines = lines /\ c.coupon \in Coupons /\ c.discount \in {0, DiscountOf(lines)}
      /\ c = [status |-> "validated", version |-> 1, lines |-> lines,
              coupon |-> c.coupon, discount |-> c.discount]
  BY DEF ValidatedCart, StoreOK, Coupons
<1> HIDE DEF lines, c
<1>6. DiscountOf(lines) \in Nat /\ DiscountOf(lines) <= CartSubtotal(lines)
      /\ CartSubtotal(lines) \in Nat
  BY <1>4, DiscountIs, SoldTotal, StorefrontAssumption
<1>7. c.discount \in Nat /\ c.discount <= CartSubtotal(c.lines)
  BY <1>5, <1>6
<1>8. c \in StoredCart
  BY <1>4, <1>5, <1>7 DEF StoredCart
<1>9. QED
  BY <1>3, <1>5, <1>7, <1>8 DEF c

(* The server validates a basket. *)
LEMMA ServeCreateKeeps ==
  ASSUME StoreOK, CallsOK, NEW s \in Slots, calls[s] # NoCall,
         ServeCreate(s), UNCHANGED <<price, promo>>
  PROVE  StoreOK' /\ CartsMove /\ Answers(s) /\ orders' = orders
<1>1. calls[s] \in ACall /\ MaxUnits \in Nat
  BY StorefrontAssumption DEF CallsOK
<1> DEFINE sent == cartLinesToSnapshots(calls[s].items)
           cart == ValidatedCart(sent, calls[s].coupon)
<1>2. CASE UNCHANGED carts /\ Reply(s, Lost)
  <2>1. StoreOK'
    BY <1>2 DEF StoreOK
  <2>2. QED
    BY <1>1, <1>2, <2>1, SameCarts, LostAnswers DEF ServeCreate
<1>3. CASE ~(UNCHANGED carts /\ Reply(s, Lost))
  <2>1. /\ Sellable(sent) /\ Len(carts) < MaxCarts /\ carts' = Append(carts, cart)
        /\ Reply(s, toOfficialCart(Len(carts) + 1, cart))
    BY <1>3 DEF ServeCreate
  <2>2. sent \in Seq(Sent)
    <3>1. PICK ls : ls = calls[s].items
      OBVIOUS
    <3>2. ls \in Lines
      BY <1>1, <3>1 DEF ACall
    <3>3. QED
      BY <1>1, <3>1, <3>2, RequestIsSent
  <2>3. cart \in StoredCart /\ cart.discount <= CartSubtotal(cart.lines)
        /\ cart.lines = Confirmed(sent)
    <3>1. PICK x, y : x = sent /\ y = calls[s].coupon
      OBVIOUS
    <3>2. QED
      BY <2>1, <2>2, <3>1, ValidatedIs
  <2> HIDE DEF cart
  <2>4. carts \in Seq(StoredCart) /\ DOMAIN carts = 1..Len(carts) /\ Len(carts) \in Nat
    BY DEF StoreOK
  <2>5. /\ carts' \in Seq(StoredCart) /\ Len(carts') = Len(carts) + 1
        /\ DOMAIN carts' = 1..(Len(carts) + 1)
        /\ carts'[Len(carts) + 1] = cart
        /\ \A k \in DOMAIN carts : carts'[k] = carts[k]
    BY <2>1, <2>3, <2>4
  <2>6. StoreOK'
    <3>1. \A k \in DOMAIN carts' : k \in DOMAIN carts \/ k = Len(carts) + 1
      BY <2>4, <2>5
    <3>2. \A k \in DOMAIN carts' : carts'[k].discount <= CartSubtotal(carts'[k].lines)
      BY <2>3, <2>5, <3>1 DEF StoreOK
    <3>3. Len(carts') <= MaxCarts
      BY <2>1, <2>4, <2>5, StorefrontAssumption
    <3>4. QED
      BY <2>5, <3>2, <3>3 DEF StoreOK
  <2>7. CartsMove
    <3>1. ASSUME NEW k \in DOMAIN carts PROVE k \in DOMAIN carts' /\ Kept(carts[k], carts'[k])
      <4>1. carts[k] \in StoredCart
        BY <2>4
      <4>2. carts[k].version \in Nat
        BY <4>1 DEF StoredCart
      <4>3. QED
        BY <2>4, <2>5, <4>2 DEF Kept
    <3>2. QED
      BY <2>4, <2>5, <3>1 DEF CartsMove
  <2>8. PICK a : a = toOfficialCart(Len(carts) + 1, cart)
    OBVIOUS
  <2>9. a \in Official
    BY <2>3, <2>4, <2>8 DEF toOfficialCart, Official, StoredCart
  <2>10. Known(a)'
    BY <2>3, <2>4, <2>5, <2>8 DEF Known, toOfficialCart, StoredCart
  <2>11. Fits([calls[s] EXCEPT !.answer = a])
    <3>1. a.lines = Confirmed(sent)
      BY <2>3, <2>8 DEF toOfficialCart
    <3>2. /\ [calls[s] EXCEPT !.answer = a].answer = a
          /\ [calls[s] EXCEPT !.answer = a].items = calls[s].items
      BY <1>1 DEF ACall
    <3>3. QED
      BY <3>1, <3>2 DEF Fits
  <2>12. Answers(s)
    BY <2>1, <2>8, <2>9, <2>10, <2>11 DEF Answers
  <2>13. QED
    BY <2>6, <2>7, <2>12 DEF ServeCreate
<1>4. QED
  BY <1>2, <1>3

(* An order that is taken is charged what its submission showed. *)
LEMMA ServeSubmitKeeps ==
  ASSUME StoreOK, CallsOK, PaysWhatWasShown, NEW s \in Slots, calls[s] # NoCall,
         ServeSubmit(s), UNCHANGED <<price, promo>>
  PROVE  StoreOK' /\ CartsMove /\ Answers(s) /\ PaysWhatWasShown'
<1> DEFINE call == calls[s]
<1>1. call \in ACall /\ ShowsTotal(call) /\ call.kind = "submit"
  BY DEF CallsOK, CallOK, ServeSubmit
<1>2. CASE ~Orderable(call)
  <2>1. UNCHANGED <<orders, carts>> /\ Reply(s, Lost)
    BY <1>2 DEF ServeSubmit
  <2>2. StoreOK' /\ PaysWhatWasShown'
    BY <2>1 DEF StoreOK, PaysWhatWasShown
  <2>3. QED
    BY <1>1, <2>1, <2>2, SameCarts, LostAnswers
<1>3. CASE Orderable(call)
  <2> DEFINE k == call.cart
             cart == carts[k]
             order == [cart |-> k, method |-> call.method, visit |-> call.visit,
                       shown |-> call.shown, suppressed |-> call.suppressed,
                       charged |-> CartTotal(cart)]
  <2>1. /\ orders' = orders \cup {order}
        /\ carts' = IF call.method = "cash"
                    THEN [carts EXCEPT ![k].status = "converted"] ELSE carts
        /\ Reply(s, toOfficialCart(k, cart))
    BY <1>3 DEF ServeSubmit
  <2>2. k \in DOMAIN carts /\ call.version = cart.version
    BY <1>3 DEF Orderable, Live, VersionHolds
  <2>3. cart \in StoredCart /\ cart.discount <= CartSubtotal(cart.lines)
    BY <2>2 DEF StoreOK
  <2>4. cart.discount \in Nat /\ CartSubtotal(cart.lines) \in Nat /\ cart.version \in Nat
    BY <2>3, SoldTotal, StorefrontAssumption DEF StoredCart
  <2>5. order.charged = order.shown \/ (order.suppressed /\ order.charged < order.shown)
    <3>1. call.shown = CartSubtotal(cart.lines) - (IF call.suppressed THEN 0 ELSE cart.discount)
      BY <1>1, <2>2 DEF ShowsTotal
    <3>2. CartTotal(cart) = CartSubtotal(cart.lines) - cart.discount
      BY DEF CartTotal
    <3>3. CASE call.suppressed
      BY <2>4, <3>1, <3>2, <3>3
    <3>4. CASE ~call.suppressed
      BY <2>4, <3>1, <3>2, <3>4
    <3>5. QED
      BY <3>3, <3>4
  <2>6. PaysWhatWasShown'
    <3> HIDE DEF order
    <3>1. QED
      BY <2>1, <2>5 DEF PaysWhatWasShown
  <2>7. PICK j, d : j = k /\ d = IF call.method = "cash"
                              THEN [cart EXCEPT !.status = "converted"] ELSE cart
    OBVIOUS
  <2>8. /\ d \in StoredCart /\ Kept(cart, d) /\ d.lines = cart.lines /\ d.discount = cart.discount
        /\ toOfficialCart(j, d) = toOfficialCart(k, cart)
    BY <2>3, <2>4, <2>7 DEF StoredCart, Kept, toOfficialCart
  <2>9. carts' = [carts EXCEPT ![j] = d]
    <3>1. carts \in Seq(StoredCart)
      BY DEF StoreOK
    <3>2. [carts EXCEPT ![k] = carts[k]] = carts
      BY <3>1
    <3>3. [carts EXCEPT ![k].status = "converted"]
            = [carts EXCEPT ![k] = [carts[k] EXCEPT !.status = "converted"]]
      OBVIOUS
    <3>4. CASE call.method = "cash"
      BY <2>1, <2>7, <3>3, <3>4
    <3>5. CASE call.method # "cash"
      BY <2>1, <2>7, <3>2, <3>5
    <3>6. QED
      BY <3>4, <3>5
  <2>10. /\ StoreOK' /\ CartsMove
         /\ toOfficialCart(j, d) \in Official /\ Known(toOfficialCart(j, d))'
    BY <2>2, <2>3, <2>7, <2>8, <2>9, CartWritten
  <2>11. Answers(s)
    <3>1. [calls[s] EXCEPT !.answer = toOfficialCart(j, d)].kind = "submit"
      BY <1>1 DEF ACall
    <3>2. QED
      BY <2>1, <2>8, <2>10, <3>1 DEF Answers, Fits, Validating
  <2>12. QED
    BY <2>6, <2>10, <2>11
<1>4. QED
  BY <1>2, <1>3

(* A call is answered, on the server or not at all: the browser's state stays. *)
LEMMA Answering ==
  ASSUME StorefrontInv, StoreOK', CartsMove, NEW s \in Slots, calls[s] # NoCall, Answers(s),
         UNCHANGED <<ctx, page, pay, due, backup>>
  PROVE  CallsOK' /\ BasketOK' /\ PageOK' /\ VisitsOK'
<1>1. PICK a \in {Lost} \cup Official :
        Reply(s, a) /\ Known(a)' /\ Fits([calls[s] EXCEPT !.answer = a])
  BY DEF Answers
<1>2. PICK c : c = [calls[s] EXCEPT !.state = "answered", !.answer = a]
  OBVIOUS
<1>3. calls[s] \in ACall /\ calls \in [Slots -> {NoCall} \cup ACall] /\ CallOK(calls[s])
  BY DEF StorefrontInv, CallsOK
<1>4. calls' = [calls EXCEPT ![s] = c]
  BY <1>1, <1>2, <1>3 DEF Reply
<1>5. c \in ACall /\ c.kind = calls[s].kind /\ c.visit = calls[s].visit /\ c.answer = a
      /\ c.items = calls[s].items
  BY <1>2, <1>3 DEF ACall
<1>6. CallOK(c)'
  <2>1. Fits(c)
    <3>1. LET b == [calls[s] EXCEPT !.answer = a]
          IN  b.kind = c.kind /\ b.answer = c.answer /\ b.items = c.items
      BY <1>3, <1>5 DEF ACall
    <3>2. QED
      BY <1>1, <3>1 DEF Fits
  <2>2. ShowsTotal(c)'
    <3>1. PICK b : b = calls[s]
      OBVIOUS
    <3>2. CallOK(b)'
      BY <1>3, <3>1, CallStays DEF StorefrontInv
    <3>3. c.kind = b.kind /\ c.cart = b.cart /\ c.version = b.version /\ c.shown = b.shown
          /\ c.suppressed = b.suppressed
      BY <1>2, <1>3, <3>1 DEF ACall
    <3>4. QED
      BY <3>2, <3>3 DEF CallOK, ShowsTotal
  <2>3. Fits(c)'
    BY <2>1 DEF Fits
  <2>4. QED
    BY <1>1, <1>5, <2>2, <2>3 DEF CallOK
<1>7. CallsOK'
  <2>1. calls' \in [Slots -> {NoCall} \cup ACall]
    BY <1>3, <1>4, <1>5
  <2>2. \A t \in Slots : calls'[t] = calls[t] \/ \E d : calls'[t] = d /\ CallOK(d)'
    <3>1. \A t \in Slots : calls'[t] = calls[t] \/ calls'[t] = c
      BY <1>3, <1>4
    <3>2. QED
      BY <1>6, <3>1
  <2>3. QED
    BY <2>1, <2>2, CallsStay DEF StorefrontInv
<1>8. BasketOK'
  <2>1. Len(carts) \in Nat /\ Len(carts') \in Nat
    BY DEF StorefrontInv, StoreOK
  <2>2. ctx.cartId \in Nat
    BY DEF StorefrontInv, BasketOK, Basket
  <2>3. QED
    BY <2>1, <2>2 DEF StorefrontInv, BasketOK, CartsMove
<1>9. PageOK'
  <2>1. PICK o : o = pay.official
    OBVIOUS
  <2>2. o \in {Lost} \cup Official /\ Known(o)
    BY <2>1 DEF StorefrontInv, PageOK, PayPage, Lost, NoCart
  <2>3. Known(o)'
    BY <2>2, KnownStays DEF StorefrontInv
  <2>4. QED
    BY <2>1, <2>3 DEF StorefrontInv, PageOK
<1>10. VisitsOK'
  <2>1. pay.visit \in Nat
    BY DEF StorefrontInv, PageOK, PayPage
  <2>2. \A t \in Slots : calls'[t].kind = calls[t].kind /\ calls'[t].visit = calls[t].visit
    BY <1>3, <1>4, <1>5
  <2>3. QED
    BY <2>1, <2>2, VisitsStay DEF StorefrontInv
<1>11. QED
  BY <1>7, <1>8, <1>9, <1>10

(* The server serves a call. *)
LEMMA ServeKeeps ==
  ASSUME StorefrontInv, NEW s \in Slots, ServeCall(s)
  PROVE  StorefrontInv'
<1>1. /\ calls[s] # NoCall /\ UNCHANGED <<ctx, page, pay, due, backup, promo, price>>
      /\ StoreOK /\ CallsOK /\ PaysWhatWasShown
  BY DEF ServeCall, StorefrontInv
<1>2. StoreOK' /\ CartsMove /\ Answers(s) /\ PaysWhatWasShown'
  <2>1. CASE ServeCreate(s)
    BY <1>1, <2>1, ServeCreateKeeps DEF PaysWhatWasShown
  <2>2. CASE ServeGet(s) \/ ServeCoupon(s) \/ ServeUncoupon(s)
    BY <1>1, <2>2, ServeCartKeeps DEF PaysWhatWasShown
  <2>3. CASE ServeSubmit(s)
    BY <1>1, <2>3, ServeSubmitKeeps
  <2>4. QED
    BY <2>1, <2>2, <2>3 DEF ServeCall
<1>3. CallsOK' /\ BasketOK' /\ PageOK' /\ VisitsOK'
  BY <1>1, <1>2, Answering
<1>4. QED
  BY <1>2, <1>3 DEF StorefrontInv

(* A call fails, a cart expires, the owner edits the coupon or a price. *)
LEMMA WorldKeeps ==
  ASSUME StorefrontInv,
         \/ \E s \in Slots : Fail(s)
         \/ \E k \in DOMAIN carts : ExpireCart(k)
         \/ EditPromo
         \/ \E p \in Products, v \in Prices : Reprice(p, v)
  PROVE  StorefrontInv'
<1>1. CASE \E s \in Slots : Fail(s)
  <2>1. PICK s \in Slots : Fail(s)
    BY <1>1
  <2>2. calls[s] # NoCall /\ Reply(s, Lost)
        /\ UNCHANGED <<ctx, page, pay, due, backup, carts, promo, price, orders>>
    BY <2>1 DEF Fail
  <2>3. StoreOK' /\ PaysWhatWasShown' /\ CartsMove
    BY <2>2, SameCarts DEF StorefrontInv, StoreOK, PaysWhatWasShown
  <2>4. Answers(s)
    BY <2>2, LostAnswers DEF StorefrontInv, CallsOK
  <2>5. QED
    BY <2>2, <2>3, <2>4, Answering DEF StorefrontInv
<1>2. ASSUME StoreOK', CartsMove,
             UNCHANGED <<ctx, page, pay, due, calls, backup, orders>>
      PROVE  StorefrontInv'
  <2>1. CallsOK'
    BY <1>2, CallsStay DEF StorefrontInv, CallsOK
  <2>2. BasketOK'
    <3>1. Len(carts) \in Nat /\ Len(carts') \in Nat /\ ctx.cartId \in Nat
      BY <1>2 DEF StorefrontInv, StoreOK, BasketOK, Basket
    <3>2. QED
      BY <1>2, <3>1 DEF StorefrontInv, BasketOK, CartsMove
  <2>3. PageOK'
    <3>1. PICK o : o = pay.official
      OBVIOUS
    <3>2. o \in {Lost} \cup Official /\ Known(o)
      BY <3>1 DEF StorefrontInv, PageOK, PayPage, Lost, NoCart
    <3>3. Known(o)'
      BY <1>2, <3>2, KnownStays DEF StorefrontInv
    <3>4. QED
      BY <1>2, <3>1, <3>3 DEF StorefrontInv, PageOK
  <2>4. VisitsOK' /\ PaysWhatWasShown'
    BY <1>2 DEF StorefrontInv, VisitsOK, OneSubmitPerVisit, PaysWhatWasShown
  <2>5. QED
    BY <1>2, <2>1, <2>2, <2>3, <2>4 DEF StorefrontInv
<1>3. CASE \E k \in DOMAIN carts : ExpireCart(k)
  <2>1. PICK k \in DOMAIN carts : ExpireCart(k)
    BY <1>3
  <2>2. PICK d : d = [carts[k] EXCEPT !.status = "expired"]
    OBVIOUS
  <2>3. carts[k] \in StoredCart /\ carts[k].discount <= CartSubtotal(carts[k].lines)
    BY DEF StorefrontInv, StoreOK
  <2>4. d \in StoredCart /\ Kept(carts[k], d) /\ d.lines = carts[k].lines
        /\ d.discount = carts[k].discount
    BY <2>2, <2>3 DEF StoredCart, Kept
  <2>5. carts' = [carts EXCEPT ![k] = d] /\ UNCHANGED <<price, promo>>
    BY <2>1, <2>2 DEF ExpireCart
  <2>6. StoreOK' /\ CartsMove
    BY <2>3, <2>4, <2>5, CartWritten DEF StorefrontInv
  <2>7. QED
    BY <1>2, <2>1, <2>6 DEF ExpireCart
<1>4. CASE EditPromo
  <2>1. UNCHANGED <<ctx, page, pay, due, calls, backup, carts, price, orders>>
    BY <1>4 DEF EditPromo
  <2>2. promo' \in [state : {"active", "off", "deleted"}, tender : {"any", "cash"},
               value : Savings]
    BY <1>4 DEF EditPromo, StorefrontInv, StoreOK
  <2>3. StoreOK' /\ CartsMove
    BY <2>1, <2>2, SameCarts DEF StorefrontInv, StoreOK
  <2>4. QED
    BY <1>2, <2>1, <2>3
<1>5. CASE \E p \in Products, v \in Prices : Reprice(p, v)
  <2>1. PICK p \in Products, v \in Prices : Reprice(p, v)
    BY <1>5
  <2>2. UNCHANGED <<ctx, page, pay, due, calls, backup, carts, promo, orders>>
        /\ price' = [price EXCEPT ![p] = v]
    BY <2>1 DEF Reprice
  <2>3. price' \in [Products -> Nat]
    BY <2>2, StorefrontAssumption DEF StorefrontInv, StoreOK
  <2>4. StoreOK' /\ CartsMove
    BY <2>2, <2>3, SameCarts DEF StorefrontInv, StoreOK
  <2>5. QED
    BY <1>2, <2>2, <2>4
<1>6. QED
  BY <1>1, <1>3, <1>4, <1>5

----------------------------------------------------------------------------
(* The browser. *)

(* A call is started in a slot that is free. *)
LEMMA StartedIs ==
  ASSUME CallsOK, Free # {}, NEW c
  PROVE  \E s \in Slots : calls[s] = NoCall /\ Started(c) = [calls EXCEPT ![s] = c]
<1>1. Free \in SUBSET Nat
  BY StorefrontAssumption DEF Free
<1>2. \E s \in Free : \A t \in Free : s <= t
  BY <1>1, HasLeast
<1>3. (CHOOSE s \in Free : \A t \in Free : s <= t) \in Free
  BY <1>2
<1>4. QED
  BY <1>3 DEF Started, Free

(* What a call of the browser carries. *)
LEMMA CallIs ==
  ASSUME PageOK, NEW kind \in Kinds, NEW b \in Basket, NEW k \in Nat
  PROVE  /\ Call(kind, b, k) \in ACall
         /\ kind # "submit" => CallOK(Call(kind, b, k))
<1>1. page \in Pages /\ pay.visit \in Nat
  BY DEF PageOK, PayPage
<1>2. b.items \in Lines /\ b.coupon \in Coupons /\ b.discount \in Nat
  BY DEF Basket
<1>3. Call(kind, b, k) \in ACall
  BY <1>1, <1>2 DEF Call, ACall
<1>4. Call(kind, b, k).answer = Lost /\ Call(kind, b, k).kind = kind
  BY DEF Call
<1>5. QED
  BY <1>3, <1>4 DEF CallOK, Known, Fits, ShowsTotal

(* The basket the page makes of an official cart. *)
LEMMA AppliedIs ==
  ASSUME StoreOK, NEW o \in Official, o # Lost, Known(o)
  PROVE  applyOfficialCart(o) \in Basket /\ applyOfficialCart(o).cartId <= Len(carts)
<1> DEFINE ls == officialCartToLines(o.id, o.lines)
<1>1. o.lines \in Seq(Sold) /\ o.id \in Nat /\ o.coupon \in Coupons /\ o.discount \in Nat
  BY DEF Official
<1>2. Len(o.lines) \in Nat /\ DOMAIN o.lines = 1..Len(o.lines)
      /\ \A i \in 1..Len(o.lines) : o.lines[i] \in Sold
  BY <1>1
<1>3. ASSUME NEW i \in 1..Len(o.lines) PROVE ls[i] \in BasketLine(1..MaxUnits)
  <2>1. PICK x \in Sold : x = o.lines[i]
    BY <1>2
  <2>2. i \in Nat /\ ls[i] = [id |-> <<o.id, i>>, prod |-> x.prod, qty |-> x.qty,
                              addon |-> x.addon, price |-> x.unit]
    BY <1>2, <2>1 DEF officialCartToLines
  <2>3. /\ <<o.id, i>> \in Nat \X Nat /\ x.prod \in Products
        /\ x.qty \in 1..MaxUnits /\ x.addon \in BOOLEAN /\ x.unit \in Nat
    BY <1>1, <2>1, <2>2 DEF Sold
  <2>4. QED
    BY <2>2, <2>3 DEF BasketLine
<1>4. ls = [i \in 1..Len(o.lines) |-> ls[i]]
  BY <1>2 DEF officialCartToLines
<1> HIDE DEF ls
<1>5. ls \in Lines
  BY <1>2, <1>3, <1>4 DEF Lines
<1>6. applyOfficialCart(o) \in Basket
  BY <1>1, <1>5 DEF applyOfficialCart, Basket, ls
<1>7. applyOfficialCart(o).cartId = o.id /\ o.id \in 1..Len(carts)
  BY DEF applyOfficialCart, Known, StoreOK
<1>8. QED
  BY <1>6, <1>7

(* Steps of the browser that submit nothing. *)
QuietCalls ==
  /\ calls' \in [Slots -> {NoCall} \cup ACall]
  /\ \A s \in Slots :
       \/ calls'[s] = calls[s] \/ calls'[s] = NoCall
       \/ \E c : /\ calls'[s] = c /\ CallOK(c)
                 /\ c.kind = "submit" => calls[s].kind = "submit" /\ c.visit = calls[s].visit

PageStep ==
  /\ ctx' \in Basket /\ ctx'.cartId <= Len(carts)
  /\ page' \in Pages /\ due' \subseteq {"match", "resolve", "render"}
  /\ pay' \in PayPage
  /\ \E o : pay'.official = o /\ Known(o)
  /\ backup' \in {NoCart} \cup Backup

VisitStep ==
  /\ pay.visit <= pay'.visit
  /\ page' = "pay" /\ pay'.visit = pay.visit =>
       page = "pay" /\ (pay.submittingRef => pay'.submittingRef)

StoreStays == UNCHANGED <<carts, promo, price, orders>>

(* The server stays as it is. *)
LEMMA StoreStaysOK ==
  ASSUME StorefrontInv, StoreStays
  PROVE  StoreOK' /\ PaysWhatWasShown' /\ CartsMove
BY SameCarts DEF StorefrontInv, StoreOK, PaysWhatWasShown, StoreStays

(* The pages keep their shapes. *)
LEMMA PageStepOK ==
  ASSUME StorefrontInv, StoreStays, PageStep
  PROVE  BasketOK' /\ PageOK'
<1>1. PICK o : pay'.official = o /\ Known(o)
  BY DEF PageStep
<1>2. o \in {Lost} \cup Official
  BY <1>1 DEF PageStep, PayPage, Lost, NoCart
<1>3. Known(o)'
  BY <1>1, <1>2, StoreStaysOK, KnownStays DEF StorefrontInv
<1>4. QED
  BY <1>1, <1>3 DEF PageStep, BasketOK, PageOK, StoreStays

(* The calls stay sound. *)
LEMMA QuietCallsOK ==
  ASSUME StorefrontInv, StoreStays, QuietCalls
  PROVE  CallsOK'
<1>1. \A c : CallOK(c) => CallOK(c)'
  BY StoreStaysOK, CallStays DEF StorefrontInv
<1>2. QED
  BY <1>1, StoreStaysOK, CallsStay DEF StorefrontInv, QuietCalls

(* Steps of the browser that submit nothing keep the invariant. *)
LEMMA QuietStep ==
  ASSUME StorefrontInv, StoreStays, QuietCalls, PageStep, VisitStep
  PROVE  StorefrontInv'
<1>1. pay.visit \in Nat /\ pay'.visit \in Nat
  BY DEF StorefrontInv, PageOK, PageStep, PayPage
<1>2. \A s \in Slots : calls'[s].kind = "submit" =>
         calls[s].kind = "submit" /\ calls'[s].visit = calls[s].visit
  BY DEF QuietCalls, NoCall
<1>3. VisitsOK'
  BY <1>1, <1>2, VisitsStay DEF StorefrontInv, VisitStep
<1>4. QED
  BY <1>3, StoreStaysOK, PageStepOK, QuietCallsOK DEF StorefrontInv

(* The calls that such steps leave behind. *)
LEMMA CallsAlike ==
  ASSUME CallsOK, calls' = calls
  PROVE  QuietCalls
BY DEF CallsOK, QuietCalls

(* An answer is taken. *)
LEMMA CallsFreed ==
  ASSUME CallsOK, NEW s \in Slots, calls' = Freed(s)
  PROVE  QuietCalls
<1>1. calls \in [Slots -> {NoCall} \cup ACall] /\ calls' = [calls EXCEPT ![s] = NoCall]
  BY DEF CallsOK, Freed
<1>2. QED
  BY <1>1 DEF QuietCalls

(* A call other than a submission is started. *)
LEMMA CallsStarted ==
  ASSUME CallsOK, PageOK, Free # {}, NEW kind \in Kinds \ {"submit"}, NEW b \in Basket,
         NEW k \in Nat, NEW c, c = Call(kind, b, k), calls' = Started(c)
  PROVE  QuietCalls
<1>1. calls \in [Slots -> {NoCall} \cup ACall]
  BY DEF CallsOK
<1>2. c \in ACall /\ CallOK(c) /\ c.kind # "submit"
  <2>1. c.kind = kind
    BY DEF Call
  <2>2. QED
    BY <2>1, CallIs
<1>3. PICK s \in Slots : calls' = [calls EXCEPT ![s] = c]
  BY StartedIs
<1>4. QED
  BY <1>1, <1>2, <1>3 DEF QuietCalls

(* The page goes, and nobody waits for its calls any more. *)
LEMMA CallsOrphaned ==
  ASSUME CallsOK, calls' = Orphaned
  PROVE  QuietCalls
<1>1. calls \in [Slots -> {NoCall} \cup ACall]
      /\ \A s \in Slots : calls[s] # NoCall => CallOK(calls[s]) /\ calls[s] \in ACall
  BY DEF CallsOK
<1>2. ASSUME NEW s \in Slots, calls[s] # NoCall
      PROVE  LET c == [calls[s] EXCEPT !.live = FALSE]
             IN  /\ c \in ACall /\ CallOK(c) /\ c.kind = calls[s].kind
                 /\ c.visit = calls[s].visit
  <2>1. PICK b : b = calls[s]
    OBVIOUS
  <2>2. b \in ACall /\ CallOK(b)
    BY <1>1, <1>2, <2>1
  <2> DEFINE c == [b EXCEPT !.live = FALSE]
  <2>3. /\ c \in ACall /\ c.kind = b.kind /\ c.visit = b.visit /\ c.answer = b.answer
        /\ c.items = b.items /\ c.cart = b.cart /\ c.version = b.version
        /\ c.shown = b.shown /\ c.suppressed = b.suppressed
    BY <2>2 DEF ACall
  <2> HIDE DEF c
  <2>4. CallOK(c)
    BY <2>2, <2>3 DEF CallOK, Known, Fits, ShowsTotal
  <2>5. QED
    BY <2>1, <2>3, <2>4 DEF c
<1>3. \A s \in Slots : calls'[s] = IF calls[s] = NoCall THEN NoCall
                                   ELSE [calls[s] EXCEPT !.live = FALSE]
  BY DEF Orphaned
<1>4. calls' \in [Slots -> {NoCall} \cup ACall]
  BY <1>1, <1>2 DEF Orphaned
<1>5. ASSUME NEW s \in Slots, calls[s] # NoCall
      PROVE  \E c : /\ calls'[s] = c /\ CallOK(c)
                    /\ c.kind = calls[s].kind /\ c.visit = calls[s].visit
  BY <1>2, <1>3, <1>5
<1>6. \A s \in Slots : calls[s] = NoCall => calls'[s] = NoCall
  BY <1>3
<1>7. QED
  BY <1>4, <1>5, <1>6 DEF QuietCalls

(* A call that goes on as another one. *)
LEMMA CallGoesOn ==
  ASSUME CallsOK, NEW s \in Slots, calls[s] # NoCall, NEW kind \in {"create", "coupon"},
         NEW k \in Nat, NEW c,
         c = [calls[s] EXCEPT !.kind = kind, !.state = "sent", !.cart = k, !.answer = Lost],
         calls' = [calls EXCEPT ![s] = c]
  PROVE  QuietCalls
<1>1. calls \in [Slots -> {NoCall} \cup ACall] /\ calls[s] \in ACall
  BY DEF CallsOK
<1>2. c \in ACall /\ c.kind = kind /\ c.answer = Lost
  BY <1>1 DEF ACall, Kinds
<1>3. CallOK(c) /\ c.kind # "submit"
  BY <1>2 DEF CallOK, Known, Fits, ShowsTotal
<1>4. QED
  BY <1>1, <1>2, <1>3 DEF QuietCalls

(* What every state of the browser is. *)
LEMMA BrowserIs ==
  ASSUME StorefrontInv
  PROVE  /\ StoreOK /\ CallsOK /\ PageOK
         /\ ctx \in Basket /\ ctx.cartId <= Len(carts) /\ Len(carts) \in Nat
         /\ page \in Pages /\ due \subseteq {"match", "resolve", "render"}
         /\ pay \in PayPage /\ pay.visit \in Nat /\ backup \in {NoCart} \cup Backup
         /\ \E o : pay.official = o /\ Known(o)
         /\ Known(NoCart)
BY DEF StorefrontInv, StoreOK, BasketOK, PageOK, PayPage, Known, NoCart, Lost

(* An edit of the ticket. *)
LEMMA EditTicketKeeps ==
  ASSUME StorefrontInv, EditTicket
  PROVE  StorefrontInv'
<1>1. MaxUnits \in Nat /\ Positive \in SUBSET Nat
  BY StorefrontAssumption DEF Positive
<1>2. ctx.items \in Seq(BasketLine(Positive)) /\ price \in [Products -> Nat]
  BY <1>1, LinesAreLines, BrowserIs DEF Basket, StoreOK
<1>3. \E ls \in Seq(BasketLine(Positive)) : ctx' = Edited(ls)
  <2>1. CASE \E p \in Products, addon \in BOOLEAN :
               ctx' = Edited(addItem(ctx.items, p, addon, price[p]))
    <3>1. PICK p \in Products, addon \in BOOLEAN :
            ctx' = Edited(addItem(ctx.items, p, addon, price[p]))
      BY <2>1
    <3>2. PICK base, old : base = price[p] /\ old = ctx.items
      OBVIOUS
    <3>3. base \in Nat /\ old \in Seq(BasketLine(Positive))
      BY <1>2, <3>2
    <3>4. addItem(old, p, addon, base) \in Seq(BasketLine(Positive))
      BY <3>3, AddIs
    <3>5. QED
      BY <3>1, <3>2, <3>4
  <2>2. CASE \E i \in DOMAIN ctx.items :
               LET l == ctx.items[i]
               IN  \/ ctx' = Edited(addItem(ctx.items, l.prod, l.addon,
                                            getCartLineBaseUnitPrice(l)))
                   \/ ctx' = Edited(decrementItem(ctx.items, l.id))
                   \/ ctx' = Edited(removeItem(ctx.items, l.id))
                   \/ l.addon /\ ctx' = Edited(removeAddonFromLine(ctx.items, l.id))
    <3>1. PICK old : old = ctx.items
      OBVIOUS
    <3>2. old \in Seq(BasketLine(Positive))
      BY <1>2, <3>1
    <3>3. PICK l \in BasketLine(Positive) :
             \/ ctx' = Edited(addItem(old, l.prod, l.addon, getCartLineBaseUnitPrice(l)))
             \/ ctx' = Edited(decrementItem(old, l.id))
             \/ ctx' = Edited(removeItem(old, l.id))
             \/ ctx' = Edited(removeAddonFromLine(old, l.id))
      BY <2>2, <3>1, <3>2
    <3>4. l.prod \in Products /\ l.addon \in BOOLEAN /\ getCartLineBaseUnitPrice(l) \in Nat
      BY <1>1, BaseIsNat DEF BasketLine
    <3>5. /\ addItem(old, l.prod, l.addon, getCartLineBaseUnitPrice(l))
               \in Seq(BasketLine(Positive))
          /\ decrementItem(old, l.id) \in Seq(BasketLine(Positive))
          /\ removeItem(old, l.id) \in Seq(BasketLine(Positive))
          /\ removeAddonFromLine(old, l.id) \in Seq(BasketLine(Positive))
      BY <3>2, <3>4, AddIs, LessIs
    <3>6. QED
      BY <3>3, <3>5
  <2>3. QED
    BY <2>1, <2>2 DEF EditTicket
<1>4. PICK ls \in Seq(BasketLine(Positive)) : ctx' = Edited(ls)
  BY <1>3
<1>5. ctx \in Basket
  BY BrowserIs
<1>6. ctx'.items = ls /\ ctx'.cartId = 0
  BY <1>4, <1>5 DEF Edited, Basket
<1>7. itemCount(ls) <= MaxUnits
  BY <1>6 DEF EditTicket
<1>8. ls \in Lines
  BY <1>1, <1>7, FewUnits DEF Positive
<1>9. ctx' \in Basket
  BY <1>4, <1>5, <1>8 DEF Edited, Basket
<1>10. UNCHANGED <<page, pay, due, calls, backup, carts, promo, price, orders>>
  BY DEF EditTicket
<1>11. StoreStays /\ QuietCalls
  BY <1>10, BrowserIs, CallsAlike DEF StoreStays
<1>12. PageStep
  BY <1>6, <1>9, <1>10, BrowserIs DEF PageStep
<1>13. VisitStep
  BY <1>10, BrowserIs DEF VisitStep
<1>14. QED
  BY <1>11, <1>12, <1>13, QuietStep

(* The ticket panel starts a call, or forgets a coupon that was never sent. *)
LEMMA PanelKeeps ==
  ASSUME StorefrontInv, Checkout \/ PanelCoupon \/ PanelUncoupon
  PROVE  StorefrontInv'
<1>1. UNCHANGED <<page, pay, due, backup, carts, promo, price, orders>>
  BY DEF Checkout, PanelCoupon, PanelUncoupon
<1>2. ctx \in Basket /\ ctx.cartId \in Nat /\ 0 \in Nat
  BY BrowserIs DEF Basket
<1>3. ctx' \in {ctx, [ctx EXCEPT !.sync = "syncing"],
                [ctx EXCEPT !.coupon = NoCoupon, !.discount = 0]}
  BY DEF Checkout, PanelCoupon, PanelUncoupon
<1>4. ctx' \in Basket /\ ctx'.cartId = ctx.cartId
  BY <1>2, <1>3 DEF Basket, Coupons
<1>5. QuietCalls
  <2>1. CASE UNCHANGED calls
    BY <2>1, BrowserIs, CallsAlike
  <2>2. CASE ~UNCHANGED calls
    <3>1. PICK kind \in Kinds \ {"submit"}, k \in Nat :
            Free # {} /\ calls' = Started(Call(kind, ctx, k))
      BY <1>2, <2>2 DEF Checkout, PanelCoupon, PanelUncoupon, Kinds
    <3>2. PICK b \in Basket : b = ctx
      BY <1>2
    <3>3. PICK c : c = Call(kind, b, k)
      OBVIOUS
    <3>4. QED
      BY <3>1, <3>2, <3>3, BrowserIs, CallsStarted
  <2>3. QED
    BY <2>1, <2>2
<1>6. StoreStays /\ PageStep /\ VisitStep
  BY <1>1, <1>4, BrowserIs DEF StoreStays, PageStep, VisitStep
<1>7. QED
  BY <1>5, <1>6, QuietStep

(* The coupon field of the pay page. *)
LEMMA PayCouponKeeps ==
  ASSUME StorefrontInv, PayCoupon
  PROVE  StorefrontInv'
<1>1. UNCHANGED <<ctx, page, due, backup, carts, promo, price, orders>>
      /\ pay' = [pay EXCEPT !.busy = TRUE] /\ Free # {} /\ pay.official # NoCart
  BY DEF PayCoupon
<1>2. pay' \in PayPage /\ pay'.official = pay.official /\ pay'.visit = pay.visit
      /\ pay'.submittingRef = pay.submittingRef /\ pay.official \in Official
  BY <1>1, BrowserIs DEF PayPage
<1>3. QuietCalls
  <2>1. PICK kind \in Kinds \ {"submit"} : calls' = Started(Call(kind, ctx, pay.official.id))
    BY DEF PayCoupon, Kinds
  <2>2. PICK b, k : b = ctx /\ k = pay.official.id
    OBVIOUS
  <2>3. b \in Basket /\ k \in Nat
    BY <1>2, <2>2, BrowserIs DEF Official
  <2>4. PICK c : c = Call(kind, b, k)
    OBVIOUS
  <2>5. QED
    BY <1>1, <2>1, <2>2, <2>3, <2>4, BrowserIs, CallsStarted
<1>4. StoreStays /\ PageStep /\ VisitStep
  BY <1>1, <1>2, BrowserIs DEF StoreStays, PageStep, VisitStep
<1>5. QED
  BY <1>3, <1>4, QuietStep

(* Validation starts, from the page's effect or its retry button. *)
LEMMA ResolveKeeps ==
  ASSUME StorefrontInv, StoreStays, UNCHANGED <<page, backup>>,
         due' \subseteq {"match", "resolve", "render"},
         NEW b \in Basket, b.cartId <= Len(carts), Resolve(ctx, b)
  PROVE  StorefrontInv'
<1>1. pay \in PayPage /\ ctx \in Basket /\ ctx.cartId \in Nat
  BY BrowserIs DEF Basket
<1>2. ctx' \in Basket /\ ctx'.cartId <= Len(carts)
  <2> DEFINE tagged(x) == [b EXCEPT !.sync = x]
             emptied == [b EXCEPT !.cartId = 0, !.coupon = NoCoupon, !.discount = 0,
                                  !.sync = "idle"]
  <2>1. \/ ctx' \in {tagged("error"), tagged("syncing")}
        \/ ctx' = b \/ ctx' = emptied
    BY DEF Resolve
  <2>2. \A x \in {"error", "syncing"} : tagged(x) \in Basket /\ tagged(x).cartId = b.cartId
    BY DEF Basket
  <2>3. emptied \in Basket /\ emptied.cartId = 0
    BY DEF Basket, Coupons
  <2>4. Len(carts) \in Nat
    BY BrowserIs
  <2> HIDE DEF tagged, emptied
  <2>5. QED
    BY <2>1, <2>2, <2>3, <2>4
<1>3. /\ pay' \in PayPage /\ pay'.visit = pay.visit /\ pay'.submittingRef = pay.submittingRef
      /\ pay'.official = pay.official \/ pay'.official = NoCart
  <2>1. pay' \in {[pay EXCEPT !.official = NoCart, !.loading = FALSE, !.failed = TRUE],
                  [pay EXCEPT !.loading = TRUE, !.failed = FALSE, !.busy = FALSE]}
    BY DEF Resolve
  <2>2. QED
    BY <1>1, <2>1 DEF PayPage
<1>4. QuietCalls
  <2>1. CASE UNCHANGED calls
    BY <2>1, BrowserIs, CallsAlike
  <2>2. CASE ~UNCHANGED calls
    <3>1. PICK a \in Basket, k \in Nat : a = ctx /\ k = ctx.cartId
      BY <1>1
    <3>2. "get" \in Kinds \ {"submit"} /\ "create" \in Kinds \ {"submit"} /\ 0 \in Nat
      BY DEF Kinds
    <3>3. PICK c, d : c = Call("get", a, k) /\ d = Call("create", a, 0)
      OBVIOUS
    <3>4. Free # {} /\ (calls' = Started(c) \/ calls' = Started(d))
      BY <2>2, <3>1, <3>3 DEF Resolve
    <3>5. QED
      BY <3>2, <3>3, <3>4, BrowserIs, CallsStarted
  <2>3. QED
    BY <2>1, <2>2
<1>5. PageStep
  BY <1>2, <1>3, BrowserIs DEF PageStep
<1>6. VisitStep
  BY <1>3, BrowserIs DEF VisitStep
<1>7. QED
  BY <1>4, <1>5, <1>6, QuietStep

(* The effects of the pay page. *)
LEMMA PageEffectsKeep ==
  ASSUME StorefrontInv, PageEffects \/ RetryValidation
  PROVE  StorefrontInv'
<1>1. CASE PageEffects
  <2> DEFINE o == pay.official
             mismatch == "match" \in due /\ o # NoCart
                           /\ ~doesGlobalCartMatchOfficialCart(ctx, o)
             applied == IF mismatch THEN applyOfficialCart(o) ELSE ctx
  <2>1. StoreStays /\ UNCHANGED <<page, backup>>
        /\ due' \subseteq {"match", "resolve", "render"}
    BY <1>1 DEF PageEffects, StoreStays
  <2>2. PICK b : b = applied
    OBVIOUS
  <2>3. b \in Basket /\ b.cartId <= Len(carts)
    <3>1. CASE mismatch
      <4>1. PICK x : x = o
        OBVIOUS
      <4>2. x \in Official /\ x # Lost /\ Known(x)
        BY <3>1, <4>1, BrowserIs DEF PayPage, Lost, NoCart
      <4>3. QED
        BY <2>2, <3>1, <4>1, <4>2, AppliedIs, BrowserIs
    <3>2. CASE ~mismatch
      BY <2>2, <3>2, BrowserIs
    <3>3. QED
      BY <3>1, <3>2
  <2>4. CASE "resolve" \notin due
    <3>1. ctx' = b /\ UNCHANGED <<pay, calls>>
      BY <1>1, <2>2, <2>4 DEF PageEffects
    <3>2. QuietCalls /\ PageStep /\ VisitStep
      BY <2>1, <2>3, <3>1, BrowserIs, CallsAlike DEF PageStep, VisitStep
    <3>3. QED
      BY <2>1, <3>2, QuietStep
  <2>5. CASE "resolve" \in due /\ ctx.items = <<>> /\ ~pay.isSubmitting
    <3>1. ctx' = b /\ pay' = [pay EXCEPT !.official = NoCart, !.failed = TRUE] /\ UNCHANGED calls
      BY <1>1, <2>2, <2>5 DEF PageEffects
    <3>2. pay' \in PayPage /\ pay'.official = NoCart /\ pay'.visit = pay.visit
          /\ pay'.submittingRef = pay.submittingRef
      BY <3>1, BrowserIs DEF PayPage
    <3>3. QuietCalls /\ PageStep /\ VisitStep
      BY <2>1, <2>3, <3>1, <3>2, BrowserIs, CallsAlike DEF PageStep, VisitStep
    <3>4. QED
      BY <2>1, <3>3, QuietStep
  <2>6. CASE "resolve" \in due /\ ~(ctx.items = <<>> /\ ~pay.isSubmitting)
    <3>1. Resolve(ctx, b)
      BY <1>1, <2>2, <2>6 DEF PageEffects
    <3>2. QED
      BY <2>1, <2>3, <3>1, ResolveKeeps
  <2>7. QED
    BY <2>4, <2>5, <2>6
<1>2. CASE RetryValidation
  <2>1. PICK b : b = ctx
    OBVIOUS
  <2>2. b \in Basket /\ b.cartId <= Len(carts) /\ Resolve(ctx, b)
    BY <1>2, <2>1, BrowserIs DEF RetryValidation
  <2>3. StoreStays /\ UNCHANGED <<page, backup, due>>
    BY <1>2 DEF RetryValidation, StoreStays
  <2>4. QED
    BY <2>2, <2>3, ResolveKeeps, BrowserIs
<1>3. QED
  BY <1>1, <1>2

(* The customer confirms: the call shows the total of the page's cart. *)
LEMMA SubmitKeeps ==
  ASSUME StorefrontInv, NEW method \in {"cash", "mercadopago"}, Submit(method)
  PROVE  StorefrontInv'
<1> DEFINE o == pay.official
           c == [Call("submit", ctx, o.id) EXCEPT
                    !.version = o.version, !.method = method,
                    !.shown = DisplayTotal(o, method), !.suppressed = Suppressed(o, method)]
<1>1. /\ UNCHANGED <<ctx, page, backup, carts, promo, price, orders>>
      /\ page = "pay" /\ Free # {} /\ pay.official # NoCart /\ ~pay.submittingRef
      /\ calls' = Started(c) /\ due' = {"render"}
      /\ pay' = [pay EXCEPT !.submittingRef = TRUE, !.isSubmitting = TRUE]
  BY DEF Submit, Reentry
<1>2. StoreStays
  BY <1>1 DEF StoreStays
<1>3. o \in Official /\ o # Lost /\ Known(o)
  BY <1>1, BrowserIs DEF PayPage, Lost, NoCart
<1>4. o.lines \in Seq(Sold) /\ o.discount \in Nat /\ o.version \in Nat /\ o.id \in Nat
  BY <1>3 DEF Official
<1>5. DisplayTotal(o, method) = CartSubtotal(o.lines)
                                  - (IF Suppressed(o, method) THEN 0 ELSE o.discount)
      /\ CartSubtotal(o.lines) \in Nat /\ Suppressed(o, method) \in BOOLEAN
      /\ DisplayTotal(o, method) \in Int
  <2>1. PICK lines : lines = o.lines
    OBVIOUS
  <2>2. CartSubtotal(lines) \in Nat
    BY <1>4, <2>1, SoldTotal, StorefrontAssumption
  <2>3. QED
    BY <1>4, <2>1, <2>2 DEF DisplayTotal, Suppressed
<1>6. Call("submit", ctx, o.id) \in ACall /\ Call("submit", ctx, o.id).kind = "submit"
      /\ Call("submit", ctx, o.id).answer = Lost /\ Call("submit", ctx, o.id).cart = o.id
      /\ Call("submit", ctx, o.id).visit = pay.visit
  <2>1. PICK b, k : b = ctx /\ k = o.id
    OBVIOUS
  <2>2. b \in Basket /\ k \in Nat /\ "submit" \in Kinds
    BY <1>4, <2>1, BrowserIs DEF Kinds
  <2>3. Call("submit", b, k) \in ACall
    BY <2>2, BrowserIs, CallIs
  <2>4. QED
    BY <2>1, <2>3 DEF Call
<1>7. /\ c \in ACall /\ c.kind = "submit" /\ c.answer = Lost /\ c.cart = o.id
      /\ c.visit = pay.visit /\ c.version = o.version /\ c.shown = DisplayTotal(o, method)
      /\ c.suppressed = Suppressed(o, method)
  <2>1. PICK a, v, d, e : /\ a = Call("submit", ctx, o.id) /\ v = o.version
                          /\ d = DisplayTotal(o, method) /\ e = Suppressed(o, method)
    OBVIOUS
  <2>2. a \in ACall /\ v \in Nat /\ d \in Int /\ e \in BOOLEAN
    BY <1>4, <1>5, <1>6, <2>1
  <2> DEFINE x == [a EXCEPT !.version = v, !.method = method, !.shown = d, !.suppressed = e]
  <2>3. /\ x \in ACall /\ x.kind = a.kind /\ x.answer = a.answer /\ x.cart = a.cart
        /\ x.visit = a.visit /\ x.version = v /\ x.shown = d /\ x.suppressed = e
    BY <2>2 DEF ACall
  <2>4. c = x
    BY <2>1
  <2> HIDE DEF x, c, o
  <2>5. QED
    BY <1>6, <2>1, <2>3, <2>4
<1> HIDE DEF c
<1>8. CallOK(c)
  <2>1. o.id \in DOMAIN carts /\ o.lines = carts[o.id].lines
        /\ o.version <= carts[o.id].version
        /\ (o.version = carts[o.id].version => o.discount = carts[o.id].discount)
    BY <1>3 DEF Known
  <2>2. ShowsTotal(c)
    BY <1>5, <1>7, <2>1 DEF ShowsTotal
  <2>3. Known(c.answer) /\ Fits(c)
    BY <1>7 DEF Known, Fits
  <2>4. QED
    BY <1>7, <2>2, <2>3 DEF CallOK
<1>9. PICK x : x = c
  OBVIOUS
<1>10. PICK s \in Slots : calls[s] = NoCall /\ calls' = [calls EXCEPT ![s] = x]
  BY <1>1, <1>9, StartedIs, BrowserIs
<1>11. calls \in [Slots -> {NoCall} \cup ACall]
  BY BrowserIs DEF CallsOK
<1>12. CallsOK'
  <2>1. CallOK(x)'
    BY <1>2, <1>8, <1>9, StoreStaysOK, CallStays, BrowserIs
  <2>2. calls' \in [Slots -> {NoCall} \cup ACall]
    BY <1>7, <1>9, <1>10, <1>11
  <2>3. \A t \in Slots : calls'[t] = calls[t] \/ \E d : calls'[t] = d /\ CallOK(d)'
    <3>1. \A t \in Slots : calls'[t] = calls[t] \/ calls'[t] = x
      BY <1>10, <1>11
    <3>2. QED
      BY <2>1, <3>1
  <2>4. QED
    BY <1>2, <2>2, <2>3, CallsStay, StoreStaysOK, BrowserIs
<1>13. pay' \in PayPage /\ pay'.official = pay.official /\ pay'.visit = pay.visit
       /\ pay'.submittingRef = TRUE
  BY <1>1, BrowserIs DEF PayPage
<1>14. BasketOK' /\ PageOK'
  <2>1. PageStep
    BY <1>1, <1>13, BrowserIs DEF PageStep
  <2>2. QED
    BY <1>2, <2>1, PageStepOK
<1>15. VisitsOK'
  <2>1. /\ calls'[s].kind = "submit" /\ calls'[s].visit = pay.visit
        /\ \A t \in Slots \ {s} : calls'[t] = calls[t]
    BY <1>7, <1>9, <1>10, <1>11
  <2>2. \A t \in Slots : calls[t].kind = "submit" =>
          calls[t].visit <= pay.visit /\ calls[t].visit # pay.visit
    BY <1>1 DEF StorefrontInv, VisitsOK
  <2>3. OneSubmitPerVisit'
    BY <2>1, <2>2 DEF StorefrontInv, VisitsOK, OneSubmitPerVisit
  <2>4. pay.visit <= pay.visit
    BY BrowserIs
  <2>5. QED
    BY <1>1, <1>13, <2>1, <2>2, <2>3, <2>4 DEF VisitsOK
<1>16. QED
  BY <1>2, <1>12, <1>14, <1>15, StoreStaysOK DEF StorefrontInv

----------------------------------------------------------------------------
(* Answers. *)

(* An answered call and the basket its cart makes. *)
LEMMA AnswerIs ==
  ASSUME StorefrontInv, NEW s \in Slots, Answered(s)
  PROVE  /\ calls[s] \in ACall /\ Known(calls[s].answer)
         /\ calls[s].answer \in {NoCart} \cup Official
         /\ Good(s) => LET b == applyOfficialCart(calls[s].answer)
                       IN  b \in Basket /\ b.cartId <= Len(carts)
<1>1. calls[s] \in ACall /\ Known(calls[s].answer)
  BY DEF StorefrontInv, CallsOK, CallOK, Answered
<1>2. PICK o : o = calls[s].answer
  OBVIOUS
<1>3. o \in {Lost} \cup Official /\ Known(o)
  BY <1>1, <1>2 DEF ACall
<1>4. o # Lost => applyOfficialCart(o) \in Basket /\ applyOfficialCart(o).cartId <= Len(carts)
  BY <1>3, AppliedIs, BrowserIs
<1>5. QED
  BY <1>1, <1>2, <1>3, <1>4 DEF Good, Lost, NoCart

(* A basket that was told of an error, or that lost its coupon or its lines. *)
LEMMA BasketsAre ==
  ASSUME NEW b \in Basket
  PROVE  /\ \A x \in {"idle", "syncing", "error"} :
              [b EXCEPT !.sync = x] \in Basket /\ [b EXCEPT !.sync = x].cartId = b.cartId
         /\ LET d == [b EXCEPT !.coupon = NoCoupon, !.discount = 0]
            IN  d \in Basket /\ d.cartId = b.cartId
         /\ Cleared(b) \in Basket /\ Cleared(b).cartId = 0
         /\ \A k \in Backup :
              LET d == [Cleared(b) EXCEPT !.items = k.items, !.coupon = k.coupon,
                                          !.discount = k.discount]
              IN  d \in Basket /\ d.cartId = 0
<1>1. <<>> \in Lines /\ NoCoupon \in Coupons
  BY DEF Lines, Coupons
<1>2. Cleared(b) \in Basket /\ Cleared(b).cartId = 0
  BY <1>1 DEF Cleared, Basket
<1>3. ASSUME NEW k \in Backup
      PROVE  LET d == [Cleared(b) EXCEPT !.items = k.items, !.coupon = k.coupon,
                                         !.discount = k.discount]
             IN  d \in Basket /\ d.cartId = 0
  <2>1. PICK c : c = Cleared(b)
    OBVIOUS
  <2>2. c \in Basket /\ c.cartId = 0
    BY <1>2, <2>1
  <2>3. k.items \in Lines /\ k.coupon \in Coupons /\ k.discount \in Nat
    BY DEF Backup
  <2>4. LET d == [c EXCEPT !.items = k.items, !.coupon = k.coupon, !.discount = k.discount]
        IN  d \in Basket /\ d.cartId = 0
    BY <2>2, <2>3 DEF Basket
  <2>5. QED
    BY <2>1, <2>4
<1>4. \A x \in {"idle", "syncing", "error"} :
        [b EXCEPT !.sync = x] \in Basket /\ [b EXCEPT !.sync = x].cartId = b.cartId
  BY DEF Basket
<1>5. LET d == [b EXCEPT !.coupon = NoCoupon, !.discount = 0]
      IN  d \in Basket /\ d.cartId = b.cartId
  BY <1>1 DEF Basket
<1>6. QED
  BY <1>2, <1>3, <1>4, <1>5

(* What happens to the pages while they wait. *)
LEMMA FreshIs ==
  ASSUME NEW v \in Nat, NEW leaving \in {"no", "status", "redirected"}
  PROVE  /\ FreshPay(v, leaving) \in PayPage /\ FreshPay(v, leaving).visit = v
         /\ FreshPay(v, leaving).official = NoCart
BY DEF FreshPay, PayPage

(* The ticket's checkout is answered; an unheard answer is dropped. *)
LEMMA CheckoutDoneKeeps ==
  ASSUME StorefrontInv, NEW s \in Slots, CheckoutDone(s) \/ Discard(s)
  PROVE  StorefrontInv'
<1>1. StoreStays /\ backup' = backup /\ calls' = Freed(s) /\ Answered(s)
  BY DEF CheckoutDone, Discard, Receiving, StoreStays
<1>2. QuietCalls
  BY <1>1, CallsFreed, BrowserIs
<1>3. CASE UNCHANGED <<page, pay, due>> /\ ctx' \in {ctx, [ctx EXCEPT !.sync = "error"]}
  <2>1. ctx' \in Basket /\ ctx'.cartId <= Len(carts)
    BY <1>3, BrowserIs, BasketsAre
  <2>2. PageStep /\ VisitStep
    BY <1>1, <1>3, <2>1, BrowserIs DEF PageStep, VisitStep
  <2>3. QED
    BY <1>1, <1>2, <2>2, QuietStep
<1>4. CASE CheckoutDone(s) /\ Good(s)
  <2>1. /\ ctx' = applyOfficialCart(calls[s].answer) /\ page' = "pay"
        /\ pay' = IF page = "pay" THEN pay ELSE FreshPay(pay.visit + 1, pay.leaving)
        /\ due' = {"match", "resolve"}
    BY <1>4 DEF CheckoutDone
  <2>2. ctx' \in Basket /\ ctx'.cartId <= Len(carts)
    BY <1>1, <1>4, <2>1, AnswerIs
  <2>3. pay.visit + 1 \in Nat /\ pay.leaving \in {"no", "status", "redirected"}
    BY BrowserIs DEF PayPage
  <2>4. /\ pay' \in PayPage /\ (pay'.official = pay.official \/ pay'.official = NoCart)
        /\ pay'.visit = IF page = "pay" THEN pay.visit ELSE pay.visit + 1
        /\ page = "pay" => pay' = pay
    BY <2>1, <2>3, FreshIs, BrowserIs
  <2>5. PageStep
    BY <1>1, <2>1, <2>2, <2>4, BrowserIs DEF PageStep, Pages
  <2>6. VisitStep
    BY <2>4, BrowserIs DEF VisitStep
  <2>7. QED
    BY <1>1, <1>2, <2>5, <2>6, QuietStep
<1>5. QED
  BY <1>3, <1>4 DEF CheckoutDone, Discard

(* The page's cart is read, or validated anew. *)
LEMMA LoadDoneKeeps ==
  ASSUME StorefrontInv, NEW s \in Slots, LoadDone(s)
  PROVE  StorefrontInv'
<1>1. StoreStays /\ UNCHANGED <<page, backup>> /\ Answered(s) /\ calls[s] # NoCall
  BY DEF LoadDone, Receiving, StoreStays, Answered
<1>2. CASE Good(s)
  <2>1. calls' = Freed(s) /\ ctx' = ctx
    BY <1>2 DEF LoadDone
  <2>2. \/ UNCHANGED <<pay, due>>
        \/ /\ pay' = [pay EXCEPT !.official = calls[s].answer, !.loading = FALSE]
           /\ due' = {"match"}
    BY <1>2 DEF LoadDone
  <2>3. pay' \in PayPage /\ pay'.visit = pay.visit /\ pay'.submittingRef = pay.submittingRef
        /\ pay'.official \in {pay.official, calls[s].answer}
    BY <1>1, <2>2, AnswerIs, BrowserIs DEF PayPage
  <2>4. QuietCalls /\ VisitStep
    BY <1>1, <2>1, <2>3, CallsFreed, BrowserIs DEF VisitStep
  <2>5. PageStep
    BY <1>1, <2>1, <2>2, <2>3, BrowserIs, AnswerIs DEF PageStep
  <2>6. QED
    BY <1>1, <2>4, <2>5, QuietStep
<1>3. CASE ~Good(s)
  <2>1. /\ calls' = [calls EXCEPT ![s].kind = "create", ![s].state = "sent",
                                  ![s].answer = Lost]
        /\ ctx' = [ctx EXCEPT !.sync = "syncing"] /\ UNCHANGED <<pay, due>>
    BY <1>3 DEF LoadDone
  <2>2. calls[s] \in ACall /\ calls \in [Slots -> {NoCall} \cup ACall]
    BY <1>1, AnswerIs, BrowserIs DEF CallsOK
  <2>3. PICK k, c : /\ k = calls[s].cart
                    /\ c = [calls[s] EXCEPT !.kind = "create", !.state = "sent", !.cart = k,
                                            !.answer = Lost]
    OBVIOUS
  <2>4. k \in Nat /\ calls' = [calls EXCEPT ![s] = c]
    <3>1. c = [calls[s] EXCEPT !.kind = "create", !.state = "sent", !.answer = Lost]
      BY <2>2, <2>3 DEF ACall
    <3>2. k \in Nat
      BY <2>2, <2>3 DEF ACall
    <3>3. QED
      BY <2>1, <2>2, <3>1, <3>2
  <2>5. QuietCalls
    BY <1>1, <2>3, <2>4, CallGoesOn, BrowserIs
  <2>6. ctx' \in Basket /\ ctx'.cartId <= Len(carts)
    BY <2>1, BrowserIs, BasketsAre
  <2>7. PageStep
    BY <1>1, <2>1, <2>6, BrowserIs DEF PageStep
  <2>8. VisitStep
    BY <1>1, <2>1, BrowserIs DEF VisitStep
  <2>9. QED
    BY <1>1, <2>5, <2>7, <2>8, QuietStep
<1>4. QED
  BY <1>2, <1>3

(* A validation of the pay page ends. *)
LEMMA SyncDoneKeeps ==
  ASSUME StorefrontInv, NEW s \in Slots, SyncDone(s)
  PROVE  StorefrontInv'
<1>1. StoreStays /\ UNCHANGED <<page, backup>> /\ Answered(s) /\ calls' = Freed(s)
  BY DEF SyncDone, Receiving, StoreStays
<1>2. ctx' \in Basket /\ ctx'.cartId <= Len(carts)
  <2>1. ctx' = IF Good(s) THEN applyOfficialCart(calls[s].answer)
               ELSE [ctx EXCEPT !.sync = "error"]
    BY DEF SyncDone
  <2>2. QED
    BY <1>1, <2>1, AnswerIs, BasketsAre, BrowserIs
<1>3. pay' \in PayPage /\ pay'.visit = pay.visit /\ pay'.submittingRef = pay.submittingRef
      /\ pay'.official \in {pay.official, calls[s].answer}
  <2>1. \/ pay' = pay
        \/ pay' = [pay EXCEPT !.official = calls[s].answer, !.loading = FALSE,
                              !.failed = ~Good(s)]
    BY DEF SyncDone
  <2>2. Good(s) \in BOOLEAN
    BY DEF Good
  <2>3. PICK g \in BOOLEAN : g = ~Good(s)
    BY <2>2
  <2>4. QED
    BY <1>1, <2>1, <2>3, AnswerIs, BrowserIs DEF PayPage
<1>4. due' \subseteq {"match", "resolve", "render"}
  BY BrowserIs DEF SyncDone, Touched
<1>5. PageStep
  BY <1>1, <1>2, <1>3, <1>4, BrowserIs, AnswerIs DEF PageStep
<1>6. QuietCalls /\ VisitStep
  BY <1>1, <1>3, CallsFreed, BrowserIs DEF VisitStep
<1>7. QED
  BY <1>1, <1>5, <1>6, QuietStep

(* The basket is validated for a coupon, and the coupon is asked for. *)
LEMMA CouponSyncDoneKeeps ==
  ASSUME StorefrontInv, NEW s \in Slots, CouponSyncDone(s)
  PROVE  StorefrontInv'
<1>1. StoreStays /\ UNCHANGED <<page, pay, backup>> /\ Answered(s) /\ calls[s] # NoCall
  BY DEF CouponSyncDone, Receiving, StoreStays, Answered
<1>2. ctx' \in Basket /\ ctx'.cartId <= Len(carts)
  <2>1. ctx' = IF Good(s) THEN applyOfficialCart(calls[s].answer)
               ELSE [ctx EXCEPT !.sync = "error"]
    BY DEF CouponSyncDone
  <2>2. QED
    BY <1>1, <2>1, AnswerIs, BasketsAre, BrowserIs
<1>3. due' \subseteq {"match", "resolve", "render"}
  BY BrowserIs DEF CouponSyncDone, Touched
<1>4. QuietCalls
  <2>1. CASE ~Good(s)
    BY <2>1, CallsFreed, BrowserIs DEF CouponSyncDone
  <2>2. CASE Good(s)
    <3>1. calls[s] \in ACall /\ calls \in [Slots -> {NoCall} \cup ACall]
      BY <1>1, AnswerIs, BrowserIs DEF CallsOK
    <3>2. calls[s].answer \in Official
      BY <1>1, <2>2, AnswerIs DEF Good, NoCart, Lost
    <3>3. PICK k, c : /\ k = calls[s].answer.id
                      /\ c = [calls[s] EXCEPT !.kind = "coupon", !.state = "sent", !.cart = k,
                                              !.answer = Lost]
      OBVIOUS
    <3>4. k \in Nat
      BY <3>2, <3>3 DEF Official
    <3>5. calls' = [calls EXCEPT ![s] = c]
      BY <2>2, <3>1, <3>3 DEF CouponSyncDone
    <3>6. QED
      BY <1>1, <3>3, <3>4, <3>5, CallGoesOn, BrowserIs
  <2>3. QED
    BY <2>1, <2>2
<1>5. PageStep /\ VisitStep
  BY <1>1, <1>2, <1>3, BrowserIs DEF PageStep, VisitStep
<1>6. QED
  BY <1>1, <1>4, <1>5, QuietStep

(* A coupon is put on or taken off. *)
LEMMA CouponDoneKeeps ==
  ASSUME StorefrontInv, NEW s \in Slots, CouponDone(s)
  PROVE  StorefrontInv'
<1>1. StoreStays /\ UNCHANGED <<page, backup>> /\ Answered(s) /\ calls' = Freed(s)
  BY DEF CouponDone, Receiving, StoreStays
<1>2. ctx' \in Basket /\ ctx'.cartId <= Len(carts)
  <2>1. \/ Good(s) /\ ctx' = applyOfficialCart(calls[s].answer)
        \/ ctx' = ctx
        \/ ctx' = [ctx EXCEPT !.coupon = NoCoupon, !.discount = 0]
    BY DEF CouponDone
  <2>2. QED
    BY <1>1, <2>1, AnswerIs, BasketsAre, BrowserIs
<1>3. pay' \in PayPage /\ pay'.visit = pay.visit /\ pay'.submittingRef = pay.submittingRef
      /\ pay'.official \in {pay.official, calls[s].answer}
  <2>1. \/ pay' = pay
        \/ pay' = [pay EXCEPT !.official = calls[s].answer, !.busy = FALSE]
        \/ pay' = [pay EXCEPT !.busy = FALSE]
    BY DEF CouponDone
  <2>2. QED
    BY <1>1, <2>1, AnswerIs, BrowserIs DEF PayPage
<1>4. due' \subseteq {"match", "resolve", "render"}
  BY BrowserIs DEF CouponDone, Touched
<1>5. PageStep
  BY <1>1, <1>2, <1>3, <1>4, BrowserIs, AnswerIs DEF PageStep
<1>6. QuietCalls /\ VisitStep
  BY <1>1, <1>3, CallsFreed, BrowserIs DEF VisitStep
<1>7. QED
  BY <1>1, <1>5, <1>6, QuietStep

(* The submission is answered. *)
LEMMA SubmitDoneKeeps ==
  ASSUME StorefrontInv, NEW s \in Slots, SubmitDone(s)
  PROVE  StorefrontInv'
<1>1. StoreStays /\ page' = page /\ Answered(s) /\ calls' = Freed(s)
      /\ calls[s].kind = "submit"
  BY DEF SubmitDone, Receiving, StoreStays
<1>2. QuietCalls
  BY <1>1, CallsFreed, BrowserIs
<1>3. calls[s] \in ACall
  BY <1>1, AnswerIs
<1>4. CASE Good(s)
  <2>1. PICK to \in {"status", "redirected"} : pay' = [pay EXCEPT !.leaving = to]
    BY <1>4 DEF SubmitDone
  <2>2. /\ pay' \in PayPage /\ pay'.official = pay.official /\ pay'.visit = pay.visit
        /\ pay'.submittingRef = pay.submittingRef
    BY <2>1, BrowserIs DEF PayPage
  <2>3. /\ ctx' \in {ctx, Cleared(ctx)}
        /\ due' \in {due, Touched}
        /\ \/ backup' = backup
           \/ backup' = [items |-> calls[s].items, coupon |-> calls[s].coupon,
                         discount |-> calls[s].discount]
    BY <1>4 DEF SubmitDone
  <2>4. ctx' \in Basket /\ ctx'.cartId <= Len(carts)
    <3>1. Cleared(ctx) \in Basket /\ Cleared(ctx).cartId = 0
      BY BasketsAre, BrowserIs
    <3>2. QED
      BY <2>3, <3>1, BrowserIs
  <2>5. due' \subseteq {"match", "resolve", "render"}
    BY <2>3, BrowserIs DEF Touched
  <2>6. backup' \in {NoCart} \cup Backup
    BY <1>3, <2>3, BrowserIs DEF Backup, ACall
  <2>7. PageStep
    BY <1>1, <2>2, <2>4, <2>5, <2>6, BrowserIs DEF PageStep
  <2>8. VisitStep
    BY <1>1, <2>2, BrowserIs DEF VisitStep
  <2>9. QED
    BY <1>1, <1>2, <2>7, <2>8, QuietStep
<1>5. CASE ~Good(s)
  <2>1. /\ UNCHANGED <<ctx, due, backup>>
        /\ pay' = IF OnPage(s)
                  THEN [pay EXCEPT !.submittingRef = FALSE, !.isSubmitting = FALSE]
                  ELSE pay
    BY <1>5 DEF SubmitDone
  <2>2. /\ pay' \in PayPage /\ pay'.official = pay.official /\ pay'.visit = pay.visit
        /\ ~OnPage(s) => pay' = pay
    BY <2>1, BrowserIs DEF PayPage
  <2>3. PageStep
    BY <1>1, <2>1, <2>2, BrowserIs DEF PageStep
  <2>4. CASE ~OnPage(s)
    <3>1. VisitStep
      BY <1>1, <2>2, <2>4, BrowserIs DEF VisitStep
    <3>2. QED
      BY <1>1, <1>2, <2>3, <3>1, QuietStep
  <2>5. CASE OnPage(s)
    <3>1. calls[s].visit = pay.visit
      BY <2>5 DEF OnPage
    <3>2. /\ \A t \in Slots : calls[t].kind = "submit" =>
                calls[t].visit <= pay.visit
          /\ \A t \in Slots : calls[t].kind = "submit" /\ calls[t].visit = pay.visit => t = s
      BY <1>1, <3>1 DEF StorefrontInv, VisitsOK, OneSubmitPerVisit
    <3>3. calls'[s].kind # "submit" /\ \A t \in Slots \ {s} : calls'[t] = calls[t]
      <4>1. calls \in [Slots -> {NoCall} \cup ACall]
        BY BrowserIs DEF CallsOK
      <4>2. QED
        BY <1>1, <4>1 DEF Freed, NoCall
    <3>4. OneSubmitPerVisit'
      BY <3>3 DEF StorefrontInv, VisitsOK, OneSubmitPerVisit
    <3>5. VisitsOK'
      BY <2>2, <3>2, <3>3, <3>4 DEF VisitsOK
    <3>6. QED
      BY <1>1, <1>2, <2>3, <3>5, StoreStaysOK, PageStepOK, QuietCallsOK DEF StorefrontInv
  <2>6. QED
    BY <2>4, <2>5
<1>6. QED
  BY <1>4, <1>5

(* The browser leaves a page, loads it again or comes back. *)
LEMMA PagesKeep ==
  ASSUME StorefrontInv, Navigate \/ KeepShopping \/ Reload \/ Return
  PROVE  StorefrontInv'
<1>1. StoreStays
  BY DEF Navigate, KeepShopping, Reload, Return, StoreStays
<1>2. QuietCalls
  BY BrowserIs, CallsAlike, CallsOrphaned DEF Navigate, KeepShopping, Reload, Return
<1>3. ctx' \in Basket /\ ctx'.cartId <= Len(carts) /\ backup' \in {NoCart} \cup Backup
  <2>1. CASE ctx' \in {ctx, [ctx EXCEPT !.sync = "idle"], Cleared(ctx)}
             /\ backup' = backup
    <3>1. /\ Cleared(ctx) \in Basket /\ Cleared(ctx).cartId = 0
          /\ [ctx EXCEPT !.sync = "idle"] \in Basket
          /\ [ctx EXCEPT !.sync = "idle"].cartId = ctx.cartId
      BY BasketsAre, BrowserIs
    <3>2. PICK x, y : x = Cleared(ctx) /\ y = [ctx EXCEPT !.sync = "idle"]
      OBVIOUS
    <3>3. ctx' \in {ctx, x, y} /\ {ctx, x, y} \in SUBSET Basket
          /\ x.cartId = 0 /\ y.cartId = ctx.cartId
      BY <2>1, <3>1, <3>2, BrowserIs
    <3>4. QED
      BY <2>1, <3>3, BrowserIs
  <2>2. CASE Return /\ ~(ctx' \in {ctx, Cleared(ctx)} /\ backup' = backup)
    <3>1. backup # NoCart /\ backup' = NoCart
          /\ ctx' = [Cleared(ctx) EXCEPT !.items = backup.items,
                        !.coupon = backup.coupon, !.discount = backup.discount]
      BY <2>2 DEF Return
    <3>2. PICK b \in Basket, k \in Backup : b = ctx /\ k = backup
      BY <3>1, BrowserIs
    <3>3. PICK d : d = [Cleared(b) EXCEPT !.items = k.items, !.coupon = k.coupon,
                                          !.discount = k.discount]
      OBVIOUS
    <3>4. d \in Basket /\ d.cartId = 0
      BY <3>3, BasketsAre
    <3>5. ctx' = d
      BY <3>1, <3>2, <3>3
    <3>6. d.cartId <= Len(carts)
      BY <3>4, BrowserIs
    <3>7. backup' = NoCart
      BY <3>1
    <3>8. QED
      BY <3>4, <3>5, <3>6, <3>7
  <2>3. QED
    BY <2>1, <2>2 DEF Navigate, KeepShopping, Reload, Return
<1>4. PICK v : v = pay.visit
  OBVIOUS
<1>5. v \in Nat /\ v + 1 \in Nat
  BY <1>4, BrowserIs
<1>6. /\ pay' \in PayPage
      /\ pay' = pay \/ pay'.official = NoCart
      /\ pay'.visit = IF Reload THEN pay.visit + 1 ELSE pay.visit
  <2>1. CASE Reload
    <3>1. pay' = FreshPay(v + 1, "no")
      BY <1>4, <2>1 DEF Reload
    <3>2. QED
      BY <1>4, <1>5, <2>1, <3>1, FreshIs
  <2>2. CASE Navigate /\ ~Reload
    <3>1. pay' = FreshPay(v, "no")
      BY <1>4, <2>2 DEF Navigate
    <3>2. QED
      BY <1>4, <1>5, <2>2, <3>1, FreshIs
  <2>3. CASE (KeepShopping \/ Return) /\ ~Reload
    BY <2>3, BrowserIs DEF KeepShopping, Return
  <2>4. QED
    BY <2>1, <2>2, <2>3
<1>7. page' \in Pages /\ due' \subseteq {"match", "resolve", "render"}
  BY BrowserIs DEF Navigate, KeepShopping, Reload, Return, Touched, PayPage, Pages
<1>8. PageStep
  BY <1>3, <1>6, <1>7, BrowserIs DEF PageStep
<1>9. page' # "pay" \/ Reload
  BY BrowserIs DEF Navigate, KeepShopping, Return, PayPage
<1>10. VisitStep
  BY <1>6, <1>9, BrowserIs DEF VisitStep
<1>11. QED
  BY <1>1, <1>2, <1>8, <1>10, QuietStep

(* The state in which the shop opens. *)
LEMMA StorefrontOpens ==
  ASSUME StorefrontInit
  PROVE  StorefrontInv
<1>1. /\ carts = <<>> /\ orders = {} /\ calls = [s \in Slots |-> NoCall]
      /\ pay = FreshPay(0, "no") /\ page = "menu" /\ due = {} /\ backup = NoCart
      /\ promo \in [state : {"active"}, tender : {"any", "cash"}, value : Savings]
      /\ ctx = [items |-> <<>>, cartId |-> 0, coupon |-> NoCoupon, discount |-> 0,
                sync |-> "idle"]
      /\ price = [p \in Products |-> CHOOSE v \in Prices : \A w \in Prices : v <= w]
  BY DEF StorefrontInit
<1>2. StoreOK
  <2>1. Prices \in SUBSET Nat /\ Prices # {} /\ MaxCarts \in Nat
    BY StorefrontAssumption
  <2>2. (CHOOSE v \in Prices : \A w \in Prices : v <= w) \in Nat
    BY <2>1, HasLeast
  <2>3. price \in [Products -> Nat]
    BY <1>1, <2>2
  <2>4. promo \in [state : {"active", "off", "deleted"}, tender : {"any", "cash"}, value : Savings]
    BY <1>1
  <2>5. carts \in Seq(StoredCart) /\ Len(carts) = 0 /\ DOMAIN carts = {}
    BY <1>1
  <2>6. QED
    BY <2>1, <2>3, <2>4, <2>5 DEF StoreOK
<1>3. CallsOK
  BY <1>1 DEF CallsOK
<1>4. BasketOK
  BY <1>1 DEF BasketOK, Basket, Lines, Coupons, NoCoupon
<1>5. PageOK
  <2>1. 0 \in Nat
    OBVIOUS
  <2>2. pay \in PayPage /\ pay.official = NoCart
    BY <1>1, <2>1, FreshIs
  <2>3. QED
    BY <1>1, <2>2 DEF PageOK, Known, NoCart, Lost, Pages
<1>6. VisitsOK
  BY <1>1 DEF VisitsOK, OneSubmitPerVisit, NoCall
<1>7. PaysWhatWasShown
  BY <1>1 DEF PaysWhatWasShown
<1>8. QED
  BY <1>2, <1>3, <1>4, <1>5, <1>6, <1>7 DEF StorefrontInv

(* No step disturbs it. *)
LEMMA StorefrontStep ==
  ASSUME StorefrontInv, [StorefrontNext]_storeVars
  PROVE  StorefrontInv'
<1>1. CASE Customer
  <2>1. CASE \E method \in {"cash", "mercadopago"} : Submit(method)
    BY <2>1, SubmitKeeps
  <2>2. QED
    BY <1>1, <2>1, EditTicketKeeps, PanelKeeps, PageEffectsKeep, PayCouponKeeps, PagesKeep
       DEF Customer
<1>2. CASE PageEffects \/ Navigate
  BY <1>2, PageEffectsKeep, PagesKeep
<1>3. ASSUME NEW s \in Slots, Receive(s) PROVE StorefrontInv'
  BY <1>3, CheckoutDoneKeeps, LoadDoneKeeps, SyncDoneKeeps, CouponSyncDoneKeeps,
     CouponDoneKeeps, SubmitDoneKeeps DEF Receive
<1>4. ASSUME NEW s \in Slots, ServeCall(s) PROVE StorefrontInv'
  BY <1>4, ServeKeeps
<1>5. CASE \/ \E s \in Slots : Fail(s)
           \/ \E k \in DOMAIN carts : ExpireCart(k)
           \/ EditPromo
           \/ \E p \in Products, v \in Prices : Reprice(p, v)
  BY <1>5, WorldKeeps
<1>6. CASE UNCHANGED storeVars
  <2>1. /\ UNCHANGED <<ctx, page, pay, due, calls, backup, carts, promo, price, orders>>
    BY <1>6 DEF storeVars
  <2>2. StoreStays
    BY <2>1 DEF StoreStays
  <2>3. QuietCalls /\ VisitStep
    BY <2>1, BrowserIs, CallsAlike DEF VisitStep
  <2>4. PageStep
    BY <2>1, BrowserIs DEF PageStep
  <2>5. QED
    BY <2>2, <2>3, <2>4, QuietStep
<1>7. QED
  BY <1>1, <1>2, <1>3, <1>4, <1>5, <1>6 DEF StorefrontNext

(* What the browser and the server know of carts, calls and visits is an         *)
(* invariant of the shop, for any catalogue, prices and calls in flight: every  *)
(* cart a page or an answer shows is the server's at its version, and every     *)
(* submission shows the total of its version.                                   *)
THEOREM StorefrontInductive == StorefrontSpec => []StorefrontInv
<1>1. StorefrontInit => StorefrontInv
  BY StorefrontOpens
<1>2. StorefrontInv /\ [StorefrontNext]_storeVars => StorefrontInv'
  BY StorefrontStep
<1>3. QED
  BY <1>1, <1>2, PTL DEF StorefrontSpec

(* The server charges what the pay page showed when the customer confirmed:      *)
(* CreateCashOrderService and PaymentSessionService take a cart only at the      *)
(* version handleSubmit sent, and the total of a version never changes.          *)
THEOREM StorefrontCharges == StorefrontSpec => []PaysWhatWasShown
<1>1. StorefrontInv => PaysWhatWasShown
  BY DEF StorefrontInv
<1>2. QED
  BY <1>1, StorefrontInductive, PTL

(* The shapes of the state, and one submission of a visit, are in the invariant. *)
LEMMA StorefrontTyped ==
  ASSUME StorefrontInv
  PROVE  VisitsAgree
<1>2. /\ page \in {"menu", "pay", "status", "redirected"}
      /\ ctx \in Basket /\ ctx.cartId <= Len(carts) /\ due \subseteq {"match", "resolve", "render"}
      /\ pay \in PayPage /\ MaxUnits \in Nat
  BY BrowserIs, StorefrontAssumption DEF Pages
<1>3. ctx.sync \in {"idle", "syncing", "ready", "error"} /\ ctx.cartId \in 0..Len(carts)
  BY <1>2, BrowserIs DEF Basket
<1>4. ASSUME NEW i \in DOMAIN ctx.items PROVE ctx.items[i].qty \in 1..(2 * MaxUnits)
  <2>1. ctx.items \in Seq(BasketLine(1..MaxUnits))
    BY <1>2 DEF Basket, Lines
  <2>2. ctx.items[i] \in BasketLine(1..MaxUnits)
    BY <2>1
  <2>3. ctx.items[i].qty \in 1..MaxUnits
    BY <2>2 DEF BasketLine
  <2>4. QED
    BY <1>2, <2>3
<1>5. pay.official # NoCart => pay.official.id \in DOMAIN carts
  BY BrowserIs DEF Known, NoCart, Lost
<1>6. Len(carts) <= MaxCarts
      /\ \A k \in DOMAIN carts : carts[k].discount <= CartSubtotal(carts[k].lines)
  BY BrowserIs DEF StoreOK
<1>7. OneSubmitPerVisit
  BY DEF StorefrontInv, VisitsOK
<1>8. QED
  BY <1>2, <1>3, <1>4, <1>5, <1>6, <1>7 DEF VisitsAgree, StorefrontTypeOK

(* The carts stay sound, and one visit of the pay page waits for one order or    *)
(* session at most, however often the button is tapped (submittingRef).          *)
THEOREM StorefrontVisits == StorefrontSpec => []VisitsAgree
<1>1. StorefrontInv => VisitsAgree
  BY StorefrontTyped
<1>2. QED
  BY <1>1, StorefrontInductive, PTL

----------------------------------------------------------------------------
(* What validation leaves as it was. *)

(* What one line of a request costs at the price it confirms. *)
SentTotal(e) == (e.confirmed + (IF e.addon THEN AddonPrice ELSE 0)) * e.qty

(* A sum with one more weight. *)
LEMMA TotalsExtend ==
  ASSUME NEW n \in Nat, NEW v \in [1..n -> Nat], NEW w \in [1..(n + 1) -> Nat],
         \A i \in 1..n : v[i] = w[i],
         NEW p, Totals(p, n, v), NEW q, Totals(q, n + 1, w)
  PROVE  p[n] \in Nat /\ q[n + 1] = p[n] + w[n + 1]
<1> DEFINE ok == {j \in 0..n : p[j] = q[j]}
<1>1. 0 \in ok
  BY DEF Totals
<1>2. ASSUME NEW j \in 0..(n - 1), j \in ok PROVE j + 1 \in ok
  <2>1. j + 1 \in 1..n /\ j + 1 \in 1..(n + 1) /\ (j + 1) - 1 = j
    OBVIOUS
  <2>2. p[j + 1] = p[j] + v[j + 1] /\ q[j + 1] = q[j] + w[j + 1]
    BY <2>1 DEF Totals
  <2>3. QED
    BY <1>2, <2>1, <2>2
<1>3. \A j \in 0..n : j \in ok
  <2> HIDE DEF ok
  <2>1. QED
    BY <1>1, <1>2, Climb
<1>4. n + 1 \in 1..(n + 1) /\ (n + 1) - 1 = n /\ n \in 0..n
  OBVIOUS
<1>5. p[n] = q[n]
  BY <1>3, <1>4
<1>6. QED
  BY <1>4, <1>5 DEF Totals

(* One more line makes as many more units. *)
LEMMA CountAdds ==
  ASSUME NEW S, \A e \in S : e.qty \in Nat, NEW x \in Seq(S), NEW e \in S
  PROVE  itemCount(x) \in Nat /\ itemCount(Append(x, e)) = itemCount(x) + e.qty
<1> DEFINE n == Len(x)
           y == Append(x, e)
           v == [i \in 1..n |-> x[i].qty]
           w == [i \in 1..(n + 1) |-> y[i].qty]
<1>1. /\ n \in Nat /\ DOMAIN x = 1..n /\ DOMAIN y = 1..(n + 1)
      /\ \A i \in 1..n : x[i] \in S /\ y[i] = x[i]
      /\ y[n + 1] = e
  OBVIOUS
<1> HIDE DEF y, n
<1>2. /\ \A i \in 1..n : x[i].qty \in Nat
      /\ \A i \in 1..(n + 1) : y[i].qty \in Nat
  <2>1. ASSUME NEW i \in 1..(n + 1) PROVE y[i] \in S
    BY <1>1
  <2>2. QED
    BY <1>1, <2>1
<1>3. /\ v \in [1..n -> Nat] /\ w \in [1..(n + 1) -> Nat]
      /\ \A i \in 1..n : v[i] = w[i]
      /\ w[n + 1] = e.qty
  BY <1>1, <1>2
<1>4. PICK p : Totals(p, n, v) /\ itemCount(x) = p[n]
  BY <1>1, <1>2, ItemCountRuns
<1>5. n + 1 \in Nat
  BY <1>1
<1>6. PICK q : Totals(q, n + 1, w) /\ itemCount(y) = q[n + 1]
  BY <1>1, <1>2, <1>5, ItemCountRuns
<1> HIDE DEF v, w
<1>7. p[n] \in Nat /\ q[n + 1] = p[n] + w[n + 1]
  BY <1>1, <1>3, <1>4, <1>6, TotalsExtend
<1>8. QED
  BY <1>3, <1>4, <1>6, <1>7 DEF y

(* One more line costs as much more. *)
LEMMA CostAdds ==
  ASSUME NEW x \in Seq(Sent), NEW e \in Sent
  PROVE  /\ CartSubtotal(Confirmed(x)) \in Nat /\ SentTotal(e) \in Nat
         /\ CartSubtotal(Confirmed(Append(x, e)))
              = CartSubtotal(Confirmed(x)) + SentTotal(e)
<1> DEFINE n == Len(x)
           y == Append(x, e)
           v == [i \in 1..n |-> LineTotal(Confirmed(x)[i])]
           w == [i \in 1..(n + 1) |-> LineTotal(Confirmed(y)[i])]
<1>1. /\ n \in Nat /\ DOMAIN x = 1..n /\ DOMAIN y = 1..(n + 1)
      /\ \A i \in 1..n : x[i] \in Sent /\ y[i] = x[i]
      /\ y[n + 1] = e
  OBVIOUS
<1>2. \A s \in Sent : SentTotal(s) \in Nat
  BY StorefrontAssumption, CartLinesAssumption DEF Sent, SentTotal
<1> HIDE DEF y, n
<1>3. /\ \A i \in 1..n : LineTotal(Confirmed(x)[i]) = SentTotal(x[i])
      /\ DOMAIN Confirmed(x) = 1..n
  BY <1>1 DEF Confirmed, LineTotal, SentTotal
<1>4. /\ \A i \in 1..(n + 1) : LineTotal(Confirmed(y)[i]) = SentTotal(y[i])
      /\ DOMAIN Confirmed(y) = 1..(n + 1)
  BY <1>1 DEF Confirmed, LineTotal, SentTotal
<1>5. \A i \in 1..(n + 1) : y[i] \in Sent
  BY <1>1
<1>6. /\ \A i \in 1..n : LineTotal(Confirmed(x)[i]) \in Nat
      /\ \A i \in 1..(n + 1) : LineTotal(Confirmed(y)[i]) \in Nat
      /\ n + 1 \in Nat
  BY <1>1, <1>2, <1>3, <1>4, <1>5
<1>7. /\ v \in [1..n -> Nat] /\ w \in [1..(n + 1) -> Nat]
      /\ \A i \in 1..n : v[i] = w[i]
      /\ w[n + 1] = SentTotal(e)
  <2>1. \A i \in 1..n : i \in 1..(n + 1)
    BY <1>1
  <2>2. n + 1 \in 1..(n + 1)
    BY <1>1
  <2>3. QED
    BY <1>1, <1>3, <1>4, <1>6, <2>1, <2>2
<1>8. PICK p : Totals(p, n, v) /\ CartSubtotal(Confirmed(x)) = p[n]
  BY <1>1, <1>3, <1>6, CartSubtotalRuns
<1>9. PICK q : Totals(q, n + 1, w) /\ CartSubtotal(Confirmed(y)) = q[n + 1]
  BY <1>4, <1>6, CartSubtotalRuns
<1> HIDE DEF v, w
<1>10. p[n] \in Nat /\ q[n + 1] = p[n] + w[n + 1]
  BY <1>1, <1>7, <1>8, <1>9, TotalsExtend
<1>11. QED
  BY <1>2, <1>7, <1>8, <1>9, <1>10 DEF y

(* One more line of the basket is sent as so many units at so much. *)
LEMMA SnapshotAdds ==
  ASSUME NEW x \in Seq(Sent), NEW l \in BasketLine(1..MaxUnits)
  PROVE  /\ x \o Snapshot(l) \in Seq(Sent)
         /\ itemCount(x \o Snapshot(l)) = itemCount(x) + l.qty
         /\ CartSubtotal(Confirmed(x \o Snapshot(l)))
              = CartSubtotal(Confirmed(x)) + getCartLineSubtotal(l)
<1> DEFINE base == getCartLineBaseUnitPrice(l)
           sent(qty, addon) == [prod |-> l.prod, qty |-> qty, addon |-> addon,
                                confirmed |-> base]
<1>1. /\ MaxUnits \in Nat /\ l.prod \in Products /\ l.qty \in 1..MaxUnits
      /\ l.addon \in BOOLEAN /\ base \in Nat /\ AddonPrice \in Nat
  <2>1. MaxUnits \in Nat /\ 1..MaxUnits \in SUBSET Nat
    BY StorefrontAssumption
  <2>2. QED
    BY <2>1, BaseIsNat, CartLinesAssumption DEF BasketLine
<1>2. \A qty \in 1..MaxUnits, addon \in BOOLEAN :
        /\ sent(qty, addon) \in Sent /\ sent(qty, addon).qty = qty
        /\ SentTotal(sent(qty, addon)) = (base + (IF addon THEN AddonPrice ELSE 0)) * qty
  <2> HIDE DEF base
  <2>1. QED
    BY <1>1 DEF Sent, SentTotal
<1>3. \A e \in Sent : e.qty \in Nat
  BY <1>1 DEF Sent
<1>4. getCartLineSubtotal(l) = base * l.qty + (IF l.addon THEN AddonPrice ELSE 0)
  BY DEF getCartLineSubtotal, getCartLineOptionsDelta
<1>5. CASE l.addon /\ l.qty > 1
  <2>1. 1 \in 1..MaxUnits /\ l.qty - 1 \in 1..MaxUnits
    BY <1>1, <1>5
  <2>2. PICK a \in Sent, b \in Sent : a = sent(1, TRUE) /\ b = sent(l.qty - 1, FALSE)
    BY <1>2, <2>1
  <2>3. Snapshot(l) = <<a, b>>
    BY <1>5, <2>2 DEF Snapshot
  <2>4. x \o <<a, b>> = Append(Append(x, a), b) /\ Append(x, a) \in Seq(Sent)
        /\ Append(Append(x, a), b) \in Seq(Sent)
    OBVIOUS
  <2>5. a.qty = 1 /\ b.qty = l.qty - 1
        /\ SentTotal(a) = base + AddonPrice /\ SentTotal(b) = base * (l.qty - 1)
    <3>1. a.qty = 1 /\ SentTotal(a) = (base + AddonPrice) * 1
      BY <1>2, <2>1, <2>2
    <3>2. b.qty = l.qty - 1 /\ SentTotal(b) = (base + 0) * (l.qty - 1)
      BY <1>2, <2>1, <2>2
    <3>3. QED
      BY <1>1, <3>1, <3>2
  <2>6. /\ itemCount(x) \in Nat /\ itemCount(Append(x, a)) = itemCount(x) + 1
        /\ itemCount(Append(Append(x, a), b)) = itemCount(Append(x, a)) + (l.qty - 1)
    BY <1>3, <2>4, <2>5, CountAdds
  <2>7. /\ CartSubtotal(Confirmed(x)) \in Nat
        /\ CartSubtotal(Confirmed(Append(x, a)))
             = CartSubtotal(Confirmed(x)) + (base + AddonPrice)
        /\ CartSubtotal(Confirmed(Append(Append(x, a), b)))
             = CartSubtotal(Confirmed(Append(x, a))) + base * (l.qty - 1)
    BY <2>4, <2>5, CostAdds
  <2>8. PICK u \in Nat, q \in Nat : u = base /\ q = l.qty
    BY <1>1
  <2>9. (u + AddonPrice) + u * (q - 1) = u * q + AddonPrice
        /\ u * q \in Nat /\ u * (q - 1) \in Int
    <3>1. u * (q - 1) = u * q - u
      OBVIOUS
    <3>2. u * q \in Nat
      OBVIOUS
    <3>3. QED
      BY <1>1, <3>1, <3>2
  <2> HIDE DEF base, sent
  <2>10. CartSubtotal(Confirmed(x)) + (base + AddonPrice) + base * (l.qty - 1)
           = CartSubtotal(Confirmed(x)) + getCartLineSubtotal(l)
    <3>1. getCartLineSubtotal(l) = u * q + AddonPrice
      BY <1>4, <1>5, <2>8
    <3>2. PICK t \in Int : t = u * (q - 1)
      BY <2>9
    <3>3. QED
      BY <1>1, <2>7, <2>8, <2>9, <3>1, <3>2
  <2>11. itemCount(x) + 1 + (l.qty - 1) = itemCount(x) + l.qty
    BY <1>1, <2>6
  <2>12. QED
    BY <2>3, <2>4, <2>6, <2>7, <2>10, <2>11
<1>6. CASE ~(l.addon /\ l.qty > 1)
  <2>1. PICK a \in Sent : a = sent(l.qty, l.addon)
    BY <1>1, <1>2
  <2>2. Snapshot(l) = <<a>>
    BY <1>6, <2>1 DEF Snapshot
  <2>3. x \o <<a>> = Append(x, a) /\ Append(x, a) \in Seq(Sent)
    OBVIOUS
  <2>4. a.qty = l.qty /\ SentTotal(a) = (base + (IF l.addon THEN AddonPrice ELSE 0)) * l.qty
    BY <1>1, <1>2, <2>1
  <2>5. SentTotal(a) = getCartLineSubtotal(l)
    <3> HIDE DEF base
    <3>1. CASE l.addon
      <4>1. l.qty = 1
        BY <1>1, <1>6, <3>1
      <4>2. QED
        BY <1>1, <1>4, <2>4, <3>1, <4>1
    <3>2. CASE ~l.addon
      <4>1. base + 0 = base
        BY <1>1
      <4>2. base * l.qty \in Nat
        BY <1>1
      <4>3. QED
        BY <1>4, <2>4, <3>2, <4>1, <4>2
    <3>3. QED
      BY <3>1, <3>2
  <2>6. itemCount(Append(x, a)) = itemCount(x) + l.qty
    BY <1>3, <2>4, CountAdds
  <2>7. QED
    BY <2>2, <2>3, <2>5, <2>6, CostAdds
<1>7. QED
  BY <1>5, <1>6

(* A request has the units of the basket and costs what the basket costs. *)
LEMMA RequestAddsUp ==
  ASSUME NEW ls \in Lines
  PROVE  LET sent == cartLinesToSnapshots(ls)
         IN  /\ sent \in Seq(Sent)
             /\ itemCount(sent) = itemCount(ls)
             /\ CartSubtotal(Confirmed(sent)) = subtotal(ls)
<1> DEFINE n == Len(ls)
           v == [i \in 1..n |-> ls[i].qty]
           w == [i \in 1..n |-> getCartLineSubtotal(ls[i])]
<1>1. /\ n \in Nat /\ DOMAIN ls = 1..n
      /\ \A i \in 1..n : ls[i] \in BasketLine(1..MaxUnits)
      /\ MaxUnits \in Nat
  BY StorefrontAssumption DEF Lines
<1>2. \A i \in 1..n : Snapshot(ls[i]) \in Seq(Sent)
  BY <1>1, SnapshotIsSent
<1>3. \A i \in 1..n : ls[i].qty \in Nat /\ getCartLineSubtotal(ls[i]) \in Nat
  <2>1. 1..MaxUnits \in SUBSET Nat
    OBVIOUS
  <2>2. \A i \in 1..n : ls[i].qty \in 1..MaxUnits
    BY <1>1 DEF BasketLine
  <2>3. QED
    BY <1>1, <2>1, <2>2, BaseIsNat
<1> HIDE DEF n
<1>4. PICK r : Joined(r, n, ls, Sent) /\ cartLinesToSnapshots(ls) = r[n]
  BY <1>1, <1>2, SnapshotsJoin
<1>5. PICK p : Totals(p, n, v) /\ itemCount(ls) = p[n]
  BY <1>1, <1>3, ItemCountRuns
<1>6. PICK q : Totals(q, n, w) /\ subtotal(ls) = q[n]
  BY <1>1, <1>3, SubtotalRuns
<1>7. \A i \in 1..n : v[i] = ls[i].qty /\ w[i] = getCartLineSubtotal(ls[i])
  OBVIOUS
<1> HIDE DEF v, w
<1> DEFINE ok == {m \in 0..n : /\ itemCount(r[m]) = p[m]
                               /\ CartSubtotal(Confirmed(r[m])) = q[m]}
<1>8. 0 \in ok
  <2>1. r[0] = <<>> /\ p[0] = 0 /\ q[0] = 0 /\ 0 \in 0..n
    BY <1>1, <1>4, <1>5, <1>6 DEF Joined, Totals
  <2>2. itemCount(<<>>) = 0
    <3>1. \A i \in 1..0 : (<<>>)[i].qty \in Nat
      OBVIOUS
    <3>2. 0 \in Nat /\ DOMAIN <<>> = 1..0
      OBVIOUS
    <3>3. PICK t : Totals(t, 0, [i \in 1..0 |-> (<<>>)[i].qty]) /\ itemCount(<<>>) = t[0]
      BY <3>1, <3>2, ItemCountRuns
    <3>4. QED
      BY <3>3 DEF Totals
  <2>3. CartSubtotal(Confirmed(<<>>)) = 0
    <3> DEFINE none == Confirmed(<<>>)
    <3>1. 0 \in Nat /\ DOMAIN none = 1..0 /\ \A i \in 1..0 : LineTotal(none[i]) \in Nat
      BY DEF Confirmed
    <3> HIDE DEF none
    <3>2. PICK t : Totals(t, 0, [i \in 1..0 |-> LineTotal(none[i])]) /\ CartSubtotal(none) = t[0]
      BY <3>1, CartSubtotalRuns
    <3>3. QED
      BY <3>2 DEF Totals, none
  <2>4. QED
    BY <2>1, <2>2, <2>3
<1>9. ASSUME NEW m \in 0..(n - 1), m \in ok PROVE m + 1 \in ok
  <2>1. m + 1 \in 1..n /\ (m + 1) - 1 = m /\ m \in 0..n /\ m + 1 \in 0..n
    BY <1>1
  <2>2. r[m] \in Seq(Sent) /\ r[m + 1] = r[m] \o Snapshot(ls[m + 1])
    BY <1>4, <2>1 DEF Joined
  <2>3. p[m + 1] = p[m] + ls[m + 1].qty /\ q[m + 1] = q[m] + getCartLineSubtotal(ls[m + 1])
    BY <1>5, <1>6, <1>7, <2>1 DEF Totals
  <2>4. /\ itemCount(r[m + 1]) = itemCount(r[m]) + ls[m + 1].qty
        /\ CartSubtotal(Confirmed(r[m + 1]))
             = CartSubtotal(Confirmed(r[m])) + getCartLineSubtotal(ls[m + 1])
    BY <1>1, <2>1, <2>2, SnapshotAdds
  <2>5. QED
    BY <1>9, <2>1, <2>3, <2>4
<1>10. \A m \in 0..n : m \in ok
  <2> HIDE DEF ok
  <2>1. QED
    BY <1>1, <1>8, <1>9, Climb
<1>11. n \in 0..n /\ r[n] \in Seq(Sent)
  BY <1>1, <1>4 DEF Joined
<1>12. itemCount(r[n]) = p[n] /\ CartSubtotal(Confirmed(r[n])) = q[n]
  BY <1>10, <1>11
<1>13. QED
  BY <1>4, <1>5, <1>6, <1>11, <1>12

(* The lines of a confirmed request have its units, whoever numbers them. *)
LEMMA AppliedUnits ==
  ASSUME NEW k, NEW x \in Seq(Sent)
  PROVE  itemCount(officialCartToLines(k, Confirmed(x))) = itemCount(x)
<1> DEFINE n == Len(x)
           ls == officialCartToLines(k, Confirmed(x))
           v == [i \in 1..n |-> x[i].qty]
           w == [i \in 1..n |-> ls[i].qty]
<1>1. /\ n \in Nat /\ DOMAIN x = 1..n /\ \A i \in 1..n : x[i].qty \in Nat
  <2>1. \A i \in 1..n : x[i] \in Sent
    OBVIOUS
  <2>2. QED
    BY <2>1, StorefrontAssumption DEF Sent
<1>2. DOMAIN ls = 1..n /\ \A i \in 1..n : ls[i].qty = x[i].qty
  BY <1>1 DEF officialCartToLines, Confirmed
<1> HIDE DEF n, ls
<1>3. v = w /\ v \in [1..n -> Nat]
  BY <1>1, <1>2
<1>4. PICK p : Totals(p, n, v) /\ itemCount(x) = p[n]
  BY <1>1, ItemCountRuns
<1>5. PICK q : Totals(q, n, w) /\ itemCount(ls) = q[n]
  BY <1>1, <1>2, ItemCountRuns
<1> HIDE DEF v, w
<1>6. p[n] = q[n]
  <2>1. n <= n
    BY <1>1
  <2>2. QED
    BY <1>1, <1>3, <1>4, <1>5, <2>1, TotalsAgree
<1>7. QED
  BY <1>4, <1>5, <1>6 DEF ls

(* Validating the ticket keeps its units, and the server's subtotal is what the  *)
(* ticket added up to: the split of cartLinesToSnapshots charges an add-on once  *)
(* per line, as the browser does.                                                *)
THEOREM StorefrontKeepsTicket == StorefrontSpec => TicketSurvivesValidation
<1>1. ASSUME StorefrontInv, NEW s \in Slots, Receive(s), calls[s].kind \in Validating,
             calls[s].live, Good(s), calls[s].items = ctx.items
      PROVE  /\ itemCount(ctx'.items) = itemCount(ctx.items)
             /\ CartSubtotal(calls[s].answer.lines) = subtotal(ctx.items)
  <2>1. Answered(s) /\ ctx' = applyOfficialCart(calls[s].answer)
    BY <1>1 DEF Receive, CheckoutDone, LoadDone, SyncDone, CouponSyncDone, CouponDone,
                SubmitDone, Discard, Receiving, Validating
  <2>2. CallOK(calls[s])
    BY <1>1, <2>1 DEF StorefrontInv, CallsOK, Answered
  <2>3. calls[s].answer.lines = Confirmed(cartLinesToSnapshots(ctx.items))
    BY <1>1, <2>2 DEF CallOK, Fits, Good
  <2>4. PICK ls \in Lines : ls = ctx.items
    BY <1>1, BrowserIs DEF Basket
  <2>5. PICK x, k : x = cartLinesToSnapshots(ls) /\ k = calls[s].answer.id
    OBVIOUS
  <2>6. /\ x \in Seq(Sent) /\ itemCount(x) = itemCount(ls)
        /\ CartSubtotal(Confirmed(x)) = subtotal(ls)
    BY <2>5, RequestAddsUp
  <2>7. ctx'.items = officialCartToLines(k, Confirmed(x))
    BY <2>1, <2>3, <2>4, <2>5 DEF applyOfficialCart
  <2>8. QED
    BY <2>3, <2>4, <2>5, <2>6, <2>7, AppliedUnits
<1>2. StorefrontInv =>
        \A s \in Slots :
          /\ Receive(s)
          /\ calls[s].kind \in {"checkout", "create", "couponSync"}
          /\ calls[s].live /\ Good(s) /\ calls[s].items = ctx.items
          => /\ itemCount(ctx'.items) = itemCount(ctx.items)
             /\ CartSubtotal(calls[s].answer.lines) = subtotal(ctx.items)
  BY <1>1 DEF Validating
<1>3. QED
  BY <1>2, StorefrontInductive, PTL DEF TicketSurvivesValidation

----------------------------------------------------------------------------
(* Quotes: sums of a cart. *)

(* A sum of weights may take its numbers in any order. *)
LEMMA SumAnyOrder ==
  ASSUME NEW n \in Nat, NEW w \in [1..n -> Nat], NEW it, IsSum(it, n, w)
  PROVE  \A s \in SUBSET (1..n) :
           it[s] \in Nat /\ \A y \in s : it[s] = it[s \ {y}] + w[y]
<1> DEFINE fine(s) == it[s] \in Nat /\ \A y \in s : it[s] = it[s \ {y}] + w[y]
           ok == {m \in 0..n : \A s \in SUBSET (1..m) : fine(s)}
<1>1. \A s \in SUBSET (1..n) :
        it[s] = IF s = {} THEN 0 ELSE it[s \ {Max(s)}] + w[Max(s)]
  BY DEF IsSum
<1>2. 0 \in ok
  <2>1. \A s \in SUBSET (1..0) : s = {} /\ {} \in SUBSET (1..n)
    OBVIOUS
  <2>2. it[{}] = 0
    BY <1>1, <2>1
  <2>3. fine({}) /\ 0 \in 0..n
    BY <2>2
  <2> HIDE DEF fine
  <2>4. QED
    BY <2>1, <2>3
<1>3. ASSUME NEW m \in 0..(n - 1), m \in ok PROVE m + 1 \in ok
  <2>1. m \in Nat /\ m + 1 \in 1..n /\ m + 1 \in 0..n
    OBVIOUS
  <2>2. \A s \in SUBSET (1..m) : fine(s)
    BY <1>3
  <2>3. ASSUME NEW s \in SUBSET (1..(m + 1)) PROVE fine(s)
    <3>1. CASE m + 1 \notin s
      <4>1. s \in SUBSET (1..m)
        BY <2>1, <3>1
      <4>2. QED
        BY <2>2, <4>1
    <3>2. CASE m + 1 \in s
      <4> DEFINE t == s \ {m + 1}
      <4>1. t \in SUBSET (1..m) /\ s \in SUBSET (1..n) /\ s # {}
        BY <2>1, <3>2
      <4>2. Max(s) = m + 1
        BY <2>1, <3>2, MaxIs
      <4>3. it[s] = it[t] + w[m + 1]
        BY <1>1, <4>1, <4>2
      <4>4. it[t] \in Nat /\ w[m + 1] \in Nat
        BY <2>1, <2>2, <4>1
      <4>5. ASSUME NEW y \in s PROVE it[s] = it[s \ {y}] + w[y]
        <5>1. CASE y = m + 1
          BY <4>3, <5>1
        <5>2. CASE y # m + 1
          <6>1. y \in t /\ t \ {y} \in SUBSET (1..m) /\ y \in 1..n
            BY <4>1, <5>2
          <6>2. it[t] = it[t \ {y}] + w[y] /\ it[t \ {y}] \in Nat /\ w[y] \in Nat
            BY <2>2, <4>1, <6>1
          <6>3. s \ {y} \in SUBSET (1..(m + 1)) /\ m + 1 \in s \ {y}
                /\ s \ {y} \in SUBSET (1..n) /\ s \ {y} # {}
            BY <3>2, <4>1, <5>2
          <6>4. Max(s \ {y}) = m + 1
            BY <2>1, <6>3, MaxIs
          <6>5. (s \ {y}) \ {m + 1} = t \ {y}
            OBVIOUS
          <6>6. it[s \ {y}] = it[t \ {y}] + w[m + 1]
            BY <1>1, <6>3, <6>4, <6>5
          <6>7. QED
            BY <4>3, <4>4, <6>2, <6>6
        <5>3. QED
          BY <5>1, <5>2
      <4>6. it[s] \in Nat
        BY <4>3, <4>4
      <4>7. QED
        BY <4>5, <4>6
    <3>3. QED
      BY <3>1, <3>2
  <2>4. QED
    BY <2>1, <2>3
<1>4. \A m \in 0..n : m \in ok
  <2> HIDE DEF ok
  <2>1. QED
    BY <1>2, <1>3, Climb
<1>5. n \in ok
  <2> HIDE DEF ok
  <2>1. QED
    BY <1>4
<1>6. QED
  BY <1>5

(* A sum over a function is the last of its running totals. *)
LEMMA SumOfRuns ==
  ASSUME NEW n \in Nat, NEW f, DOMAIN f = 1..n, \A i \in 1..n : f[i] \in Nat
  PROVE  \E p : Totals(p, n, [i \in 1..n |-> f[i]]) /\ SumOf(f) = p[n]
<1> DEFINE w == [i \in 1..n |-> f[i]]
           one(s) == CHOOSE x \in s : TRUE
           Rec(it) == it = [s \in SUBSET (1..n) |->
                             IF s = {} THEN 0 ELSE f[one(s)] + it[s \ {one(s)}]]
<1>1. SumOf(f) = (CHOOSE it : Rec(it))[1..n]
  BY DEF SumOf, FoldFunction, FoldFunctionOnSet, MapThenFoldSet
<1>2. w \in [1..n -> Nat] /\ \A i \in 1..n : w[i] = f[i]
  OBVIOUS
<1>3. \A s \in SUBSET (1..n) : s # {} => one(s) \in s /\ one(s) \in 1..n
  OBVIOUS
<1> HIDE DEF w, one
<1>4. PICK it0 : IsSum(it0, n, w)
  BY <1>2, SumExists
<1>5. \A s \in SUBSET (1..n) :
        it0[s] \in Nat /\ \A y \in s : it0[s] = it0[s \ {y}] + w[y]
  BY <1>2, <1>4, SumAnyOrder
<1>6. it0 = [s \in SUBSET (1..n) |-> it0[s]] /\ it0[{}] = 0
  <2>1. {} \in SUBSET (1..n)
    OBVIOUS
  <2>2. QED
    BY <1>4, <2>1 DEF IsSum
<1>7. \A s \in SUBSET (1..n) :
        it0[s] = IF s = {} THEN 0 ELSE f[one(s)] + it0[s \ {one(s)}]
  <2>1. ASSUME NEW s \in SUBSET (1..n), s # {}
        PROVE  it0[s] = f[one(s)] + it0[s \ {one(s)}]
    <3>1. it0[s] = it0[s \ {one(s)}] + w[one(s)] /\ w[one(s)] = f[one(s)]
      BY <1>2, <1>3, <1>5, <2>1
    <3>2. it0[s \ {one(s)}] \in Nat /\ w[one(s)] \in Nat
      BY <1>2, <1>3, <1>5, <2>1
    <3>3. QED
      BY <3>1, <3>2
  <2>2. QED
    BY <1>6, <2>1
<1>8. Rec(it0)
  BY <1>6, <1>7
<1> DEFINE it == CHOOSE x : Rec(x)
<1>9. Rec(it)
  <2> HIDE DEF Rec
  <2>1. QED
    BY <1>8
<1>10. \A s \in SUBSET (1..n) :
         it[s] = IF s = {} THEN 0 ELSE f[one(s)] + it[s \ {one(s)}]
  <2> HIDE DEF it
  <2>1. QED
    BY <1>9
<1> HIDE DEF it
<1>11. \A s \in SUBSET (1..n) :
         /\ IsFiniteSet(s) /\ Cardinality(s) \in 0..n
         /\ Cardinality(s) = 0 <=> s = {}
         /\ s # {} => Cardinality(s \ {one(s)}) = Cardinality(s) - 1
  <2>1. IsFiniteSet(1..n) /\ Cardinality(1..n) = n
    BY FS_Interval
  <2>2. ASSUME NEW s \in SUBSET (1..n)
        PROVE  /\ IsFiniteSet(s) /\ Cardinality(s) \in 0..n
               /\ Cardinality(s) = 0 <=> s = {}
               /\ s # {} => Cardinality(s \ {one(s)}) = Cardinality(s) - 1
    <3>1. PICK S : S = 1..n
      OBVIOUS
    <3>2. IsFiniteSet(s) /\ Cardinality(s) <= Cardinality(S)
      BY <2>1, <3>1, FS_Subset
    <3>3. Cardinality(s) \in 0..n
      BY <2>1, <3>1, <3>2, FS_CardinalityType
    <3>4. Cardinality(s) = 0 <=> s = {}
      BY <3>2, FS_EmptySet
    <3>5. s # {} => Cardinality(s \ {one(s)}) = Cardinality(s) - 1
      BY <1>3, <3>2, FS_RemoveElement
    <3>6. QED
      BY <3>2, <3>3, <3>4, <3>5
  <2>3. QED
    BY <2>2
<1> DEFINE ok == {m \in 0..n : \A s \in SUBSET (1..n) : Cardinality(s) = m => it[s] = it0[s]}
<1>12. 0 \in ok
  BY <1>6, <1>10, <1>11
<1>13. ASSUME NEW m \in 0..(n - 1), m \in ok PROVE m + 1 \in ok
  <2>1. ASSUME NEW s \in SUBSET (1..n), Cardinality(s) = m + 1
        PROVE  it[s] = it0[s]
    <3>1. s # {} /\ s \ {one(s)} \in SUBSET (1..n)
      <4>1. Cardinality(s) # 0
        BY <2>1
      <4>2. QED
        BY <1>11, <4>1
    <3>2. Cardinality(s \ {one(s)}) = m
      BY <1>11, <2>1, <3>1
    <3>3. it[s \ {one(s)}] = it0[s \ {one(s)}]
      BY <1>13, <3>1, <3>2
    <3>4. QED
      BY <1>7, <1>10, <3>1, <3>3
  <2>2. m + 1 \in 0..n
    OBVIOUS
  <2>3. QED
    BY <2>1, <2>2
<1>14. \A m \in 0..n : m \in ok
  <2> HIDE DEF ok
  <2>1. QED
    BY <1>12, <1>13, Climb
<1>15. it[1..n] = it0[1..n]
  <2>1. 1..n \in SUBSET (1..n) /\ Cardinality(1..n) \in 0..n
    BY <1>11
  <2>2. QED
    BY <1>14, <2>1
<1>16. \E p : Totals(p, n, w) /\ it0[1..n] = p[n]
  BY <1>2, <1>4, SumRuns
<1>17. QED
  BY <1>1, <1>15, <1>16 DEF it, w

(* Division with a remainder. *)
LEMMA DivisionIs ==
  ASSUME NEW c \in Nat, NEW q \in Nat \ {0}
  PROVE  /\ c \div q \in Nat /\ c % q \in 0..(q - 1)
         /\ c = q * (c \div q) + (c % q)
OBVIOUS

(* The units of a line cost what the line costs. *)
LEMMA UnitsCost ==
  ASSUME NEW cents \in Nat, NEW qty \in Nat \ {0}
  PROVE  SumOf(Units(cents, qty)) = cents
<1> DEFINE f == Units(cents, qty)
<1>1. PICK b \in Nat, r \in 0..(qty - 1) :
        b = cents \div qty /\ r = cents % qty /\ cents = qty * b + r
  BY DivisionIs
<1>2. DOMAIN f = 1..qty /\ \A i \in 1..qty : f[i] = b + (IF i <= r THEN 1 ELSE 0)
  BY <1>1 DEF Units
<1> HIDE DEF f
<1>3. \A i \in 1..qty : f[i] \in Nat
  BY <1>1, <1>2
<1>4. PICK p : Totals(p, qty, [i \in 1..qty |-> f[i]]) /\ SumOf(f) = p[qty]
  BY <1>2, <1>3, SumOfRuns
<1> DEFINE ok == {m \in 0..qty : p[m] = m * b + (IF m <= r THEN m ELSE r)}
<1>5. 0 \in ok
  BY <1>1, <1>4 DEF Totals
<1>6. ASSUME NEW m \in 0..(qty - 1), m \in ok PROVE m + 1 \in ok
  <2>1. m + 1 \in 1..qty /\ (m + 1) - 1 = m /\ m \in Nat
    OBVIOUS
  <2>2. p[m + 1] = p[m] + f[m + 1]
    BY <1>4, <2>1 DEF Totals
  <2>3. p[m] = m * b + (IF m <= r THEN m ELSE r)
    BY <1>6
  <2>4. f[m + 1] = b + (IF m + 1 <= r THEN 1 ELSE 0)
    BY <1>2, <2>1
  <2>5. (m + 1) * b = m * b + b /\ m * b \in Nat
    OBVIOUS
  <2>6. p[m + 1] = (m + 1) * b + (IF m + 1 <= r THEN m + 1 ELSE r)
    BY <2>1, <2>2, <2>3, <2>4, <2>5
  <2>7. QED
    BY <2>1, <2>6
<1>7. \A m \in 0..qty : m \in ok
  <2> HIDE DEF ok
  <2>1. QED
    BY <1>5, <1>6, Climb
<1>8. p[qty] = qty * b + r
  BY <1>1, <1>7
<1>9. QED
  BY <1>1, <1>4, <1>8 DEF f

(* The least and the greatest of two numbers. *)
LEMMA OfTwo ==
  ASSUME NEW a \in Int, NEW b \in Int
  PROVE  /\ Min({a, b}) = IF a <= b THEN a ELSE b
         /\ Max({a, b}) = IF a <= b THEN b ELSE a
<1>1. \A x \in {a, b} : (\A y \in {a, b} : x <= y) => x = IF a <= b THEN a ELSE b
  OBVIOUS
<1>2. \A x \in {a, b} : (\A y \in {a, b} : x >= y) => x = IF a <= b THEN b ELSE a
  OBVIOUS
<1>3. \A y \in {a, b} : (IF a <= b THEN a ELSE b) <= y
  OBVIOUS
<1>4. \A y \in {a, b} : (IF a <= b THEN b ELSE a) >= y
  OBVIOUS
<1>5. QED
  BY <1>1, <1>2, <1>3, <1>4 DEF Min, Max

(* A share is cut to what its line costs. *)
LEMMA ClampIs ==
  ASSUME NEW x \in Int, NEW line, lineTotal(line) \in Nat
  PROVE  /\ Clamp(x, line) = IF x < 0 THEN 0
                             ELSE IF x > lineTotal(line) THEN lineTotal(line) ELSE x
         /\ Clamp(x, line) \in 0..lineTotal(line)
<1>1. PICK t \in Nat : t = lineTotal(line)
  OBVIOUS
<1>2. Max({0, x}) = IF 0 <= x THEN x ELSE 0
  BY OfTwo
<1>3. PICK m \in Int : m = Max({0, x})
  BY <1>2
<1>4. Min({t, m}) = IF t <= m THEN t ELSE m
  BY OfTwo
<1>5. Clamp(x, line) = Min({t, m})
  BY <1>1, <1>3 DEF Clamp
<1>6. QED
  BY <1>1, <1>2, <1>3, <1>4, <1>5

(* A rounded quotient is off by half at most, also when it is cut. *)
LEMMA ShareIsClose ==
  ASSUME NEW a \in Nat, NEW b \in Nat \ {0}, NEW up \in BOOLEAN,
         NEW line, lineTotal(line) \in Nat, a <= b * lineTotal(line)
  PROVE  /\ Round(a, b, up) \in Int
         /\ 2 * (b * Clamp(Round(a, b, up), line)) \in (2 * a - b)..(2 * a + b)
<1>1. PICK q \in Nat, r \in 0..(b - 1) : q = a \div b /\ r = a % b /\ a = b * q + r
  BY DivisionIs
<1>2. PICK e \in {0, 1} : /\ Round(a, b, up) = q + e
                          /\ e = 1 => 2 * r >= b
                          /\ e = 0 => 2 * r <= b
  BY <1>1 DEF Round
<1>3. PICK t \in Nat : t = lineTotal(line)
  OBVIOUS
<1>4. PICK x \in Nat : x = q + e
  OBVIOUS
<1>5. b * x = b * q + (IF e = 1 THEN b ELSE 0) /\ b * q \in Nat /\ b * x \in Nat
  <2>1. CASE e = 1
    <3>1. b * (q + 1) = b * q + b
      OBVIOUS
    <3>2. QED
      BY <1>4, <2>1, <3>1
  <2>2. CASE e = 0
    BY <1>4, <2>2
  <2>3. QED
    BY <2>1, <2>2
<1>6. 2 * (b * x) \in (2 * a - b)..(2 * a + b)
  BY <1>1, <1>2, <1>5
<1>7. Clamp(x, line) = IF x > t THEN t ELSE x
  BY <1>3, ClampIs
<1>8. CASE x > t
  <2>1. b * t <= b * x /\ b * t \in Nat
    <3>1. PICK k \in Nat : x = t + k
      BY <1>8
    <3>2. b * (t + k) = b * t + b * k /\ b * k \in Nat /\ b * t \in Nat
      OBVIOUS
    <3>3. QED
      BY <3>1, <3>2
  <2>2. a <= b * t
    BY <1>3
  <2>3. 2 * (b * t) \in (2 * a - b)..(2 * a + b)
    BY <1>5, <1>6, <2>1, <2>2
  <2>4. QED
    BY <1>2, <1>4, <1>7, <1>8, <2>3
<1>9. QED
  BY <1>2, <1>4, <1>6, <1>7, <1>8

(* The values of a recursion along the numbers up to n. *)
Runnable(n, V, base, g) ==
  \E r \in [0..n -> V] : r[0] = base /\ \A m \in 1..n : r[m] = g[m][r[m - 1]]

(* A recursion along the numbers up to n has a solution. *)
LEMMA RunExists ==
  ASSUME NEW n \in Nat, NEW V, NEW base \in V, NEW g \in [1..n -> [V -> V]]
  PROVE  Runnable(n, V, base, g)
<1>1. PICK it \in [SUBSET (1..n) -> V] :
        \A s \in SUBSET (1..n) : it[s] = StepOf(it, base, g, s)
  <2>1. Foldable(n, V, base, g)
    BY FoldExists
  <2>2. QED
    BY <2>1 DEF Foldable
<1> DEFINE r == [m \in 0..n |-> it[1..m]]
<1>2. \A m \in 0..n : 1..m \in SUBSET (1..n)
  OBVIOUS
<1>3. r \in [0..n -> V]
  BY <1>2
<1>4. r[0] = base
  <2>1. 1..0 = {} /\ {} \in SUBSET (1..n) /\ 0 \in 0..n
    OBVIOUS
  <2>2. QED
    BY <1>1, <2>1 DEF StepOf
<1>5. ASSUME NEW m \in 1..n PROVE r[m] = g[m][r[m - 1]]
  <2>1. m - 1 \in Nat /\ m = (m - 1) + 1 /\ 1..m \in SUBSET (1..n) /\ m \in 1..m
    OBVIOUS
  <2>2. Max(1..m) = m
    BY <2>1, MaxIs
  <2>3. (1..m) \ {m} = 1..(m - 1) /\ 1..m # {}
    <3>1. \A i : i \in (1..m) \ {m} <=> i \in 1..(m - 1)
      BY <2>1
    <3>2. QED
      BY <2>1, <3>1
  <2>4. it[1..m] = g[m][it[1..(m - 1)]]
    BY <1>1, <2>1, <2>2, <2>3 DEF StepOf
  <2>5. QED
    BY <2>1, <2>4
<1> HIDE DEF r
<1>6. QED
  BY <1>3, <1>4, <1>5 DEF Runnable

----------------------------------------------------------------------------
(* Quotes: the discount is spread over the lines. *)

(* The lines of a cart that can be priced. *)
Priced(n, c) ==
  /\ n \in Nat \ {0} /\ DOMAIN c = 1..n /\ Len(c) = n
  /\ \A i \in 1..n : c[i].qty \in Nat \ {0} /\ lineTotal(c[i]) \in Nat

(* The running totals of the discount that the lines have got. *)
Spread(a, n, c, d, up) ==
  /\ a \in [0..n -> Int]
  /\ a[0] = 0
  /\ \A m \in 1..n : a[m] = a[m - 1] + Clamp(Share(c, d, up, m, a[m - 1]), c[m])

(* The lines cost, less their discounts, what the running totals say. *)
Discounted(a, n, c, d, up) ==
  /\ Spread(a, n, c, d, up)
  /\ discountedLineTotals(c, d, up) = [i \in 1..n |-> lineTotal(c[i]) - (a[i] - a[i - 1])]

(* A share is a number. *)
LEMMA ShareIs ==
  ASSUME NEW n, NEW c, Priced(n, c), NEW S \in Nat, Subtotal(c) = S,
         NEW d \in Nat, NEW up, NEW i \in 1..n, NEW allocated \in Int
  PROVE  Share(c, d, up, i, allocated) \in Int
<1>1. CASE i = Len(c)
  BY <1>1 DEF Share
<1>2. CASE i # Len(c)
  <2>1. Max({1, S}) = IF 1 <= S THEN S ELSE 1
    BY OfTwo
  <2>2. PICK b \in Nat \ {0} : b = Max({1, S})
    BY <2>1
  <2>3. PICK t \in Nat : t = lineTotal(c[i])
    BY DEF Priced
  <2>4. PICK x \in Nat, e \in BOOLEAN : x = t * d /\ (e <=> i \in up)
    <3>1. t * d \in Nat
      OBVIOUS
    <3>2. CASE i \in up
      BY <3>1, <3>2
    <3>3. CASE i \notin up
      BY <3>1, <3>3
    <3>4. QED
      BY <3>2, <3>3
  <2>5. Round(x, b, e) \in Int
    <3>1. x \div b \in Nat
      BY DivisionIs
    <3>2. QED
      BY <3>1 DEF Round
  <2>6. Share(c, d, up, i, allocated) = Round(x, b, e)
    BY <1>2, <2>2, <2>3, <2>4 DEF Share, Round
  <2>7. QED
    BY <2>5, <2>6
<1>3. QED
  BY <1>1, <1>2

(* What the lines cost less their discounts, by the running totals. *)
LEMMA DiscountedIs ==
  ASSUME NEW n, NEW c, Priced(n, c), NEW S \in Nat, Subtotal(c) = S,
         NEW d \in Nat, NEW up
  PROVE  \E a : Discounted(a, n, c, d, up)
<1> DEFINE step(i, v) == v + Clamp(Share(c, d, up, i, v), c[i])
           g == [i \in 1..n |-> [v \in Int |-> step(i, v)]]
           Rec(a) == a = [i \in 0..Len(c) |-> IF i = 0 THEN 0 ELSE step(i, a[i - 1])]
<1>1. n \in Nat /\ Len(c) = n /\ DOMAIN c = 1..n
      /\ \A i \in 1..n : lineTotal(c[i]) \in Nat
  BY DEF Priced
<1>2. \A i \in 1..n, v \in Int : step(i, v) \in Int
  <2>1. ASSUME NEW i \in 1..n, NEW v \in Int PROVE step(i, v) \in Int
    <3>1. PICK x \in Int : x = Share(c, d, up, i, v)
      BY ShareIs
    <3>2. Clamp(x, c[i]) \in 0..lineTotal(c[i])
      BY <1>1, ClampIs
    <3>3. QED
      BY <1>1, <3>1, <3>2
  <2>2. QED
    BY <2>1
<1> HIDE DEF step
<1>3. g \in [1..n -> [Int -> Int]] /\ 0 \in Int
  BY <1>2
<1>4. \A i \in 1..n, v \in Int : g[i][v] = step(i, v)
  OBVIOUS
<1> HIDE DEF g
<1>5. PICK r \in [0..n -> Int] : r[0] = 0 /\ \A m \in 1..n : r[m] = g[m][r[m - 1]]
  <2>1. PICK V : V = Int
    OBVIOUS
  <2>2. g \in [1..n -> [V -> V]] /\ 0 \in V
    BY <1>3, <2>1
  <2>3. \E r \in [0..n -> V] : r[0] = 0 /\ \A m \in 1..n : r[m] = g[m][r[m - 1]]
    <3>1. Runnable(n, V, 0, g)
      BY <1>1, <2>2, RunExists
    <3>2. QED
      BY <3>1 DEF Runnable
  <2>4. QED
    BY <2>1, <2>3
<1>6. Rec(r)
  <2>1. \A i \in 0..n : r[i] = IF i = 0 THEN 0 ELSE step(i, r[i - 1])
    <3>1. r[0] = 0
      BY <1>5
    <3>2. ASSUME NEW i \in 1..n PROVE i # 0 /\ r[i] = step(i, r[i - 1])
      <4>1. i - 1 \in 0..n /\ r[i - 1] \in Int
        BY <1>1, <1>5
      <4>2. r[i] = g[i][r[i - 1]]
        BY <1>5
      <4>3. QED
        BY <1>1, <1>4, <4>1, <4>2
    <3>3. \A i \in 0..n : i = 0 \/ i \in 1..n
      BY <1>1
    <3>4. QED
      BY <3>1, <3>2, <3>3
  <2>2. QED
    BY <1>1, <2>1
<1> DEFINE a == CHOOSE x : Rec(x)
<1>7. Rec(a)
  <2> HIDE DEF Rec
  <2>1. QED
    BY <1>6
<1>8. discountedLineTotals(c, d, up)
        = [i \in DOMAIN c |-> lineTotal(c[i]) - (a[i] - a[i - 1])]
  BY DEF discountedLineTotals, step
<1>9. a = [i \in 0..n |-> IF i = 0 THEN 0 ELSE step(i, a[i - 1])]
  <2> HIDE DEF a
  <2>1. QED
    BY <1>1, <1>7
<1> HIDE DEF a, Rec
<1>10. a[0] = 0 /\ \A m \in 1..n : a[m] = step(m, a[m - 1])
  BY <1>1, <1>9
<1> DEFINE ok == {m \in 0..n : a[m] \in Int}
<1>11. 0 \in ok
  BY <1>1, <1>10
<1>12. ASSUME NEW m \in 0..(n - 1), m \in ok PROVE m + 1 \in ok
  <2>1. m + 1 \in 1..n /\ (m + 1) - 1 = m /\ m + 1 \in 0..n
    BY <1>1
  <2>2. QED
    BY <1>2, <1>10, <1>12, <2>1
<1>13. \A m \in 0..n : m \in ok
  <2> HIDE DEF ok
  <2>1. QED
    BY <1>1, <1>11, <1>12, Climb
<1>14. a \in [0..n -> Int]
  <2>1. a = [i \in 0..n |-> a[i]]
    BY <1>9
  <2>2. QED
    BY <1>13, <2>1
<1>15. Spread(a, n, c, d, up)
  BY <1>10, <1>14 DEF Spread, step
<1>16. QED
  BY <1>1, <1>8, <1>15 DEF Discounted

(* The lines but the last have got their parts of the discount, up to half a    *)
(* cent a line.                                                                  *)
LEMMA SpreadIsClose ==
  ASSUME NEW n, NEW c, Priced(n, c), NEW S \in Nat \ {0}, Subtotal(c) = S,
         NEW d \in 0..S, NEW up,
         NEW a, Spread(a, n, c, d, up),
         NEW p, Totals(p, n, [i \in 1..n |-> lineTotal(c[i])]), p[n] = S
  PROVE  \A m \in 0..(n - 1) :
           /\ 2 * (S * a[m]) >= 2 * (p[m] * d) - m * S
           /\ 2 * (S * a[m]) <= 2 * (p[m] * d) + m * S
<1> DEFINE near(m) == /\ 2 * (S * a[m]) >= 2 * (p[m] * d) - m * S
                      /\ 2 * (S * a[m]) <= 2 * (p[m] * d) + m * S
           ok == {m \in 0..(n - 1) : near(m)}
<1>1. /\ n - 1 \in Nat /\ n \in Nat /\ Len(c) = n
      /\ \A i \in 1..n : lineTotal(c[i]) \in Nat
      /\ d \in Nat
  BY DEF Priced
<1>2. 0 \in ok
  <2>1. a[0] = 0 /\ p[0] = 0 /\ 0 \in 0..(n - 1)
    BY <1>1 DEF Spread, Totals
  <2>2. S * 0 = 0 /\ 0 * d = 0 /\ 0 * S = 0
    BY <1>1
  <2>3. near(0)
    BY <2>1, <2>2
  <2> HIDE DEF near
  <2>4. QED
    BY <2>1, <2>3
<1>3. ASSUME NEW m \in 0..((n - 1) - 1), m \in ok PROVE m + 1 \in ok
  <2>1. /\ m \in Nat /\ m + 1 \in 1..n /\ (m + 1) - 1 = m /\ m \in 0..n
        /\ m + 1 # n /\ m + 1 \in 0..(n - 1)
    BY <1>1
  <2>2. PICK t \in Nat, l \in {c[m + 1]} : l = c[m + 1] /\ t = lineTotal(l)
    BY <1>1, <2>1
  <2>3. p[m + 1] = p[m] + t /\ p[m] \in Nat
    BY <2>1, <2>2 DEF Totals
  <2>4. PICK e \in BOOLEAN : e <=> m + 1 \in up
    <3>1. CASE m + 1 \in up
      BY <3>1
    <3>2. CASE m + 1 \notin up
      BY <3>2
    <3>3. QED
      BY <3>1, <3>2
  <2>5. PICK x \in Nat : x = t * d
    BY <1>1
  <2>6. a[m + 1] = a[m] + Clamp(Round(x, S, e), l) /\ a[m] \in Int
    <3>1. Max({1, S}) = S
      <4>1. 1 \in Int /\ S \in Int /\ 1 <= S
        OBVIOUS
      <4>2. Max({1, S}) = IF 1 <= S THEN S ELSE 1
        BY <4>1, OfTwo
      <4>3. QED
        BY <4>1, <4>2
    <3>2. Share(c, d, up, m + 1, a[m]) = Round(x, S, e)
      BY <1>1, <2>1, <2>2, <2>4, <2>5, <3>1 DEF Share, Round
    <3>3. QED
      BY <2>1, <2>2, <3>2 DEF Spread
  <2>7. x <= S * t
    <3>1. PICK k \in Nat : S = d + k
      BY <1>1
    <3>2. (d + k) * t = t * d + k * t /\ k * t \in Nat
      BY <1>1
    <3>3. QED
      BY <1>1, <2>5, <3>1, <3>2
  <2>8. Round(x, S, e) \in Int
        /\ 2 * (S * Clamp(Round(x, S, e), l)) \in (2 * x - S)..(2 * x + S)
    BY <2>2, <2>7, ShareIsClose
  <2>9. PICK u \in Int, v \in Int : u = a[m] /\ v = Clamp(Round(x, S, e), l)
    <3>1. Clamp(Round(x, S, e), l) \in Int
      BY <2>2, <2>8, ClampIs
    <3>2. QED
      BY <2>6, <3>1
  <2>10. PICK su \in Int, sv \in Int : su = S * u /\ sv = S * v
    OBVIOUS
  <2>11. S * a[m + 1] = su + sv
    <3>1. S * (u + v) = S * u + S * v
      OBVIOUS
    <3>2. QED
      BY <2>6, <2>9, <2>10, <3>1
  <2>12. PICK y \in Nat, k \in Nat : y = p[m] * d /\ k = m * S
    BY <1>1, <2>1, <2>3
  <2>13. p[m + 1] * d = y + x /\ (m + 1) * S = k + S
    <3>1. PICK z \in Nat : z = p[m]
      BY <2>3
    <3>2. (z + t) * d = z * d + t * d
      BY <1>1
    <3>3. (m + 1) * S = m * S + S
      BY <2>1
    <3>4. QED
      BY <2>3, <2>5, <2>12, <3>1, <3>2, <3>3
  <2>14. 2 * su >= 2 * y - k /\ 2 * su <= 2 * y + k
    BY <1>3, <2>9, <2>10, <2>12
  <2>15. 2 * sv >= 2 * x - S /\ 2 * sv <= 2 * x + S
    BY <2>8, <2>9, <2>10
  <2>16. /\ 2 * (su + sv) >= 2 * (y + x) - (k + S)
         /\ 2 * (su + sv) <= 2 * (y + x) + (k + S)
    BY <2>14, <2>15
  <2>17. near(m + 1)
    BY <2>11, <2>13, <2>16
  <2> HIDE DEF near
  <2>18. QED
    BY <2>1, <2>17
<1>4. \A m \in 0..(n - 1) : m \in ok
  <2> HIDE DEF ok
  <2>1. QED
    BY <1>1, <1>2, <1>3, Climb
<1>5. QED
  BY <1>4

(* The running totals of the lines. *)
LinesRun(p, n, c) ==
  Totals(p, n, [i \in 1..n |-> lineTotal(c[i])]) /\ Subtotal(c) = p[n]

(* The subtotal is the last of the running totals of the lines. *)
LEMMA LinesHaveRun ==
  ASSUME NEW n, NEW c, Priced(n, c)
  PROVE  \E p : LinesRun(p, n, c)
<1> DEFINE f == [i \in 1..n |-> lineTotal(c[i])]
<1>1. n \in Nat /\ DOMAIN c = 1..n /\ \A i \in 1..n : lineTotal(c[i]) \in Nat
  BY DEF Priced
<1>2. /\ DOMAIN f = 1..n
      /\ \A i \in 1..n : f[i] = lineTotal(c[i]) /\ f[i] \in Nat
      /\ [i \in 1..n |-> f[i]] = f
  BY <1>1
<1>3. Subtotal(c) = SumOf(f)
  BY <1>1 DEF Subtotal
<1> HIDE DEF f
<1>4. PICK p : Totals(p, n, [i \in 1..n |-> f[i]]) /\ SumOf(f) = p[n]
  BY <1>1, <1>2, SumOfRuns
<1>5. QED
  BY <1>2, <1>3, <1>4 DEF f, LinesRun

(* The numbers v are the numbers w less the steps of a. *)
LessBy(v, w, a, n) ==
  a[0] = 0 /\ \A i \in 1..n : v[i] = w[i] - (a[i] - a[i - 1])

(* The last of q is the last of p less the last of a. *)
LastLessBy(q, p, a, n) == q[n] = p[n] - a[n]

(* What is taken from the numbers of a sum is taken from the sum. *)
LEMMA TotalsLess ==
  ASSUME NEW n \in Nat, NEW w \in [1..n -> Nat], NEW v \in [1..n -> Nat],
         NEW p, NEW q, NEW a \in [0..n -> Int],
         Totals(p, n, w), Totals(q, n, v), LessBy(v, w, a, n)
  PROVE  LastLessBy(q, p, a, n)
<1> DEFINE ok == {m \in 0..n : q[m] = p[m] - a[m]}
<1>1. 0 \in ok
  BY DEF Totals, LessBy
<1>2. ASSUME NEW m \in 0..(n - 1), m \in ok PROVE m + 1 \in ok
  <2>1. m + 1 \in 1..n /\ (m + 1) - 1 = m /\ m \in 0..n /\ m + 1 \in 0..n
    OBVIOUS
  <2>2. p[m + 1] = p[m] + w[m + 1] /\ q[m + 1] = q[m] + v[m + 1]
    BY <2>1 DEF Totals
  <2>3. v[m + 1] = w[m + 1] - (a[m + 1] - a[m])
    BY <2>1 DEF LessBy
  <2>4. q[m] = p[m] - a[m]
    BY <1>2
  <2>5. p[m] \in Nat /\ w[m + 1] \in Nat /\ a[m] \in Int /\ a[m + 1] \in Int
    BY <2>1 DEF Totals
  <2>6. q[m + 1] = p[m + 1] - a[m + 1]
    BY <2>2, <2>3, <2>4, <2>5
  <2>7. QED
    BY <2>1, <2>6
<1>3. \A m \in 0..n : m \in ok
  <2> HIDE DEF ok
  <2>1. QED
    BY <1>1, <1>2, Climb
<1>4. QED
  BY <1>3 DEF LastLessBy

(* The provider is asked for the subtotal less what the lines got of the        *)
(* discount.                                                                     *)
LEMMA AskedIs ==
  ASSUME NEW n, NEW c, Priced(n, c), NEW S \in Nat, Subtotal(c) = S,
         NEW d \in Nat \ {0}, NEW up
  PROVE  \E a : Spread(a, n, c, d, up) /\ Asked(c, d, up) = S - a[n]
<1>1. n \in Nat /\ DOMAIN c = 1..n /\ d \in Nat /\ d # 0
      /\ \A i \in 1..n : lineTotal(c[i]) \in Nat /\ c[i].qty \in Nat \ {0}
  BY DEF Priced
<1>2. PICK a : /\ Spread(a, n, c, d, up)
               /\ discountedLineTotals(c, d, up)
                    = [i \in 1..n |-> lineTotal(c[i]) - (a[i] - a[i - 1])]
  <2>1. \E a : Discounted(a, n, c, d, up)
    BY <1>1, DiscountedIs
  <2>2. QED
    BY <2>1 DEF Discounted
<1>3. a \in [0..n -> Int] /\ a[0] = 0
  BY <1>2 DEF Spread
<1> DEFINE v == discountedLineTotals(c, d, up)
<1>4. \A i \in 1..n : v[i] = lineTotal(c[i]) - (a[i] - a[i - 1])
  BY <1>2
<1>5. \A i \in 1..n : v[i] \in Nat
  <2>1. ASSUME NEW i \in 1..n PROVE v[i] \in Nat
    <3>1. i - 1 \in 0..n /\ i \in 0..n /\ a[i - 1] \in Int /\ a[i] \in Int
      BY <1>1, <1>3
    <3>2. PICK x \in Int : x = Share(c, d, up, i, a[i - 1])
      BY <1>1, <3>1, ShareIs
    <3>3. a[i] = a[i - 1] + Clamp(x, c[i])
      BY <1>2, <3>2 DEF Spread
    <3>4. PICK t \in Nat : t = lineTotal(c[i])
      BY <1>1
    <3>5. Clamp(x, c[i]) \in 0..t
      BY <3>4, ClampIs
    <3>6. a[i] - a[i - 1] \in 0..t
      BY <3>1, <3>3, <3>5
    <3>7. QED
      BY <1>4, <3>4, <3>6
  <2>2. QED
    BY <2>1
<1> HIDE DEF v
<1> DEFINE f == [i \in 1..n |-> SumOf(Units(v[i], c[i].qty))]
<1>6. \A i \in 1..n : SumOf(Units(v[i], c[i].qty)) = v[i]
  BY <1>1, <1>5, UnitsCost
<1>7. Asked(c, d, up) = SumOf(f)
  BY <1>1 DEF Asked, v
<1>8. DOMAIN f = 1..n /\ \A i \in 1..n : f[i] = v[i] /\ f[i] \in Nat
  BY <1>5, <1>6
<1> HIDE DEF f
<1> DEFINE g == [i \in 1..n |-> f[i]]
           w == [i \in 1..n |-> lineTotal(c[i])]
<1>9. /\ g \in [1..n -> Nat] /\ w \in [1..n -> Nat]
      /\ \A i \in 1..n : g[i] = w[i] - (a[i] - a[i - 1])
  BY <1>1, <1>4, <1>8
<1> HIDE DEF g, w
<1>10. PICK q : Totals(q, n, g) /\ SumOf(f) = q[n]
  BY <1>1, <1>8, SumOfRuns DEF g
<1>11. PICK p : Totals(p, n, w) /\ S = p[n]
  <2>1. \E p : LinesRun(p, n, c)
    BY LinesHaveRun
  <2>2. QED
    BY <2>1 DEF LinesRun, w
<1>12. q[n] = p[n] - a[n]
  <2>1. LessBy(g, w, a, n)
    BY <1>3, <1>9 DEF LessBy
  <2>2. PICK x \in Int, y \in Int, z \in Int : x = q[n] /\ y = p[n] /\ z = a[n]
    BY <1>1, <1>3, <1>10, <1>11 DEF Totals
  <2>3. LastLessBy(q, p, a, n)
    BY <1>1, <1>3, <1>9, <1>10, <1>11, <2>1, TotalsLess
  <2>4. QED
    BY <2>2, <2>3 DEF LastLessBy
<1>13. QED
  BY <1>2, <1>7, <1>10, <1>11, <1>12

(* The last line takes what the others left, so what is lost of the discount is *)
(* what the last line cannot take: nothing if it has room, and less than half a *)
(* cent for each of the others otherwise.                                       *)
LEMMA GapIs ==
  ASSUME NEW n, NEW c, Priced(n, c), NEW d \in 0..Subtotal(c), Subtotal(c) \in Nat,
         NEW up
  PROVE  /\ Gap(c, d, up) \in Nat /\ 2 * Gap(c, d, up) <= n - 1
         /\ LastHasRoom(c, d) => Gap(c, d, up) = 0
<1>1. PICK S \in Nat : S = Subtotal(c)
  OBVIOUS
<1>2. n \in Nat \ {0} /\ n \in 1..n /\ n - 1 \in 0..(n - 1) /\ n - 1 \in 0..n
      /\ Len(c) = n /\ d \in 0..S
  BY <1>1 DEF Priced
<1>3. CASE d = 0
  <2>1. Asked(c, d, up) = S
    BY <1>1, <1>3 DEF Asked
  <2>2. Gap(c, d, up) = 0
    BY <1>1, <1>3, <2>1 DEF Gap
  <2>3. QED
    BY <1>2, <2>2
<1>4. CASE d # 0
  <2>1. S \in Nat \ {0} /\ d \in Nat \ {0}
    BY <1>2, <1>4
  <2>2. PICK a : Spread(a, n, c, d, up) /\ Asked(c, d, up) = S - a[n]
    BY <1>1, <2>1, AskedIs
  <2>3. PICK p : Totals(p, n, [i \in 1..n |-> lineTotal(c[i])]) /\ p[n] = S
    <3>1. \E p : LinesRun(p, n, c)
      BY LinesHaveRun
    <3>2. QED
      BY <1>1, <3>1 DEF LinesRun
  <2>4. /\ 2 * (S * a[n - 1]) >= 2 * (p[n - 1] * d) - (n - 1) * S
        /\ 2 * (S * a[n - 1]) <= 2 * (p[n - 1] * d) + (n - 1) * S
    BY <1>1, <1>2, <2>1, <2>2, <2>3, SpreadIsClose
  <2>5. PICK u \in Int, t \in Nat : u = a[n - 1] /\ t = lineTotal(c[n])
    BY <1>2, <2>2 DEF Spread, Priced
  <2>6. p[n - 1] \in Nat /\ S = p[n - 1] + t
    BY <1>2, <2>3, <2>5 DEF Totals
  <2>7. a[n] = u + Clamp(d - u, c[n])
    BY <1>2, <2>2, <2>5 DEF Spread, Share
  <2>8. Clamp(d - u, c[n]) = IF d - u < 0 THEN 0 ELSE IF d - u > t THEN t ELSE d - u
    <3>1. d - u \in Int
      BY <2>1
    <3>2. QED
      BY <2>5, <3>1, ClampIs
  <2> DEFINE gap == IF d - u < 0 THEN u - d ELSE IF d - u > t THEN (d - u) - t ELSE 0
  <2>9. Gap(c, d, up) = gap /\ gap \in Nat
    <3>1. PICK k \in Int : k = Clamp(d - u, c[n])
      BY <2>1, <2>8
    <3>2. Asked(c, d, up) - (Subtotal(c) - d) = d - (u + k)
      BY <1>1, <2>1, <2>2, <2>7, <3>1
    <3>3. QED
      BY <2>1, <2>8, <3>1, <3>2 DEF Gap
  <2>10. PICK r \in Nat, m \in Nat : r = p[n - 1] /\ m = n - 1
    BY <1>2, <2>6
  <2>11. PICK su \in Int, rd \in Nat, td \in Nat, ms \in Nat, st \in Nat :
           su = S * u /\ rd = r * d /\ td = t * d /\ ms = m * S /\ st = S * t
    <3>1. r * d \in Nat /\ t * d \in Nat /\ m * S \in Nat /\ S * t \in Nat /\ S * u \in Int
      BY <2>1
    <3>2. QED
      BY <3>1
  <2>12. 2 * su >= 2 * rd - ms /\ 2 * su <= 2 * rd + ms
    BY <2>4, <2>5, <2>10, <2>11
  <2>13. S * d = rd + td
    <3>1. (r + t) * d = r * d + t * d
      BY <2>1
    <3>2. QED
      BY <2>6, <2>10, <2>11, <3>1
  <2>14. td <= st
    <3>1. PICK k \in Nat : S = d + k
      BY <1>2, <2>1
    <3>2. (d + k) * t = t * d + k * t /\ k * t \in Nat
      BY <2>1
    <3>3. QED
      BY <2>11, <3>1, <3>2
  <2>15. 2 * (S * gap) <= ms
    <3>1. CASE d - u < 0
      <4>1. S * (u - d) = S * u - S * d
        BY <2>1
      <4>2. QED
        BY <2>11, <2>12, <2>13, <3>1, <4>1
    <3>2. CASE d - u > t
      <4>1. S * ((d - u) - t) = S * d - S * u - S * t
        BY <2>1
      <4>2. ~(d - u < 0)
        BY <2>1, <3>2
      <4>3. QED
        BY <2>11, <2>12, <2>13, <2>14, <3>2, <4>1, <4>2
    <3>3. CASE ~(d - u < 0) /\ ~(d - u > t)
      <4>1. S * 0 = 0
        OBVIOUS
      <4>2. QED
        BY <2>11, <3>3, <4>1
    <3>4. QED
      BY <3>1, <3>2, <3>3
  <2> HIDE DEF gap
  <2>16. 2 * gap <= m
    <3>1. PICK h \in Nat : h = 2 * gap
      BY <2>9
    <3>2. S * h = 2 * (S * gap)
      BY <2>9, <3>1
    <3>3. SUFFICES ASSUME h > m PROVE FALSE
      BY <3>1
    <3>4. PICK k \in Nat : h = (m + 1) + k
      BY <3>3
    <3>5. S * ((m + 1) + k) = m * S + S + S * k /\ S * k \in Nat
      OBVIOUS
    <3>6. QED
      BY <2>1, <2>11, <2>15, <3>2, <3>4, <3>5
  <2>17. ASSUME LastHasRoom(c, d) PROVE gap = 0
    <3>1. 2 * (t * d) >= (n - 1) * S /\ 2 * (t * (S - d)) >= (n - 1) * S
      BY <1>1, <1>2, <2>5, <2>17 DEF LastHasRoom
    <3>2. t * (S - d) = st - td
      <4>1. t * (S - d) = t * S - t * d
        BY <2>1
      <4>2. QED
        BY <2>11, <4>1
    <3>3. 2 * td >= ms /\ 2 * (st - td) >= ms
      BY <2>10, <2>11, <3>1, <3>2
    <3>4. S * gap <= 0
      <4>1. CASE d - u < 0
        <5>1. S * (u - d) = S * u - S * d
          BY <2>1
        <5>2. QED
          BY <2>11, <2>12, <2>13, <3>3, <4>1, <5>1 DEF gap
      <4>2. CASE d - u > t
        <5>1. S * ((d - u) - t) = S * d - S * u - S * t
          BY <2>1
        <5>2. ~(d - u < 0)
          BY <2>1, <4>2
        <5>3. QED
          BY <2>11, <2>12, <2>13, <3>3, <4>2, <5>1, <5>2 DEF gap
      <4>3. CASE ~(d - u < 0) /\ ~(d - u > t)
        <5>1. S * 0 = 0
          OBVIOUS
        <5>2. QED
          BY <4>3, <5>1 DEF gap
      <4>4. QED
        BY <4>1, <4>2, <4>3
    <3>5. SUFFICES ASSUME NEW k \in Nat, gap = k + 1 PROVE FALSE
      BY <2>9
    <3>6. S * (k + 1) = S * k + S /\ S * k \in Nat
      BY <2>1
    <3>7. QED
      BY <2>1, <3>4, <3>5, <3>6
  <2>18. QED
    BY <2>9, <2>10, <2>16, <2>17
<1>5. QED
  BY <1>3, <1>4

----------------------------------------------------------------------------
(* Quotes: what the provider is asked for. *)

(* Every quote is of lines, exact where the last has room, and within half a   *)
(* cent for each but the last everywhere.                                      *)
LEMMA QuotesAreClose ==
  ASSUME NEW x \in Quotes
  PROVE  /\ x.lines \in Nat \ {0} /\ x.gap \in Nat /\ 2 * x.gap <= x.lines - 1
         /\ x.room => x.gap = 0
<1> DEFINE QuoteOf(n, c) == \E d \in 0..Subtotal(c), up \in SUBSET (1..n - 1) :
                              x = [lines |-> n, gap |-> Gap(c, d, up),
                                   room |-> LastHasRoom(c, d)]
<1>1. PICK n \in 1..MaxLines : \E c \in [1..n -> Line] : QuoteOf(n, c)
  BY DEF Quotes
<1>2. n \in Nat \ {0} /\ n \in Nat
  BY BoundsAssumption
<1>3. PICK c \in [1..n -> Line] : QuoteOf(n, c)
  BY <1>1
<1>4. PICK d \in 0..Subtotal(c), up \in SUBSET (1..n - 1) :
         x = [lines |-> n, gap |-> Gap(c, d, up), room |-> LastHasRoom(c, d)]
  BY <1>3
<1>5. DOMAIN c = 1..n /\ Len(c) = n
  <2>1. c \in Seq(Line)
    BY <1>2, SeqDef
  <2>2. Len(c) \in Nat /\ DOMAIN c = 1..Len(c)
    BY <2>1, LenProperties
  <2>3. DOMAIN c = 1..n
    OBVIOUS
  <2>4. QED
    BY <1>2, <2>2, <2>3
<1>6. \A i \in 1..n : c[i].qty \in Nat \ {0} /\ lineTotal(c[i]) \in Nat
  <2>1. ASSUME NEW i \in 1..n PROVE c[i].qty \in Nat \ {0} /\ lineTotal(c[i]) \in Nat
    <3>1. PICK u \in Nat, q \in Nat \ {0} : u = c[i].unit /\ q = c[i].qty
      <4>1. c[i] \in [unit : Nat, qty : Nat \ {0}]
        BY LineAssumption
      <4>2. QED
        BY <4>1
    <3>2. u * q \in Nat
      OBVIOUS
    <3>3. QED
      BY <3>1, <3>2 DEF lineTotal
  <2>2. QED
    BY <2>1
<1>7. Priced(n, c)
  BY <1>2, <1>5, <1>6 DEF Priced
<1>8. Subtotal(c) \in Nat
  <2>1. PICK p : LinesRun(p, n, c)
    BY <1>7, LinesHaveRun
  <2>2. QED
    BY <1>2, <2>1 DEF LinesRun, Totals
<1>9. /\ Gap(c, d, up) \in Nat /\ 2 * Gap(c, d, up) <= n - 1
      /\ LastHasRoom(c, d) => Gap(c, d, up) = 0
  BY <1>7, <1>8, GapIs
<1>10. QED
  BY <1>2, <1>9, <1>4

(* What Mercado Pago is asked to charge is the total of the cart where its last   *)
(* line has room, and within half a cent for each line but the last otherwise     *)
(* (buildMercadoPagoPreferenceItems), for carts of any length, any prices, any    *)
(* discount the subtotal covers and every way the halves of a cent are rounded.   *)
THEOREM QuoteWithinCentsAlways == Spec => []QuoteWithinCents
<1>1. Init => QuoteWithinCents
  <2> SUFFICES ASSUME Init PROVE QuoteWithinCents
    OBVIOUS
  <2>1. quote.lines = 0 /\ quote.gap = 0
    BY DEF Init
  <2>2. Max({0, 0 - 1}) = 0
    <3>1. 0 \in Int /\ 0 - 1 \in Int /\ ~(0 <= 0 - 1)
      OBVIOUS
    <3>2. QED
      BY <3>1, OfTwo
  <2>3. QED
    BY <2>1, <2>2 DEF QuoteWithinCents
<1>2. QuoteWithinCents /\ [Next]_vars => QuoteWithinCents'
  <2> SUFFICES ASSUME QuoteWithinCents, [Next]_vars PROVE QuoteWithinCents'
    OBVIOUS
  <2>1. CASE UNCHANGED quote
    BY <2>1 DEF QuoteWithinCents
  <2>2. ASSUME NEW w \in Worker, CallSucceeds(w) PROVE QuoteWithinCents'
    <3>1. quote' \in Quotes
      BY <2>2 DEF CallSucceeds
    <3>2. PICK n \in Nat \ {0}, g \in Nat :
            /\ n = quote'.lines /\ g = quote'.gap /\ 2 * g <= n - 1
            /\ quote'.room => g = 0
      BY <3>1, QuotesAreClose
    <3>3. Max({0, n - 1}) = n - 1
      <4>1. 0 \in Int /\ n - 1 \in Int /\ 0 <= n - 1
        OBVIOUS
      <4>2. Max({0, n - 1}) = IF 0 <= n - 1 THEN n - 1 ELSE 0
        BY <4>1, OfTwo
      <4>3. QED
        BY <4>1, <4>2
    <3>4. QED
      BY <3>2, <3>3 DEF QuoteWithinCents
  <2>3. UNCHANGED quote \/ \E w \in Worker : CallSucceeds(w)
    BY DEF Next, Ask, Serve, vars, Replay, Prepare, CommitPrepare, CallFails, Attach,
           AttachFails, AttachUnacknowledged, FailKey, Abandon, LockLapses, AttemptEnds
  <2>4. QED
    BY <2>1, <2>2, <2>3
<1>3. QED
  BY <1>1, <1>2, PTL DEF Spec
=============================================================================

---------------------------- MODULE PrintProofs ----------------------------
(***************************************************************************)
(* Proofs about PrintQueue for every set of tickets and agents.  Two ideas *)
(* carry them.  ClaimsRecorded: whoever holds a ticket has a "claimed" row *)
(* for its current attempt, so a result accepted by Holds is the result of *)
(* that claim.  CopiesAccounted: the copies on paper, the claims in the    *)
(* agents' hands and the claim the queue could still grant never number    *)
(* more than one plus the leases that expired.                             *)
(***************************************************************************)
EXTENDS PrintQueue, FiniteSetTheorems, TLAPS

(* The results on their way: queued at an agent, or in a call. *)
InFlight == reports \cup Posted

(* The claim of the agent that holds the ticket is on record; a ticket nobody *)
(* works on carries no claim, and a printed one no retry.                     *)
ClaimsRecorded ==
    \A j \in Job :
        /\ job[j].holder # NoAgent =>
             /\ job[j].status = "processing"
             /\ [job |-> j, attempt |-> job[j].attempt, agent |-> job[j].holder,
                 status |-> "claimed"] \in attempts
        /\ job[j].status # "processing" => job[j].lease = "null"
        /\ job[j].status = "printed" => job[j].next # "later"

(* Every recorded outcome belongs to a recorded claim of the same agent. *)
OutcomesClaimed == \A r \in attempts : [r EXCEPT !.status = "claimed"] \in attempts

(* Nothing is on record, in hand or on its way for an attempt that has not begun. *)
AttemptsBegun ==
    /\ \A r \in attempts : r.attempt <= job[r.job].attempt
    /\ \A c \in hands : c.attempt <= job[c.job].attempt
    /\ \A m \in InFlight : m.attempt <= job[m.job].attempt

(* A success is reported only after the ticket came out of a printer. *)
SuccessHasPaper == \A m \in InFlight : m.status = "printed" => paper[m.job] > 0

(* The claims of ticket j that an agent may still print. *)
Hands(j) == {c \in hands : c.job = j}

(* The holder's printer failed and its report has yet to be accepted. *)
FailureReported(j) ==
    \E m \in InFlight : m.job = j /\ m.status = "failed" /\ Holds(job[j], m)

(* The queue may come to grant another claim of j with no further lapse. *)
Open(j) ==
    \/ job[j].status \in {"none", "pending", "failed"}
    \/ job[j].status = "processing" /\ (job[j].lease # "live" \/ FailureReported(j))

Share(j) == IF Open(j) THEN 1 ELSE 0

CopiesAccounted ==
    \A j \in Job : /\ IsFiniteSet(Hands(j))
                   /\ paper[j] + Cardinality(Hands(j)) + Share(j) <= 1 + lapses[j]

(* The inductive invariant. *)
Inv == /\ TypeOK /\ ClaimsRecorded /\ OutcomesClaimed /\ AttemptsBegun
       /\ SettledByItsClaimant /\ SuccessHasPaper /\ PrintedHasPaper
       /\ CopiesAccounted

-----------------------------------------------------------------------------
(* Lemmas about calls and results *)

(* A call is a poll or the delivery of a report; a report is posted exactly when *)
(* its call is in flight.                                                        *)
LEMMA PostedType ==
  ASSUME TypeOK
  PROVE  /\ Posted \subseteq Report /\ InFlight \subseteq Report
         /\ \A m \in Report : Post(m) \in calls => m \in Posted
<1>1. ASSUME NEW m \in Posted PROVE m \in Report
  <2>1. PICK c \in calls : c.kind = "result" /\ m = c.report
    BY DEF Posted
  <2>2. ~ (c = Poll(c.agent))
    BY <2>1 DEF Poll
  <2>3. QED
    BY <2>1, <2>2 DEF TypeOK
<1>2. ASSUME NEW m \in Report, Post(m) \in calls PROVE m \in Posted
  <2>1. Post(m).kind = "result" /\ Post(m).report = m
    BY DEF Post
  <2>2. QED
    BY <1>2, <2>1 DEF Posted
<1>3. QED
  BY <1>1, <1>2 DEF InFlight, TypeOK

(* A report has the agent, the ticket and the attempt of its claim. *)
LEMMA ReportFields ==
  ASSUME NEW m \in Report
  PROVE  /\ m.agent \in Agent /\ m.job \in Job /\ m.attempt \in Nat /\ m.status \in Outcome
         /\ m.agent # NoAgent
BY NoAgentAssumption DEF Report

(* Fewer calls mean fewer results on their way. *)
LEMMA CallsDropped ==
  ASSUME calls' \subseteq calls, reports' \subseteq reports
  PROVE  InFlight' \subseteq InFlight
BY DEF InFlight, Posted

(* A poll carries no result. *)
LEMMA PollAdds ==
  ASSUME NEW a \in Agent, calls' = calls \cup {Poll(a)}, reports' = reports
  PROVE  InFlight' = InFlight
BY DEF InFlight, Posted, Poll

(* A result whose call begins was on its way already. *)
LEMMA PostAdds ==
  ASSUME NEW m \in reports, calls' = calls \cup {Post(m)}, reports' = reports
  PROVE  InFlight' \subseteq InFlight
<1> SUFFICES ASSUME NEW n \in InFlight' PROVE n \in InFlight
  OBVIOUS
<1>1. CASE n \in reports
  BY <1>1 DEF InFlight
<1>2. CASE \E c \in calls' : c.kind = "result" /\ n = c.report
  <2>1. PICK c \in calls' : c.kind = "result" /\ n = c.report
    BY <1>2
  <2>2. CASE c = Post(m)
    BY <2>1, <2>2 DEF Post, InFlight
  <2>3. CASE c \in calls
    BY <2>1, <2>3 DEF InFlight, Posted
  <2>4. QED
    BY <2>2, <2>3
<1>3. QED
  BY <1>1, <1>2 DEF InFlight, Posted

(* An agent that reports adds its report and nothing else. *)
LEMMA ReportAdds ==
  ASSUME NEW m, calls' = calls, reports' = reports \cup {m}
  PROVE  InFlight' = InFlight \cup {m}
BY DEF InFlight, Posted

(* The attempts table only grows, and by the new row at most. *)
LEMMA WithAttemptGrows ==
  ASSUME NEW row
  PROVE  /\ attempts \subseteq WithAttempt(row)
         /\ WithAttempt(row) \subseteq attempts \cup {row}
         /\ \E r \in WithAttempt(row) : /\ r.job = row.job /\ r.attempt = row.attempt
                                        /\ r.status = row.status
BY DEF WithAttempt

-----------------------------------------------------------------------------
(* Types *)

(* The initial state has the types. *)
LEMMA InitType == Init => TypeOK
BY DEF Init, TypeOK, NoJob, JobRow, JobStatus

(* A claim writes a row. *)
LEMMA LeasedRow ==
  ASSUME NEW r \in JobRow, NEW a \in Agent
  PROVE  /\ Leased(r, a) \in JobRow
         /\ Leased(r, a).status = "processing" /\ Leased(r, a).attempt = r.attempt + 1
         /\ Leased(r, a).holder = a /\ Leased(r, a).lease = "live"
<1>1. r.attempt + 1 \in Nat
  BY DEF JobRow
<1>2. \A n \in Nat : [r EXCEPT !.status = "processing", !.attempt = n, !.holder = a,
                               !.lease = "live", !.next = "null"] \in JobRow
  BY DEF JobRow, JobStatus
<1>3. Leased(r, a) \in JobRow
  BY <1>1, <1>2 DEF Leased
<1>4. QED
  BY <1>3 DEF JobRow, Leased

(* A settlement writes a row. *)
LEMMA SettledRow ==
  ASSUME NEW r \in JobRow, NEW m \in Report
  PROVE  /\ Settled(r, m) \in JobRow
         /\ Settled(r, m).status = m.status /\ Settled(r, m).attempt = r.attempt
         /\ Settled(r, m).holder = NoAgent /\ Settled(r, m).lease = "null"
         /\ m.status = "printed" => Settled(r, m).next = "null"
<1>1. m.status \in JobStatus
  BY DEF Report, Outcome, JobStatus
<1>2. \A n \in {"later", "null"} :
        [r EXCEPT !.status = m.status, !.holder = NoAgent, !.lease = "null",
                  !.next = n] \in JobRow
  BY <1>1 DEF JobRow
<1>3. Settled(r, m) \in JobRow
  BY <1>2 DEF Settled
<1>4. QED
  BY <1>3 DEF JobRow, Settled

(* A call typed by TypeOK stays typed while its set of calls shrinks or grows by *)
(* a poll or by the delivery of a report.                                        *)
LEMMA CallsTyped ==
  ASSUME TypeOK,
         \/ calls' \subseteq calls
         \/ \E a \in Agent : calls' = calls \cup {Poll(a)}
         \/ \E m \in Report : calls' = calls \cup {Post(m)}
  PROVE  \A c \in calls' : \/ c.agent \in Agent /\ c = Poll(c.agent)
                           \/ c.kind = "result" /\ c.report \in Report /\ c = Post(c.report)
<1>1. CASE calls' \subseteq calls
  BY <1>1 DEF TypeOK
<1>2. ASSUME NEW a \in Agent, calls' = calls \cup {Poll(a)}
      PROVE  \A c \in calls' : \/ c.agent \in Agent /\ c = Poll(c.agent)
                               \/ c.kind = "result" /\ c.report \in Report
                                  /\ c = Post(c.report)
  <2>1. Poll(a).agent = a
    BY DEF Poll
  <2>2. QED
    BY <1>2, <2>1 DEF TypeOK
<1>3. ASSUME NEW m \in Report, calls' = calls \cup {Post(m)}
      PROVE  \A c \in calls' : \/ c.agent \in Agent /\ c = Poll(c.agent)
                               \/ c.kind = "result" /\ c.report \in Report
                                  /\ c = Post(c.report)
  <2>1. Post(m).kind = "result" /\ Post(m).report = m
    BY DEF Post
  <2>2. QED
    BY <1>3, <2>1 DEF TypeOK
<1>4. QED
  BY <1>1, <1>2, <1>3

(* A claimed row, and the row of an accepted result, are rows of the table. *)
LEMMA AttemptsTyped ==
  ASSUME TypeOK, NEW row \in AttemptRow
  PROVE  WithAttempt(row) \subseteq AttemptRow
BY WithAttemptGrows DEF TypeOK

(* A claim: the row is leased, a claimed row and a ticket in the agent's hands. *)
LEMMA ClaimType ==
  ASSUME TypeOK, NEW a \in Agent, NEW j \in Job, ClaimNext(a, j)
  PROVE  TypeOK'
<1>1. /\ job' \in [Job -> JobRow]
      /\ job'[j] = Leased(job[j], a)
  BY LeasedRow DEF TypeOK, ClaimNext
<1>2. job'[j].attempt \in Nat
  BY <1>1 DEF JobRow
<1>3. attempts' \subseteq AttemptRow
  <2>1. [job |-> j, attempt |-> job'[j].attempt, agent |-> a, status |-> "claimed"]
          \in AttemptRow
    BY <1>2 DEF AttemptRow
  <2>2. QED
    BY <2>1, AttemptsTyped DEF ClaimNext
<1>4. hands' \subseteq Claim
  BY <1>2 DEF TypeOK, ClaimNext, Claim
<1>5. \A c \in calls' : \/ c.agent \in Agent /\ c = Poll(c.agent)
                        \/ c.kind = "result" /\ c.report \in Report /\ c = Post(c.report)
  BY CallsTyped DEF ClaimNext
<1>6. QED
  BY <1>1, <1>3, <1>4, <1>5 DEF TypeOK, ClaimNext

(* An accepted result. *)
LEMMA AcceptedType ==
  ASSUME TypeOK, NEW m \in Report, ReportAccepted(m)
  PROVE  TypeOK'
<1>1. job' \in [Job -> JobRow]
  BY SettledRow, ReportFields DEF TypeOK, ReportAccepted
<1>2. attempts' \subseteq AttemptRow
  <2>1. [job |-> m.job, attempt |-> m.attempt, agent |-> m.agent, status |-> m.status]
          \in AttemptRow
    BY ReportFields DEF AttemptRow
  <2>2. QED
    BY <2>1, AttemptsTyped DEF ReportAccepted
<1>3. \A c \in calls' : \/ c.agent \in Agent /\ c = Poll(c.agent)
                        \/ c.kind = "result" /\ c.report \in Report /\ c = Post(c.report)
  BY CallsTyped DEF ReportAccepted
<1>4. reports' \subseteq Report /\ done' \subseteq Report
  BY DEF TypeOK, ReportAccepted
<1>5. QED
  BY <1>1, <1>2, <1>3, <1>4 DEF TypeOK, ReportAccepted

(* The agent's own steps. *)
LEMMA AgentType ==
  ASSUME TypeOK, NEW c \in hands, PrintOnPaper(c) \/ PrinterFails(c) \/ ClaimLost(c)
  PROVE  TypeOK'
<1>1. /\ c.job \in Job /\ hands' \subseteq Claim
      /\ \A s \in Outcome : [agent |-> c.agent, job |-> c.job, attempt |-> c.attempt,
                             status |-> s] \in Report
  BY DEF TypeOK, Claim, Report, PrintOnPaper, PrinterFails, ClaimLost
<1>2. reports' \subseteq Report
  BY <1>1 DEF TypeOK, PrintOnPaper, PrinterFails, ClaimLost, Outcome
<1>3. paper' \in [Job -> Nat]
  BY <1>1 DEF TypeOK, PrintOnPaper, PrinterFails, ClaimLost
<1>4. UNCHANGED <<job, agent, attempts, calls, done, lapses>>
  BY DEF PrintOnPaper, PrinterFails, ClaimLost
<1>5. QED
  BY <1>1, <1>2, <1>3, <1>4 DEF TypeOK

-----------------------------------------------------------------------------
(* The inductive invariant *)

(* It holds initially. *)
LEMMA InvInit == Init => Inv
<1> SUFFICES ASSUME Init PROVE Inv
  OBVIOUS
<1>1. InFlight = {}
  BY DEF Init, InFlight, Posted
<1>2. ClaimsRecorded /\ OutcomesClaimed /\ AttemptsBegun /\ SuccessHasPaper
  BY <1>1 DEF Init, ClaimsRecorded, OutcomesClaimed, AttemptsBegun, SuccessHasPaper, NoJob
<1>3. SettledByItsClaimant /\ PrintedHasPaper
  BY DEF Init, SettledByItsClaimant, PrintedHasPaper, NoJob, Outcome
<1>4. CopiesAccounted
  <2> SUFFICES ASSUME NEW j \in Job
               PROVE  /\ IsFiniteSet(Hands(j))
                      /\ paper[j] + Cardinality(Hands(j)) + Share(j) <= 1 + lapses[j]
    BY DEF CopiesAccounted
  <2>1. Hands(j) = {} /\ paper[j] = 0 /\ lapses[j] = 0
    BY DEF Init, Hands
  <2>2. IsFiniteSet(Hands(j)) /\ Cardinality(Hands(j)) = 0
    BY <2>1, FS_EmptySet
  <2>3. Share(j) \in {0, 1}
    BY DEF Share
  <2>4. QED
    BY <2>1, <2>2, <2>3
<1>5. QED
  BY <1>2, <1>3, <1>4, InitType DEF Inv

(* What CopiesAccounted says of one ticket, with the types of its parts. *)
LEMMA AccountOf ==
  ASSUME Inv, NEW j \in Job
  PROVE  /\ IsFiniteSet(Hands(j)) /\ Cardinality(Hands(j)) \in Nat
         /\ paper[j] \in Nat /\ lapses[j] \in Nat /\ Share(j) \in {0, 1}
         /\ paper[j] + Cardinality(Hands(j)) + Share(j) <= 1 + lapses[j]
BY FS_CardinalityType DEF Inv, CopiesAccounted, TypeOK, Share

(* Steps that leave the tickets and the table alone and neither report nor hand  *)
(* out anything: enrolling, revoking, opening or refusing a call, losing a claim *)
(* or a report.                                                                  *)
LEMMA QuietKeeps ==
  ASSUME Inv, TypeOK', UNCHANGED <<job, attempts, paper, lapses>>,
         InFlight' \subseteq InFlight, hands' \subseteq hands
  PROVE  Inv'
<1>1. ClaimsRecorded' /\ OutcomesClaimed' /\ SettledByItsClaimant' /\ PrintedHasPaper'
  BY DEF Inv, ClaimsRecorded, OutcomesClaimed, SettledByItsClaimant, PrintedHasPaper
<1>2. AttemptsBegun' /\ SuccessHasPaper'
  BY DEF Inv, AttemptsBegun, SuccessHasPaper
<1>3. CopiesAccounted'
  <2> SUFFICES ASSUME NEW j \in Job
               PROVE  /\ IsFiniteSet(Hands(j))'
                      /\ paper'[j] + Cardinality(Hands(j)') + Share(j)' <= 1 + lapses'[j]
    BY DEF CopiesAccounted
  <2>1. Hands(j)' \subseteq Hands(j)
    BY DEF Hands
  <2>2. /\ IsFiniteSet(Hands(j)')
        /\ Cardinality(Hands(j)') <= Cardinality(Hands(j))
    BY <2>1, AccountOf, FS_Subset
  <2>3. Cardinality(Hands(j)') \in Nat
    BY <2>2, FS_CardinalityType
  <2>4. Share(j)' <= Share(j) /\ Share(j)' \in {0, 1}
    <3>1. FailureReported(j)' => FailureReported(j)
      BY DEF FailureReported
    <3>2. Open(j)' => Open(j)
      BY <3>1 DEF Open
    <3>3. QED
      BY <3>2 DEF Share
  <2>5. QED
    BY <2>2, <2>3, <2>4, AccountOf
<1>4. QED
  BY <1>1, <1>2, <1>3 DEF Inv

(* Steps that change neither what the agents hold nor what they report leave a   *)
(* ticket's account covered if its share grew by no more than its lapses.        *)
LEMMA AccountKept ==
  ASSUME Inv, TypeOK', UNCHANGED <<hands, paper>>,
         \A j \in Job : Share(j)' - Share(j) <= lapses'[j] - lapses[j]
  PROVE  CopiesAccounted'
<1> SUFFICES ASSUME NEW j \in Job
             PROVE  /\ IsFiniteSet(Hands(j))'
                    /\ paper'[j] + Cardinality(Hands(j)') + Share(j)' <= 1 + lapses'[j]
  BY DEF CopiesAccounted
<1>1. Hands(j)' = Hands(j) /\ paper'[j] = paper[j]
  BY DEF Hands
<1>2. lapses'[j] \in Nat /\ Share(j)' \in {0, 1}
  BY DEF TypeOK, Share
<1>3. QED
  BY <1>1, <1>2, AccountOf

(* A step that settles no ticket keeps the settled ones with their claimants. *)
LEMMA SettledKept ==
  ASSUME Inv, attempts \subseteq attempts',
         \A j \in Job : job'[j].status \in Outcome =>
            job'[j].status = job[j].status /\ job'[j].attempt = job[j].attempt
  PROVE  SettledByItsClaimant'
<1> SUFFICES ASSUME NEW j \in Job, job'[j].status \in Outcome
             PROVE  \E r \in attempts' :
                       /\ r.job = j /\ r.attempt = job'[j].attempt
                       /\ r.status = job'[j].status
                       /\ [r EXCEPT !.status = "claimed"] \in attempts'
  BY DEF SettledByItsClaimant
<1>1. PICK r \in attempts : /\ r.job = j /\ r.attempt = job[j].attempt
                            /\ r.status = job[j].status
                            /\ [r EXCEPT !.status = "claimed"] \in attempts
  BY DEF Inv, SettledByItsClaimant
<1>2. QED
  BY <1>1

(* A ticket is queued. *)
LEMMA EnqueueKeeps ==
  ASSUME Inv, NEW j \in Job, Enqueue(j)
  PROVE  Inv'
<1> DEFINE row == [NoJob EXCEPT !.status = "pending", !.next = "due"]
<1>1. /\ job[j] = NoJob /\ job' = [job EXCEPT ![j] = row]
      /\ UNCHANGED <<attempts, calls, reports, hands, paper, lapses>>
  BY DEF Enqueue
<1>2. /\ row \in JobRow /\ row.status = "pending" /\ row.holder = NoAgent
      /\ row.attempt = 0 /\ row.lease = "null" /\ NoJob.attempt = 0 /\ NoJob.status = "none"
  BY DEF NoJob, JobRow, JobStatus
<1> HIDE DEF row
<1>3. TypeOK'
  BY <1>1, <1>2 DEF Inv, TypeOK, Enqueue
<1>4. /\ job'[j] = row /\ \A i \in Job \ {j} : job'[i] = job[i]
      /\ InFlight' = InFlight
  BY <1>1 DEF Inv, TypeOK, InFlight, Posted
<1>5. ClaimsRecorded' /\ OutcomesClaimed' /\ SettledByItsClaimant' /\ PrintedHasPaper'
  <2>1. ClaimsRecorded' /\ OutcomesClaimed'
    BY <1>1, <1>2, <1>4 DEF Inv, ClaimsRecorded, OutcomesClaimed
  <2>2. SettledByItsClaimant'
    BY <1>1, <1>2, <1>4, SettledKept DEF Outcome
  <2>3. PrintedHasPaper'
    BY <1>1, <1>2, <1>4 DEF Inv, PrintedHasPaper
  <2>4. QED
    BY <2>1, <2>2, <2>3
<1>6. AttemptsBegun' /\ SuccessHasPaper'
  <2>1. \A i \in Job : job'[i].attempt = job[i].attempt
    BY <1>1, <1>2, <1>4
  <2>2. \A r \in attempts \cup hands \cup InFlight : r.job \in Job
    BY PostedType DEF Inv, TypeOK, AttemptRow, Claim, Report
  <2>3. QED
    BY <1>1, <1>4, <2>1, <2>2 DEF Inv, AttemptsBegun, SuccessHasPaper
<1>7. CopiesAccounted'
  <2>1. ASSUME NEW i \in Job PROVE Share(i)' - Share(i) <= lapses'[i] - lapses[i]
    <3>1. lapses'[i] = lapses[i] /\ lapses[i] \in Nat
      BY <1>1 DEF Inv, TypeOK
    <3>2. CASE i = j
      BY <1>1, <1>2, <1>4, <3>1, <3>2 DEF Share, Open
    <3>3. CASE i # j
      <4>1. job'[i] = job[i]
        BY <1>4, <3>3
      <4>2. FailureReported(i)' = FailureReported(i)
        BY <1>4, <4>1 DEF FailureReported, Holds
      <4>3. QED
        BY <3>1, <4>1, <4>2 DEF Share, Open
    <3>4. QED
      BY <3>2, <3>3
  <2>2. QED
    BY <1>1, <1>3, <2>1, AccountKept
<1>8. QED
  BY <1>3, <1>5, <1>6, <1>7 DEF Inv

(* The clock: an expiry opens the ticket to another claim and counts a lapse; a  *)
(* retry falls due.                                                              *)
LEMMA ClockKeeps ==
  ASSUME Inv, NEW j \in Job, LeaseExpires(j) \/ RetryDue(j)
  PROVE  Inv'
<1>1. PICK row \in JobRow :
        /\ job' = [job EXCEPT ![j] = row]
        /\ row.status = job[j].status /\ row.attempt = job[j].attempt
        /\ row.holder = job[j].holder
        /\ \/ job[j].lease = "live" /\ row.next = job[j].next /\ LeaseExpires(j)
           \/ job[j].next = "later" /\ row.lease = job[j].lease /\ RetryDue(j)
  <2>1. job[j] \in JobRow
    BY DEF Inv, TypeOK
  <2>2. CASE LeaseExpires(j)
    <3>1. [job[j] EXCEPT !.lease = "expired"] \in JobRow
      BY <2>1 DEF JobRow
    <3>2. QED
      BY <2>1, <2>2, <3>1 DEF LeaseExpires, JobRow
  <2>3. CASE RetryDue(j)
    <3>1. [job[j] EXCEPT !.next = "due"] \in JobRow
      BY <2>1 DEF JobRow
    <3>2. QED
      BY <2>1, <2>3, <3>1 DEF RetryDue, JobRow
  <2>4. QED
    BY <2>2, <2>3
<1>2. /\ UNCHANGED <<agent, attempts, calls, reports, done, hands, paper>>
      /\ job'[j] = row /\ \A i \in Job \ {j} : job'[i] = job[i]
      /\ InFlight' = InFlight
  BY <1>1 DEF Inv, TypeOK, LeaseExpires, RetryDue, InFlight, Posted
<1>3. TypeOK'
  BY <1>1 DEF Inv, TypeOK, LeaseExpires, RetryDue
<1>4. ClaimsRecorded' /\ OutcomesClaimed' /\ SettledByItsClaimant' /\ PrintedHasPaper'
  <2>1. job[j].lease = "live" => job[j].status = "processing"
    BY DEF Inv, ClaimsRecorded
  <2>2. job[j].next = "later" => job[j].status # "printed"
    BY DEF Inv, ClaimsRecorded
  <2>3. ClaimsRecorded'
    BY <1>1, <1>2, <2>1, <2>2 DEF Inv, ClaimsRecorded
  <2>4. OutcomesClaimed' /\ PrintedHasPaper'
    BY <1>1, <1>2 DEF Inv, OutcomesClaimed, PrintedHasPaper
  <2>5. SettledByItsClaimant'
    BY <1>1, <1>2, SettledKept
  <2>6. QED
    BY <2>3, <2>4, <2>5
<1>5. AttemptsBegun' /\ SuccessHasPaper'
  <2>1. \A i \in Job : job'[i].attempt = job[i].attempt
    BY <1>1, <1>2
  <2>2. \A r \in attempts \cup hands \cup InFlight : r.job \in Job
    BY PostedType DEF Inv, TypeOK, AttemptRow, Claim, Report
  <2>3. QED
    BY <1>2, <2>1, <2>2 DEF Inv, AttemptsBegun, SuccessHasPaper
<1>6. CopiesAccounted'
  <2>1. ASSUME NEW i \in Job PROVE Share(i)' - Share(i) <= lapses'[i] - lapses[i]
    <3>1. Share(i) \in {0, 1} /\ Share(i)' \in {0, 1} /\ lapses[i] \in Nat
      BY DEF Inv, TypeOK, Share
    <3>2. CASE lapses'[i] = lapses[i] + 1
      BY <3>1, <3>2
    <3>3. CASE lapses'[i] = lapses[i] /\ (i = j => RetryDue(j) /\ row.lease = job[j].lease)
      <4>1. /\ job'[i].status = job[i].status /\ job'[i].lease = job[i].lease
            /\ job'[i].holder = job[i].holder /\ job'[i].attempt = job[i].attempt
        BY <1>1, <1>2, <3>3
      <4>2. FailureReported(i)' = FailureReported(i)
        BY <1>2, <4>1 DEF FailureReported, Holds
      <4>3. Share(i)' = Share(i)
        BY <4>1, <4>2 DEF Share, Open
      <4>4. QED
        BY <3>1, <3>3, <4>3
    <3>4. QED
      BY <1>1, <3>2, <3>3 DEF Inv, TypeOK, LeaseExpires, RetryDue
  <2>2. QED
    BY <1>2, <1>3, <2>1, AccountKept
<1>7. QED
  BY <1>3, <1>4, <1>5, <1>6 DEF Inv

(* A claim begins an attempt nobody has reported on, and takes the ticket's share. *)
LEMMA ClaimKeeps ==
  ASSUME Inv, NEW a \in Agent, NEW j \in Job, ClaimNext(a, j)
  PROVE  Inv'
<1> DEFINE n == job[j].attempt + 1
           row == [job |-> j, attempt |-> n, agent |-> a, status |-> "claimed"]
           h == [agent |-> a, job |-> j, attempt |-> n]
<1>1. /\ job[j] \in JobRow /\ job[j].attempt \in Nat
      /\ job' = [job EXCEPT ![j] = Leased(job[j], a)]
      /\ Claimable(job[j])
      /\ UNCHANGED <<reports, paper, lapses>> /\ calls' \subseteq calls
  BY DEF Inv, TypeOK, ClaimNext, JobRow
<1>2. /\ job'[j].status = "processing" /\ job'[j].attempt = n
      /\ job'[j].holder = a /\ job'[j].lease = "live"
      /\ \A i \in Job \ {j} : job'[i] = job[i]
  BY <1>1, LeasedRow DEF Inv, TypeOK
<1>3. attempts' = attempts \cup {row}
  <2>1. \A r \in attempts : r.job = j => r.attempt # n
    BY <1>1 DEF Inv, TypeOK, AttemptsBegun, AttemptRow
  <2>2. attempts' = WithAttempt(row)
    BY <1>2 DEF ClaimNext
  <2>3. QED
    BY <2>1, <2>2 DEF WithAttempt
<1>4. hands' = hands \cup {h}
  BY <1>2 DEF ClaimNext
<1>5. InFlight' \subseteq InFlight
  BY <1>1, CallsDropped
<1>6. TypeOK'
  BY ClaimType DEF Inv
<1>7. ClaimsRecorded' /\ OutcomesClaimed'
  BY <1>2, <1>3 DEF Inv, ClaimsRecorded, OutcomesClaimed
<1>8. AttemptsBegun'
  <2>1. \A i \in Job : job[i].attempt \in Nat /\ job[i].attempt <= job'[i].attempt
    BY <1>1, <1>2 DEF Inv, TypeOK, JobRow
  <2>2. /\ \A r \in attempts : r.job \in Job /\ r.attempt \in Nat
        /\ \A r \in hands : r.job \in Job /\ r.attempt \in Nat
        /\ \A r \in InFlight : r.job \in Job /\ r.attempt \in Nat
    BY PostedType DEF Inv, TypeOK, AttemptRow, Claim, Report
  <2>3. \A i \in Job : job'[i].attempt \in Nat
    BY <1>6 DEF TypeOK, JobRow
  <2>4. \A r \in attempts' : r.attempt <= job'[r.job].attempt
    BY <1>1, <1>2, <1>3, <2>1, <2>2, <2>3 DEF Inv, AttemptsBegun
  <2>5. \A r \in hands' : r.attempt <= job'[r.job].attempt
    BY <1>1, <1>2, <1>4, <2>1, <2>2, <2>3 DEF Inv, AttemptsBegun
  <2>6. \A r \in InFlight' : r.attempt <= job'[r.job].attempt
    BY <1>5, <2>1, <2>2, <2>3 DEF Inv, AttemptsBegun
  <2>7. QED
    BY <2>4, <2>5, <2>6 DEF AttemptsBegun
<1>9. SettledByItsClaimant' /\ SuccessHasPaper' /\ PrintedHasPaper'
  <2>1. SettledByItsClaimant'
    BY <1>2, <1>3, SettledKept DEF Outcome
  <2>2. SuccessHasPaper' /\ PrintedHasPaper'
    BY <1>1, <1>2, <1>5 DEF Inv, SuccessHasPaper, PrintedHasPaper
  <2>3. QED
    BY <2>1, <2>2
<1>10. CopiesAccounted'
  <2> SUFFICES ASSUME NEW i \in Job
               PROVE  /\ IsFiniteSet(Hands(i))'
                      /\ paper'[i] + Cardinality(Hands(i)') + Share(i)' <= 1 + lapses'[i]
    BY DEF CopiesAccounted
  <2>1. CASE i = j
    <3>1. Share(j) = 1
      BY <1>1 DEF Claimable, Share, Open
    <3>2. ~ FailureReported(j)'
      BY <1>1, <1>2, <1>5, PostedType, ReportFields
      DEF Inv, FailureReported, Holds, AttemptsBegun
    <3>3. Share(j)' = 0
      BY <1>2, <3>2 DEF Share, Open
    <3>4. Hands(j)' = Hands(j) \cup {h}
      BY <1>4 DEF Hands
    <3>5. /\ IsFiniteSet(Hands(j)')
          /\ Cardinality(Hands(j)') =
               IF h \in Hands(j) THEN Cardinality(Hands(j)) ELSE Cardinality(Hands(j)) + 1
      <4>1. IsFiniteSet(Hands(j))
        BY AccountOf
      <4> HIDE DEF h
      <4>2. QED
        BY <3>4, <4>1, FS_AddElement
    <3>6. QED
      BY <1>1, <2>1, <3>1, <3>3, <3>5, AccountOf
  <2>2. CASE i # j
    <3>1. Hands(i)' = Hands(i) /\ job'[i] = job[i]
      BY <1>2, <1>4, <2>2 DEF Hands
    <3>2. Open(i)' => Open(i)
      BY <1>5, <3>1 DEF Open, FailureReported, Holds
    <3>3. Share(i)' <= Share(i) /\ Share(i)' \in {0, 1}
      BY <3>2 DEF Share
    <3>4. QED
      BY <1>1, <3>1, <3>3, AccountOf
  <2>3. QED
    BY <2>1, <2>2
<1>11. QED
  BY <1>6, <1>7, <1>8, <1>9, <1>10 DEF Inv

(* An accepted result settles the claim of the agent that reports it. *)
LEMMA AcceptedKeeps ==
  ASSUME Inv, NEW m \in Report, ReportAccepted(m)
  PROVE  Inv'
<1> DEFINE j == m.job
           row == [job |-> j, attempt |-> m.attempt, agent |-> m.agent,
                   status |-> m.status]
<1>1. /\ j \in Job /\ m \in InFlight /\ m.agent # NoAgent /\ m.status \in Outcome
      /\ job[j].holder = m.agent /\ job[j].attempt = m.attempt
  BY ReportFields, PostedType DEF Inv, ReportAccepted, Holds, InFlight
<1>2. /\ job[j].status = "processing"
      /\ [row EXCEPT !.status = "claimed"] \in attempts
  BY <1>1 DEF Inv, ClaimsRecorded
<1>3. /\ job'[j].status = m.status /\ job'[j].attempt = m.attempt
      /\ job'[j].holder = NoAgent /\ job'[j].lease = "null"
      /\ m.status = "printed" => job'[j].next = "null"
      /\ \A i \in Job \ {j} : job'[i] = job[i]
  <2>1. job' = [job EXCEPT ![j] = Settled(job[j], m)] /\ job[j] \in JobRow
    BY <1>1 DEF Inv, TypeOK, ReportAccepted
  <2>2. QED
    BY <1>1, <2>1, SettledRow DEF Inv, TypeOK
<1>4. attempts' = WithAttempt(row) /\ UNCHANGED <<hands, paper, lapses>>
  BY DEF ReportAccepted
<1>5. /\ attempts \subseteq attempts' /\ attempts' \subseteq attempts \cup {row}
      /\ \E r \in attempts' : r.job = j /\ r.attempt = m.attempt /\ r.status = m.status
  BY <1>4, WithAttemptGrows
<1>6. InFlight' \subseteq InFlight
  BY CallsDropped DEF ReportAccepted
<1>7. TypeOK'
  BY AcceptedType DEF Inv
<1>8. ClaimsRecorded'
  BY <1>1, <1>3, <1>5 DEF Inv, ClaimsRecorded, Outcome
<1>9. OutcomesClaimed'
  BY <1>2, <1>5 DEF Inv, OutcomesClaimed
<1>10. AttemptsBegun'
  <2>1. \A i \in Job : job'[i].attempt = job[i].attempt
    BY <1>1, <1>3
  <2>2. \A r \in attempts \cup hands \cup InFlight : r.job \in Job
    BY PostedType DEF Inv, TypeOK, AttemptRow, Claim, Report
  <2>3. row.attempt <= job[row.job].attempt
    BY <1>1, ReportFields
  <2>4. QED
    BY <1>1, <1>4, <1>5, <1>6, <2>1, <2>2, <2>3 DEF Inv, AttemptsBegun
<1>11. SettledByItsClaimant'
  <2> SUFFICES ASSUME NEW i \in Job, job'[i].status \in Outcome
               PROVE  \E r \in attempts' :
                         /\ r.job = i /\ r.attempt = job'[i].attempt
                         /\ r.status = job'[i].status
                         /\ [r EXCEPT !.status = "claimed"] \in attempts'
    BY DEF SettledByItsClaimant
  <2>1. CASE i = j
    <3>1. PICK r \in attempts' : r.job = j /\ r.attempt = m.attempt /\ r.status = m.status
      BY <1>5
    <3>2. QED
      BY <1>3, <1>9, <2>1, <3>1 DEF OutcomesClaimed
  <2>2. CASE i # j
    <3>1. job'[i] = job[i]
      BY <1>3, <2>2
    <3>2. PICK r \in attempts : /\ r.job = i /\ r.attempt = job[i].attempt
                                /\ r.status = job[i].status
                                /\ [r EXCEPT !.status = "claimed"] \in attempts
      BY <3>1 DEF Inv, SettledByItsClaimant
    <3>3. QED
      BY <1>5, <3>1, <3>2
  <2>3. QED
    BY <2>1, <2>2
<1>12. SuccessHasPaper' /\ PrintedHasPaper'
  BY <1>1, <1>3, <1>4, <1>6 DEF Inv, SuccessHasPaper, PrintedHasPaper
<1>13. CopiesAccounted'
  <2>1. ASSUME NEW i \in Job PROVE Share(i)' - Share(i) <= lapses'[i] - lapses[i]
    <3>1. lapses'[i] = lapses[i] /\ lapses[i] \in Nat
      BY <1>4 DEF Inv, TypeOK
    <3>2. Share(i) \in {0, 1} /\ Share(i)' \in {0, 1}
      BY DEF Share
    <3>3. CASE i = j
      <4>1. CASE m.status = "failed"
        <5>1. FailureReported(j)
          BY <1>1, <4>1 DEF FailureReported, Holds
        <5>2. Share(j) = 1
          BY <1>2, <5>1 DEF Share, Open
        <5>3. QED
          BY <3>1, <3>2, <3>3, <5>2
      <4>2. CASE m.status = "printed"
        <5>1. Share(j)' = 0
          BY <1>3, <4>2 DEF Share, Open
        <5>2. QED
          BY <3>1, <3>2, <3>3, <5>1
      <4>3. QED
        BY <1>1, <4>1, <4>2 DEF Outcome
    <3>4. CASE i # j
      <4>1. job'[i] = job[i]
        BY <1>3, <3>4
      <4>2. Open(i)' => Open(i)
        BY <1>6, <4>1 DEF Open, FailureReported, Holds
      <4>3. QED
        BY <3>1, <3>2, <4>2 DEF Share
    <3>5. QED
      BY <3>3, <3>4
  <2>2. QED
    BY <1>4, <1>7, <2>1, AccountKept
<1>14. QED
  BY <1>7, <1>8, <1>9, <1>10, <1>11, <1>12, <1>13 DEF Inv

(* The agent prints the ticket, or its printer fails: the claim leaves its hands *)
(* and becomes a copy, or the share of the next claim.                           *)
LEMMA PrinterKeeps ==
  ASSUME Inv, NEW c \in hands, PrintOnPaper(c) \/ PrinterFails(c)
  PROVE  Inv'
<1>1. /\ c \in Claim /\ c.job \in Job /\ c.attempt <= job[c.job].attempt
      /\ UNCHANGED <<job, attempts, calls, lapses>> /\ hands' = hands \ {c}
  BY DEF Inv, TypeOK, AttemptsBegun, Claim, PrintOnPaper, PrinterFails
<1>2. PICK s \in Outcome :
        /\ reports' = reports \cup {[agent |-> c.agent, job |-> c.job,
                                     attempt |-> c.attempt, status |-> s]}
        /\ \/ s = "printed" /\ paper' = [paper EXCEPT ![c.job] = @ + 1]
           \/ s = "failed" /\ paper' = paper
  BY DEF PrintOnPaper, PrinterFails, Outcome
<1> DEFINE m == [agent |-> c.agent, job |-> c.job, attempt |-> c.attempt, status |-> s]
<1>3. InFlight' = InFlight \cup {m}
  BY <1>1, <1>2, ReportAdds
<1>4. TypeOK'
  BY AgentType DEF Inv
<1>5. \A i \in Job : paper[i] \in Nat /\ paper'[i] \in Nat /\ paper[i] <= paper'[i]
  BY <1>2 DEF Inv, TypeOK
<1>6. ClaimsRecorded' /\ OutcomesClaimed' /\ SettledByItsClaimant'
  BY <1>1 DEF Inv, ClaimsRecorded, OutcomesClaimed, SettledByItsClaimant
<1>7. PrintedHasPaper'
  BY <1>1, <1>5 DEF Inv, PrintedHasPaper
<1>8. AttemptsBegun'
  BY <1>1, <1>3 DEF Inv, AttemptsBegun
<1>9. SuccessHasPaper'
  <2>1. m.status = "printed" => paper'[m.job] > 0
    BY <1>1, <1>2 DEF Inv, TypeOK
  <2>2. \A n \in InFlight : n.job \in Job
    BY PostedType DEF Inv, Report
  <2>3. QED
    BY <1>3, <1>5, <2>1, <2>2 DEF Inv, SuccessHasPaper
<1>10. CopiesAccounted'
  <2> SUFFICES ASSUME NEW i \in Job
               PROVE  /\ IsFiniteSet(Hands(i))'
                      /\ paper'[i] + Cardinality(Hands(i)') + Share(i)' <= 1 + lapses'[i]
    BY DEF CopiesAccounted
  <2>1. lapses'[i] = lapses[i] /\ Share(i)' \in {0, 1}
    BY <1>1 DEF Share
  <2>2. s = "printed" => (FailureReported(i)' => FailureReported(i))
    BY <1>1, <1>3 DEF FailureReported
  <2>3. s = "printed" => Share(i)' <= Share(i)
    <3>1. s = "printed" => (Open(i)' => Open(i))
      BY <1>1, <2>2 DEF Open
    <3>2. QED
      BY <3>1 DEF Share
  <2>4. CASE i = c.job
    <3>1. Hands(i)' = Hands(i) \ {c} /\ c \in Hands(i)
      BY <1>1, <2>4 DEF Hands
    <3>2. /\ IsFiniteSet(Hands(i)')
          /\ Cardinality(Hands(i)') = Cardinality(Hands(i)) - 1
      BY <3>1, AccountOf, FS_RemoveElement
    <3>3. \/ s = "printed" /\ paper'[i] = paper[i] + 1
          \/ s = "failed" /\ paper'[i] = paper[i]
      BY <1>2, <2>4 DEF Inv, TypeOK
    <3>4. QED
      BY <2>1, <2>3, <3>2, <3>3, AccountOf
  <2>5. CASE i # c.job
    <3>1. Hands(i)' = Hands(i) /\ paper'[i] = paper[i]
      BY <1>1, <1>2, <2>5 DEF Hands, Inv, TypeOK
    <3>2. FailureReported(i)' => FailureReported(i)
      BY <1>1, <1>3, <2>5 DEF FailureReported
    <3>3. Open(i)' => Open(i)
      BY <1>1, <3>2 DEF Open
    <3>4. Share(i)' <= Share(i)
      BY <3>3 DEF Share
    <3>5. QED
      BY <2>1, <3>1, <3>4, AccountOf
  <2>6. QED
    BY <2>4, <2>5
<1>11. QED
  BY <1>4, <1>6, <1>7, <1>8, <1>9, <1>10 DEF Inv

(* Steps that neither settle nor claim: staff, calls that are opened, empty,      *)
(* repeated or rejected, claims and reports that are lost, and stuttering.        *)
LEMMA QuietSteps ==
  ASSUME Inv,
         \/ \E a \in Agent : Enroll(a) \/ Revoke(a) \/ ResolveClaim(a) \/ ClaimNothing(a)
         \/ \E m \in reports : ResolveResult(m) \/ ReportLost(m)
         \/ \E m \in Report : ReportRepeated(m) \/ ReportRejected(m)
         \/ \E c \in hands : ClaimLost(c)
         \/ UNCHANGED vars
  PROVE  Inv'
<1>1. ASSUME NEW a \in Agent, Enroll(a) \/ Revoke(a) PROVE Inv'
  <2>1. TypeOK' /\ InFlight' \subseteq InFlight
    BY <1>1, CallsDropped DEF Inv, TypeOK, Enroll, Revoke
  <2>2. QED
    BY <1>1, <2>1, QuietKeeps DEF Enroll, Revoke
<1>2. ASSUME NEW a \in Agent, ResolveClaim(a) PROVE Inv'
  <2>1. calls' = calls \cup {Poll(a)} /\ reports' = reports
    BY <1>2 DEF ResolveClaim
  <2>2. TypeOK'
    BY <1>2, <2>1, CallsTyped DEF Inv, TypeOK, ResolveClaim
  <2>3. InFlight' \subseteq InFlight
    BY <2>1, PollAdds
  <2>4. QED
    BY <1>2, <2>2, <2>3, QuietKeeps DEF ResolveClaim
<1>3. ASSUME NEW a \in Agent, ClaimNothing(a) PROVE Inv'
  <2>1. calls' \subseteq calls /\ reports' = reports
    BY <1>3 DEF ClaimNothing
  <2>2. TypeOK'
    BY <1>3, <2>1, CallsTyped DEF Inv, TypeOK, ClaimNothing
  <2>3. InFlight' \subseteq InFlight
    BY <2>1, CallsDropped
  <2>4. QED
    BY <1>3, <2>2, <2>3, QuietKeeps DEF ClaimNothing
<1>4. ASSUME NEW m \in reports, ResolveResult(m) PROVE Inv'
  <2>1. calls' = calls \cup {Post(m)} /\ reports' = reports /\ m \in Report
    BY <1>4 DEF Inv, TypeOK, ResolveResult
  <2>2. TypeOK'
    BY <1>4, <2>1, CallsTyped DEF Inv, TypeOK, ResolveResult
  <2>3. InFlight' \subseteq InFlight
    BY <2>1, PostAdds
  <2>4. QED
    BY <1>4, <2>2, <2>3, QuietKeeps DEF ResolveResult
<1>5. ASSUME NEW m \in reports, ReportLost(m) PROVE Inv'
  <2>1. calls' = calls /\ reports' \subseteq reports
    BY <1>5 DEF ReportLost
  <2>2. TypeOK'
    BY <1>5, <2>1, CallsTyped DEF Inv, TypeOK, ReportLost
  <2>3. InFlight' \subseteq InFlight
    BY <2>1, CallsDropped
  <2>4. QED
    BY <1>5, <2>2, <2>3, QuietKeeps DEF ReportLost
<1>6. ASSUME NEW m \in Report, ReportRepeated(m) \/ ReportRejected(m) PROVE Inv'
  <2>1. calls' \subseteq calls /\ reports' \subseteq reports
    BY <1>6 DEF ReportRepeated, ReportRejected
  <2>2. TypeOK'
    <3>1. done' \subseteq Report /\ reports' \subseteq Report
      BY <1>6 DEF Inv, TypeOK, ReportRepeated, ReportRejected
    <3>2. QED
      BY <1>6, <2>1, <3>1, CallsTyped DEF Inv, TypeOK, ReportRepeated, ReportRejected
  <2>3. InFlight' \subseteq InFlight
    BY <2>1, CallsDropped
  <2>4. QED
    BY <1>6, <2>2, <2>3, QuietKeeps DEF ReportRepeated, ReportRejected
<1>7. ASSUME NEW c \in hands, ClaimLost(c) PROVE Inv'
  <2>1. TypeOK'
    BY <1>7, AgentType DEF Inv
  <2>2. InFlight' \subseteq InFlight /\ hands' \subseteq hands
    BY <1>7, CallsDropped DEF ClaimLost
  <2>3. QED
    BY <1>7, <2>1, <2>2, QuietKeeps DEF ClaimLost
<1>8. CASE UNCHANGED vars
  <2>1. TypeOK' /\ InFlight' \subseteq InFlight
    BY <1>8, CallsDropped DEF Inv, TypeOK, vars
  <2>2. QED
    BY <1>8, <2>1, QuietKeeps DEF vars
<1>9. QED
  BY <1>1, <1>2, <1>3, <1>4, <1>5, <1>6, <1>7, <1>8

(* Every step keeps the invariant. *)
LEMMA InvNext == Inv /\ [Next]_vars => Inv'
<1> SUFFICES ASSUME Inv, [Next]_vars PROVE Inv'
  OBVIOUS
<1>1. ASSUME NEW j \in Job, Enqueue(j) PROVE Inv'
  BY <1>1, EnqueueKeeps
<1>2. ASSUME NEW j \in Job, LeaseExpires(j) \/ RetryDue(j) PROVE Inv'
  BY <1>2, ClockKeeps
<1>3. ASSUME NEW a \in Agent, NEW j \in Job, ClaimNext(a, j) PROVE Inv'
  BY <1>3, ClaimKeeps
<1>4. ASSUME NEW m \in Posted, Deliver(m) PROVE Inv'
  <2>1. m \in Report
    BY <1>4, PostedType DEF Inv
  <2>2. QED
    BY <1>4, <2>1, AcceptedKeeps, QuietSteps DEF Deliver
<1>5. ASSUME NEW c \in hands, PrintOnPaper(c) \/ PrinterFails(c) PROVE Inv'
  BY <1>5, PrinterKeeps
<1>6. ASSUME \/ \E a \in Agent : Enroll(a) \/ Revoke(a) \/ ResolveClaim(a) \/ ClaimNothing(a)
             \/ \E m \in reports : ResolveResult(m) \/ ReportLost(m)
             \/ \E c \in hands : ClaimLost(c)
             \/ UNCHANGED vars
      PROVE  Inv'
  BY <1>6, QuietSteps
<1>7. QED
  BY <1>1, <1>2, <1>3, <1>4, <1>5, <1>6 DEF Next

-----------------------------------------------------------------------------
(* The theorems *)

(* The inductive invariant holds in every reachable state. *)
THEOREM InvAlways == Spec => []Inv
BY InvInit, InvNext, PTL DEF Spec

(* For every set of tickets and agents: the rows keep their shapes, an outcome   *)
(* was reported by the agent that claimed the very attempt, and what is marked   *)
(* printed did come out of a printer.                                            *)
THEOREM TicketsAgreeAlways == Spec => []TicketsAgree
<1>1. Inv => TicketsAgree
  BY DEF Inv, TicketsAgree
<1>2. QED
  BY <1>1, InvAlways, PTL

(* A ticket comes out of the printers at most once more than its leases expired, *)
(* however many agents poll and however late or often they report.               *)
THEOREM ReprintNeedsLapseAlways == Spec => []ReprintNeedsLapse
<1>1. Inv => ReprintNeedsLapse
  <2> SUFFICES ASSUME Inv, NEW j \in Job PROVE paper[j] <= 1 + lapses[j]
    BY DEF ReprintNeedsLapse
  <2>1. QED
    BY AccountOf
<1>2. QED
  BY <1>1, InvAlways, PTL

(* No claim, no late result and no retry touches a printed ticket's row. *)
LEMMA PrintedStaysPrinted ==
  ASSUME Inv, [Next]_vars, NEW j \in Job, job[j].status = "printed"
  PROVE  job'[j] = job[j]
<1>1. /\ job[j].holder = NoAgent /\ job[j].lease = "null" /\ job[j].next # "later"
      /\ job[j] # NoJob /\ ~ Claimable(job[j])
  <2>1. job[j].holder = NoAgent /\ job[j].lease = "null" /\ job[j].next # "later"
    BY DEF Inv, ClaimsRecorded
  <2>2. job[j] # NoJob
    BY DEF NoJob
  <2>3. ~ Claimable(job[j])
    BY DEF Claimable
  <2>4. QED
    BY <2>1, <2>2, <2>3
<1>2. ASSUME NEW i \in Job, Enqueue(i) \/ LeaseExpires(i) \/ RetryDue(i)
      PROVE  job'[j] = job[j]
  BY <1>1, <1>2 DEF Inv, TypeOK, Enqueue, LeaseExpires, RetryDue
<1>3. ASSUME NEW a \in Agent, NEW i \in Job, ClaimNext(a, i)
      PROVE  job'[j] = job[j]
  BY <1>1, <1>3 DEF Inv, TypeOK, ClaimNext
<1>4. ASSUME NEW m \in Posted, Deliver(m)
      PROVE  job'[j] = job[j]
  <2>1. m.agent # NoAgent
    BY PostedType, ReportFields DEF Inv
  <2>2. QED
    BY <1>1, <1>4, <2>1
    DEF Inv, TypeOK, Deliver, ReportAccepted, ReportRepeated, ReportRejected, Holds
<1>5. CASE job' = job
  BY <1>5
<1>6. QED
  BY <1>2, <1>3, <1>4, <1>5
  DEF Next, vars, Enroll, Revoke, ResolveClaim, ClaimNothing, ResolveResult, ReportLost,
      PrintOnPaper, PrinterFails, ClaimLost

(* A printed ticket is final: the step part of EnqueuedIsPrinted. *)
THEOREM PrintedIsFinalAlways == Spec => PrintedIsFinal
<1>1. Inv /\ [Next]_vars =>
        [\A j \in Job : job[j].status = "printed" => job'[j] = job[j]]_vars
  BY PrintedStaysPrinted
<1>2. QED
  BY <1>1, InvAlways, PTL DEF Spec, PrintedIsFinal

=============================================================================

----------------------------- MODULE PrintQueue -----------------------------
(***************************************************************************)
(* The kitchen ticket queue of one location: print_jobs, print_agents and  *)
(* print_job_attempts, the calls a print agent makes over HTTP (claim and  *)
(* result), and the agent itself (an external program that polls, prints   *)
(* on paper and reports).                                                  *)
(*                                                                         *)
(* A call is two transactions: the token is resolved first (resolveToken), *)
(* the claim or the result commits later, so the agent may be revoked, or  *)
(* the lease may pass to somebody else, in between.  Reports are delivered *)
(* at least once: the agent sends one again when the answer was lost.      *)
(*                                                                         *)
(* The clock is abstracted to the two comparisons claimNext makes: a lease *)
(* is live or expired, a retry is due or not.  Faults strike a ticket only *)
(* while it has tried fewer than MaxAttempts times (the code has no limit).*)
(***************************************************************************)
EXTENDS Naturals, FiniteSets

CONSTANTS
    Job,          \* tickets: one per order, see enqueueOrderTicketInTransaction
    Agent,        \* print agents that may be enrolled
    Revocable,    \* the agents staff may revoke
    MaxAttempts,  \* bound: faults stop when a ticket is tried this many times
    NoAgent       \* claimed_by_agent_id IS NULL

ASSUME RevocableAssumption == Revocable \subseteq Agent
ASSUME MaxAttemptsAssumption == MaxAttempts \in Nat \ {0}
ASSUME NoAgentAssumption == NoAgent \notin Agent

VARIABLES
    job,       \* print_jobs row of each ticket
    agent,     \* print_agents.status of each agent
    attempts,  \* print_job_attempts rows
    calls,     \* calls whose token is resolved and whose transaction is to come
    reports,   \* results an agent has to deliver, until they are acknowledged
    done,      \* completed idempotency records of scope print-result
    hands,     \* tickets an agent received and has neither printed nor dropped
    paper,     \* how often each ticket came out of a printer
    lapses     \* how many leases of each ticket have expired

vars == <<job, agent, attempts, calls, reports, done, hands, paper, lapses>>

-----------------------------------------------------------------------------

JobStatus == {"none", "pending", "processing", "printed", "failed"}
Outcome == {"printed", "failed"}

\* The columns of a print_jobs row that claim and report read or write.
JobRow == [status : JobStatus, attempt : Nat, holder : Agent \union {NoAgent},
           lease : {"null", "live", "expired"}, next : {"null", "due", "later"}]

Claim == [agent : Agent, job : Job, attempt : Nat]
Report == [agent : Agent, job : Job, attempt : Nat, status : Outcome]
Poll(a) == [kind |-> "claim", agent |-> a]
Post(m) == [kind |-> "result", agent |-> m.agent, report |-> m]
AttemptRow == [job : Job, attempt : Nat, agent : Agent,
               status : {"claimed"} \union Outcome]

NoJob == [status |-> "none", attempt |-> 0, holder |-> NoAgent,
          lease |-> "null", next |-> "null"]

Init ==
    /\ job = [j \in Job |-> NoJob]
    /\ agent = [a \in Agent |-> "none"]
    /\ attempts = {}
    /\ calls = {}
    /\ reports = {}
    /\ done = {}
    /\ hands = {}
    /\ paper = [j \in Job |-> 0]
    /\ lapses = [j \in Job |-> 0]

-----------------------------------------------------------------------------
(* Slips a maintainer could make, each a variant of the definition below it. *)

ClaimableNeverExpired(r) ==
    r.status \in {"pending", "failed"} /\ r.next \in {"null", "due"}

ClaimableWhileLeased(r) ==
    \/ r.status \in {"pending", "failed"} /\ r.next \in {"null", "due"}
    \/ r.status = "processing"

\* claimNext's WHERE clause: due work, or work whose lease has run out.
Claimable(r) ==
    \/ r.status \in {"pending", "failed"} /\ r.next \in {"null", "due"}
    \/ r.status = "processing" /\ r.lease = "expired"

\* claimNext's SET clause.
Leased(r, a) ==
    [r EXCEPT !.status = "processing", !.attempt = @ + 1, !.holder = a,
              !.lease = "live", !.next = "null"]

HoldsAnyAttempt(r, m) == r.holder = m.agent

\* reportResult accepts a result from the holder of the current attempt only;
\* the SELECT and the guarded UPDATE make the same comparison.
Holds(r, m) == r.holder = m.agent /\ r.attempt = m.attempt

\* reportResult's SET clause; a failure is due again at retryDate, later.
Settled(r, m) ==
    [r EXCEPT !.status = m.status, !.holder = NoAgent, !.lease = "null",
              !.next = IF m.status = "failed" THEN "later" ELSE "null"]

\* reportResult's early return: this very attempt already printed the ticket.
AlreadyPrinted(r, m) ==
    r.status = "printed" /\ m.status = "printed" /\ r.attempt = m.attempt

\* An insert with onConflictDoNothing on (print_job_id, attempt_number, status).
WithAttempt(row) ==
    IF \E r \in attempts : /\ r.job = row.job
                           /\ r.attempt = row.attempt
                           /\ r.status = row.status
    THEN attempts
    ELSE attempts \union {row}

\* The bound on faults: a ticket can go wrong only before its last attempt.
Spare(j) == job[j].attempt < MaxAttempts

-----------------------------------------------------------------------------
(* Staff: enrolling and revoking agents. *)

Enroll(a) ==
    /\ agent[a] = "none"
    /\ agent' = [agent EXCEPT ![a] = "active"]
    /\ UNCHANGED <<job, attempts, calls, reports, done, hands, paper, lapses>>

\* Revoking touches the agent only: its leases and its calls in flight stay.
Revoke(a) ==
    /\ a \in Revocable
    /\ agent[a] = "active"
    /\ \A j \in Job : job[j].holder = a => Spare(j)
    /\ agent' = [agent EXCEPT ![a] = "revoked"]
    /\ UNCHANGED <<job, attempts, calls, reports, done, hands, paper, lapses>>

\* enqueueOrderTicketInTransaction, once the kitchen gate let the order pass:
\* the unique idempotency key makes every later insert a no-op.
Enqueue(j) ==
    /\ job[j] = NoJob
    /\ job' = [job EXCEPT ![j] = [NoJob EXCEPT !.status = "pending", !.next = "due"]]
    /\ UNCHANGED <<agent, attempts, calls, reports, done, hands, paper, lapses>>

-----------------------------------------------------------------------------
(* The two calls of an agent. *)

\* resolveToken: only the token of an active agent opens a call.
ResolveClaim(a) ==
    /\ agent[a] = "active"
    /\ Poll(a) \notin calls
    /\ calls' = calls \union {Poll(a)}
    /\ UNCHANGED <<job, agent, attempts, reports, done, hands, paper, lapses>>

ResolveResult(m) ==
    /\ agent[m.agent] = "active"
    /\ Post(m) \notin calls
    /\ calls' = calls \union {Post(m)}
    /\ UNCHANGED <<job, agent, attempts, reports, done, hands, paper, lapses>>

\* claimNext on candidate j: one statement, so no other claim sees j in between.
\* SKIP LOCKED may pass over the first candidate; any of them can be taken.
ClaimNext(a, j) ==
    /\ Poll(a) \in calls
    /\ Claimable(job[j])
    /\ agent[a] = "active" \/ job[j].attempt + 1 < MaxAttempts
    /\ job' = [job EXCEPT ![j] = Leased(@, a)]
    /\ attempts' = WithAttempt([job |-> j, attempt |-> job'[j].attempt,
                                agent |-> a, status |-> "claimed"])
    /\ hands' = hands \union {[agent |-> a, job |-> j, attempt |-> job'[j].attempt]}
    /\ calls' = calls \ {Poll(a)}
    /\ UNCHANGED <<agent, reports, done, paper, lapses>>

\* claimNext without a candidate returns null and the agent polls again.
ClaimNothing(a) ==
    /\ Poll(a) \in calls
    /\ ~ \E j \in Job : Claimable(job[j])
    /\ calls' = calls \ {Poll(a)}
    /\ UNCHANGED <<job, agent, attempts, reports, done, hands, paper, lapses>>

\* reportResult accepted: the row is settled, the attempt recorded and the
\* idempotency record completed in one transaction.
ReportAccepted(m) ==
    /\ Post(m) \in calls
    /\ m \notin done
    /\ ~ AlreadyPrinted(job[m.job], m)
    /\ Holds(job[m.job], m)
    /\ job' = [job EXCEPT ![m.job] = Settled(@, m)]
    /\ attempts' = WithAttempt([job |-> m.job, attempt |-> m.attempt,
                                agent |-> m.agent, status |-> m.status])
    /\ done' = done \union {m}
    /\ calls' = calls \ {Post(m)}
    /\ reports' \in {reports, reports \ {m}}
    /\ UNCHANGED <<agent, hands, paper, lapses>>

\* A repeated result: a replay of the stored answer, or the early return for a
\* ticket that this same attempt printed.  The row does not change.
ReportRepeated(m) ==
    /\ Post(m) \in calls
    /\ m \in done \/ AlreadyPrinted(job[m.job], m)
    /\ done' = done \union {m}
    /\ calls' = calls \ {Post(m)}
    /\ reports' = reports \ {m}
    /\ UNCHANGED <<job, agent, attempts, hands, paper, lapses>>

\* PrintJobNotFoundError: the lease went to another attempt; all rolled back.
ReportRejected(m) ==
    /\ Post(m) \in calls
    /\ m \notin done
    /\ ~ AlreadyPrinted(job[m.job], m)
    /\ ~ Holds(job[m.job], m)
    /\ calls' = calls \ {Post(m)}
    /\ reports' = reports \ {m}
    /\ UNCHANGED <<job, agent, attempts, done, hands, paper, lapses>>

-----------------------------------------------------------------------------
(* The agent's own program and the clock: external to the repository. *)

\* The ticket comes out on paper and the success is queued for delivery.
PrintOnPaper(c) ==
    /\ hands' = hands \ {c}
    /\ paper' = [paper EXCEPT ![c.job] = @ + 1]
    /\ reports' = reports \union {[agent |-> c.agent, job |-> c.job,
                                   attempt |-> c.attempt, status |-> "printed"]}
    /\ UNCHANGED <<job, agent, attempts, calls, done, lapses>>

\* The printer fails before anything is printed.
PrinterFails(c) ==
    /\ Spare(c.job)
    /\ hands' = hands \ {c}
    /\ reports' = reports \union {[agent |-> c.agent, job |-> c.job,
                                   attempt |-> c.attempt, status |-> "failed"]}
    /\ UNCHANGED <<job, agent, attempts, calls, done, paper, lapses>>

\* The agent restarts, or the answer to its claim never reached it.
ClaimLost(c) ==
    /\ Spare(c.job)
    /\ hands' = hands \ {c}
    /\ UNCHANGED <<job, agent, attempts, calls, reports, done, paper, lapses>>

\* The agent restarts with a result it had not delivered.
ReportLost(m) ==
    /\ Spare(m.job)
    /\ reports' = reports \ {m}
    /\ UNCHANGED <<job, agent, attempts, calls, done, hands, paper, lapses>>

\* lease_expires_at <= now()
LeaseExpires(j) ==
    /\ Spare(j)
    /\ job[j].lease = "live"
    /\ job' = [job EXCEPT ![j].lease = "expired"]
    /\ lapses' = [lapses EXCEPT ![j] = @ + 1]
    /\ UNCHANGED <<agent, attempts, calls, reports, done, hands, paper>>

\* next_attempt_at <= now(): retryDate always lies in the future, 15 s or more.
RetryDue(j) ==
    /\ job[j].next = "later"
    /\ job' = [job EXCEPT ![j].next = "due"]
    /\ UNCHANGED <<agent, attempts, calls, reports, done, hands, paper, lapses>>

-----------------------------------------------------------------------------

Deliver(m) == ReportAccepted(m) \/ ReportRepeated(m) \/ ReportRejected(m)

\* The results whose call is in flight, still queued at the agent or not.
Posted == {c.report : c \in {d \in calls : d.kind = "result"}}

Next ==
    \/ \E a \in Agent : Enroll(a) \/ Revoke(a) \/ ResolveClaim(a) \/ ClaimNothing(a)
    \/ \E j \in Job : Enqueue(j) \/ LeaseExpires(j) \/ RetryDue(j)
    \/ \E a \in Agent, j \in Job : ClaimNext(a, j)
    \/ \E m \in reports : ResolveResult(m) \/ ReportLost(m)
    \/ \E m \in Posted : Deliver(m)
    \/ \E c \in hands : PrintOnPaper(c) \/ PrinterFails(c) \/ ClaimLost(c)

Spec == Init /\ [][Next]_vars

(***************************************************************************)
(* Fairness: an agent keeps polling, prints what it holds and delivers its *)
(* results as long as the server lets it; some agent that is not revoked   *)
(* gets enrolled; leases run out and retries fall due because time passes. *)
(* A dead or silent agent is one of the faults: nothing is assumed of      *)
(* those, of staff, or of the order in which an agent gets things done.    *)
(***************************************************************************)
FairSpec ==
    /\ Spec
    /\ \A a \in Agent \ Revocable : WF_vars(Enroll(a))
    /\ \A a \in Agent :
         /\ WF_vars(ResolveClaim(a))
         /\ WF_vars(ClaimNothing(a) \/ \E j \in Job : ClaimNext(a, j))
         /\ WF_vars(\E c \in hands : c.agent = a /\ PrintOnPaper(c))
         /\ WF_vars(\E m \in reports : m.agent = a /\ ResolveResult(m))
         /\ WF_vars(\E m \in Posted : m.agent = a /\ Deliver(m))
    /\ \A j \in Job : WF_vars(LeaseExpires(j)) /\ WF_vars(RetryDue(j))

-----------------------------------------------------------------------------
(* Properties *)

\* Rows, attempts, reports in flight and paper keep their shapes.
TypeOK ==
    /\ job \in [Job -> JobRow]
    /\ agent \in [Agent -> {"none", "active", "revoked"}]
    /\ attempts \subseteq AttemptRow
    /\ \A c \in calls :
         \/ c.agent \in Agent /\ c = Poll(c.agent)
         \/ c.kind = "result" /\ c.report \in Report /\ c = Post(c.report)
    /\ reports \subseteq Report
    /\ done \subseteq Report
    /\ hands \subseteq Claim
    /\ paper \in [Job -> Nat]
    /\ lapses \in [Job -> Nat]

\* A late result never settles somebody else's attempt: the outcome of a settled
\* ticket was reported for its last attempt, by the agent that claimed it
\* (reportResult's comparison of claimed_by_agent_id and attempt_count).
SettledByItsClaimant ==
    \A j \in Job : job[j].status \in Outcome =>
        \E r \in attempts :
            /\ r.job = j /\ r.attempt = job[j].attempt /\ r.status = job[j].status
            /\ [r EXCEPT !.status = "claimed"] \in attempts

\* The kitchen sees a ticket twice only for a reason: each further copy needs a
\* lease that expired while its agent was still at work.
ReprintNeedsLapse == \A j \in Job : paper[j] <= 1 + lapses[j]

\* A ticket marked printed did come out of a printer, whatever reports were
\* lost, repeated or late.
PrintedHasPaper == \A j \in Job : job[j].status = "printed" => paper[j] > 0

\* Rows, attempts and paper agree: results settle their own attempt only, and
\* what is marked printed was printed.
TicketsAgree == TypeOK /\ SettledByItsClaimant /\ PrintedHasPaper

\* A printed ticket is never claimed, failed or counted again, by no late call.
PrintedIsFinal ==
    [][\A j \in Job : job[j].status = "printed" => job'[j] = job[j]]_vars

\* Every enqueued ticket is printed in the end, once and for all: a crashed,
\* revoked or silent agent costs a lease, never the ticket, and no late call
\* takes a printed ticket back.
EnqueuedIsPrinted ==
    /\ \A j \in Job : job[j].status # "none" ~> job[j].status = "printed"
    /\ PrintedIsFinal

=============================================================================

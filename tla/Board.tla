-------------------------------- MODULE Board --------------------------------
(***************************************************************************)
(* Who watches an order, and how the news travels: the staff's live board, *)
(* fed by a server-sent event stream that polls the order log and answered *)
(* by one fetch per event; the customer's status page, which polls; and    *)
(* the payment-success page, which polls on an interval without waiting.   *)
(* Orders change underneath, in transactions that number their event from  *)
(* the tenant's counter row before they commit.                            *)
(***************************************************************************)
EXTENDS Integers, Sequences, FiniteSets, FiniteSetsExt

CONSTANTS Orders,     \* the tenant's orders
          Tracked,    \* the one the customer follows
          Audiences,  \* screens that are open together: board, track, wait
          Fetches,    \* GETs the board may have under way
          Polls,      \* polls of the log one stream may have under way
          Limit,      \* rows a poll reads
          MaxFailures, MaxAttempts,  \* when the success page gives up
          MaxChanges, \* changes of the orders
          MaxFaults   \* lost answers and broken streams

ASSUME BoardAssumption ==
    /\ Tracked \in Orders
    /\ Limit \in Nat \ {0} /\ MaxFailures \in Nat /\ MaxAttempts \in Nat
    /\ MaxChanges \in Nat /\ MaxFaults \in Nat

VARIABLES order,    \* the orders' rows
          log,      \* order_events: the order each visible sequence is about
          counter,  \* tenant_counters: the last sequence handed out
          writers,  \* transactions holding a sequence, not yet committed
          stream,   \* the SSE response: its cursor, polls and open pipe
          board,    \* the staff's screen and its calls
          missed,   \* orders a failed or overtaken answer left wrong
          track,    \* the status page
          wait,     \* the success page
          open,     \* the screens that are open
          changes, faults

boardVars == <<order, log, counter, writers, stream, board, missed, track, wait,
               open, changes, faults>>

Stages == {"payment", "kitchen", "delivery", "delivered", "cancelled"}
Finished(stage) == stage \in {"delivered", "cancelled"}
None == [ver |-> 0, stage |-> "payment"]

----------------------------------------------------------------------------
(* The order log *)

\* What the services let an order become; nothing moves before it is paid.
Moves(stage) ==
    CASE stage = "payment"  -> {"kitchen", "cancelled"}
      [] stage = "kitchen"  -> {"delivery", "cancelled"}
      [] stage = "delivery" -> {"delivered", "cancelled"}
      [] OTHER -> {}

\* Slip: each transaction numbers its event without holding the counter.
SlipCounterFree == TRUE

\* nextCounter's upsert holds the tenant's counter row until the commit.
CounterFree == writers = {}

NextSequence == counter + 1

\* Order o's row is locked from here on too.
Begin(o, stage, who) ==
    /\ changes < MaxChanges
    /\ CounterFree
    /\ \A w \in writers : w.o # o
    /\ changes' = changes + 1
    /\ counter' = counter + 1
    /\ writers' = writers \cup {[o |-> o, stage |-> stage, seq |-> NextSequence, by |-> who]}

\* Somebody waits on the success page for the order o that a payment through
\* Mercado Pago is to make: it is there once it is paid.
AwaitedOnline(o) == o = Tracked /\ "wait" \in open /\ order[o].stage = "payment"

\* The counter, the webhook, another screen or the expiry job.
Change(o) ==
    /\ \E stage \in Moves(order[o].stage) :
         /\ AwaitedOnline(o) => stage = "kitchen"
         /\ Begin(o, stage, "other")
    /\ UNCHANGED <<order, log, stream, board, missed, track, wait, faults, open>>

After(w) == [ver |-> order[w.o].ver + 1, stage |-> w.stage]

Publish(w) ==
    /\ w \in writers
    /\ writers' = writers \ {w}
    /\ order' = [order EXCEPT ![w.o] = After(w)]
    /\ log' = [n \in DOMAIN log \cup {w.seq} |-> IF n = w.seq THEN w.o ELSE log[n]]

CommitChange(w) ==
    /\ w.by = "other"
    /\ Publish(w)
    /\ UNCHANGED <<counter, stream, board, missed, track, wait, changes, faults, open>>

----------------------------------------------------------------------------
(* The stream *)

NoPoll == [phase |-> "idle"]
Closed == [up |-> FALSE, over |-> FALSE, cursor |-> 0, polls |-> [p \in Polls |-> NoPoll],
           pipe |-> <<>>]

\* listEventsAfter
After100(cursor) ==
    LET later == {n \in DOMAIN log : n > cursor}
    IN  {n \in later : Cardinality({k \in later : k <= n}) <= Limit}

\* Slip: a stream that has delivered something is not opened again.
SlipReconnects == ~stream.over /\ board.last = 0

\* An EventSource comes back by itself, unless an answer was an error: then it is
\* closed for good.  onerror only shows "reconnecting".
Reconnects == ~stream.over

\* It connects, or connects again, with the last id it was given.  An id
\* past the head is answered with a reset, which the board does not listen to.
Connect ==
    /\ "board" \in open /\ ~stream.up /\ Reconnects
    /\ stream' = [Closed EXCEPT !.up = TRUE,
                     !.cursor = IF board.last > counter THEN counter ELSE board.last]
    /\ UNCHANGED <<order, log, counter, writers, board, missed, track, wait,
                   changes, faults, open>>

\* The session has ended, the role is gone, or the database or a proxy fails: the
\* request for the stream is answered with an error.
Refuse ==
    /\ "board" \in open /\ ~stream.up /\ Reconnects
    /\ stream' = [Closed EXCEPT !.over = TRUE]
    /\ UNCHANGED <<order, log, counter, writers, board, missed, track, wait,
                   changes, faults, open>>

\* setInterval does not wait for the last poll to end.
ReadLog(p) ==
    /\ stream.up /\ stream.polls[p] = NoPoll
    /\ After100(stream.cursor) # {}
    /\ stream' = [stream EXCEPT !.polls[p] =
                     [phase |-> "read", got |-> After100(stream.cursor)]]
    /\ UNCHANGED <<order, log, counter, writers, board, missed, track, wait,
                   changes, faults, open>>

\* for (const event of events) lastEventId = event.sequence
CursorAfter(got) == Max(got)

InOrder(got) ==
    [k \in 1..Cardinality(got) |->
        CHOOSE n \in got : Cardinality({m \in got : m <= n}) = k]

SendEvents(p) ==
    LET got == stream.polls[p].got
    IN  /\ stream.up /\ stream.polls[p] # NoPoll
        /\ stream' = [stream EXCEPT !.polls[p] = NoPoll,
                         !.cursor = CursorAfter(got),
                         !.pipe = @ \o InOrder(got)]
        /\ UNCHANGED <<order, log, counter, writers, board, missed, track, wait,
                       changes, faults, open>>

\* The connection drops, the process shuts down or a poll throws.
Break ==
    /\ stream.up /\ faults < MaxFaults
    /\ faults' = faults + 1
    /\ stream' = Closed
    /\ UNCHANGED <<order, log, counter, writers, board, missed, track, wait, changes, open>>

----------------------------------------------------------------------------
(* The board *)

NoFetch == [phase |-> "idle"]

\* Every event asks for its order again.
HandleOrderEvent(f) ==
    LET n == Head(stream.pipe)
    IN  /\ stream.pipe # <<>>
        /\ board.fetch[f] = NoFetch
        /\ stream' = [stream EXCEPT !.pipe = Tail(@)]
        /\ board' = [board EXCEPT !.last = n,
                        !.fetch[f] = [phase |-> "asked", o |-> log[n]]]
        /\ UNCHANGED <<order, log, counter, writers, missed, track, wait,
                       changes, faults, open>>

\* OrderQueryService.get
FetchRead(f) ==
    /\ board.fetch[f].phase = "asked"
    /\ board' = [board EXCEPT !.fetch[f] =
                    [phase |-> "read", o |-> @.o, row |-> order[@.o]]]
    /\ UNCHANGED <<order, log, counter, writers, stream, missed, track, wait,
                   changes, faults, open>>

\* The screen takes row for order o whatever version it had.
ShowRow(o, row) ==
    missed' = IF row.ver = order[o].ver THEN missed \ {o}
              ELSE IF row.ver < board.rows[o].ver THEN missed \cup {o}
              ELSE missed

FetchDone(f) ==
    LET c == board.fetch[f]
    IN  /\ c.phase = "read"
        /\ board' = [board EXCEPT !.fetch[f] = NoFetch, !.rows[c.o] = c.row]
        /\ ShowRow(c.o, c.row)
        /\ UNCHANGED <<order, log, counter, writers, stream, track, wait, changes, faults, open>>

FetchFails(f) ==
    LET c == board.fetch[f]
    IN  /\ c.phase \in {"asked", "read"} /\ faults < MaxFaults
        /\ faults' = faults + 1
        /\ board' = [board EXCEPT !.fetch[f] = NoFetch]
        /\ missed' = missed \cup {c.o}
        /\ UNCHANGED <<order, log, counter, writers, stream, track, wait, changes, open>>

\* nextOrderStatus, and the cash dialog for an order that waits for payment.
NextStage(stage) ==
    CASE stage = "payment" -> {"kitchen"}
      [] stage = "kitchen" -> {"delivery"}
      [] stage = "delivery" -> {"delivered"}
      [] OTHER -> {}

Press(o) ==
    /\ "board" \in open
    /\ board.act.phase = "idle" /\ board.rows[o].ver > 0
    /\ changes < MaxChanges
    /\ \E next \in NextStage(board.rows[o].stage) :
         board' = [board EXCEPT !.act =
                     [phase |-> "sent", o |-> o, base |-> board.rows[o], next |-> next]]
    /\ UNCHANGED <<order, log, counter, writers, stream, missed, track, wait,
                   changes, faults, open>>

\* Slip: the server looks at the stage it is asked to leave, not at the version.
SlipCurrent(act) == ~Finished(order[act.o].stage)

\* transition compares If-Match; collect-cash carries no version and looks only
\* at whether the order is still to be paid.
Current(act) ==
    IF act.base.stage = "payment" THEN order[act.o].stage = "payment"
    ELSE order[act.o].ver = act.base.ver

ServePress ==
    LET act == board.act
    IN  /\ act.phase = "sent"
        /\ IF Current(act)
           THEN /\ Begin(act.o, act.next, "board")
                /\ board' = [board EXCEPT !.act.phase = "writing"]
           ELSE /\ board' = [board EXCEPT !.act.phase = "conflict"]
                /\ UNCHANGED <<counter, writers, changes>>
        /\ UNCHANGED <<order, log, stream, missed, track, wait, faults, open>>

CommitPress(w) ==
    /\ w.by = "board"
    /\ Publish(w)
    /\ board' = [board EXCEPT !.act = [phase |-> "done", o |-> w.o, base |-> @.base,
                                       row |-> After(w)]]
    /\ UNCHANGED <<counter, stream, missed, track, wait, changes, faults, open>>

\* handleCollected marks the row it finds as paid and takes the version over.
Collected(o, row) ==
    [ver |-> row.ver,
     stage |-> IF board.rows[o].stage = "payment" THEN row.stage ELSE board.rows[o].stage]

PressDone ==
    LET act == board.act
        row == IF act.base.stage = "payment" THEN Collected(act.o, act.row) ELSE act.row
    IN  /\ act.phase = "done"
        /\ board' = [board EXCEPT !.act = [phase |-> "idle"], !.rows[act.o] = row]
        /\ ShowRow(act.o, row)
        /\ UNCHANGED <<order, log, counter, writers, stream, track, wait, changes, faults, open>>

\* A 409 of the transition reads the order again; the cash dialog only says so.
PressRefused ==
    LET act == board.act
    IN  /\ act.phase = "conflict"
        /\ IF act.base.stage = "payment"
           THEN /\ board' = [board EXCEPT !.act = [phase |-> "idle"]]
                /\ UNCHANGED missed
           ELSE /\ board' = [board EXCEPT !.act = [phase |-> "idle"],
                                          !.rows[act.o] = order[act.o]]
                /\ ShowRow(act.o, order[act.o])
        /\ UNCHANGED <<order, log, counter, writers, stream, track, wait, changes, faults, open>>

PressFails ==
    /\ board.act.phase \in {"sent", "done"} /\ faults < MaxFaults
    /\ faults' = faults + 1
    /\ board' = [board EXCEPT !.act = [phase |-> "idle"]]
    /\ UNCHANGED <<order, log, counter, writers, stream, missed, track, wait, changes, open>>

----------------------------------------------------------------------------
(* The customer's pages *)

\* Polling one at a time; a page served as HTML ends the polling for good.
TrackAsk ==
    /\ "track" \in open
    /\ track.phase = "due"
    /\ track' = [track EXCEPT !.phase = "asked"]
    /\ UNCHANGED <<order, log, counter, writers, stream, board, missed, wait,
                   changes, faults, open>>

TrackRead ==
    /\ track.phase = "asked"
    /\ track' = [track EXCEPT !.phase = "read", !.row = order[Tracked]]
    /\ UNCHANGED <<order, log, counter, writers, stream, board, missed, wait,
                   changes, faults, open>>

TrackShow ==
    /\ track.phase = "read"
    /\ track' = [track EXCEPT !.shown = track.row.stage,
                    !.phase = IF Finished(track.row.stage) THEN "stopped" ELSE "due"]
    /\ UNCHANGED <<order, log, counter, writers, stream, board, missed, wait,
                   changes, faults, open>>

\* Slip: a failed poll is not followed by another.
SlipAfterFailure == "stopped"

AfterFailure == "due"

TrackFails(html) ==
    /\ track.phase \in {"asked", "read"} /\ faults < MaxFaults
    /\ faults' = faults + 1
    /\ track' = [track EXCEPT !.phase = IF html THEN "html" ELSE AfterFailure]
    /\ UNCHANGED <<order, log, counter, writers, stream, board, missed, wait, changes, open>>

\* cancellingRef lets one request out at a time; success leaves the page.
TrackCancel ==
    /\ "track" \in open
    /\ track.cancel = "idle" /\ track.shown = "payment"
    /\ track.phase # "left"
    /\ track' = [track EXCEPT !.cancel = "sent"]
    /\ UNCHANGED <<order, log, counter, writers, stream, board, missed, wait,
                   changes, faults, open>>

ServeCancel ==
    /\ track.cancel = "sent"
    /\ IF order[Tracked].stage = "payment"
       THEN /\ Begin(Tracked, "cancelled", "customer")
            /\ track' = [track EXCEPT !.cancel = "writing"]
       ELSE /\ track' = [track EXCEPT !.cancel = "refused"]
            /\ UNCHANGED <<counter, writers, changes>>
    /\ UNCHANGED <<order, log, stream, board, missed, wait, faults, open>>

CommitCancel(w) ==
    /\ w.by = "customer"
    /\ Publish(w)
    /\ track' = [track EXCEPT !.phase = "left", !.cancel = "done", !.shown = "cancelled"]
    /\ UNCHANGED <<counter, stream, board, missed, wait, changes, faults, open>>

\* setInterval(poll, 3000): two answers may cross.
WaitAsk(p) ==
    /\ "wait" \in open
    /\ wait.running /\ wait.polls[p] = NoPoll
    /\ wait' = [wait EXCEPT !.polls[p] = [phase |-> "asked"],
                   !.attempts = IF @ < MaxAttempts THEN @ + 1 ELSE @]
    /\ UNCHANGED <<order, log, counter, writers, stream, board, missed, track,
                   changes, faults, open>>

\* A writer that read the attempt before its approval overwrites it.
LoseApproval ==
    /\ "wait" \in open
    /\ wait.approved /\ order[Tracked].stage # "payment"
    /\ faults < MaxFaults
    /\ faults' = faults + 1
    /\ wait' = [wait EXCEPT !.approved = FALSE]
    /\ UNCHANGED <<order, log, counter, writers, stream, board, missed, track, changes, open>>

\* Pending, whatever the order is, unless the attempt is approved.
WaitRead(p) ==
    /\ wait.polls[p].phase = "asked"
    /\ wait' = [wait EXCEPT !.polls[p] =
                   [phase |-> "read",
                    stage |-> IF wait.approved THEN order[Tracked].stage ELSE "payment"]]
    /\ UNCHANGED <<order, log, counter, writers, stream, board, missed, track,
                   changes, faults, open>>

\* The page keeps waiting after a pending answer.
\* An answer that lands after the page gave up is shown; polling stays off.
WaitShow(p) ==
    LET stage == wait.polls[p].stage
        tired == stage = "payment" /\ wait.attempts = MaxAttempts
    IN  /\ wait.polls[p].phase = "read"
        /\ wait' = [wait EXCEPT
               !.polls[p] = NoPoll, !.failures = 0,
               !.shown = IF stage = "payment" THEN @ ELSE stage,
               !.running = @ /\ ~Finished(stage) /\ ~tired,
               !.gaveUp = @ \/ tired,
               !.crossed = @ \/ (Finished(wait.shown) /\ stage # wait.shown)]
        /\ UNCHANGED <<order, log, counter, writers, stream, board, missed, track,
                       changes, faults, open>>

WaitFails(p) ==
    LET tired == wait.failures + 1 >= MaxFailures \/ wait.attempts = MaxAttempts
    IN  /\ wait.polls[p] # NoPoll
        /\ wait' = [wait EXCEPT !.polls[p] = NoPoll,
                       !.failures = IF @ < MaxFailures THEN @ + 1 ELSE @,
                       !.running = @ /\ ~tired, !.gaveUp = @ \/ tired]
        /\ UNCHANGED <<order, log, counter, writers, stream, board, missed, track,
                       changes, faults, open>>

----------------------------------------------------------------------------
\* The pages are rendered with the orders as they are; the stream starts from the
\* beginning of the log, so nothing falls between the page and the stream.
BoardInit ==
    /\ order \in {[o \in Orders |-> [ver |-> 1, stage |-> IF o = Tracked THEN stage
                                                        ELSE "delivery"]] :
                     stage \in {"payment", "delivery"}}
    /\ log = <<>> /\ counter = 0 /\ writers = {}
    /\ stream = Closed
    /\ board = [rows |-> order, last |-> 0, fetch |-> [f \in Fetches |-> NoFetch],
                act |-> [phase |-> "idle"]]
    /\ missed = {}
    /\ track = [phase |-> "due", row |-> None, shown |-> order[Tracked].stage,
                cancel |-> "idle"]
    /\ wait = [running |-> TRUE, polls |-> [p \in Polls |-> NoPoll], failures |-> 0, attempts |-> 0,
               shown |-> "payment", approved |-> TRUE, gaveUp |-> FALSE, crossed |-> FALSE]
    /\ open \in Audiences
    /\ changes = 0 /\ faults = 0

StreamSteps ==
    \/ Connect \/ (\E p \in Polls : ReadLog(p)) \/ (\E p \in Polls : SendEvents(p))

BoardSteps ==
    \/ (\E f \in Fetches : HandleOrderEvent(f))
    \/ (\E f \in Fetches : FetchRead(f)) \/ (\E f \in Fetches : FetchDone(f))
    \/ ServePress \/ (\E w \in writers : CommitPress(w)) \/ PressDone \/ PressRefused

PageSteps ==
    \/ TrackAsk \/ TrackRead \/ TrackShow
    \/ ServeCancel \/ (\E w \in writers : CommitCancel(w))
    \/ (\E p \in Polls : WaitAsk(p)) \/ (\E p \in Polls : WaitRead(p))
    \/ (\E p \in Polls : WaitShow(p))

Faults ==
    \/ Break \/ Refuse \/ PressFails \/ LoseApproval \/ TrackFails(TRUE) \/ TrackFails(FALSE)
    \/ (\E f \in Fetches : FetchFails(f)) \/ (\E p \in Polls : WaitFails(p))

BoardNext ==
    \/ (\E o \in Orders : Change(o)) \/ (\E w \in writers : CommitChange(w))
    \/ (\E o \in Orders : Press(o)) \/ TrackCancel
    \/ StreamSteps \/ BoardSteps \/ PageSteps \/ Faults

\* Timers and answered calls go on: each of the pages' own steps is fair.
Fairness ==
    /\ WF_boardVars(Connect)
    /\ \A p \in Polls : WF_boardVars(ReadLog(p)) /\ WF_boardVars(SendEvents(p))
    /\ WF_boardVars(\E w \in writers : CommitChange(w) \/ CommitPress(w) \/ CommitCancel(w))
    /\ \A f \in Fetches : /\ WF_boardVars(HandleOrderEvent(f))
                          /\ WF_boardVars(FetchRead(f)) /\ WF_boardVars(FetchDone(f))
    /\ WF_boardVars(TrackAsk) /\ WF_boardVars(TrackRead) /\ WF_boardVars(TrackShow)
    /\ \A p \in Polls : WF_boardVars(WaitAsk(p)) /\ WF_boardVars(WaitRead(p)) /\ WF_boardVars(WaitShow(p))

BoardSpec == BoardInit /\ [][BoardNext]_boardVars /\ Fairness

----------------------------------------------------------------------------
OrderRow == [ver : Nat, stage : Stages]

\* Rows, log, stream and pages keep their shapes; the log has no number twice
\* and none the counter has not handed out.
BoardTypeOK ==
    /\ order \in [Orders -> OrderRow]
    /\ DOMAIN log \subseteq 1..counter
    /\ \A w \in writers : w.o \in Orders /\ w.stage \in Stages /\ w.seq \in 1..counter
    /\ board.rows \in [Orders -> OrderRow] /\ board.last \in 0..counter
    /\ stream.cursor \in 0..counter
    /\ missed \subseteq Orders
    /\ track.phase \in {"due", "asked", "read", "stopped", "html", "left"}
    /\ track.shown \in Stages /\ wait.shown \in Stages

Fetching(o) == \E f \in Fetches : board.fetch[f] # NoFetch /\ board.fetch[f].o = o

\* News of order o that has not reached the board's GET yet.
OnItsWay(o) == \E n \in DOMAIN log : n > board.last /\ log[n] = o

\* The board is behind an order only while an event about it has not been handed
\* to it, so that the next connection would ask for it, or its GET is under way; of
\* what it was told nothing is lost but a GET that failed or was overtaken by an
\* older answer (the board's handler, the route's cursor, the counter row that
\* numbers events in commit order).
BoardLagsForAReason ==
    \A o \in Orders :
       "board" \in open /\ board.rows[o].ver # order[o].ver =>
           OnItsWay(o) \/ Fetching(o) \/ o \in missed

\* Staff move an order on only from the stage they were looking at: a button that
\* takes effect was pressed on the order as it is (If-Match of
\* AdminOrdersLive, the paid check of collect-cash).
NoBlindAdvance ==
    [][\A o \in Orders :
          (\E w \in writers : w.o = o /\ w.by = "board") /\ order'[o] # order[o]
             => board.act.base.stage = order[o].stage]_boardVars

\* A board that is behind catches up, through dropped connections and polls that
\* overlap, unless one of its GETs failed or was overtaken, or a request for the
\* stream was answered with an error: then it goes on showing "reconnecting" until
\* the page is loaded again.
BoardCatchesUp ==
    \A o \in Orders :
        ("board" \in open /\ board.rows[o].ver < order[o].ver)
           ~> (board.rows[o].ver = order[o].ver \/ o \in missed \/ stream.over)

\* A customer whose order is finished is told so: by the status page, unless a poll
\* was answered with an HTML page, and by the success page, unless it gave
\* up after failures or attempts or an older answer landed last.
CustomerIsTold ==
    Finished(order[Tracked].stage)
       ~> /\ "track" \in open => Finished(track.shown) \/ track.phase \in {"html", "left"}
          /\ "wait" \in open =>
             \/ wait.shown = order[Tracked].stage \/ wait.gaveUp \/ wait.crossed

\* The log, the cursors and the screens are sound, and the board is behind only
\* for a reason.
BoardAgrees == BoardTypeOK /\ BoardLagsForAReason
==============================================================================

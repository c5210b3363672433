------------------------------ MODULE WebhookDelivery ------------------------------
(***************************************************************************)
(* WebhooksService: a delivery row per dispatched event, a first attempt   *)
(* nobody waits for, and the scheduler's retries of the FAILED rows that   *)
(* are due, under a lock whose TTL (25 s) ends before a tick need end: a   *)
(* tick may send 50 requests of up to 10 s one after the other.            *)
(*                                                                         *)
(* Abstractions: nextRetryAt is null ("never"), passed ("due") or not      *)
(* passed yet ("later"); a merchant either accepts a request, refuses it   *)
(* or is not heard in time; payload, signature and HTTP status are left    *)
(* out.                                                                    *)
(***************************************************************************)
EXTENDS Naturals, FiniteSets

CONSTANTS
  Delivery,    \* rows of WebhookDelivery, one per event and webhook
  Worker,      \* retry ticks that may overlap
  RetryTake,   \* 50 in the code: rows a tick reads
  MaxAttempts, \* 5 in the code
  MaxUpsets    \* bound: restarts and failed queries together

ASSUME DeliveryAssumption ==
  /\ Delivery \cap Worker = {}
  /\ IsFiniteSet(Worker) /\ Worker # {}
  /\ RetryTake \in Nat \ {0} /\ MaxAttempts \in Nat \ {0} /\ MaxUpsets \in Nat

VARIABLES
  delivery,   \* delivery rows: status, attempts, retryAt
  flying,     \* attempts in progress: for which row, by a worker or by the dispatch
              \* itself (by = the row), and how far
  queue,      \* per worker: the rows it read and has still to attempt
  retryLock,  \* "scheduler:webhooks" is held
  posts,      \* requests the merchant has received for each row
  upsets      \* restarts and failed queries so far

deliveryVars == <<delivery, flying, queue, retryLock, posts, upsets>>

Stage == {"checking", "posting", "ok", "refused", "threw"}
Attempt == [for : Delivery, by : Delivery \cup Worker, at : Stage]

DeliveryInit ==
  /\ delivery = [d \in Delivery |-> [status |-> "ABSENT", attempts |-> 0, retryAt |-> "later"]]
  /\ flying = {}
  /\ queue = [w \in Worker |-> {}]
  /\ retryLock = FALSE
  /\ posts = [d \in Delivery |-> 0]
  /\ upsets = 0

Exists(d) == delivery[d].status \in {"PENDING", "DELIVERED", "FAILED"}
Upset == upsets < MaxUpsets /\ upsets' = upsets + 1

\* attemptDelivery reads the row and its webhook, and gives up when they are gone.
Begin(d, by) ==
  flying' = flying \cup (IF Exists(d) THEN {[for |-> d, by |-> by, at |-> "checking"]} ELSE {})

Moves(f, stage) == flying' = (flying \ {f}) \cup {[f EXCEPT !.at = stage]}

-----------------------------------------------------------------------------
\* dispatch inserts the row and starts the first attempt without awaiting it.
Dispatch(d) ==
  /\ delivery[d].status = "ABSENT"
  /\ delivery' = [delivery EXCEPT ![d].status = "PENDING"]
  /\ flying' = flying \cup {[for |-> d, by |-> d, at |-> "checking"]}
  /\ UNCHANGED <<queue, retryLock, posts, upsets>>

\* remove deletes the webhook, and the rows of its deliveries with it.
RemoveWebhook ==
  /\ delivery' = [d \in Delivery |->
       IF Exists(d) THEN [delivery[d] EXCEPT !.status = "REMOVED"] ELSE delivery[d]]
  /\ UNCHANGED <<flying, queue, retryLock, posts, upsets>>

\* One query: status, attempts + 1 and, where given, a new nextRetryAt.
\* (Mutant: the attempt is not counted.)
Uncounted(d, status, retryAt) ==
  [delivery EXCEPT ![d] = [status |-> status, attempts |-> @.attempts, retryAt |-> retryAt]]
Attempted(d, status, retryAt) ==
  [delivery EXCEPT ![d] = [status |-> status, attempts |-> @.attempts + 1, retryAt |-> retryAt]]

Writes(f, status, retryAt) ==
  /\ delivery' = IF Exists(f.for) THEN Attempted(f.for, status, retryAt) ELSE delivery
  /\ flying' = flying \ {f}

\* The SSRF guard: a private address, or no answer from the DNS.
Blocked(f) ==
  /\ f.at = "checking"
  /\ Writes(f, "FAILED", "never")
  /\ UNCHANGED <<queue, retryLock, posts, upsets>>

Passes(f) ==
  /\ f.at = "checking"
  /\ Moves(f, "posting")
  /\ UNCHANGED <<delivery, queue, retryLock, posts, upsets>>

\* fetch: answered, or timed out with or without the merchant having it.
Post(f) ==
  /\ f.at = "posting"
  /\ \E received \in BOOLEAN, stage \in {"ok", "refused", "threw"} :
       /\ stage \in {"ok", "refused"} => received
       /\ Moves(f, stage)
       /\ posts' = IF received THEN [posts EXCEPT ![f.for] = @ + 1] ELSE posts
  /\ UNCHANGED <<delivery, queue, retryLock, upsets>>

\* An answer leaves nextRetryAt as it was, so a refused row stays due.
Answered(f) ==
  /\ f.at \in {"ok", "refused"}
  /\ Writes(f, IF f.at = "ok" THEN "DELIVERED" ELSE "FAILED", delivery[f.for].retryAt)
  /\ UNCHANGED <<queue, retryLock, posts, upsets>>

\* The network failed: again in 30 s.
GaveUp(f) ==
  /\ f.at = "threw"
  /\ Writes(f, "FAILED", "later")
  /\ UNCHANGED <<queue, retryLock, posts, upsets>>

\* The query that records an answer fails inside the try: its catch writes FAILED.
AnswerNotWritten(f) ==
  /\ f.at \in {"ok", "refused"} /\ Upset
  /\ Moves(f, "threw")
  /\ UNCHANGED <<delivery, queue, retryLock, posts>>

\* The query of a catch fails: the attempt ends without a trace.
AttemptLost(f) ==
  /\ f.at \in {"checking", "threw"} /\ Upset
  /\ flying' = flying \ {f}
  /\ UNCHANGED <<delivery, queue, retryLock, posts>>

-----------------------------------------------------------------------------
(* SchedulerService.retryWebhooks and retryDueDeliveries.                   *)

\* The query's where clause: due by time and within its budget.
\* (Mutant: PENDING instead of FAILED rows.)
Within(d) == delivery[d].retryAt = "due" /\ delivery[d].attempts < MaxAttempts
DuePending == {d \in Delivery : delivery[d].status = "PENDING" /\ Within(d)}
DueDeliveries == {d \in Delivery : delivery[d].status = "FAILED" /\ Within(d)}

Busy(w) == queue[w] # {} \/ \E f \in flying : f.by = w

\* Any Take of the due rows: the query has no orderBy.
TickStarts(w) ==
  /\ ~retryLock /\ ~Busy(w)
  /\ retryLock' = TRUE
  /\ \E S \in SUBSET DueDeliveries :
       /\ \/ Cardinality(S) = RetryTake
          \/ S = DueDeliveries /\ Cardinality(S) < RetryTake
       /\ queue' = [queue EXCEPT ![w] = S]
  /\ UNCHANGED <<delivery, flying, posts, upsets>>

\* The loop awaits each attempt, then takes the next of the rows it read, in no
\* order that the query would give.
TickNext(w) ==
  /\ \A f \in flying : f.by # w
  /\ \E d \in queue[w] :
       /\ Begin(d, w)
       /\ queue' = [queue EXCEPT ![w] = @ \ {d}]
  /\ UNCHANGED <<delivery, retryLock, posts, upsets>>

RetryLockLapses == retryLock /\ retryLock' = FALSE /\ UNCHANGED <<delivery, flying, queue, posts, upsets>>

TimePasses(d) ==
  /\ Exists(d) /\ delivery[d].retryAt = "later"
  /\ delivery' = [delivery EXCEPT ![d].retryAt = "due"]
  /\ UNCHANGED <<flying, queue, retryLock, posts, upsets>>

\* The process restarts: what it was doing is forgotten, the lock stays.
Restart ==
  /\ Upset
  /\ flying' = {} /\ queue' = [w \in Worker |-> {}]
  /\ UNCHANGED <<delivery, retryLock, posts>>

Progress(f) == Blocked(f) \/ Passes(f) \/ Post(f) \/ Answered(f) \/ GaveUp(f)

DeliveryNext ==
  \/ \E d \in Delivery : Dispatch(d) \/ TimePasses(d)
  \/ \E f \in flying : Progress(f) \/ AnswerNotWritten(f) \/ AttemptLost(f)
  \/ \E w \in Worker : TickStarts(w) \/ TickNext(w)
  \/ RemoveWebhook \/ RetryLockLapses \/ Restart

\* Every await returns or times out, timers fire, the lock's TTL and the clock run.
RetryFairness ==
  /\ \A d \in Delivery, by \in Delivery \cup Worker :
       WF_deliveryVars(\E f \in flying : f.for = d /\ f.by = by /\ Progress(f))
  /\ \A d \in Delivery : WF_deliveryVars(TimePasses(d))
  /\ \A w \in Worker : WF_deliveryVars(TickStarts(w)) /\ WF_deliveryVars(TickNext(w))
  /\ WF_deliveryVars(RetryLockLapses)

DeliverySpec == DeliveryInit /\ [][DeliveryNext]_deliveryVars /\ RetryFairness

-----------------------------------------------------------------------------
(* Rows, attempts in progress, what the ticks read, and what merchants received. *)
DeliveryTypeOK ==
  /\ delivery \in [Delivery -> [status : {"ABSENT", "PENDING", "DELIVERED", "FAILED", "REMOVED"},
                               attempts : Nat, retryAt : {"never", "due", "later"}]]
  /\ flying \subseteq Attempt
  /\ queue \in [Worker -> SUBSET Delivery]
  /\ retryLock \in BOOLEAN
  /\ posts \in [Delivery -> Nat]
  /\ upsets \in Nat

(* However ticks overlap, the retry budget bounds what a merchant receives:
   a row is attempted MaxAttempts times, once more for each tick that read it
   before a faster one used the budget up, and again for the attempts an upset
   left uncounted, one for each tick.                                        *)
ResendsBounded ==
  \A d \in Delivery :
    /\ delivery[d].attempts <= MaxAttempts + Cardinality(Worker) - 1
    /\ posts[d] <= MaxAttempts + Cardinality(Worker) - 1 + upsets * Cardinality(Worker)

\* Nobody will look at the row again: a restart or a failed query took its first attempt.
Forgotten(d) == delivery[d].status = "PENDING" /\ \A f \in flying : f.by # d

(* A dispatched event is delivered, or its row is blocked, out of attempts,
   deleted, or was forgotten by an upset before its first attempt was recorded.
   ("failed deliveries are retried by the scheduler", webhooks.service.ts:66) *)
EveryDeliveryEnds ==
  \A d \in Delivery :
    delivery[d].status = "PENDING" ~>
      \/ delivery[d].status \in {"DELIVERED", "REMOVED"} \/ delivery[d].attempts >= MaxAttempts
      \/ delivery[d].retryAt = "never" \/ (Forgotten(d) /\ upsets > 0)
=================================================================================

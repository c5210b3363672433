--------------------------- MODULE SubscriptionLifecycle ---------------------------
(***************************************************************************)
(* Plans and subscriptions: the contract that takes the payments           *)
(* (contracts/subscriptions/src/lib.rs), the API rows of                   *)
(* SubscriptionsService and the events that bring them up to date.         *)
(*                                                                         *)
(* Abstractions: one token and amount per plan; a transfer that fails      *)
(* reverts the whole renew (renew's error arm pauses the subscription and  *)
(* then returns Err, so the host undoes the pause), which is TxReverts;    *)
(* every plan has the interval Interval; callers are the subscriber or the *)
(* plan's merchant.                                                        *)
(***************************************************************************)
EXTENDS ContractCalls

CONSTANTS
  Plan,       \* rows of SubscriptionPlan
  Sub,        \* rows of Subscription
  PlanOf,     \* the plan of each row
  Owner,      \* the subscriber of each row
  Subscriber,
  Interval,   \* interval_seconds
  MaxTime,    \* bound: latest ledger time
  MaxId,      \* bound: largest contract id
  None

Id == 1..MaxId

Envelopes == [row : Plan, call : {"create_plan"}, n : {1}]
               \cup [row : Sub, call : {"subscribe", "renew", "cancel"}, n : {1, 2}]

ASSUME SubscriptionAssumption ==
  /\ Tx \subseteq Envelopes
  /\ PlanOf \in [Sub -> Plan] /\ Owner \in [Sub -> Subscriber]
  /\ Interval \in Nat /\ MaxTime \in Nat /\ MaxId \in Nat /\ None \notin Id \cup Nat

VARIABLES
  now,     \* ledger time, and the API's clock
  plans,   \* contract storage: NextPlan - 1, the plans 1..plans exist
  subs,    \* contract storage: Subscription(id), in the order of their ids; from
           \* and payments, when it began and what was charged, are only recorded
  slots,   \* contract storage: the ActiveSub(plan, subscriber) keys
  plan,    \* SubscriptionPlan rows: ABSENT, PENDING, ACTIVE or FAILED
  sub      \* Subscription rows: ABSENT, PENDING, ACTIVE, FAILED or CANCELED

contractVars == <<now, plans, subs, slots>>
rowVars == <<plan, sub>>
vars == <<contractVars, rowVars, callVars>>

Init ==
  /\ CallsInit
  /\ now = 0 /\ plans = 0 /\ subs = <<>> /\ slots = {}
  /\ plan = [p \in Plan |-> [status |-> "ABSENT", hash |-> NoTx, id |-> None]]
  /\ sub = [r \in Sub |-> [status |-> "ABSENT", id |-> None, hash |-> NoTx, renewHash |-> NoTx,
                           cancelHash |-> NoTx, next |-> None]]

-----------------------------------------------------------------------------
(* The subscriptions contract.                                              *)

Emit(topic, id, x) == events' = Append(events, [topic |-> topic, id |-> id, tx |-> x])

CreatePlan(x) ==
  /\ plans < MaxId
  /\ plans' = plans + 1
  /\ Emit("plan", plans + 1, x)
  /\ UNCHANGED <<now, subs, slots>>

Subscribe(p, who, x) ==
  /\ p \in 1..plans /\ <<p, who>> \notin slots /\ Len(subs) < MaxId
  /\ subs' = Append(subs, [who |-> who, plan |-> p, due |-> now + Interval, active |-> TRUE,
                           from |-> now, payments |-> 1])
  /\ slots' = slots \cup {<<p, who>>}
  /\ Emit("sub", Len(subs) + 1, x)
  /\ UNCHANGED <<now, plans>>

Renewable(s) == s \in DOMAIN subs /\ subs[s].active /\ now >= subs[s].due

Renew(s, x) ==
  /\ Renewable(s)
  /\ subs' = [subs EXCEPT ![s].due = now + Interval, ![s].payments = @ + 1]
  /\ Emit("renew", s, x)
  /\ UNCHANGED <<now, plans, slots>>

\* Cancelling frees the slot to subscribe again.  (Mutant: it stays taken.)
StaysTaken(s) == slots
Freed(s) == slots \ {<<subs[s].plan, subs[s].who>>}

CancelSub(s, x) ==
  /\ s \in DOMAIN subs /\ subs[s].active
  /\ subs' = [subs EXCEPT ![s].active = FALSE]
  /\ slots' = Freed(s)
  /\ Emit("cancel", s, x)
  /\ UNCHANGED <<now, plans>>

TxApplies(x) ==
  /\ Applies(x)
  /\ \/ x.call = "create_plan" /\ CreatePlan(x)
     \/ x.call = "subscribe" /\ Subscribe(plan[PlanOf[x.row]].id, Owner[x.row], x)
     \/ x.call = "renew" /\ Renew(sub[x.row].id, x)
     \/ x.call = "cancel" /\ CancelSub(sub[x.row].id, x)
  /\ UNCHANGED rowVars

TxReverts(x) == Reverts(x) /\ UNCHANGED <<contractVars, rowVars>>

\* Subscriber and merchant call the contract without the API.
DirectCall ==
  /\ CalledDirectly
  /\ \/ CreatePlan(Foreign)
     \/ \E p \in Id, who \in Subscriber : Subscribe(p, who, Foreign)
     \/ \E s \in DOMAIN subs : Renew(s, Foreign) \/ CancelSub(s, Foreign)
  /\ UNCHANGED rowVars

Tick == now < MaxTime /\ now' = now + 1 /\ UNCHANGED <<plans, subs, slots, rowVars, callVars>>

-----------------------------------------------------------------------------
(* SubscriptionsService.                                                    *)

\* createPlan simulates create_plan and inserts the row.
PreparePlan(x) ==
  /\ x.call = "create_plan" /\ plan[x.row].status = "ABSENT"
  /\ Prepare(x)
  /\ plan' = [plan EXCEPT ![x.row].status = "PENDING"]
  /\ UNCHANGED <<contractVars, sub>>

PrepareSub(x) ==
  LET p == plan[PlanOf[x.row]]
  IN  /\ x.call = "subscribe" /\ sub[x.row].status = "ABSENT"
      /\ p.status = "ACTIVE" /\ <<p.id, Owner[x.row]>> \notin slots
      /\ Prepare(x)
      /\ sub' = [sub EXCEPT ![x.row].status = "PENDING"]
      /\ UNCHANGED <<contractVars, plan>>

\* renew and cancel write nothing; the simulation asks what the contract will.
PrepareAction(x) ==
  LET r == sub[x.row]
  IN  /\ r.id # None
      /\ \/ x.call = "renew" /\ r.status = "ACTIVE" /\ Renewable(r.id)
         \/ x.call = "cancel" /\ subs[r.id].active
      /\ Prepare(x)
      /\ UNCHANGED <<contractVars, rowVars>>

\* The guards of submitPlan (whose claim rewrites PENDING by PENDING),
\* submitSubscription and confirmAction: reads, never claims.
Submit(h, x) ==
  /\ CASE x.call = "create_plan" -> plan[x.row].status = "PENDING"
       [] x.call = "subscribe"   -> sub[x.row].status = "PENDING"
       [] x.call = "renew"       -> sub[x.row].renewHash = NoTx
       [] x.call = "cancel"      -> sub[x.row].cancelHash = NoTx
  /\ Start(h, x)
  /\ UNCHANGED <<contractVars, rowVars>>

Calls(h) == CallNetwork(h) /\ UNCHANGED <<contractVars, rowVars>>

\* The hash columns are never cleared: one renewal per row goes through the API.
SubmitAccepted(h) ==
  LET x == req[h].tx
  IN  /\ Accepted(h)
      /\ IF x.call = "create_plan" THEN plan' = [plan EXCEPT ![x.row].hash = x] /\ UNCHANGED sub
         ELSE /\ sub' = CASE x.call = "subscribe" -> [sub EXCEPT ![x.row].hash = x]
                          [] x.call = "renew"     -> [sub EXCEPT ![x.row].renewHash = x]
                          [] x.call = "cancel"    -> [sub EXCEPT ![x.row].cancelHash = x]
              /\ UNCHANGED plan
      /\ UNCHANGED contractVars

\* FAILED is written by id, whatever the row says; an action writes nothing.
SubmitRefused(h) ==
  LET x == req[h].tx
  IN  /\ Refused(h)
      /\ plan' = IF x.call = "create_plan"
                 THEN [plan EXCEPT ![x.row].status = "FAILED", ![x.row].hash = x] ELSE plan
      /\ sub' = IF x.call = "subscribe"
                THEN [sub EXCEPT ![x.row].status = "FAILED", ![x.row].hash = x] ELSE sub
      /\ UNCHANGED contractVars

SubmitThrew(h)  == Threw(h) /\ UNCHANGED <<contractVars, rowVars>>
HandlerDies(h)  == Dies(h) /\ UNCHANGED <<contractVars, rowVars>>

-----------------------------------------------------------------------------
(* ContractReconciliationService.                                           *)

Created(r, e) == sub[r].hash = e.tx /\ sub[r].status = "PENDING"

\* (Mutant: only the renewals the API sent.)
RenewedHere(r, e) == sub[r].id = e.id /\ sub[r].status = "ACTIVE" /\ sub[r].renewHash = e.tx
Renewed(r, e) == sub[r].id = e.id /\ sub[r].status = "ACTIVE"

Cancelled(r, e) == sub[r].id = e.id /\ sub[r].status \in {"PENDING", "ACTIVE"}

\* The due date is counted from now, when the event is handled.
Reconcile(k) ==
  LET e == events[k]
  IN  /\ Delivered(k)
      /\ plan' = [p \in Plan |->
           IF e.topic = "plan" /\ plan[p].hash = e.tx /\ plan[p].status = "PENDING"
           THEN [plan[p] EXCEPT !.status = "ACTIVE", !.id = e.id] ELSE plan[p]]
      /\ sub' = [r \in Sub |->
           CASE e.topic = "sub" /\ Created(r, e) ->
                  [sub[r] EXCEPT !.status = "ACTIVE", !.id = e.id, !.next = now + Interval]
             [] e.topic = "renew" /\ Renewed(r, e) -> [sub[r] EXCEPT !.next = now + Interval]
             [] e.topic = "cancel" /\ Cancelled(r, e) -> [sub[r] EXCEPT !.status = "CANCELED"]
             [] OTHER -> sub[r]]
      /\ UNCHANGED contractVars

\* onSubscriptionCreated writes twice; the second query may fail.
CreatedInPart(k) ==
  /\ Dropped(k) /\ events[k].topic = "sub"
  /\ sub' = [r \in Sub |-> IF Created(r, events[k])
                           THEN [sub[r] EXCEPT !.status = "ACTIVE", !.id = events[k].id] ELSE sub[r]]
  /\ UNCHANGED <<contractVars, plan>>

EventDropped(k) == Dropped(k) /\ UNCHANGED <<contractVars, rowVars>>

Next ==
  \/ DirectCall \/ Tick
  \/ \E x \in Tx : \/ TxApplies(x) \/ TxReverts(x)
                   \/ PreparePlan(x) \/ PrepareSub(x) \/ (x.call \in {"renew", "cancel"} /\ PrepareAction(x))
  \/ \E h \in Handler : \/ \E x \in Tx : Submit(h, x)
                        \/ Calls(h) \/ SubmitAccepted(h) \/ SubmitRefused(h) \/ SubmitThrew(h) \/ HandlerDies(h)
  \/ \E k \in DOMAIN events : Reconcile(k) \/ CreatedInPart(k) \/ EventDropped(k)

Spec == Init /\ [][Next]_vars

-----------------------------------------------------------------------------
(* The (plan, subscriber) key is "present only while that subscription is
   active" (lib.rs:45-47), so a subscriber is on a plan once at most, and no
   subscription is charged more often than its interval allows, in whatever
   order subscriber, merchant and API call.                                  *)
TermsKept ==
  LET active == {s \in DOMAIN subs : subs[s].active}
  IN  /\ slots = {<<subs[s].plan, subs[s].who>> : s \in active}
      /\ \A s, t \in active : subs[s].plan = subs[t].plan /\ subs[s].who = subs[t].who => s = t
      /\ \A s \in DOMAIN subs : (subs[s].payments - 1) * Interval <= now - subs[s].from

(* A row names the contract subscription its own envelope made.  Once the
   indexer has been through all events, in order and without losing one, the row
   is ACTIVE exactly while that subscription is, and never announces a payment
   before the contract would take it, whoever renewed or cancelled.  (A sub event
   handled again activates a row whose cancel event came and went before.)   *)
RowShowsSubscription ==
  \A r \in Sub : sub[r].id # None =>
    LET s == subs[sub[r].id]
    IN  /\ s.who = Owner[r] /\ s.plan = plan[PlanOf[r]].id
        /\ \E k \in DOMAIN events :
             events[k] = [topic |-> "sub", id |-> sub[r].id, tx |-> sub[r].hash]
        /\ sub[r].status = "CANCELED" => ~s.active
        /\ seen = Len(events) /\ NoEventLost =>
             (sub[r].status = "ACTIVE" <=> s.active) /\ (s.active => sub[r].next >= s.due)
=================================================================================

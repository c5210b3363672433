------------------------------ MODULE ContractCalls ------------------------------
(***************************************************************************)
(* What every on-chain feature of the API shares: a wallet-signed envelope *)
(* goes through ContractIntegrationService.submitCall, the ledger applies  *)
(* or reverts it, and the indexer hands the contract's events to           *)
(* ContractReconciliationService.                                          *)
(*                                                                         *)
(* A module that extends this one says what the contract does with an      *)
(* envelope and what a handler writes before and after the call.           *)
(***************************************************************************)
EXTENDS Integers, Sequences, FiniteSets

CONSTANTS
  Tx,         \* signed envelopes, named by the row and the call they carry
  NoTx,       \* no envelope: an empty hash column
  Foreign,    \* a transaction the API never saw
  Handler,    \* requests that may be in progress at the same time
  MaxForeign, \* bound: calls made without the API
  MaxUpsets   \* bound: replayed or dropped events and dead requests together

ASSUME CallsAssumption ==
  NoTx \notin Tx /\ Foreign \notin Tx /\ NoTx # Foreign /\ MaxForeign \in Nat /\ MaxUpsets \in Nat

VARIABLES
  fate,       \* what became of each envelope
  events,     \* contract events, each with the transaction (tx) it came from
  seen,       \* events the indexer has been through once, its Redis cursor
  req,        \* per request: the envelope it submits and how far it is
  upsets      \* how often each kind of upset happened

callVars == <<fate, events, seen, req, upsets>>

Fate == {"none", "prepared", "queued", "applied", "reverted"}
Idle == [at |-> "idle", tx |-> NoTx]
UpsetKind == {"foreign", "again", "dropped", "died"}
UpsetTotal == upsets["again"] + upsets["dropped"] + upsets["died"]

CallsTypeOK(Event) ==
  /\ fate \in [Tx -> Fate]
  /\ events \in Seq(Event)
  /\ seen \in 0..Len(events)
  /\ req \in [Handler -> [at : {"idle", "calling", "waiting", "threw"}, tx : Tx \cup {NoTx}]]
  /\ upsets \in [UpsetKind -> 0..(MaxForeign + MaxUpsets)]

\* n direct calls, none of which published an event, went before.
CallsInitAfter(n) ==
  /\ fate = [x \in Tx |-> "none"]
  /\ events = <<>>
  /\ seen = 0
  /\ req = [h \in Handler |-> Idle]
  /\ upsets = [k \in UpsetKind |-> IF k = "foreign" THEN n ELSE 0]

CallsInit == CallsInitAfter(0)

Upset(kind) ==
  /\ UpsetTotal < MaxUpsets
  /\ upsets' = [upsets EXCEPT ![kind] = @ + 1]

\* The indexer has met every event it was given, once and in order.
NoEventLost == upsets["again"] = 0 /\ upsets["dropped"] = 0

-----------------------------------------------------------------------------
(* Requests.  The caller adds the row's guard and writes.                   *)

\* prepareCall simulated the invocation and the wallet signed the envelope.
Prepare(x) ==
  /\ fate[x] = "none"
  /\ fate' = [fate EXCEPT ![x] = "prepared"]
  /\ UNCHANGED <<events, seen, req, upsets>>

Start(h, x) ==
  /\ req[h] = Idle
  /\ fate[x] # "none"
  /\ req' = [req EXCEPT ![h] = [at |-> "calling", tx |-> x]]
  /\ UNCHANGED <<fate, events, seen, upsets>>

\* submitContractCall: the envelope may or may not reach the network, and the
\* call may throw in either case.
CallNetwork(h) ==
  /\ req[h].at = "calling"
  /\ \E reached \in BOOLEAN, next \in {"waiting", "threw"} :
       /\ req' = [req EXCEPT ![h].at = next]
       /\ fate' = IF reached /\ fate[req[h].tx] = "prepared"
                  THEN [fate EXCEPT ![req[h].tx] = "queued"] ELSE fate
  /\ UNCHANGED <<events, seen, upsets>>

Done(h) == req' = [req EXCEPT ![h] = Idle] /\ UNCHANGED <<fate, events, seen, upsets>>

\* The poll sees SUCCESS, or 90 s pass and SUCCEEDED is returned all the same.
Accepted(h) == req[h].at = "waiting" /\ Done(h)
Refused(h)  == req[h].at = "waiting" /\ fate[req[h].tx] = "reverted" /\ Done(h)
Threw(h)    == req[h].at = "threw" /\ Done(h)

\* The process stops with the request in memory.
Dies(h) ==
  /\ req[h].at # "idle"
  /\ Upset("died")
  /\ req' = [req EXCEPT ![h] = Idle]
  /\ UNCHANGED <<fate, events, seen>>

-----------------------------------------------------------------------------
(* The ledger.  The caller adds the contract's step and appends its event.  *)

Applies(x) ==
  /\ fate[x] = "queued"
  /\ fate' = [fate EXCEPT ![x] = "applied"]
  /\ UNCHANGED <<seen, req, upsets>>

\* The contract refused, or the fee or footprint did not suffice.
Reverts(x) ==
  /\ fate[x] = "queued"
  /\ fate' = [fate EXCEPT ![x] = "reverted"]
  /\ UNCHANGED <<events, seen, req, upsets>>

\* A party calls the contract without the API.
CalledDirectly ==
  /\ upsets["foreign"] < MaxForeign
  /\ upsets' = [upsets EXCEPT !["foreign"] = @ + 1]
  /\ UNCHANGED <<fate, seen, req>>

-----------------------------------------------------------------------------
(* The indexer.  A page is handled in order and the cursor saved after it, so
   events are met in order the first time.  A tick that read its page before a
   slower or a restarted one moved on hands over an old event again, at any
   later time.                                                              *)

First(k) == k = seen + 1 /\ k <= Len(events)
Again(k) == k \in 1..seen

\* Event k reaches its handler.
Delivered(k) ==
  /\ \/ First(k) /\ seen' = k /\ UNCHANGED upsets
     \/ Again(k) /\ Upset("again") /\ UNCHANGED seen
  /\ UNCHANGED <<fate, events, req>>

\* A database error: reconcile logs it and the page goes on.
Dropped(k) == First(k) /\ Upset("dropped") /\ seen' = k /\ UNCHANGED <<fate, events, req>>
=================================================================================

------------------------------ MODULE EscrowContract -----------------------------
(***************************************************************************)
(* The Soroban escrow contract (contracts/escrow/src/lib.rs) and the token *)
(* balances it moves.                                                      *)
(*                                                                         *)
(* A contract call is atomic: one action is one successful invocation.  An *)
(* invocation that returns an error is rolled back by the host, so it is   *)
(* not a step.  require_auth is modelled by naming the caller: only the    *)
(* address itself can appear there.  One token is modelled; the TTL of the *)
(* ledger entries is not, since an archived entry is restored on access.   *)
(***************************************************************************)
EXTENDS Integers, Sequences, FiniteSets, Functions

CONSTANTS
  Address,     \* accounts that hold the token
  Party,       \* accounts that take part in escrows as initiator or counterparty
  Arbiter,     \* accounts appointed as arbiter
  Deployer,    \* the account that calls initialize
  Amount,      \* amounts an escrow may lock
  Funds,       \* what each account owns at the start
  ReleaseTime, \* release times callers pass
  Expiry,      \* explicit expiries callers pass
  Window,      \* DEFAULT_REFUND_WINDOW, 30 days in the code
  MaxTime,     \* u64::MAX: the largest ledger timestamp
  MaxId,       \* bound: largest escrow id
  InitFirst,   \* environment: the deployer calls initialize before anyone calls create
  None         \* absent address, absent expiry, absent entry

Id   == 1..MaxId
Time == 0..MaxTime

ASSUME ContractAssumption ==
  /\ Party \subseteq Address
  /\ Arbiter \subseteq Address
  /\ Deployer \in Address
  /\ Amount \subseteq Nat \ {0}
  /\ Funds \in Nat
  /\ Window \in Nat
  /\ MaxTime \in Nat
  /\ ReleaseTime \subseteq Time
  /\ Expiry \subseteq Time
  /\ MaxId \in Nat
  /\ InitFirst \in BOOLEAN
  /\ None \notin Address
  /\ None \notin Int

VARIABLES
  now,       \* timestamp of the last ledger
  admin,     \* DataKey::Admin
  nextId,    \* DataKey::NextId, None while unset
  escrow,    \* DataKey::Escrow(id)
  balance,   \* token balance of each account
  held,      \* token balance of the contract
  events     \* events the contract published

contractVars == <<now, admin, nextId, escrow, balance, held, events>>

EscrowRecord ==
  [initiator : Address, counterparty : Address, arbiter : Address \cup {None},
   amount : Amount, releaseTime : Time, expiry : Time,
   released : BOOLEAN, refunded : BOOLEAN]

Event == [topic : {"created", "released", "refund"}, id : Id]

ContractTypeOK ==
  /\ now \in Time
  /\ admin \in Address \cup {None}
  /\ nextId \in 1..(MaxId + 1) \cup {None}
  /\ escrow \in [Id -> EscrowRecord \cup {None}]
  /\ balance \in [Address -> Nat]
  /\ held \in Nat
  /\ events \in Seq(Event)

ContractInit ==
  /\ now = 0
  /\ admin = None
  /\ nextId = None
  /\ escrow = [d \in Id |-> None]
  /\ balance = [a \in Address |-> Funds]
  /\ held = 0
  /\ events = <<>>

-----------------------------------------------------------------------------
Initialize(a) ==
  /\ admin = None
  /\ admin' = a
  /\ nextId' = 1
  /\ UNCHANGED <<now, escrow, balance, held, events>>

\* get(NextId).unwrap_or(1): create does not ask whether initialize ran.
NextId == IF nextId = None THEN 1 ELSE nextId

\* Refund deadline of an escrow without one: saturating_add on u64.
\* (Mutants: "no expiry" kept as the largest timestamp, or not filled in at all.)
UnboundedExpiry(releaseTime) == MaxTime
UnsetExpiry(releaseTime) == None
DefaultExpiry(releaseTime) ==
  IF releaseTime + Window > MaxTime THEN MaxTime ELSE releaseTime + Window

Publish(topic, d) == events' = Append(events, [topic |-> topic, id |-> d])

Create(initiator, counterparty, arbiter, amount, releaseTime, expiry) ==
  /\ InitFirst => admin # None
  /\ expiry # None => expiry > releaseTime
  /\ balance[initiator] >= amount
  /\ NextId \in Id
  /\ balance' = [balance EXCEPT ![initiator] = @ - amount]
  /\ held' = held + amount
  /\ escrow' = [escrow EXCEPT ![NextId] =
                  [initiator |-> initiator, counterparty |-> counterparty,
                   arbiter |-> arbiter, amount |-> amount, releaseTime |-> releaseTime,
                   expiry |-> IF expiry = None THEN DefaultExpiry(releaseTime) ELSE expiry,
                   released |-> FALSE, refunded |-> FALSE]]
  /\ nextId' = NextId + 1
  /\ Publish("created", NextId)
  /\ UNCHANGED <<now, admin>>

\* The early returns release and refund share: EscrowNotFound, AlreadyReleased,
\* AlreadyRefunded.  (Mutant: AlreadyReleased forgotten.)
NotRefunded(d) == escrow[d] # None /\ ~escrow[d].refunded
Unsettled(d) == escrow[d] # None /\ ~escrow[d].released /\ ~escrow[d].refunded

\* The contract pays out the escrowed amount; the token refuses an overdraft.
Pay(to, amount) ==
  /\ held >= amount
  /\ balance' = [balance EXCEPT ![to] = @ + amount]
  /\ held' = held - amount

MayRelease(d, caller) ==
  /\ caller \in {escrow[d].initiator, escrow[d].counterparty, escrow[d].arbiter}
  /\ now >= escrow[d].releaseTime

Release(d, caller) ==
  /\ Unsettled(d)
  /\ MayRelease(d, caller)
  /\ Pay(escrow[d].counterparty, escrow[d].amount)
  /\ escrow' = [escrow EXCEPT ![d].released = TRUE]
  /\ Publish("released", d)
  /\ UNCHANGED <<now, admin, nextId>>

\* Refundable before the release time or after the deadline, not between.
MayRefund(d, caller) ==
  /\ caller \in {escrow[d].initiator, escrow[d].counterparty}
  /\ now < escrow[d].releaseTime \/ now > escrow[d].expiry

\* (Mutant: the sender of the refund gets the money.)
RefundCaller(d, caller) == caller
RefundTo(d, caller) == escrow[d].initiator

Refund(d, caller) ==
  /\ Unsettled(d)
  /\ MayRefund(d, caller)
  /\ Pay(RefundTo(d, caller), escrow[d].amount)
  /\ escrow' = [escrow EXCEPT ![d].refunded = TRUE]
  /\ Publish("refund", d)
  /\ UNCHANGED <<now, admin, nextId>>

LedgerCloses ==
  /\ now < MaxTime
  /\ now' = now + 1
  /\ UNCHANGED <<admin, nextId, escrow, balance, held, events>>

ContractNext ==
  \/ Initialize(Deployer)
  \/ \E i, c \in Party, arb \in Arbiter \cup {None}, n \in Amount,
        r \in ReleaseTime, e \in Expiry \cup {None} : Create(i, c, arb, n, r, e)
  \/ \E d \in Id, a \in Address : Release(d, a) \/ Refund(d, a)
  \/ LedgerCloses

ContractSpec == ContractInit /\ [][ContractNext]_contractVars

\* Ledgers keep closing; nobody owes the contract a call.
FairContractSpec == ContractSpec /\ WF_contractVars(LedgerCloses)

-----------------------------------------------------------------------------
IsOpen(d) == escrow[d] # None /\ ~escrow[d].released /\ ~escrow[d].refunded
Owed == [d \in {d \in Id : IsOpen(d)} |-> escrow[d].amount]

(* Every token the contract holds belongs to an open escrow, and every open
   escrow is covered: no call pays from another escrow's money, strands any, or
   creates any.                                                             *)
Solvent == held = SumFunction(Owed)

Occurrences(topic, d) == Cardinality({k \in DOMAIN events : events[k] = [topic |-> topic, id |-> d]})

(* The event log is a faithful account of the storage, which is all the indexer
   ever reads: one `created` per escrow, at most one outcome, and the outcome
   the entry records.                                                       *)
EventsTellState ==
  \A d \in Id :
    /\ Occurrences("created", d) = IF escrow[d] = None THEN 0 ELSE 1
    /\ Occurrences("released", d) = IF escrow[d] # None /\ escrow[d].released THEN 1 ELSE 0
    /\ Occurrences("refund", d) = IF escrow[d] # None /\ escrow[d].refunded THEN 1 ELSE 0

(* "The initiator always has a way to reclaim": in the end every escrow that nobody
   settled is refundable by its initiator and stays so, whatever the counterparty does. *)
InitiatorCanReclaim ==
  <>[](\A d \in Id : IsOpen(d) => MayRefund(d, escrow[d].initiator))

(* Claimed by contracts/escrow/src/lib.rs: ids are "never reused".  Not true when
   create runs before initialize: see the findings.                         *)
IdsNeverReused == \A d \in Id : Occurrences("created", d) <= 1

\* The contract keeps the promise of EscrowCustody, whatever the clock, the
\* callers and the order of the calls.
DealOf(d) ==
  IF escrow[d] = None THEN None
  ELSE [initiator |-> escrow[d].initiator, counterparty |-> escrow[d].counterparty,
        amount |-> escrow[d].amount,
        outcome |-> IF escrow[d].released THEN "released"
                    ELSE IF escrow[d].refunded THEN "refunded" ELSE "held"]

Custody == INSTANCE EscrowCustody
  WITH NoDeal <- None, deal <- [d \in Id |-> DealOf(d)], wallet <- balance

\* An absent entry is not an entry, nor an absent deal a deal.
ASSUME AbsentAssumption == None \notin EscrowRecord /\ None \notin Custody!Deals

(* Each escrow locks its amount once and pays it once, to the counterparty when
   released and to the initiator when refunded.                             *)
KeepsCustody == Custody!CustodySpec
=================================================================================

------------------------------ MODULE EscrowCustody ------------------------------
(***************************************************************************)
(* What an escrow promises, without the clock, the ids' counter or the     *)
(* callers: each deal takes one amount out of the initiator's wallet and   *)
(* later puts that amount, once, into the wallet of one of the two parties.*)
(***************************************************************************)
EXTENDS Naturals

CONSTANTS
  Address,   \* accounts
  Id,        \* deals
  Amount,    \* amounts a deal may lock
  NoDeal     \* a deal that was never made

VARIABLES
  deal,      \* the terms and the outcome of each deal
  wallet     \* tokens of each account

custodyVars == <<deal, wallet>>

Deals == [initiator : Address, counterparty : Address, amount : Amount,
          outcome : {"held", "released", "refunded"}]

CustodyInit ==
  /\ deal = [d \in Id |-> NoDeal]
  /\ wallet \in [Address -> Nat]

Lock(d, i, c, a) ==
  /\ deal[d] = NoDeal
  /\ wallet[i] >= a
  /\ deal' = [deal EXCEPT ![d] = [initiator |-> i, counterparty |-> c, amount |-> a,
                                  outcome |-> "held"]]
  /\ wallet' = [wallet EXCEPT ![i] = @ - a]

Settle(d, outcome, to) ==
  /\ deal[d] # NoDeal
  /\ deal[d].outcome = "held"
  /\ deal' = [deal EXCEPT ![d].outcome = outcome]
  /\ wallet' = [wallet EXCEPT ![to] = @ + deal[d].amount]

CustodyNext ==
  \E d \in Id :
    \/ \E i, c \in Address, a \in Amount : Lock(d, i, c, a)
    \/ Settle(d, "released", deal[d].counterparty)
    \/ Settle(d, "refunded", deal[d].initiator)

CustodySpec == CustodyInit /\ [][CustodyNext]_custodyVars
=================================================================================

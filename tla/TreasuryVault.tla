------------------------------ MODULE TreasuryVault ------------------------------
(***************************************************************************)
(* What a governed treasury promises, without a word on how votes are      *)
(* stored or who configures it: a ballot's terms never change, votes are   *)
(* only added, and a ballot pays its amount to its payee once, after the   *)
(* accounts of some quorum voted for it.                                   *)
(***************************************************************************)
EXTENDS Integers

CONSTANTS Account, Amount, Id, Quorums, NoBallot

VARIABLES vault, wallet, ballot

vaultVars == <<vault, wallet, ballot>>

Ballots == [to : Account, amount : Amount, voters : SUBSET Account, paid : BOOLEAN]

VaultInit ==
  /\ vault \in Nat
  /\ wallet \in [Account -> Nat]
  /\ ballot = [d \in Id |-> NoBallot]

Receive(a, n) ==
  /\ wallet[a] >= n
  /\ wallet' = [wallet EXCEPT ![a] = @ - n]
  /\ vault' = vault + n
  /\ UNCHANGED ballot

Transfer(to, n) ==
  /\ vault >= n
  /\ vault' = vault - n
  /\ wallet' = [wallet EXCEPT ![to] = @ + n]

\* The administrator pays without a ballot.
Disburse(to, n) == Transfer(to, n) /\ UNCHANGED ballot

OpenBallot(d, to, n) ==
  /\ ballot[d] = NoBallot
  /\ ballot' = [ballot EXCEPT ![d] = [to |-> to, amount |-> n, voters |-> {}, paid |-> FALSE]]
  /\ UNCHANGED <<vault, wallet>>

Vote(d, a) ==
  /\ ballot[d] # NoBallot
  /\ ~ballot[d].paid
  /\ ballot' = [ballot EXCEPT ![d].voters = @ \cup {a}]
  /\ UNCHANGED <<vault, wallet>>

PayBallot(d) ==
  /\ ballot[d] # NoBallot
  /\ ~ballot[d].paid
  /\ ballot[d].voters \in Quorums
  /\ Transfer(ballot[d].to, ballot[d].amount)
  /\ ballot' = [ballot EXCEPT ![d].paid = TRUE]

VaultNext ==
  \/ \E a \in Account, n \in Amount : Receive(a, n) \/ Disburse(a, n)
  \/ \E d \in Id, a \in Account, n \in Amount : OpenBallot(d, a, n)
  \/ \E d \in Id, a \in Account : Vote(d, a)
  \/ \E d \in Id : PayBallot(d)

VaultSpec == VaultInit /\ [][VaultNext]_vaultVars
=================================================================================

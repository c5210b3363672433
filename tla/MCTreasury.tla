------------------------------- MODULE MCTreasury -------------------------------
(* TLC instances of the treasury: the contract alone under every caller
   (focus = "contract"), and the API over a deployed contract: deposits with
   two requests at a time, withdrawals with one.                           *)
EXTENDS TreasuryLifecycle, TLC

CONSTANTS adm, m1, m2, d1, w1, h1, h2

VARIABLE focus

Alike == Permutations(Tick)

\* No governance, the user with one other member, and both with the administrator.
MCMemberList == {<<>>, <<m1, m2>>, <<adm, m1, m2>>}

MCTx == {[row |-> d1, call |-> "deposit", by |-> m1], [row |-> w1, call |-> "propose", by |-> m1],
         [row |-> w1, call |-> "approve", by |-> m1], [row |-> w1, call |-> "execute", by |-> m1]}

\* The administrator has initialised and configured the contract and paid in.
Deployed ==
  /\ admin = adm /\ allowed = TRUE /\ cap = None
  /\ members = <<m1, m2>> /\ threshold = 2 /\ nextId = 1
  /\ proposal = [d \in Id |-> None]
  /\ wallet = [a \in Account |-> IF a = adm THEN 0 ELSE Funds]
  /\ held = Funds
  /\ events = <<[topic |-> "deposit", id |-> None, by |-> adm, tx |-> Foreign]>>
  /\ seen = 1

DeployedWithRows ==
  /\ Deployed
  /\ RowsInit
  /\ fate = [x \in Tx |-> "none"]
  /\ req = [h \in Handler |-> Idle]
  /\ upsets = [k \in UpsetKind |-> 0]

MCInit ==
  \/ focus = "contract" /\ Init
  \/ focus \in {"deposits", "withdrawals"} /\ DeployedWithRows

MCNext ==
  /\ \/ focus = "contract" /\ TreasuryNext /\ UNCHANGED apiVars
     \/ focus = "deposits" /\ Next /\ UNCHANGED withdrawal
     \/ focus = "withdrawals" /\ Next /\ UNCHANGED <<deposit, req[h2]>>
  /\ UNCHANGED focus

MCSpec == MCInit /\ [][MCNext]_<<vars, focus>>
=================================================================================

------------------------------- MODULE MCMerchants -------------------------------
(* TLC instances of the merchant feature: direct calls of the contract
   (focus = "contract"); sales, or settlements, of the API's merchant, with one
   more direct call.                                                       *)
EXTENDS MerchantSettlement, TLC

CONSTANTS owner, other, m, s, p1, p2, xlm, usd

VARIABLE focus

Alike == Permutations(Tick)

MCOwner == (s :> m) @@ (p1 :> m) @@ (p2 :> m)
MCWallet == m :> owner
MCAsset == (s :> xlm) @@ (p1 :> xlm) @@ (p2 :> usd)
MCTx == Envelopes

\* The contract after initialize.
Deployed ==
  /\ admin = other /\ nextId = 1
  /\ profile = [i \in Id |-> None]
  /\ balance = [c \in Till |-> 0]
  /\ wallet = [p \in Account \X Token |-> Funds]
  /\ held = [t \in Token |-> 0]

MCInit ==
  /\ RowsInit
  /\ \/ focus = "contract" /\ MerchantInit /\ CallsInit
     \/ /\ focus \in {"sales", "settlements"}
        /\ Deployed
        /\ CallsInitAfter(MaxForeign - 1)

MCNext ==
  \/ focus = "contract" /\ DirectCall /\ UNCHANGED focus
  \/ focus = "sales" /\ Next /\ UNCHANGED <<focus, settlement>>
  \/ focus = "settlements" /\ Next /\ UNCHANGED <<focus, credits>>

MCSpec == MCInit /\ [][MCNext]_<<vars, focus>>
=================================================================================

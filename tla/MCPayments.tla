------------------------------ MODULE MCPayments ------------------------------
(***************************************************************************)
(* Values for PaymentLifecycle's constants: one row of each route, and one *)
(* envelope a wallet signs outside the platform.  That envelope pays what  *)
(* the single payment cla pays, so that it passes cla's check; the         *)
(* scheduled occurrence and the contract payment pay something else.       *)
(*                                                                         *)
(* Two instances in one: any single row under every actor and one fault,   *)
(* and any two rows whose envelopes are submitted for one another, by one  *)
(* handler that nothing stops, beside the ticks.                           *)
(***************************************************************************)
EXTENDS PaymentLifecycle, TLC

CONSTANTS cla, occ, bat, con, one, h1

VARIABLE focus

MCTerms == cla :> "order" @@ one :> "order" @@ occ :> "rent" @@ bat :> "wages" @@ con :> "send"

Inserted == {t \in Rows : status'[t] # "ABSENT"}

MCInit == Init /\ focus \in {"one row", "two rows"}
MCNext ==
  /\ Next
  /\ focus = "one row" => Cardinality(Inserted) <= 1
  /\ focus = "two rows" =>
       /\ occ \notin Inserted /\ \A s \in Elsewhere : net'[s] = net[s]
       /\ \A h \in Handler \ {h1} : pc'[h] = "idle"
       /\ deaths' = 0
  /\ UNCHANGED focus

\* Nothing that the instances leave out is owed by Fairness.
MCSpec == MCInit /\ [][MCNext]_<<vars, focus>> /\ Fairness
===============================================================================

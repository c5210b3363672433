------------------------------- MODULE MCEscrows -------------------------------
(***************************************************************************)
(* Model-checking instance of EscrowLifecycle, in two themes: two requests *)
(* beside one indexer tick, and one request beside two overlapping ticks.  *)
(* Handlers and ticks are interchangeable: no definition names one, and    *)
(* none orders them.                                                       *)
(***************************************************************************)
EXTENDS EscrowLifecycle, TLC

VARIABLE focus

Workers == Permutations(Handler) \cup Permutations(Tick)

AtOnce(place) == Cardinality({w \in DOMAIN place : place[w] # "idle"})

MCInit == Init /\ focus \in {"requests", "ticks"}
MCNext ==
  /\ Next
  /\ focus = "requests" => AtOnce(tpc') <= 1
  /\ focus = "ticks"    => AtOnce(pc') <= 1 /\ Upsets' <= 1
  /\ UNCHANGED focus
MCSpec == MCInit /\ [][MCNext]_<<vars, focus>>
================================================================================

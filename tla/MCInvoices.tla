------------------------------- MODULE MCInvoices --------------------------------
(* TLC instances: one invoice, settled off-chain (two checkouts and two inbound
   payments), on-chain, or both ways at once, and two invoices whose issue
   envelopes may be submitted for one another.                                *)
EXTENDS InvoiceLifecycle

CONSTANTS inv, inv2, c1, c2, in1, in2, h1, Focus

VARIABLE focus

MCFor == [y \in {c1, c2, in1, in2} |-> inv]
Pay(c) == [row |-> c, call |-> "checkout", n |-> 1]
OnChain(i, call, n) == [row |-> i, call |-> call, n |-> n]
MCTx == {Pay(c1), Pay(c2), OnChain(inv, "create", 1), OnChain(inv, "create", 2),
         OnChain(inv, "pay", 1), OnChain(inv, "cancel", 1), OnChain(inv2, "create", 1)}

\* What takes part: envelopes, inbound payments, requests, and a second invoice.
Part == CASE focus = "off-chain" -> {Pay(c1), Pay(c2)}
          [] focus = "on-chain"  -> {OnChain(inv, "create", 1), OnChain(inv, "create", 2),
                                     OnChain(inv, "pay", 1)}
          [] focus = "both"      -> {Pay(c1), OnChain(inv, "create", 1), OnChain(inv, "cancel", 1)}
          [] focus = "crossed"   -> {OnChain(inv, "create", 1), OnChain(inv2, "create", 1),
                                     OnChain(inv, "pay", 1)}
Incoming == CASE focus = "off-chain" -> {in1, in2} [] OTHER -> {}
Requests == IF focus = "off-chain" THEN Handler ELSE {h1}

MCInit == Init /\ focus \in Focus
MCNext ==
  /\ Next
  /\ \A x \in Tx \ Part : fate'[x] = "none"
  /\ \A h \in Handler \ Requests : req'[h] = Idle
  /\ arrived' \subseteq Incoming
  /\ focus = "off-chain" => events' = events
  /\ focus # "both" => due' = due
  /\ focus = "crossed" => \A k \in UpsetKind : upsets'[k] = 0
  /\ \A k \in UpsetKind : upsets'[k] > 0 => \A l \in UpsetKind \ {k} : upsets'[l] = 0
  /\ focus # "crossed" => invoice'[inv2].status = "ABSENT"
  /\ UNCHANGED focus
MCSpec == MCInit /\ [][MCNext]_<<vars, focus>>
=================================================================================

------------------------------ MODULE Delivery ------------------------------
(***************************************************************************)
(* What the submitter promises: the transactions it accepts get onto       *)
(* Espresso at least once and nearly in their order: a transaction is only *)
(* ever ahead of fewer than Window earlier ones.                           *)
(***************************************************************************)
EXTENDS Integers, Sequences, FiniteSets, SequencesExt

CONSTANTS Tx, Window

VARIABLES order, delivered

Accepted == {order[i] : i \in DOMAIN order}

WithinWindow(S) ==
  \A j \in DOMAIN order :
    order[j] \in S => Cardinality({i \in 1 .. j - 1 : order[i] \notin S}) < Window

Init == order = <<>> /\ delivered = {}

Accept ==
  /\ order' \in Seq(Tx)
  /\ IsPrefix(order, order')
  /\ UNCHANGED delivered

Deliver(tx) ==
  /\ tx \in Accepted
  /\ delivered' = delivered \cup {tx}
  /\ WithinWindow(delivered')
  /\ UNCHANGED order

Next == Accept \/ \E tx \in Accepted : Deliver(tx)

Spec == Init /\ [][Next]_<<order, delivered>>
=============================================================================

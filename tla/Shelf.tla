------------------------------- MODULE Shelf -------------------------------
(***************************************************************************)
(* What the stock operations promise of the quantities on the shelf: a     *)
(* sale takes all its products at once and only from what is there, a      *)
(* correction adds its delta to what is there, and counting a product      *)
(* replaces its quantity.  A correction that is not exact may replace what *)
(* came in between: it adds its delta to some earlier quantity.            *)
(***************************************************************************)
EXTENDS Integers

CONSTANTS Products,
          Sales,        \* functions from products to the quantity taken
          Corrections,  \* pairs of a product and a delta
          Counts,       \* pairs of a product and a quantity
          Exact         \* whether corrections add to what is there

VARIABLE shelf

Init == shelf \in [Products -> Nat]

Sell(sale) ==
    /\ \A p \in Products : sale[p] <= shelf[p]
    /\ shelf' = [p \in Products |-> shelf[p] - sale[p]]

Correct(p, delta) ==
    /\ shelf'[p] >= 0 /\ shelf'[p] >= delta
    /\ Exact => shelf'[p] = shelf[p] + delta
    /\ shelf' = [shelf EXCEPT ![p] = shelf'[p]]

Count(p, level) == shelf' = [shelf EXCEPT ![p] = level]

Next == \/ \E sale \in Sales : Sell(sale)
        \/ \E c \in Corrections : Correct(c[1], c[2])
        \/ \E c \in Counts : Count(c[1], c[2])

Spec == Init /\ [][Next]_shelf
=============================================================================

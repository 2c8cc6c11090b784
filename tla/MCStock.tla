------------------------------ MODULE MCStock ------------------------------
(***************************************************************************)
(* Small instances of Stock: which requests are made of which products.    *)
(***************************************************************************)
EXTENDS StockInvariant, TLC

Seqs == INSTANCE SequencesExt

CONSTANTS Quantities,  \* what a checkout deducts from a product
          Gains,       \* what an adjustment adds
          Losses,      \* what an adjustment takes away
          Levels,      \* what an update sets
          StartLevel   \* the quantity every product starts with

Entries(deduct) == {p \in Products : deduct[p] > 0}

\* Every way to deduct from some products, in every order.
SomeCheckouts ==
    UNION {{[kind |-> "checkout", deduct |-> d, order |-> o] :
               o \in Seqs!SetToSeqs(Entries(d))} :
           d \in [Products -> Quantities \cup {0}] \ {[p \in Products |-> 0]}}

SomeAdjustments ==
    {[kind |-> "adjust", product |-> p, delta |-> d] :
        p \in Products, d \in Gains \cup {-n : n \in Losses}}

SomeUpdates ==
    {[kind |-> "update", product |-> p, level |-> l, active |-> a] :
        p \in Products, l \in Levels \cup {None}, a \in {TRUE, FALSE, None}}

SomeRemovals == {[kind |-> "remove", product |-> p] : p \in Products}

\* Checkouts of every product at once, so that no part of one is itself a
\* checkout.
Baskets == {r \in SomeCheckouts : Entries(r.deduct) = Products}

AllRequests ==
    SomeCheckouts \cup SomeAdjustments \cup SomeUpdates \cup SomeRemovals
BasketsAndAll ==
    Baskets \cup SomeAdjustments \cup SomeUpdates \cup SomeRemovals

Stocked == [p \in Products |-> StartLevel]

Symmetric == Permutations(Slots) \cup Permutations(Products)
=============================================================================

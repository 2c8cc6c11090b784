-------------------------------- MODULE Till --------------------------------
(***************************************************************************)
(* What the transactions route promises, apart from how it gets there:     *)
(* wallets with balances and a book.  A booking takes effect at once, with *)
(* the entry that records it: the entry is the first of its syncId, it     *)
(* moves its wallet by the difference of the two balances it records, and  *)
(* the balance it records after is not below zero.  On a wallet of one's   *)
(* own, which is not shared, the balances recorded are the wallet's.       *)
(***************************************************************************)
EXTENDS Integers, Sequences

CONSTANTS Wallets,
          Shared,   \* wallets on which requests overlap
          Opening,  \* the balance of each wallet at the start
          None      \* the syncId of an entry without one

VARIABLES balance,  \* of each wallet
          book      \* the entries, oldest first

Init == balance = Opening /\ book = << >>

\* Entry e is added to the book and moves its wallet.
Enter(e) ==
    /\ e.sync = None \/ \A k \in DOMAIN book : book[k].sync # e.sync
    /\ e.after >= 0
    /\ e.provider \in Wallets
    /\ e.provider \notin Shared => e.before = balance[e.provider]
    /\ book' = Append(book, e)
    /\ balance' = [balance EXCEPT ![e.provider] = @ + (e.after - e.before)]

Book == book' # << >> /\ Enter(book'[Len(book')])

\* Devices correct the wallets by entries of their own.
Correct == /\ balance' \in [Wallets -> Int]
           /\ book' = book

Next == Book \/ Correct

Spec == Init /\ [][Next]_<<balance, book>>
=============================================================================

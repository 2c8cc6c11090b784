----------------------------- MODULE LwwStore -----------------------------
(***************************************************************************)
(* What the sync endpoint promises of the stored rows, apart from how it   *)
(* gets there: a store of versioned rows with one owner each.  A batch     *)
(* takes effect as a whole, comes from one device and belongs to one user  *)
(* signed in there, and adds rows of that user or replaces rows of that    *)
(* user.  A row is replaced by an older one only if the store is not       *)
(* strict, and then never by the device that wrote it.                     *)
(***************************************************************************)
EXTENDS Naturals

CONSTANTS Ids,      \* primary keys
          Users,
          Devices,
          UsersOf,  \* the users signed in on each device
          Strict,   \* whether no row is ever replaced by an older one
          None      \* the absence of a row, and of a device

VARIABLES rows,     \* [Ids -> Version or None]
          by        \* the device that wrote each row last

Version == [owner : Users, upd : Nat]

Init == /\ rows = [i \in Ids |-> None]
        /\ by = [i \in Ids |-> None]

\* The row of id i after a batch of user u on device d, given the row before.
MayReplace(d, u, i) ==
    /\ rows'[i] \in Version
    /\ rows'[i].owner = u
    /\ by'[i] = d
    /\ rows[i] # None =>
          /\ rows[i].owner = u
          /\ Strict \/ by[i] = d => rows[i].upd <= rows'[i].upd

Batch(d, u) ==
    /\ DOMAIN rows' = Ids /\ DOMAIN by' = Ids
    /\ \A i \in Ids : \/ rows'[i] = rows[i] /\ by'[i] = by[i]
                      \/ MayReplace(d, u, i)

Next == \E d \in Devices : \E u \in UsersOf[d] : Batch(d, u)

Spec == Init /\ [][Next]_<<rows, by>>
=============================================================================

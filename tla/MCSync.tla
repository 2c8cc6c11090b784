------------------------------ MODULE MCSync ------------------------------
(***************************************************************************)
(* Small instances of SyncServer: who is signed in where, and which        *)
(* batches each device may push.                                           *)
(***************************************************************************)
EXTENDS SyncInvariant, TLC

CONSTANTS Stamps,   \* the updatedAt values a record may carry
          Dels,     \* the isDeleted values
          Pins,     \* the isQuickAccess values
          MaxBatch  \* bound on the records of one request

\* Records that carry one of the given values as deviceId.
Records(tags) ==
    [ sync : SyncIds, key : Keys, dev : tags, del : Dels, pin : Pins,
      upd : Stamps ]

BatchesOf(S) == UNION {[1..k -> S] : k \in 0..MaxBatch}

\* A device signs its records.
SignedBatches == [d \in Devices |-> BatchesOf(Records({d}))]

\* Two records of the table per request, in either order.
Pairs ==
    [d \in Devices |->
        {b \in SignedBatches[d] : Len(b) = 2 /\ b[1].sync # b[2].sync}]

EveryUser == [d \in Devices |-> Users]

\* The user of one device is signed in on the other too, next to another user.
SharedUser ==
    LET d == CHOOSE d \in Devices : TRUE
        u == CHOOSE u \in Users : TRUE
    IN  [e \in Devices |-> IF e = d THEN {u} ELSE Users]

\* Two tables that adopt rows, by name and by SKU, one of them with pins; and
\* one whose deleted rows the extension does not hide.
AdoptedAndShown == {ProductCategory, Product, BusinessProfile}

OptionalTables == {Customer}

RowsAndSlots ==
    Permutations(Slots) \cup Permutations(Ids) \cup Permutations(SyncIds)
        \cup Permutations(Keys)
Everything == RowsAndSlots \cup Permutations(Devices) \cup Permutations(Users)
=============================================================================

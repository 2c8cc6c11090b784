--------------------------- MODULE MCSyncDelivery ---------------------------
(***************************************************************************)
(* A small instance of SyncDelivery: two devices that push, overwrite and  *)
(* delete the same records.                                                *)
(***************************************************************************)
EXTENDS MCSync, SyncDelivery

\* Between them, every kind of second unique key with the device recorded and
\* not, and two tables whose deleted rows the extension hides.
FourTables == {Product, ShelfLocation, ProductSerialNumber, BusinessProfile}

\* One record per request; one device also deletes, with the latest stamp.
OneRecord ==
    LET d == CHOOSE d \in Devices : TRUE
    IN  [e \in Devices |->
            {b \in SignedBatches[e] :
                /\ Len(b) = 1
                /\ b[1].del => e = d /\ \A t \in Stamps : t <= b[1].upd}]
=============================================================================

---------------------------- MODULE SyncTables ----------------------------
(***************************************************************************)
(* The eighteen tables one POST /sync request writes and reads back.       *)
(*                                                                         *)
(* SyncService.pushAndPull repeats one block of code per table.  The       *)
(* blocks differ only in the points below, so a table is described by a    *)
(* record and module SyncServer is written once for all of them:           *)
(*                                                                         *)
(*   key      "none"    no unique column besides syncId                    *)
(*            "unique"  a second unique column, which the push ignores     *)
(*            "adopted" unique per user, and the push looks rows up by it  *)
(*                      when no row carries the incoming syncId            *)
(*   hides    the Prisma extension hides the table's deleted rows from     *)
(*            findMany and count                                           *)
(*   deletes  the table has an isDeleted column                            *)
(*   device   whether a row carries the deviceId of its record: never,     *)
(*            when the record has one, or always                           *)
(*   pins     the push caps the number of quick-access rows of a user      *)
(***************************************************************************)

\* The models the Prisma client soft-deletes and filters on reads.
SoftDeleteModels ==
    { "Charge", "Party", "TransactionType", "MovementCategory",
      "FeeTransaction", "LedgerEntry", "ProductCategory", "ShelfLocation",
      "Product", "Sale", "Customer", "UtangRecord", "MonitoringSession" }

TableShape ==
    [ key : {"none", "unique", "adopted"},
      hides : BOOLEAN,
      deletes : BOOLEAN,
      device : {"never", "optional", "required"},
      pins : BOOLEAN ]

Shape(model, key, deletes, device, pins) ==
    [ key |-> key, hides |-> model \in SoftDeleteModels,
      deletes |-> deletes, device |-> device, pins |-> pins ]

-----------------------------------------------------------------------------
(* One definition per push block, with the pullWhere flags of its query.   *)

ProductCategory ==
    Shape("ProductCategory", "adopted", TRUE, "never", TRUE)

ShelfLocation ==
    Shape("ShelfLocation", "adopted", TRUE, "never", FALSE)

Product ==
    Shape("Product", "adopted", TRUE, "optional", FALSE)

ProductUnitConversion ==
    Shape("ProductUnitConversion", "none", FALSE, "never", FALSE)

ProductSerialNumber ==
    Shape("ProductSerialNumber", "unique", TRUE, "never", FALSE)

ProductRecipeIngredient ==
    Shape("ProductRecipeIngredient", "unique", TRUE, "never", FALSE)

Customer ==
    Shape("Customer", "none", TRUE, "optional", FALSE)

UtangRecord ==
    Shape("UtangRecord", "none", TRUE, "optional", FALSE)

Sale ==
    Shape("Sale", "unique", TRUE, "optional", FALSE)

Charge ==
    Shape("Charge", "none", TRUE, "required", FALSE)

Party ==
    Shape("Party", "none", TRUE, "required", FALSE)

TransactionType ==
    Shape("TransactionType", "none", TRUE, "required", FALSE)

MovementCategory ==
    Shape("MovementCategory", "none", TRUE, "required", FALSE)

FeeTransaction ==
    Shape("FeeTransaction", "none", TRUE, "required", FALSE)

Transaction ==
    Shape("Transaction", "none", FALSE, "optional", FALSE)

LedgerEntry ==
    Shape("LedgerEntry", "none", TRUE, "required", FALSE)

BusinessProfile ==
    Shape("BusinessProfile", "none", TRUE, "required", FALSE)

MonitoringSession ==
    Shape("MonitoringSession", "none", TRUE, "required", FALSE)

\* Tables that differ in nothing the push looks at have the same record, so
\* the set below has one element per way a table can behave.
AllTables ==
    { ProductCategory, ShelfLocation, Product, ProductUnitConversion,
      ProductSerialNumber, ProductRecipeIngredient, Customer, UtangRecord,
      Sale, Charge, Party, TransactionType, MovementCategory,
      FeeTransaction, Transaction, LedgerEntry, BusinessProfile,
      MonitoringSession }
=============================================================================

---------------------------- MODULE RestTables ----------------------------
(***************************************************************************)
(* The tables that have push and pull routes of their own, next to         *)
(* POST /sync.  Fourteen services repeat one of two loops; what differs    *)
(* between them is a record, and module RestPush is written once:          *)
(*                                                                         *)
(*   atOnce    the records are upserted by syncId, all at the same time;   *)
(*             otherwise each is looked up and then written, in turn       *)
(*   compares  a row with a later updatedAt than the record is kept        *)
(*   key       "none"    no unique column besides syncId                   *)
(*             "unique"  a second unique column, which the push ignores    *)
(*             "adopted" the push looks rows up by it when no row carries  *)
(*                       the incoming syncId                               *)
(*   hides     the Prisma extension hides deleted rows from findUnique,    *)
(*             findMany and count                                          *)
(*   deletes   a record has an isDeleted                                   *)
(*   device    a pull leaves out the rows of the calling device: never, or *)
(*             where deviceId is optional, or required                     *)
(*   stamps    updatedAt is the record's, where it has one; otherwise the  *)
(*             database client's clock at every write                      *)
(*   pins      the push caps the number of quick-access rows               *)
(*   routes    what else changes one row: "remove", "create"               *)
(***************************************************************************)
EXTENDS SyncTables

RouteShape ==
    [ atOnce : BOOLEAN, compares : BOOLEAN,
      key : {"none", "unique", "adopted"}, hides : BOOLEAN,
      deletes : BOOLEAN, device : {"never", "optional", "required"},
      stamps : BOOLEAN, pins : BOOLEAN, routes : SUBSET {"remove", "create"} ]

\* find, compare and write, one record after the other
InTurn(model, table, compares, routes) ==
    [ atOnce |-> FALSE, compares |-> compares, key |-> table.key,
      hides |-> model \in SoftDeleteModels, deletes |-> table.deletes,
      device |-> table.device, stamps |-> FALSE, pins |-> table.pins,
      routes |-> routes ]

\* Promise.all of upserts
AtOnce(model, table, stamps) ==
    [ atOnce |-> TRUE, compares |-> FALSE, key |-> table.key,
      hides |-> model \in SoftDeleteModels, deletes |-> table.deletes,
      device |-> table.device, stamps |-> stamps, pins |-> table.pins,
      routes |-> {} ]

-----------------------------------------------------------------------------
(* One definition per service, with the flags of its pull.                 *)

CategoryRoutes ==
    InTurn("ProductCategory", ProductCategory, FALSE, {"remove"})

ShelfLocationRoutes ==
    InTurn("ShelfLocation", ShelfLocation, FALSE, {"remove"})

ProductRoutes ==
    InTurn("Product", Product, TRUE, {"remove", "create"})

UnitConversionRoutes ==
    InTurn("ProductUnitConversion", ProductUnitConversion, TRUE, {})

CustomerRoutes ==
    InTurn("Customer", Customer, TRUE, {"remove"})

UtangRoutes ==
    InTurn("UtangRecord", UtangRecord, TRUE, {})

SaleRoutes ==
    InTurn("Sale", Sale, TRUE, {})

ChargeRoutes == AtOnce("Charge", Charge, FALSE)

PartyRoutes == AtOnce("Party", Party, FALSE)

TransactionTypeRoutes == AtOnce("TransactionType", TransactionType, FALSE)

MovementCategoryRoutes == AtOnce("MovementCategory", MovementCategory, FALSE)

FeeTransactionRoutes == AtOnce("FeeTransaction", FeeTransaction, FALSE)

LedgerEntryRoutes == AtOnce("LedgerEntry", LedgerEntry, FALSE)

MonitoringSessionRoutes ==
    AtOnce("MonitoringSession", MonitoringSession, TRUE)

\* One element per way a table's routes can behave.
RestTables ==
    { CategoryRoutes, ShelfLocationRoutes, ProductRoutes,
      UnitConversionRoutes, CustomerRoutes, UtangRoutes, SaleRoutes,
      ChargeRoutes, PartyRoutes, TransactionTypeRoutes,
      MovementCategoryRoutes, FeeTransactionRoutes, LedgerEntryRoutes,
      MonitoringSessionRoutes }
=============================================================================

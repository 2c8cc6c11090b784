--------------------------- MODULE RestPushProofs ---------------------------
(***************************************************************************)
(* Theorems about RestPush, for every set of tables, devices, records and  *)
(* batches, and however the requests overlap.                              *)
(***************************************************************************)
EXTENDS RestPush, SequenceTheorems, FiniteSetTheorems, FunctionTheorems,
        TLAPS

\* What each step has of the record and of the row it is about.
SlotFits(s) ==
    /\ pc[s] \in UpsertSteps =>
          table.atOnce /\ left[s] \subseteq DOMAIN req[s].batch
    /\ pc[s] \in InTurnSteps \cup RouteSteps => ~table.atOnce
    /\ pc[s] \in {"duplicate", "insert"} => at[s] \in DOMAIN req[s].batch
    /\ pc[s] \notin {"check", "mark", "write"} => target[s] = None
    /\ pc[s] \in {"check", "mark"} =>
          target[s] # None /\ "remove" \in table.routes
    /\ pc[s] \in {"mark", "write"} /\ target[s] # None =>
          rows[target[s]] # None

HandlersFit == \A s \in Slots : SlotFits(s)

Typed == TypeOK /\ HandlersFit

\* Rows of tables whose deleted rows are in sight are not deleted; where
\* records are taken in turn, the server has stamped the rows, and an edit is
\* at most the skew ahead of the stamp of its row.
RowsFit ==
    \A i \in Ids : rows[i] # None =>
        /\ ~table.hides => ~rows[i].del
        /\ ~table.atOnce =>
              /\ rows[i].stamp <= now
              /\ rows[i].made <= rows[i].stamp + Skew

\* A row that is to be updated was not deleted when it was found, and not
\* newer than the record.
ReadsFit ==
    \A s \in Slots : pc[s] = "write" /\ target[s] # None =>
        /\ existing[s] # None /\ ~existing[s].del
        /\ table.compares => existing[s].stamp <= Incoming(Current(s))

\* Requests are numbered in the order they come; a device has one that is
\* unanswered, and what still runs of its earlier ones was answered an error.
InOrder ==
    /\ \A s \in Slots : Running(s) => req[s].edit <= received
    /\ \A i \in Ids : rows[i] # None => rows[i].edit <= received
    /\ \A s \in Slots : pc[s] = "late" => req[s].dev \in sour
    /\ \A s, q \in Slots :
          Unanswered(s) /\ Running(q) /\ req[q].dev = req[s].dev =>
              /\ req[q].edit <= req[s].edit
              /\ Unanswered(q) => q = s
    /\ \A s \in Slots, i \in Ids :
          Unanswered(s) /\ rows[i] # None /\ rows[i].by = req[s].dev =>
              rows[i].edit <= req[s].edit

IInv == Typed /\ RowsFit /\ ReadsFit /\ InOrder

-----------------------------------------------------------------------------
(* The tables.                                                             *)

\* Deleted rows are hidden wherever there can be some, and only services
\* that upsert at once let a record stamp its row.
SoundRoutes(t) ==
    /\ t \in RouteShape
    /\ t.hides \/ (~t.deletes /\ "remove" \notin t.routes)
    /\ ~t.atOnce => ~t.stamps
    /\ t.atOnce => t.routes = {}

LEMMA InTurnSound ==
    ASSUME NEW model, NEW t \in TableShape, NEW compares \in BOOLEAN,
           NEW routes \in SUBSET {"remove", "create"},
           model \in SoftDeleteModels
              \/ (~t.deletes /\ "remove" \notin routes)
    PROVE  SoundRoutes(InTurn(model, t, compares, routes))
<1>. DEFINE hides == model \in SoftDeleteModels
<1>1. hides \in BOOLEAN
  OBVIOUS
<1>. HIDE DEF hides
<1>2. InTurn(model, t, compares, routes) =
         [ atOnce |-> FALSE, compares |-> compares, key |-> t.key,
           hides |-> hides, deletes |-> t.deletes, device |-> t.device,
           stamps |-> FALSE, pins |-> t.pins, routes |-> routes ]
  BY Zenon DEF InTurn, hides
<1>3. hides \/ (~t.deletes /\ "remove" \notin routes)
  BY DEF hides
<1>. QED
  BY <1>1, <1>2, <1>3 DEF SoundRoutes, RouteShape, TableShape

LEMMA AtOnceSound ==
    ASSUME NEW model \in SoftDeleteModels, NEW t \in TableShape,
           NEW stamps \in BOOLEAN
    PROVE  SoundRoutes(AtOnce(model, t, stamps))
<1>1. AtOnce(model, t, stamps) =
         [ atOnce |-> TRUE, compares |-> FALSE, key |-> t.key,
           hides |-> TRUE, deletes |-> t.deletes, device |-> t.device,
           stamps |-> stamps, pins |-> t.pins, routes |-> {} ]
  BY Zenon DEF AtOnce
<1>. QED
  BY <1>1 DEF SoundRoutes, RouteShape, TableShape

LEMMA ShapeFits ==
    ASSUME NEW model, NEW key \in {"none", "unique", "adopted"},
           NEW deletes \in BOOLEAN, NEW pins \in BOOLEAN,
           NEW device \in {"never", "optional", "required"}
    PROVE  /\ Shape(model, key, deletes, device, pins) \in TableShape
           /\ Shape(model, key, deletes, device, pins).deletes = deletes
<1>. DEFINE hides == model \in SoftDeleteModels
<1>1. hides \in BOOLEAN
  OBVIOUS
<1>. HIDE DEF hides
<1>2. Shape(model, key, deletes, device, pins) =
         [ key |-> key, hides |-> hides, deletes |-> deletes,
           device |-> device, pins |-> pins ]
  BY Zenon DEF Shape, hides
<1>. QED
  BY <1>1, <1>2 DEF TableShape

LEMMA Shapes ==
    ASSUME NEW t \in RestTables
    PROVE  SoundRoutes(t)
<1>. USE ShapeFits, InTurnSound, AtOnceSound DEF SoftDeleteModels
<1>1. SoundRoutes(CategoryRoutes)
  BY DEF CategoryRoutes, ProductCategory
<1>2. SoundRoutes(ShelfLocationRoutes)
  BY DEF ShelfLocationRoutes, ShelfLocation
<1>3. SoundRoutes(ProductRoutes)
  BY DEF ProductRoutes, Product
<1>4. SoundRoutes(UnitConversionRoutes)
  BY DEF UnitConversionRoutes, ProductUnitConversion
<1>5. SoundRoutes(CustomerRoutes)
  BY DEF CustomerRoutes, Customer
<1>6. SoundRoutes(UtangRoutes)
  BY DEF UtangRoutes, UtangRecord
<1>7. SoundRoutes(SaleRoutes)
  BY DEF SaleRoutes, Sale
<1>8. SoundRoutes(ChargeRoutes)
  BY DEF ChargeRoutes, Charge
<1>9. SoundRoutes(PartyRoutes)
  BY DEF PartyRoutes, Party
<1>10. SoundRoutes(TransactionTypeRoutes)
  BY DEF TransactionTypeRoutes, TransactionType
<1>11. SoundRoutes(MovementCategoryRoutes)
  BY DEF MovementCategoryRoutes, MovementCategory
<1>12. SoundRoutes(FeeTransactionRoutes)
  BY DEF FeeTransactionRoutes, FeeTransaction
<1>13. SoundRoutes(LedgerEntryRoutes)
  BY DEF LedgerEntryRoutes, LedgerEntry
<1>14. SoundRoutes(MonitoringSessionRoutes)
  BY DEF MonitoringSessionRoutes, MonitoringSession
<1>. QED
  BY <1>1, <1>2, <1>3, <1>4, <1>5, <1>6, <1>7,
     <1>8, <1>9, <1>10, <1>11, <1>12, <1>13, <1>14 DEF RestTables

LEMMA TableFits ==
    ASSUME TypeOK
    PROVE  SoundRoutes(table)
BY Shapes, TablesAssumption DEF TypeOK

\* The record a handler is at.
LEMMA CurrentRecord ==
    ASSUME Typed, NEW s \in Slots,
           pc[s] \in InTurnSteps \cup {"duplicate", "insert"}
    PROVE  Current(s) \in Record /\ req[s] \in Request
<1>1. Running(s) /\ req[s] \in Request
  BY DEF Typed, TypeOK, InTurnSteps, Running
<1>2. at[s] \in DOMAIN req[s].batch /\ req[s].batch \in Seq(Record)
  BY <1>1 DEF Typed, TypeOK, HandlersFit, SlotFits, Request
<1>. QED
  BY <1>1, <1>2 DEF Current

LEMMA IncomingNat ==
    ASSUME TypeOK, NEW r \in Record
    PROVE  Incoming(r) \in Nat /\ Incoming(r) <= now + Skew
BY BoundAssumption DEF TypeOK, Incoming, Record

LEMMA WrittenRow ==
    ASSUME TypeOK, NEW q \in Request, NEW r \in Record
    PROVE  /\ Written(q, r) \in Row
           /\ Written(q, r).by = q.dev /\ Written(q, r).edit = q.edit
           /\ Written(q, r).made = Incoming(r)
           /\ ~table.hides => ~Written(q, r).del
           /\ ~table.stamps => Written(q, r).stamp = now
           /\ table.device # "never" => Written(q, r).signed = r.signed
<1>. DEFINE signed == table.device # "never" /\ r.signed
            deleted == table.deletes /\ r.del
            pinned == table.pins /\ r.pin
<1>1. Stamp(r) \in Nat /\ (~table.stamps => Stamp(r) = now)
  BY DEF Stamp, TypeOK, Record
<1>2. signed \in BOOLEAN /\ deleted \in BOOLEAN /\ pinned \in BOOLEAN
  OBVIOUS
<1>3. (~table.hides => ~deleted) /\ (table.device # "never" => signed = r.signed)
  <2>1. r.signed \in BOOLEAN
    BY DEF Record
  <2>. QED
    BY <2>1, TableFits DEF SoundRoutes
<1>. HIDE DEF signed, deleted, pinned
<1>4. Written(q, r) =
         [ sync |-> r.sync, key |-> r.key, signed |-> signed, del |-> deleted,
           pin |-> pinned, stamp |-> Stamp(r), by |-> q.dev,
           made |-> Incoming(r), edit |-> q.edit ]
  BY Zenon DEF Written, signed, deleted, pinned
<1>. QED
  BY <1>1, <1>2, <1>3, <1>4, IncomingNat DEF Row, Request, Record

-----------------------------------------------------------------------------
(* Types.                                                                  *)

\* A step that leaves the table's rows in place and of their type.
StoreFits ==
    /\ now' \in Nat /\ received' \in Nat
    /\ table' = table
    /\ rows' \in [Ids -> Row \cup {None}]
    /\ \A i \in Ids : rows[i] # None => rows'[i] # None
    /\ sour' \subseteq Devices
    /\ calm' \in BOOLEAN

LEMMA SameStore ==
    ASSUME TypeOK, UNCHANGED <<now, received, table, rows>>,
           sour' \subseteq Devices, calm' \in BOOLEAN
    PROVE  StoreFits
BY DEF StoreFits, TypeOK

LEMMA PutFits ==
    ASSUME TypeOK, NEW i \in Ids, NEW n \in Row, Put(i, n)
    PROVE  /\ rows' \in [Ids -> Row \cup {None}]
           /\ rows'[i] = n
           /\ \A j \in Ids \ {i} : rows'[j] = rows[j]
           /\ \A j \in Ids : rows[j] # None => rows'[j] # None
BY AbsenceAssumption DEF TypeOK, Put

\* The slots that a step is not about.
LEMMA OthersFit ==
    ASSUME HandlersFit, NEW s \in Slots, StoreFits, TypeOK, SlotFits(s)',
           \A q \in Slots \ {s} :
              /\ pc'[q] = pc[q] /\ req'[q] = req[q] /\ at'[q] = at[q]
              /\ target'[q] = target[q] /\ left'[q] = left[q]
    PROVE  HandlersFit'
BY DEF HandlersFit, SlotFits, StoreFits, TypeOK

LEMMA EndTyped ==
    ASSUME Typed, NEW s \in Slots, pc[s] \in InTurnSteps \cup RouteSteps,
           End(s), StoreFits
    PROVE  Typed'
<1>1. /\ pc' = [pc EXCEPT ![s] = "idle"] /\ req' = [req EXCEPT ![s] = None]
      /\ at' = [at EXCEPT ![s] = 0] /\ left' = left
      /\ target' = [target EXCEPT ![s] = None]
      /\ existing' = [existing EXCEPT ![s] = None]
  BY DEF End, Goto, Forget, Typed, TypeOK
<1>2. left[s] = {}
  BY DEF Typed, TypeOK, InTurnSteps, RouteSteps, UpsertSteps
<1>3. TypeOK'
  BY <1>1, <1>2 DEF Typed, TypeOK, StoreFits, InTurnSteps, UpsertSteps
<1>4. SlotFits(s)'
  BY <1>1 DEF SlotFits, Typed, TypeOK, InTurnSteps, RouteSteps, UpsertSteps
<1>. QED
  BY <1>1, <1>3, <1>4, OthersFit DEF Typed, TypeOK

LEMMA AdvanceTyped ==
    ASSUME Typed, NEW s \in Slots, pc[s] \in InTurnSteps, Advance(s),
           StoreFits
    PROVE  Typed'
<1>1. CASE at[s] = Len(req[s].batch)
  BY <1>1, EndTyped DEF Advance
<1>2. CASE at[s] # Len(req[s].batch)
  <2>1. /\ pc' = [pc EXCEPT ![s] = "bySync"] /\ req' = req
        /\ at' = [at EXCEPT ![s] = @ + 1] /\ left' = left
        /\ target' = [target EXCEPT ![s] = None]
        /\ existing' = [existing EXCEPT ![s] = None]
    BY <1>2 DEF Advance, Forget
  <2>2. left[s] = {} /\ req[s] \in Request /\ ~table.atOnce
    BY DEF Typed, TypeOK, HandlersFit, SlotFits, InTurnSteps, RouteSteps,
           UpsertSteps
  <2>3. at[s] + 1 \in DOMAIN req[s].batch
    BY <1>2, <2>2 DEF Typed, TypeOK, Request
  <2>4. TypeOK'
    BY <2>1, <2>2, <2>3
       DEF Typed, TypeOK, StoreFits, InTurnSteps, UpsertSteps
  <2>5. SlotFits(s)'
    BY <2>1, <2>2
       DEF SlotFits, Typed, TypeOK, StoreFits, InTurnSteps, RouteSteps,
           UpsertSteps
  <2>. QED
    BY <2>1, <2>4, <2>5, OthersFit DEF Typed, TypeOK
<1>. QED
  BY <1>1, <1>2

LEMMA GotoTyped ==
    ASSUME Typed, NEW s \in Slots,
           NEW step \in {"bySync", "byKey", "write", "mark", "insert"},
           Goto(s, step), StoreFits,
           step \in {"bySync", "byKey", "write"} =>
              pc[s] \in {"count", "bySync", "byKey"},
           step = "mark" => pc[s] = "check" /\ rows[target[s]] # None,
           step = "insert" => pc[s] = "duplicate",
           \/ UNCHANGED <<target, existing>>
           \/ /\ step = "write"
              /\ \E i \in Ids : /\ rows[i] # None
                                /\ target' = [target EXCEPT ![s] = i]
                                /\ existing' = [existing EXCEPT ![s] = rows[i]]
    PROVE  Typed'
<1>1. /\ pc' = [pc EXCEPT ![s] = step] /\ req' = req /\ at' = at
      /\ left' = left
  BY DEF Goto, Typed, TypeOK
<1>2. /\ left[s] = {} /\ req[s] \in Request /\ ~table.atOnce
      /\ pc[s] \in {"count", "bySync", "byKey", "check", "duplicate"}
      /\ SlotFits(s)
  BY DEF Typed, TypeOK, HandlersFit, SlotFits, InTurnSteps, RouteSteps,
         UpsertSteps
<1>3. target' \in [Slots -> Ids \cup {None}]
      /\ existing' \in [Slots -> Row \cup {None}]
      /\ \A q \in Slots \ {s} : target'[q] = target[q]
  BY DEF Typed, TypeOK
<1>4. TypeOK'
  BY <1>1, <1>2, <1>3
     DEF Typed, TypeOK, StoreFits, InTurnSteps, RouteSteps, UpsertSteps
<1>5. SlotFits(s)'
  <2>1. CASE UNCHANGED <<target, existing>>
    BY <1>1, <1>2, <2>1
       DEF SlotFits, Typed, TypeOK, StoreFits, InTurnSteps, RouteSteps,
           UpsertSteps
  <2>2. CASE step = "write" /\ ~UNCHANGED <<target, existing>>
    <3>1. PICK i \in Ids : rows[i] # None /\ target'[s] = i
      BY <2>2 DEF Typed, TypeOK
    <3>. QED
      BY <1>1, <1>2, <2>2, <3>1
         DEF SlotFits, Typed, TypeOK, StoreFits, InTurnSteps, RouteSteps,
             UpsertSteps
  <2>. QED
    BY <2>1, <2>2
<1>. QED
  BY <1>1, <1>3, <1>4, <1>5, OthersFit DEF Typed, TypeOK

LEMMA SettleTyped ==
    ASSUME Typed, NEW s \in Slots, NEW k \in left[s], pc[s] \in UpsertSteps,
           NEW step, Settle(s, k, step), StoreFits,
           IF left[s] = {k} THEN step = "idle" ELSE step \in UpsertSteps
    PROVE  Typed'
<1>1. /\ pc' = [pc EXCEPT ![s] = step]
      /\ req' = [req EXCEPT ![s] = IF step = "idle" THEN None ELSE @]
      /\ at' = [at EXCEPT ![s] = IF step = "idle" THEN 0 ELSE @]
      /\ left' = [left EXCEPT ![s] = @ \ {k}]
      /\ UNCHANGED <<target, existing>>
  BY DEF Settle
<1>2. /\ req[s] \in Request /\ SlotFits(s) /\ left[s] \subseteq Nat
      /\ pc[s] # "idle"
  BY DEF Typed, TypeOK, HandlersFit, UpsertSteps
<1>3. left[s] \ {k} = {} <=> step = "idle"
  BY DEF UpsertSteps
<1>4. TypeOK'
  BY <1>1, <1>2, <1>3
     DEF Typed, TypeOK, StoreFits, InTurnSteps, RouteSteps, UpsertSteps
<1>5. SlotFits(s)'
  BY <1>1, <1>2, <1>3
     DEF SlotFits, Typed, TypeOK, StoreFits, InTurnSteps, RouteSteps,
         UpsertSteps
<1>. QED
  BY <1>1, <1>4, <1>5, OthersFit DEF Typed, TypeOK

LEMMA ArrivalTyped ==
    ASSUME Typed, NEW s \in Slots, NEW d \in Devices,
           \/ \E b \in Batches[table] : Push(s, d, b)
           \/ \E i \in Ids : Remove(s, d, i)
           \/ \E b \in Batches[table] :
                 Len(b) = 1 /\ Fresh(b[1]) /\ Create(s, d, b[1])
    PROVE  Typed'
<1>. USE AbsenceAssumption
<1>1. /\ received \in Nat /\ pc[s] = "idle" /\ SlotFits(s) /\ left[s] = {}
      /\ target[s] = None
  BY DEF Push, Remove, Create, Arrives, Running, Typed, TypeOK, HandlersFit,
         SlotFits, UpsertSteps
<1>2. ASSUME NEW b \in Batches[table], Push(s, d, b)
      PROVE  Typed'
  <2>1. b \in Seq(Record) /\ b # << >> /\ Len(b) \in Nat \ {0}
        /\ 1 \in DOMAIN b /\ DOMAIN b \subseteq Nat /\ DOMAIN b # {}
    <3>1. b \in Seq(Record) /\ b # << >>
      BY BatchAssumption DEF Typed, TypeOK
    <3>2. Len(b) \in Nat /\ DOMAIN b = 1..Len(b)
      BY <3>1
    <3>3. Len(b) # 0
      BY <3>1, EmptySeq
    <3>. QED
      BY <3>1, <3>2, <3>3
  <2>2. StoreFits
    BY <1>2, <2>1 DEF Push, Arrives, StoreFits, Typed, TypeOK
  <2>3. [dev |-> d, batch |-> b, edit |-> received'] \in Request
    BY <2>1, <2>2 DEF Request, StoreFits
  <2>4. table.pins \in BOOLEAN /\ table.atOnce \in BOOLEAN
    BY TableFits DEF Typed, SoundRoutes, RouteShape
  <2>5. /\ req' = [req EXCEPT ![s] =
                     [dev |-> d, batch |-> b, edit |-> received']]
        /\ pc' = [pc EXCEPT ![s] = IF table.atOnce THEN "upsert"
                                   ELSE IF table.pins THEN "count"
                                   ELSE "bySync"]
        /\ at' = [at EXCEPT ![s] = 1]
        /\ left' = [left EXCEPT ![s] =
                       IF table.atOnce THEN DOMAIN b ELSE {}]
        /\ UNCHANGED <<target, existing>>
    BY <1>2 DEF Push, Arrives
  <2>6. TypeOK'
    BY <1>1, <2>1, <2>2, <2>3, <2>4, <2>5
       DEF Typed, TypeOK, StoreFits, InTurnSteps, RouteSteps, UpsertSteps
  <2>7. SlotFits(s)'
    BY <1>1, <2>1, <2>2, <2>4, <2>5
       DEF SlotFits, Typed, TypeOK, StoreFits, InTurnSteps, RouteSteps,
           UpsertSteps
  <2>. QED
    BY <2>2, <2>5, <2>6, <2>7, OthersFit DEF Typed, TypeOK
<1>3. ASSUME NEW i \in Ids, Remove(s, d, i)
      PROVE  Typed'
  <2>1. StoreFits
    BY <1>3 DEF Remove, Arrives, StoreFits, Typed, TypeOK
  <2>2. [dev |-> d, batch |-> << >>, edit |-> received'] \in Request
    BY <2>1 DEF Request, StoreFits
  <2>3. ~table.atOnce
    BY <1>3, TableFits DEF Remove, Typed, SoundRoutes
  <2>4. /\ req' = [req EXCEPT ![s] =
                     [dev |-> d, batch |-> << >>, edit |-> received']]
        /\ pc' = [pc EXCEPT ![s] = "check"]
        /\ target' = [target EXCEPT ![s] = i]
        /\ UNCHANGED <<at, left, existing>> /\ "remove" \in table.routes
    BY <1>3 DEF Remove, Arrives
  <2>5. TypeOK'
    BY <1>1, <2>1, <2>2, <2>4
       DEF Typed, TypeOK, StoreFits, InTurnSteps, RouteSteps, UpsertSteps
  <2>6. SlotFits(s)'
    BY <1>1, <2>1, <2>3, <2>4
       DEF SlotFits, Typed, TypeOK, StoreFits, InTurnSteps, RouteSteps,
           UpsertSteps
  <2>. QED
    BY <2>1, <2>4, <2>5, <2>6, OthersFit DEF Typed, TypeOK
<1>4. ASSUME NEW b \in Batches[table], Len(b) = 1, Create(s, d, b[1])
      PROVE  Typed'
  <2>1. b \in Seq(Record) /\ b[1] \in Record
    BY <1>4, BatchAssumption DEF Typed, TypeOK
  <2>2. StoreFits
    BY <1>4 DEF Create, Arrives, StoreFits, Typed, TypeOK
  <2>3. [dev |-> d, batch |-> <<b[1]>>, edit |-> received'] \in Request
    BY <2>1, <2>2 DEF Request, StoreFits
  <2>4. ~table.atOnce
    BY <1>4, TableFits DEF Create, Typed, SoundRoutes
  <2>5. /\ req' = [req EXCEPT ![s] =
                     [dev |-> d, batch |-> <<b[1]>>, edit |-> received']]
        /\ pc' = [pc EXCEPT ![s] = "duplicate"]
        /\ at' = [at EXCEPT ![s] = 1]
        /\ UNCHANGED <<target, left, existing>>
    BY <1>4 DEF Create, Arrives
  <2>6. TypeOK'
    BY <1>1, <2>2, <2>3, <2>5
       DEF Typed, TypeOK, StoreFits, InTurnSteps, RouteSteps, UpsertSteps
  <2>7. SlotFits(s)'
    BY <1>1, <2>2, <2>4, <2>5
       DEF SlotFits, Typed, TypeOK, StoreFits, InTurnSteps, RouteSteps,
           UpsertSteps
  <2>. QED
    BY <2>2, <2>5, <2>6, <2>7, OthersFit DEF Typed, TypeOK
<1>. QED
  BY <1>2, <1>3, <1>4

\* The row that a step of handler s writes, when it writes one.
LEMMA WritesRow ==
    ASSUME Typed, NEW s \in Slots, pc[s] \in {"write", "insert"}
    PROVE  Written(req[s], Current(s)) \in Row
BY CurrentRecord, WrittenRow DEF Typed, InTurnSteps

LEMMA UpsertsRow ==
    ASSUME Typed, NEW s \in Slots, pc[s] \in UpsertSteps, NEW k \in left[s]
    PROVE  /\ req[s] \in Request /\ req[s].batch[k] \in Record
           /\ Written(req[s], req[s].batch[k]) \in Row
<1>1. req[s] \in Request /\ k \in DOMAIN req[s].batch
  BY DEF Typed, TypeOK, HandlersFit, SlotFits, UpsertSteps
<1>2. req[s].batch[k] \in Record
  BY <1>1 DEF Request
<1>. QED
  BY <1>1, <1>2, WrittenRow DEF Typed

LEMMA HandleTyped ==
    ASSUME Typed, NEW s \in Slots, Handle(s)
    PROVE  Typed'
<1>. USE AbsenceAssumption
<1>1. CASE Refuse(s)
  <2>1. pc[s] \in InTurnSteps \cup RouteSteps /\ End(s)
        /\ UNCHANGED <<now, received, table, rows>>
    BY <1>1 DEF Refuse
  <2>2. req[s].dev \in Devices /\ sour' \subseteq Devices /\ calm' \in BOOLEAN
    BY <1>1 DEF Refuse, Typed, TypeOK, Request, InTurnSteps, RouteSteps
  <2>. QED
    BY <2>1, <2>2, SameStore, EndTyped DEF Typed
<1>2. CASE CountPins(s) \/ Miss(s) \/ FindToRemove(s) \/ CheckDuplicate(s)
  <2>1. StoreFits /\ UNCHANGED <<target, existing>>
    BY <1>2, SameStore
       DEF CountPins, Miss, FindToRemove, CheckDuplicate, Typed, TypeOK
  <2>2. CASE CountPins(s) \/ Miss(s) \/ CheckDuplicate(s)
    BY <2>1, <2>2, GotoTyped DEF CountPins, Miss, CheckDuplicate
  <2>3. CASE FindToRemove(s)
    BY <2>1, <2>3, GotoTyped DEF FindToRemove, Visible
  <2>. QED
    BY <1>2, <2>2, <2>3
<1>3. CASE Hit(s)
  <2>1. StoreFits
    BY <1>3, SameStore DEF Hit, Typed, TypeOK
  <2>. QED
    BY <1>3, <2>1, GotoTyped DEF Hit, Hits, Visible
<1>4. CASE Skip(s)
  <2>1. StoreFits
    BY <1>4, SameStore DEF Skip, Typed, TypeOK
  <2>. QED
    BY <1>4, <2>1, AdvanceTyped DEF Skip, InTurnSteps
<1>5. CASE Update(s) \/ Add(s)
  <2>1. PICK i \in Ids : Put(i, Written(req[s], Current(s)))
    BY <1>5 DEF Update, Add, Typed, TypeOK
  <2>2. StoreFits
    BY <1>5, <2>1, WritesRow, PutFits
       DEF Update, Add, StoreFits, Typed, TypeOK
  <2>. QED
    BY <1>5, <2>2, AdvanceTyped DEF Update, Add, InTurnSteps
<1>6. ASSUME NEW k \in left[s], Upsert(s, k)
      PROVE  Typed'
  <2>1. PICK i \in Ids : Put(i, Written(req[s], req[s].batch[k]))
    BY <1>6 DEF Upsert
  <2>2. pc[s] \in UpsertSteps /\ Settle(s, k, After(s, left[s] \ {k}))
        /\ UNCHANGED sour
    BY <1>6 DEF Upsert
  <2>3. StoreFits
    BY <2>1, <2>2, UpsertsRow, PutFits DEF Settle, StoreFits, Typed, TypeOK
  <2>4. IF left[s] = {k} THEN After(s, left[s] \ {k}) = "idle"
                         ELSE After(s, left[s] \ {k}) \in UpsertSteps
    BY <2>2 DEF After
  <2>. QED
    BY <2>2, <2>3, <2>4, SettleTyped
<1>7. ASSUME NEW k \in left[s], UpsertFails(s, k)
      PROVE  Typed'
  <2>1. pc[s] \in UpsertSteps /\ UNCHANGED rows
        /\ Settle(s, k, IF left[s] = {k} THEN "idle" ELSE "late")
    BY <1>7 DEF UpsertFails
  <2>2. sour' \subseteq Devices
    BY <1>7, <2>1, UpsertsRow DEF UpsertFails, Typed, TypeOK, Request
  <2>3. StoreFits
    BY <2>1, <2>2, SameStore DEF Settle, Typed, TypeOK
  <2>. QED
    BY <2>1, <2>3, SettleTyped DEF UpsertSteps
<1>8. CASE Mark(s)
  <2>1. target[s] \in Ids /\ rows[target[s]] \in Row /\ now \in Nat
    BY <1>8 DEF Mark, Typed, TypeOK, HandlersFit, SlotFits
  <2>2. [rows[target[s]] EXCEPT !.del = TRUE, !.stamp = now] \in Row
    BY <2>1 DEF Row
  <2>3. StoreFits
    BY <1>8, <2>1, <2>2, PutFits DEF Mark, StoreFits, Typed, TypeOK
  <2>. QED
    BY <1>8, <2>3, EndTyped DEF Mark, RouteSteps
<1>9. CASE Insert(s)
  <2>1. UNCHANGED rows \/ \E i \in Ids : Put(i, Written(req[s], Current(s)))
    BY <1>9 DEF Insert
  <2>2. StoreFits
    BY <1>9, <2>1, WritesRow, PutFits DEF Insert, StoreFits, Typed, TypeOK
  <2>. QED
    BY <1>9, <2>2, EndTyped DEF Insert, RouteSteps
<1>. QED
  BY <1>1, <1>2, <1>3, <1>4, <1>5, <1>6, <1>7, <1>8, <1>9 DEF Handle

LEMMA StepTyped == Typed /\ [Next]_vars => Typed'
<1>. SUFFICES ASSUME Typed, [Next]_vars PROVE Typed'
  OBVIOUS
<1>1. CASE Tick
  BY <1>1 DEF Tick, handlerVars, Typed, TypeOK, HandlersFit, SlotFits
<1>2. CASE UNCHANGED vars
  BY <1>2 DEF vars, handlerVars, Typed, TypeOK, HandlersFit, SlotFits
<1>. QED
  BY <1>1, <1>2, HandleTyped, ArrivalTyped DEF Next

-----------------------------------------------------------------------------
(* What one step does to one row.                                          *)

\* Handler s writes row i: where it found a row, where none was, or, by an
\* upsert, whatever row has the syncId.
Writes(s, i) ==
    /\ \/ pc[s] = "write" /\ Update(s) /\ target[s] = i
       \/ pc[s] \in {"write", "insert"} /\ rows[i] = None
       \/ pc[s] \in UpsertSteps
    /\ req[s] \in Request
    /\ \E r \in Record :
          /\ rows'[i] = Written(req[s], r)
          /\ pc[s] = "write" => r = Current(s)

Marks(s, i) ==
    /\ pc[s] = "mark" /\ target[s] = i /\ rows[i] # None
    /\ rows'[i] = [rows[i] EXCEPT !.del = TRUE, !.stamp = now]
    /\ "remove" \in table.routes

LEMMA HandleKeeps ==
    ASSUME NEW s \in Slots, Handle(s)
    PROVE  now' = now /\ received' = received /\ table' = table
BY DEF Handle, Refuse, CountPins, Hit, Skip, Miss, Update, Add, Upsert,
       UpsertFails, Settle, FindToRemove, Mark, CheckDuplicate, Insert

LEMMA RowChange ==
    ASSUME Typed, NEW s \in Slots, Handle(s), NEW i \in Ids,
           rows'[i] # rows[i]
    PROVE  Writes(s, i) \/ Marks(s, i)
<1>1. CASE Update(s)
  <2>1. pc[s] = "write" /\ target[s] \in Ids
        /\ Put(target[s], Written(req[s], Current(s)))
    BY <1>1 DEF Update, Typed, TypeOK
  <2>2. Current(s) \in Record /\ req[s] \in Request
    BY <2>1, CurrentRecord DEF InTurnSteps
  <2>3. i = target[s] /\ rows'[i] = Written(req[s], Current(s))
    BY <2>1, WritesRow, PutFits DEF Typed
  <2>. QED
    BY <1>1, <2>1, <2>2, <2>3 DEF Writes
<1>2. CASE Add(s) \/ Insert(s)
  <2>1. pc[s] \in {"write", "insert"}
        /\ \E j \in Ids : rows[j] = None /\ Put(j, Written(req[s], Current(s)))
    BY <1>2 DEF Add, Insert
  <2>2. Current(s) \in Record /\ req[s] \in Request
    BY <2>1, CurrentRecord DEF InTurnSteps
  <2>3. rows[i] = None /\ rows'[i] = Written(req[s], Current(s))
    BY <2>1, WritesRow, PutFits DEF Typed
  <2>. QED
    BY <2>1, <2>2, <2>3 DEF Writes
<1>3. ASSUME NEW k \in left[s], Upsert(s, k)
      PROVE  Writes(s, i)
  <2>1. pc[s] \in UpsertSteps
        /\ \E j \in Ids : Put(j, Written(req[s], req[s].batch[k]))
    BY <1>3 DEF Upsert
  <2>2. rows'[i] = Written(req[s], req[s].batch[k])
    BY <2>1, UpsertsRow, PutFits DEF Typed
  <2>. QED
    BY <2>1, <2>2, UpsertsRow DEF Writes, UpsertSteps
<1>4. CASE Mark(s)
  <2>1. target[s] \in Ids /\ rows[target[s]] \in Row /\ now \in Nat
        /\ "remove" \in table.routes /\ rows[target[s]] # None
    BY <1>4 DEF Mark, Typed, TypeOK, HandlersFit, SlotFits
  <2>2. [rows[target[s]] EXCEPT !.del = TRUE, !.stamp = now] \in Row
    BY <2>1 DEF Row
  <2>3. i = target[s]
        /\ rows'[i] = [rows[i] EXCEPT !.del = TRUE, !.stamp = now]
    BY <1>4, <2>1, <2>2, PutFits DEF Mark, Typed
  <2>. QED
    BY <1>4, <2>1, <2>3 DEF Mark, Marks
<1>5. CASE Refuse(s) \/ CountPins(s) \/ Hit(s) \/ Skip(s) \/ Miss(s)
           \/ FindToRemove(s) \/ CheckDuplicate(s)
           \/ \E k \in left[s] : UpsertFails(s, k)
  BY <1>5 DEF Refuse, CountPins, Hit, Skip, Miss, FindToRemove,
              CheckDuplicate, UpsertFails
<1>. QED
  BY <1>1, <1>2, <1>3, <1>4, <1>5 DEF Handle

\* Nothing but a handler's step changes a row or the table.
LEMMA StillStep ==
    ASSUME [Next]_vars, ~\E s \in Slots : Handle(s)
    PROVE  rows' = rows /\ table' = table
BY DEF Next, Tick, Push, Remove, Create, Arrives, vars

LEMMA MarkedRow ==
    ASSUME Typed, NEW s \in Slots, NEW i \in Ids, Marks(s, i)
    PROVE  /\ rows[i] \in Row /\ rows'[i].del /\ rows'[i].stamp = now
           /\ rows'[i].by = rows[i].by /\ rows'[i].edit = rows[i].edit
           /\ rows'[i].made = rows[i].made
           /\ rows'[i].signed = rows[i].signed
           /\ table.hides /\ ~table.atOnce
<1>1. rows[i] \in Row /\ "remove" \in table.routes
  BY DEF Marks, Typed, TypeOK
<1>2. table.hides /\ ~table.atOnce
  BY <1>1, TableFits DEF Typed, SoundRoutes, RouteShape
<1>. QED
  BY <1>1, <1>2 DEF Marks, Row

\* Where records are taken in turn, the stamp is the server's.
LEMMA WrittenFits ==
    ASSUME Typed, NEW q \in Request, NEW r \in Record
    PROVE  /\ ~table.hides => ~Written(q, r).del
           /\ ~table.atOnce =>
                 /\ Written(q, r).stamp = now
                 /\ Written(q, r).made <= now + Skew
BY WrittenRow, IncomingNat, TableFits DEF Typed, SoundRoutes, RouteShape

LEMMA StepRows == Typed /\ RowsFit /\ [Next]_vars => RowsFit'
<1>. SUFFICES ASSUME Typed, RowsFit, [Next]_vars PROVE RowsFit'
  OBVIOUS
<1>. USE AbsenceAssumption, BoundAssumption
<1>1. ASSUME NEW s \in Slots, Handle(s) PROVE RowsFit'
  <2>. SUFFICES ASSUME NEW i \in Ids, rows'[i] # None
                PROVE  /\ ~table.hides => ~rows'[i].del
                       /\ ~table.atOnce =>
                             /\ rows'[i].stamp <= now
                             /\ rows'[i].made <= rows'[i].stamp + Skew
    BY <1>1, HandleKeeps DEF RowsFit
  <2>1. CASE rows'[i] = rows[i]
    BY <2>1 DEF RowsFit
  <2>2. CASE Writes(s, i)
    BY <2>2, WrittenFits DEF Writes, Typed, TypeOK
  <2>3. CASE Marks(s, i)
    <3>1. rows[i] # None /\ rows[i].stamp \in Nat /\ rows[i].made \in Nat
          /\ now \in Nat
      BY <2>3, MarkedRow DEF Marks, Row, Typed, TypeOK
    <3>. QED
      BY <2>3, <3>1, MarkedRow DEF RowsFit
  <2>. QED
    BY <1>1, <2>1, <2>2, <2>3, RowChange
<1>2. CASE ~\E s \in Slots : Handle(s)
  <2>1. rows' = rows /\ table' = table
    BY <1>2, StillStep
  <2>2. now \in Nat /\ now' \in Nat /\ now <= now'
    BY <1>2 DEF Next, Tick, Push, Remove, Create, Arrives, vars, Typed, TypeOK
  <2>3. \A i \in Ids : rows[i] # None => rows[i].stamp \in Nat
    BY DEF Typed, TypeOK, Row
  <2>. QED
    BY <2>1, <2>2, <2>3 DEF RowsFit
<1>. QED
  BY <1>1, <1>2

-----------------------------------------------------------------------------
(* What one step does to one handler.                                      *)

\* A running handler keeps its request, and is never unanswered again.
LEMMA HandleFrame ==
    ASSUME Typed, NEW s \in Slots, Handle(s)
    PROVE  /\ \A q \in Slots \ {s} :
                 /\ pc'[q] = pc[q] /\ req'[q] = req[q] /\ at'[q] = at[q]
                 /\ target'[q] = target[q] /\ existing'[q] = existing[q]
           /\ Running(s) /\ req[s] \in Request
           /\ pc'[s] # "idle" => req'[s] = req[s]
           /\ pc[s] = "late" => pc'[s] \in {"idle", "late"}
           /\ pc'[s] = "late" => req[s].dev \in sour' \/ pc[s] = "late"
           /\ sour \subseteq sour'
<1>1. CASE \/ CountPins(s) \/ Miss(s) \/ FindToRemove(s)
           \/ CheckDuplicate(s) \/ Hit(s)
  <2>1. pc[s] \in InTurnSteps \cup RouteSteps
        /\ (\E step \in InTurnSteps \cup RouteSteps : Goto(s, step))
    BY <1>1 DEF CountPins, Miss, FindToRemove, CheckDuplicate, Hit,
                InTurnSteps, RouteSteps
  <2>. QED
    BY <1>1, <2>1 DEF CountPins, Miss, FindToRemove, CheckDuplicate, Hit,
         Goto, Typed, TypeOK, Running, InTurnSteps, RouteSteps
<1>2. CASE Refuse(s) \/ Mark(s) \/ Insert(s) \/ Skip(s) \/ Update(s) \/ Add(s)
  <2>1. pc[s] \in InTurnSteps \cup RouteSteps /\ (End(s) \/ Advance(s))
        /\ sour \subseteq sour'
    BY <1>2 DEF Refuse, Mark, Insert, Skip, Update, Add, InTurnSteps,
                RouteSteps
  <2>2. /\ \A q \in Slots \ {s} :
              /\ pc'[q] = pc[q] /\ req'[q] = req[q] /\ at'[q] = at[q]
              /\ target'[q] = target[q] /\ existing'[q] = existing[q]
        /\ pc'[s] \in {"idle", "bySync"}
        /\ pc'[s] # "idle" => req'[s] = req[s]
    BY <2>1 DEF End, Advance, Goto, Forget, Typed, TypeOK
  <2>. QED
    BY <2>1, <2>2 DEF Typed, TypeOK, Running, InTurnSteps, RouteSteps
<1>3. ASSUME NEW k \in left[s], Upsert(s, k) \/ UpsertFails(s, k)
      PROVE  /\ \A q \in Slots \ {s} :
                   /\ pc'[q] = pc[q] /\ req'[q] = req[q] /\ at'[q] = at[q]
                   /\ target'[q] = target[q] /\ existing'[q] = existing[q]
             /\ Running(s) /\ req[s] \in Request
             /\ pc'[s] # "idle" => req'[s] = req[s]
             /\ pc[s] = "late" => pc'[s] \in {"idle", "late"}
             /\ pc'[s] = "late" => req[s].dev \in sour' \/ pc[s] = "late"
             /\ sour \subseteq sour'
  <2>1. PICK step : /\ Settle(s, k, step)
                    /\ step \in {"idle", "late"} \/ step = pc[s]
                    /\ pc[s] = "late" => step \in {"idle", "late"}
                    /\ step = "late" => req[s].dev \in sour' \/ pc[s] = "late"
    BY <1>3 DEF Upsert, UpsertFails, After, UpsertSteps
  <2>2. pc[s] \in UpsertSteps /\ sour \subseteq sour'
    BY <1>3 DEF Upsert, UpsertFails
  <2>. QED
    BY <2>1, <2>2 DEF Settle, Typed, TypeOK, Running, UpsertSteps
<1>. QED
  BY <1>1, <1>2, <1>3 DEF Handle

LEMMA ArrivalFrame ==
    ASSUME Typed, NEW s \in Slots, NEW d \in Devices,
           \/ \E b \in Batches[table] : Push(s, d, b)
           \/ \E i \in Ids : Remove(s, d, i)
           \/ \E b \in Batches[table] :
                 Len(b) = 1 /\ Fresh(b[1]) /\ Create(s, d, b[1])
    PROVE  /\ \A q \in Slots \ {s} :
                 /\ pc'[q] = pc[q] /\ req'[q] = req[q] /\ at'[q] = at[q]
                 /\ target'[q] = target[q] /\ existing'[q] = existing[q]
           /\ ~Running(s) /\ pc'[s] \notin {"late", "write"}
           /\ req'[s].dev = d /\ req'[s].edit = received'
           /\ received \in Nat /\ received' \in Nat /\ received <= received'
           /\ \A q \in Slots : Unanswered(q) => req[q].dev # d
           /\ UNCHANGED <<now, table, rows, sour>>
<1>1. ASSUME NEW n \in Nat, Arrives(s, d, n)
      PROVE  received \in Nat /\ received' \in Nat /\ received <= received'
  BY <1>1 DEF Arrives, Typed, TypeOK
<1>2. ASSUME NEW b \in Batches[table] PROVE Len(b) \in Nat
  BY BatchAssumption DEF Typed, TypeOK
<1>3. \E n \in Nat : Arrives(s, d, n)
  BY <1>2 DEF Push, Remove, Create
<1>. QED
  BY <1>1, <1>3 DEF Push, Remove, Create, Arrives, Typed, TypeOK

LEMMA StepReads == Typed /\ RowsFit /\ ReadsFit /\ [Next]_vars => ReadsFit'
<1>. SUFFICES ASSUME Typed, RowsFit, ReadsFit, [Next]_vars PROVE ReadsFit'
  OBVIOUS
<1>. USE AbsenceAssumption
<1>1. ASSUME NEW s \in Slots, Handle(s) PROVE ReadsFit'
  <2>. SUFFICES ASSUME NEW q \in Slots, pc'[q] = "write", target'[q] # None
                PROVE  /\ existing'[q] # None /\ ~existing'[q].del
                       /\ table.compares =>
                             existing'[q].stamp <= Incoming(Current(q))'
    BY <1>1, HandleKeeps DEF ReadsFit
  <2>1. CASE q # s
    BY <1>1, <2>1, HandleKeeps, HandleFrame DEF ReadsFit, Incoming, Current
  <2>2. CASE q = s
    <3>1. Hit(s)
      <4>1. CASE Miss(s)
        BY <2>2, <4>1 DEF Miss, Typed, HandlersFit, SlotFits
      <4>2. CASE ~Miss(s)
        BY <1>1, <2>2, <4>2
           DEF Handle, Refuse, CountPins, Skip, Update, Add, Upsert, After,
               UpsertFails, FindToRemove, Mark, CheckDuplicate, Insert,
               Settle, End, Advance, Goto, Typed, TypeOK, UpsertSteps
      <4>. QED
        BY <4>1, <4>2
    <3>2. PICK i \in Hits(s) : /\ ~Newer(rows[i], Current(s))
                               /\ existing' = [existing EXCEPT ![s] = rows[i]]
      BY <3>1 DEF Hit
    <3>3. i \in Ids /\ Visible(rows[i]) /\ existing'[s] = rows[i]
          /\ rows[i] \in Row
      BY <3>2 DEF Hits, Visible, Typed, TypeOK
    <3>4. ~rows[i].del
      BY <3>3 DEF Visible, RowsFit
    <3>5. Incoming(Current(s))' = Incoming(Current(s))
      BY <3>1 DEF Hit, Goto, Incoming, Current
    <3>6. Current(s) \in Record
      BY <3>1, CurrentRecord DEF Hit, InTurnSteps
    <3>7. table.compares => rows[i].stamp <= Incoming(Current(s))
      <4>1. Incoming(Current(s)) \in Nat /\ rows[i].stamp \in Nat
        BY <3>3, <3>6, IncomingNat DEF Typed, Row
      <4>. QED
        BY <3>2, <4>1 DEF Newer
    <3>. QED
      BY <2>2, <3>3, <3>4, <3>5, <3>7 DEF Visible
  <2>. QED
    BY <2>1, <2>2
<1>2. ASSUME NEW s \in Slots, NEW d \in Devices,
             \/ \E b \in Batches[table] : Push(s, d, b)
             \/ \E i \in Ids : Remove(s, d, i)
             \/ \E b \in Batches[table] :
                   Len(b) = 1 /\ Fresh(b[1]) /\ Create(s, d, b[1])
      PROVE  ReadsFit'
  BY <1>2, ArrivalFrame DEF ReadsFit, Incoming, Current
<1>3. CASE Tick
  <2>1. \A r \in Record : Incoming(r) <= Incoming(r)'
    BY <1>3, BoundAssumption DEF Tick, Incoming, Record, Typed, TypeOK
  <2>2. ASSUME NEW s \in Slots, pc[s] = "write", target[s] # None,
               table.compares
        PROVE  existing[s].stamp <= Incoming(Current(s))'
    <3>1. Current(s) \in Record /\ existing[s] \in Row
      BY <2>2, CurrentRecord DEF ReadsFit, Typed, TypeOK, InTurnSteps
    <3>2. Current(s)' = Current(s)
      BY <1>3 DEF Tick, handlerVars, Current
    <3>3. Incoming(Current(s)) <= Incoming(Current(s))'
      BY <2>1, <3>1, <3>2 DEF Incoming
    <3>4. Incoming(Current(s)) \in Nat /\ Incoming(Current(s))' \in Nat
      BY <1>3, <3>1, <3>2, BoundAssumption
         DEF Tick, Incoming, Record, Typed, TypeOK
    <3>. QED
      BY <2>2, <3>1, <3>3, <3>4 DEF ReadsFit, Row
  <2>. QED
    BY <1>3, <2>2 DEF ReadsFit, Tick, handlerVars
<1>4. CASE UNCHANGED vars
  BY <1>4 DEF vars, handlerVars, ReadsFit, Incoming, Current
<1>. QED
  BY <1>1, <1>2, <1>3, <1>4 DEF Next

LEMMA HandleInOrder ==
    ASSUME Typed, InOrder, NEW s \in Slots, Handle(s)
    PROVE  InOrder'
<1>. USE AbsenceAssumption
<1>1. received' = received /\ req[s].edit \in Nat /\ req[s].edit <= received
      /\ received \in Nat
  BY HandleKeeps, HandleFrame DEF InOrder, Request, Typed, TypeOK
<1>2. \A q \in Slots : Running(q)' =>
         /\ Running(q) /\ req'[q] = req[q]
         /\ Unanswered(q)' => Unanswered(q)
  BY HandleFrame DEF Running, Unanswered
<1>3. \A i \in Ids : rows'[i] # None /\ rows'[i] # rows[i] =>
         \/ rows'[i].by = req[s].dev /\ rows'[i].edit = req[s].edit
         \/ /\ rows[i] # None /\ rows'[i].by = rows[i].by
            /\ rows'[i].edit = rows[i].edit
  <2>. SUFFICES ASSUME NEW i \in Ids, rows'[i] # rows[i]
                PROVE  \/ /\ rows'[i].by = req[s].dev
                          /\ rows'[i].edit = req[s].edit
                       \/ /\ rows[i] # None /\ rows'[i].by = rows[i].by
                          /\ rows'[i].edit = rows[i].edit
    OBVIOUS
  <2>1. CASE Writes(s, i)
    BY <2>1, WrittenRow DEF Writes, Typed
  <2>2. CASE Marks(s, i)
    BY <2>2, MarkedRow DEF Marks
  <2>. QED
    BY <2>1, <2>2, RowChange
<1>4. \A q \in Slots : Running(q)' => req'[q].edit <= received'
  BY <1>1, <1>2 DEF InOrder
<1>5. \A i \in Ids : rows'[i] # None => rows'[i].edit <= received'
  BY <1>1, <1>3 DEF InOrder
<1>6. \A q \in Slots : pc'[q] = "late" => req'[q].dev \in sour'
  BY HandleFrame DEF InOrder
<1>7. \A p, q \in Slots :
         Unanswered(p)' /\ Running(q)' /\ req'[q].dev = req'[p].dev =>
            /\ req'[q].edit <= req'[p].edit
            /\ Unanswered(q)' => q = p
  BY <1>2 DEF InOrder, Unanswered
<1>8. \A p \in Slots, i \in Ids :
         Unanswered(p)' /\ rows'[i] # None /\ rows'[i].by = req'[p].dev =>
            rows'[i].edit <= req'[p].edit
  <2>. SUFFICES ASSUME NEW p \in Slots, NEW i \in Ids, Unanswered(p)',
                       rows'[i] # None, rows'[i].by = req'[p].dev
                PROVE  rows'[i].edit <= req'[p].edit
    OBVIOUS
  <2>1. Unanswered(p) /\ req'[p] = req[p]
    BY <1>2 DEF Unanswered
  <2>2. CASE rows'[i].by = req[s].dev /\ rows'[i].edit = req[s].edit
    BY <2>1, <2>2, HandleFrame DEF InOrder
  <2>3. CASE rows[i] # None /\ rows'[i].by = rows[i].by
                /\ rows'[i].edit = rows[i].edit
    BY <2>1, <2>3 DEF InOrder
  <2>. QED
    BY <1>3, <2>2, <2>3
<1>. QED
  BY <1>4, <1>5, <1>6, <1>7, <1>8 DEF InOrder, Running, Unanswered

LEMMA ArrivalInOrder ==
    ASSUME Typed, InOrder, NEW s \in Slots, NEW d \in Devices,
           \/ \E b \in Batches[table] : Push(s, d, b)
           \/ \E i \in Ids : Remove(s, d, i)
           \/ \E b \in Batches[table] :
                 Len(b) = 1 /\ Fresh(b[1]) /\ Create(s, d, b[1])
    PROVE  InOrder'
<1>1. /\ \A q \in Slots \ {s} : pc'[q] = pc[q] /\ req'[q] = req[q]
      /\ ~Running(s) /\ pc'[s] # "late"
      /\ req'[s].dev = d /\ req'[s].edit = received'
      /\ received \in Nat /\ received' \in Nat /\ received <= received'
      /\ \A q \in Slots : Unanswered(q) => req[q].dev # d
      /\ UNCHANGED <<rows, sour>>
  BY ArrivalFrame
<1>2. \A q \in Slots \ {s} : Running(q) => req[q].edit \in Nat
  BY DEF Typed, TypeOK, Running, Request
<1>3. \A i \in Ids : rows[i] # None => rows[i].edit \in Nat
  BY DEF Typed, TypeOK, Row
<1>. QED
  BY <1>1, <1>2, <1>3 DEF InOrder, Running, Unanswered

LEMMA StepInOrder == Typed /\ InOrder /\ [Next]_vars => InOrder'
<1>. SUFFICES ASSUME Typed, InOrder, [Next]_vars PROVE InOrder'
  OBVIOUS
<1>1. CASE Tick
  BY <1>1 DEF Tick, handlerVars, InOrder, Running, Unanswered
<1>2. CASE UNCHANGED vars
  BY <1>2 DEF vars, handlerVars, InOrder, Running, Unanswered
<1>. QED
  BY <1>1, <1>2, HandleInOrder, ArrivalInOrder DEF Next

LEMMA InitIInv == Init => IInv
<1>. SUFFICES ASSUME Init PROVE IInv
  OBVIOUS
<1>1. TypeOK
  BY DEF Init, TypeOK, UpsertSteps, InTurnSteps
<1>2. HandlersFit
  BY DEF Init, HandlersFit, SlotFits, UpsertSteps, InTurnSteps, RouteSteps
<1>3. RowsFit /\ ReadsFit /\ InOrder
  BY DEF Init, RowsFit, ReadsFit, InOrder, Running, Unanswered
<1>. QED
  BY <1>1, <1>2, <1>3 DEF IInv, Typed

LEMMA SpecIInv == Spec => []IInv
<1>1. IInv /\ [Next]_vars => IInv'
  BY StepTyped, StepRows, StepReads, StepInOrder DEF IInv
<1>. QED
  BY <1>1, InitIInv, PTL DEF Spec

-----------------------------------------------------------------------------

\* Rows, requests and steps are what they are meant to be.
THEOREM RoutesTyped == Spec => []TypeOK
<1>1. IInv => TypeOK
  BY DEF IInv, Typed
<1>. QED
  BY <1>1, SpecIInv, PTL

\* A device's edits of a row take effect in the order in which it sent them,
\* on every table, unless a push of it was answered an error while upserts of
\* that push were still to come.
THEOREM EditsInOrder == Spec => OneClientInOrder
<1>1. IInv /\ [Next]_vars =>
         [\A i \in Ids :
             /\ rows[i] # None /\ rows'[i].by = rows[i].by
             /\ table.atOnce => rows[i].by \notin sour
             => rows'[i].edit >= rows[i].edit]_vars
  <2>. SUFFICES ASSUME IInv, [Next]_vars, NEW i \in Ids, rows[i] # None,
                       rows'[i].by = rows[i].by,
                       table.atOnce => rows[i].by \notin sour
                PROVE  rows'[i].edit >= rows[i].edit
    OBVIOUS
  <2>1. rows[i].edit \in Nat /\ Typed /\ InOrder
    BY DEF IInv, Typed, TypeOK, Row
  <2>2. ASSUME NEW s \in Slots, Handle(s), rows'[i] # rows[i]
        PROVE  rows'[i].edit >= rows[i].edit
    <3>1. CASE Writes(s, i)
      <4>1. rows'[i].by = req[s].dev /\ rows'[i].edit = req[s].edit
            /\ req[s].edit \in Nat
        BY <2>1, <3>1, WrittenRow DEF Writes, Typed, Request
      <4>2. Unanswered(s)
        <5>1. pc[s] \in {"write"} \cup UpsertSteps
          BY <3>1 DEF Writes
        <5>2. pc[s] # "late"
          BY <2>1, <4>1, <5>1
             DEF InOrder, Typed, HandlersFit, SlotFits, UpsertSteps
        <5>. QED
          BY <5>1, <5>2 DEF Unanswered, Running, UpsertSteps
      <4>. QED
        BY <2>1, <4>1, <4>2 DEF InOrder
    <3>2. CASE Marks(s, i)
      BY <2>1, <3>2, MarkedRow
    <3>. QED
      BY <2>1, <2>2, <3>1, <3>2, RowChange
  <2>. QED
    BY <2>1, <2>2, StillStep
<1>. QED
  BY <1>1, SpecIInv, PTL DEF Spec, OneClientInOrder

\* No push brings a deleted row back, where records are taken in turn, but
\* one that had found the row before it was deleted.
THEOREM DeletionsStay == Spec => DeletionFinal
<1>1. IInv /\ [Next]_vars =>
         [\A i \in Ids :
             /\ ~table.atOnce
             /\ rows[i] # None /\ rows[i].del /\ ~rows'[i].del
             => \E s \in Slots : /\ pc[s] = "write" /\ target[s] = i
                                 /\ existing[s] # None /\ ~existing[s].del]_vars
  <2>. SUFFICES ASSUME IInv, [Next]_vars, NEW i \in Ids, ~table.atOnce,
                       rows[i] # None, rows[i].del, ~rows'[i].del
                PROVE  \E s \in Slots :
                          /\ pc[s] = "write" /\ target[s] = i
                          /\ existing[s] # None /\ ~existing[s].del
    OBVIOUS
  <2>1. PICK s \in Slots : Handle(s)
    BY StillStep
  <2>2. Typed /\ ReadsFit /\ i # None
    BY AbsenceAssumption DEF IInv
  <2>3. Writes(s, i)
    BY <2>1, <2>2, RowChange, MarkedRow
  <2>4. pc[s] = "write" /\ target[s] = i
    BY <2>2, <2>3 DEF Writes, Typed, HandlersFit, SlotFits
  <2>. QED
    BY <2>2, <2>4 DEF ReadsFit
<1>. QED
  BY <1>1, SpecIInv, PTL DEF Spec, DeletionFinal

\* Where stamps are compared, no edit replaces one made later than itself by
\* more than the skew, as long as nothing was written in between.
THEOREM LaterEditsKept == Spec => LaterEditKept
<1>1. IInv /\ [Next]_vars =>
         [\A s \in Slots :
             table.compares /\ Update(s) /\ rows[target[s]] = existing[s] =>
                rows'[target[s]].made + Skew >= rows[target[s]].made]_vars
  <2>. SUFFICES ASSUME IInv, NEW s \in Slots, table.compares, Update(s),
                       rows[target[s]] = existing[s]
                PROVE  rows'[target[s]].made + Skew >= rows[target[s]].made
    OBVIOUS
  <2>1. Typed /\ RowsFit /\ ReadsFit
    BY DEF IInv
  <2>2. pc[s] = "write" /\ target[s] \in Ids
        /\ Put(target[s], Written(req[s], Current(s)))
    BY <2>1 DEF Update, Typed, TypeOK
  <2>3. Current(s) \in Record /\ req[s] \in Request
    BY <2>1, <2>2, CurrentRecord DEF InTurnSteps
  <2>4. rows'[target[s]].made = Incoming(Current(s))
        /\ Incoming(Current(s)) \in Nat
    BY <2>1, <2>2, <2>3, WrittenRow, WritesRow, PutFits, IncomingNat DEF Typed
  <2>5. existing[s].stamp <= Incoming(Current(s)) /\ existing[s] # None
    BY <2>1, <2>2, AbsenceAssumption DEF ReadsFit
  <2>6. existing[s] \in Row /\ existing[s].made <= existing[s].stamp + Skew
    BY <2>1, <2>2, <2>5
       DEF RowsFit, Typed, TypeOK, HandlersFit, SlotFits, InTurnSteps
  <2>7. existing[s].made \in Nat /\ existing[s].stamp \in Nat
    BY <2>6 DEF Row
  <2>. QED
    BY <2>4, <2>5, <2>6, <2>7, BoundAssumption
<1>. QED
  BY <1>1, SpecIInv, PTL DEF Spec, LaterEditKept

\* A change is in the next pull of every other device, on the tables whose
\* rows the server stamps.
THEOREM ChangesReachPulls == Spec => ChangesPulled
<1>1. IInv /\ [Next]_vars =>
         [\A i \in Ids :
             /\ rows'[i] # rows[i] /\ Visible(rows[i])'
             /\ ~table.stamps /\ (table.device # "never" => rows'[i].signed)
             => \A e \in Devices \ {rows'[i].by}, since \in 0..(now - 1) :
                   Pulled(rows[i], e, since)']_vars
  <2>. SUFFICES ASSUME IInv, [Next]_vars, NEW i \in Ids,
                       rows'[i] # rows[i], Visible(rows[i])', ~table.stamps,
                       table.device # "never" => rows'[i].signed,
                       NEW e \in Devices \ {rows'[i].by},
                       NEW since \in 0..(now - 1)
                PROVE  Pulled(rows[i], e, since)'
    BY DEF Visible, Pulled
  <2>1. PICK s \in Slots : Handle(s)
    BY StillStep
  <2>2. Typed /\ RowsFit' /\ now \in Nat /\ table' = table
    BY <2>1, HandleKeeps, StepRows DEF IInv, Typed, TypeOK
  <2>3. rows'[i].stamp = now
    <3>1. CASE Writes(s, i)
      BY <2>2, <3>1, WrittenRow DEF Writes, Typed
    <3>2. CASE Marks(s, i)
      BY <2>2, <3>2, MarkedRow
    <3>. QED
      BY <2>1, <2>2, <3>1, <3>2, RowChange
  <2>4. ~rows'[i].del
    BY <2>2 DEF RowsFit, Visible
  <2>. QED
    BY <2>2, <2>3, <2>4 DEF Pulled
<1>. QED
  BY <1>1, SpecIInv, PTL DEF Spec, ChangesPulled

-----------------------------------------------------------------------------
(* The quick-access cap, counted before a batch is written.                *)

Pins(rs) == {i \in Ids : rs[i] # None /\ rs[i].pin /\ ~rs[i].del}

\* Record r names row i, by one of the unique columns.
Names(r, row) == row.sync = r.sync \/ row.key = r.key

Others(rs, b) == {i \in Pins(rs) : \A k \in DOMAIN b : ~Names(b[k], rs[i])}

\* The pinned rows that a record before k has pinned, and those that a record
\* from k on will find.
PinnedBefore(rs, b, k) ==
    {i \in Pins(rs) : \E j \in DOMAIN b :
        j < k /\ b[j].pin /\ ~b[j].del /\ b[j].sync = rs[i].sync}

NamedFrom(rs, b, k) ==
    {i \in Pins(rs) : \E j \in DOMAIN b : j >= k /\ Names(b[j], rs[i])}

Covered(rs, b, k) ==
    Pins(rs) \subseteq Others(rs, b) \cup PinnedBefore(rs, b, k)
                          \cup NamedFrom(rs, b, k)

CapLeft(rs, b) ==
    Cardinality(Others(rs, b)) + Cardinality(IncomingPinned(b)) <= QuickCap

Pushing(s) == pc[s] \in InTurnSteps

\* One push at a time; the row it is to update is named by its record; what
\* it has not counted is what it has pinned and what it has still to find.
PushCounts ==
    /\ \A s, q \in Slots : Pushing(s) /\ Pushing(q) => s = q
    /\ \A i, j \in Ids : rows[i] # None /\ rows[j] # None
                            /\ rows[i].sync = rows[j].sync => i = j
    /\ \A s \in Slots :
          /\ pc[s] = "count" => at[s] = 1
          /\ pc[s] = "write" /\ target[s] # None =>
                Names(Current(s), rows[target[s]])
          /\ pc[s] \in {"bySync", "byKey", "write"} =>
                /\ CapLeft(rows, req[s].batch)
                /\ Covered(rows, req[s].batch, at[s])
    /\ (\A s \in Slots : Pushing(s) => at[s] = 1) =>
          Cardinality(Pins(rows)) <= QuickCap

PinsSound ==
    /\ ~table.pins => \A i \in Ids : rows[i] # None => ~rows[i].pin
    /\ table.pins => \A s \in Slots : pc[s] \notin {"duplicate", "insert"}
    /\ table.pins /\ calm => PushCounts

-----------------------------------------------------------------------------
(* Sets of rows.                                                           *)

LEMMA SameSets ==
    ASSUME NEW b
    PROVE  /\ QuickAccess = Pins(rows)
           /\ OtherPinned(b) = Others(rows, b)
BY DEF QuickAccess, Pins, OtherPinned, Others, Names, Visible

LEMMA IncomingFinite ==
    ASSUME NEW b \in Seq(Record)
    PROVE  IsFiniteSet(IncomingPinned(b))
<1>. DEFINE K == {j \in DOMAIN b : b[j].pin /\ ~b[j].del}
            f == [k \in K |-> b[k].sync]
<1>1. IsFiniteSet(DOMAIN b)
  BY FS_Interval
<1>2. IsFiniteSet(K)
  BY <1>1, FS_Subset
<1>3. f \in Surjection(K, IncomingPinned(b))
  BY Fun_IsSurj DEF IncomingPinned
<1>. QED
  BY <1>2, <1>3, FS_Surjection

\* The rows a batch has pinned, once it is through, are no more than the
\* records it was counted by, since no two rows have one syncId.
LEMMA PinnedCount ==
    ASSUME NEW rs, NEW b \in Seq(Record), IsFiniteSet(Ids),
           \A i, j \in Ids : rs[i] # None /\ rs[j] # None
                                /\ rs[i].sync = rs[j].sync => i = j,
           CapLeft(rs, b),
           Pins(rs) \subseteq Others(rs, b) \cup PinnedBefore(rs, b, Len(b) + 1)
    PROVE  Cardinality(Pins(rs)) <= QuickCap
<1>. DEFINE B == PinnedBefore(rs, b, Len(b) + 1)
            I == IncomingPinned(b)
            O == Others(rs, b)
            f == [i \in B |-> rs[i].sync]
<1>1. IsFiniteSet(O) /\ IsFiniteSet(B) /\ IsFiniteSet(I)
  BY FS_Subset, IncomingFinite DEF Others, Pins, PinnedBefore
<1>2. f \in Injection(B, I)
  <2>1. f \in [B -> I]
    BY DEF PinnedBefore, IncomingPinned
  <2>2. \A i, j \in B : f[i] = f[j] => i = j
    BY DEF PinnedBefore, Pins
  <2>. QED
    BY <2>1, <2>2, Fun_IsInj
<1>3. Cardinality(B) <= Cardinality(I)
  BY <1>1, <1>2, FS_Injection
<1>4. /\ IsFiniteSet(O \cup B)
      /\ Cardinality(O \cup B) =
            Cardinality(O) + Cardinality(B) - Cardinality(O \cap B)
      /\ IsFiniteSet(O \cap B)
  BY <1>1, FS_Union, FS_Subset
<1>5. /\ IsFiniteSet(Pins(rs))
      /\ Cardinality(Pins(rs)) <= Cardinality(O \cup B)
  BY <1>4, FS_Subset
<1>6. /\ Cardinality(O) \in Nat /\ Cardinality(B) \in Nat
      /\ Cardinality(I) \in Nat /\ Cardinality(O \cap B) \in Nat
      /\ Cardinality(O \cup B) \in Nat /\ Cardinality(Pins(rs)) \in Nat
  BY <1>1, <1>4, <1>5, FS_CardinalityType
<1>7. Cardinality(O) + Cardinality(I) <= QuickCap
  BY DEF CapLeft
<1>. HIDE DEF B, I, O
<1>. QED
  BY <1>3, <1>4, <1>5, <1>6, <1>7, BoundAssumption

\* The routes whose rows are capped.
LEMMA PinsTable ==
    ASSUME TypeOK, table.pins
    PROVE  /\ ~table.atOnce /\ ~table.compares /\ table.deletes
           /\ table.key = "adopted" /\ table.routes = {"remove"}
<1>1. table \in RestTables
  BY TablesAssumption DEF TypeOK
<1>2. ASSUME table # CategoryRoutes
      PROVE  ~table.pins
  BY <1>1, <1>2 DEF RestTables, CategoryRoutes, ShelfLocationRoutes, ProductRoutes, UnitConversionRoutes,
     CustomerRoutes, UtangRoutes, SaleRoutes, ChargeRoutes, PartyRoutes, TransactionTypeRoutes,
     MovementCategoryRoutes, FeeTransactionRoutes, LedgerEntryRoutes,
     MonitoringSessionRoutes, InTurn, AtOnce, Shape,
     ShelfLocation, Product, ProductUnitConversion, Customer, UtangRecord,
     Sale, Charge, Party, TransactionType, MovementCategory, FeeTransaction,
     LedgerEntry, MonitoringSession
<1>3. table = CategoryRoutes
  BY <1>2
<1>. QED
  BY <1>3 DEF CategoryRoutes, InTurn, ProductCategory, Shape

\* Writing row i for record k moves it from the rows to be found to the rows
\* pinned, and the unique indexes leave no other row for record k to find.
LEMMA WriteCovers ==
    ASSUME NEW rs \in [Ids -> Row \cup {None}], NEW i \in Ids, NEW n \in Row,
           NEW b \in Seq(Record), NEW k \in DOMAIN b,
           n.sync = b[k].sync, n.key = b[k].key,
           n.pin = b[k].pin, n.del = b[k].del,
           rs[i] # None => Names(b[k], rs[i]),
           \A j \in Ids \ {i} : rs[j] # None => ~Names(b[k], rs[j]),
           Covered(rs, b, k)
    PROVE  /\ Others([rs EXCEPT ![i] = n], b) = Others(rs, b)
           /\ Covered([rs EXCEPT ![i] = n], b, k + 1)
<1>. DEFINE rt == [rs EXCEPT ![i] = n]
<1>1. rt[i] = n /\ n # None /\ \A j \in Ids \ {i} : rt[j] = rs[j]
  BY AbsenceAssumption
<1>2. \A j \in Ids \ {i} : j \in Pins(rt) <=> j \in Pins(rs)
  BY <1>1 DEF Pins
<1>3. i \notin Others(rs, b) /\ i \notin Others(rt, b)
  BY <1>1 DEF Others, Pins, Names
<1>4. Others(rt, b) = Others(rs, b)
  <2>1. \A j \in Others(rt, b) : j \in Ids \ {i} /\ j \in Pins(rs)
    BY <1>2, <1>3 DEF Others, Pins
  <2>2. \A j \in Others(rs, b) : j \in Ids \ {i} /\ j \in Pins(rt)
    BY <1>2, <1>3 DEF Others, Pins
  <2>. HIDE DEF rt
  <2>3. Others(rt, b) \subseteq Others(rs, b)
    BY <1>1, <2>1 DEF Others
  <2>4. Others(rs, b) \subseteq Others(rt, b)
    BY <1>1, <2>2 DEF Others
  <2>. QED
    BY <2>3, <2>4
<1>5. DOMAIN b \subseteq Nat
  OBVIOUS
<1>. HIDE DEF rt
<1>6. ASSUME NEW j \in Pins(rt), j \notin Others(rt, b)
      PROVE  j \in PinnedBefore(rt, b, k + 1) \cup NamedFrom(rt, b, k + 1)
  <2>1. CASE j = i
    <3>1. b[k].pin /\ ~b[k].del /\ b[k].sync = rt[i].sync /\ k < k + 1
      BY <1>1, <1>5, <1>6, <2>1 DEF Pins
    <3>. QED
      BY <1>6, <2>1, <3>1 DEF PinnedBefore
  <2>2. CASE j # i
    <3>1. j \in Ids /\ j \in Pins(rs) /\ rt[j] = rs[j] /\ rs[j] # None
      BY <1>1, <1>2, <1>6, <2>2 DEF Pins
    <3>2. CASE j \in PinnedBefore(rs, b, k)
      <4>1. PICK l \in DOMAIN b :
                l < k /\ b[l].pin /\ ~b[l].del /\ b[l].sync = rs[j].sync
        BY <3>2 DEF PinnedBefore
      <4>2. l < k + 1
        BY <4>1, <1>5
      <4>. QED
        BY <1>6, <3>1, <4>1, <4>2 DEF PinnedBefore
    <3>3. CASE j \in NamedFrom(rs, b, k)
      <4>1. PICK l \in DOMAIN b : l >= k /\ Names(b[l], rs[j])
        BY <3>3 DEF NamedFrom
      <4>2. l # k
        BY <2>2, <3>1, <4>1
      <4>3. l >= k + 1
        BY <4>1, <4>2, <1>5
      <4>. QED
        BY <1>6, <3>1, <4>1, <4>3 DEF NamedFrom
    <3>4. j \notin Others(rs, b)
      BY <1>4, <1>6
    <3>. QED
      BY <3>1, <3>2, <3>3, <3>4 DEF Covered
  <2>. QED
    BY <2>1, <2>2
<1>7. Covered(rt, b, k + 1)
  BY <1>6 DEF Covered
<1>. QED
  BY <1>4, <1>7 DEF rt

\* Rows stay what they are, or are deleted.
Shrinks(rs, rt) ==
    \A i \in Ids :
        /\ rt[i] # None <=> rs[i] # None
        /\ rs[i] # None =>
              /\ rt[i].sync = rs[i].sync /\ rt[i].key = rs[i].key
              /\ rt[i].pin /\ ~rt[i].del => rs[i].pin /\ ~rs[i].del

LEMMA ShrinkKeeps ==
    ASSUME NEW rs, NEW rt, Shrinks(rs, rt), IsFiniteSet(Ids)
    PROVE  /\ Cardinality(Pins(rs)) <= QuickCap =>
                 Cardinality(Pins(rt)) <= QuickCap
           /\ \A b \in Seq(Record), k \in Nat :
                 /\ CapLeft(rs, b) => CapLeft(rt, b)
                 /\ Covered(rs, b, k) => Covered(rt, b, k)
<1>1. Pins(rt) \subseteq Pins(rs)
  BY DEF Shrinks, Pins
<1>2. IsFiniteSet(Pins(rs)) /\ IsFiniteSet(Pins(rt))
  BY FS_Subset DEF Pins
<1>3. Cardinality(Pins(rt)) <= Cardinality(Pins(rs))
  BY <1>1, <1>2, FS_Subset
<1>4. Cardinality(Pins(rs)) \in Nat /\ Cardinality(Pins(rt)) \in Nat
  BY <1>2, FS_CardinalityType
<1>5. ASSUME NEW b \in Seq(Record), NEW k \in Nat
      PROVE  /\ CapLeft(rs, b) => CapLeft(rt, b)
             /\ Covered(rs, b, k) => Covered(rt, b, k)
  <2>1. Others(rt, b) \subseteq Others(rs, b)
    BY <1>1 DEF Others, Names, Shrinks, Pins
  <2>2. IsFiniteSet(Others(rs, b)) /\ IsFiniteSet(Others(rt, b))
    BY <1>2, FS_Subset DEF Others
  <2>3. Cardinality(Others(rt, b)) <= Cardinality(Others(rs, b))
    BY <2>1, <2>2, FS_Subset
  <2>4. /\ Cardinality(Others(rs, b)) \in Nat
        /\ Cardinality(Others(rt, b)) \in Nat
        /\ Cardinality(IncomingPinned(b)) \in Nat
    BY <2>2, IncomingFinite, FS_CardinalityType
  <2>5. Covered(rs, b, k) => Covered(rt, b, k)
    BY <1>1 DEF Covered, Others, PinnedBefore, NamedFrom, Names, Shrinks, Pins
  <2>. QED
    BY <2>3, <2>4, <2>5, BoundAssumption DEF CapLeft
<1>. QED
  BY <1>3, <1>4, <1>5, BoundAssumption

\* What the pushes have counted stays, when no row is written and the handler
\* that steps upholds its own part.
LEMMA StillCounts ==
    ASSUME Typed, PushCounts, IsFiniteSet(Ids), Shrinks(rows, rows'),
           NEW s \in Slots,
           \A q \in Slots \ {s} : /\ pc'[q] = pc[q] /\ req'[q] = req[q]
                                  /\ at'[q] = at[q] /\ target'[q] = target[q],
           Pushing(s)' => \A q \in Slots \ {s} : ~Pushing(q),
           pc'[s] = "count" => at'[s] = 1,
           pc'[s] = "write" /\ target'[s] # None =>
               Names(req'[s].batch[at'[s]], rows'[target'[s]]),
           pc'[s] \in {"bySync", "byKey", "write"} =>
               /\ CapLeft(rows', req'[s].batch)
               /\ Covered(rows', req'[s].batch, at'[s]),
           (\A q \in Slots : Pushing(q)' => at'[q] = 1)
              => \A q \in Slots : Pushing(q) => at[q] = 1
    PROVE  PushCounts'
<1>1. \A p, q \in Slots : Pushing(p)' /\ Pushing(q)' => p = q
  BY DEF PushCounts, Pushing
<1>2. \A i, j \in Ids : rows'[i] # None /\ rows'[j] # None
                           /\ rows'[i].sync = rows'[j].sync => i = j
  BY DEF PushCounts, Shrinks
<1>3. ASSUME NEW q \in Slots \ {s}
      PROVE  /\ pc'[q] = "count" => at'[q] = 1
             /\ pc'[q] = "write" /\ target'[q] # None =>
                   Names(req'[q].batch[at'[q]], rows'[target'[q]])
             /\ pc'[q] \in {"bySync", "byKey", "write"} =>
                   /\ CapLeft(rows', req'[q].batch)
                   /\ Covered(rows', req'[q].batch, at'[q])
  <2>1. pc'[q] = "count" => at'[q] = 1
    BY <1>3 DEF PushCounts
  <2>2. ASSUME pc[q] = "write", target[q] # None
        PROVE  Names(req[q].batch[at[q]], rows'[target[q]])
    <3>1. rows[target[q]] # None /\ target[q] \in Ids
      BY <2>2 DEF Typed, HandlersFit, SlotFits, TypeOK
    <3>2. Names(Current(q), rows[target[q]])
      BY <2>2 DEF PushCounts
    <3>. QED
      BY <3>1, <3>2 DEF Current, Names, Shrinks
  <2>3. ASSUME pc[q] \in {"bySync", "byKey", "write"}
        PROVE  /\ CapLeft(rows', req[q].batch)
               /\ Covered(rows', req[q].batch, at[q])
    <3>1. req[q].batch \in Seq(Record) /\ at[q] \in Nat
      BY <2>3 DEF Typed, TypeOK, Request
    <3>2. CapLeft(rows, req[q].batch) /\ Covered(rows, req[q].batch, at[q])
      BY <2>3 DEF PushCounts
    <3>. QED
      BY <3>1, <3>2, ShrinkKeeps
  <2>. QED
    BY <1>3, <2>1, <2>2, <2>3
<1>4. (\A q \in Slots : Pushing(q)' => at'[q] = 1) =>
          Cardinality(Pins(rows')) <= QuickCap
  BY ShrinkKeeps DEF PushCounts
<1>5. \A q \in Slots :
          /\ pc'[q] = "count" => at'[q] = 1
          /\ pc'[q] = "write" /\ target'[q] # None =>
                Names(req'[q].batch[at'[q]], rows'[target'[q]])
          /\ pc'[q] \in {"bySync", "byKey", "write"} =>
                /\ CapLeft(rows', req'[q].batch)
                /\ Covered(rows', req'[q].batch, at'[q])
  BY <1>3
<1>. QED
  BY <1>1, <1>2, <1>4, <1>5 DEF PushCounts, Current

\* A handler that steps without writing, or that marks a row deleted.
LEMMA ReadCounts ==
    ASSUME Typed, Typed', table.pins, PushCounts, calm', IsFiniteSet(Ids),
           NEW s \in Slots,
           \/ Refuse(s) \/ CountPins(s) \/ Hit(s) \/ Skip(s) \/ Miss(s)
           \/ FindToRemove(s) \/ Mark(s)
    PROVE  PushCounts'
<1>1. \A q \in Slots \ {s} : /\ pc'[q] = pc[q] /\ req'[q] = req[q]
                             /\ at'[q] = at[q] /\ target'[q] = target[q]
  BY DEF Typed, TypeOK, Refuse, CountPins, Hit, Skip, Miss, FindToRemove, Mark,
     Goto, End, Forget, Advance
<1>2. ASSUME Refuse(s) \/ Mark(s)
      PROVE  PushCounts'
  <2>1. pc'[s] = "idle" /\ (Pushing(s) => at[s] = 1)
    BY <1>2 DEF Typed, TypeOK, Refuse, Mark, End, Goto, Pushing, InTurnSteps
  <2>2. Shrinks(rows, rows')
    <3>1. CASE Refuse(s)
      BY <3>1 DEF Refuse, Shrinks
    <3>2. CASE Mark(s)
      <4>1. target[s] \in Ids /\ rows[target[s]] \in Row
        BY <3>2 DEF Mark, Typed, TypeOK, HandlersFit, SlotFits
      <4>2. rows' = [rows EXCEPT ![target[s]] =
                        [rows[target[s]] EXCEPT !.del = TRUE, !.stamp = now]]
        BY <3>2 DEF Mark, Put
      <4>3. [rows[target[s]] EXCEPT !.del = TRUE, !.stamp = now] \in Row
        BY <4>1 DEF Row, Typed, TypeOK
      <4>. QED
        BY <4>1, <4>2, <4>3, AbsenceAssumption
           DEF Shrinks, Typed, TypeOK, Row
    <3>. QED
      BY <1>2, <3>1, <3>2
  <2>. QED
    BY <1>1, <2>1, <2>2, StillCounts DEF Pushing, InTurnSteps
<1>3. ASSUME CountPins(s)
      PROVE  PushCounts'
  <2>1. /\ rows' = rows /\ pc[s] = "count" /\ pc'[s] = "bySync"
        /\ at[s] = 1 /\ at'[s] = 1 /\ req'[s] = req[s]
        /\ WithinCap(req[s].batch)
    BY <1>3 DEF CountPins, Goto, Typed, TypeOK, PushCounts
  <2>2. CapLeft(rows, req[s].batch)
    BY <2>1, SameSets DEF WithinCap, CapLeft
  <2>3. Covered(rows, req[s].batch, 1)
    <3>1. req[s].batch \in Seq(Record)
      BY <2>1 DEF Typed, TypeOK, Request
    <3>2. \A j \in DOMAIN req[s].batch : j >= 1
      BY <3>1
    <3>. QED
      BY <3>2 DEF Covered, Others, NamedFrom
  <2>. QED
    BY <1>1, <2>1, <2>2, <2>3, StillCounts
       DEF Pushing, InTurnSteps, PushCounts, Shrinks
<1>4. ASSUME Hit(s) \/ Miss(s)
      PROVE  PushCounts'
  <2>1. /\ rows' = rows /\ pc[s] \in {"bySync", "byKey"}
        /\ pc'[s] \in {"byKey", "write"}
        /\ at'[s] = at[s] /\ req'[s] = req[s]
    BY <1>4 DEF Hit, Miss, Goto, Typed, TypeOK
  <2>2. target'[s] # None => target'[s] \in Hits(s)
    <3>1. CASE Hit(s)
      <4>1. PICK i \in Hits(s) : target' = [target EXCEPT ![s] = i]
        BY <3>1 DEF Hit
      <4>. QED
        BY <4>1 DEF Typed, TypeOK
    <3>2. CASE Miss(s)
      BY <3>2 DEF Miss, Typed, HandlersFit, SlotFits
    <3>. QED
      BY <1>4, <3>1, <3>2
  <2>3. target'[s] # None => Names(req[s].batch[at[s]], rows[target'[s]])
    BY <2>2 DEF Hits, Names, Current
  <2>. QED
    BY <1>1, <2>1, <2>3, StillCounts
       DEF Pushing, InTurnSteps, PushCounts, Shrinks
<1>5. ASSUME FindToRemove(s)
      PROVE  PushCounts'
  <2>1. rows' = rows /\ pc[s] = "check" /\ pc'[s] = "mark" /\ at'[s] = at[s]
    BY <1>5 DEF FindToRemove, Goto, Typed, TypeOK
  <2>. QED
    BY <1>1, <2>1, StillCounts DEF Pushing, InTurnSteps, PushCounts, Shrinks
<1>6. ~Skip(s)
  BY PinsTable DEF Skip, Newer, Typed
<1>. QED
  BY <1>2, <1>3, <1>4, <1>5, <1>6

\* A handler that writes the row of its record.
LEMMA WriteCounts ==
    ASSUME Typed, Typed', table.pins, PushCounts, IsFiniteSet(Ids),
           NEW s \in Slots, Update(s) \/ Add(s)
    PROVE  PushCounts'
<1>. DEFINE b == req[s].batch
            k == at[s]
            n == Written(req[s], Current(s))
<1>1. PICK i \in Ids : /\ ~Clashes(i, n) /\ Put(i, n)
                       /\ rows[i] # None => Names(Current(s), rows[i])
  <2>1. CASE Update(s)
    BY <2>1 DEF Update, Typed, TypeOK, PushCounts
  <2>2. CASE Add(s)
    BY <2>2 DEF Add
  <2>. QED
    BY <2>1, <2>2
<1>2. /\ pc[s] = "write" /\ Advance(s) /\ req[s] \in Request
      /\ b \in Seq(Record) /\ k \in DOMAIN b /\ b[k] \in Record
      /\ n \in Row
  <2>1. pc[s] = "write" /\ Advance(s)
    BY DEF Update, Add
  <2>2. req[s] \in Request /\ b \in Seq(Record) /\ k \in DOMAIN b
    BY <2>1 DEF Typed, TypeOK, InTurnSteps, Request
  <2>. QED
    BY <2>1, <2>2, WritesRow
<1>3. rows' = [rows EXCEPT ![i] = n] /\ rows'[i] = n
      /\ \A j \in Ids \ {i} : rows'[j] = rows[j]
  BY <1>1, <1>2, PutFits DEF Put, Typed
<1>4. n.sync = b[k].sync /\ n.key = b[k].key
      /\ n.pin = b[k].pin /\ n.del = b[k].del
  BY <1>2, PinsTable DEF Typed, Written, Current, Record
<1>5. \A j \in Ids \ {i} : rows[j] # None => ~Names(b[k], rows[j])
  BY <1>1, <1>4, PinsTable DEF Typed, Clashes, Conflicting, Names
<1>6. CapLeft(rows, b) /\ Covered(rows, b, k)
  BY <1>2 DEF PushCounts
<1>7. CapLeft(rows', b) /\ Covered(rows', b, k + 1)
  <2>1. rows \in [Ids -> Row \cup {None}]
        /\ (rows[i] # None => Names(b[k], rows[i]))
    BY <1>1 DEF Typed, TypeOK, Current
  <2>. HIDE DEF b, k, n
  <2>2. Others(rows', b) = Others(rows, b) /\ Covered(rows', b, k + 1)
    BY <1>2, <1>3, <1>4, <1>5, <1>6, <2>1, WriteCovers
  <2>. QED
    BY <1>6, <2>2 DEF CapLeft
<1>8. \A p, q \in Ids : rows'[p] # None /\ rows'[q] # None
                           /\ rows'[p].sync = rows'[q].sync => p = q
  BY <1>3, <1>4, <1>5 DEF PushCounts, Names
<1>9. \A q \in Slots \ {s} : pc'[q] = pc[q] /\ ~Pushing(q)
  BY <1>2 DEF Advance, End, Goto, PushCounts, Pushing, InTurnSteps,
              Typed, TypeOK
<1>10. CASE k = Len(b)
  <2>1. pc'[s] = "idle"
    BY <1>2, <1>10 DEF Advance, End, Goto, Typed, TypeOK
  <2>2. NamedFrom(rows', b, Len(b) + 1) = {}
    BY <1>2 DEF NamedFrom
  <2>3. Cardinality(Pins(rows')) <= QuickCap
    <3>. HIDE DEF b, k
    <3>. QED
      BY <1>2, <1>7, <1>8, <1>10, <2>2, PinnedCount DEF Covered
  <2>. QED
    BY <1>8, <1>9, <2>1, <2>3 DEF PushCounts, Pushing, InTurnSteps
<1>11. CASE k # Len(b)
  <2>1. pc'[s] = "bySync" /\ at'[s] = k + 1 /\ req'[s] = req[s]
    BY <1>2, <1>11 DEF Advance, Typed, TypeOK
  <2>2. at'[s] # 1
    BY <1>2, <2>1
  <2>. QED
    BY <1>7, <1>8, <1>9, <2>1, <2>2 DEF PushCounts, Pushing, InTurnSteps
<1>. QED
  BY <1>10, <1>11

\* A request that arrives while the counts are sound.
LEMMA ArrivalCounts ==
    ASSUME Typed, table.pins, PushCounts, calm', IsFiniteSet(Ids),
           NEW s \in Slots, NEW d \in Devices,
           \/ \E b \in Batches[table] : Push(s, d, b)
           \/ \E i \in Ids : Remove(s, d, i)
    PROVE  PushCounts'
<1>1. /\ \A q \in Slots \ {s} : /\ pc'[q] = pc[q] /\ req'[q] = req[q]
                                /\ at'[q] = at[q] /\ target'[q] = target[q]
      /\ rows' = rows /\ pc[s] = "idle"
  BY DEF Push, Remove, Arrives, Running, Typed, TypeOK
<1>2. \/ /\ pc'[s] = "count" /\ at'[s] = 1
         /\ \A q \in Slots : pc[q] = "idle"
      \/ pc'[s] = "check"
  BY PinsTable DEF Push, Remove, Arrives, Running, Typed, TypeOK
<1>. QED
  BY <1>1, <1>2, StillCounts DEF Pushing, InTurnSteps, PushCounts, Shrinks

\* Category routes never insert outside a push.
LEMMA NoCreation ==
    ASSUME Typed, table.pins, [Next]_vars,
           \A s \in Slots : pc[s] \notin {"duplicate", "insert"}
    PROVE  \A s \in Slots : pc'[s] \notin {"duplicate", "insert"}
<1>. SUFFICES ASSUME NEW q \in Slots
              PROVE  pc'[q] \notin {"duplicate", "insert"}
  OBVIOUS
<1>1. ASSUME NEW s \in Slots, Handle(s)
      PROVE  pc'[q] \notin {"duplicate", "insert"}
  <2>1. CASE q # s
    BY <1>1, <2>1, HandleFrame
  <2>2. pc[s] \notin UpsertSteps
    BY PinsTable DEF Typed, HandlersFit, SlotFits
  <2>. QED
    BY <1>1, <2>1, <2>2
       DEF Handle, Refuse, CountPins, Hit, Skip, Miss, Update, Add, Upsert,
           UpsertFails, FindToRemove, Mark, CheckDuplicate, Insert, Advance,
           End, Goto, Forget, Typed, TypeOK
<1>2. ASSUME NEW s \in Slots, NEW d \in Devices,
             \/ \E b \in Batches[table] : Push(s, d, b)
             \/ \E i \in Ids : Remove(s, d, i)
      PROVE  pc'[q] \notin {"duplicate", "insert"}
  BY <1>2 DEF Push, Remove, Typed, TypeOK
<1>3. ASSUME NEW s, NEW d, NEW r, Create(s, d, r)
      PROVE  FALSE
  BY <1>3, PinsTable DEF Create, Typed
<1>4. CASE UNCHANGED vars \/ Tick
  BY <1>4 DEF vars, handlerVars, Tick
<1>. QED
  BY <1>1, <1>2, <1>3, <1>4 DEF Next

\* Tables without pinned rows get none.
LEMMA NoPins ==
    ASSUME Typed, ~table.pins, [Next]_vars,
           \A i \in Ids : rows[i] # None => ~rows[i].pin
    PROVE  \A i \in Ids : rows'[i] # None => ~rows'[i].pin
<1>. SUFFICES ASSUME NEW i \in Ids, rows'[i] # rows[i]
              PROVE  ~rows'[i].pin
  OBVIOUS
<1>1. PICK s \in Slots : Handle(s)
  BY StillStep
<1>2. CASE Writes(s, i)
  <2>1. PICK r \in Record : rows'[i] = Written(req[s], r)
    BY <1>2 DEF Writes
  <2>2. Written(req[s], r).pin = (table.pins /\ r.pin)
    BY Zenon DEF Written
  <2>. QED
    BY <2>1, <2>2
<1>3. CASE Marks(s, i)
  <2>1. rows[i] \in Row
    BY <1>3, MarkedRow
  <2>2. rows'[i] = [rows[i] EXCEPT !.del = TRUE, !.stamp = now]
    BY <1>3 DEF Marks
  <2>3. rows'[i].pin = rows[i].pin
    BY <2>1, <2>2 DEF Row
  <2>. QED
    BY <1>3, <2>3 DEF Marks
<1>. QED
  BY <1>1, <1>2, <1>3, RowChange

LEMMA StepPins ==
    ASSUME Typed, PinsSound, [Next]_vars, IsFiniteSet(Ids)
    PROVE  PinsSound'
<1>1. Typed' /\ table' = table /\ (calm' => calm)
  <2>1. table' = table
    BY HandleKeeps, StillStep
  <2>2. calm' => calm
    BY DEF Next, Handle, Refuse, CountPins, Hit, Skip, Miss, Update, Add,
           Upsert, UpsertFails, Settle, FindToRemove, Mark, CheckDuplicate,
           Insert, Tick, Push, Remove, Create, vars
  <2>. QED
    BY <2>1, <2>2, StepTyped
<1>2. ASSUME table.pins, calm'
      PROVE  PushCounts'
  <2>1. /\ PushCounts /\ table.pins /\ calm
        /\ \A s \in Slots : pc[s] \notin {"duplicate", "insert"}
    BY <1>1, <1>2 DEF PinsSound
  <2>2. ASSUME NEW s \in Slots, Handle(s)
        PROVE  PushCounts'
    <3>1. pc[s] \notin UpsertSteps
      BY <2>1, PinsTable DEF Typed, HandlersFit, SlotFits
    <3>2. \/ Refuse(s) \/ CountPins(s) \/ Hit(s) \/ Skip(s) \/ Miss(s)
          \/ FindToRemove(s) \/ Mark(s)
          \/ Update(s) \/ Add(s)
      BY <2>1, <2>2, <3>1
         DEF Handle, Upsert, UpsertFails, CheckDuplicate, Insert
    <3>. QED
      BY <1>1, <1>2, <2>1, <3>2, ReadCounts, WriteCounts
  <2>3. ASSUME NEW s \in Slots, NEW d \in Devices, NEW r, Create(s, d, r)
        PROVE  FALSE
    BY <1>1, <1>2, <2>3, PinsTable DEF Create, Typed
  <2>4. CASE UNCHANGED vars \/ Tick
    <3>1. UNCHANGED <<rows, handlerVars>>
      BY <2>4 DEF vars, Tick
    <3>. QED
      BY <2>1, <3>1 DEF handlerVars, PushCounts, Pushing, Current
  <2>. QED
    BY <1>2, <2>1, <2>2, <2>3, <2>4, ArrivalCounts DEF Next
<1>. QED
  BY <1>1, <1>2, NoPins, NoCreation DEF PinsSound

LEMMA InitPins == Init => PinsSound
<1>. SUFFICES ASSUME Init PROVE PinsSound
  OBVIOUS
<1>1. Pins(rows) = {}
  BY DEF Init, Pins
<1>2. Cardinality(Pins(rows)) <= QuickCap
  BY <1>1, FS_EmptySet, BoundAssumption
<1>. QED
  BY <1>2 DEF Init, PinsSound, PushCounts, Pushing, InTurnSteps

\* The count taken before a category push is enough: while no two pushes have
\* overlapped and none has stopped half way, no push leaves more rows pinned
\* than the cap, whatever rows are there and whatever the batch names.
THEOREM CountSound == Spec => []CountingSound
<1>1. Init => IInv /\ PinsSound
  BY InitIInv, InitPins
<1>2. IInv /\ PinsSound /\ [Next]_vars => PinsSound'
  BY StepPins, IdsAssumption DEF IInv
<1>3. PinsSound => CountingSound
  <2>. SUFFICES ASSUME PinsSound, calm, \A s \in Slots : ~Running(s)
                PROVE  Cardinality(QuickAccess) <= QuickCap
    BY DEF CountingSound, CapKept, QuickCapHeld
  <2>1. QuickAccess = Pins(rows)
    BY SameSets
  <2>2. CASE table.pins
    <3>1. \A s \in Slots : ~Pushing(s)
      BY DEF Running, Pushing, InTurnSteps
    <3>. QED
      BY <2>1, <2>2, <3>1 DEF PinsSound, PushCounts
  <2>3. CASE ~table.pins
    <3>1. Pins(rows) = {}
      BY <2>3 DEF PinsSound, Pins
    <3>. QED
      BY <2>1, <3>1, FS_EmptySet, BoundAssumption
  <2>. QED
    BY <2>2, <2>3
<1>. QED
  BY <1>1, <1>2, <1>3, SpecIInv, PTL DEF Spec

-----------------------------------------------------------------------------
(* What an answer promises.                                                *)

Has(R, x) == \E i \in Ids : R[i] # None /\ R[i].sync = x

\* The records that are done have their rows, and the row that was found is
\* the record's own.
BatchFits(s) ==
    /\ pc[s] # "byKey"
    /\ pc[s] \in InTurnSteps => \A k \in DOMAIN req[s].batch :
          k < at[s] => Has(rows, req[s].batch[k].sync)
    /\ pc[s] = "write" /\ target[s] # None =>
          rows[target[s]].sync = Current(s).sync
    /\ pc[s] = "upsert" => \A k \in DOMAIN req[s].batch \ left[s] :
          Has(rows, req[s].batch[k].sync)

BatchesStored == table.key # "adopted" => \A s \in Slots : BatchFits(s)

LEMMA WrittenSync ==
    ASSUME NEW q, NEW r
    PROVE  Written(q, r).sync = r.sync
BY Zenon DEF Written

\* Where no record is adopted, a row keeps its syncId.
LEMMA SyncKept ==
    ASSUME Typed, BatchesStored, table.key # "adopted",
           NEW s \in Slots, Handle(s), NEW i \in Ids, rows[i] # None
    PROVE  rows'[i] # None /\ rows'[i].sync = rows[i].sync
<1>. SUFFICES ASSUME rows'[i] # rows[i]
              PROVE  rows'[i] # None /\ rows'[i].sync = rows[i].sync
  OBVIOUS
<1>1. rows'[i] # None
  <2>1. Typed'
    BY HandleTyped
  <2>2. CASE Writes(s, i)
    BY <2>2, WrittenRow, AbsenceAssumption DEF Writes, Typed
  <2>3. CASE Marks(s, i)
    <3>1. rows'[i] = [rows[i] EXCEPT !.del = TRUE, !.stamp = now]
          /\ rows[i] \in Row /\ now \in Nat
      BY <2>3, MarkedRow DEF Marks, Typed, TypeOK
    <3>2. rows'[i] \in Row
      BY <3>1 DEF Row
    <3>. QED
      BY <3>2, AbsenceAssumption
  <2>. QED
    BY <2>2, <2>3, RowChange
<1>2. CASE Marks(s, i)
  <2>1. rows'[i] = [rows[i] EXCEPT !.del = TRUE, !.stamp = now]
        /\ rows[i] \in Row
    BY <1>2, MarkedRow DEF Marks
  <2>. QED
    BY <1>1, <2>1 DEF Row
<1>3. CASE pc[s] = "write"
  <2>1. ~Marks(s, i) /\ Writes(s, i)
    BY <1>3, RowChange DEF Marks
  <2>2. target[s] = i
    BY <1>3, <2>1 DEF Writes, UpsertSteps
  <2>3. rows'[i] = Written(req[s], Current(s))
    BY <1>3, <2>1 DEF Writes
  <2>4. rows[i].sync = Current(s).sync
    BY <1>3, <2>2, AbsenceAssumption DEF BatchesStored, BatchFits
  <2>. QED
    BY <1>1, <2>3, <2>4, WrittenSync
<1>4. CASE pc[s] \in UpsertSteps
  <2>1. PICK k \in left[s] : Upsert(s, k)
    BY <1>4 DEF Handle, Refuse, CountPins, Hit, Skip, Miss, Update, Add,
                UpsertFails, FindToRemove, Mark, CheckDuplicate, Insert,
                UpsertSteps, InTurnSteps, RouteSteps
  <2>. DEFINE r == req[s].batch[k]
  <2>2. PICK j \in Ids :
           /\ IF \E h \in Ids : rows[h] # None /\ rows[h].sync = r.sync
              THEN rows[j] # None /\ rows[j].sync = r.sync
              ELSE rows[j] = None
           /\ Put(j, Written(req[s], r))
    BY <2>1 DEF Upsert
  <2>3. i = j /\ rows'[j] = Written(req[s], r)
    BY <1>4, <2>2, UpsertsRow, PutFits DEF Typed
  <2>4. rows[i].sync = r.sync
    BY <2>2, <2>3
  <2>. QED
    BY <1>1, <2>3, <2>4, WrittenSync
<1>. QED
  BY <1>2, <1>3, <1>4, RowChange DEF Writes

LEMMA StillHas ==
    ASSUME Typed, BatchesStored, table.key # "adopted",
           NEW s \in Slots, Handle(s), NEW x, Has(rows, x)
    PROVE  Has(rows', x)
BY SyncKept DEF Has

\* After the statement that handles record k its row is there.
LEMMA Stores ==
    ASSUME Typed, BatchesStored, table.key # "adopted", NEW s \in Slots,
           Skip(s) \/ Update(s) \/ Add(s)
    PROVE  Has(rows', Current(s).sync)
<1>1. CASE Skip(s)
  <2>1. pc[s] = "bySync" /\ rows' = rows
    BY <1>1 DEF Skip, BatchesStored, BatchFits
  <2>. QED
    BY <1>1, <2>1 DEF Skip, Hits, Visible, Has
<1>2. CASE Update(s) \/ Add(s)
  <2>1. PICK i \in Ids : Put(i, Written(req[s], Current(s)))
    BY <1>2 DEF Update, Add, Typed, TypeOK
  <2>2. Written(req[s], Current(s)) \in Row
    BY <1>2, WritesRow DEF Update, Add
  <2>. QED
    BY <2>1, <2>2, PutFits, WrittenSync, AbsenceAssumption DEF Has, Typed
<1>. QED
  BY <1>1, <1>2

LEMMA UpsertStores ==
    ASSUME Typed, NEW s \in Slots, NEW k \in left[s], Upsert(s, k)
    PROVE  Has(rows', req[s].batch[k].sync)
<1>1. PICK i \in Ids : Put(i, Written(req[s], req[s].batch[k]))
  BY DEF Upsert
<1>2. Written(req[s], req[s].batch[k]) \in Row
  BY UpsertsRow DEF Upsert
<1>. QED
  BY <1>1, <1>2, PutFits, WrittenSync, AbsenceAssumption DEF Has, Typed

LEMMA LeftFrame ==
    ASSUME Typed, NEW s \in Slots, Handle(s)
    PROVE  \A q \in Slots \ {s} : left'[q] = left[q]
BY DEF Handle, Refuse, CountPins, Hit, Skip, Miss, Update, Add, Upsert,
       UpsertFails, Settle, FindToRemove, Mark, CheckDuplicate, Insert,
       Advance, End, Goto, Typed, TypeOK

LEMMA HandleStores ==
    ASSUME Typed, BatchesStored, table.key # "adopted",
           NEW s \in Slots, Handle(s)
    PROVE  BatchesStored'
<1>. USE AbsenceAssumption
<1>1. \A q \in Slots \ {s} : BatchFits(q)'
  <2>. SUFFICES ASSUME NEW q \in Slots \ {s} PROVE BatchFits(q)'
    OBVIOUS
  <2>1. /\ pc'[q] = pc[q] /\ req'[q] = req[q] /\ at'[q] = at[q]
        /\ target'[q] = target[q] /\ left'[q] = left[q] /\ BatchFits(q)
    BY HandleFrame, LeftFrame DEF BatchesStored
  <2>2. \A x : Has(rows, x) => Has(rows', x)
    BY StillHas
  <2>3. pc[q] = "write" /\ target[q] # None =>
           rows'[target[q]].sync = rows[target[q]].sync
    BY SyncKept DEF Typed, TypeOK, HandlersFit, SlotFits
  <2>4. Current(q)' = Current(q)
    BY <2>1 DEF Current
  <2>. QED
    BY <2>1, <2>2, <2>3, <2>4 DEF BatchFits, Has
<1>2. BatchFits(s)'
  <2>1. CASE \/ Refuse(s) \/ Mark(s) \/ Insert(s) \/ FindToRemove(s)
             \/ CheckDuplicate(s) \/ \E k \in left[s] : UpsertFails(s, k)
    <3>1. pc'[s] \in {"idle", "mark", "insert", "late"}
      BY <2>1 DEF Refuse, Mark, Insert, FindToRemove, CheckDuplicate,
                  UpsertFails, Settle, End, Goto, Typed, TypeOK
    <3>. QED
      BY <3>1 DEF BatchFits, InTurnSteps
  <2>2. CASE CountPins(s) \/ Hit(s) \/ Miss(s)
    <3>1. /\ pc[s] \in {"count", "bySync"} /\ BatchFits(s)
          /\ rows' = rows /\ req' = req /\ at' = at
          /\ pc'[s] \in {"bySync", "write"}
          /\ pc'[s] = "write" => pc[s] = "bySync" /\ (Hit(s) \/ Miss(s))
      BY <2>2 DEF CountPins, Hit, Miss, Goto, BatchesStored, BatchFits,
                  Typed, TypeOK
    <3>2. \A k \in DOMAIN req[s].batch :
             k < at[s] => Has(rows, req[s].batch[k].sync)
      BY <3>1 DEF BatchFits, InTurnSteps
    <3>3. ASSUME pc'[s] = "write", target'[s] # None
          PROVE  rows[target'[s]].sync = Current(s).sync
      <4>1. CASE Miss(s)
        BY <3>3, <4>1 DEF Miss, Typed, HandlersFit, SlotFits
      <4>2. CASE Hit(s)
        <5>1. PICK i \in Hits(s) : target' = [target EXCEPT ![s] = i]
          BY <4>2 DEF Hit
        <5>2. target'[s] = i
          BY <5>1 DEF Typed, TypeOK
        <5>. QED
          BY <3>1, <3>3, <5>1, <5>2 DEF Hits
      <4>. QED
        BY <3>1, <3>3, <4>1, <4>2
    <3>4. Current(s)' = Current(s)
      BY <3>1 DEF Current
    <3>. QED
      BY <3>1, <3>2, <3>3, <3>4 DEF BatchFits, Has
  <2>3. CASE Skip(s) \/ Update(s) \/ Add(s)
    <3>1. pc[s] \in InTurnSteps /\ Advance(s) /\ BatchFits(s)
      BY <2>3 DEF Skip, Update, Add, InTurnSteps, BatchesStored
    <3>2. CASE at[s] = Len(req[s].batch)
      <4>1. pc'[s] = "idle"
        BY <3>1, <3>2 DEF Advance, End, Goto, Typed, TypeOK
      <4>. QED
        BY <4>1 DEF BatchFits, InTurnSteps
    <3>3. CASE at[s] # Len(req[s].batch)
      <4>1. /\ pc'[s] = "bySync" /\ req' = req /\ at'[s] = at[s] + 1
            /\ at[s] \in Nat /\ DOMAIN req[s].batch \subseteq Nat
        <5>1. req[s].batch \in Seq(Record)
          BY <3>1 DEF Typed, TypeOK, Request, InTurnSteps
        <5>. QED
          BY <3>1, <3>3, <5>1 DEF Advance, Typed, TypeOK
      <4>2. ASSUME NEW k \in DOMAIN req[s].batch, k < at[s] + 1
            PROVE  Has(rows', req[s].batch[k].sync)
        <5>1. CASE k = at[s]
          BY <2>3, <5>1, Stores DEF Current
        <5>2. CASE k < at[s]
          BY <3>1, <5>2, StillHas DEF BatchFits
        <5>. QED
          BY <4>1, <4>2, <5>1, <5>2
      <4>. QED
        BY <4>1, <4>2 DEF BatchFits, Has
    <3>. QED
      BY <3>2, <3>3
  <2>4. ASSUME NEW k \in left[s], Upsert(s, k)
        PROVE  BatchFits(s)'
    <3>1. pc[s] \in UpsertSteps /\ Settle(s, k, After(s, left[s] \ {k}))
          /\ BatchFits(s)
      BY <2>4 DEF Upsert, BatchesStored
    <3>2. /\ left'[s] = left[s] \ {k}
          /\ pc'[s] = After(s, left[s] \ {k})
          /\ pc'[s] # "idle" => req'[s] = req[s]
      BY <3>1 DEF Settle, Typed, TypeOK
    <3>4. pc'[s] = "idle" \/ pc'[s] = pc[s]
      BY <3>2 DEF After
    <3>3. CASE pc'[s] = "upsert"
      <4>1. \A j \in DOMAIN req[s].batch \ left'[s] :
               Has(rows', req[s].batch[j].sync)
        BY <2>4, <3>1, <3>2, <3>3, <3>4, StillHas, UpsertStores DEF BatchFits
      <4>. QED
        BY <3>2, <3>3, <4>1 DEF BatchFits, InTurnSteps, Has
    <3>. QED
      BY <3>1, <3>3, <3>4 DEF BatchFits, InTurnSteps, UpsertSteps
  <2>. QED
    BY <2>1, <2>2, <2>3, <2>4 DEF Handle
<1>. QED
  BY <1>1, <1>2, HandleKeeps DEF BatchesStored

LEMMA StepStores == Typed /\ BatchesStored /\ [Next]_vars => BatchesStored'
<1>. SUFFICES ASSUME Typed, BatchesStored, [Next]_vars PROVE BatchesStored'
  OBVIOUS
<1>3. table' = table
  BY HandleKeeps, StillStep
<1>. SUFFICES ASSUME table.key # "adopted" PROVE BatchesStored'
  BY <1>3 DEF BatchesStored
<1>1. ASSUME NEW s \in Slots, NEW d \in Devices,
             \/ \E b \in Batches[table] : Push(s, d, b)
             \/ \E i \in Ids : Remove(s, d, i)
             \/ \E b \in Batches[table] :
                   Len(b) = 1 /\ Fresh(b[1]) /\ Create(s, d, b[1])
      PROVE  BatchesStored'
  <2>1. \A q \in Slots \ {s} : left'[q] = left[q]
    BY <1>1 DEF Push, Remove, Create, Typed, TypeOK
  <2>2. \A q \in Slots \ {s} : BatchFits(q)'
    BY <1>1, <2>1, ArrivalFrame
       DEF BatchesStored, BatchFits, Has, Current
  <2>3. pc'[s] \in {"upsert", "count", "bySync", "check", "duplicate"}
    BY <1>1 DEF Push, Remove, Create, Typed, TypeOK
  <2>4. ASSUME pc'[s] \in {"check", "duplicate"} PROVE BatchFits(s)'
    BY <2>4 DEF BatchFits, InTurnSteps, Current, Has
  <2>5. ASSUME pc'[s] \in {"count", "bySync", "upsert"} PROVE BatchFits(s)'
    <3>1. PICK b \in Batches[table] : Push(s, d, b)
      BY <1>1, <2>5 DEF Remove, Create, Typed, TypeOK
    <3>2. b \in Seq(Record) /\ req'[s].batch = b /\ at'[s] = 1
          /\ (pc'[s] = "upsert" => left'[s] = DOMAIN b)
      BY <3>1, BatchAssumption DEF Push, Typed, TypeOK
    <3>3. \A k \in DOMAIN b : ~(k < 1)
      BY <3>2
    <3>. QED
      BY <2>5, <3>2, <3>3 DEF BatchFits, Has, Current
  <2>. QED
    BY <1>1, <2>2, <2>3, <2>4, <2>5, ArrivalFrame DEF BatchesStored
<1>2. CASE Tick \/ UNCHANGED vars
  BY <1>2 DEF Tick, vars, handlerVars, BatchesStored, BatchFits, Has, Current
<1>. QED
  BY <1>1, <1>2, HandleStores DEF Next

\* A push that is answered without an error has stored its whole batch: the
\* records that were handled first are still there when the last one ends.
THEOREM AnsweredIsStored == Spec => AcknowledgedStored
<1>1. Init => BatchesStored
  BY DEF Init, BatchesStored, BatchFits, InTurnSteps
<1>2. IInv /\ BatchesStored /\ [Next]_vars => BatchesStored'
  BY StepStores DEF IInv
<1>3. IInv /\ BatchesStored /\ [Next]_vars =>
         [\A s \in Slots :
            /\ table.key # "adopted"
            /\ Unanswered(s) /\ ~Unanswered(s)' /\ Succeeds(s)
            => \A k \in DOMAIN req[s].batch :
                  \E i \in Ids : /\ rows'[i] # None
                                 /\ rows'[i].sync = req[s].batch[k].sync]_vars
  <2>. SUFFICES ASSUME Typed, BatchesStored, table.key # "adopted",
                       NEW s \in Slots, Unanswered(s), ~Unanswered(s)',
                       Succeeds(s), NEW k \in DOMAIN req[s].batch
                PROVE  Has(rows', req[s].batch[k].sync)
    BY DEF IInv, Has
  <2>1. Handle(s) /\ BatchFits(s)
    BY DEF Succeeds, Handle, BatchesStored
  <2>2. CASE Skip(s) \/ Update(s) \/ Add(s)
    <3>1. pc[s] \in InTurnSteps /\ Advance(s) /\ req[s].batch \in Seq(Record)
          /\ at[s] \in Nat
      BY <2>2 DEF Skip, Update, Add, InTurnSteps, Typed, TypeOK, Request
    <3>2. at[s] = Len(req[s].batch)
      BY <3>1 DEF Advance, Unanswered, Running, Typed, TypeOK
    <3>3. k = at[s] \/ k < at[s]
      BY <3>1, <3>2
    <3>. QED
      BY <2>1, <2>2, <3>1, <3>3, Stores, StillHas DEF BatchFits, Current
  <2>3. ASSUME NEW j \in left[s], Upsert(s, j)
        PROVE  Has(rows', req[s].batch[k].sync)
    <3>1. pc[s] = "upsert" /\ left[s] \ {j} = {}
      BY <2>3 DEF Upsert, UpsertSteps, Settle, After, Unanswered, Running,
                  Typed, TypeOK
    <3>2. k = j \/ k \notin left[s]
      BY <3>1
    <3>. QED
      BY <2>1, <2>3, <3>1, <3>2, UpsertStores, StillHas DEF BatchFits
  <2>. QED
    BY <2>2, <2>3 DEF Succeeds
<1>. QED
  BY <1>1, <1>2, <1>3, SpecIInv, PTL DEF Spec, AcknowledgedStored
=============================================================================

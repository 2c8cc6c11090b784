------------------------ MODULE SyncDeliveryProofs ------------------------
(***************************************************************************)
(* The theorems about SyncServer that build on the invariant of            *)
(* SyncSafetyProofs, which is assumed before and after each step: of       *)
(* pushes that meet no other push of their user, the quick-access cap and  *)
(* that upserts find their rows; and, of any requests at all, that no      *)
(* device is denied what it is owed.                                       *)
(***************************************************************************)
EXTENDS SyncSafetyProofs, SyncDelivery, FiniteSetTheorems

-----------------------------------------------------------------------------
(* What the steps do, in the terms the invariants are about.               *)

\* A step of the push loop that writes: one row, not in conflict with another.
LEMMA WriteEffect ==
    ASSUME IInv, NEW s \in Slots, Update(s) \/ Create(s)
    PROVE  LET n == NewRow(s, Head(work[s])) IN
           /\ Applying(s) /\ n \in Row /\ Head(work[s]) \in Record
           /\ UNCHANGED <<now, table, db, writer, pc, req, snap, keySnap,
                          page, cursor, mirror>>
           /\ work' = [work EXCEPT ![s] = Tail(@)]
           /\ \A q \in Slots \ {s} : writes'[q] = writes[q]
           /\ \E i \in Ids :
                 /\ writes'[s][i] = n
                 /\ \A j \in Ids \ {i} : writes'[s][j] = writes[s][j]
                 /\ ~Clashes(s, i, n)
                 /\ \/ Free(i)
                    \/ \E e \in Existing(s, Head(work[s])) :
                          e[1] = i /\ Accepts(s, e, Head(work[s]))
<1>1. Applying(s) /\ TypeOK
  BY DEF Update, Create, IInv
<1>2. NewRow(s, Head(work[s])) \in Row /\ Head(work[s]) \in Record
  BY <1>1, NewRowType
<1>3. PICK i \in Ids :
          /\ Write(s, i, NewRow(s, Head(work[s])))
          /\ \/ Free(i)
             \/ \E e \in Existing(s, Head(work[s])) :
                   e[1] = i /\ Accepts(s, e, Head(work[s]))
  BY ExistingRead DEF Update, Create
<1>4. /\ UNCHANGED <<now, table, db, writer, pc, req, snap, keySnap,
                     page, cursor, mirror>>
      /\ work' = [work EXCEPT ![s] = Tail(@)]
      /\ writes' = [writes EXCEPT ![s] = [@ EXCEPT ![i] =
                       NewRow(s, Head(work[s]))]]
      /\ ~Clashes(s, i, NewRow(s, Head(work[s])))
  BY <1>3 DEF Write, serverVars, storeVars, clientVars
<1>5. /\ writes'[s][i] = NewRow(s, Head(work[s]))
      /\ \A j \in Ids \ {i} : writes'[s][j] = writes[s][j]
      /\ \A q \in Slots \ {s} : writes'[q] = writes[q]
  BY <1>1, <1>4 DEF TypeOK, Rows
<1>. QED
  BY <1>1, <1>2, <1>3, <1>4, <1>5

\* Records of the batch are dropped from its front.
LEMMA TailOfWork ==
    ASSUME TypeOK, NEW s \in Slots, Applying(s)
    PROVE  /\ 1 \in DOMAIN work[s] /\ Head(work[s]) = work[s][1]
           /\ \A k \in DOMAIN Tail(work[s]) :
                 k + 1 \in DOMAIN work[s] /\ Tail(work[s])[k] = work[s][k + 1]
BY DEF TypeOK, Applying

\* A request that ends is forgotten; the others are as they were.
LEMMA CloseEffect ==
    ASSUME TypeOK, NEW s \in Slots, Close(s)
    PROVE  /\ pc'[s] = "idle" /\ work'[s] = << >>
           /\ writes'[s] = NoRows /\ page'[s] = NoRows
           /\ \A q \in Slots \ {s} :
                 /\ pc'[q] = pc[q] /\ req'[q] = req[q] /\ work'[q] = work[q]
                 /\ writes'[q] = writes[q] /\ page'[q] = page[q]
BY DEF TypeOK, Close

\* Two open pushes past the deviceSync row are pushes of different users.
LEMMA PushersDiffer ==
    ASSUME IInv, UsersApart, NEW s \in Slots, NEW q \in Slots \ {s},
           Holding(s), Holding(q)
    PROVE  req[s].user # req[q].user
<1>. USE DEF IInv, Consistent
<1>1. Overlapping /\ req[q].dev # req[s].dev
  BY DEF Alone, DeviceExclusion, Holding
<1>2. /\ req[q].dev \in Devices /\ req[q].user \in UsersOf[req[q].dev]
      /\ req[s].dev \in Devices /\ req[s].user \in UsersOf[req[s].dev]
  BY DEF TypeOK, Request, RequestsSigned, Holding
<1>. QED
  BY <1>1, <1>2 DEF UsersApart, OneDevicePerUser

-----------------------------------------------------------------------------
(* The quick-access cap.                                                   *)

LEMMA CapInit == IsFiniteSet(Ids) /\ Init => CapInv
<1>. SUFFICES ASSUME Init, NEW u \in Users
              PROVE  /\ Cardinality(PinsOf(db, u)) <= QuickCap
                     /\ \A s \in Slots :
                           Cardinality(PinsOf(View(s), u)) <= QuickCap
  BY DEF CapInv
<1>1. PinsOf(db, u) = {}
  BY NoRowsEmpty DEF Init, PinsOf
<1>2. \A s \in Slots : PinsOf(View(s), u) = {}
  BY NoRowsEmpty DEF Init, PinsOf, View
<1>. QED
  BY <1>1, <1>2, FS_EmptySet, BoundAssumption

\* A record is pinned only while the rows pinned beside it are below the cap.
LEMMA CapWrite ==
    ASSUME IInv, IInv', CapInv, IsFiniteSet(Ids),
           NEW s \in Slots, Update(s) \/ Create(s)
    PROVE  CapInv'
<1>. DEFINE r == Head(work[s])
            n == NewRow(s, r)
<1>. SUFFICES ASSUME table.pins, NEW u \in Users
              PROVE  /\ Cardinality(PinsOf(db', u)) <= QuickCap
                     /\ \A q \in Slots :
                           Cardinality(PinsOf(View(q)', u)) <= QuickCap
  BY WriteEffect DEF CapInv, PinsOf
<1>1. PICK i \in Ids :
          /\ writes'[s][i] = n
          /\ \A j \in Ids \ {i} : writes'[s][j] = writes[s][j]
          /\ ~Clashes(s, i, n)
  BY WriteEffect
<1>2. n \in Row /\ r \in Record /\ db' = db /\ table' = table /\ Applying(s)
  BY WriteEffect
<1>3. View(s)'[i] = n /\ \A j \in Ids \ {i} : View(s)'[j] = View(s)[j]
  BY <1>1, <1>2, AbsenceAssumption DEF View
<1>4. \A q \in Slots \ {s} : PinsOf(View(q)', u) = PinsOf(View(q), u)
  <2>1. \A q \in Slots \ {s}, j \in Ids : View(q)'[j] = View(q)[j]
    BY WriteEffect DEF View
  <2>. QED
    BY <2>1 DEF PinsOf
<1>5. Cardinality(PinsOf(View(s)', u)) <= QuickCap
  <2>1. IsFiniteSet(PinsOf(View(s), u)) /\ IsFiniteSet(OtherPins(s, r))
    BY FS_Subset DEF PinsOf, OtherPins
  <2>2. Cardinality(PinsOf(View(s), u)) <= QuickCap
    BY DEF CapInv
  <2>3. CASE i \notin PinsOf(View(s)', u)
    <3>1. PinsOf(View(s)', u) \subseteq PinsOf(View(s), u)
      BY <1>3, <2>3 DEF PinsOf
    <3>2. Cardinality(PinsOf(View(s)', u)) <= Cardinality(PinsOf(View(s), u))
      BY <2>1, <3>1, FS_Subset
    <3>. QED
      BY <2>1, <2>2, <3>1, <3>2, FS_Subset, FS_CardinalityType, BoundAssumption
  <2>4. CASE i \in PinsOf(View(s)', u)
    <3>1. n.pin /\ ~n.del /\ n.owner = u
      BY <1>3, <2>4 DEF PinsOf
    <3>2. ~r.del /\ u = req[s].user /\ n.sync = r.sync
      <4>1. table.deletes
        BY TablesAssumption DEF IInv, TypeOK, AllTables, ProductCategory,
           ShelfLocation, Product, ProductUnitConversion, ProductSerialNumber,
           ProductRecipeIngredient, Customer, UtangRecord, Sale, Charge,
           Party, TransactionType, MovementCategory, FeeTransaction,
           Transaction, LedgerEntry, BusinessProfile, MonitoringSession, Shape
      <4>. QED
        BY <3>1, <4>1 DEF NewRow
    <3>3. Cardinality(OtherPins(s, r)) < QuickCap
      BY <3>1, <3>2 DEF NewRow, Pinned
    <3>4. PinsOf(View(s)', u) \subseteq OtherPins(s, r) \cup {i}
      <4>1. ASSUME NEW j \in PinsOf(View(s)', u), j # i
            PROVE  j \in OtherPins(s, r)
        <5>1. j \in Ids /\ View(s)'[j] = View(s)[j] /\ View(s)[j] # None
          BY <1>3, <4>1 DEF PinsOf
        <5>2. ~Conflicting(View(s)[j], n)
          BY <1>1, <4>1, <5>1 DEF Clashes
        <5>3. View(s)[j].sync # r.sync
          BY <3>2, <5>2 DEF Conflicting
        <5>. QED
          BY <3>2, <4>1, <5>1, <5>3 DEF PinsOf, OtherPins, Visible
      <4>. QED
        BY <4>1
    <3>5. /\ IsFiniteSet(OtherPins(s, r) \cup {i})
          /\ Cardinality(OtherPins(s, r) \cup {i})
                <= Cardinality(OtherPins(s, r)) + 1
      <4>1. /\ IsFiniteSet(OtherPins(s, r) \cup {i})
            /\ Cardinality(OtherPins(s, r) \cup {i}) =
                  IF i \in OtherPins(s, r) THEN Cardinality(OtherPins(s, r))
                                           ELSE Cardinality(OtherPins(s, r)) + 1
        BY <2>1, FS_AddElement
      <4>2. Cardinality(OtherPins(s, r)) \in Nat
        BY <2>1, FS_CardinalityType
      <4>. HIDE DEF r
      <4>. QED
        BY <4>1, <4>2
    <3>6. Cardinality(PinsOf(View(s)', u))
             <= Cardinality(OtherPins(s, r) \cup {i})
      BY <3>4, <3>5, FS_Subset
    <3>7. IsFiniteSet(PinsOf(View(s)', u))
      BY <3>4, <3>5, FS_Subset
    <3>. QED
      BY <2>1, <3>3, <3>5, <3>6, <3>7, FS_CardinalityType, BoundAssumption
  <2>. QED
    BY <2>3, <2>4
<1>. QED
  BY <1>2, <1>4, <1>5 DEF CapInv

\* A commit stores what its transaction saw.  Another transaction with pending
\* writes is another user's, when pushes of one user do not meet: it sees the
\* rows of its own user as before, and those of the committer as committed.
LEMMA CapCommit ==
    ASSUME IInv, CapInv, UsersApart, NEW s \in Slots, Commit(s)
    PROVE  CapInv'
<1>. USE DEF IInv, Consistent
<1>1. /\ db' = View(s) /\ table' = table
      /\ writes'[s] = NoRows
      /\ \A q \in Slots \ {s} : writes'[q] = writes[q]
  BY DEF TypeOK, Commit, serverVars
<1>2. \A u \in Users : PinsOf(View(s)', u) = PinsOf(View(s), u)
  BY <1>1, NoRowsEmpty DEF View, PinsOf
<1>3. ASSUME NEW q \in Slots \ {s}, NEW u \in Users
      PROVE  PinsOf(View(q)', u) \in {PinsOf(View(q), u), PinsOf(View(s), u)}
  <2>1. CASE writes[q] = NoRows
    <3>1. \A i \in Ids : View(q)'[i] = View(s)[i]
      BY <1>1, <2>1, NoRowsEmpty DEF View
    <3>. QED
      BY <3>1 DEF PinsOf
  <2>2. CASE writes[q] # NoRows
    <3>1. req[q].user # req[s].user
      <4>1. Holding(q) /\ Holding(s)
        BY <2>2 DEF Clean, Commit, Holding
      <4>. QED
        BY <4>1, PushersDiffer
    <3>2. \A i \in Ids : View(q)'[i] = IF writes[q][i] # None THEN writes[q][i]
                                                             ELSE View(s)[i]
      BY <1>1 DEF View
    <3>3. CASE u = req[s].user
      <4>1. ASSUME NEW i \in Ids, writes[q][i] # None
            PROVE  /\ writes[q][i].owner # u
                   /\ View(s)[i] # None => View(s)[i].owner # u
        BY <3>1, <3>3, <4>1 DEF WritesOwned, WritesApart, View
      <4>. QED
        BY <3>2, <4>1 DEF PinsOf
    <3>4. CASE u # req[s].user
      <4>1. ASSUME NEW i \in Ids, writes[s][i] # None
            PROVE  /\ writes[q][i] = None
                   /\ View(s)[i] # None /\ View(s)[i].owner # u
                   /\ View(q)[i] # None => View(q)[i].owner # u
        BY <3>4, <4>1 DEF WritesOwned, WritesApart, View
      <4>2. ASSUME NEW i \in Ids, writes[s][i] = None
            PROVE  View(q)'[i] = View(q)[i]
        BY <3>2, <4>2 DEF View
      <4>3. ASSUME NEW i \in Ids, writes[s][i] # None
            PROVE  View(q)'[i] = View(s)[i]
        BY <3>2, <4>1, <4>3
      <4>. QED
        BY <4>1, <4>2, <4>3 DEF PinsOf
    <3>. QED
      BY <3>3, <3>4
  <2>. QED
    BY <2>1, <2>2
<1>4. \A u \in Users : PinsOf(db', u) = PinsOf(View(s), u)
  BY <1>1
<1>. QED
  BY <1>1, <1>2, <1>3, <1>4 DEF CapInv

\* Every other step leaves a slot's pending writes, or drops them.
LEMMA WritesKept ==
    ASSUME IInv, [Next]_vars,
           ~\E s \in Slots : Update(s) \/ Create(s) \/ Commit(s)
    PROVE  /\ UNCHANGED <<table, db, writer>>
           /\ \A q \in Slots : writes'[q] \in {writes[q], NoRows}
<1>1. CASE Tick \/ UNCHANGED vars
  BY <1>1 DEF Tick, vars, serverVars, storeVars, txVars
<1>2. ASSUME NEW s \in Slots, NEW d \in Devices, NEW u \in UsersOf[d],
             NEW batch \in Batches[d], Receive(s, d, u, batch)
      PROVE  UNCHANGED <<table, db, writer, writes>>
  BY <1>2 DEF Receive, storeVars
<1>3. ASSUME NEW s \in Slots,
             TrackDevice(s) \/ FindBySyncId(s) \/ FindByKey(s) \/ Skip(s)
                \/ Pull(s)
      PROVE  UNCHANGED <<table, db, writer, writes>>
  BY <1>3 DEF TrackDevice, FindBySyncId, FindByKey, Skip, Pull, serverVars,
     storeVars, txVars
<1>4. ASSUME NEW s \in Slots,
             UniqueViolation(s) \/ Respond(s) \/ Abort(s) \/ LoseResponse(s)
      PROVE  /\ UNCHANGED <<table, db, writer>>
             /\ \A q \in Slots : writes'[q] \in {writes[q], NoRows}
  BY <1>4 DEF IInv, TypeOK, UniqueViolation, Respond, Abort, LoseResponse,
     Close, serverVars, storeVars
<1>. QED
  BY <1>1, <1>2, <1>3, <1>4 DEF Next, Step

LEMMA CapKept ==
    ASSUME IInv, CapInv, [Next]_vars,
           ~\E s \in Slots : Update(s) \/ Create(s) \/ Commit(s)
    PROVE  CapInv'
<1>1. table' = table /\ db' = db
  BY WritesKept
<1>2. ASSUME NEW s \in Slots, NEW u \in Users
      PROVE  PinsOf(View(s)', u) \in {PinsOf(View(s), u), PinsOf(db, u)}
  <2>1. CASE writes'[s] = writes[s]
    <3>1. \A i \in Ids : View(s)'[i] = View(s)[i]
      BY <1>1, <2>1 DEF View
    <3>. QED
      BY <3>1 DEF PinsOf
  <2>2. CASE writes'[s] = NoRows
    <3>1. \A i \in Ids : View(s)'[i] = db[i]
      BY <1>1, <2>2, NoRowsEmpty DEF View
    <3>. QED
      BY <3>1 DEF PinsOf
  <2>. QED
    BY <2>1, <2>2, WritesKept
<1>. QED
  BY <1>1, <1>2 DEF CapInv

\* No user ever has more than QuickCap quick-access rows, however requests
\* overlap, as long as pushes of one user do not meet: the cap pushAndPull
\* counts before it pins a category.
THEOREM QuickCapAlways ==
    ASSUME UsersApart, IsFiniteSet(Ids)
    PROVE  Spec => []QuickCapHeld
<1>1. Init => CapInv
  BY CapInit
<1>2. IInv /\ IInv' /\ CapInv /\ [Next]_vars => CapInv'
  BY CapWrite, CapCommit, CapKept
<1>3. CapInv => QuickCapHeld
  BY DEF CapInv, QuickCapHeld, PinsOf
<1>. QED
  BY <1>1, <1>2, <1>3, Invariance, PTL DEF Spec

-----------------------------------------------------------------------------
(* Upserts and the rows they are meant for.                                *)

LEMMA UpsertInit == Init => UpsertInv
BY NoRowsEmpty DEF Init, UpsertInv, RowsPushed, ReadingsComplete,
   WritesKeepIdentity

\* Where the extension hides no deleted row, rows are found by syncId only.
LEMMA ShownNotAdopted ==
    ASSUME TypeOK, ~table.hides
    PROVE  table.key # "adopted"
<1>1. table.key = "adopted"
         => table \in {ProductCategory, ShelfLocation, Product}
  BY TablesAssumption DEF TypeOK, AllTables, ProductCategory, ShelfLocation,
     Product, ProductUnitConversion, ProductSerialNumber,
     ProductRecipeIngredient, Customer, UtangRecord, Sale, Charge, Party,
     TransactionType, MovementCategory, FeeTransaction, Transaction,
     LedgerEntry, BusinessProfile, MonitoringSession, Shape
<1>2. /\ ProductCategory.hides /\ ShelfLocation.hides /\ Product.hides
  BY DEF ProductCategory, ShelfLocation, Product, Shape, SoftDeleteModels
<1>. QED
  BY <1>1, <1>2

LEMMA UpsertReceive ==
    ASSUME IInv, UpsertInv, NEW s \in Slots, NEW d \in Devices,
           NEW u \in UsersOf[d], NEW batch \in Batches[d],
           Receive(s, d, u, batch)
    PROVE  UpsertInv'
<1>1. /\ UNCHANGED <<table, db, snap, keySnap, writes>>
      /\ pc' = [pc EXCEPT ![s] = "lock"]
      /\ work' = [work EXCEPT ![s] = batch]
      /\ \A q \in Slots \ {s} : req'[q] = req[q]
  BY DEF Receive, storeVars, IInv, TypeOK
<1>2. \A k \in DOMAIN batch : Pushed(batch[k])
  BY DEF Pushed
<1>3. RowsPushed'
  <2>1. /\ work'[s] = batch
        /\ \A q \in Slots \ {s} : work'[q] = work[q]
    BY <1>1 DEF IInv, TypeOK
  <2>. QED
    BY <1>1, <1>2, <2>1 DEF UpsertInv, RowsPushed
<1>4. ReadingsComplete' /\ WritesKeepIdentity'
  BY <1>1 DEF IInv, TypeOK, UpsertInv, ReadingsComplete, WritesKeepIdentity
<1>. QED
  BY <1>3, <1>4 DEF UpsertInv

\* Where deleted rows are shown, the reading misses no row of the batch.
LEMMA UpsertFind ==
    ASSUME IInv, UpsertInv, NEW s \in Slots, FindBySyncId(s)
    PROVE  UpsertInv'
<1>1. /\ UNCHANGED <<table, db, req, work, keySnap, writes>>
      /\ pc' = [pc EXCEPT ![s] =
                   IF table.key = "adopted" THEN "readKey" ELSE "apply"]
      /\ snap' = [snap EXCEPT ![s] =
            [i \in Ids |->
               IF /\ Visible(db[i])
                  /\ \E k \in DOMAIN work[s] : db[i].sync = work[s][k].sync
               THEN db[i] ELSE None]]
  BY DEF FindBySyncId, serverVars, storeVars
<1>2. RowsPushed' /\ WritesKeepIdentity'
  BY <1>1 DEF IInv, TypeOK, UpsertInv, RowsPushed, WritesKeepIdentity
<1>3. ReadingsComplete'
  BY <1>1 DEF IInv, TypeOK, UpsertInv, ReadingsComplete, Visible
<1>. QED
  BY <1>2, <1>3 DEF UpsertInv

LEMMA UpsertFindKey ==
    ASSUME IInv, UpsertInv, NEW s \in Slots, FindByKey(s)
    PROVE  UpsertInv'
<1>1. /\ UNCHANGED <<table, db, work, snap, writes>>
      /\ pc[s] = "readKey"
  BY DEF FindByKey, serverVars, storeVars
<1>2. table.key = "adopted"
  BY <1>1 DEF UpsertInv, WritesKeepIdentity
<1>3. RowsPushed'
  BY <1>1 DEF UpsertInv, RowsPushed
<1>4. ReadingsComplete' /\ WritesKeepIdentity'
  BY <1>1, <1>2, ShownNotAdopted DEF IInv, ReadingsComplete,
     WritesKeepIdentity
<1>. QED
  BY <1>3, <1>4 DEF UpsertInv

\* A step that leaves the rows and the readings alone and starts no loop.
LEMMA UpsertStill ==
    ASSUME IInv, UpsertInv,
           UNCHANGED <<table, db, snap, keySnap, writes>>,
           \A q \in Slots :
               /\ \/ work'[q] = work[q]
                  \/ Applying(q) /\ work'[q] = Tail(work[q])
               /\ pc'[q] = "readKey" => pc[q] = "readKey"
               /\ pc'[q] = "apply" => /\ pc[q] = "apply" \/ work[q] = << >>
                                      /\ req'[q] = req[q]
    PROVE  UpsertInv'
<1>1. ASSUME NEW q \in Slots, NEW k \in DOMAIN work'[q]
      PROVE  /\ work[q] # << >>
             /\ \E l \in DOMAIN work[q] : work'[q][k] = work[q][l]
  <2>1. CASE work'[q] = work[q]
    BY <1>1, <2>1
  <2>2. CASE Applying(q) /\ work'[q] = Tail(work[q])
    BY <1>1, <2>2, TailOfWork DEF IInv, Applying
  <2>. QED
    BY <2>1, <2>2
<1>2. RowsPushed'
  BY <1>1 DEF UpsertInv, RowsPushed
<1>3. ReadingsComplete'
  BY <1>1 DEF UpsertInv, ReadingsComplete
<1>4. WritesKeepIdentity'
  BY DEF UpsertInv, WritesKeepIdentity
<1>. QED
  BY <1>2, <1>3, <1>4 DEF UpsertInv

LEMMA UpsertRead ==
    ASSUME IInv, UpsertInv,
           \/ Tick \/ UNCHANGED vars
           \/ \E s \in Slots : TrackDevice(s) \/ Skip(s) \/ Pull(s)
    PROVE  UpsertInv'
<1>1. CASE Tick \/ UNCHANGED vars
  BY <1>1, UpsertStill DEF Tick, vars, serverVars, storeVars, txVars
<1>2. ASSUME NEW s \in Slots, TrackDevice(s) \/ Skip(s) \/ Pull(s)
      PROVE  UpsertInv'
  <2>1. UNCHANGED <<table, db, snap, keySnap, writes>>
    BY <1>2 DEF TrackDevice, Skip, Pull, serverVars, storeVars, txVars
  <2>2. ASSUME NEW q \in Slots
        PROVE  /\ \/ work'[q] = work[q]
                  \/ Applying(q) /\ work'[q] = Tail(work[q])
               /\ pc'[q] = "readKey" => pc[q] = "readKey"
               /\ pc'[q] = "apply" => /\ pc[q] = "apply" \/ work[q] = << >>
                                      /\ req'[q] = req[q]
    BY <1>2 DEF IInv, TypeOK, TrackDevice, Skip, Pull, txVars
  <2>. QED
    BY <2>1, <2>2, UpsertStill
<1>. QED
  BY <1>1, <1>2

\* The row written at id i is the one the record names, or a new one.
LEMMA UpsertWrite ==
    ASSUME IInv, UpsertInv, UsersApart, NEW s \in Slots,
           Update(s) \/ Create(s)
    PROVE  UpsertInv'
<1>. DEFINE r == Head(work[s])
            n == NewRow(s, r)
<1>1. /\ Applying(s)
      /\ UNCHANGED <<table, db, pc, req, snap, keySnap>>
      /\ work' = [work EXCEPT ![s] = Tail(@)]
      /\ \A q \in Slots \ {s} : writes'[q] = writes[q]
  BY WriteEffect
<1>2. PICK i \in Ids :
          /\ writes'[s][i] = n
          /\ \A j \in Ids \ {i} : writes'[s][j] = writes[s][j]
          /\ Free(i) \/ \E e \in Existing(s, r) : e[1] = i /\ Accepts(s, e, r)
  BY WriteEffect
<1>3. Pushed(n)
  <2>1. Pushed(r)
    BY <1>1, TailOfWork DEF IInv, UpsertInv, RowsPushed
  <2>. QED
    BY <2>1 DEF Pushed, NewRow
<1>4. ASSUME NEW q \in Slots, NEW k \in DOMAIN work'[q]
      PROVE  \E l \in DOMAIN work[q] : work'[q][k] = work[q][l]
  BY <1>1, <1>4, TailOfWork DEF IInv, TypeOK
<1>5. RowsPushed'
  BY <1>1, <1>2, <1>3, <1>4 DEF UpsertInv, RowsPushed
<1>6. ReadingsComplete'
  <2>. SUFFICES ASSUME ~table.hides, NEW q \in Slots, NEW j \in Ids,
                       pc[q] = "apply", db[j] # None,
                       db[j].owner = req[q].user,
                       NEW k \in DOMAIN work'[q],
                       work'[q][k].sync = db[j].sync
                PROVE  snap[q][j] = db[j]
    BY <1>1 DEF ReadingsComplete
  <2>1. PICK l \in DOMAIN work[q] : work'[q][k] = work[q][l]
    BY <1>4
  <2>. QED
    BY <2>1 DEF UpsertInv, ReadingsComplete
<1>7. WritesKeepIdentity'
  <2>1. ASSUME table.key # "adopted", db[i] # None
        PROVE  n.sync = db[i].sync
    <3>1. PICK e \in Existing(s, r) : e[1] = i /\ Accepts(s, e, r)
      BY <1>2, <2>1 DEF Free
    <3>2. \A j \in Ids : keySnap[s][j] = None
      BY <2>1 DEF UpsertInv, WritesKeepIdentity
    <3>3. /\ snap[s][i] # None /\ snap[s][i].sync = r.sync
          /\ snap[s][i].owner = req[s].user
      BY <3>1, <3>2 DEF Existing, FoundBySyncId, FoundByKey, Accepts
    <3>4. db[i] = snap[s][i]
      BY <1>1, <3>3, NotOvertaken DEF IInv, Consistent, ReadingsKnown, Known,
         Applying
    <3>. QED
      BY <3>3, <3>4 DEF NewRow
  <2>. QED
    BY <1>1, <1>2, <2>1 DEF UpsertInv, WritesKeepIdentity
<1>. QED
  BY <1>5, <1>6, <1>7 DEF UpsertInv

LEMMA UpsertClose ==
    ASSUME IInv, UpsertInv, NEW s \in Slots,
           UniqueViolation(s) \/ Respond(s) \/ Abort(s) \/ LoseResponse(s)
    PROVE  UpsertInv'
<1>1. Close(s) /\ table' = table /\ db' = db
  BY DEF UniqueViolation, Respond, Abort, LoseResponse, serverVars, storeVars
<1>2. /\ snap'[s] = NoRows /\ keySnap'[s] = NoRows
      /\ \A q \in Slots \ {s} :
            snap'[q] = snap[q] /\ keySnap'[q] = keySnap[q]
  BY <1>1 DEF Close, IInv, TypeOK
<1>3. RowsPushed'
  BY <1>1, CloseEffect, NoRowsEmpty DEF IInv, UpsertInv, RowsPushed
<1>4. ReadingsComplete' /\ WritesKeepIdentity'
  BY <1>1, <1>2, CloseEffect, NoRowsEmpty
     DEF IInv, UpsertInv, ReadingsComplete, WritesKeepIdentity
<1>. QED
  BY <1>3, <1>4 DEF UpsertInv

\* What another push commits meanwhile belongs to another user.
LEMMA UpsertCommit ==
    ASSUME IInv, UpsertInv, UsersApart, NEW s \in Slots, Commit(s)
    PROVE  UpsertInv'
<1>1. /\ table' = table /\ work' = work /\ req' = req
      /\ pc[s] = "apply" /\ pc'[s] = "pull"
      /\ writes'[s] = NoRows /\ keySnap'[s] = NoRows
      /\ \A q \in Slots \ {s} :
            /\ pc'[q] = pc[q] /\ writes'[q] = writes[q]
            /\ snap'[q] = snap[q] /\ keySnap'[q] = keySnap[q]
  BY DEF IInv, TypeOK, Commit, serverVars
<1>2. \A i \in Ids : db'[i] = IF writes[s][i] # None THEN writes[s][i]
                                                     ELSE db[i]
  BY CommitRow
<1>3. RowsPushed'
  BY <1>1, <1>2, NoRowsEmpty DEF UpsertInv, RowsPushed
<1>4. ReadingsComplete'
  <2>1. ASSUME NEW q \in Slots \ {s}, pc[q] = "apply", NEW i \in Ids,
               db'[i] # None, db'[i].owner = req[q].user
        PROVE  db'[i] = db[i]
    <3>1. req[s].user # req[q].user
      BY <1>1, <2>1, PushersDiffer DEF Holding
    <3>. QED
      BY <1>2, <2>1, <3>1 DEF IInv, Consistent, WritesOwned
  <2>. QED
    BY <1>1, <2>1 DEF UpsertInv, ReadingsComplete
<1>5. WritesKeepIdentity'
  <2>1. ASSUME NEW q \in Slots \ {s}, NEW i \in Ids, writes[q][i] # None
        PROVE  db'[i] = db[i]
    BY <1>2, <2>1 DEF IInv, Consistent, WritesApart
  <2>. QED
    BY <1>1, <2>1, NoRowsEmpty DEF UpsertInv, WritesKeepIdentity
<1>. QED
  BY <1>3, <1>4, <1>5 DEF UpsertInv

LEMMA UpsertNext ==
    ASSUME UsersApart
    PROVE  IInv /\ UpsertInv /\ [Next]_vars => UpsertInv'
<1>. SUFFICES ASSUME IInv, UpsertInv, [Next]_vars
              PROVE  UpsertInv'
  OBVIOUS
<1>1. CASE Tick \/ UNCHANGED vars
  BY <1>1, UpsertRead
<1>2. ASSUME NEW s \in Slots, NEW d \in Devices, NEW u \in UsersOf[d],
             NEW batch \in Batches[d], Receive(s, d, u, batch)
      PROVE  UpsertInv'
  BY <1>2, UpsertReceive
<1>3. ASSUME NEW s \in Slots, Step(s) \/ Abort(s) \/ LoseResponse(s)
      PROVE  UpsertInv'
  BY <1>3, UpsertRead, UpsertFind, UpsertFindKey, UpsertWrite, UpsertClose,
     UpsertCommit DEF Step
<1>. QED
  BY <1>1, <1>2, <1>3 DEF Next

\* On a table whose deleted rows the Prisma extension shows, a record whose
\* syncId is stored is written to that row and meets no unique index, when
\* pushes of one user do not meet and no record changes its unique column: the
\* upsert pushAndPull makes of findMany, update and create is one, whatever
\* pushes of other users commit between them.
THEOREM UpsertsAlwaysFindRows ==
    ASSUME UsersApart,
           KeysFixed \/ \A t \in Tables : t.key # "unique"
    PROVE  Spec => []UpsertsFindRows
<1>1. IInv /\ UpsertInv => UpsertsFindRows
  <2>. SUFFICES ASSUME IInv, UpsertInv, ~table.hides,
                       NEW s \in Slots, Applying(s),
                       NEW i \in Ids, db[i] # None,
                       db[i].owner = req[s].user,
                       db[i].sync = Head(work[s]).sync,
                       NEW t \in Targets(s)
                PROVE  ~Clashes(s, t, NewRow(s, Head(work[s])))
    BY DEF UpsertsFindRows, UpsertNeverCollides
  <2>. DEFINE r == Head(work[s])
              n == NewRow(s, r)
  <2>1. table.key # "adopted" /\ table \in Tables
    BY ShownNotAdopted DEF IInv, TypeOK
  <2>2. 1 \in DOMAIN work[s] /\ r = work[s][1]
    BY TailOfWork DEF IInv
  <2>3. snap[s][i] = db[i]
    BY <2>2 DEF UpsertInv, ReadingsComplete, Applying
  <2>4. t = i
    <3>1. i \in FoundBySyncId(s, r)
      BY <2>3 DEF FoundBySyncId
    <3>2. PICK e \in Existing(s, r) : e[1] = t /\ Accepts(s, e, r)
      BY <3>1 DEF Targets, Existing
    <3>3. /\ t \in Ids /\ snap[s][t] # None /\ snap[s][t].sync = r.sync
          /\ snap[s][t].owner = req[s].user
      BY <3>1, <3>2 DEF Existing, FoundBySyncId, Accepts
    <3>4. db[t] # None /\ db[t].sync = r.sync
      BY <3>3, NotOvertaken DEF IInv, Consistent, ReadingsKnown, Known,
         Applying
    <3>. QED
      BY <3>3, <3>4 DEF IInv, OneRowPerIdentity, Conflicting
  <2>5. View(s)[i] # None /\ View(s)[i].sync = r.sync
    BY <2>1 DEF View, UpsertInv, WritesKeepIdentity
  <2>6. Pushed(View(s)[i]) /\ Pushed(r)
    BY <2>2 DEF View, UpsertInv, RowsPushed
  <2>7. n.sync = r.sync /\ n.key = r.key
    BY DEF NewRow
  <2>8. table.key = "unique" => View(s)[i].key = r.key
    <3>1. KeysFixed => View(s)[i].key = r.key
      BY <2>5, <2>6 DEF KeysFixed, Pushed
    <3>. QED
      BY <2>1, <3>1
  <2>9. ASSUME NEW j \in Ids \ {i}, View(s)[j] # None, Conflicting(View(s)[j], n)
        PROVE  FALSE
    <3>1. ~Conflicting(View(s)[j], View(s)[i])
      BY <2>5, <2>9 DEF IInv, Consistent, ViewsDistinct, Distinct
    <3>. QED
      BY <2>1, <2>5, <2>7, <2>8, <2>9, <3>1 DEF Conflicting
  <2>. QED
    BY <2>4, <2>9 DEF Clashes
<1>. QED
  BY <1>1, UpsertInit, UpsertNext, Invariance, PTL DEF Spec

-----------------------------------------------------------------------------
(* What the devices are owed.                                              *)

\* The history variable restricts no step of the server.
LEMMA TrackedStep == TrackedNext => Next
<1>. SUFFICES ASSUME TrackedNext PROVE Next
  OBVIOUS
<1>1. ASSUME NEW s \in Slots,
             \/ TrackedCommit(s) \/ TrackedRespond(s)
             \/ TrackDevice(s) \/ FindBySyncId(s) \/ FindByKey(s)
             \/ Skip(s) \/ Update(s) \/ Create(s) \/ UniqueViolation(s)
             \/ Pull(s)
      PROVE  Step(s)
  BY <1>1 DEF TrackedCommit, TrackedRespond, Step
<1>2. ASSUME NEW s \in Slots, NEW d \in Devices, NEW u \in UsersOf[d],
             NEW batch \in Batches[d], TrackedReceive(s, d, u, batch)
      PROVE  Receive(s, d, u, batch)
  BY <1>2 DEF TrackedReceive
<1>. QED
  BY <1>1, <1>2 DEF TrackedNext, Next

LEMMA TrackedInvariance == TrackedSpec => []IInv
<1>1. TrackedInit => IInv
  BY InitInv DEF TrackedInit
<1>2. IInv /\ [TrackedNext]_trackedVars => IInv'
  BY TrackedStep, NextInv DEF trackedVars
<1>. QED
  BY <1>1, <1>2, PTL DEF TrackedSpec

LEMMA DueInit == TrackedInit => DueInv
BY DEF TrackedInit, Init, DueInv, TimesPassed, EmptyAtFirst, DueServed,
   NothingSkipped

\* A step that commits nothing, begins and ends no request, and reads no page.
LEMMA DueStill ==
    ASSUME DueInv, UNCHANGED <<table, db, req, page, cursor, mirror, due>>,
           now \in Nat, now' \in {now, now + 1},
           req \in [Slots -> Request \cup {None}],
           \A q \in Slots : pc[q] # "idle" => req[q] \in Request,
           \A q \in Slots : /\ pc'[q] = "idle" <=> pc[q] = "idle"
                            /\ pc'[q] = "respond" => pc[q] = "respond"
    PROVE  DueInv'
<1>1. TimesPassed'
  BY DEF DueInv, TimesPassed, Request
<1>2. EmptyAtFirst' /\ NothingSkipped'
  BY DEF DueInv, EmptyAtFirst, NothingSkipped, Got
<1>3. \A d \in Devices : Asking(d)' = Asking(d)
  BY DEF Asking
<1>4. DueServed'
  <2>. SUFFICES ASSUME NEW d \in Devices, NEW i \in due[d]
                PROVE  /\ Shown(d, db[i])
                       /\ \A q \in Asking(d) :
                             \/ req[q].ts < db[i].upd
                             \/ Answering(q, i)'
    BY <1>3 DEF DueServed, Shown, Visible
  <2>1. Shown(d, db[i])
    BY DEF DueInv, DueServed
  <2>2. ASSUME NEW q \in Asking(d), Answering(q, i)
        PROVE  Answering(q, i)'
    <3>1. q \in Slots /\ req[q].dev = d
      BY DEF Asking
    <3>. QED
      BY <1>3, <2>2, <3>1 DEF Answering, AsksFor, Full
  <2>. QED
    BY <2>1, <2>2 DEF DueInv, DueServed
<1>. QED
  BY <1>1, <1>2, <1>4 DEF DueInv

LEMMA DueQuiet ==
    ASSUME IInv, DueInv,
           \/ UNCHANGED trackedVars
           \/ Tick /\ UNCHANGED due
           \/ \E s \in Slots :
                 /\ \/ TrackDevice(s) \/ FindBySyncId(s) \/ FindByKey(s)
                    \/ Skip(s) \/ Update(s) \/ Create(s)
                 /\ UNCHANGED due
    PROVE  DueInv'
<1>. USE DEF IInv, TypeOK
<1>1. CASE UNCHANGED trackedVars
  BY <1>1, DueStill
     DEF trackedVars, vars, serverVars, storeVars, txVars, clientVars
<1>2. CASE Tick /\ UNCHANGED due
  BY <1>2, DueStill DEF Tick, storeVars, txVars, clientVars
<1>3. ASSUME NEW s \in Slots, UNCHANGED due,
             TrackDevice(s) \/ FindBySyncId(s) \/ FindByKey(s) \/ Skip(s)
                \/ Update(s) \/ Create(s)
      PROVE  DueInv'
  <2>1. UNCHANGED <<now, table, db, req, page, cursor, mirror, due>>
    BY <1>3, WriteEffect DEF TrackDevice, FindBySyncId, FindByKey, Skip,
       serverVars, storeVars, txVars, clientVars
  <2>2. \A q \in Slots : /\ pc'[q] = "idle" <=> pc[q] = "idle"
                         /\ pc'[q] = "respond" => pc[q] = "respond"
    BY <1>3, WriteEffect DEF TrackDevice, FindBySyncId, FindByKey, Skip
  <2>. QED
    BY <2>1, <2>2, DueStill
<1>. QED
  BY <1>1, <1>2, <1>3

\* A request the device sends next to others asks for what it is still owed.
LEMMA DueReceive ==
    ASSUME IInv, DueInv, NEW s \in Slots, NEW d \in Devices,
           NEW u \in UsersOf[d], NEW batch \in Batches[d],
           TrackedReceive(s, d, u, batch)
    PROVE  DueInv'
<1>. DEFINE r == [dev |-> d, user |-> u, since |-> cursor[d], ts |-> now]
<1>1. /\ pc[s] = "idle"
      /\ UNCHANGED <<now, table, db, page, cursor, mirror>>
      /\ pc'[s] = "lock" /\ req'[s] = r /\ page[s] = NoRows
      /\ \A q \in Slots \ {s} : pc'[q] = pc[q] /\ req'[q] = req[q]
  BY DEF TrackedReceive, Receive, storeVars, clientVars, IInv, TypeOK,
     Consistent, Clean
<1>2. /\ Asking(d)' = Asking(d) \cup {s} /\ s \notin Asking(d)
      /\ \A e \in Devices \ {d} : Asking(e)' = Asking(e)
  BY <1>1 DEF Asking
<1>3. /\ due' \in [Devices -> SUBSET Ids]
      /\ \A e \in Devices \ {d} : due'[e] = due[e]
      /\ due'[d] = IF Asking(d) = {} THEN due[d]
                   ELSE {i \in due[d] : 0 < cursor[d] /\ cursor[d] < db[i].upd}
  BY DEF TrackedReceive, DueInv
<1>4. TimesPassed'
  <2>1. now >= 1 /\ now \in Nat /\ r.ts = now
    BY DEF DueInv, TimesPassed, IInv, TypeOK
  <2>2. req'[s].ts >= 1 /\ req'[s].ts <= now
    BY <1>1, <2>1
  <2>3. ASSUME NEW q \in Slots \ {s}, pc'[q] # "idle"
        PROVE  req'[q].ts >= 1 /\ req'[q].ts <= now
    BY <1>1, <2>3 DEF DueInv, TimesPassed
  <2>. QED
    BY <1>1, <2>1, <2>2, <2>3 DEF TimesPassed
<1>5. EmptyAtFirst' /\ NothingSkipped'
  BY <1>1, <1>3 DEF DueInv, EmptyAtFirst, NothingSkipped, Got
<1>6. ASSUME NEW e \in Devices, NEW i \in due'[e], NEW q \in Asking(e)'
      PROVE  req'[q].ts < db[i].upd \/ Answering(q, i)'
  <2>1. CASE q = s
    <3>1. e = d
      BY <1>1, <2>1, <1>6 DEF Asking
    <3>2. page[s][i] = None
      BY <1>1, <1>3, <1>6, NoRowsEmpty
    <3>3. CASE Asking(d) = {}
      BY <1>1, <1>2, <2>1, <3>2, <3>3 DEF Answering
    <3>4. CASE Asking(d) # {}
      <4>1. 0 < cursor[d] /\ cursor[d] < db[i].upd
        BY <1>3, <3>1, <3>4
      <4>2. cursor[d] \in Nat /\ db[i].upd \in Nat
        <5>1. i \in due[d] /\ db[i] # None
          BY <1>3, <3>1 DEF DueInv, DueServed, Shown, Visible
        <5>. QED
          BY <5>1 DEF DueInv, IInv, TypeOK, Rows, Row
      <4>3. ~(req'[s].since = 0 \/ req'[s].since >= db[i].upd)
        BY <1>1, <4>1, <4>2
      <4>4. pc'[s] # "respond" /\ page'[s][i] = None
        BY <1>1, <3>2
      <4>. QED
        BY <1>1, <2>1, <4>3, <4>4 DEF Answering
    <3>. QED
      BY <3>3, <3>4
  <2>2. CASE q # s
    <3>1. /\ q \in Slots \ {s} /\ q \in Asking(e) /\ i \in due[e]
          /\ req[q].dev = e /\ pc[q] # "idle"
      BY <1>1, <1>3, <1>6, <2>2 DEF Asking
    <3>2. CASE req[q].ts < db[i].upd
      BY <1>1, <3>1, <3>2
    <3>3. CASE Answering(q, i)
      <4>1. CASE e # d
        BY <1>1, <1>2, <3>1, <3>3, <4>1 DEF Answering, AsksFor, Full
      <4>2. CASE e = d
        <5>1. 0 < cursor[d] /\ cursor[d] < db[i].upd
          BY <1>3, <1>6, <3>1, <4>2
        <5>2. ~(req[q].since = 0 \/ req[q].since >= db[i].upd)
          <6>1. cursor[d] \in Nat /\ db[i].upd \in Nat
            <7>1. db[i] # None
              BY <3>1 DEF DueInv, DueServed, Shown, Visible
            <7>. QED
              BY <3>1, <7>1 DEF DueInv, IInv, TypeOK, Rows, Row
          <6>. QED
            BY <3>1, <3>3, <4>2, <5>1, <6>1 DEF Answering
        <5>. QED
          BY <1>1, <3>1, <3>3, <5>2 DEF Answering, AsksFor, Full
      <4>. QED
        BY <4>1, <4>2
    <3>. QED
      BY <3>1, <3>2, <3>3 DEF DueInv, DueServed
  <2>. QED
    BY <2>1, <2>2
<1>7. ASSUME NEW e \in Devices, NEW i \in due'[e]
      PROVE  Shown(e, db[i])'
  BY <1>1, <1>3, <1>7 DEF DueInv, DueServed, Shown, Visible
<1>8. DueServed'
  BY <1>1, <1>6, <1>7 DEF DueServed
<1>. QED
  BY <1>3, <1>4, <1>5, <1>8 DEF DueInv

\* What is committed is after the cursors and requests it is owed past.
LEMMA DueCommit ==
    ASSUME IInv, DueInv, NEW s \in Slots, TrackedCommit(s)
    PROVE  DueInv'
<1>1. /\ UNCHANGED <<now, table, req, page, cursor, mirror>>
      /\ pc[s] = "apply" /\ pc' = [pc EXCEPT ![s] = "pull"]
      /\ \A i \in Ids : db'[i] = IF writes[s][i] # None THEN writes[s][i]
                                                        ELSE db[i]
  BY CommitRow DEF TrackedCommit, Commit, serverVars, clientVars
<1>2. \A d \in Devices : Asking(d)' = Asking(d)
  BY <1>1 DEF Asking, IInv, TypeOK
<1>3. /\ due' \in [Devices -> SUBSET Ids]
      /\ \A d \in Devices, i \in Ids :
            i \in due'[d] <=> IF writes[s][i] = None THEN i \in due[d]
                              ELSE Owed(d, writes[s][i])
  BY DEF TrackedCommit, DueInv
<1>4. TimesPassed' /\ EmptyAtFirst'
  BY <1>1 DEF DueInv, TimesPassed, EmptyAtFirst, IInv, TypeOK
<1>5. ASSUME NEW d \in Devices, NEW i \in due'[d], writes[s][i] # None
      PROVE  /\ Shown(d, db[i])' /\ db'[i].upd > cursor[d]
             /\ \A q \in Asking(d) : req[q].ts < db'[i].upd
  <2>1. i \in Ids /\ Owed(d, writes[s][i]) /\ db'[i] = writes[s][i]
    BY <1>1, <1>3, <1>5
  <2>2. writes[s][i].upd \in Nat
    BY <1>5, <2>1 DEF IInv, TypeOK, Rows, Row
  <2>3. ASSUME NEW q \in Asking(d) PROVE req[q].ts \in Nat
    BY DEF Asking, IInv, TypeOK, Request
  <2>. QED
    BY <1>1, <2>1, <2>2, <2>3 DEF Owed, Shown, Visible
<1>6. ASSUME NEW d \in Devices, NEW i \in due'[d], writes[s][i] = None
      PROVE  /\ i \in due[d] /\ db'[i] = db[i] /\ Shown(d, db[i])'
             /\ Got(d, i)' <=> Got(d, i)
             /\ \A q \in Asking(d) : Answering(q, i) => Answering(q, i)'
  <2>1. i \in Ids /\ i \in due[d] /\ db'[i] = db[i]
    BY <1>1, <1>3, <1>6
  <2>2. Shown(d, db[i])'
    BY <1>1, <2>1 DEF DueInv, DueServed, Shown, Visible
  <2>3. ASSUME NEW q \in Asking(d), Answering(q, i)
        PROVE  Answering(q, i)'
    <3>1. q \in Slots /\ req[q].dev = d
          /\ (pc'[q] = "respond" => pc[q] = "respond")
      BY <1>1 DEF Asking, IInv, TypeOK
    <3>. QED
      BY <1>1, <1>2, <2>1, <2>3, <3>1 DEF Answering, AsksFor, Full
  <2>. QED
    BY <1>1, <2>1, <2>2, <2>3 DEF Got
<1>7. NothingSkipped'
  BY <1>1, <1>5, <1>6 DEF DueInv, NothingSkipped
<1>8. DueServed'
  BY <1>1, <1>2, <1>5, <1>6 DEF DueInv, DueServed
<1>. QED
  BY <1>3, <1>4, <1>7, <1>8 DEF DueInv

\* A pull that asks for a row that is owed has it on its page, if it is a row
\* of its user and the page is not full.
LEMMA DuePull ==
    ASSUME IInv, DueInv, NEW s \in Slots, Pull(s), UNCHANGED due
    PROVE  DueInv'
<1>1. /\ UNCHANGED <<now, table, db, req, cursor, mirror>>
      /\ pc[s] = "pull" /\ pc' = [pc EXCEPT ![s] = "respond"]
      /\ \A q \in Slots \ {s} : page'[q] = page[q]
  BY DEF Pull, serverVars, storeVars, clientVars, IInv, TypeOK
<1>2. PICK P \in SUBSET Candidates(s) :
          /\ P # Candidates(s) => Cardinality(P) = PageLimit
          /\ page'[s] = [i \in Ids |-> IF i \in P THEN db[i] ELSE None]
  BY DEF Pull, IInv, TypeOK
<1>3. /\ P \subseteq Ids
      /\ \A i \in P : db[i] # None
      /\ {i \in Ids : page'[s][i] # None} = P
  BY <1>2 DEF Candidates, PullWhere, Visible
<1>4. \A d \in Devices : Asking(d)' = Asking(d)
  BY <1>1 DEF Asking, IInv, TypeOK
<1>5. TimesPassed' /\ EmptyAtFirst' /\ NothingSkipped'
  BY <1>1 DEF DueInv, TimesPassed, EmptyAtFirst, NothingSkipped, Got, IInv,
     TypeOK
<1>6. ASSUME NEW d \in Devices, NEW i \in due[d], NEW q \in Asking(d),
             Answering(q, i)
      PROVE  Answering(q, i)'
  <2>1. q \in Slots /\ req[q].dev = d /\ pc[q] # "idle" /\ i \in Ids
    BY DEF Asking, DueInv
  <2>2. CASE q # s
    BY <1>1, <1>4, <1>6, <2>1, <2>2 DEF Answering, AsksFor, Full, IInv, TypeOK
  <2>3. CASE q = s
    <3>1. page'[s][i] # None => page'[s][i] = db[i]
      BY <1>2, <2>1
    <3>2. ASSUME AsksFor(s, i), db[i].owner = req[s].user
          PROVE  page'[s][i] = db[i] \/ Full(page'[s])
      <4>1. Shown(d, db[i])
        BY DEF DueInv, DueServed
      <4>2. req[s].since \in Nat
        BY <2>1, <2>3 DEF IInv, TypeOK, Request
      <4>3. i \in Candidates(s)
        BY <2>1, <2>3, <3>2, <4>1, <4>2
           DEF Candidates, PullWhere, AsksFor, Shown
      <4>4. CASE i \in P
        BY <1>2, <2>1, <4>4
      <4>5. CASE i \notin P
        BY <1>2, <1>3, <4>3, <4>5 DEF Full
      <4>. QED
        BY <4>4, <4>5
    <3>. QED
      BY <1>1, <1>4, <1>6, <2>1, <2>3, <3>1, <3>2
         DEF Answering, AsksFor, Full
  <2>. QED
    BY <2>2, <2>3
<1>7. DueServed'
  BY <1>1, <1>4, <1>6 DEF DueInv, DueServed, Shown, Visible
<1>. QED
  BY <1>5, <1>7 DEF DueInv

\* A request that ends is one less that its device waits for.
LEMMA DueLeave ==
    ASSUME IInv, DueInv, NEW s \in Slots, Close(s), pc[s] # "idle",
           UNCHANGED <<table, db>>,
           \A e \in Devices : due'[e] \subseteq due[e],
           \A e \in Devices : e = req[s].dev \/ cursor'[e] = cursor[e]
    PROVE  DueServed'
<1>1. /\ pc'[s] = "idle"
      /\ \A q \in Slots \ {s} : /\ pc'[q] = pc[q] /\ req'[q] = req[q]
                                /\ page'[q] = page[q]
  BY CloseEffect DEF IInv
<1>2. /\ \A e \in Devices : Asking(e)' = Asking(e) \ {s}
      /\ s \in Asking(req[s].dev)
      /\ \A e \in Devices : s \in Asking(e) => e = req[s].dev
  BY <1>1 DEF Asking
<1>3. ASSUME NEW e \in Devices, NEW i \in due'[e], NEW q \in Asking(e)'
      PROVE  req'[q].ts < db[i].upd \/ Answering(q, i)'
  <2>1. /\ q \in Slots \ {s} /\ q \in Asking(e) /\ req[q].dev = e
        /\ i \in due[e]
    BY <1>2 DEF Asking
  <2>2. CASE req[q].ts < db[i].upd
    BY <1>1, <2>1, <2>2
  <2>3. CASE Answering(q, i)
    <3>1. ASSUME req[q].since = 0 \/ req[q].since >= db[i].upd
          PROVE  Asking(e)' = {q} /\ cursor'[e] = req[q].since
      <4>1. Asking(e) = {q} /\ cursor[e] = req[q].since
        BY <2>1, <2>3, <3>1 DEF Answering
      <4>. QED
        BY <1>2, <2>1, <4>1
    <3>. QED
      BY <1>1, <2>1, <2>3, <3>1 DEF Answering, AsksFor, Full
  <2>. QED
    BY <2>1, <2>2, <2>3 DEF DueInv, DueServed
<1>4. ASSUME NEW e \in Devices, NEW i \in due'[e]
      PROVE  Shown(e, db[i])'
  BY DEF DueInv, DueServed, Shown, Visible
<1>. QED
  BY <1>3, <1>4 DEF DueServed

LEMMA DueGiveUp ==
    ASSUME IInv, DueInv, NEW s \in Slots, UNCHANGED due,
           UniqueViolation(s) \/ Abort(s) \/ LoseResponse(s)
    PROVE  DueInv'
<1>1. /\ Close(s) /\ pc[s] # "idle"
      /\ UNCHANGED <<now, table, db, cursor, mirror>>
  BY DEF UniqueViolation, Abort, LoseResponse, InTx, Holding, Applying,
     serverVars, storeVars, clientVars
<1>2. DueServed'
  BY <1>1, DueLeave
<1>3. TimesPassed'
  BY <1>1, CloseEffect DEF IInv, DueInv, TimesPassed
<1>4. EmptyAtFirst' /\ NothingSkipped'
  BY <1>1 DEF DueInv, EmptyAtFirst, NothingSkipped, Got
<1>. QED
  BY <1>2, <1>3, <1>4 DEF DueInv

\* An answer that takes the cursor past a row that is owed has brought it.
LEMMA DueRespond ==
    ASSUME IInv, DueInv, NEW s \in Slots, TrackedRespond(s)
    PROVE  DueInv'
<1>0. /\ Close(s) /\ pc[s] = "respond" /\ UNCHANGED <<now, table, db>>
      /\ req[s] \in Request
  BY DEF TrackedRespond, Respond, serverVars, storeVars, IInv, TypeOK
<1>. PICK d \in Devices : d = req[s].dev
  BY <1>0 DEF Request
<1>1. /\ Close(s) /\ pc[s] = "respond" /\ UNCHANGED <<now, table, db>>
      /\ req[s] \in Request /\ req[s].dev = d /\ s \in Asking(d)
  BY <1>0 DEF Asking
<1>2. /\ cursor'[d] = req[s].ts
      /\ \A e \in Devices \ {d} : cursor'[e] = cursor[e]
                                  /\ mirror'[e] = mirror[e]
      /\ \A i \in Ids : mirror'[d][i] = IF page[s][i] # None THEN page[s][i]
                                                            ELSE mirror[d][i]
  BY <1>1 DEF TrackedRespond, Respond, IInv, TypeOK
<1>3. /\ due' \in [Devices -> SUBSET Ids]
      /\ \A e \in Devices \ {d} : due'[e] = due[e]
      /\ due'[d] = {i \in due[d] :
                       \/ db[i].upd > req[s].ts
                       \/ db[i].owner = req[s].user /\ ~Full(page[s])}
  BY <1>1 DEF TrackedRespond, DueInv
<1>4. DueServed'
  BY <1>1, <1>2, <1>3, DueLeave
<1>5. TimesPassed'
  BY <1>1, CloseEffect DEF IInv, DueInv, TimesPassed
<1>6. EmptyAtFirst'
  <2>1. cursor'[d] # 0
    BY <1>1, <1>2 DEF DueInv, TimesPassed, Request
  <2>. QED
    BY <1>2, <2>1 DEF DueInv, EmptyAtFirst
<1>7. ASSUME NEW i \in due'[d]
      PROVE  Got(d, i)' \/ db[i].upd > req[s].ts
  <2>. SUFFICES ASSUME ~(db[i].upd > req[s].ts) PROVE Got(d, i)'
    OBVIOUS
  <2>1. /\ i \in due[d] /\ i \in Ids /\ db[i] # None
        /\ db[i].owner = req[s].user /\ ~Full(page[s])
    BY <1>1, <1>3, <1>7 DEF DueInv, DueServed, Shown, Visible
  <2>2. /\ db[i].upd \in Nat /\ req[s].ts \in Nat /\ req[s].since \in Nat
        /\ cursor[d] \in Nat
    BY <1>1, <2>1 DEF IInv, TypeOK, Rows, Row, Request
  <2>3. Answering(s, i)
    BY <1>1, <2>1, <2>2 DEF DueInv, DueServed
  <2>4. page[s][i] # None => page[s][i] = db[i]
    BY <2>3 DEF Answering
  <2>5. CASE AsksFor(s, i)
    BY <1>1, <1>2, <2>1, <2>3, <2>5 DEF Answering, Got
  <2>6. CASE ~AsksFor(s, i) /\ req[s].since = 0
    <3>1. db[i].del
      BY <2>6 DEF AsksFor
    <3>2. mirror[d] = NoRows
      BY <1>1, <2>3, <2>6 DEF Answering, DueInv, EmptyAtFirst
    <3>. QED
      BY <1>1, <1>2, <2>1, <2>4, <3>1, <3>2, NoRowsEmpty DEF Got
  <2>7. CASE ~AsksFor(s, i) /\ req[s].since # 0
    <3>1. req[s].since >= db[i].upd
      BY <2>2, <2>7 DEF AsksFor
    <3>2. Got(d, i)
      BY <1>1, <2>1, <2>2, <2>3, <3>1 DEF Answering, DueInv, NothingSkipped
    <3>. QED
      BY <1>1, <1>2, <2>1, <2>4, <3>2 DEF Got
  <2>. QED
    BY <2>5, <2>6, <2>7
<1>8. NothingSkipped'
  <2>1. ASSUME NEW e \in Devices \ {d}, NEW i \in due'[e]
        PROVE  (Got(e, i) \/ db[i].upd > cursor[e])'
    BY <1>1, <1>2, <1>3, <2>1 DEF DueInv, NothingSkipped, Got
  <2>. QED
    BY <1>1, <1>2, <1>7, <2>1 DEF NothingSkipped
<1>. QED
  BY <1>3, <1>4, <1>5, <1>6, <1>8 DEF DueInv

LEMMA DueNext == IInv /\ DueInv /\ [TrackedNext]_trackedVars => DueInv'
<1>. SUFFICES ASSUME IInv, DueInv, [TrackedNext]_trackedVars
              PROVE  DueInv'
  OBVIOUS
<1>1. ASSUME NEW s \in Slots, NEW d \in Devices, NEW u \in UsersOf[d],
             NEW batch \in Batches[d], TrackedReceive(s, d, u, batch)
      PROVE  DueInv'
  BY <1>1, DueReceive
<1>2. ASSUME NEW s \in Slots, TrackedCommit(s) \/ TrackedRespond(s)
      PROVE  DueInv'
  BY <1>2, DueCommit, DueRespond
<1>3. ASSUME NEW s \in Slots, UNCHANGED due,
             UniqueViolation(s) \/ Pull(s) \/ Abort(s) \/ LoseResponse(s)
      PROVE  DueInv'
  BY <1>3, DuePull, DueGiveUp
<1>. QED
  BY <1>1, <1>2, <1>3, DueQuiet DEF TrackedNext

\* No device's cursor passes a version the device is owed and has not got:
\* the timestamp pushAndPull returns is never later than what its page brings,
\* whatever tables, stamps, page sizes, overlapping requests and lost answers.
THEOREM NothingEverSkipped == TrackedSpec => []NothingSkipped
<1>1. DueInv => NothingSkipped
  BY DEF DueInv
<1>. QED
  BY <1>1, DueInit, DueNext, TrackedInvariance, PTL DEF TrackedSpec

=============================================================================

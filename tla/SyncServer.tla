---------------------------- MODULE SyncServer ----------------------------
(***************************************************************************)
(* SyncService.pushAndPull: the requests POST /sync serves concurrently,   *)
(* each a push transaction followed by a pull transaction on PostgreSQL.   *)
(*                                                                         *)
(* The push transaction runs at READ COMMITTED.  It locks the device's     *)
(* deviceSync row, reads the rows its batch may replace, and decides       *)
(* record by record, from that reading, whether to skip, update or create. *)
(* Its writes stay in "writes" until it commits; a statement that needs a  *)
(* row, or a unique value, that another open transaction has written waits *)
(* for that transaction to end.                                            *)
(*                                                                         *)
(* One table is modelled at a time; which one is the choice of Init.  What *)
(* a record carries beyond the columns named here never influences the     *)
(* handler and is left out.                                                *)
(***************************************************************************)
EXTENDS SyncTables, Naturals, Sequences, FiniteSets

CONSTANTS Slots,       \* requests the server can be serving at once
          Devices,
          Users,
          SyncIds,     \* client-made identities of records
          Keys,        \* values of the second unique column
          Ids,         \* primary keys
          Tables,      \* the tables of interest
          UsersOf,     \* the users signed in on each device
          Batches,     \* the batches each device may push
          Overlapping, \* whether requests may overlap in time
          Skew,        \* 300000 ms: how far ahead a stamp may be
          QuickCap,    \* 10 quick-access rows per user
          PageLimit,   \* 500 rows per table and pull
          MaxTime,     \* bound of the model on the clock
          MaxRequests, \* bound of the model on the requests received
          None, NoDevice, NoTime

Row == [ sync : SyncIds, key : Keys, owner : Users,
         dev : Devices \cup {NoDevice}, del : BOOLEAN, pin : BOOLEAN,
         upd : Nat ]

Record == [ sync : SyncIds, key : Keys, dev : Devices \cup {NoDevice},
            del : BOOLEAN, pin : BOOLEAN, upd : Nat \cup {NoTime} ]

Request == [ dev : Devices, user : Users, since : Nat, ts : Nat ]

ASSUME TablesAssumption == Tables \subseteq AllTables
ASSUME DeviceAssumption ==
    /\ UsersOf \in [Devices -> SUBSET Users]
    /\ Batches \in [Devices -> SUBSET Seq(Record)]
ASSUME BoundAssumption ==
    /\ Skew \in Nat /\ QuickCap \in Nat /\ PageLimit \in Nat
    /\ MaxTime \in Nat /\ MaxRequests \in Nat
    /\ Overlapping \in BOOLEAN
ASSUME AbsenceAssumption ==
    /\ None \notin Row /\ None \notin Devices /\ None \notin Request
    /\ NoDevice \notin Devices /\ NoTime \notin Nat

VARIABLES
    now,      \* Date.now() of the server
    received, \* number of requests so far, for MaxRequests
    table,    \* the table the batches are for
    db,       \* the committed rows
    writer,   \* history: the device whose push last wrote the row
    pc,       \* how far each request has come
    req,      \* its device, user, lastSync and serverTimestamp
    work,     \* the records still to be applied
    snap,     \* existingMap: rows found by syncId
    keySnap,  \* nameMap, skuMap: rows found by the second unique column
    writes,   \* rows written by the open push transaction
    page,     \* pullData
    cursor,   \* external: the timestamp each device sends as lastSync
    mirror    \* history: the row version each device last received

serverVars == <<now, received, table>>
storeVars == <<db, writer>>
txVars == <<req, work, snap, keySnap, writes, page>>
clientVars == <<cursor, mirror>>
vars == <<serverVars, storeVars, pc, txVars, clientVars>>

NoRows == [i \in Ids |-> None]
Rows == [Ids -> Row \cup {None}]

TypeOK ==
    /\ now \in Nat /\ received \in Nat
    /\ table \in Tables
    /\ db \in Rows
    /\ writer \in [Ids -> Devices \cup {None}]
    /\ pc \in [Slots -> {"idle", "lock", "read", "readKey", "apply",
                         "pull", "respond"}]
    /\ req \in [Slots -> Request \cup {None}]
    /\ \A s \in Slots : pc[s] # "idle" => req[s] \in Request
    /\ work \in [Slots -> Seq(Record)]
    /\ snap \in [Slots -> Rows]
    /\ keySnap \in [Slots -> Rows]
    /\ writes \in [Slots -> Rows]
    /\ page \in [Slots -> Rows]
    /\ cursor \in [Devices -> Nat]
    /\ mirror \in [Devices -> Rows]

Init ==
    /\ now = 1 /\ received = 0
    /\ table \in Tables
    /\ db = NoRows
    /\ writer = [i \in Ids |-> None]
    /\ pc = [s \in Slots |-> "idle"]
    /\ req = [s \in Slots |-> None]
    /\ work = [s \in Slots |-> << >>]
    /\ snap = [s \in Slots |-> NoRows]
    /\ keySnap = [s \in Slots |-> NoRows]
    /\ writes = [s \in Slots |-> NoRows]
    /\ page = [s \in Slots |-> NoRows]
    /\ cursor = [d \in Devices |-> 0]
    /\ mirror = [d \in Devices |-> NoRows]

-----------------------------------------------------------------------------
(* The database as a statement of a transaction sees it.                   *)

\* A request holds its deviceSync row from the upsert to the end of the push.
Holding(s) == pc[s] \in {"read", "readKey", "apply"}

InTx(s) == pc[s] = "lock" \/ Holding(s)

\* Slip: the extension filters every model.
VisibleOfAnyModel(row) == row # None /\ ~row.del

\* The Prisma extension adds isDeleted = false to findMany and count.
Visible(row) == row # None /\ (table.hides => ~row.del)

\* The rows of the table for the transaction of slot s.
View(s) == [i \in Ids |-> IF writes[s][i] # None THEN writes[s][i]
                                                 ELSE db[i]]

\* Two rows no unique index lets stand side by side.
Conflicting(a, b) ==
    \/ a.sync = b.sync
    \/ table.key = "unique" /\ a.key = b.key
    \/ table.key = "adopted" /\ a.key = b.key /\ a.owner = b.owner

\* Slip: unique indexes are only compared with committed rows.
ContendedOnRow(s, i, n) == \E q \in Slots \ {s} : writes[q][i] # None

\* Writing row n at id i must wait for another open transaction: it has
\* written id i, or a row whose old or new version conflicts with n.
Contended(s, i, n) ==
    \E q \in Slots \ {s} :
        \/ writes[q][i] # None
        \/ \E j \in Ids \ {i} :
              /\ writes[q][j] # None
              /\ \/ Conflicting(writes[q][j], n)
                 \/ db[j] # None /\ Conflicting(db[j], n)

\* Writing row n at id i breaks a unique index: P2002.
Clashes(s, i, n) ==
    \E j \in Ids \ {i} : View(s)[j] # None /\ Conflicting(View(s)[j], n)

Free(i) == db[i] = None /\ \A q \in Slots : writes[q][i] = None

-----------------------------------------------------------------------------
(* Deciding what becomes of one record of the batch.                       *)

\* Slips: no stamp is supplied when it is absent; no stamp is clamped.
StampUnsupplied(r) == IF r.upd # NoTime /\ r.upd > now + Skew THEN now
                                                              ELSE r.upd
StampUnclamped(r) == IF r.upd = NoTime THEN now ELSE r.upd

\* incomingUpdatedAt: the device's stamp, or the server's when it is absent
\* or too far ahead.
Stamp(r) == IF r.upd = NoTime \/ r.upd > now + Skew THEN now ELSE r.upd

FoundBySyncId(s, r) ==
    {i \in Ids : snap[s][i] # None /\ snap[s][i].sync = r.sync}

FoundByKey(s, r) ==
    {i \in Ids : keySnap[s][i] # None /\ keySnap[s][i].key = r.key}

\* existingMap.get(r.syncId) ?? nameMap.get(r.name), as <<id, row read>>.
Existing(s, r) ==
    IF FoundBySyncId(s, r) # {}
    THEN {<<i, snap[s][i]>> : i \in FoundBySyncId(s, r)}
    ELSE {<<i, keySnap[s][i]>> : i \in FoundByKey(s, r)}

\* Slips: the owner, or the version, of the row read is not compared.
AcceptsAnyOwner(s, e, r) == e[2].upd <= Stamp(r)
AcceptsAnyVersion(s, e, r) == e[2].owner = req[s].user

\* The row read, e[2], gives way to record r of this request.
Accepts(s, e, r) == e[2].owner = req[s].user /\ e[2].upd <= Stamp(r)

\* The other rows that count against the quick-access cap.
OtherPins(s, r) ==
    {j \in Ids : /\ Visible(View(s)[j])
                 /\ View(s)[j].owner = req[s].user
                 /\ View(s)[j].pin /\ ~View(s)[j].del
                 /\ View(s)[j].sync # r.sync}

\* Slip: the cap is compared with >.
PinnedOneMore(s, r) ==
    r.pin /\ (table.pins /\ ~r.del => Cardinality(OtherPins(s, r)) <= QuickCap)

Pinned(s, r) ==
    r.pin /\ (table.pins /\ ~r.del => Cardinality(OtherPins(s, r)) < QuickCap)

\* The data object handed to update or create.
NewRow(s, r) ==
    [ sync |-> r.sync, key |-> r.key, owner |-> req[s].user,
      dev |-> IF table.device = "never" THEN NoDevice ELSE r.dev,
      del |-> table.deletes /\ r.del, pin |-> Pinned(s, r),
      upd |-> Stamp(r) ]

-----------------------------------------------------------------------------
(* The request.                                                            *)

\* Requests that do not overlap start in a later millisecond than any
\* request whose answer arrived.
Quiet(s) == /\ \A q \in Slots \ {s} : pc[q] = "idle"
            /\ \A d \in Devices : cursor[d] < now

\* A device sends its batch and its cursor; the server notes the time.
Receive(s, d, u, batch) ==
    /\ pc[s] = "idle"
    /\ received < MaxRequests
    /\ received' = received + 1
    /\ Overlapping \/ Quiet(s)
    /\ table.device = "required" =>
          \A k \in DOMAIN batch : batch[k].dev # NoDevice
    /\ pc' = [pc EXCEPT ![s] = "lock"]
    /\ req' = [req EXCEPT ![s] = [dev |-> d, user |-> u,
                                  since |-> cursor[d], ts |-> now]]
    /\ work' = [work EXCEPT ![s] = batch]
    /\ UNCHANGED <<now, table, storeVars, snap, keySnap, writes, page,
                   clientVars>>

\* Slip: the upsert runs outside the transaction and locks nothing.
TrackDeviceUnlocked(s) ==
    /\ pc[s] = "lock"
    /\ pc' = [pc EXCEPT ![s] = IF work[s] = << >> THEN "apply" ELSE "read"]
    /\ UNCHANGED <<serverVars, storeVars, txVars, clientVars>>

\* deviceSync.upsert, the first statement of the push transaction.
TrackDevice(s) ==
    /\ pc[s] = "lock"
    /\ \A q \in Slots \ {s} : Holding(q) => req[q].dev # req[s].dev
    /\ pc' = [pc EXCEPT ![s] = IF work[s] = << >> THEN "apply" ELSE "read"]
    /\ UNCHANGED <<serverVars, storeVars, txVars, clientVars>>

\* findMany({ where: { syncId: { in: syncIds } } })
FindBySyncId(s) ==
    /\ pc[s] = "read"
    /\ snap' = [snap EXCEPT ![s] =
          [i \in Ids |->
             IF /\ Visible(db[i])
                /\ \E k \in DOMAIN work[s] : db[i].sync = work[s][k].sync
             THEN db[i] ELSE None]]
    /\ pc' = [pc EXCEPT ![s] =
                IF table.key = "adopted" THEN "readKey" ELSE "apply"]
    /\ UNCHANGED <<serverVars, storeVars, req, work, keySnap, writes, page,
                   clientVars>>

\* findMany({ where: { userId, name: { in: names } } })
FindByKey(s) ==
    /\ pc[s] = "readKey"
    /\ keySnap' = [keySnap EXCEPT ![s] =
          [i \in Ids |->
             IF /\ Visible(db[i])
                /\ db[i].owner = req[s].user
                /\ \E k \in DOMAIN work[s] : db[i].key = work[s][k].key
             THEN db[i] ELSE None]]
    /\ pc' = [pc EXCEPT ![s] = "apply"]
    /\ UNCHANGED <<serverVars, storeVars, req, work, snap, writes, page,
                   clientVars>>

Applying(s) == pc[s] = "apply" /\ work[s] # << >>

\* continue: the row read belongs to another user or is newer.
Skip(s) ==
    /\ Applying(s)
    /\ \E e \in Existing(s, Head(work[s])) : ~Accepts(s, e, Head(work[s]))
    /\ work' = [work EXCEPT ![s] = Tail(@)]
    /\ UNCHANGED <<serverVars, storeVars, pc, req, snap, keySnap, writes,
                   page, clientVars>>

\* The statement that writes row n at id i, neither waiting nor failing.
Write(s, i, n) ==
    /\ ~Contended(s, i, n)
    /\ ~Clashes(s, i, n)
    /\ writes' = [writes EXCEPT ![s] = [@ EXCEPT ![i] = n]]
    /\ work' = [work EXCEPT ![s] = Tail(@)]
    /\ UNCHANGED <<serverVars, storeVars, pc, req, snap, keySnap, page,
                   clientVars>>

\* update({ where: { id: existing.id }, data })
Update(s) ==
    /\ Applying(s)
    /\ \E e \in Existing(s, Head(work[s])) :
          /\ Accepts(s, e, Head(work[s]))
          /\ Write(s, e[1], NewRow(s, Head(work[s])))

\* create({ data })
Create(s) ==
    /\ Applying(s)
    /\ Existing(s, Head(work[s])) = {}
    /\ \E i \in Ids : Free(i) /\ Write(s, i, NewRow(s, Head(work[s])))

\* The slot ends its request and forgets it.
Close(s) ==
    /\ pc' = [pc EXCEPT ![s] = "idle"]
    /\ req' = [req EXCEPT ![s] = None]
    /\ work' = [work EXCEPT ![s] = << >>]
    /\ snap' = [snap EXCEPT ![s] = NoRows]
    /\ keySnap' = [keySnap EXCEPT ![s] = NoRows]
    /\ writes' = [writes EXCEPT ![s] = NoRows]
    /\ page' = [page EXCEPT ![s] = NoRows]

\* The ids the next record would be written at.
Targets(s) ==
    LET r == Head(work[s]) IN
    IF Existing(s, r) = {} THEN {i \in Ids : Free(i)}
    ELSE {e[1] : e \in {f \in Existing(s, r) : Accepts(s, f, r)}}

\* Slip: a creation that the unique index refuses is tried again.
UniqueViolationRetried(s) ==
    /\ Applying(s)
    /\ \E i \in Targets(s) : LET n == NewRow(s, Head(work[s])) IN
          ~Contended(s, i, n) /\ Clashes(s, i, n)
    /\ UNCHANGED vars

\* The unique index refuses the write; nothing catches P2002, so the whole
\* push rolls back and the device gets 409.
UniqueViolation(s) ==
    /\ Applying(s)
    /\ \E i \in Targets(s) : LET n == NewRow(s, Head(work[s])) IN
          ~Contended(s, i, n) /\ Clashes(s, i, n)
    /\ Close(s)
    /\ UNCHANGED <<serverVars, storeVars, clientVars>>

\* The next statement waits for another open transaction.
Blocked(s) ==
    \/ /\ pc[s] = "lock"
       /\ \E q \in Slots \ {s} : Holding(q) /\ req[q].dev = req[s].dev
    \/ /\ Applying(s)
       /\ \E i \in Targets(s) : Contended(s, i, NewRow(s, Head(work[s])))

\* Any other failure of a statement: a foreign key, the transaction's time
\* limit, the deadlock detector, a crash of the server.
Abort(s) ==
    /\ InTx(s)
    /\ Close(s)
    /\ UNCHANGED <<serverVars, storeVars, clientVars>>

Commit(s) ==
    /\ pc[s] = "apply" /\ work[s] = << >>
    /\ db' = View(s)
    /\ writer' = [i \in Ids |-> IF writes[s][i] # None THEN req[s].dev
                                                       ELSE writer[i]]
    /\ snap' = [snap EXCEPT ![s] = NoRows]
    /\ keySnap' = [keySnap EXCEPT ![s] = NoRows]
    /\ writes' = [writes EXCEPT ![s] = NoRows]
    /\ pc' = [pc EXCEPT ![s] = "pull"]
    /\ UNCHANGED <<serverVars, req, work, page, clientVars>>

\* Slip: rows of every user.
PullWhereAnyOwner(s, row) ==
    /\ Visible(row)
    /\ row.upd > req[s].since

\* pullWhere(hasDeviceId, hasIsDeleted).  SQL's <> is not true of NULL.
PullWhere(s, row) ==
    /\ Visible(row)
    /\ row.owner = req[s].user
    /\ IF req[s].since > 0
       THEN /\ row.upd > req[s].since
            /\ table.device # "never" =>
                  row.dev # NoDevice /\ row.dev # req[s].dev
       ELSE table.deletes => ~row.del

Candidates(s) == {i \in Ids : PullWhere(s, db[i])}

\* orderBy: { updatedAt: 'asc' }, take: 500.  Ties fall either way.
Pull(s) ==
    /\ pc[s] = "pull"
    /\ \E P \in SUBSET Candidates(s) :
          /\ \A i \in P, j \in Candidates(s) \ P : db[i].upd <= db[j].upd
          /\ Cardinality(P) <= PageLimit
          /\ P # Candidates(s) => Cardinality(P) = PageLimit
          /\ page' = [page EXCEPT ![s] =
                        [i \in Ids |-> IF i \in P THEN db[i] ELSE None]]
    /\ pc' = [pc EXCEPT ![s] = "respond"]
    /\ UNCHANGED <<serverVars, storeVars, req, work, snap, keySnap, writes,
                   clientVars>>

\* Slip: the timestamp is taken when the answer is sent.
RespondLate(s) ==
    /\ pc[s] = "respond"
    /\ LET d == req[s].dev IN
          /\ cursor' = [cursor EXCEPT ![d] = now]
          /\ mirror' = [mirror EXCEPT ![d] =
                [i \in Ids |-> IF page[s][i] # None THEN page[s][i]
                                                    ELSE mirror[d][i]]]
    /\ Close(s)
    /\ UNCHANGED <<serverVars, storeVars>>

\* The answer arrives: the device stores the page and serverTimestamp.
Respond(s) ==
    /\ pc[s] = "respond"
    /\ LET d == req[s].dev IN
          /\ cursor' = [cursor EXCEPT ![d] = req[s].ts]
          /\ mirror' = [mirror EXCEPT ![d] =
                [i \in Ids |-> IF page[s][i] # None THEN page[s][i]
                                                    ELSE mirror[d][i]]]
    /\ Close(s)
    /\ UNCHANGED <<serverVars, storeVars>>

\* The push is committed but its answer never arrives.
LoseResponse(s) ==
    /\ pc[s] \in {"pull", "respond"}
    /\ Close(s)
    /\ UNCHANGED <<serverVars, storeVars, clientVars>>

Tick ==
    /\ now < MaxTime
    /\ now' = now + 1
    /\ UNCHANGED <<received, table, storeVars, pc, txVars, clientVars>>

Step(s) ==
    \/ TrackDevice(s) \/ FindBySyncId(s) \/ FindByKey(s)
    \/ Skip(s) \/ Update(s) \/ Create(s) \/ UniqueViolation(s)
    \/ Commit(s) \/ Pull(s) \/ Respond(s)

Next ==
    \/ Tick
    \/ \E s \in Slots :
          \/ \E d \in Devices : \E u \in UsersOf[d], batch \in Batches[d] :
                Receive(s, d, u, batch)
          \/ Step(s)
          \/ Abort(s)
          \/ LoseResponse(s)

Spec == Init /\ [][Next]_vars

\* Row locks are granted in the order they were asked for, so a statement
\* that can run again and again is run; a transaction that stays blocked is
\* the deadlock detector's or the time limit's.
Fairness == \A s \in Slots : /\ SF_vars(Step(s))
                             /\ WF_vars(Blocked(s) /\ Abort(s))

FairSpec == Spec /\ Fairness

-----------------------------------------------------------------------------
(* Properties under any interleaving of requests.                          *)

\* A stored row never disappears and never passes to another user, although
\* the owner is checked on a reading that may be stale when the row is
\* overwritten, and a row may be adopted under a new syncId.
OwnerNeverChanges ==
    [][\A i \in Ids : db[i] # None => /\ db'[i] # None
                                     /\ db'[i].owner = db[i].owner]_vars

\* Pushes of one device take effect in order: the deviceSync row makes them
\* wait for each other, so a row last written by a device is never replaced
\* by an older version from the same device, retries included.
SameDeviceNeverRegresses ==
    [][\A i \in Ids :
          /\ db[i] # None /\ db'[i] # db[i]
          /\ writer'[i] = writer[i]
          => db[i].upd <= db'[i].upd]_vars

\* A device whose clock runs ahead locks nobody out for longer than Skew: no
\* stored stamp is further in the future than that, in any later state.
StampBounded == \A i \in Ids : db[i] # None => db[i].upd <= now + Skew

\* A device only ever holds rows of users signed in on it, and they are
\* still those users' rows on the server.
OwnRowsOnly ==
    \A d \in Devices, i \in Ids :
        mirror[d][i] # None => /\ mirror[d][i].owner \in UsersOf[d]
                               /\ db[i] # None
                               /\ db[i].owner = mirror[d][i].owner

\* Every request ends, deadlocks between two pushes included.
RequestsEnd == \A s \in Slots : pc[s] # "idle" ~> pc[s] = "idle"

-----------------------------------------------------------------------------
(* Properties of pushes that do not meet another push of the same user.    *)

\* Nobody is signed in on two devices.
OneDevicePerUser ==
    \A d, e \in Devices : \A u \in UsersOf[d] \cap UsersOf[e] : d = e

\* No push reads what another push of the same user is about to write:
\* requests do not overlap, or all of a user's come from one device, whose
\* deviceSync row makes them wait for each other.
UsersApart == ~Overlapping \/ OneDevicePerUser

\* The stored rows as LwwStore sees them.
Versions ==
    [i \in Ids |-> IF db[i] = None THEN None
                   ELSE [owner |-> db[i].owner, upd |-> db[i].upd]]

Lww == INSTANCE LwwStore WITH rows <- Versions, by <- writer,
                              Strict <- UsersApart

\* The push is a last-writer-wins store: each push writes rows of one user of
\* its device, all or nothing.  It replaces no row by an older version, with
\* one exception: pushes of one user overlap on two devices, and the version
\* replaced is the other device's.
ImplementsLww == Lww!Spec

\* No user has more than QuickCap quick-access rows.
QuickCapHeld ==
    table.pins =>
        \A u \in Users :
            Cardinality({i \in Ids : /\ db[i] # None /\ db[i].owner = u
                                     /\ db[i].pin /\ ~db[i].del}) <= QuickCap

\* A record whose syncId the server already stores for this user is written
\* to that row, so no unique index refuses it.
UpsertNeverCollides ==
    \A s \in Slots :
        /\ Applying(s)
        /\ \E i \in Ids : /\ db[i] # None /\ db[i].owner = req[s].user
                          /\ db[i].sync = Head(work[s]).sync
        => \A i \in Targets(s) : ~Clashes(s, i, NewRow(s, Head(work[s])))

\* On a table the Prisma extension leaves alone, a record is written to the row
\* that has its syncId, deleted or not.
UpsertsFindRows == ~table.hides => UpsertNeverCollides

-----------------------------------------------------------------------------
(* What the comment of pullWhere promises.                                 *)

\* The row of id i is news for device d: another device wrote it last, d does
\* not hold this version, and it is not the deletion of a row d never had.
Missing(d, i) ==
    /\ db[i] # None /\ db[i].owner \in UsersOf[d]
    /\ writer[i] # d /\ mirror[d][i] # db[i]
    /\ db[i].del => mirror[d][i] # None

\* An incremental answer carries the deletions the device is missing.
TombstonesDelivered ==
    \A s \in Slots, i \in Ids :
        /\ pc[s] = "respond" /\ req[s].since > 0
        /\ Missing(req[s].dev, i) /\ db[i].del
        /\ db[i].upd > req[s].since
        => page[s][i] = db[i]
=============================================================================

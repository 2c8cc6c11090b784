----------------------------- MODULE RestPush -----------------------------
(***************************************************************************)
(* The push routes of the single tables, and the routes that create or     *)
(* remove one row of them.  None of them opens a transaction around a      *)
(* batch: every lookup and every write is a statement of its own, and      *)
(* other requests run in between.                                          *)
(*                                                                         *)
(* The routes of one table are modelled at a time, for the rows of one     *)
(* user; which table it is, is the choice of Init.  A device waits for the *)
(* answer to a request before it sends the next one, but an error is       *)
(* answered while the other upserts of a batch are still under way.        *)
(***************************************************************************)
EXTENDS RestTables, Naturals, Sequences, FiniteSets

CONSTANTS Slots,       \* handlers that can be running at once
          Devices,
          SyncIds,     \* client-made identities of records
          Keys,        \* values of the second unique column
          Ids,         \* primary keys
          Tables,      \* the tables of interest
          Batches,     \* the batches a device may push to each table
          Overlapping, \* whether handlers may overlap in time
          Skew,        \* 300000 ms: how far ahead a stamp may be
          QuickCap,    \* 10 quick-access rows per user
          MaxTime,     \* bound of the model on the clock
          MaxRecords,  \* bound of the model on the records received
          None, NoTime

Record == [ sync : SyncIds, key : Keys, signed : BOOLEAN, del : BOOLEAN,
            pin : BOOLEAN, upd : Nat \cup {NoTime} ]

\* by, made and edit are history: the device that wrote the row last, when
\* the edit was made, and which request of all carried it.
Row == [ sync : SyncIds, key : Keys, signed : BOOLEAN, del : BOOLEAN,
         pin : BOOLEAN, stamp : Nat, by : Devices, made : Nat, edit : Nat ]

Request == [ dev : Devices, batch : Seq(Record), edit : Nat ]

ASSUME TablesAssumption == Tables \subseteq RestTables
ASSUME BatchAssumption ==
    /\ Batches \in [Tables -> SUBSET Seq(Record)]
    /\ \A t \in Tables : << >> \notin Batches[t]
ASSUME BoundAssumption ==
    /\ Skew \in Nat /\ QuickCap \in Nat
    /\ MaxTime \in Nat /\ MaxRecords \in Nat
    /\ Overlapping \in BOOLEAN
\* Primary keys are UUIDs.
ASSUME IdsAssumption == IsFiniteSet(Ids)
ASSUME AbsenceAssumption ==
    /\ None \notin Row /\ None \notin Request /\ None \notin Ids
    /\ NoTime \notin Nat

VARIABLES
    now,      \* Date.now() of the server
    received, \* number of records so far; numbers the requests
    table,    \* the table the requests are for
    rows,     \* its rows
    pc,       \* how far each handler has come
    req,      \* its request
    at,       \* the record it is at
    target,   \* the id of the row it found, or was sent
    existing, \* that row as it was read
    left,     \* the records whose upserts are under way
    sour,     \* history: devices that were answered an error
    calm      \* history: no category pushes overlapped, none stopped half way

handlerVars == <<pc, req, at, target, existing, left>>
vars == <<now, received, table, rows, handlerVars, sour, calm>>

InTurnSteps == {"count", "bySync", "byKey", "write"}
RouteSteps == {"check", "mark", "duplicate", "insert"}
UpsertSteps == {"upsert", "late"}

TypeOK ==
    /\ now \in Nat /\ received \in Nat
    /\ table \in Tables
    /\ rows \in [Ids -> Row \cup {None}]
    /\ pc \in [Slots -> {"idle"} \cup InTurnSteps \cup RouteSteps
                                 \cup UpsertSteps]
    /\ req \in [Slots -> Request \cup {None}]
    /\ \A s \in Slots : pc[s] # "idle" => req[s] \in Request
    /\ at \in [Slots -> Nat]
    /\ \A s \in Slots : pc[s] \in InTurnSteps => at[s] \in DOMAIN req[s].batch
    /\ target \in [Slots -> Ids \cup {None}]
    /\ existing \in [Slots -> Row \cup {None}]
    /\ left \in [Slots -> SUBSET Nat]
    /\ \A s \in Slots : left[s] # {} <=> pc[s] \in UpsertSteps
    /\ sour \subseteq Devices
    /\ calm \in BOOLEAN

Init ==
    /\ now = 1 /\ received = 0
    /\ table \in Tables
    /\ rows = [i \in Ids |-> None]
    /\ pc = [s \in Slots |-> "idle"]
    /\ req = [s \in Slots |-> None]
    /\ at = [s \in Slots |-> 0]
    /\ target = [s \in Slots |-> None]
    /\ existing = [s \in Slots |-> None]
    /\ left = [s \in Slots |-> {}]
    /\ sour = {}
    /\ calm = TRUE

-----------------------------------------------------------------------------
(* Reading and writing rows.                                               *)

\* Slip: deleted rows are found as well.
VisibleAlways(row) == row # None

\* The Prisma extension adds isDeleted = false to findUnique and count.
Visible(row) == row # None /\ (table.hides => ~row.del)

\* Two rows no unique index lets stand side by side.
Conflicting(a, b) ==
    a.sync = b.sync \/ (table.key # "none" /\ a.key = b.key)

\* Writing row n at id i breaks a unique index: P2002.
Clashes(i, n) ==
    \E j \in Ids \ {i} : rows[j] # None /\ Conflicting(rows[j], n)

Current(s) == req[s].batch[at[s]]

\* Slip: no stamp is supplied where it is absent.
IncomingUnsupplied(r) ==
    IF r.upd # NoTime /\ r.upd > now + Skew THEN now ELSE r.upd

\* incomingUpdatedAt
Incoming(r) == IF r.upd = NoTime \/ r.upd > now + Skew THEN now ELSE r.upd

\* updatedAt of the row that is written: @updatedAt, unless data sets it.
Stamp(r) == IF table.stamps /\ r.upd # NoTime THEN r.upd ELSE now

\* The row that record r of request q leaves behind.
Written(q, r) ==
    [ sync |-> r.sync, key |-> r.key,
      signed |-> table.device # "never" /\ r.signed,
      del |-> table.deletes /\ r.del, pin |-> table.pins /\ r.pin,
      stamp |-> Stamp(r), by |-> q.dev, made |-> Incoming(r),
      edit |-> q.edit ]

Put(i, n) == rows' = [rows EXCEPT ![i] = n]

-----------------------------------------------------------------------------
(* Requests come and handlers end.                                         *)

Running(s) == pc[s] # "idle"

\* The device of slot s has no answer yet.
Unanswered(s) == Running(s) /\ pc[s] # "late"

Arrives(s, d, n) ==
    /\ ~Running(s)
    /\ received + n <= MaxRecords
    /\ \A q \in Slots : Unanswered(q) => req[q].dev # d
    /\ Overlapping \/ \A q \in Slots : ~Running(q)
    /\ received' = received + n
    /\ UNCHANGED <<now, table, rows, existing, sour>>

Push(s, d, b) ==
    /\ Arrives(s, d, Len(b))
    /\ req' = [req EXCEPT ![s] = [dev |-> d, batch |-> b, edit |-> received']]
    /\ pc' = [pc EXCEPT ![s] = IF table.atOnce THEN "upsert"
                               ELSE IF table.pins THEN "count" ELSE "bySync"]
    /\ at' = [at EXCEPT ![s] = 1]
    /\ left' = [left EXCEPT ![s] = IF table.atOnce THEN DOMAIN b ELSE {}]
    /\ calm' = (calm /\ (table.pins => \A q \in Slots : ~Running(q)))
    /\ UNCHANGED target

Remove(s, d, i) ==
    /\ "remove" \in table.routes
    /\ Arrives(s, d, 1)
    /\ req' = [req EXCEPT ![s] = [dev |-> d, batch |-> << >>,
                                  edit |-> received']]
    /\ pc' = [pc EXCEPT ![s] = "check"]
    /\ target' = [target EXCEPT ![s] = i]
    /\ UNCHANGED <<at, left, calm>>

Create(s, d, r) ==
    /\ "create" \in table.routes
    /\ Arrives(s, d, 1)
    /\ req' = [req EXCEPT ![s] = [dev |-> d, batch |-> <<r>>,
                                  edit |-> received']]
    /\ pc' = [pc EXCEPT ![s] = "duplicate"]
    /\ at' = [at EXCEPT ![s] = 1]
    /\ UNCHANGED <<target, left, calm>>

Goto(s, step) ==
    /\ pc' = [pc EXCEPT ![s] = step]
    /\ req' = [req EXCEPT ![s] = IF step = "idle" THEN None ELSE @]
    /\ at' = [at EXCEPT ![s] = IF step = "idle" THEN 0 ELSE @]
    /\ UNCHANGED left

Forget(s) ==
    /\ target' = [target EXCEPT ![s] = None]
    /\ existing' = [existing EXCEPT ![s] = None]

End(s) == Goto(s, "idle") /\ Forget(s)

\* On to the next record, or to the answer.
Advance(s) ==
    IF at[s] = Len(req[s].batch) THEN End(s)
    ELSE /\ pc' = [pc EXCEPT ![s] = "bySync"]
         /\ at' = [at EXCEPT ![s] = @ + 1]
         /\ Forget(s)
         /\ UNCHANGED <<req, left>>

\* A unique index, a missing row, a failed statement: the handler throws,
\* and what it has written stays.
Refuse(s) ==
    /\ pc[s] \in InTurnSteps \cup RouteSteps
    /\ sour' = sour \cup {req[s].dev}
    /\ calm' = (calm /\ (pc[s] \in InTurnSteps => at[s] = 1))
    /\ End(s)
    /\ UNCHANGED <<now, received, table, rows>>

-----------------------------------------------------------------------------
(* One record after the other.                                             *)

\* The pinned rows that no record of the batch names or identifies.
OtherPinned(b) ==
    {i \in Ids : /\ Visible(rows[i]) /\ rows[i].pin /\ ~rows[i].del
                 /\ \A k \in DOMAIN b : /\ rows[i].sync # b[k].sync
                                        /\ rows[i].key # b[k].key}

IncomingPinned(b) == {b[k].sync : k \in {j \in DOMAIN b : b[j].pin /\ ~b[j].del}}

\* Slip: only the rows on disk are counted.
WithinCapOnDisk(b) == Cardinality(OtherPinned(b)) <= QuickCap

WithinCap(b) ==
    Cardinality(OtherPinned(b)) + Cardinality(IncomingPinned(b)) <= QuickCap

\* assertQuickAccessCapAfterPush
CountPins(s) ==
    /\ pc[s] = "count"
    /\ WithinCap(req[s].batch)
    /\ Goto(s, "bySync")
    /\ UNCHANGED <<now, received, table, rows, target, existing, sour, calm>>

\* findUnique by syncId, and then by the user's name or SKU
Hits(s) ==
    {i \in Ids : /\ Visible(rows[i])
                 /\ IF pc[s] = "bySync" THEN rows[i].sync = Current(s).sync
                                        ELSE rows[i].key = Current(s).key}

\* Slip: stamps are never compared.
NewerNever(row, r) == FALSE

Newer(row, r) == table.compares /\ row.stamp > Incoming(r)

Hit(s) ==
    /\ pc[s] \in {"bySync", "byKey"}
    /\ \E i \in Hits(s) :
          /\ ~Newer(rows[i], Current(s))
          /\ target' = [target EXCEPT ![s] = i]
          /\ existing' = [existing EXCEPT ![s] = rows[i]]
    /\ Goto(s, "write")
    /\ UNCHANGED <<now, received, table, rows, sour, calm>>

\* The server's row is newer: the record is dropped.
Skip(s) ==
    /\ pc[s] \in {"bySync", "byKey"}
    /\ \E i \in Hits(s) : Newer(rows[i], Current(s))
    /\ Advance(s)
    /\ UNCHANGED <<now, received, table, rows, sour, calm>>

Miss(s) ==
    /\ pc[s] \in {"bySync", "byKey"}
    /\ Hits(s) = {}
    /\ Goto(s, IF pc[s] = "bySync" /\ table.key = "adopted" THEN "byKey"
                                                           ELSE "write")
    /\ UNCHANGED <<now, received, table, rows, target, existing, sour, calm>>

\* update by the id that was found, whatever the row has become since
Update(s) ==
    /\ pc[s] = "write" /\ target[s] # None
    /\ ~Clashes(target[s], Written(req[s], Current(s)))
    /\ Put(target[s], Written(req[s], Current(s)))
    /\ Advance(s)
    /\ UNCHANGED <<now, received, table, sour, calm>>

Add(s) ==
    /\ pc[s] = "write" /\ target[s] = None
    /\ \E i \in Ids :
          /\ rows[i] = None
          /\ ~Clashes(i, Written(req[s], Current(s)))
          /\ Put(i, Written(req[s], Current(s)))
    /\ Advance(s)
    /\ UNCHANGED <<now, received, table, sour, calm>>

-----------------------------------------------------------------------------
(* All records at the same time.                                           *)

\* Slip: the first upsert that ends is answered, not the last.
AfterFirst(s, rest) == IF rest = {} THEN "idle" ELSE "late"

\* Promise.all fulfils when every upsert has.
After(s, rest) == IF rest = {} THEN "idle" ELSE pc[s]

\* One upsert is over, and the handler is at step.
Settle(s, k, step) ==
    /\ pc' = [pc EXCEPT ![s] = step]
    /\ req' = [req EXCEPT ![s] = IF step = "idle" THEN None ELSE @]
    /\ at' = [at EXCEPT ![s] = IF step = "idle" THEN 0 ELSE @]
    /\ left' = [left EXCEPT ![s] = @ \ {k}]
    /\ UNCHANGED <<now, received, table, target, existing, calm>>

\* INSERT ... ON CONFLICT (syncId) DO UPDATE, of any row
Upsert(s, k) ==
    /\ pc[s] \in UpsertSteps /\ k \in left[s]
    /\ LET r == req[s].batch[k] IN
          \E i \in Ids :
             /\ IF \E j \in Ids : rows[j] # None /\ rows[j].sync = r.sync
                THEN rows[i] # None /\ rows[i].sync = r.sync
                ELSE rows[i] = None
             /\ Put(i, Written(req[s], r))
    /\ Settle(s, k, After(s, left[s] \ {k}))
    /\ UNCHANGED sour

\* Promise.all rejects at once; the other upserts go on.
UpsertFails(s, k) ==
    /\ pc[s] \in UpsertSteps /\ k \in left[s]
    /\ sour' = IF pc[s] = "upsert" THEN sour \cup {req[s].dev} ELSE sour
    /\ Settle(s, k, IF left[s] = {k} THEN "idle" ELSE "late")
    /\ UNCHANGED rows

-----------------------------------------------------------------------------
(* Routes of single rows.                                                  *)

\* ensureProductExists, ensureCustomerExists, findUnique by id
FindToRemove(s) ==
    /\ pc[s] = "check"
    /\ Visible(rows[target[s]])
    /\ Goto(s, "mark")
    /\ UNCHANGED <<now, received, table, rows, target, existing, sour, calm>>

Mark(s) ==
    /\ pc[s] = "mark"
    /\ Put(target[s], [rows[target[s]] EXCEPT !.del = TRUE, !.stamp = now])
    /\ End(s)
    /\ UNCHANGED <<now, received, table, sour, calm>>

\* findUnique by SKU; 409 DUPLICATE_SKU when there is one
CheckDuplicate(s) ==
    /\ pc[s] = "duplicate"
    /\ ~\E i \in Ids : Visible(rows[i]) /\ rows[i].key = Current(s).key
    /\ Goto(s, "insert")
    /\ UNCHANGED <<now, received, table, rows, target, existing, sour, calm>>

\* upsert by syncId with nothing to update
Insert(s) ==
    /\ pc[s] = "insert"
    /\ LET r == Current(s) IN
          IF \E i \in Ids : rows[i] # None /\ rows[i].sync = r.sync
          THEN UNCHANGED rows
          ELSE \E i \in Ids : /\ rows[i] = None
                              /\ ~Clashes(i, Written(req[s], r))
                              /\ Put(i, Written(req[s], r))
    /\ End(s)
    /\ UNCHANGED <<now, received, table, sour, calm>>

-----------------------------------------------------------------------------

Tick ==
    /\ now < MaxTime
    /\ now' = now + 1
    /\ UNCHANGED <<received, table, rows, handlerVars, sour, calm>>

\* What a product is created from.
Fresh(r) == ~r.del /\ ~r.pin /\ r.upd = NoTime

Handle(s) ==
    \/ Refuse(s) \/ CountPins(s) \/ Hit(s) \/ Skip(s) \/ Miss(s)
    \/ Update(s) \/ Add(s)
    \/ \E k \in left[s] : Upsert(s, k) \/ UpsertFails(s, k)
    \/ FindToRemove(s) \/ Mark(s) \/ CheckDuplicate(s) \/ Insert(s)

Next ==
    \/ Tick
    \/ \E s \in Slots :
          \/ Handle(s)
          \/ \E d \in Devices :
                \/ \E b \in Batches[table] : Push(s, d, b)
                \/ \E i \in Ids : Remove(s, d, i)
                \/ \E b \in Batches[table] :
                      Len(b) = 1 /\ Fresh(b[1]) /\ Create(s, d, b[1])

Spec == Init /\ [][Next]_vars

-----------------------------------------------------------------------------
(* Pulling.                                                                *)

\* Slip: deviceId is compared on every table.
PulledSigned(row, e, since) ==
    /\ Visible(row)
    /\ IF since = 0 THEN ~row.del
       ELSE row.stamp > since /\ row.signed /\ row.by # e

\* findMany of a pull of device e: changes since its last one, or all rows.
\* deviceId <> ? is not true of the rows that have none.
Pulled(row, e, since) ==
    /\ Visible(row)
    /\ IF since = 0 THEN ~row.del
       ELSE /\ row.stamp > since
            /\ table.device = "never" \/ (row.signed /\ row.by # e)

-----------------------------------------------------------------------------

\* A device that waits for its answers never sees an older edit of its own
\* replace a newer one, whatever other devices do and wherever a handler
\* fails.  Where records are upserted at once this takes that none of the
\* device's pushes was answered an error: its other upserts may still run.
OneClientInOrder ==
    [][\A i \in Ids :
          /\ rows[i] # None /\ rows'[i].by = rows[i].by
          /\ table.atOnce => rows[i].by \notin sour
          => rows'[i].edit >= rows[i].edit]_vars

\* The last statement of a push that goes through.
Succeeds(s) ==
    Skip(s) \/ Update(s) \/ Add(s) \/ \E k \in left[s] : Upsert(s, k)

\* An answer that is no error leaves no record behind: a row carries the
\* syncId of every record of the batch, also of the records that were dropped
\* as older, and whatever other requests did since each was handled.  (Where
\* a record is matched by its name or SKU, a row of another syncId may stand
\* for it.)
AcknowledgedStored ==
    [][\A s \in Slots :
          /\ table.key # "adopted"
          /\ Unanswered(s) /\ ~Unanswered(s)' /\ Succeeds(s)
          => \A k \in DOMAIN req[s].batch :
                \E i \in Ids : /\ rows'[i] # None
                               /\ rows'[i].sync = req[s].batch[k].sync]_vars

\* A deletion is undone only by a push that read the row before it was
\* deleted: the lookups hide deleted rows, and the unique indexes keep a
\* second row from taking their place.  (Upserts do undo deletions.)
DeletionFinal ==
    [][\A i \in Ids :
          /\ ~table.atOnce
          /\ rows[i] # None /\ rows[i].del /\ ~rows'[i].del
          => \E s \in Slots : /\ pc[s] = "write" /\ target[s] = i
                              /\ existing[s] # None /\ ~existing[s].del]_vars

\* An edit never replaces one that was made later, beyond the skew allowed,
\* unless the row was written between the comparison and the update: the
\* stamp that is compared is the server's, from when the edit arrived.
LaterEditKept ==
    [][\A s \in Slots :
          table.compares /\ Update(s) /\ rows[target[s]] = existing[s] =>
              rows'[target[s]].made + Skew >= rows[target[s]].made]_vars

\* A change that pulls may show is shown to every other device whose last
\* pull was earlier, on tables whose rows the server stamps, of records that
\* are signed where pulls look at the signature.
ChangesPulled ==
    [][\A i \in Ids :
          /\ rows'[i] # rows[i] /\ Visible(rows[i])'
          /\ ~table.stamps /\ (table.device # "never" => rows'[i].signed)
          => \A e \in Devices \ {rows'[i].by}, since \in 0..(now - 1) :
                Pulled(rows[i], e, since)']_vars

QuickAccess == {i \in Ids : rows[i] # None /\ rows[i].pin /\ ~rows[i].del}

QuickCapHeld == Cardinality(QuickAccess) <= QuickCap

\* A push leaves no user with more quick-access rows than the cap.
CapKept == (\A s \in Slots : ~Running(s)) => QuickCapHeld

\* The same as long as no two category pushes have overlapped and none has
\* stopped half way: counting beforehand leaves out the rows the batch will
\* write, by syncId and by name, and no others.
CountingSound == calm => CapKept
=============================================================================

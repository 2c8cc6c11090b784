--------------------------- MODULE SyncInvariant ---------------------------
(***************************************************************************)
(* The inductive invariants of SyncServer: what the readings, the pending  *)
(* writes and the pages of the open requests have to do with the committed *)
(* rows, in every state any interleaving of statements reaches; and, of    *)
(* pushes that meet no other push of their user, the quick-access cap and  *)
(* that an upsert finds the row it is meant for.                           *)
(***************************************************************************)
EXTENDS SyncServer

\* Two pushes of one device are never past the deviceSync row together.
DeviceExclusion ==
    \A s, q \in Slots :
        s # q /\ Holding(s) /\ Holding(q) => req[s].dev # req[q].dev

\* Requests that do not overlap are alone.
Alone ==
    ~Overlapping =>
        \A s, q \in Slots : s # q => pc[s] = "idle" \/ pc[q] = "idle"

\* Readings and pending writes live in the push, pages in the answer.
Clean ==
    \A s \in Slots :
        /\ pc[s] \notin {"readKey", "apply"} =>
              snap[s] = NoRows /\ keySnap[s] = NoRows /\ writes[s] = NoRows
        /\ pc[s] # "respond" => page[s] = NoRows

\* Another device committed the row of id i after this push read it.
Overtaken(s, i) == Overlapping /\ writer[i] # req[s].dev

\* A row read is still the row stored, unless another device replaced it;
\* its owner is the owner still.
Known(s, i, row) ==
    /\ db[i] # None
    /\ db[i].owner = row.owner
    /\ db[i] = row \/ Overtaken(s, i)

ReadingsKnown ==
    \A s \in Slots, i \in Ids :
        /\ snap[s][i] # None => Known(s, i, snap[s][i])
        /\ keySnap[s][i] # None => Known(s, i, keySnap[s][i])

\* No two open pushes have written the same row or the same unique value.
WritesApart ==
    \A s, q \in Slots, i, j \in Ids :
        s # q /\ writes[s][i] # None /\ writes[q][j] # None
        => i # j /\ ~Conflicting(writes[s][i], writes[q][j])

\* A pending write is the requester's, and replaces a row of the requester
\* that is not newer, unless another device replaced that row meanwhile.
WritesOwned ==
    \A s \in Slots, i \in Ids :
        writes[s][i] # None =>
            /\ writes[s][i].owner = req[s].user
            /\ db[i] # None => db[i].owner = req[s].user

WritesNewer ==
    \A s \in Slots, i \in Ids :
        writes[s][i] # None /\ db[i] # None =>
            Overtaken(s, i) \/ db[i].upd <= writes[s][i].upd

\* Every transaction sees rows the unique indexes allow.
Distinct(rows) ==
    \A i, j \in Ids :
        i # j /\ rows[i] # None /\ rows[j] # None
        => ~Conflicting(rows[i], rows[j])

ViewsDistinct == \A s \in Slots : Distinct(View(s))

WritesBounded ==
    \A s \in Slots, i \in Ids :
        writes[s][i] # None => writes[s][i].upd <= now + Skew

\* A request is made by a user signed in on its device.
RequestsSigned ==
    \A s \in Slots : pc[s] # "idle" => req[s].user \in UsersOf[req[s].dev]

\* The last writer of a row is a device on which its owner is signed in.
WritersSigned ==
    \A i \in Ids :
        db[i] # None => /\ writer[i] \in Devices
                        /\ db[i].owner \in UsersOf[writer[i]]

\* A page holds rows of the requester, which are the requester's still.
PagesOwned ==
    \A s \in Slots, i \in Ids :
        page[s][i] # None => /\ page[s][i].owner = req[s].user
                             /\ db[i] # None
                             /\ db[i].owner = page[s][i].owner

\* Readings, pending writes and pages agree with the rows stored as said
\* above, whatever other requests have committed since they were taken: what
\* the push loop of pushAndPull relies on when it writes a row by id alone.
Consistent ==
    /\ DeviceExclusion
    /\ Alone
    /\ Clean
    /\ ReadingsKnown
    /\ WritesApart
    /\ WritesOwned
    /\ WritesNewer
    /\ ViewsDistinct
    /\ WritesBounded
    /\ RequestsSigned
    /\ WritersSigned
    /\ PagesOwned

\* No two stored rows have one identity, which the lookups by syncId, name and
\* sku (existingMap, nameMap, skuMap) rely on.
OneRowPerIdentity ==
    \A i, j \in Ids :
        i # j /\ db[i] # None /\ db[j] # None => ~Conflicting(db[i], db[j])

IInv ==
    /\ TypeOK
    /\ Consistent
    /\ OneRowPerIdentity
    /\ StampBounded
    /\ OwnRowsOnly

-----------------------------------------------------------------------------
(* The quick-access cap.                                                   *)

PinsOf(rows, u) ==
    {i \in Ids : rows[i] # None /\ rows[i].owner = u /\ rows[i].pin
                 /\ ~rows[i].del}

\* The cap holds of what each transaction would leave if it committed now.
CapInv ==
    table.pins =>
        \A u \in Users :
            /\ Cardinality(PinsOf(db, u)) <= QuickCap
            /\ \A s \in Slots : Cardinality(PinsOf(View(s), u)) <= QuickCap

-----------------------------------------------------------------------------
(* Upserts and the rows they are meant for.                                *)

\* A record never changes the value of its second unique column.
KeysFixed ==
    \A d, e \in Devices : \A a \in Batches[d], b \in Batches[e] :
        \A k \in DOMAIN a, l \in DOMAIN b :
            a[k].sync = b[l].sync => a[k].key = b[l].key

\* Some record has this syncId with this key.
Pushed(row) ==
    \E d \in Devices : \E b \in Batches[d] : \E k \in DOMAIN b :
        row.sync = b[k].sync /\ row.key = b[k].key

RowsPushed ==
    /\ \A i \in Ids : db[i] # None => Pushed(db[i])
    /\ \A s \in Slots, i \in Ids : writes[s][i] # None => Pushed(writes[s][i])
    /\ \A s \in Slots : \A k \in DOMAIN work[s] : Pushed(work[s][k])

\* The reading has every row of the requester a record of the batch names.
ReadingsComplete ==
    ~table.hides =>
        \A s \in Slots, i \in Ids :
            pc[s] = "apply" /\ db[i] # None /\ db[i].owner = req[s].user =>
                \A k \in DOMAIN work[s] :
                    work[s][k].sync = db[i].sync => snap[s][i] = db[i]

\* Where no row is adopted, a row keeps its syncId.
WritesKeepIdentity ==
    table.key # "adopted" =>
        \A s \in Slots :
            /\ pc[s] # "readKey"
            /\ \A i \in Ids :
                  /\ keySnap[s][i] = None
                  /\ writes[s][i] # None /\ db[i] # None =>
                        writes[s][i].sync = db[i].sync

UpsertInv == RowsPushed /\ ReadingsComplete /\ WritesKeepIdentity
=============================================================================

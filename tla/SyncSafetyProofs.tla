------------------------- MODULE SyncSafetyProofs -------------------------
(***************************************************************************)
(* The inductive invariant of SyncInvariant holds of SyncServer, and with  *)
(* it the safety properties that hold under any interleaving.  One lemma   *)
(* per kind of step: what it does to the stored rows and to what the       *)
(* requests hold of them decides which conjuncts it can disturb.           *)
(***************************************************************************)
EXTENDS SyncServerProofs, SyncInvariant

-----------------------------------------------------------------------------
(* Facts about the operators.                                              *)

LEMMA ConflictSymmetric ==
    ASSUME NEW a, NEW b, Conflicting(a, b)
    PROVE  Conflicting(b, a)
BY DEF Conflicting

LEMMA NoRowsEmpty == \A i \in Ids : NoRows[i] = None
BY DEF NoRows

\* A stamp is at most Skew ahead of the server's clock.
LEMMA StampAtMost ==
    ASSUME TypeOK, NEW r \in Record
    PROVE  Stamp(r) \in Nat /\ Stamp(r) <= now + Skew
BY StampType, BoundAssumption DEF TypeOK, Stamp, Record

\* A row found for a record is a row of one of the two readings.
LEMMA ExistingRead ==
    ASSUME NEW s \in Slots, NEW r, NEW e \in Existing(s, r)
    PROVE  /\ e[1] \in Ids
           /\ e[2] # None
           /\ e[2] = snap[s][e[1]] \/ e[2] = keySnap[s][e[1]]
BY DEF Existing, FoundBySyncId, FoundByKey

-----------------------------------------------------------------------------
(* Each kind of step preserves the invariant.                              *)

LEMMA InitInv == Init => IInv
<1>. SUFFICES ASSUME Init PROVE IInv
  OBVIOUS
<1>1. TypeOK
  BY InitType
<1>2. Consistent
  BY NoRowsEmpty DEF Init, Consistent, DeviceExclusion, Alone, Clean,
     ReadingsKnown, WritesApart, WritesOwned, WritesNewer, ViewsDistinct,
     Distinct, View, WritesBounded, RequestsSigned, WritersSigned, PagesOwned,
     Holding
<1>3. OneRowPerIdentity /\ StampBounded /\ OwnRowsOnly
  BY NoRowsEmpty DEF Init, OneRowPerIdentity, StampBounded, OwnRowsOnly
<1>. QED
  BY <1>1, <1>2, <1>3 DEF IInv

\* A step that leaves alone the stored rows and all that is held of them.
Still == UNCHANGED <<table, db, writer, snap, keySnap, writes, page, mirror>>

LEMMA StillInv ==
    ASSUME IInv, TypeOK', Still, now' \in {now, now + 1},
           \A s \in Slots :
               \/ req'[s] = req[s]
               \/ /\ snap[s] = NoRows /\ keySnap[s] = NoRows
                  /\ writes[s] = NoRows /\ page[s] = NoRows,
           DeviceExclusion', Alone', RequestsSigned', Clean'
    PROVE  IInv'
<1>. USE DEF Still
<1>1. ReadingsKnown'
  BY NoRowsEmpty DEF IInv, Consistent, ReadingsKnown, Known, Overtaken
<1>2. WritesApart'
  BY DEF IInv, Consistent, WritesApart, Conflicting
<1>3. WritesOwned' /\ WritesNewer'
  BY NoRowsEmpty DEF IInv, Consistent, WritesOwned, WritesNewer, Overtaken
<1>4. ViewsDistinct'
  BY DEF IInv, Consistent, ViewsDistinct, Distinct, View, Conflicting
<1>5. PagesOwned' /\ WritersSigned'
  BY NoRowsEmpty DEF IInv, Consistent, PagesOwned, WritersSigned
<1>6. OneRowPerIdentity' /\ OwnRowsOnly'
  BY DEF IInv, OneRowPerIdentity, OwnRowsOnly, Conflicting
<1>7. WritesBounded' /\ StampBounded'
  <2>1. ASSUME NEW row \in Row, row.upd <= now + Skew
        PROVE  row.upd <= now' + Skew
    BY <2>1, BoundAssumption DEF IInv, TypeOK, Row
  <2>. QED
    BY <2>1 DEF IInv, TypeOK, Rows, Consistent, WritesBounded, StampBounded
<1>. QED
  BY <1>1, <1>2, <1>3, <1>4, <1>5, <1>6, <1>7 DEF IInv, Consistent

LEMMA ReceiveInv ==
    ASSUME IInv, NEW s \in Slots, NEW d \in Devices, NEW u \in UsersOf[d],
           NEW batch \in Batches[d], Receive(s, d, u, batch)
    PROVE  IInv'
<1>. USE DEF IInv, Consistent
<1>1. TypeOK'
  BY ReceiveType
<1>2. /\ pc' = [pc EXCEPT ![s] = "lock"] /\ pc[s] = "idle"
      /\ req' = [req EXCEPT ![s] = [dev |-> d, user |-> u,
                                    since |-> cursor[d], ts |-> now]]
      /\ now' = now /\ Still
  BY DEF Receive, Still, storeVars, clientVars
<1>3. DeviceExclusion'
  BY <1>2 DEF TypeOK, DeviceExclusion, Holding
<1>4. Alone'
  BY <1>2 DEF TypeOK, Alone, Receive, Quiet
<1>5. Clean'
  BY <1>2 DEF TypeOK, Clean, Still
<1>6. RequestsSigned'
  BY <1>2 DEF TypeOK, RequestsSigned
<1>7. \A q \in Slots :
          \/ req'[q] = req[q]
          \/ /\ snap[q] = NoRows /\ keySnap[q] = NoRows
             /\ writes[q] = NoRows /\ page[q] = NoRows
  BY <1>2 DEF TypeOK, Clean
<1>. QED
  BY <1>1, <1>2, <1>3, <1>4, <1>5, <1>6, <1>7, StillInv

LEMMA TrackDeviceInv ==
    ASSUME IInv, NEW s \in Slots, TrackDevice(s)
    PROVE  IInv'
<1>. USE DEF IInv, Consistent
<1>1. TypeOK'
  BY TrackDeviceType
<1>2. /\ pc' = [pc EXCEPT ![s] = IF work[s] = << >> THEN "apply" ELSE "read"]
      /\ pc[s] = "lock" /\ req' = req /\ now' = now /\ Still
  BY DEF TrackDevice, Still, serverVars, storeVars, txVars, clientVars
<1>3. DeviceExclusion'
  BY <1>2 DEF TypeOK, DeviceExclusion, Holding, TrackDevice
<1>4. Alone' /\ RequestsSigned' /\ Clean'
  BY <1>2 DEF TypeOK, Alone, RequestsSigned, Clean, Still
<1>. QED
  BY <1>1, <1>2, <1>3, <1>4, StillInv

LEMMA SkipTickInv ==
    ASSUME IInv, Tick \/ \E s \in Slots : Skip(s)
    PROVE  IInv'
<1>. USE DEF IInv, Consistent
<1>1. TypeOK'
  BY SkipType, TickType
<1>2. pc' = pc /\ req' = req /\ now' \in {now, now + 1} /\ Still
  BY DEF Skip, Tick, Still, serverVars, storeVars, txVars, clientVars
<1>3. DeviceExclusion' /\ Alone' /\ RequestsSigned' /\ Clean'
  BY <1>2 DEF DeviceExclusion, Holding, Alone, RequestsSigned, Clean, Still
<1>. QED
  BY <1>1, <1>2, <1>3, StillInv

\* A reading is taken of committed rows.
LEMMA FindInv ==
    ASSUME IInv, NEW s \in Slots, FindBySyncId(s) \/ FindByKey(s)
    PROVE  IInv'
<1>. USE DEF IInv, Consistent
<1>1. TypeOK'
  BY FindType
<1>2. /\ UNCHANGED <<now, table, db, writer, req, writes, page, mirror>>
      /\ pc[s] \in {"read", "readKey"}
      /\ \E p \in {"readKey", "apply"} : pc' = [pc EXCEPT ![s] = p]
  BY DEF FindBySyncId, FindByKey, serverVars, storeVars, clientVars
<1>3. DeviceExclusion'
  BY <1>2 DEF TypeOK, DeviceExclusion, Holding
<1>4. Alone' /\ RequestsSigned'
  BY <1>2 DEF TypeOK, Alone, RequestsSigned
<1>5. /\ \A q \in Slots \ {s} : snap'[q] = snap[q] /\ keySnap'[q] = keySnap[q]
      /\ \A i \in Ids : snap'[s][i] \in {None, db[i], snap[s][i]}
      /\ \A i \in Ids : keySnap'[s][i] \in {None, db[i], keySnap[s][i]}
  BY DEF TypeOK, FindBySyncId, FindByKey
<1>6. Clean'
  BY <1>2, <1>5 DEF TypeOK, Clean
<1>7. ReadingsKnown'
  BY <1>2, <1>5 DEF ReadingsKnown, Known, Overtaken
<1>8. /\ WritesApart' /\ WritesOwned' /\ WritesNewer'
      /\ PagesOwned' /\ WritersSigned'
  BY <1>2 DEF WritesApart, WritesOwned, WritesNewer, PagesOwned, WritersSigned,
     Overtaken, Conflicting
<1>9. ViewsDistinct'
  BY <1>2 DEF ViewsDistinct, Distinct, View, Conflicting
<1>10. WritesBounded' /\ OneRowPerIdentity' /\ StampBounded' /\ OwnRowsOnly'
  BY <1>2 DEF WritesBounded, OneRowPerIdentity, StampBounded, OwnRowsOnly,
     Conflicting
<1>. QED
  BY <1>1, <1>3, <1>4, <1>6, <1>7, <1>8, <1>9, <1>10

\* A pending write: of a row read and accepted, or of a free id.
LEMMA WriteInv ==
    ASSUME IInv, NEW s \in Slots, Update(s) \/ Create(s)
    PROVE  IInv'
<1>. USE DEF IInv, Consistent
<1>. DEFINE n == NewRow(s, Head(work[s]))
<1>1. TypeOK'
  BY UpdateCreateType
<1>2. /\ Applying(s)
      /\ Head(work[s]) \in Record
      /\ n \in Row
      /\ n.owner = req[s].user /\ n.upd = Stamp(Head(work[s]))
      /\ n.upd \in Nat /\ n.upd <= now + Skew
  BY NewRowType, StampAtMost DEF Update, Create, NewRow
<1>3. PICK i \in Ids :
          /\ Write(s, i, n)
          /\ db[i] # None => /\ db[i].owner = req[s].user
                             /\ Overtaken(s, i) \/ db[i].upd <= n.upd
  <2>1. CASE Update(s)
    <3>1. PICK e \in Existing(s, Head(work[s])) :
              Accepts(s, e, Head(work[s])) /\ Write(s, e[1], n)
      BY <2>1 DEF Update
    <3>2. e[1] \in Ids /\ Known(s, e[1], e[2])
      BY ExistingRead DEF ReadingsKnown
    <3>3. e[2].owner = req[s].user /\ e[2].upd <= n.upd
      BY <3>1, <1>2 DEF Accepts
    <3>. QED
      BY <3>1, <3>2, <3>3 DEF Known
  <2>2. CASE Create(s)
    BY <2>2 DEF Create, Free
  <2>. QED
    BY <2>1, <2>2
<1>4. /\ UNCHANGED <<now, table, db, writer, pc, req, snap, keySnap, page,
                     mirror>>
      /\ writes' = [writes EXCEPT ![s] = [@ EXCEPT ![i] = n]]
      /\ ~Contended(s, i, n) /\ ~Clashes(s, i, n)
  BY <1>3 DEF Write, serverVars, storeVars, clientVars
<1>5. /\ writes'[s][i] = n
      /\ \A j \in Ids \ {i} : writes'[s][j] = writes[s][j]
      /\ \A q \in Slots \ {s} : writes'[q] = writes[q]
  BY <1>4 DEF TypeOK, Rows
<1>6. /\ DeviceExclusion' /\ Alone' /\ RequestsSigned'
      /\ PagesOwned' /\ WritersSigned'
  BY <1>4 DEF DeviceExclusion, Holding, Alone, RequestsSigned, PagesOwned,
     WritersSigned
<1>7. Clean'
  BY <1>2, <1>4, <1>5 DEF Clean, Applying
<1>8. ReadingsKnown'
  BY <1>4 DEF ReadingsKnown, Known, Overtaken
<1>9. WritesApart'
  <2>1. \A q \in Slots \ {s}, j \in Ids :
            writes[q][j] # None => i # j /\ ~Conflicting(writes[q][j], n)
    BY <1>4 DEF Contended
  <2>2. \A q \in Slots \ {s}, j \in Ids :
            writes[q][j] # None => i # j /\ ~Conflicting(n, writes[q][j])
    BY <2>1, ConflictSymmetric
  <2>3. \A a, b : Conflicting(a, b)' <=> Conflicting(a, b)
    BY <1>4 DEF Conflicting
  <2>. QED
    BY <1>5, <2>1, <2>2, <2>3 DEF WritesApart
<1>10. WritesOwned' /\ WritesNewer'
  BY <1>2, <1>3, <1>4, <1>5 DEF WritesOwned, WritesNewer, Overtaken
<1>11. ViewsDistinct'
  <2>1. \A q \in Slots \ {s}, j \in Ids : View(q)'[j] = View(q)[j]
    BY <1>4, <1>5 DEF View
  <2>2. View(s)'[i] = n /\ \A j \in Ids \ {i} : View(s)'[j] = View(s)[j]
    BY <1>2, <1>4, <1>5, AbsenceAssumption DEF View
  <2>3. \A j \in Ids \ {i} :
            View(s)[j] # None => /\ ~Conflicting(View(s)[j], n)
                                 /\ ~Conflicting(n, View(s)[j])
    BY <1>4, ConflictSymmetric DEF Clashes
  <2>4. \A a, b : Conflicting(a, b)' <=> Conflicting(a, b)
    BY <1>4 DEF Conflicting
  <2>. QED
    BY <2>1, <2>2, <2>3, <2>4 DEF ViewsDistinct, Distinct
<1>12. WritesBounded'
  BY <1>2, <1>4, <1>5 DEF WritesBounded
<1>13. OneRowPerIdentity' /\ StampBounded' /\ OwnRowsOnly'
  BY <1>4 DEF OneRowPerIdentity, StampBounded, OwnRowsOnly, Conflicting
<1>. QED
  BY <1>1, <1>6, <1>7, <1>8, <1>9, <1>10, <1>11, <1>12, <1>13

\* The end of a request, with or without an answer.
LEMMA CloseInv ==
    ASSUME IInv, TypeOK', NEW s \in Slots, Close(s), serverVars' = serverVars,
           storeVars' = storeVars, OwnRowsOnly'
    PROVE  IInv'
<1>. USE DEF IInv, Consistent, serverVars, storeVars
<1>1. /\ pc'[s] = "idle"
      /\ snap'[s] = NoRows /\ keySnap'[s] = NoRows
      /\ writes'[s] = NoRows /\ page'[s] = NoRows
      /\ \A q \in Slots \ {s} :
            /\ pc'[q] = pc[q] /\ req'[q] = req[q]
            /\ snap'[q] = snap[q] /\ keySnap'[q] = keySnap[q]
            /\ writes'[q] = writes[q] /\ page'[q] = page[q]
  BY DEF Close, TypeOK
<1>2. DeviceExclusion' /\ Alone' /\ Clean' /\ RequestsSigned'
  BY <1>1 DEF DeviceExclusion, Holding, Alone, Clean, RequestsSigned
<1>3. ReadingsKnown'
  BY <1>1, NoRowsEmpty DEF ReadingsKnown, Known, Overtaken
<1>4. WritesApart'
  BY <1>1, NoRowsEmpty DEF WritesApart, Conflicting
<1>5. WritesOwned' /\ WritesNewer' /\ WritesBounded' /\ PagesOwned'
  BY <1>1, NoRowsEmpty DEF WritesOwned, WritesNewer, Overtaken, WritesBounded,
     PagesOwned
<1>6. ViewsDistinct'
  <2>1. \A q \in Slots \ {s}, j \in Ids : View(q)'[j] = View(q)[j]
    BY <1>1 DEF View
  <2>2. \A j \in Ids : View(s)'[j] = db[j]
    BY <1>1, NoRowsEmpty DEF View
  <2>3. \A a, b : Conflicting(a, b)' <=> Conflicting(a, b)
    BY DEF Conflicting
  <2>. QED
    BY <2>1, <2>2, <2>3 DEF ViewsDistinct, Distinct, OneRowPerIdentity
<1>7. OneRowPerIdentity' /\ StampBounded' /\ WritersSigned'
  BY DEF OneRowPerIdentity, StampBounded, WritersSigned, Conflicting
<1>. QED
  BY <1>2, <1>3, <1>4, <1>5, <1>6, <1>7

LEMMA GiveUpInv ==
    ASSUME IInv, NEW s \in Slots,
           UniqueViolation(s) \/ Abort(s) \/ LoseResponse(s)
    PROVE  IInv'
<1>1. TypeOK' /\ Close(s) /\ UNCHANGED <<serverVars, storeVars, clientVars>>
  BY GiveUpType DEF IInv, UniqueViolation, Abort, LoseResponse
<1>2. OwnRowsOnly'
  BY <1>1 DEF IInv, OwnRowsOnly, storeVars, clientVars
<1>. QED
  BY <1>1, <1>2, CloseInv

LEMMA RespondInv ==
    ASSUME IInv, NEW s \in Slots, Respond(s)
    PROVE  IInv'
<1>. USE DEF IInv, Consistent
<1>1. TypeOK' /\ Close(s) /\ UNCHANGED <<serverVars, storeVars>>
  BY RespondType DEF Respond
<1>2. OwnRowsOnly'
  <2>1. req[s].user \in UsersOf[req[s].dev]
    BY DEF RequestsSigned, Respond
  <2>2. \A d \in Devices, i \in Ids :
            \/ mirror'[d][i] = mirror[d][i]
            \/ d = req[s].dev /\ mirror'[d][i] = page[s][i] /\ page[s][i] # None
    BY DEF Respond, TypeOK
  <2>. QED
    BY <1>1, <2>1, <2>2 DEF OwnRowsOnly, PagesOwned, storeVars
<1>. QED
  BY <1>1, <1>2, CloseInv

\* The pull reads committed rows of the requester.
LEMMA PullInv ==
    ASSUME IInv, NEW s \in Slots, Pull(s)
    PROVE  IInv'
<1>. USE DEF IInv, Consistent
<1>1. TypeOK'
  BY PullType
<1>2. /\ UNCHANGED <<now, table, db, writer, req, snap, keySnap, writes, mirror>>
      /\ pc[s] = "pull" /\ pc' = [pc EXCEPT ![s] = "respond"]
  BY DEF Pull, serverVars, storeVars, clientVars
<1>3. /\ \A q \in Slots \ {s} : page'[q] = page[q]
      /\ \A i \in Ids : page'[s][i] # None =>
            /\ page'[s][i] = db[i]
            /\ PullWhere(s, db[i])
  <2>1. PICK R \in SUBSET Candidates(s) :
            page' = [page EXCEPT ![s] =
                       [i \in Ids |-> IF i \in R THEN db[i] ELSE None]]
    BY DEF Pull
  <2>. QED
    BY <2>1 DEF TypeOK, Candidates
<1>4. DeviceExclusion' /\ Alone' /\ Clean' /\ RequestsSigned'
  BY <1>2, <1>3 DEF TypeOK, DeviceExclusion, Holding, Alone, Clean,
     RequestsSigned
<1>5. PagesOwned'
  BY <1>2, <1>3 DEF PagesOwned, PullWhere
<1>6. ReadingsKnown' /\ WritesOwned' /\ WritesNewer' /\ WritesBounded'
  BY <1>2 DEF ReadingsKnown, Known, WritesOwned, WritesNewer, Overtaken,
     WritesBounded
<1>7. WritesApart' /\ ViewsDistinct'
  BY <1>2 DEF WritesApart, ViewsDistinct, Distinct, View, Conflicting
<1>8. OneRowPerIdentity' /\ StampBounded' /\ OwnRowsOnly' /\ WritersSigned'
  BY <1>2 DEF OneRowPerIdentity, StampBounded, OwnRowsOnly, WritersSigned,
     Conflicting
<1>. QED
  BY <1>1, <1>4, <1>5, <1>6, <1>7, <1>8

\* What a commit does to one row: nothing, or it puts the pending write there.
LEMMA CommitRow ==
    ASSUME IInv, NEW s \in Slots, Commit(s), NEW i \in Ids
    PROVE  /\ db'[i] = View(s)[i]
           /\ writes[s][i] = None => db'[i] = db[i] /\ writer'[i] = writer[i]
           /\ writes[s][i] # None => /\ db'[i] = writes[s][i]
                                     /\ writer'[i] = req[s].dev
           /\ db[i] # None => db'[i] # None /\ db'[i].owner = db[i].owner
BY DEF IInv, Consistent, WritesOwned, Commit, View

LEMMA CommitInv ==
    ASSUME IInv, NEW s \in Slots, Commit(s)
    PROVE  IInv'
<1>. USE DEF IInv, Consistent
<1>1. TypeOK'
  BY CommitType
<1>2. /\ UNCHANGED <<now, table, req, page, mirror>>
      /\ pc[s] = "apply" /\ pc' = [pc EXCEPT ![s] = "pull"]
      /\ snap'[s] = NoRows /\ keySnap'[s] = NoRows /\ writes'[s] = NoRows
      /\ \A q \in Slots \ {s} : /\ snap'[q] = snap[q]
                                /\ keySnap'[q] = keySnap[q]
                                /\ writes'[q] = writes[q]
  BY DEF TypeOK, Commit, serverVars, clientVars
<1>3. DeviceExclusion' /\ Alone' /\ Clean' /\ RequestsSigned'
  BY <1>2 DEF TypeOK, DeviceExclusion, Holding, Alone, Clean, RequestsSigned
<1>4. ASSUME NEW q \in Slots \ {s}, pc[q] \in {"readKey", "apply"},
             NEW i \in Ids, writes[s][i] # None
      PROVE  Overtaken(q, i)'
  <2>1. Overlapping
    BY <1>2, <1>4 DEF Alone
  <2>2. req[s].dev # req[q].dev
    BY <1>2, <1>4 DEF DeviceExclusion, Holding
  <2>. QED
    BY <1>2, <1>4, <2>1, <2>2, CommitRow DEF Overtaken
<1>5. ReadingsKnown'
  <2>1. ASSUME NEW q \in Slots \ {s}, pc[q] \in {"readKey", "apply"},
               NEW i \in Ids, NEW row, Known(q, i, row)
        PROVE  Known(q, i, row)'
    BY <1>2, <1>4, <2>1, CommitRow DEF Known, Overtaken
  <2>2. \A q \in Slots \ {s}, i \in Ids :
            snap[q][i] # None \/ keySnap[q][i] # None
            => pc[q] \in {"readKey", "apply"}
    BY NoRowsEmpty DEF Clean
  <2>3. ASSUME NEW q \in Slots \ {s}, NEW i \in Ids
        PROVE  /\ snap'[q][i] # None => Known(q, i, snap[q][i])'
               /\ keySnap'[q][i] # None => Known(q, i, keySnap[q][i])'
    BY <1>2, <2>1, <2>2 DEF ReadingsKnown, Known, Overtaken
  <2>. QED
    BY <1>2, <2>3, NoRowsEmpty DEF ReadingsKnown
<1>6. WritesApart'
  BY <1>2, NoRowsEmpty DEF WritesApart, Conflicting
<1>7. WritesOwned' /\ WritesNewer' /\ WritesBounded'
  <2>1. ASSUME NEW q \in Slots \ {s}, NEW i \in Ids, writes[q][i] # None
        PROVE  writes[s][i] = None
    BY <2>1 DEF WritesApart
  <2>2. ASSUME NEW q \in Slots \ {s}, NEW i \in Ids, writes[q][i] # None
        PROVE  db'[i] = db[i] /\ writer'[i] = writer[i]
    BY <2>1, <2>2, CommitRow
  <2>. QED
    BY <1>2, <2>2, NoRowsEmpty DEF WritesOwned, WritesNewer, WritesBounded,
       Overtaken
<1>8. OneRowPerIdentity'
  BY <1>2, CommitRow DEF OneRowPerIdentity, ViewsDistinct, Distinct,
     Conflicting
<1>9. ViewsDistinct'
  <2>1. \A j \in Ids : View(s)'[j] = View(s)[j]
    BY <1>2, CommitRow, NoRowsEmpty DEF View
  <2>2. ASSUME NEW q \in Slots \ {s}, NEW j \in Ids
        PROVE  \/ writes[s][j] = None /\ View(q)'[j] = View(q)[j]
               \/ writes[q][j] = None /\ View(q)'[j] = View(s)[j]
    BY <1>2, CommitRow DEF View, WritesApart
  <2>3. ASSUME NEW q \in Slots \ {s}, NEW i \in Ids, NEW j \in Ids, i # j,
               View(q)'[i] # None, View(q)'[j] # None
        PROVE  ~Conflicting(View(q)'[i], View(q)'[j])
    <3>1. CASE View(q)'[i] = View(q)[i] /\ View(q)'[j] = View(q)[j]
      BY <2>3, <3>1 DEF ViewsDistinct, Distinct
    <3>2. CASE View(q)'[i] = View(s)[i] /\ View(q)'[j] = View(s)[j]
      BY <2>3, <3>2 DEF ViewsDistinct, Distinct
    <3>3. ASSUME NEW a \in Ids, NEW b \in Ids, a # b, View(q)[a] # None,
                 View(s)[b] # None, writes[s][a] = None, writes[q][b] = None
          PROVE  ~Conflicting(View(q)[a], View(s)[b])
      <4>1. CASE writes[q][a] = None
        <5>1. View(q)[a] = View(s)[a]
          BY <3>3, <4>1 DEF View
        <5>. QED
          BY <3>3, <5>1 DEF ViewsDistinct, Distinct
      <4>2. CASE writes[s][b] = None
        <5>1. View(s)[b] = View(q)[b]
          BY <3>3, <4>2 DEF View
        <5>. QED
          BY <3>3, <5>1 DEF ViewsDistinct, Distinct
      <4>3. CASE writes[q][a] # None /\ writes[s][b] # None
        <5>1. View(q)[a] = writes[q][a] /\ View(s)[b] = writes[s][b]
          BY <4>3 DEF View
        <5>. QED
          BY <4>3, <5>1 DEF WritesApart
      <4>. QED
        BY <4>1, <4>2, <4>3
    <3>. QED
      BY <2>2, <2>3, <3>1, <3>2, <3>3, ConflictSymmetric
  <2>4. \A a, b : Conflicting(a, b)' <=> Conflicting(a, b)
    BY <1>2 DEF Conflicting
  <2>. QED
    BY <2>1, <2>3, <2>4 DEF ViewsDistinct, Distinct
<1>10. StampBounded'
  BY <1>2, CommitRow DEF StampBounded, WritesBounded
<1>11. PagesOwned' /\ OwnRowsOnly'
  BY <1>2, CommitRow DEF PagesOwned, OwnRowsOnly
<1>12. WritersSigned'
  <2>1. req[s].dev \in Devices /\ req[s].user \in UsersOf[req[s].dev]
    BY <1>2 DEF TypeOK, RequestsSigned, Request
  <2>. QED
    BY <1>2, <2>1, CommitRow DEF WritersSigned, WritesOwned
<1>. QED
  BY <1>1, <1>3, <1>5, <1>6, <1>7, <1>8, <1>9, <1>10, <1>11, <1>12

\* Nothing happens.
LEMMA StutterInv ==
    ASSUME IInv, UNCHANGED vars
    PROVE  IInv'
<1>1. TypeOK'
  BY NextType DEF IInv
<1>2. pc' = pc /\ req' = req /\ now' = now /\ Still
  BY DEF vars, Still, serverVars, storeVars, txVars, clientVars
<1>3. DeviceExclusion' /\ Alone' /\ RequestsSigned' /\ Clean'
  BY <1>2 DEF IInv, Consistent, DeviceExclusion, Holding, Alone,
     RequestsSigned, Clean, Still
<1>. QED
  BY <1>1, <1>2, <1>3, StillInv

\* The invariant is inductive.
LEMMA NextInv == IInv /\ [Next]_vars => IInv'
<1>. SUFFICES ASSUME IInv, [Next]_vars
              PROVE  IInv'
  OBVIOUS
<1>1. CASE Tick
  BY <1>1, SkipTickInv
<1>2. ASSUME NEW s \in Slots, NEW d \in Devices, NEW u \in UsersOf[d],
             NEW batch \in Batches[d], Receive(s, d, u, batch)
      PROVE  IInv'
  BY <1>2, ReceiveInv
<1>3. ASSUME NEW s \in Slots, Step(s)
      PROVE  IInv'
  BY <1>3, TrackDeviceInv, FindInv, SkipTickInv, WriteInv, GiveUpInv,
     CommitInv, PullInv, RespondInv DEF Step
<1>4. ASSUME NEW s \in Slots, Abort(s) \/ LoseResponse(s)
      PROVE  IInv'
  BY <1>4, GiveUpInv
<1>5. CASE UNCHANGED vars
  BY <1>5, StutterInv
<1>. QED
  BY <1>1, <1>2, <1>3, <1>4, <1>5 DEF Next

-----------------------------------------------------------------------------
(* The safety properties under any interleaving.                           *)

LEMMA Invariance == Spec => []IInv
BY InitInv, NextInv, PTL DEF Spec

\* Readings, pending writes and pages agree with the stored rows in every
\* reachable state.
THEOREM AlwaysConsistent == Spec => []Consistent
<1>1. IInv => Consistent
  BY DEF IInv
<1>. QED
  BY <1>1, Invariance, PTL

\* No stored stamp is ever more than Skew ahead of the server's clock.
THEOREM StampsBounded == Spec => []StampBounded
<1>1. IInv => StampBounded
  BY DEF IInv
<1>. QED
  BY <1>1, Invariance, PTL

\* Devices hold rows of their own users only.
THEOREM DevicesHoldOwnRows == Spec => []OwnRowsOnly
<1>1. IInv => OwnRowsOnly
  BY DEF IInv
<1>. QED
  BY <1>1, Invariance, PTL

\* Only a commit changes the stored rows.
LEMMA OnlyCommitStores ==
    ASSUME [Next]_vars, ~\E s \in Slots : Commit(s)
    PROVE  db' = db /\ writer' = writer
<1>1. CASE Tick
  BY <1>1 DEF Tick, storeVars
<1>2. ASSUME NEW s \in Slots, NEW d \in Devices, NEW u \in UsersOf[d],
             NEW batch \in Batches[d], Receive(s, d, u, batch)
      PROVE  db' = db /\ writer' = writer
  BY <1>2 DEF Receive, storeVars
<1>3. ASSUME NEW s \in Slots, Step(s)
      PROVE  db' = db /\ writer' = writer
  BY <1>3 DEF Step, TrackDevice, FindBySyncId, FindByKey, Skip, Update,
     Create, Write, UniqueViolation, Pull, Respond, storeVars
<1>4. ASSUME NEW s \in Slots, Abort(s) \/ LoseResponse(s)
      PROVE  db' = db /\ writer' = writer
  BY <1>4 DEF Abort, LoseResponse, storeVars
<1>5. CASE UNCHANGED vars
  BY <1>5 DEF vars, storeVars
<1>. QED
  BY <1>1, <1>2, <1>3, <1>4, <1>5 DEF Next

\* A stored row stays, and stays its owner's, in every behaviour.
THEOREM OwnersKept == Spec => OwnerNeverChanges
<1>. DEFINE Kept == \A i \in Ids : db[i] # None => /\ db'[i] # None
                                                  /\ db'[i].owner = db[i].owner
<1>1. IInv /\ [Next]_vars => [Kept]_vars
  BY CommitRow, OnlyCommitStores
<1>. HIDE DEF Kept
<1>2. Spec => [][Kept]_vars
  BY <1>1, Invariance, PTL DEF Spec
<1>. QED
  BY <1>2 DEF OwnerNeverChanges, Kept

\* A device never replaces its own version of a row by an older one.
THEOREM DeviceOrder == Spec => SameDeviceNeverRegresses
<1>. DEFINE Ordered == \A i \in Ids :
                           /\ db[i] # None /\ db'[i] # db[i]
                           /\ writer'[i] = writer[i]
                           => db[i].upd <= db'[i].upd
<1>1. IInv /\ [Next]_vars => [Ordered]_vars
  <2>1. ASSUME IInv, NEW s \in Slots, Commit(s), NEW i \in Ids,
               db[i] # None, db'[i] # db[i], writer'[i] = writer[i]
        PROVE  db[i].upd <= db'[i].upd
    <3>1. writes[s][i] # None
      BY <2>1, CommitRow
    <3>2. db'[i] = writes[s][i] /\ writer[i] = req[s].dev
      BY <2>1, <3>1, CommitRow
    <3>. QED
      BY <2>1, <3>1, <3>2 DEF IInv, Consistent, WritesNewer, Overtaken
  <2>. QED
    BY <2>1, OnlyCommitStores
<1>. HIDE DEF Ordered
<1>2. Spec => [][Ordered]_vars
  BY <1>1, Invariance, PTL DEF Spec
<1>. QED
  BY <1>2 DEF SameDeviceNeverRegresses, Ordered

-----------------------------------------------------------------------------
(* The push implements the last-writer-wins store.                         *)

\* A row that another device overtook is not the requester's, when pushes of
\* one user do not meet.
LEMMA NotOvertaken ==
    ASSUME IInv, UsersApart, NEW s \in Slots, pc[s] # "idle", NEW i \in Ids,
           db[i] # None, db[i].owner = req[s].user
    PROVE  ~Overtaken(s, i)
<1>1. /\ req[s].dev \in Devices /\ writer[i] \in Devices
      /\ req[s].user \in UsersOf[req[s].dev]
      /\ req[s].user \in UsersOf[writer[i]]
  BY DEF IInv, TypeOK, Request, Consistent, RequestsSigned, WritersSigned
<1>. QED
  BY <1>1 DEF UsersApart, OneDevicePerUser, Overtaken

\* The push is a last-writer-wins store, however requests overlap: a strict one
\* as long as pushes of one user do not meet, and one that may only replace the
\* newer version of another device otherwise.
THEOREM PushIsLww == Spec => ImplementsLww
<1>1. Init => Lww!Init
  BY NoRowsEmpty DEF Init, Lww!Init, Versions, NoRows
<1>2. ASSUME IInv, TypeOK', NEW s \in Slots, Commit(s)
      PROVE  Lww!Batch(req[s].dev, req[s].user)
  <2>1. DOMAIN Versions' = Ids /\ DOMAIN writer' = Ids
    BY <1>2 DEF Versions, TypeOK
  <2>2. ASSUME NEW i \in Ids, writes[s][i] = None
        PROVE  Versions'[i] = Versions[i] /\ writer'[i] = writer[i]
    BY <1>2, <2>2, CommitRow DEF Versions
  <2>3. ASSUME NEW i \in Ids, writes[s][i] # None
        PROVE  Lww!MayReplace(req[s].dev, req[s].user, i)
    <3>1. /\ db'[i] = writes[s][i] /\ writer'[i] = req[s].dev
          /\ writes[s][i] \in Row
          /\ writes[s][i].owner = req[s].user
          /\ db[i] # None => /\ db[i].owner = req[s].user
                             /\ Overtaken(s, i) \/ db[i].upd <= writes[s][i].upd
      BY <1>2, <2>3, CommitRow DEF IInv, TypeOK, Rows, Consistent,
         WritesOwned, WritesNewer
    <3>2. db[i] # None /\ (UsersApart \/ writer[i] = req[s].dev)
          => ~Overtaken(s, i)
      BY <1>2, <3>1, NotOvertaken DEF Overtaken, Commit
    <3>3. Versions'[i] = [owner |-> req[s].user, upd |-> writes[s][i].upd]
      BY <3>1, AbsenceAssumption DEF Versions
    <3>4. Versions'[i] \in Lww!Version
      BY <3>1, <3>3 DEF Lww!Version, Row
    <3>. QED
      BY <3>1, <3>2, <3>3, <3>4 DEF Versions, Lww!MayReplace
  <2>. QED
    BY <2>1, <2>2, <2>3 DEF Lww!Batch
<1>3. IInv /\ TypeOK' /\ [Next]_vars => [Lww!Next]_<<Versions, writer>>
  <2>1. ASSUME IInv, TypeOK', NEW s \in Slots, Commit(s)
        PROVE  Lww!Next
    <3>1. req[s].dev \in Devices /\ req[s].user \in UsersOf[req[s].dev]
      BY <2>1 DEF IInv, TypeOK, Commit, Request, Consistent, RequestsSigned
    <3>. QED
      BY <1>2, <2>1, <3>1 DEF Lww!Next
  <2>2. db' = db => Versions' = Versions
    BY DEF Versions
  <2>. QED
    BY <2>1, <2>2, OnlyCommitStores
<1>4. IInv => TypeOK
  BY DEF IInv
<1>. QED
  BY <1>1, <1>3, <1>4, Invariance, PTL DEF Spec, ImplementsLww, Lww!Spec
=============================================================================

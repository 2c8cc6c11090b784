------------------------- MODULE SyncServerProofs -------------------------
(***************************************************************************)
(* Theorems about SyncServer, for every value of its constants.            *)
(***************************************************************************)
EXTENDS SyncServer, TLAPS

-----------------------------------------------------------------------------
(* Type correctness.                                                       *)

LEMMA NoRowsType == NoRows \in Rows
BY DEF NoRows, Rows

LEMMA StampType ==
    ASSUME TypeOK, NEW r \in Record
    PROVE  Stamp(r) \in Nat
BY BoundAssumption DEF TypeOK, Stamp, Record

\* The data object of a record being applied is a row of the table.
LEMMA NewRowType ==
    ASSUME TypeOK, NEW s \in Slots, Applying(s)
    PROVE  /\ Head(work[s]) \in Record
           /\ Tail(work[s]) \in Seq(Record)
           /\ NewRow(s, Head(work[s])) \in Row
<1>1. /\ Head(work[s]) \in Record
      /\ Tail(work[s]) \in Seq(Record)
  BY DEF TypeOK, Applying
<1>2. req[s] \in Request
  BY DEF TypeOK, Applying
<1>3. Stamp(Head(work[s])) \in Nat
  BY <1>1, StampType
<1>4. Pinned(s, Head(work[s])) \in BOOLEAN
  BY DEF Pinned
<1>5. (table.deletes /\ Head(work[s]).del) \in BOOLEAN
  OBVIOUS
<1>. QED
  BY <1>1, <1>2, <1>3, <1>4, <1>5 DEF NewRow, Row, Record, Request

LEMMA ViewType ==
    ASSUME TypeOK, NEW s \in Slots
    PROVE  View(s) \in Rows
BY DEF TypeOK, View, Rows

LEMMA InitType == Init => TypeOK
BY NoRowsType DEF Init, TypeOK

LEMMA ReceiveType ==
    ASSUME TypeOK, NEW s \in Slots, NEW d \in Devices, NEW u \in UsersOf[d],
           NEW batch \in Batches[d], Receive(s, d, u, batch)
    PROVE  TypeOK'
<1>1. u \in Users /\ batch \in Seq(Record)
  BY DeviceAssumption
<1>2. [dev |-> d, user |-> u, since |-> cursor[d], ts |-> now] \in Request
  BY <1>1 DEF TypeOK, Request
<1>. QED
  BY <1>1, <1>2 DEF TypeOK, Receive, storeVars, clientVars

LEMMA TrackDeviceType ==
    ASSUME TypeOK, NEW s \in Slots, TrackDevice(s)
    PROVE  TypeOK'
BY DEF TypeOK, TrackDevice, serverVars, storeVars, txVars, clientVars

LEMMA FindType ==
    ASSUME TypeOK, NEW s \in Slots, FindBySyncId(s) \/ FindByKey(s)
    PROVE  TypeOK'
<1>1. CASE FindBySyncId(s)
  <2>1. [i \in Ids |-> IF /\ Visible(db[i])
                          /\ \E k \in DOMAIN work[s] :
                                db[i].sync = work[s][k].sync
                       THEN db[i] ELSE None] \in Rows
    BY DEF TypeOK, Rows
  <2>. QED
    BY <1>1, <2>1 DEF TypeOK, FindBySyncId, serverVars, storeVars, clientVars
<1>2. CASE FindByKey(s)
  <2>1. [i \in Ids |-> IF /\ Visible(db[i])
                          /\ db[i].owner = req[s].user
                          /\ \E k \in DOMAIN work[s] :
                                db[i].key = work[s][k].key
                       THEN db[i] ELSE None] \in Rows
    BY DEF TypeOK, Rows
  <2>. QED
    BY <1>2, <2>1 DEF TypeOK, FindByKey, serverVars, storeVars, clientVars
<1>. QED
  BY <1>1, <1>2

LEMMA SkipType ==
    ASSUME TypeOK, NEW s \in Slots, Skip(s)
    PROVE  TypeOK'
<1>1. Tail(work[s]) \in Seq(Record)
  BY NewRowType DEF Skip
<1>. QED
  BY <1>1 DEF TypeOK, Skip, serverVars, storeVars, clientVars

LEMMA WriteType ==
    ASSUME TypeOK, NEW s \in Slots, NEW i \in Ids, Applying(s),
           Write(s, i, NewRow(s, Head(work[s])))
    PROVE  TypeOK'
<1>1. Tail(work[s]) \in Seq(Record) /\ NewRow(s, Head(work[s])) \in Row
  BY NewRowType
<1>2. [writes[s] EXCEPT ![i] = NewRow(s, Head(work[s]))] \in Rows
  BY <1>1 DEF TypeOK, Rows
<1>. QED
  BY <1>1, <1>2 DEF TypeOK, Write, serverVars, storeVars, clientVars

\* The ids of the rows read are ids of the table.
LEMMA ExistingIds ==
    ASSUME NEW s \in Slots, NEW r, NEW e \in Existing(s, r)
    PROVE  e[1] \in Ids
BY DEF Existing, FoundBySyncId, FoundByKey

LEMMA UpdateCreateType ==
    ASSUME TypeOK, NEW s \in Slots, Update(s) \/ Create(s)
    PROVE  TypeOK'
<1>1. Applying(s)
  BY DEF Update, Create
<1>2. PICK i \in Ids : Write(s, i, NewRow(s, Head(work[s])))
  BY ExistingIds DEF Update, Create
<1>. QED
  BY <1>1, <1>2, WriteType

LEMMA CloseType ==
    ASSUME TypeOK, NEW s \in Slots, Close(s)
    PROVE  /\ pc' \in [Slots -> {"idle", "lock", "read", "readKey", "apply",
                                 "pull", "respond"}]
           /\ req' \in [Slots -> Request \cup {None}]
           /\ \A q \in Slots : pc'[q] # "idle" => req'[q] \in Request
           /\ work' \in [Slots -> Seq(Record)]
           /\ snap' \in [Slots -> Rows]
           /\ keySnap' \in [Slots -> Rows]
           /\ writes' \in [Slots -> Rows]
           /\ page' \in [Slots -> Rows]
BY NoRowsType DEF TypeOK, Close

LEMMA GiveUpType ==
    ASSUME TypeOK, NEW s \in Slots,
           UniqueViolation(s) \/ Abort(s) \/ LoseResponse(s)
    PROVE  TypeOK'
<1>1. Close(s) /\ UNCHANGED <<serverVars, storeVars, clientVars>>
  BY DEF UniqueViolation, Abort, LoseResponse
<1>. QED
  BY <1>1, CloseType DEF TypeOK, serverVars, storeVars, clientVars

LEMMA CommitType ==
    ASSUME TypeOK, NEW s \in Slots, Commit(s)
    PROVE  TypeOK'
<1>1. View(s) \in Rows
  BY ViewType
<1>2. req[s].dev \in Devices
  BY DEF TypeOK, Commit, Request
<1>3. writer' \in [Ids -> Devices \cup {None}]
  BY <1>2 DEF TypeOK, Commit
<1>. QED
  BY <1>1, <1>3, NoRowsType DEF TypeOK, Commit, serverVars, clientVars

LEMMA PullType ==
    ASSUME TypeOK, NEW s \in Slots, Pull(s)
    PROVE  TypeOK'
<1>1. PICK P \in SUBSET Candidates(s) :
          page' = [page EXCEPT ![s] =
                     [i \in Ids |-> IF i \in P THEN db[i] ELSE None]]
  BY DEF Pull
<1>2. [i \in Ids |-> IF i \in P THEN db[i] ELSE None] \in Rows
  BY DEF TypeOK, Rows
<1>3. page' \in [Slots -> Rows]
  BY <1>1, <1>2 DEF TypeOK
<1>. QED
  BY <1>3 DEF TypeOK, Pull, serverVars, storeVars, clientVars

LEMMA RespondType ==
    ASSUME TypeOK, NEW s \in Slots, Respond(s)
    PROVE  TypeOK'
<1>1. req[s] \in Request
  BY DEF TypeOK, Respond
<1>2. cursor' \in [Devices -> Nat]
  BY <1>1 DEF TypeOK, Respond, Request
<1>3. [i \in Ids |-> IF page[s][i] # None THEN page[s][i]
                     ELSE mirror[req[s].dev][i]] \in Rows
  BY <1>1 DEF TypeOK, Rows, Request
<1>4. mirror' \in [Devices -> Rows]
  BY <1>1, <1>3 DEF TypeOK, Respond, Request
<1>5. Close(s)
  BY DEF Respond
<1>. QED
  BY <1>2, <1>4, <1>5, CloseType DEF TypeOK, Respond, serverVars, storeVars

LEMMA TickType ==
    ASSUME TypeOK, Tick
    PROVE  TypeOK'
BY DEF TypeOK, Tick, storeVars, txVars, clientVars

\* Every variable keeps its type under every step of every request.
LEMMA NextType == TypeOK /\ [Next]_vars => TypeOK'
<1>. SUFFICES ASSUME TypeOK, [Next]_vars
              PROVE  TypeOK'
  OBVIOUS
<1>1. CASE Tick
  BY <1>1, TickType
<1>2. ASSUME NEW s \in Slots, NEW d \in Devices, NEW u \in UsersOf[d],
             NEW batch \in Batches[d], Receive(s, d, u, batch)
      PROVE  TypeOK'
  BY <1>2, ReceiveType
<1>3. ASSUME NEW s \in Slots, Step(s)
      PROVE  TypeOK'
  BY <1>3, TrackDeviceType, FindType, SkipType, UpdateCreateType, GiveUpType,
     CommitType, PullType, RespondType DEF Step
<1>4. ASSUME NEW s \in Slots, Abort(s) \/ LoseResponse(s)
      PROVE  TypeOK'
  BY <1>4, GiveUpType
<1>5. CASE UNCHANGED vars
  BY <1>5 DEF TypeOK, vars, serverVars, storeVars, txVars, clientVars
<1>. QED
  BY <1>1, <1>2, <1>3, <1>4, <1>5 DEF Next

\* Every variable of the server, the database and the devices has its type
\* in every reachable state.
THEOREM TypeCorrect == Spec => []TypeOK
BY InitType, NextType, PTL DEF Spec
=============================================================================

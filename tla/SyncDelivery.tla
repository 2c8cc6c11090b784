--------------------------- MODULE SyncDelivery ---------------------------
(***************************************************************************)
(* What the devices are owed: SyncServer with a history variable for the   *)
(* row versions that an incremental answer has yet to bring, or has        *)
(* brought, to each device.  The variable restricts nothing: every step of *)
(* SyncServer is a step here, and says what becomes of it.                 *)
(***************************************************************************)
EXTENDS SyncInvariant

VARIABLE due  \* history: per device, the rows whose stored version it is owed

trackedVars == <<vars, due>>

\* The requests of device d in the server.
Asking(d) == {s \in Slots : pc[s] # "idle" /\ req[s].dev = d}

\* The incremental answers of device d show rows like this one.
Shown(d, row) ==
    /\ Visible(row)
    /\ table.device # "never" => row.dev # NoDevice /\ row.dev # d

\* A version that is committed is owed to the devices it is shown to, unless
\* its stamp is below their cursor, or that of a request already under way.
Owed(d, row) ==
    /\ row.owner \in UsersOf[d] /\ Shown(d, row)
    /\ row.upd > cursor[d]
    /\ \A q \in Asking(d) : row.upd > req[q].ts

Full(rows) == Cardinality({i \in Ids : rows[i] # None}) = PageLimit

-----------------------------------------------------------------------------

TrackedInit == Init /\ due = [d \in Devices |-> {}]

\* A device that sends a request before it has the answer to the last one is
\* still owed what its cursor, if it has one, has not reached.
TrackedReceive(s, d, u, batch) ==
    /\ Receive(s, d, u, batch)
    /\ due' = [due EXCEPT ![d] =
          IF Asking(d) = {} THEN @
          ELSE {i \in @ : 0 < cursor[d] /\ cursor[d] < db[i].upd}]

\* What is overwritten is owed no more; what overwrites it may be.
TrackedCommit(s) ==
    /\ Commit(s)
    /\ due' = [d \in Devices |->
          {i \in Ids : IF writes[s][i] = None THEN i \in due[d]
                                              ELSE Owed(d, writes[s][i])}]

\* An answer takes the cursor past the rows of other users signed in on the
\* device, and past whatever did not fit on a full page.
TrackedRespond(s) ==
    /\ Respond(s)
    /\ due' = [due EXCEPT ![req[s].dev] =
          {i \in @ : \/ db[i].upd > req[s].ts
                     \/ db[i].owner = req[s].user /\ ~Full(page[s])}]

TrackedNext ==
    \/ Tick /\ UNCHANGED due
    \/ \E s \in Slots :
          \/ \E d \in Devices : \E u \in UsersOf[d], batch \in Batches[d] :
                TrackedReceive(s, d, u, batch)
          \/ TrackedCommit(s)
          \/ TrackedRespond(s)
          \/ /\ \/ TrackDevice(s) \/ FindBySyncId(s) \/ FindByKey(s)
                \/ Skip(s) \/ Update(s) \/ Create(s) \/ UniqueViolation(s)
                \/ Pull(s) \/ Abort(s) \/ LoseResponse(s)
             /\ UNCHANGED due

TrackedSpec == TrackedInit /\ [][TrackedNext]_trackedVars

-----------------------------------------------------------------------------

\* Device d has the version of row i that is stored, or never had a row that
\* is deleted.
Got(d, i) == \/ mirror[d][i] = db[i]
             \/ db[i].del /\ mirror[d][i] = None

\* A device is owed nothing that its cursor has passed and it has not got:
\* however pushes, pulls, retries and lost answers of all devices overlap,
\* each version is still to be asked for until it has arrived.  pushAndPull
\* takes the timestamp before it reads, and devices send back what they got.
NothingSkipped ==
    \A d \in Devices : \A i \in due[d] : Got(d, i) \/ db[i].upd > cursor[d]

-----------------------------------------------------------------------------
(* The invariant behind it.                                                *)

\* Cursors and requests are not ahead of the clock, which has started.
TimesPassed ==
    /\ now >= 1
    /\ \A s \in Slots : pc[s] # "idle" => req[s].ts >= 1 /\ req[s].ts <= now

\* A device without a cursor holds nothing.
EmptyAtFirst == \A d \in Devices : cursor[d] = 0 => mirror[d] = NoRows

\* Request s asks for row i by its stamp, or for all rows that are not deleted.
AsksFor(s, i) == IF req[s].since = 0 THEN ~db[i].del
                                     ELSE req[s].since < db[i].upd

\* A request that came after row i was stored either asks for it, and then has
\* it on its page, or is the only one its device is waiting for.
Answering(s, i) ==
    /\ page[s][i] # None => page[s][i] = db[i]
    /\ req[s].since = 0 \/ req[s].since >= db[i].upd =>
          /\ Asking(req[s].dev) = {s}
          /\ cursor[req[s].dev] = req[s].since
    /\ pc[s] = "respond" /\ AsksFor(s, i) /\ db[i].owner = req[s].user =>
          page[s][i] = db[i] \/ Full(page[s])

DueServed ==
    \A d \in Devices : \A i \in due[d] :
        /\ Shown(d, db[i])
        /\ \A s \in Asking(d) : req[s].ts < db[i].upd \/ Answering(s, i)

DueInv ==
    /\ due \in [Devices -> SUBSET Ids]
    /\ TimesPassed
    /\ EmptyAtFirst
    /\ DueServed
    /\ NothingSkipped
===========================================================================

# Verification of the Tinda Track server

TLA+ models of the NestJS server in `src/`, checked with TLC, with theorems
proved by TLAPS. The server is the backend of an offline-first shop app: phones
keep their own copy of a shop's catalogue, sales and e-wallet ledger and
synchronise it; some operations (checkout, stock adjustment, e-wallet
transactions) are also done directly on the server. All state is in PostgreSQL,
reached through Prisma at the isolation level READ COMMITTED. What can go wrong
is therefore mostly between the statements of a request: what another request
commits between a reading and the write that relies on it.

## 1. The system

| Component | State | Operations | Hard behaviour | What makes it correct | Here |
|---|---|---|---|---|---|
| Sync endpoint (`modules/sync`) | 18 tables with `syncId`, `updatedAt`, `isDeleted`, `deviceId`, `userId`; `deviceSync` | `POST /sync`: push every record in one transaction, then pull what changed since `lastSync` | readings taken once per table and used row by row; server and device clocks; retries; lost answers; deadlocks | one row per identity; no row changes its owner; a device's own order is kept; last writer wins; every change reaches every device | `SyncServer` |
| Prisma client (`prisma/`) | none | adds `isDeleted = false` to reads, turns deletes into updates | applies to calls that mean to see deleted rows | reads that need deleted rows see them | `SyncTables`, `SyncServer`, `RestTables`, `RestPush`, `ImageStore` |
| POS (`tinda_tracker/modules/pos`) | `sale`, `saleItem`, `product`, `stockMovement`, `ledgerEntry` | `checkout`, `pushSales`, `pullSales`, reports | a sale of several products; stock checked before it is decremented; row locks | stock never negative; a sale is all or nothing; movements agree with the stock | `Stock` (checkout), `RestPush` (push and pull of sales) |
| Inventory (`tinda_tracker/modules/inventory`) | `product`, `stockMovement`, categories, locations, conversions, image files | `create`, `adjustStock`, `update`, `remove`, pushes and pulls, image upload | computes a quantity, then writes it; pushes without a transaction; files unlinked after the answer | no quantity is lost between operations; caps; no row points to a missing file | `Stock` (stock operations), `RestPush` (creation, removal, pushes, pulls), `ImageStore` (images) |
| E-wallet transactions (`pocket_ledger/modules/transaction`) | `transactions`, `ledger_entries` | `create`, `preview`, `list` | the balance is a sum read without a lock; the syncId is checked outside the transaction | booked once; never overdrawn; balances on the statement are true and chain; the fee is earned | `Wallet` |
| Charges (`pocket_ledger/modules/charge`) | `charges` | `push`, `pull`, `findApplicableCharge` | parallel upserts without a transaction, which go on after an error is answered | as for the other pushes | `RestPush`; input of `Wallet` |
| Customers (`tinda_tracker/modules/customers`) | `customer`, `utangRecord` | create, `addUtang`, `recordPayment`, `remove`, pushes | check, then write | a device's edits stay in order; later edits are kept; deletions stay | `RestPush` (pushes, pulls, removal) |
| Ledger entries, parties, transaction types, movement categories, fee transactions, monitoring sessions | one table each | upsert by `syncId`, incremental pull | as for charges; a monitoring session keeps the device's `updatedAt` | as for the sync endpoint | `RestPush`; ledger entries are also an environment action of `Wallet` |
| Authentication (`modules/auth`) | `user`, `refreshToken` | `register`, `login`, `refresh`, `logout` | rotation in two statements; lost answers; a logout during a refresh | a token is exchanged once; a logout is final; nobody else ends a session | `AuthTokens` |
| Dashboard, reports, health | none | read only | – | – | not modelled |
| Receipts (upload, text recognition) | files | write a file, read text | external | – | not modelled; the amount is an input of `Wallet` |
| HTTP frame (guards, throttling, filter, logging, bootstrap) | none | wiring | – | – | only: the user of a request is the signed-in one; a refused unique index (P2002) is an error answer |

The components share the database and nothing else. `checkout` and
`TransactionService.create` add ledger entries, which the sync endpoint
delivers to the phones; the sync endpoint and the REST pushes write the same
tables; `findApplicableCharge` is a call from transactions to charges. Images are
the one thing outside the database: files under `./uploads`, which rows name.

The hazards, each at its line with the properties that would catch it, are
listed under `hazards` in `PROJECT.json`.

## 2. The modules

| Module | What it is |
|---|---|
| `SyncTables` | what distinguishes the eighteen blocks of `pushAndPull`: second unique key, how the device is recorded and compared, deletion, read filter, quick-access pins |
| `SyncServer` | one request of `pushAndPull` after the other or overlapping, statement by statement |
| `LwwStore` | abstract: a store of owned, stamped versions in which a batch replaces versions of its user that are not newer; when it is not strict, another device's version may be newer |
| `SyncInvariant` | the inductive invariants of `SyncServer` |
| `SyncDelivery` | `SyncServer` with a history variable for what each device is owed, and the inductive invariant of it |
| `SyncServerProofs`, `SyncSafetyProofs`, `SyncDeliveryProofs` | theorems about `SyncServer` |
| `Shelf` | abstract: quantities that are sold, corrected or counted, each at once; corrections that are not exact may replace what came in between |
| `Stock` | `checkout`, `adjustStock`, `update`, `remove` on shared products |
| `StockInvariant`, `StockProofs` | its inductive invariant, its theorems |
| `Till` | abstract: wallets and a book whose entries say how the wallets moved |
| `Wallet` | `TransactionService.create`, and ledger entries that devices push |
| `WalletProofs` | its inductive invariant and theorems |
| `RestTables` | what distinguishes the push, pull, create and remove routes of fourteen tables: in turn or all at once, comparing stamps or not, second unique key, who a pull leaves out |
| `RestPush` | those routes, statement by statement, on one table |
| `RestPushProofs` | its inductive invariant and theorems |
| `Sessions` | abstract: sessions that begin, serve one user and end for good |
| `AuthTokens` | `register`, `login`, `refresh`, `logout` of several clients |
| `AuthTokensProofs` | its inductive invariant and theorems |
| `ImageStore` | the image of one row and the files that carry its id |
| `ImageStoreProofs` | its inductive invariant and theorems |
| `MCSync`, `MCSyncDelivery`, `MCStock`, `MCWallet`, `MCRest`, `MCAuth`, `MCImages` | the small instances the runs check |

Operators marked `Slip:` are not part of the models. Each is a definition as a
plausible programming error would have it; replacing the definition by it makes
some run report a violation, which shows that the property is about that code.
The pairs are listed under `mutants`.

### SyncServer

A behaviour works on one table of `SyncTables` (`table`, chosen initially). A
slot is a request in the server. Variables and code:

| Variable | In the code |
|---|---|
| `db` | the rows of the table, by primary key |
| `writer` | ghost: the device whose request wrote the row last |
| `pc`, `req`, `work` | how far `pushAndPull` has come, its arguments with `serverTimestamp`, the records of `push` still to apply |
| `snap`, `keySnap` | `existingMap` and `nameMap` |
| `writes` | rows written by the open transaction |
| `page` | `pullData` |
| `cursor`, `mirror` | the phone: the timestamp it will send as `lastSync`, and its copy |
| `now` | `Date.now()` |

`Receive` takes the timestamp, `TrackDevice` is the `deviceSync.upsert` whose
row lock serialises the requests of one device, `FindBySyncId` and `FindByKey`
are the two `findMany` (each sees what is committed when it runs: READ
COMMITTED), `Skip`, `Update` and `Create` are the iterations of the loop with
owner and version check, pin cap and stamping, `UniqueViolation` and `Abort`
roll back, `Commit` publishes, `Pull` evaluates `pullWhere` with `take`,
`Respond` delivers and `LoseResponse` loses the answer. A statement on a row
another transaction has written, or on a unique value it has inserted, waits
(`Contended`).

`SyncDelivery` watches what becomes of the versions that are committed, in a
history variable that restricts nothing. `due[d]` are the rows whose stored
version device `d` is owed. A version is owed from its commit on to each device
it is shown to, unless its stamp is below that device's cursor or below the
timestamp of a request of the device that is under way. It stays owed until it
is overwritten, or until the cursor passes it for a reason the code makes no
secret of: it did not fit on a page of `PageLimit` rows, it is another user's
of the same device, or the device sent a request next to one under way.

### Stock

`product` is `stockInBaseUnit`, `isActive`, `isDeleted` per product; `last` is
`newQuantity` of its latest movement, or `None` when the quantity was set
without one. `seen` is what the request read (`productById`), `todo` the
products of `deductionByProductId` still to update, `pending` and `moves` the
rows and movements of the open transaction. A checkout is given as its
`deductionByProductId` and the order of its keys: items that name the same
product have been added up. `Read` is the reading with the checks behind it,
`Sell` one iteration of the loop (guarded decrement, second reading, movement),
`SoldOut` the count of 0. `Update` and `Remove` write without a transaction.
Pushes of product rows, by `pushProducts` and by the product block of
`POST /sync`, set a quantity without a movement too and are not in `Stock`: for
the rows they are in `RestPush` and `SyncServer`, which leave the quantity out.

### Wallet

`ledger` is the sum of `walletDelta` (GCash) and of `mayaWalletDelta`, `onHand`
the sum of `onHandDelta`, `book` the transactions table. `CheckSyncId`,
`FindCharge` and `SumLedger` are three readings at three times; `Insert` is the
two creations, `Commit` their commit. `Movement` is `buildMovement`. The fee
of a rule is any whole number, negative ones included: the DTOs of charges
demand a number and no more. `Post` is an upsert of a device's own ledger
entry, which moves the sums unchecked.

### RestPush

Fourteen services push with one of two loops, and none opens a transaction
around a batch. A behaviour works on the routes of one table of `RestTables`
(`table`). `rows` are its rows of one user; `by`, `made` and `edit` are history
and say which device wrote a row last, when that edit was made and by which
request. `pc`, `req`, `at` are how far a handler has come, its batch, the
record it is at; `target` and `existing` the row its lookup returned.

In turn (inventory, customers, sales): `CountPins` is
`assertQuickAccessCapAfterPush`, `Hit`, `Skip` and `Miss` the outcomes of the
two `findUnique` with the comparison of stamps, `Update` writes by the id that
was found whatever has become of the row, `Add` creates. At once (pocket
ledger): `Upsert(s, k)` is the upsert of record `k`, in any order, and
`UpsertFails` rejects the `Promise.all` - the answer is an error, and the rest
of the batch (`pc = "late"`) runs on. `FindToRemove` and `Mark` are the two
statements of a removal, `CheckDuplicate` and `Insert` those of
`InventoryService.create`. `Refuse` is any exception: what is written stays.
`Pulled` is the `where` of the pulls. `sour` and `calm` are history for the
provisos of two properties.

### AuthTokens

`live` are the rows of `refreshToken`, `issued` what the row of a token says or
said, `accounts` the passwords, `held` the token a client goes on with. A
session is what a login starts and exchanges carry on; it is named by its first
token. `LookUp` reads the row, `Discard` cleans up an expired one, `Rotate` is
the `delete` by id that throws when the row is gone, `Issue` the `create` of
`generateTokens`, `Forget` the `deleteMany` of `logout`, `Fail` a failed
statement, a restart or a lost answer. `ended` and `smooth` are history: the
sessions a logout has ended, the clients that send one request at a time and
have lost no answer.

### ImageStore

`image` is the row's `imageUrl`, `disk` the files, `unlinking` the unlinks that
are under way in the background. `Upload` is the interceptor that writes the
file, `ReadRow` and `Save` the two statements of `updateImage` and
`updateShelfLocationImage`; `Save` leaves `Replaced` to be unlinked. `Find` is
the lookup of a push, which leaves `Superseded` to be unlinked *before* `Write`
updates the row; `Look` is the lookup of `POST /sync`, which unlinks nothing.
`Refuse` covers the 404 after an upload, whose file stays. `careful` and `tidy`
are history for the provisos of the two properties.

## 3. What is checked

All runs are on small instances; the theorems of section 4 hold for all.

| Run | Properties | Instance |
|---|---|---|
| `sync_concurrent` | `Consistent`, `StampBounded`, `OwnRowsOnly`, `NothingSkipped`, `SameDeviceNeverRegresses`, `ImplementsLww` | a table of every kind, 2 slots, 3 requests of one record, 2 devices that have a user in common, 2 syncIds, 1 key, stamps behind and ahead of the clock, deletions by one device |
| `sync_serial` | `TypeOK`, `QuickCapHeld`, `UpsertsFindRows`, `ImplementsLww` | no overlap, two tables that adopt rows by name or SKU and one whose deleted rows are shown, 3 requests of 2 users with pins, deletions, missing stamps |
| `sync_liveness` | `RequestsEnd` | 2 slots, batches of 2 records in both orders |
| `stock_overlap` | `TypeOK`, `PendingSound`, `MovementsAgree`, `ImplementsShelf` | 2 slots, 4 requests of all kinds, 2 products, everything overlaps |
| `stock_atomic` | `ImplementsShelf`, `RequestsEnd` | 2 slots, 3 requests; adjustments overlap with nothing, the others with one another; checkouts of two products in both orders |
| `wallet` | `TypeOK`, `ImplementsTill`, `FeeEarned`, `FlowsOneWay` | 2 slots, 3 requests or posts, 2 wallets of which requests overlap on one, charges below and above the amount and below zero |
| `rest_push` | `TypeOK`, `CountingSound`, `AcknowledgedStored`, `OneClientInOrder`, `DeletionFinal`, `LaterEditKept`, `ChangesPulled` | every table, 2 handlers, 2 devices, 2 syncIds, 2 keys, 3 records in all, batches of one or (where no stamps matter) two |
| `auth` | `TypeOK`, `ImplementsSessions`, `SessionNeverForks`, `SessionKept` | 2 handlers, 2 clients, 1 account, 2 passwords, 3 tokens, tokens expire within the run |
| `images` | `TypeOK`, `NoDanglingImage`, `NoOrphanedFile` | 2 handlers, 3 names, any number of uploads and pushes |

Four abstract specifications say what the components promise without saying
how, and the detailed ones are checked, and proved, to implement them:

- `ImplementsLww`: a push takes effect as a whole and writes rows of one user
  who is signed in on its device. It replaces no row by an older version, with
  one exception: the version that is replaced is another device's, and pushes
  of one user may overlap (`UsersApart` is the opposite). `sync_serial` checks
  the strict store, `sync_concurrent` the one with the exception.
- `ImplementsShelf`: a sale leaves the shelf at once, completely, and only from
  what is there at that moment; counts and corrections are single steps too. A
  correction is exact unless other requests may overlap with adjustments; then
  it adds its delta to some earlier quantity (`stock_overlap`).
- `ImplementsTill`: a transaction takes effect at once with the entry that
  records it, each syncId is booked once, the wallet moves by the difference of
  the two balances of the entry, and the balance after is never below zero. On
  a wallet whose requests do not overlap the two balances are the wallet's.
- `ImplementsSessions`: a session begins with a login, serves the user who
  logged in and nobody else, ends once and stays ended; a logout ends one that
  is open.

Four properties follow from these within the abstract specification and are
not checked on their own, but each is a theorem: `OwnerNeverChanges` (a row
never changes hands), `NeverOversold` (stock is never negative),
`NoOverdraftAlone` with `StatementsTrue` (no overdraft of, and true balances
on, a wallet without overlap) and `LogoutEnds` (a session that a logout has
ended has no token).

What the other properties of the runs of `SyncServer`, `RestPush`, `AuthTokens`
and `ImageStore` show:

- `NothingSkipped`: no cursor passes a version its device is owed and has not
  got, however the requests of all devices overlap, are repeated or lose their
  answers. It would fail if the timestamp of an answer were taken after its
  reading. What it does *not* say is that every device gets every version: a
  version committed with a stamp below a cursor, or below a request under way,
  is not owed by the definition of `due`, and the code never delivers it.
- `UpsertsFindRows`: where the extension shows deleted rows, a record whose
  syncId is stored is written to that row, deleted or not.
- `AcknowledgedStored`: a push that is answered without an error has left a row
  with the syncId of every record of its batch, the records that were dropped
  as older included, whatever overlapping requests did after each was handled:
  a phone may forget what it has sent. (Not on the tables where a record may be
  matched by its name or SKU: there a row of another syncId may stand for it.)
- `OneClientInOrder`: a device that waits for its answers never loses a newer
  edit of a row to an older one of its own, whatever other devices do. For the
  tables whose records are upserted at once this needs that no push of the
  device was answered an error, since the other upserts of that push run on.
- `DeletionFinal`: a deleted row comes back only through a push that had found
  it before it was deleted, because deleted rows are hidden from the lookups
  and the unique indexes keep a second row out. (The price: a record pushed
  again after its deletion breaks the index and ends its batch half way.)
- `LaterEditKept`: the comparison of a device's stamp with the server's works,
  unless the row changes between the comparison and the update.
- `ChangesPulled`: a change is in the next pull of every other device, where
  the server stamps the rows and devices sign them.
- `CountingSound`: the quick-access cap of `pushCategories` holds as long as no
  two pushes have overlapped and none was refused half way.
- `SessionNeverForks`, `SessionKept`: a refresh token is exchanged once, and no
  other client of the account ends a session.
- `NoDanglingImage`: uploads may overlap with each other and fail anywhere and
  the row keeps a file; pushes may not. `NoOrphanedFile`: without overlap and
  failures, files do not accumulate.

Three runs end in a violation; each confronts the code with a sentence of its
own comments or tests, quoted under `findings`:

- `sync_tombstone` (`TombstonesDelivered`): the Prisma extension hides deleted
  rows from the incremental pull that is meant to return them.
- `wallet_overdraft` (`NoOverdraft`): two overlapping cash-ins sum the same
  ledger, both pass the check and together overdraw the wallet.
- `wallet_statements` (`StatementsChain`): two overlapping cash-outs sum the same
  ledger and both record the balance from before either, with no overdraft at
  all; the integration test sends two at once and expects the balances to chain.

The models contain more than these runs claim. With other constants or without
a property's proviso one sees two devices push a row at once and the older
version stay (`ImplementsLww` with `Strict <- TRUE` on the instance of
`sync_concurrent`), a record pushed again after its deletion break the unique
index on a table of the read filter (`UpsertNeverCollides` of `SyncServer`), two
overlapping pushes pin one category too many (`QuickCapHeld` with `Overlapping`
TRUE, `CapKept` of `RestPush`), a push of categories stop half way although its
comment says it never partially mutates the table, and overlapping uploads leave
files behind. With a wider `due` one sees edits stamped offline and pushed later
fall below the cursors of the other devices (`Owed` without its last two
conjuncts), and rows beyond the 500 of one answer never asked for again
(`TrackedRespond` without `~Full`, with a smaller
`PageLimit`). Rows written without a device, which SQL's
`deviceId <> ?` never returns, are in the model (`NoDevice`) but in no run.

### Bounds, and why they are enough

Requests, posts and the clock are bounded in the guards (`MaxRequests`,
`MaxTime`). A conflict needs two requests and shows in a third at the latest,
which reads what the two have left; `sync_tombstone` gets four, so that create,
pull, delete and a pull fit. Two products, synchronised rows or wallets
are the fewest for which opposite orders, name clashes and partial writes exist. There
is one more primary key than there are syncIds, so that a second row of an
identity could be created if nothing prevented it. `QuickCap` is 1 for the
code's 10. `PageLimit` is 2 in `sync_concurrent`, so that two rows fill a page
and one does not, and the number of rows elsewhere; no run cuts rows off, the
theorems hold for any limit. `Skew` is 0 for the code's five minutes, with
stamps below and above the clock. The amount of a transaction is 2, the charges
none, 1, 3 and -3: one is more than the amount, one is negative.
In `RestPush` two handlers and three records are enough for a push to be
overtaken between any two of its statements, for a device's second push while
the first is still late, and for delete and push again; a request of a removal
or creation counts as one record. Devices of `MCRest` sign their records and
delete by a record only where there is no route for it. `AuthTokens` has three
tokens, for a login on both clients and an exchange, or two exchanges of one
session; tokens live for one tick of two. `ImageStore` has three milliseconds
for names and no bound on requests.
`CHECK_DEADLOCK FALSE` is given where the model stops when its requests are
used up.

Symmetry is used over slots, devices, users, syncIds, keys and products where
the instance gives them no distinct role, never in the liveness runs.

### Fairness

`FairSpec` is strongly fair to the steps of each request: PostgreSQL grants row
locks in the order of the waits, so a request whose lock keeps becoming free
gets it. It is weakly fair to the abort of a request that is blocked: the
deadlock detector ends one transaction of a cycle, and Prisma ends an
interactive transaction at its time limit. No fairness is assumed of clients,
of arriving requests or of delivery, and none of aborting a request that is not
blocked. `RestPush`, `AuthTokens` and `ImageStore` open no transaction over
several statements: nothing in them waits, every handler ends by itself, and
their properties are safety properties without fairness.

### Abstractions

- One table per behaviour in `SyncServer`: records of different tables in one
  batch, and their foreign keys, are not related. Payload columns are left out;
  a version is its owner and stamp.
- `syncId` is present in every record, as the DTOs demand. A primary key that
  the client supplies and that is taken is an `Abort`.
- `deviceSync.lastSyncedAt` is never read by the code and left out.
- That a phone sends the `timestamp` of its last answer as the next `lastSync`
  and stores the answer as it is, is how the endpoint is meant to be used; the
  phone's own code is not in this repository.
- Quantities and amounts are whole numbers, the code's are floats: rounding is
  not modelled. Prices, payment, texts and the rows of a sale are left out; the
  refusals they cause are `Abort`.
- `Abort` also stands for a crash of the server: nothing is kept outside the
  database, so a crash is a rollback of what is open. Image files are the
  exception: `Refuse` and `UnlinkFails` of `ImageStore` are also a crash.
- `RestPush` has the rows of one user: the pushes take any row with the syncId,
  whoever owns it, and set its owner; a syncId is taken to be its user's own.
  `PATCH` of a product, which touches its `updatedAt`, is in `Stock` only. A
  sale and its items are one row (they are written in one transaction). The
  upserts of the pocket ledger are single statements of the database; that of
  `create`, which reads relations, may be refused where another request inserts
  the same syncId first.
- In `AuthTokens` bcrypt and the hash of tokens are exact, tokens are never
  drawn twice and `isRevoked`, which nothing sets, is left out. The access token
  of 15 minutes outlives a logout; it is not modelled.
- In `ImageStore` a file is its upload's millisecond; a record names no image
  or one the row has had. That the row is newer (`Drop`) is a choice.
- The transactions table may also be written by the sync endpoint; `Wallet`
  has only `create` write it.
- The stock of a product may also be set by a push of its row; `Stock` has only
  `checkout`, `adjustStock`, `update` and `remove` write it, so `MovementsAgree`
  says nothing of a quantity a push has set.

## 4. What is proved

Each theorem holds for every value of the constants, under the named
assumptions in the modules, which say no more than that the constants have the
shape the code gives them (a table is a table of the schema's kind, requests
pass their DTO, deductions list their products once, fees are whole numbers of
either sign). Two theorems have conditions of their own, stated in them:
`QuickCapAlways` and `UpsertsAlwaysFindRows`.

**Sync.** The conjunction `IInv` of `SyncInvariant` is inductive. The
properties alone are not: that no unique index is broken rests on what open
transactions pend (`Distinct`, `ViewsDistinct`, `WritesApart`), that an owner
never changes rests on what the readings know although they are stale
(`Known`, `ReadingsKnown`, `WritesOwned`): rows change but never change
hands. That a device's order is kept rests on the lock of its `deviceSync` row
(`DeviceExclusion`) together with `WritesNewer`. From it follow `TypeCorrect`,
`AlwaysConsistent`, `StampsBounded`, `DevicesHoldOwnRows`,
`OwnersKept` and `DeviceOrder`, all for any number of overlapping requests.
`PushIsLww` maps every step to a step of `LwwStore` or a stutter, without an
assumption on who overlaps. A version can only have been overtaken since it was
compared by another device's push (`WritesNewer`). Who wrote a row is signed in
on the device that wrote it (`WritersSigned`), so that push was one of the same
user on another device, and where such pushes do not meet the store is strict.

Three more invariants are inductive together with `IInv`. `CapInv`, under
`UsersApart` (pushes of one user do not meet, those of others overlap freely):
the cap holds of the rows stored and of what every open transaction sees; it
gives `QuickCapAlways`. `UpsertInv`, again under `UsersApart`: the reading has
every row a record of the batch names (`ReadingsComplete`), and a row keeps its
syncId where none is adopted (`WritesKeepIdentity`); it gives
`UpsertsAlwaysFindRows`, for records that never change their second unique
column (`KeysFixed`).

`DueInv` of `SyncDelivery` has no condition on the constants at all, and gives
`NothingEverSkipped`. `NothingSkipped` alone is not inductive: an answer moves
the cursor to the time its request was received, and what the page brings was
decided by the cursor the device sent with it. `DueServed` closes the gap: of a
row that is owed, every request under way either carries an earlier timestamp,
so its answer does not pass the row, or is `Answering` it. Such a request asks
for the row, and then its page has it unless the page is full or the row is
another user's; or it does not ask for it, because the cursor it was sent with
had passed the row, or was 0 and the row is deleted. Then it is the only request
of its device and that cursor is the device's still, so that the device has the
row by `NothingSkipped` itself, or holds nothing at all (`EmptyAtFirst`).

**Stock.** `IInv` of `StockInvariant` says of every pending row that it has one
holder (`LocksExclusive`), that a checkout has decremented each of its products
at most once and all it has passed (`CheckoutProgress`), and that the pending
quantity is the *committed* quantity less the deduction, although the checkout
never reads it again before it commits (`PendingQuantity`): the row lock keeps
it. From it follow `TypeCorrect`, `AlwaysSound`, `StockNonNegative`,
`AuditTrail`, and `OperationsAtomic`: the refinement of `Shelf`, whatever
overlaps. Where nothing overlaps with an adjustment, what it has read still
stands (`Alone`), and it is exact; otherwise its quantity is one that was read,
which was not negative, and its delta (`SingleProgress`).

**Wallet.** `IInv` of `WalletProofs`: a syncId is in the book once
(`BookedOnce`), a pending transaction has its syncId for itself (`SyncIdHeld`), it is what its request asked for (`PendingMine`), and on
a wallet whose requests do not overlap the balance read still stands, whatever
happens to the other wallet (`BalanceStands`). From it follow `TypeCorrect`, `ChargeEarned` and, for charges up to the amount,
`DirectionKept` under every overlap, `SerialNoOverdraft` and
`SerialStatementsTrue` for the wallets outside `Overlap`, and `RouteIsTill`: the
refinement of `Till`, in which only the commit of a transaction that was
inserted, and a post, are steps.

**RestPush.** `IInv` of `RestPushProofs`: rows, requests and handlers have
their shape (`Typed`); on the tables the server stamps no stamp is ahead of the
clock and no edit ahead of its row's stamp by more than the skew (`RowsFit`);
the row a handler is to update was neither deleted nor newer than the record
when it was found (`ReadsFit`); what still runs of a device's earlier requests
was answered an error, and no row of the device is younger than the request it
waits for (`InOrder`). From it follow `RoutesTyped`, `EditsInOrder`, `DeletionsStay`,
`LaterEditsKept` and `ChangesReachPulls`, for every table and any number of
overlapping handlers. `PinsSound` is the invariant of the quick-access cap. The
cap itself does not hold between two writes of a batch, and what was counted
before the first write is not counted again: while the only push runs, every
pinned row is one that no record of the batch names, one that a record already
written has pinned, or one that a later record will find (`Covered`), and the
first kind together with the syncIds the batch pins stays within the cap
(`CapLeft`). When the last record is through there is no third kind, and no two
rows have one syncId, so the cap holds of all rows: `CountSound`. Removals may
overlap with the push, since they only take rows away; a second push may not,
which `calm` says. `BatchesStored` is the invariant of the answer: for every
record a handler has passed there is a row with its syncId. It is kept because
no step of any handler takes a row away or, on these tables, changes its syncId
(`SyncKept`);
with it every step that answers without an error finds the whole batch handled:
`AnsweredIsStored`.

**AuthTokens.** `IInv` of `AuthTokensProofs`: a session has one live token or
one handler between removing and creating it, and none once it is ended
(`Chains`); a smooth client has one handler (`OneAtATime`), and its token has a
row unless that handler is renewing it (`TokenStands`). From it follow
`TokensTyped`, `NoFork`, `LogoutIsFinal`, `NobodyElseEnds`, and
`TokensAreSessions`: the refinement of `Sessions`, where a session is the chain
of tokens of one login and is open while one of them has a row or is between
`Rotate` and `Issue`. The run has one account; the theorem any number.

**ImageStore.** `IInv` of `ImageStoreProofs`: names come from uploads
(`NamesKnown`); the file of the row, and that of every upload under way, is on
disk, is nobody else's and is not being unlinked (`Held`); every file is the
row's, an upload's, or being unlinked (`Kept`). From it follow `ImagesTyped`,
`RowsPointToFiles` and `OrphansUnlinked`.

Only model-checked: the two liveness properties (`RequestsEnd` of `SyncServer`
and of `Stock`). They rest on strong fairness, hence on ENABLED, which is out of
the prover's reach. Every other property of the passing runs is a theorem.

## 5. Plan

Done: the modules of section 2. Left, in this order:

1. `Stock` with a history of movements (`previousQuantity`).
2. `SyncRefs`: two tables of one batch with a foreign key, adoption by name.
3. `SyncServer` and `RestPush` on one table, to see which writes of one way the
   phones are told of by the other.

Not modelled: `create`, `addUtang` and `recordPayment` of the customers, which
insert rows that no push and no pull concerns; text recognition and the upload
of receipts, which are an input; reports and dashboards, which only read;
logging, rate limits and the HTTP frame; migrations and seeds.

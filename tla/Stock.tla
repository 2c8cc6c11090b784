------------------------------- MODULE Stock -------------------------------
(***************************************************************************)
(* The quantities of one user's products under the operations that change  *)
(* them: PosService.checkout and InventoryService.adjustStock, each one    *)
(* transaction at READ COMMITTED, and InventoryService.update and remove,  *)
(* each a check and a statement that commits at once.                      *)
(*                                                                         *)
(* A statement that updates a product locks its row to the end of the      *)
(* transaction, here by a pending row that is not None, and sees the row   *)
(* as committed when it gets the lock.  Prices, units, lines of the sale   *)
(* and the ledger entry are left out: a checkout is what it deducts from   *)
(* each product, and its other failures are Abort.  The pushes of product  *)
(* rows, which set the quantity to what a device sends, without a movement *)
(* as update does, are not modelled.                                       *)
(***************************************************************************)
EXTENDS Integers, Sequences

CONSTANTS Slots,        \* requests the server can be serving at once
          Products,
          Requests,     \* the requests that may be received
          Opening,      \* the quantity each product starts with
          Overlap,      \* kinds of requests that may overlap with one another
          MaxRequests,  \* bound of the model on the requests received
          None

\* deductionByProductId: what is deducted, and in which order.
Checkouts ==
    [ kind : {"checkout"}, deduct : [Products -> Nat], order : Seq(Products) ]

Adjustments ==
    [ kind : {"adjust"}, product : Products, delta : Int ]

Updates ==
    [ kind : {"update"}, product : Products, level : Nat \cup {None},
      active : BOOLEAN \cup {None} ]

Removals == [ kind : {"remove"}, product : Products ]

Row == [ stock : Int, active : BOOLEAN, deleted : BOOLEAN ]

\* The entries of a map: each product deducted from is there once.
EntriesOf(r) ==
    /\ \A k \in DOMAIN r.order : r.deduct[r.order[k]] > 0
    /\ \A j, k \in DOMAIN r.order : r.order[j] = r.order[k] => j = k
    /\ \A p \in Products :
          r.deduct[p] > 0 => \E k \in DOMAIN r.order : r.order[k] = p

ASSUME RequestAssumption ==
    /\ Requests \subseteq Checkouts \cup Adjustments \cup Updates \cup Removals
    /\ \A r \in Requests : r.kind = "checkout" => EntriesOf(r)
ASSUME OpeningAssumption == Opening \in [Products -> Nat]
ASSUME BoundAssumption == 
    /\ MaxRequests \in Nat
    /\ Overlap \subseteq {"checkout", "adjust", "update", "remove"}
ASSUME AbsenceAssumption ==
    None \notin Row /\ None \notin Int /\ None \notin BOOLEAN
    /\ None \notin Requests

VARIABLES
    received, \* number of requests so far, for MaxRequests
    product,  \* the committed rows
    last,     \* newQuantity of the product's last committed movement, None
              \* when its stock was set without a movement since
    pc,       \* how far each request has come
    req,      \* the request
    seen,     \* products as the request read them
    todo,     \* products the transaction has still to update
    pending,  \* rows updated by the open transaction
    moves     \* newQuantity of the movements it has created

txVars == <<req, seen, todo, pending, moves>>
vars == <<received, product, last, pc, txVars>>

NoRows == [p \in Products |-> None]

TypeOK ==
    /\ received \in Nat
    /\ product \in [Products -> Row]
    /\ last \in [Products -> Int \cup {None}]
    /\ pc \in [Slots -> {"idle", "read", "write"}]
    /\ req \in [Slots -> Requests \cup {None}]
    /\ \A s \in Slots : pc[s] # "idle" => req[s] \in Requests
    /\ seen \in [Slots -> [Products -> Row \cup {None}]]
    /\ \A s \in Slots, p \in Products : pc[s] = "write" => seen[s][p] \in Row
    /\ todo \in [Slots -> Seq(Products)]
    /\ pending \in [Slots -> [Products -> Row \cup {None}]]
    /\ moves \in [Slots -> [Products -> Int \cup {None}]]

Init ==
    /\ received = 0
    /\ product = [p \in Products |->
                    [stock |-> Opening[p], active |-> TRUE, deleted |-> FALSE]]
    /\ last = NoRows
    /\ pc = [s \in Slots |-> "idle"]
    /\ req = [s \in Slots |-> None]
    /\ seen = [s \in Slots |-> NoRows]
    /\ todo = [s \in Slots |-> << >>]
    /\ pending = [s \in Slots |-> NoRows]
    /\ moves = [s \in Slots |-> NoRows]

-----------------------------------------------------------------------------

Receive(s, r) ==
    /\ pc[s] = "idle"
    /\ received < MaxRequests
    /\ received' = received + 1
    /\ \A q \in Slots :
          pc[q] # "idle" => {req[q].kind, r.kind} \subseteq Overlap
    /\ pc' = [pc EXCEPT ![s] = "read"]
    /\ req' = [req EXCEPT ![s] = r]
    /\ UNCHANGED <<product, last, seen, todo, pending, moves>>

\* The checks on the rows read: products.length, totalDeduction; isDeleted
\* and newQuantity < 0; ensureProductExists.
Acceptable(r) ==
    \/ /\ r.kind = "checkout"
       /\ \A k \in DOMAIN r.order : LET p == r.order[k] IN
             /\ product[p].active /\ ~product[p].deleted
             /\ r.deduct[p] <= product[p].stock
    \/ /\ r.kind = "adjust"
       /\ ~product[r.product].deleted
       /\ product[r.product].stock + r.delta >= 0
    \/ /\ r.kind \in {"update", "remove"}
       /\ ~product[r.product].deleted

Read(s) ==
    /\ pc[s] = "read"
    /\ Acceptable(req[s])
    /\ pc' = [pc EXCEPT ![s] = "write"]
    /\ seen' = [seen EXCEPT ![s] = product]
    /\ todo' = [todo EXCEPT ![s] = IF req[s].kind = "checkout"
                                   THEN req[s].order ELSE <<req[s].product>>]
    /\ UNCHANGED <<received, product, last, req, pending, moves>>

Close(s) ==
    /\ pc' = [pc EXCEPT ![s] = "idle"]
    /\ req' = [req EXCEPT ![s] = None]
    /\ seen' = [seen EXCEPT ![s] = NoRows]
    /\ todo' = [todo EXCEPT ![s] = << >>]
    /\ pending' = [pending EXCEPT ![s] = NoRows]
    /\ moves' = [moves EXCEPT ![s] = NoRows]

Refuse(s) ==
    /\ pc[s] = "read"
    /\ ~Acceptable(req[s])
    /\ Close(s)
    /\ UNCHANGED <<received, product, last>>

Writing(s, kind) == pc[s] = "write" /\ todo[s] # << >> /\ req[s].kind = kind

\* No other transaction has updated the row.
Unlocked(s, p) == \A q \in Slots \ {s} : pending[q][p] = None

\* The transaction has updated product p to the given row and recorded the
\* movement.
Pend(s, p, row, quantity) ==
    /\ pending' = [pending EXCEPT ![s] = [@ EXCEPT ![p] = row]]
    /\ moves' = [moves EXCEPT ![s] = [@ EXCEPT ![p] = quantity]]
    /\ todo' = [todo EXCEPT ![s] = Tail(@)]
    /\ UNCHANGED <<received, product, last, pc, req, seen>>

\* Slip: the guard looks at the row read.
InStockWhenRead(s, p) == req[s].deduct[p] <= seen[s][p].stock

\* where: { stockInBaseUnit: { gte: deduction } }, on the row as it is when
\* the statement has the lock.
InStock(s, p) == req[s].deduct[p] <= product[p].stock

\* Slip: the movement records the quantity computed from the row read.
RecordedFromSeen(s, p) == seen[s][p].stock - req[s].deduct[p]

\* newQuantity: the product is read again, which finds no deleted product.
Recorded(s, p) ==
    IF product[p].deleted THEN seen[s][p].stock - req[s].deduct[p]
                          ELSE product[p].stock - req[s].deduct[p]

\* updateMany({ data: { stockInBaseUnit: { decrement: deduction } } })
Sell(s) ==
    /\ Writing(s, "checkout")
    /\ LET p == Head(todo[s]) IN
          /\ Unlocked(s, p) /\ InStock(s, p)
          /\ Pend(s, p, [product[p] EXCEPT !.stock = @ - req[s].deduct[p]],
                  Recorded(s, p))

\* Slip: the decrement is tried again until there is enough.
SoldOutRetried(s) ==
    /\ Writing(s, "checkout")
    /\ Unlocked(s, Head(todo[s])) /\ ~InStock(s, Head(todo[s]))
    /\ UNCHANGED vars

\* updateResult.count === 0
SoldOut(s) ==
    /\ Writing(s, "checkout")
    /\ Unlocked(s, Head(todo[s])) /\ ~InStock(s, Head(todo[s]))
    /\ Close(s)
    /\ UNCHANGED <<received, product, last>>

\* newQuantity: the quantity read and the delta.
Adjusted(s, p) == seen[s][p].stock + req[s].delta

\* update({ data: { stockInBaseUnit: newQuantity } })
Adjust(s) ==
    /\ Writing(s, "adjust")
    /\ LET p == Head(todo[s]) IN
          /\ Unlocked(s, p)
          /\ Pend(s, p, [product[p] EXCEPT !.stock = Adjusted(s, p)],
                  Adjusted(s, p))

\* Slip: the products of a sale are committed one at a time.
CommitOneByOne(s) ==
    /\ pc[s] = "write" /\ req[s].kind \in {"checkout", "adjust"}
    /\ \E p \in Products :
          /\ pending[s][p] # None
          /\ product' = [product EXCEPT ![p] = pending[s][p]]
          /\ last' = [last EXCEPT ![p] = moves[s][p]]
          /\ pending' = [pending EXCEPT ![s] = [@ EXCEPT ![p] = None]]
    /\ UNCHANGED <<received, pc, req, seen, todo, moves>>

Commit(s) ==
    /\ pc[s] = "write" /\ todo[s] = << >>
    /\ product' = [p \in Products |->
          IF pending[s][p] # None THEN pending[s][p] ELSE product[p]]
    /\ last' = [p \in Products |->
          IF pending[s][p] # None THEN moves[s][p] ELSE last[p]]
    /\ Close(s)
    /\ UNCHANGED received

\* Slip: a request without a quantity is not told apart.
LevelUnchecked(r, p) == r.level

Level(r, p) == IF r.level # None THEN r.level ELSE product[p].stock

\* product.update with the fields the request has; no transaction.
Update(s) ==
    /\ Writing(s, "update")
    /\ LET p == Head(todo[s])  r == req[s] IN
          /\ Unlocked(s, p)
          /\ product' = [product EXCEPT
                ![p].stock = Level(r, p),
                ![p].active = IF r.active # None THEN r.active ELSE @]
          /\ last' = [last EXCEPT ![p] = IF r.level # None THEN None ELSE @]
    /\ Close(s)
    /\ UNCHANGED received

\* update({ data: { isDeleted: true, isActive: false } })
Remove(s) ==
    /\ Writing(s, "remove")
    /\ LET p == Head(todo[s]) IN
          /\ Unlocked(s, p)
          /\ product' = [product EXCEPT ![p].deleted = TRUE,
                                        ![p].active = FALSE]
    /\ Close(s)
    /\ UNCHANGED <<received, last>>

\* Any other failure: a unit that is not configured, too little paid, a
\* statement that fails, a time limit, the deadlock detector, a crash.
Abort(s) ==
    /\ pc[s] # "idle"
    /\ Close(s)
    /\ UNCHANGED <<received, product, last>>

\* The next statement waits for a row lock.
Blocked(s) ==
    pc[s] = "write" /\ todo[s] # << >> /\ ~Unlocked(s, Head(todo[s]))

Step(s) ==
    \/ Read(s) \/ Refuse(s) \/ Sell(s) \/ SoldOut(s) \/ Adjust(s)
    \/ Commit(s) \/ Update(s) \/ Remove(s)

Next ==
    \E s \in Slots : \/ \E r \in Requests : Receive(s, r)
                     \/ Step(s)
                     \/ Abort(s)

Spec == Init /\ [][Next]_vars

\* Row locks are granted in turn; a transaction that stays blocked is ended
\* by the deadlock detector or the transaction's time limit.
Fairness == \A s \in Slots : /\ SF_vars(Step(s))
                             /\ WF_vars(Blocked(s) /\ Abort(s))

FairSpec == Spec /\ Fairness

-----------------------------------------------------------------------------

\* Stock never goes negative, however checkouts, adjustments and updates
\* interleave between their reading of a product and their writing of it.
NeverOversold == \A p \in Products : product[p].stock >= 0

\* The last movement of a product that is still sold says how much of it
\* there is, unless its quantity was set without a movement since: the audit
\* trail and the product agree under any interleaving.
MovementsAgree ==
    \A p \in Products :
        last[p] # None /\ ~product[p].deleted => last[p] = product[p].stock

\* Every request is answered, although two checkouts may update the same
\* products in opposite orders.
RequestsEnd == \A s \in Slots : pc[s] # "idle" ~> pc[s] = "idle"

OfKind(kind) == {r \in Requests : r.kind = kind}

TheShelf == INSTANCE Shelf WITH
    shelf <- [p \in Products |-> product[p].stock],
    Sales <- {r.deduct : r \in OfKind("checkout")},
    Corrections <- {<<r.product, r.delta>> : r \in OfKind("adjust")},
    Counts <- {<<r.product, r.level>> :
                  r \in {u \in OfKind("update") : u.level # None}},
    Exact <- "adjust" \notin Overlap

\* The operations are atomic: what a sale deducts leaves the shelf at once
\* and completely, from what is there at that moment, whatever overlaps with
\* it.  No quantity is gained or lost between operations, but for those an
\* adjustment replaces when requests overlap with it: it writes what it had
\* read and its delta.
ImplementsShelf == TheShelf!Spec
=============================================================================

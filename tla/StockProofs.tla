---------------------------- MODULE StockProofs ----------------------------
(***************************************************************************)
(* Theorems about Stock, for every set of products, slots and requests.    *)
(***************************************************************************)
EXTENDS StockInvariant, TLAPS

LEMMA NoRowsEmpty == \A p \in Products : NoRows[p] = None
BY DEF NoRows

\* What is known of a request by its kind.
LEMMA RequestKinds ==
    ASSUME NEW r \in Requests
    PROVE  /\ r.kind \in {"checkout", "adjust", "update", "remove"}
           /\ r.kind = "checkout" => /\ r.deduct \in [Products -> Nat]
                                     /\ r.order \in Seq(Products)
                                     /\ EntriesOf(r)
           /\ r.kind # "checkout" => r.product \in Products
           /\ r.kind = "adjust" => r.delta \in Int
           /\ r.kind = "update" => /\ r.level \in Nat \cup {None}
                                   /\ r.active \in BOOLEAN \cup {None}
BY RequestAssumption DEF Checkouts, Adjustments, Updates, Removals

LEMMA SingletonSeq ==
    ASSUME NEW S, NEW x \in S
    PROVE  <<x>> \in Seq(S)
OBVIOUS

\* The sequence of products still to update loses its head only.
LEMMA TailAwaits ==
    ASSUME NEW t \in Seq(Products), t # << >>
    PROVE  /\ Head(t) \in Products /\ Tail(t) \in Seq(Products)
           /\ t[1] = Head(t) /\ 1 \in DOMAIN t
           /\ \A k \in DOMAIN Tail(t) :
                 k \in Nat \ {0} /\ k + 1 \in DOMAIN t /\ Tail(t)[k] = t[k + 1]
           /\ \A k \in DOMAIN t \ {1} :
                 k \in Nat /\ k - 1 \in DOMAIN Tail(t) /\ t[k] = Tail(t)[k - 1]
OBVIOUS

-----------------------------------------------------------------------------
(* Each kind of step preserves the invariant.                              *)

LEMMA InitInv == Init => IInv
<1>. SUFFICES ASSUME Init PROVE IInv
  OBVIOUS
<1>1. TypeOK
  BY OpeningAssumption DEF Init, TypeOK, Row, NoRows
<1>2. PendingSound
  BY NoRowsEmpty DEF Init, PendingSound, Alone, LocksExclusive,
     CheckoutProgress, SingleProgress, PendingQuantity
<1>3. NeverOversold /\ MovementsAgree
  BY OpeningAssumption, NoRowsEmpty DEF Init, NeverOversold, MovementsAgree
<1>. QED
  BY <1>1, <1>2, <1>3 DEF IInv

LEMMA ReceiveInv ==
    ASSUME IInv, NEW s \in Slots, NEW r \in Requests, Receive(s, r)
    PROVE  IInv'
<1>. USE DEF IInv, PendingSound, Receive
<1>1. TypeOK'
  BY DEF TypeOK
<1>2. /\ pc'[s] = "read" /\ pc[s] = "idle"
      /\ \A q \in Slots \ {s} : pc'[q] = pc[q] /\ req'[q] = req[q]
  BY DEF TypeOK
<1>3. Alone' /\ LocksExclusive'
  <2>1. req'[s] = r
    BY DEF TypeOK
  <2>. QED
    BY <1>2, <2>1 DEF Alone, LocksExclusive
<1>4. CheckoutProgress' /\ SingleProgress'
  BY <1>2 DEF CheckoutProgress, SingleProgress, Awaits
<1>5. PendingQuantity'
  <2>1. \A p \in Products : pending[s][p] = None
    BY <1>2, NoRowsEmpty DEF LocksExclusive
  <2>. QED
    BY <1>2, <2>1 DEF PendingQuantity
<1>6. NeverOversold' /\ MovementsAgree'
  BY DEF NeverOversold, MovementsAgree
<1>. QED
  BY <1>1, <1>3, <1>4, <1>5, <1>6

LEMMA ReadInv ==
    ASSUME IInv, NEW s \in Slots, Read(s)
    PROVE  IInv'
<1>. USE DEF IInv, PendingSound
<1>1. /\ req[s] \in Requests
      /\ pc[s] = "read" /\ pc'[s] = "write" /\ seen'[s] = product
      /\ \A q \in Slots \ {s} : /\ pc'[q] = pc[q] /\ seen'[q] = seen[q]
                                /\ todo'[q] = todo[q]
      /\ UNCHANGED <<product, last, req, pending, moves>>
      /\ \A p \in Products : pending[s][p] = None
  BY NoRowsEmpty DEF TypeOK, Read, LocksExclusive
<1>2. /\ req[s].kind = "checkout" => todo'[s] = req[s].order
      /\ req[s].kind # "checkout" => todo'[s] = <<req[s].product>>
  BY DEF TypeOK, Read
<1>3. TypeOK'
  <2>1. todo'[s] \in Seq(Products)
    <3>1. CASE req[s].kind = "checkout"
      BY <1>1, <1>2, <3>1, RequestKinds
    <3>2. CASE req[s].kind # "checkout"
      <4>1. req[s].product \in Products
        BY <1>1, <3>2, RequestKinds
      <4>. QED
        BY <1>2, <3>2, <4>1, SingletonSeq
    <3>. QED
      BY <3>1, <3>2
  <2>2. todo' \in [Slots -> Seq(Products)]
    BY <2>1 DEF TypeOK, Read
  <2>3. seen' \in [Slots -> [Products -> Row \cup {None}]]
    BY DEF TypeOK, Read
  <2>. QED
    BY <1>1, <2>2, <2>3 DEF TypeOK, Read
<1>4. Alone' /\ LocksExclusive'
  BY <1>1 DEF Alone, LocksExclusive, Read, TypeOK
<1>5. CheckoutProgress'
  <2>1. CASE req[s].kind = "checkout"
    <3>1. EntriesOf(req[s]) /\ req[s].deduct \in [Products -> Nat]
      BY <1>1, <2>1, RequestKinds
    <3>2. \A p \in Products : req[s].deduct[p] > 0 <=> Awaits(s, p)'
      BY <1>2, <2>1, <3>1 DEF EntriesOf, Awaits
    <3>3. \A j, k \in DOMAIN todo'[s] : todo'[s][j] = todo'[s][k] => j = k
      BY <1>2, <2>1, <3>1 DEF EntriesOf
    <3>. QED
      BY <1>1, <3>2, <3>3 DEF CheckoutProgress, Awaits
  <2>2. CASE req[s].kind # "checkout"
    BY <1>1, <2>2 DEF CheckoutProgress, Awaits
  <2>. QED
    BY <2>1, <2>2
<1>6. SingleProgress'
  <2>1. ASSUME req[s].kind # "checkout"
        PROVE  /\ \A p \in Products \ {req[s].product} : ~Awaits(s, p)'
               /\ req[s].kind = "adjust" =>
                     /\ seen'[s][req[s].product].stock >= 0
                     /\ seen'[s][req[s].product].stock + req[s].delta >= 0
    <3>1. \A p \in Products \ {req[s].product} : ~Awaits(s, p)'
      BY <1>1, <1>2, <2>1, RequestKinds DEF Awaits
    <3>2. ASSUME req[s].kind = "adjust"
          PROVE  /\ seen'[s][req[s].product].stock >= 0
                 /\ seen'[s][req[s].product].stock + req[s].delta >= 0
      <4>1. req[s].product \in Products
        BY <1>1, <3>2, RequestKinds
      <4>2. seen'[s] = product /\ Acceptable(req[s])
        BY DEF Read, TypeOK
      <4>. QED
        BY <3>2, <4>1, <4>2 DEF Acceptable, NeverOversold
    <3>. QED
      BY <3>1, <3>2
  <2>2. \A q \in Slots \ {s}, p \in Products : Awaits(q, p)' <=> Awaits(q, p)
    BY <1>1 DEF Awaits
  <2>. QED
    BY <1>1, <1>2, <2>1, <2>2, RequestKinds DEF SingleProgress
<1>7. PendingQuantity'
  BY <1>1 DEF PendingQuantity
<1>8. NeverOversold' /\ MovementsAgree'
  BY <1>1 DEF NeverOversold, MovementsAgree
<1>. QED
  BY <1>3, <1>4, <1>5, <1>6, <1>7, <1>8

\* What the end of a request leaves of the other requests.
LEMMA CloseFacts ==
    ASSUME TypeOK, NEW s \in Slots, Close(s)
    PROVE  /\ pc'[s] = "idle" /\ pending'[s] = NoRows
           /\ \A p \in Products : pending'[s][p] = None
           /\ \A q \in Slots \ {s} :
                 /\ pc'[q] = pc[q] /\ req'[q] = req[q] /\ seen'[q] = seen[q]
                 /\ todo'[q] = todo[q] /\ pending'[q] = pending[q]
                 /\ moves'[q] = moves[q]
           /\ pc' \in [Slots -> {"idle", "read", "write"}]
           /\ req' \in [Slots -> Requests \cup {None}]
           /\ \A q \in Slots : pc'[q] # "idle" => req'[q] \in Requests
           /\ seen' \in [Slots -> [Products -> Row \cup {None}]]
           /\ \A q \in Slots, p \in Products :
                 pc'[q] = "write" => seen'[q][p] \in Row
           /\ todo' \in [Slots -> Seq(Products)]
           /\ pending' \in [Slots -> [Products -> Row \cup {None}]]
           /\ moves' \in [Slots -> [Products -> Int \cup {None}]]
<1>1. /\ NoRows \in [Products -> Row \cup {None}]
      /\ NoRows \in [Products -> Int \cup {None}]
  BY DEF NoRows
<1>2. /\ seen' \in [Slots -> [Products -> Row \cup {None}]]
      /\ pending' \in [Slots -> [Products -> Row \cup {None}]]
      /\ moves' \in [Slots -> [Products -> Int \cup {None}]]
  BY <1>1 DEF TypeOK, Close
<1>3. /\ pc'[s] = "idle" /\ pending'[s] = NoRows
      /\ \A q \in Slots \ {s} :
            /\ pc'[q] = pc[q] /\ req'[q] = req[q] /\ seen'[q] = seen[q]
            /\ todo'[q] = todo[q] /\ pending'[q] = pending[q]
            /\ moves'[q] = moves[q]
  BY DEF TypeOK, Close
<1>. QED
  BY <1>2, <1>3, NoRowsEmpty DEF TypeOK, Close

\* A request that ends changing at most rows nobody has locked, to rows that
\* agree with their last movement.
LEMMA EndInv ==
    ASSUME IInv, NEW s \in Slots, Close(s), received' = received,
           product' \in [Products -> Row],
           last' \in [Products -> Int \cup {None}],
           NeverOversold', MovementsAgree',
           pc[s] # "idle",
           \A p \in Products, q \in Slots \ {s} :
               pending[q][p] # None => product'[p] = product[p]
    PROVE  IInv'
<1>1. /\ TypeOK /\ Alone /\ LocksExclusive /\ CheckoutProgress
      /\ SingleProgress /\ PendingQuantity
  BY DEF IInv, PendingSound
<1>2. /\ pc'[s] = "idle" /\ \A p \in Products : pending'[s][p] = None
      /\ pending'[s] = NoRows
      /\ \A q \in Slots \ {s} :
            /\ pc'[q] = pc[q] /\ req'[q] = req[q] /\ seen'[q] = seen[q]
            /\ todo'[q] = todo[q] /\ pending'[q] = pending[q]
            /\ moves'[q] = moves[q]
  BY <1>1, CloseFacts
<1>3. TypeOK'
  BY <1>1, CloseFacts DEF TypeOK
<1>4. Alone'
  <2>1. ASSUME "adjust" \notin Overlap, NEW q \in Slots, pc'[q] = "write",
               req'[q].kind = "adjust"
        PROVE  FALSE
    BY <1>1, <1>2, <2>1 DEF Alone
  <2>. QED
    BY <1>1, <1>2, <2>1 DEF Alone
<1>5. LocksExclusive'
  BY <1>1, <1>2 DEF LocksExclusive
<1>6. CheckoutProgress'
  BY <1>1, <1>2 DEF CheckoutProgress, Awaits
<1>7. SingleProgress'
  BY <1>1, <1>2 DEF SingleProgress, Awaits
<1>8. PendingQuantity'
  <2>1. ASSUME NEW q \in Slots, NEW p \in Products, pending'[q][p] # None
        PROVE  /\ q # s /\ pending[q][p] # None /\ product'[p] = product[p]
               /\ req'[q] = req[q] /\ seen'[q] = seen[q]
               /\ pending'[q] = pending[q] /\ moves'[q] = moves[q]
    BY <1>2, <2>1
  <2>. QED
    BY <1>1, <2>1 DEF PendingQuantity
<1>. QED
  BY <1>3, <1>4, <1>5, <1>6, <1>7, <1>8 DEF IInv, PendingSound

LEMMA GiveUpInv ==
    ASSUME IInv, NEW s \in Slots, Refuse(s) \/ SoldOut(s) \/ Abort(s)
    PROVE  IInv'
<1>1. /\ Close(s) /\ pc[s] # "idle"
      /\ UNCHANGED <<received, product, last>>
  BY DEF Refuse, SoldOut, Abort, Writing
<1>2. NeverOversold' /\ MovementsAgree'
  BY <1>1 DEF IInv, NeverOversold, MovementsAgree
<1>. QED
  BY <1>1, <1>2, EndInv DEF IInv, TypeOK

\* A statement of a transaction: the row gets pending, its quantity is not
\* negative and goes with the movement.
LEMMA PendInv ==
    ASSUME IInv, NEW s \in Slots, NEW p \in Products, NEW row \in Row,
           NEW quantity \in Int,
           pc[s] = "write", todo[s] # << >>, p = Head(todo[s]),
           Unlocked(s, p), Pend(s, p, row, quantity),
           row.stock >= 0,
           row.deleted \/ quantity = row.stock,
           req[s].kind \in {"checkout", "adjust"},
           req[s].kind = "checkout" =>
               row.stock = product[p].stock - req[s].deduct[p],
           req[s].kind = "adjust" =>
               row.stock = seen[s][p].stock + req[s].delta
    PROVE  IInv'
<1>1. /\ TypeOK /\ Alone /\ LocksExclusive /\ CheckoutProgress
      /\ SingleProgress /\ PendingQuantity
  BY DEF IInv, PendingSound
<1>2. /\ UNCHANGED <<received, product, last, pc, req, seen>>
      /\ pending' = [pending EXCEPT ![s] = [@ EXCEPT ![p] = row]]
      /\ moves' = [moves EXCEPT ![s] = [@ EXCEPT ![p] = quantity]]
      /\ todo' = [todo EXCEPT ![s] = Tail(@)]
  BY DEF Pend
<1>3. /\ todo[s] \in Seq(Products) /\ req[s] \in Requests
      /\ pending[s] \in [Products -> Row \cup {None}]
      /\ moves[s] \in [Products -> Int \cup {None}]
  BY <1>1 DEF TypeOK
<1>4. /\ pending'[s][p] = row /\ moves'[s][p] = quantity
      /\ \A o \in Products \ {p} : /\ pending'[s][o] = pending[s][o]
                                   /\ moves'[s][o] = moves[s][o]
      /\ todo'[s] = Tail(todo[s])
      /\ \A q \in Slots \ {s} : /\ pending'[q] = pending[q]
                                /\ moves'[q] = moves[q]
                                /\ todo'[q] = todo[q]
  BY <1>1, <1>2, <1>3 DEF TypeOK
<1>5. row # None
  BY AbsenceAssumption
<1>6. TypeOK'
  <2>1. [pending[s] EXCEPT ![p] = row] \in [Products -> Row \cup {None}]
    BY <1>3
  <2>2. [moves[s] EXCEPT ![p] = quantity] \in [Products -> Int \cup {None}]
    BY <1>3
  <2>3. Tail(todo[s]) \in Seq(Products)
    BY <1>3, TailAwaits
  <2>. QED
    BY <1>1, <1>2, <2>1, <2>2, <2>3 DEF TypeOK
<1>7. Alone' /\ NeverOversold' /\ MovementsAgree'
  BY <1>1, <1>2 DEF IInv, Alone, NeverOversold, MovementsAgree
<1>8. LocksExclusive'
  BY <1>1, <1>2, <1>4 DEF LocksExclusive, Unlocked
<1>9. CheckoutProgress'
  <2>1. \A q \in Slots \ {s}, o \in Products : Awaits(q, o)' <=> Awaits(q, o)
    BY <1>4 DEF Awaits
  <2>2. CASE req[s].kind = "checkout"
    <3>. DEFINE t == todo[s]  u == todo'[s]
    <3>0. /\ t[1] = p /\ 1 \in DOMAIN t
          /\ \A k \in DOMAIN u :
                k \in Nat \ {0} /\ k + 1 \in DOMAIN t /\ u[k] = t[k + 1]
          /\ \A k \in DOMAIN t \ {1} :
                k \in Nat /\ k - 1 \in DOMAIN u /\ t[k] = u[k - 1]
      BY <1>3, <1>4, TailAwaits
    <3>1. Awaits(s, p)
      BY <3>0 DEF Awaits
    <3>2. ~Awaits(s, p)'
      <4>1. \A k \in DOMAIN todo[s] : todo[s][k] = todo[s][1] => k = 1
        BY <1>1, <2>2, <3>0 DEF CheckoutProgress
      <4>. QED
        BY <3>0, <4>1 DEF Awaits
    <3>3. ASSUME NEW o \in Products \ {p}
          PROVE  Awaits(s, o)' <=> Awaits(s, o)
      <4>1. ASSUME NEW k \in DOMAIN u, u[k] = o
            PROVE  k + 1 \in DOMAIN t /\ t[k + 1] = o
        BY <3>0, <4>1
      <4>2. ASSUME NEW k \in DOMAIN t, t[k] = o
            PROVE  k - 1 \in DOMAIN u /\ u[k - 1] = o
        BY <3>0, <4>2
      <4>. QED
        BY <4>1, <4>2 DEF Awaits
    <3>4. ASSUME NEW j \in DOMAIN u, NEW k \in DOMAIN u, u[j] = u[k]
          PROVE  j = k
      <4>1. j + 1 = k + 1
        BY <1>1, <2>2, <3>0, <3>4 DEF CheckoutProgress
      <4>. QED
        BY <3>0, <4>1
    <3>. QED
      BY <1>1, <1>2, <1>4, <1>5, <2>1, <2>2, <3>1, <3>2, <3>3, <3>4
      DEF CheckoutProgress
  <2>3. CASE req[s].kind # "checkout"
    BY <1>1, <1>2, <1>4, <2>1, <2>3 DEF CheckoutProgress
  <2>. QED
    BY <2>2, <2>3
<1>10. SingleProgress'
  <2>1. \A q \in Slots \ {s}, o \in Products : Awaits(q, o)' <=> Awaits(q, o)
    BY <1>4 DEF Awaits
  <2>2. CASE req[s].kind # "checkout"
    <3>1. todo[s] = <<req[s].product>> /\ p = req[s].product
      BY <1>1, <2>2 DEF SingleProgress
    <3>2. todo'[s] = << >> /\ \A o \in Products : ~Awaits(s, o)'
      BY <1>4, <3>1 DEF Awaits
    <3>. QED
      BY <1>1, <1>2, <1>4, <1>5, <2>1, <2>2, <3>1, <3>2 DEF SingleProgress
  <2>3. CASE req[s].kind = "checkout"
    BY <1>1, <1>2, <1>4, <2>1, <2>3 DEF SingleProgress
  <2>. QED
    BY <2>2, <2>3
<1>11. PendingQuantity'
  BY <1>1, <1>2, <1>4 DEF PendingQuantity
<1>. QED
  BY <1>6, <1>7, <1>8, <1>9, <1>10, <1>11 DEF IInv, PendingSound

LEMMA SellInv ==
    ASSUME IInv, NEW s \in Slots, Sell(s)
    PROVE  IInv'
<1>. DEFINE p == Head(todo[s])
            row == [product[p] EXCEPT !.stock = @ - req[s].deduct[p]]
<1>1. /\ p \in Products /\ req[s] \in Requests /\ req[s].kind = "checkout"
      /\ req[s].deduct[p] \in Nat /\ product[p] \in Row
      /\ seen[s][p] \in Row
  BY TailAwaits, RequestKinds DEF IInv, TypeOK, Sell, Writing
<1>2. /\ row \in Row /\ row.stock = product[p].stock - req[s].deduct[p]
      /\ row.deleted = product[p].deleted
  BY <1>1 DEF Row
<1>3. row.stock >= 0
  BY <1>1, <1>2 DEF Sell, InStock, Row
<1>4. /\ Recorded(s, p) \in Int
      /\ row.deleted \/ Recorded(s, p) = row.stock
  BY <1>1, <1>2 DEF Recorded, Row
<1>5. /\ pc[s] = "write" /\ todo[s] # << >> /\ Unlocked(s, p)
      /\ Pend(s, p, row, Recorded(s, p))
  BY DEF Sell, Writing
<1>. HIDE DEF p, row
<1>. QED
  BY <1>1, <1>2, <1>3, <1>4, <1>5, PendInv DEF p

LEMMA AdjustInv ==
    ASSUME IInv, NEW s \in Slots, Adjust(s)
    PROVE  IInv'
<1>. DEFINE p == Head(todo[s])
            row == [product[p] EXCEPT !.stock = Adjusted(s, p)]
<1>1. /\ p \in Products /\ req[s] \in Requests /\ req[s].kind = "adjust"
      /\ req[s].delta \in Int /\ product[p] \in Row /\ seen[s][p] \in Row
  BY TailAwaits, RequestKinds DEF IInv, TypeOK, Adjust, Writing
<1>2. p = req[s].product /\ Adjusted(s, p) >= 0
  BY <1>1 DEF IInv, PendingSound, SingleProgress, Adjust, Writing, Adjusted
<1>3. /\ Adjusted(s, p) \in Int
      /\ row \in Row /\ row.stock = Adjusted(s, p)
      /\ Adjusted(s, p) = seen[s][p].stock + req[s].delta
  BY <1>1 DEF Row, Adjusted
<1>4. /\ pc[s] = "write" /\ todo[s] # << >> /\ Unlocked(s, p)
      /\ Pend(s, p, row, Adjusted(s, p))
  BY DEF Adjust, Writing
<1>. HIDE DEF p, row
<1>. QED
  BY <1>1, <1>2, <1>3, <1>4, PendInv DEF p

LEMMA CommitInv ==
    ASSUME IInv, NEW s \in Slots, Commit(s)
    PROVE  IInv'
<1>1. TypeOK /\ LocksExclusive /\ PendingQuantity
  BY DEF IInv, PendingSound
<1>2. /\ Close(s) /\ pc[s] # "idle" /\ received' = received
      /\ \A p \in Products :
            /\ pending[s][p] # None => /\ product'[p] = pending[s][p]
                                       /\ last'[p] = moves[s][p]
            /\ pending[s][p] = None => /\ product'[p] = product[p]
                                       /\ last'[p] = last[p]
  BY DEF Commit
<1>3. /\ product' \in [Products -> Row]
      /\ last' \in [Products -> Int \cup {None}]
  BY <1>1 DEF Commit, TypeOK
<1>4. NeverOversold' /\ MovementsAgree'
  BY <1>1, <1>2 DEF IInv, NeverOversold, MovementsAgree, PendingQuantity
<1>5. \A p \in Products, q \in Slots \ {s} :
          pending[q][p] # None => product'[p] = product[p]
  BY <1>1, <1>2 DEF LocksExclusive
<1>. QED
  BY <1>2, <1>3, <1>4, <1>5, EndInv

LEMMA UpdateInv ==
    ASSUME IInv, NEW s \in Slots, Update(s)
    PROVE  IInv'
<1>. DEFINE p == Head(todo[s])  r == req[s]
<1>1. /\ p \in Products /\ r \in Requests /\ product[p] \in Row
      /\ r.level \in Nat \cup {None} /\ r.active \in BOOLEAN \cup {None}
      /\ product \in [Products -> Row]
      /\ last \in [Products -> Int \cup {None}]
  BY TailAwaits, RequestKinds DEF IInv, TypeOK, Update, Writing
<1>2. /\ Level(r, p) \in Int /\ Level(r, p) >= 0
      /\ r.level = None => Level(r, p) = product[p].stock
  BY <1>1 DEF Level, Row, IInv, NeverOversold
<1>3. /\ Close(s) /\ pc[s] # "idle" /\ received' = received
      /\ Unlocked(s, p)
      /\ product' = [product EXCEPT
            ![p].stock = Level(r, p),
            ![p].active = IF r.active # None THEN r.active ELSE @]
      /\ last' = [last EXCEPT ![p] = IF r.level # None THEN None ELSE @]
  BY DEF Update, Writing
<1>4. /\ product' \in [Products -> Row]
      /\ last' \in [Products -> Int \cup {None}]
      /\ product'[p].stock = Level(r, p)
      /\ product'[p].deleted = product[p].deleted
      /\ last'[p] = IF r.level # None THEN None ELSE last[p]
      /\ \A o \in Products \ {p} : product'[o] = product[o] /\ last'[o] = last[o]
  BY <1>1, <1>2, <1>3 DEF Row
<1>. HIDE DEF p, r
<1>5. NeverOversold' /\ MovementsAgree'
  BY <1>1, <1>2, <1>4 DEF IInv, NeverOversold, MovementsAgree
<1>6. \A o \in Products, q \in Slots \ {s} :
          pending[q][o] # None => product'[o] = product[o]
  BY <1>3, <1>4 DEF Unlocked
<1>. QED
  BY <1>3, <1>4, <1>5, <1>6, EndInv

LEMMA RemoveInv ==
    ASSUME IInv, NEW s \in Slots, Remove(s)
    PROVE  IInv'
<1>. DEFINE p == Head(todo[s])
<1>1. /\ p \in Products /\ product \in [Products -> Row]
  BY TailAwaits DEF IInv, TypeOK, Remove, Writing
<1>2. /\ Close(s) /\ pc[s] # "idle" /\ UNCHANGED <<received, last>>
      /\ Unlocked(s, p)
      /\ product' = [product EXCEPT ![p].deleted = TRUE, ![p].active = FALSE]
  BY DEF Remove, Writing
<1>3. /\ product' \in [Products -> Row]
      /\ product'[p].stock = product[p].stock /\ product'[p].deleted = TRUE
      /\ \A o \in Products \ {p} : product'[o] = product[o]
  BY <1>1, <1>2 DEF Row
<1>. HIDE DEF p
<1>4. NeverOversold' /\ MovementsAgree'
  BY <1>1, <1>2, <1>3 DEF IInv, NeverOversold, MovementsAgree
<1>5. \A o \in Products, q \in Slots \ {s} :
          pending[q][o] # None => product'[o] = product[o]
  BY <1>2, <1>3 DEF Unlocked
<1>. QED
  BY <1>2, <1>3, <1>4, <1>5, EndInv DEF IInv, TypeOK

\* The invariant is inductive.
LEMMA NextInv == IInv /\ [Next]_vars => IInv'
<1>. SUFFICES ASSUME IInv, [Next]_vars
              PROVE  IInv'
  OBVIOUS
<1>1. CASE Next
  BY <1>1, ReceiveInv, ReadInv, GiveUpInv, SellInv, AdjustInv, CommitInv,
     UpdateInv, RemoveInv DEF Next, Step
<1>2. CASE UNCHANGED vars
  BY <1>2 DEF vars, txVars, IInv, TypeOK, PendingSound, Alone,
     LocksExclusive, CheckoutProgress, SingleProgress, PendingQuantity,
     Awaits, NeverOversold, MovementsAgree
<1>. QED
  BY <1>1, <1>2

-----------------------------------------------------------------------------
(* Theorems.                                                               *)

LEMMA Invariance == Spec => []IInv
BY InitInv, NextInv, PTL DEF Spec

\* Every variable has its type in every reachable state.
THEOREM TypeCorrect == Spec => []TypeOK
<1>1. IInv => TypeOK
  BY DEF IInv
<1>. QED
  BY <1>1, Invariance, PTL

\* Pending rows are always sound.
THEOREM AlwaysSound == Spec => []PendingSound
<1>1. IInv => PendingSound
  BY DEF IInv
<1>. QED
  BY <1>1, Invariance, PTL

\* No interleaving of operations takes a quantity below zero.
THEOREM StockNonNegative == Spec => []NeverOversold
<1>1. IInv => NeverOversold
  BY DEF IInv
<1>. QED
  BY <1>1, Invariance, PTL

\* The last movement of a product always tells its quantity.
THEOREM AuditTrail == Spec => []MovementsAgree
<1>1. IInv => MovementsAgree
  BY DEF IInv
<1>. QED
  BY <1>1, Invariance, PTL

-----------------------------------------------------------------------------
(* The operations implement the atomic shelf.                              *)

Quantities == [p \in Products |-> product[p].stock]

\* A checkout that commits has deducted everything it was asked to.
LEMMA CommitSells ==
    ASSUME IInv, NEW s \in Slots, Commit(s), req[s].kind = "checkout"
    PROVE  TheShelf!Sell(req[s].deduct)
<1>1. /\ TypeOK /\ CheckoutProgress /\ PendingQuantity
      /\ req[s] \in Requests /\ pc[s] = "write" /\ todo[s] = << >>
  BY DEF IInv, PendingSound, TypeOK, Commit
<1>2. req[s].deduct \in [Products -> Nat]
  BY <1>1, RequestKinds
<1>3. ASSUME NEW p \in Products
      PROVE  /\ req[s].deduct[p] <= product[p].stock
             /\ product'[p].stock = product[p].stock - req[s].deduct[p]
  <2>1. product[p].stock \in Int /\ product[p].stock >= 0
    BY <1>1 DEF TypeOK, Row, IInv, NeverOversold
  <2>2. CASE pending[s][p] # None
    <3>1. /\ pending[s][p].stock = product[p].stock - req[s].deduct[p]
          /\ pending[s][p].stock >= 0
      BY <1>1, <2>2 DEF PendingQuantity
    <3>. QED
      BY <1>2, <2>1, <2>2, <3>1 DEF Commit
  <2>3. CASE pending[s][p] = None
    <3>1. req[s].deduct[p] = 0
      BY <1>1, <1>2, <2>3 DEF CheckoutProgress, Awaits
    <3>. QED
      BY <2>1, <2>3, <3>1 DEF Commit
  <2>. QED
    BY <2>2, <2>3
<1>. QED
  BY <1>3 DEF TheShelf!Sell

\* An adjustment that commits has added its delta to what it had read, which
\* is what is there, if nothing overlapped with it.
LEMMA CommitCorrects ==
    ASSUME IInv, NEW s \in Slots, Commit(s), req[s].kind # "checkout"
    PROVE  /\ req[s].kind = "adjust"
           /\ TheShelf!Correct(req[s].product, req[s].delta)
<1>. DEFINE p == req[s].product
            level == seen[s][p].stock + req[s].delta
<1>1. /\ TypeOK /\ Alone /\ SingleProgress /\ PendingQuantity
      /\ req[s] \in Requests /\ pc[s] = "write" /\ todo[s] = << >>
  BY DEF IInv, PendingSound, TypeOK, Commit
<1>2. /\ req[s].kind = "adjust" /\ pending[s][p] # None
      /\ \A o \in Products \ {p} : pending[s][o] = None
      /\ seen[s][p].stock >= 0 /\ level >= 0
  BY <1>1 DEF SingleProgress
<1>3. /\ p \in Products /\ req[s].delta \in Int /\ seen[s][p].stock \in Int
      /\ product[p].stock \in Int
  BY <1>1, <1>2, RequestKinds DEF TypeOK, Row
<1>4. pending[s][p].stock = level
  BY <1>1, <1>2, <1>3 DEF PendingQuantity
<1>5. "adjust" \notin Overlap => level = product[p].stock + req[s].delta
  BY <1>1, <1>2, <1>3 DEF Alone
<1>6. /\ product'[p].stock = level
      /\ \A o \in Products \ {p} : product'[o] = product[o]
  BY <1>2, <1>3, <1>4 DEF Commit
<1>7. Quantities' = [Quantities EXCEPT ![p] = level]
      /\ Quantities'[p] = level /\ Quantities[p] = product[p].stock
  BY <1>3, <1>6 DEF Quantities
<1>8. level >= req[s].delta
  BY <1>2, <1>3
<1>. HIDE DEF level
<1>. QED
  BY <1>2, <1>5, <1>7, <1>8 DEF TheShelf!Correct, Quantities

LEMMA UpdateCounts ==
    ASSUME IInv, NEW s \in Slots, Update(s)
    PROVE  [TheShelf!Next]_Quantities
<1>. DEFINE p == Head(todo[s])  r == req[s]
<1>1. /\ p \in Products /\ r \in Requests /\ r.kind = "update"
      /\ product \in [Products -> Row]
      /\ p = r.product
  BY TailAwaits DEF IInv, PendingSound, SingleProgress, TypeOK, Update, Writing
<1>2. /\ product'[p].stock = Level(r, p)
      /\ \A o \in Products \ {p} : product'[o] = product[o]
  BY <1>1 DEF Update, Row
<1>. HIDE DEF p, r
<1>3. CASE r.level = None
  BY <1>2, <1>3 DEF Level, Quantities
<1>4. CASE r.level # None
  <2>1. Quantities' = [Quantities EXCEPT ![p] = r.level]
    BY <1>1, <1>2, <1>4 DEF Level, Quantities
  <2>2. TheShelf!Count(p, r.level)
    BY <2>1 DEF TheShelf!Count, Quantities
  <2>. DEFINE c == <<p, r.level>>
  <2>3. c \in {<<q.product, q.level>> : q \in {u \in OfKind("update") :
                                                  u.level # None}}
    BY <1>1, <1>4 DEF OfKind
  <2>4. TheShelf!Count(c[1], c[2])
    BY <2>2 DEF TheShelf!Count
  <2>. HIDE DEF c
  <2>. QED
    BY <2>3, <2>4 DEF TheShelf!Next, TheShelf!Count
<1>. QED
  BY <1>3, <1>4

\* The operations implement the shelf, overlapping in any way: only what
\* adjustments write may leave out what was committed meanwhile.
THEOREM OperationsAtomic == Spec => ImplementsShelf
<1>1. Init => TheShelf!Init
  BY OpeningAssumption DEF Init, TheShelf!Init
<1>2. ASSUME IInv, NEW s \in Slots, Commit(s)
      PROVE  TheShelf!Next
  <2>1. req[s] \in Requests
    BY <1>2 DEF IInv, TypeOK, Commit
  <2>2. CASE req[s].kind = "checkout"
    <3>. DEFINE sale == req[s].deduct
    <3>1. sale \in {r.deduct : r \in OfKind("checkout")}
      BY <2>1, <2>2 DEF OfKind
    <3>2. TheShelf!Sell(sale)
      BY <1>2, <2>2, CommitSells
    <3>. HIDE DEF sale
    <3>. QED
      BY <3>1, <3>2 DEF TheShelf!Next, TheShelf!Sell
  <2>3. CASE req[s].kind # "checkout"
    <3>1. req[s].kind = "adjust"
      BY <1>2, <2>3 DEF IInv, PendingSound, SingleProgress, Commit
    <3>2. TheShelf!Correct(req[s].product, req[s].delta)
      BY <1>2, <2>1, <2>3, <3>1, CommitCorrects
    <3>. DEFINE c == <<req[s].product, req[s].delta>>
    <3>3. c \in {<<r.product, r.delta>> : r \in OfKind("adjust")}
      BY <2>1, <3>1 DEF OfKind
    <3>4. TheShelf!Correct(c[1], c[2])
      BY <3>2 DEF TheShelf!Correct
    <3>. HIDE DEF c
    <3>. QED
      BY <3>3, <3>4 DEF TheShelf!Next, TheShelf!Correct
  <2>. QED
    BY <2>2, <2>3
<1>3. ASSUME IInv, NEW s \in Slots, Remove(s)
      PROVE  Quantities' = Quantities
  <2>1. Head(todo[s]) \in Products /\ product \in [Products -> Row]
    BY <1>3, TailAwaits DEF IInv, TypeOK, Remove, Writing
  <2>. QED
    BY <1>3, <2>1 DEF Remove, Quantities, Row
<1>4. product' = product => Quantities' = Quantities
  BY DEF Quantities
<1>5. IInv /\ [Next]_vars => [TheShelf!Next]_Quantities
  <2>. SUFFICES ASSUME IInv, [Next]_vars
                PROVE  [TheShelf!Next]_Quantities
    OBVIOUS
  <2>1. CASE UNCHANGED vars
    BY <1>4, <2>1 DEF vars
  <2>2. ASSUME NEW s \in Slots,
               \/ \E r \in Requests : Receive(s, r)
               \/ Read(s) \/ Refuse(s) \/ Sell(s) \/ SoldOut(s) \/ Adjust(s)
               \/ Abort(s)
        PROVE  product' = product
    BY <2>2 DEF Receive, Read, Refuse, Sell, SoldOut, Adjust, Pend, Abort
  <2>. QED
    BY <1>2, <1>3, <1>4, <2>1, <2>2, UpdateCounts DEF Next, Step
<1>. QED
  BY <1>1, <1>5, Invariance, PTL
  DEF Spec, ImplementsShelf, TheShelf!Spec, Quantities
=============================================================================

---------------------------- MODULE WalletProofs ----------------------------
(***************************************************************************)
(* Theorems about Wallet, for every set of slots, requests, fees and       *)
(* amounts: what holds under every overlap, and what only holds of         *)
(* wallets whose requests do not overlap; together, that the route is a    *)
(* till.                                                                   *)
(***************************************************************************)
EXTENDS Wallet, TLAPS

\* No two entries have one syncId.
BookedOnce ==
    \A j, k \in DOMAIN book :
        j # k /\ book[j].sync # None => book[j].sync # book[k].sync

\* A transaction waiting for its commit has the syncId for itself.
SyncIdHeld ==
    \A s \in Slots :
        pending[s] # None /\ pending[s].sync # None =>
            /\ ~InBook(pending[s].sync)
            /\ \A q \in Slots \ {s} :
                  pending[q] # None => pending[q].sync # pending[s].sync

\* What waits for its commit is what the request asked for.
PendingMine == \A s \in Slots : pending[s] # None => pending[s] = Inserted(s)

\* The wallet of request s is outside Overlap.
Apart(s) == req[s].provider \notin Overlap

\* The balance read can afford the transaction.  On a wallet outside Overlap
\* there is one request at a time, and what it has read is still the balance.
BalanceStands ==
    /\ \A s, q \in Slots :
          s # q /\ pc[s] # "idle" /\ pc[q] # "idle" /\ Apart(s) =>
              req[q].provider # req[s].provider
    /\ \A s \in Slots :
          pc[s] \in {"insert", "commit"} =>
              /\ Affordable(s, before[s])
              /\ Apart(s) => before[s] = ledger[req[s].provider]

IInv == TypeOK /\ BookedOnce /\ SyncIdHeld /\ PendingMine /\ BalanceStands

-----------------------------------------------------------------------------

LEMMA MovementWhole ==
    ASSUME NEW r \in Request, NEW c \in Int
    PROVE  Movement(r, c).wallet \in Int /\ Movement(r, c).cash \in Int
<1>1. r.amount \in Int /\ c \in Int
  BY DEF Request
<1>2. CASE r.flow = "qrPayment"
  BY <1>1, <1>2 DEF Movement
<1>3. CASE r.flow = "cashIn"
  BY <1>1, <1>3 DEF Movement, Request
<1>4. CASE r.flow = "cashOut"
  BY <1>1, <1>4 DEF Movement, Request
<1>. QED
  BY <1>2, <1>3, <1>4 DEF Request

LEMMA InsertedEntry ==
    ASSUME TypeOK, NEW s \in Slots, pc[s] # "idle"
    PROVE  Inserted(s) \in Entry /\ Inserted(s).sync = req[s].sync
<1>1. req[s] \in Request /\ charge[s] \in Int /\ before[s] \in Int
  BY DEF TypeOK
<1>2. Movement(req[s], charge[s]).wallet \in Int
  BY <1>1, MovementWhole
<1>. QED
  BY <1>1, <1>2 DEF Inserted, Entry, Request

LEMMA InitInv == Init => IInv
BY AmountAssumption DEF Init, IInv, TypeOK, BookedOnce, SyncIdHeld, PendingMine,
   BalanceStands

\* Receive, CheckSyncId, FindCharge and SumLedger insert nothing.
LEMMA ReadingInv ==
    ASSUME IInv, NEW s \in Slots,
           \/ \E r \in Requests : Receive(s, r)
           \/ CheckSyncId(s) \/ FindCharge(s) \/ SumLedger(s)
    PROVE  IInv'
<1>. USE DEF IInv
<1>1. /\ UNCHANGED <<ledger, onHand, book, pending>>
      /\ pc[s] \notin {"insert", "commit"} /\ pending[s] = None
      /\ pc' = [pc EXCEPT ![s] = pc'[s]] /\ pc'[s] # "commit" /\ pc'[s] # "idle"
      /\ \A q \in Slots \ {s} : /\ pc'[q] = pc[q] /\ req'[q] = req[q]
                                /\ charge'[q] = charge[q]
                                /\ before'[q] = before[q]
  BY DEF Receive, CheckSyncId, FindCharge, SumLedger, TypeOK
<1>2. TypeOK'
  <2>1. CASE \E r \in Requests : Receive(s, r)
    BY <2>1, RequestAssumption DEF TypeOK, Receive
  <2>2. CASE CheckSyncId(s)
    BY <2>2 DEF TypeOK, CheckSyncId
  <2>3. CASE FindCharge(s)
    <3>1. charge' \in [Slots -> Int]
      BY <2>3, AmountAssumption DEF TypeOK, FindCharge, ChargeAmount
    <3>. QED
      BY <2>3, <3>1 DEF TypeOK, FindCharge
  <2>4. CASE SumLedger(s)
    <3>1. req[s].provider \in Providers
      BY <2>4 DEF TypeOK, SumLedger, Request
    <3>2. before' \in [Slots -> Int]
      BY <2>4, <3>1 DEF TypeOK, SumLedger
    <3>. QED
      BY <2>4, <3>2 DEF TypeOK, SumLedger
  <2>. QED
    BY <2>1, <2>2, <2>3, <2>4
<1>3. BookedOnce' /\ SyncIdHeld'
  BY <1>1 DEF BookedOnce, SyncIdHeld, InBook
<1>4. PendingMine'
  BY <1>1 DEF PendingMine, Inserted
<1>5. BalanceStands'
  <2>. USE DEF Apart
  <2>1. ASSUME NEW p \in Slots, NEW q \in Slots, p # q, pc'[p] # "idle",
               pc'[q] # "idle", Apart(p)'
        PROVE  req'[q].provider # req'[p].provider
    <3>1. CASE \E r \in Requests : Receive(s, r)
      <4>1. PICK r \in Requests : Receive(s, r)
        BY <3>1
      <4>2. req'[s] = r /\ Free(r.provider)
        BY <4>1 DEF Receive, TypeOK
      <4>. QED
        BY <1>1, <2>1, <4>2 DEF BalanceStands, Free
    <3>2. CASE CheckSyncId(s) \/ FindCharge(s) \/ SumLedger(s)
      <4>1. req' = req /\ pc[s] # "idle"
        BY <3>2 DEF CheckSyncId, FindCharge, SumLedger
      <4>. QED
        BY <1>1, <2>1, <4>1 DEF BalanceStands
    <3>. QED
      BY <3>1, <3>2
  <2>2. pc'[s] = "insert" => /\ before'[s] = ledger'[req'[s].provider]
                             /\ Affordable(s, before[s])'
    BY DEF Receive, CheckSyncId, FindCharge, SumLedger, Affordable, TypeOK
  <2>3. \A q \in Slots \ {s} : Affordable(q, before[q])' <=> Affordable(q, before[q])
    BY <1>1 DEF Affordable
  <2>. QED
    BY <1>1, <2>1, <2>2, <2>3 DEF BalanceStands
<1>. QED
  BY <1>2, <1>3, <1>4, <1>5

LEMMA InsertInv ==
    ASSUME IInv, NEW s \in Slots, Insert(s)
    PROVE  IInv'
<1>. USE DEF IInv
<1>1. /\ UNCHANGED <<ledger, onHand, book, req, charge, before>>
      /\ pc[s] = "insert" /\ pc'[s] = "commit"
      /\ pending'[s] = Inserted(s)
      /\ \A q \in Slots \ {s} : pending'[q] = pending[q] /\ pc'[q] = pc[q]
  BY DEF Insert, TypeOK
<1>2. Inserted(s) \in Entry /\ Inserted(s).sync = req[s].sync
  BY <1>1, InsertedEntry
<1>3. TypeOK'
  BY <1>2, AbsenceAssumption DEF Insert, TypeOK
<1>4. BookedOnce'
  BY <1>1 DEF BookedOnce
<1>5. SyncIdHeld'
  BY <1>1, <1>2 DEF SyncIdHeld, Insert, Waits, Duplicate, InBook
<1>6. PendingMine'
  BY <1>1 DEF PendingMine, Inserted
<1>7. BalanceStands'
  BY <1>1 DEF BalanceStands, Affordable, Apart, TypeOK
<1>. QED
  BY <1>3, <1>4, <1>5, <1>6, <1>7

LEMMA CommitInv ==
    ASSUME IInv, NEW s \in Slots, Commit(s)
    PROVE  IInv'
<1>. USE DEF IInv
<1>1. /\ pc[s] = "commit" /\ pc'[s] = "idle"
      /\ pending[s] \in Entry /\ pending[s] # None /\ pending'[s] = None
      /\ book' = Append(book, pending[s]) /\ book \in Seq(Entry)
      /\ \A q \in Slots \ {s} : /\ pending'[q] = pending[q] /\ pc'[q] = pc[q]
                                /\ req'[q] = req[q] /\ charge'[q] = charge[q]
                                /\ before'[q] = before[q]
  BY DEF Commit, Close, TypeOK
<1>2. /\ book' \in Seq(Entry) /\ Len(book') = Len(book) + 1
      /\ book'[Len(book')] = pending[s]
      /\ DOMAIN book' = DOMAIN book \cup {Len(book')}
      /\ \A k \in DOMAIN book : book'[k] = book[k] /\ k # Len(book')
  BY <1>1
<1>3. TypeOK'
  <2>1. /\ Movement(req[s], charge[s]).wallet \in Int
        /\ Movement(req[s], charge[s]).cash \in Int
    BY <1>1, MovementWhole DEF TypeOK
  <2>. DEFINE m == Movement(req[s], charge[s])
  <2>2. /\ ledger' = [ledger EXCEPT ![req[s].provider] = @ + m.wallet]
        /\ onHand' = onHand + m.cash
    BY DEF Commit
  <2>. HIDE DEF m
  <2>3. ledger' \in [Providers -> Int] /\ onHand' \in Int
    BY <1>1, <2>1, <2>2 DEF TypeOK, Request, m
  <2>. QED
    BY <1>2, <2>3 DEF TypeOK, Commit, Close
<1>4. BookedOnce'
  <2>1. pending[s].sync # None =>
           \A k \in DOMAIN book : book[k].sync # pending[s].sync
    BY <1>1 DEF SyncIdHeld, InBook
  <2>. QED
    BY <1>2, <2>1 DEF BookedOnce
<1>5. SyncIdHeld'
  <2>1. SUFFICES ASSUME NEW q \in Slots, pending'[q] # None,
                        pending'[q].sync # None
                 PROVE  /\ ~InBook(pending[q].sync)'
                        /\ \A r \in Slots \ {q} :
                              pending'[r] # None =>
                                  pending'[r].sync # pending'[q].sync
    BY DEF SyncIdHeld
  <2>2. q # s /\ pending'[q] = pending[q]
    BY <1>1, <2>1
  <2>3. pending[s].sync # pending[q].sync /\ ~InBook(pending[q].sync)
    BY <1>1, <2>1, <2>2 DEF SyncIdHeld
  <2>4. ~InBook(pending[q].sync)'
    BY <1>2, <2>2, <2>3 DEF InBook
  <2>. QED
    BY <1>1, <2>1, <2>2, <2>4 DEF SyncIdHeld
<1>6. PendingMine'
  BY <1>1 DEF PendingMine, Inserted
<1>7. BalanceStands'
  <2>1. \A p \in Providers \ {req[s].provider} : ledger'[p] = ledger[p]
    BY DEF Commit, TypeOK
  <2>2. ASSUME NEW q \in Slots, pc'[q] \in {"insert", "commit"}
        PROVE  /\ Affordable(q, before[q])'
               /\ Apart(q)' => before'[q] = ledger'[req'[q].provider]
    <3>1. /\ q # s /\ pc[q] \in {"insert", "commit"} /\ Apart(q)' = Apart(q)
          /\ req[q].provider \in Providers
      BY <1>1, <2>2 DEF Apart, TypeOK, Request
    <3>2. Apart(q) => req[q].provider # req[s].provider
      BY <1>1, <3>1 DEF BalanceStands
    <3>. QED
      BY <1>1, <2>1, <3>1, <3>2 DEF BalanceStands, Affordable
  <2>. QED
    BY <1>1, <2>2 DEF BalanceStands, Apart
<1>. QED
  BY <1>3, <1>4, <1>5, <1>6, <1>7

\* A request that ends without a commit takes what it inserted with it.
LEMMA GiveUpInv ==
    ASSUME IInv, NEW s \in Slots, Refuse(s) \/ UniqueViolation(s) \/ Abort(s)
    PROVE  IInv'
<1>. USE DEF IInv
<1>1. /\ Close(s) /\ UNCHANGED <<received, ledger, onHand, book>>
  BY DEF Refuse, UniqueViolation, Abort
<1>2. /\ pc'[s] = "idle" /\ pending'[s] = None
      /\ \A q \in Slots \ {s} : /\ pending'[q] = pending[q] /\ pc'[q] = pc[q]
                                /\ req'[q] = req[q] /\ charge'[q] = charge[q]
                                /\ before'[q] = before[q]
  BY <1>1 DEF Close, TypeOK
<1>3. TypeOK'
  BY <1>1 DEF Close, TypeOK
<1>4. BookedOnce' /\ SyncIdHeld'
  BY <1>1, <1>2 DEF BookedOnce, SyncIdHeld, InBook
<1>5. PendingMine'
  BY <1>2 DEF PendingMine, Inserted
<1>6. BalanceStands'
  BY <1>1, <1>2 DEF BalanceStands, Affordable, Apart
<1>. QED
  BY <1>3, <1>4, <1>5, <1>6

LEMMA PostInv ==
    ASSUME IInv, NEW delta \in [Providers -> Posts], NEW cash \in Posts,
           Post(delta, cash)
    PROVE  IInv'
<1>. USE DEF IInv
<1>1. UNCHANGED <<book, pc, req, charge, before, pending>>
  BY DEF Post, reqVars
<1>2. TypeOK'
  <2>1. cash \in Int /\ \A p \in Providers : delta[p] \in Int
    BY AmountAssumption
  <2>. QED
    BY <2>1 DEF Post, TypeOK, reqVars
<1>3. BookedOnce' /\ SyncIdHeld' /\ PendingMine'
  BY <1>1 DEF BookedOnce, SyncIdHeld, InBook, PendingMine, Inserted
<1>4. BalanceStands'
  <2>1. ASSUME NEW q \in Slots, pc[q] \in {"insert", "commit"}, Apart(q)
        PROVE  ledger'[req[q].provider] = ledger[req[q].provider]
    <3>1. /\ req[q].provider \in Providers
          /\ ledger[req[q].provider] \in Int
      BY <2>1 DEF TypeOK, Request
    <3>2. delta[req[q].provider] = 0
      BY <2>1, <3>1 DEF Post, Free, Apart
    <3>. QED
      BY <3>1, <3>2 DEF Post
  <2>. QED
    BY <1>1, <2>1 DEF BalanceStands, Apart, Affordable
<1>. QED
  BY <1>2, <1>3, <1>4

LEMMA StepInv == IInv /\ [Next]_vars => IInv'
<1>. SUFFICES ASSUME IInv, [Next]_vars PROVE IInv'
  OBVIOUS
<1>1. CASE \E delta \in [Providers -> Posts], cash \in Posts : Post(delta, cash)
  BY <1>1, PostInv
<1>2. CASE \E s \in Slots :
              \/ \E r \in Requests : Receive(s, r)
              \/ CheckSyncId(s) \/ FindCharge(s) \/ SumLedger(s)
  BY <1>2, ReadingInv
<1>3. CASE \E s \in Slots : Insert(s)
  BY <1>3, InsertInv
<1>4. CASE \E s \in Slots : Commit(s)
  BY <1>4, CommitInv
<1>5. CASE \E s \in Slots : Refuse(s) \/ UniqueViolation(s) \/ Abort(s)
  BY <1>5, GiveUpInv
<1>6. CASE UNCHANGED vars
  BY <1>6 DEF IInv, TypeOK, BookedOnce, SyncIdHeld, PendingMine, BalanceStands,
     InBook, Inserted, Affordable, Apart, vars, reqVars
<1>. QED
  BY <1>1, <1>2, <1>3, <1>4, <1>5, <1>6 DEF Next

LEMMA InvHolds == Spec => []IInv
BY InitInv, StepInv, PTL DEF Spec

-----------------------------------------------------------------------------

\* Ledger sums, bookings and requests keep their types.
THEOREM TypeCorrect == Spec => []TypeOK
BY InvHolds, PTL DEF IInv

\* Only Commit writes the book.
LEMMA BookedByCommit ==
    ASSUME Next, book' # book
    PROVE  \E s \in Slots : Commit(s)
BY DEF Next, Post, Receive, CheckSyncId, FindCharge, SumLedger, Refuse, Insert,
   UniqueViolation, Abort

\* What a commit does to the wallets.
LEMMA CommitStands ==
    ASSUME IInv, NEW s \in Slots, Commit(s)
    PROVE  LET p == req[s].provider IN
           /\ p \in Providers
           /\ pending[s] = Inserted(s)
           /\ before[s] + Movement(req[s], charge[s]).wallet >= 0
           /\ ledger'[p] = ledger[p] + Movement(req[s], charge[s]).wallet
           /\ p \notin Overlap => before[s] = ledger[p] /\ ledger'[p] >= 0
           /\ \A o \in Providers \ {p} : ledger'[o] = ledger[o]
<1>. DEFINE m == Movement(req[s], charge[s])
            p == req[s].provider
<1>1. /\ pc[s] = "commit" /\ pending[s] # None /\ p \in Providers
      /\ ledger \in [Providers -> Int]
  BY DEF Commit, IInv, TypeOK, Request
<1>2. ledger' = [ledger EXCEPT ![p] = @ + m.wallet]
  BY DEF Commit
<1>3. /\ before[s] + m.wallet >= 0
      /\ p \notin Overlap => before[s] = ledger[p]
  BY <1>1 DEF IInv, BalanceStands, Affordable, Apart
<1>4. pending[s] = Inserted(s)
  BY <1>1 DEF IInv, PendingMine
<1>. HIDE DEF m, p
<1>5. /\ p \in Providers /\ pending[s] = Inserted(s)
      /\ before[s] + m.wallet >= 0
      /\ ledger'[p] = ledger[p] + m.wallet
      /\ p \notin Overlap => before[s] = ledger[p] /\ ledger'[p] >= 0
      /\ \A o \in Providers \ {p} : ledger'[o] = ledger[o]
  BY <1>1, <1>2, <1>3, <1>4
<1>. QED
  BY <1>5 DEF m, p

\* A transaction never takes a wallet below zero when requests on that wallet
\* do not overlap.
THEOREM SerialNoOverdraft == Spec => NoOverdraftAlone
<1>1. ASSUME IInv, Next, book' # book,
             NEW q \in Providers \ Overlap, ledger'[q] < ledger[q]
      PROVE  ledger'[q] >= 0
  <2>1. PICK s \in Slots : Commit(s)
    BY <1>1, BookedByCommit
  <2>2. ledger[q] \in Int
    BY <1>1 DEF IInv, TypeOK
  <2>3. q = req[s].provider
    BY <1>1, <2>1, <2>2, CommitStands
  <2>. QED
    BY <1>1, <2>1, <2>3, CommitStands
<1>2. IInv /\ [Next]_vars =>
         [\A p \in Providers \ Overlap :
             book' # book /\ ledger'[p] < ledger[p] => ledger'[p] >= 0]_vars
  BY <1>1
<1>. QED
  BY <1>2, InvHolds, PTL DEF Spec, NoOverdraftAlone

\* The balances written on a transaction are those of its wallet before and
\* after it took effect, when requests on that wallet do not overlap.
THEOREM SerialStatementsTrue == Spec => StatementsTrue
<1>1. ASSUME IInv, Next, book' # book
      PROVE  LET e == book'[Len(book')] IN
             e.provider \notin Overlap => /\ e.before = ledger[e.provider]
                                          /\ e.after = ledger'[e.provider]
  <2>1. PICK s \in Slots : Commit(s)
    BY <1>1, BookedByCommit
  <2>2. book \in Seq(Entry) /\ pending[s] \in Entry
    BY <1>1, <2>1, AbsenceAssumption DEF IInv, TypeOK, Commit
  <2>3. book'[Len(book')] = pending[s]
    BY <2>1, <2>2 DEF Commit
  <2>4. /\ pending[s].provider = req[s].provider
        /\ pending[s].before = before[s]
        /\ pending[s].after = before[s] + Movement(req[s], charge[s]).wallet
    <3>1. pending[s] = Inserted(s)
      BY <1>1, <2>1, CommitStands
    <3>. QED
      BY <3>1 DEF Inserted
  <2>. QED
    BY <1>1, <2>1, <2>3, <2>4, CommitStands
<1>2. IInv /\ [Next]_vars =>
         [book' # book =>
             LET e == book'[Len(book')] IN
             e.provider \notin Overlap => /\ e.before = ledger[e.provider]
                                          /\ e.after = ledger'[e.provider]]_vars
  BY <1>1
<1>. QED
  BY <1>2, InvHolds, PTL DEF Spec, StatementsTrue

-----------------------------------------------------------------------------
(* The route is a till.                                                    *)

\* A commit enters what was pending.
LEMMA CommitEnters ==
    ASSUME IInv, NEW s \in Slots, Commit(s)
    PROVE  TheTill!Book
<1>. DEFINE e == pending[s]
            m == Movement(req[s], charge[s])
            p == req[s].provider
<1>1. /\ pc[s] = "commit" /\ e # None /\ e \in Entry
      /\ book \in Seq(Entry) /\ ledger \in [Providers -> Int]
      /\ before[s] \in Int /\ m.wallet \in Int
  BY MovementWhole, AbsenceAssumption DEF IInv, TypeOK, Commit
<1>2. /\ book' = Append(book, e)
      /\ ledger' = [ledger EXCEPT ![p] = @ + m.wallet]
  BY DEF Commit
<1>3. book' # << >> /\ book'[Len(book')] = e
  BY <1>1, <1>2
<1>4. /\ p \in Providers
      /\ e = Inserted(s)
      /\ before[s] + m.wallet >= 0
      /\ p \notin Overlap => before[s] = ledger[p]
  BY CommitStands
<1>5. e.provider = p /\ e.before = before[s] /\ e.after = before[s] + m.wallet
  BY <1>4 DEF Inserted
<1>6. e.sync = None \/ \A k \in DOMAIN book : book[k].sync # e.sync
  BY <1>1 DEF IInv, SyncIdHeld, InBook
<1>. HIDE DEF e, m, p
<1>7. ledger' = [ledger EXCEPT ![p] = @ + (e.after - e.before)]
  <2>1. e.after - e.before = m.wallet
    BY <1>1, <1>5
  <2>. QED
    BY <1>2, <2>1
<1>8. TheTill!Enter(e)
  BY <1>2, <1>4, <1>5, <1>6, <1>7 DEF TheTill!Enter
<1>. QED
  BY <1>3, <1>8 DEF TheTill!Book

\* The transactions route is a till: the steps of overlapping requests, their
\* refusals, aborts and retries, change wallets and book only by entries that
\* are first of their syncId, record an affordable balance, and on a wallet
\* outside Overlap record the wallet's balances as they are.
THEOREM RouteIsTill == Spec => ImplementsTill
<1>1. Init => TheTill!Init
  BY DEF Init, TheTill!Init
<1>2. IInv /\ IInv' /\ [Next]_vars => [TheTill!Next]_<<ledger, book>>
  <2>. SUFFICES ASSUME IInv, IInv', [Next]_vars
                PROVE  TheTill!Next \/ UNCHANGED <<ledger, book>>
    OBVIOUS
  <2>1. ASSUME NEW s \in Slots, Commit(s)
        PROVE  TheTill!Next
    BY <2>1, CommitEnters DEF TheTill!Next
  <2>2. ASSUME NEW delta \in [Providers -> Posts], NEW cash \in Posts,
               Post(delta, cash)
        PROVE  TheTill!Next
    BY <2>2 DEF TheTill!Next, TheTill!Correct, Post, IInv, TypeOK
  <2>3. ASSUME NEW s \in Slots,
               \/ \E r \in Requests : Receive(s, r)
               \/ CheckSyncId(s) \/ FindCharge(s) \/ SumLedger(s) \/ Refuse(s)
               \/ Insert(s) \/ UniqueViolation(s) \/ Abort(s)
        PROVE  UNCHANGED <<ledger, book>>
    BY <2>3 DEF Receive, CheckSyncId, FindCharge, SumLedger, Refuse, Insert,
       UniqueViolation, Abort
  <2>4. CASE UNCHANGED vars
    BY <2>4 DEF vars
  <2>. QED
    BY <2>1, <2>2, <2>3, <2>4 DEF Next
<1>. QED
  BY <1>1, <1>2, InvHolds, PTL DEF Spec, ImplementsTill, TheTill!Spec

-----------------------------------------------------------------------------
(* Where the charge goes.                                                  *)

\* However the charge is routed, and whatever overlaps, what a transaction
\* adds to the wallet and to the cash together is the charge.
THEOREM ChargeEarned == Spec => FeeEarned
<1>1. ASSUME IInv, NEW s \in Slots, Commit(s), req[s].flow # "qrPayment"
      PROVE  LET p == req[s].provider IN
             (ledger'[p] - ledger[p]) + (onHand' - onHand) = charge[s]
  <2>. DEFINE m == Movement(req[s], charge[s])
              p == req[s].provider
  <2>1. /\ req[s] \in Request /\ charge[s] \in Int /\ p \in Providers
        /\ ledger \in [Providers -> Int] /\ onHand \in Int
    BY <1>1 DEF IInv, TypeOK, Commit, Request
  <2>2. m.wallet \in Int /\ m.cash \in Int
    BY <2>1, MovementWhole
  <2>3. m.wallet + m.cash = charge[s]
    <3>1. req[s].amount \in Int /\ charge[s] \in Int
      BY <2>1 DEF Request
    <3>2. CASE req[s].flow = "cashIn"
      BY <2>1, <3>1, <3>2 DEF Movement, Request
    <3>3. CASE req[s].flow = "cashOut"
      BY <2>1, <3>1, <3>3 DEF Movement, Request
    <3>. QED
      BY <1>1, <2>1, <3>2, <3>3 DEF Request
  <2>4. /\ ledger' = [ledger EXCEPT ![p] = @ + m.wallet]
        /\ onHand' = onHand + m.cash
    BY <1>1 DEF Commit
  <2>. HIDE DEF m, p
  <2>5. (ledger'[p] - ledger[p]) + (onHand' - onHand) = charge[s]
    BY <2>1, <2>2, <2>3, <2>4
  <2>. QED
    BY <2>5 DEF p
<1>2. IInv /\ [Next]_vars =>
         [\A s \in Slots :
             Commit(s) /\ req[s].flow # "qrPayment" =>
                 LET p == req[s].provider IN
                 (ledger'[p] - ledger[p]) + (onHand' - onHand) = charge[s]]_vars
  BY <1>1
<1>. QED
  BY <1>2, InvHolds, PTL DEF Spec, FeeEarned

\* Wallet and cash change in the direction of the flow, when the charge is not
\* more than the amount.
THEOREM DirectionKept == Spec => FlowsOneWay
<1>1. ASSUME IInv, NEW s \in Slots, Commit(s), charge[s] <= req[s].amount
      PROVE  /\ req[s].flow = "cashIn" =>
                    ledger'[req[s].provider] <= ledger[req[s].provider]
             /\ req[s].flow = "cashOut" => onHand' <= onHand
  <2>. DEFINE m == Movement(req[s], charge[s])
              p == req[s].provider
  <2>1. /\ req[s] \in Request /\ charge[s] \in Int /\ p \in Providers
        /\ ledger \in [Providers -> Int] /\ onHand \in Int
    BY <1>1 DEF IInv, TypeOK, Commit, Request
  <2>2. m.wallet \in Int /\ m.cash \in Int
    BY <2>1, MovementWhole
  <2>3. /\ req[s].flow = "cashIn" => m.wallet <= 0
        /\ req[s].flow = "cashOut" => m.cash <= 0
    <3>1. req[s].amount \in Int /\ req[s].amount > 0 /\ charge[s] \in Int
      BY <2>1 DEF Request
    <3>2. CASE req[s].flow = "cashIn"
      BY <1>1, <2>1, <3>1, <3>2 DEF Movement, Request
    <3>3. CASE req[s].flow = "cashOut"
      BY <1>1, <2>1, <3>1, <3>3 DEF Movement, Request
    <3>. QED
      BY <3>2, <3>3
  <2>4. /\ ledger' = [ledger EXCEPT ![p] = @ + m.wallet]
        /\ onHand' = onHand + m.cash
    BY <1>1 DEF Commit
  <2>. HIDE DEF m
  <2>5. ledger'[p] = ledger[p] + m.wallet /\ ledger[p] \in Int
    BY <2>1, <2>4
  <2>. QED
    BY <2>1, <2>2, <2>3, <2>4, <2>5
<1>2. IInv /\ [Next]_vars =>
         [\A s \in Slots :
             Commit(s) /\ charge[s] <= req[s].amount =>
                 /\ req[s].flow = "cashIn" =>
                        ledger'[req[s].provider] <= ledger[req[s].provider]
                 /\ req[s].flow = "cashOut" => onHand' <= onHand]_vars
  BY <1>1
<1>. QED
  BY <1>2, InvHolds, PTL DEF Spec, FlowsOneWay
=============================================================================

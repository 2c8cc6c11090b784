------------------------------- MODULE Wallet -------------------------------
(***************************************************************************)
(* One user's e-wallets and cash: TransactionService.create, which checks  *)
(* the syncId and looks up the charge on connections of their own, then in *)
(* one transaction at READ COMMITTED sums the ledger, checks the balance   *)
(* the transaction would leave, and inserts the transaction and its ledger *)
(* entry.  Devices add ledger entries of their own through the pushes.     *)
(*                                                                         *)
(* The ledger is what its entries sum up to.  Amounts are whole numbers;   *)
(* where a receipt's amount comes from, and the texts, are left out.       *)
(***************************************************************************)
EXTENDS Integers, Sequences

CONSTANTS Slots,        \* requests the server can be serving at once
          Providers,    \* GCASH and MAYA
          SyncIds,
          Requests,     \* the requests that may be received
          Charges,      \* the fees of the rules, of either sign; None: no rule
          Posts,        \* the deltas a ledger entry of a device may have
          Opening,      \* the balance of each wallet at the start
          Overlap,      \* wallets whose requests may overlap in time
          MaxRequests,  \* bound of the model on requests and posts
          None

Request ==
    [ provider : Providers, flow : {"cashIn", "cashOut", "qrPayment"},
      handling : {"addOnTop", "deductFromAmount"}, amount : Nat \ {0},
      sync : SyncIds \cup {None} ]

\* A row of the transactions table.
Entry ==
    [ sync : SyncIds \cup {None}, provider : Providers,
      before : Int, after : Int ]

ASSUME RequestAssumption == Requests \subseteq Request
ASSUME AmountAssumption ==
    /\ Charges \subseteq Int \cup {None} /\ Posts \subseteq Int
    /\ Opening \in [Providers -> Int]
ASSUME BoundAssumption == MaxRequests \in Nat /\ Overlap \subseteq Providers
ASSUME AbsenceAssumption ==
    /\ None \notin SyncIds /\ None \notin Int
    /\ None \notin Entry /\ None \notin Request

VARIABLES
    received, \* number of requests and posts so far, for MaxRequests
    ledger,   \* sum of walletDelta, and of mayaWalletDelta
    onHand,   \* sum of onHandDelta
    book,     \* the transactions table, in the order of the commits
    pc,       \* how far each request has come
    req,      \* the request
    charge,   \* chargeAmount
    before,   \* balanceBefore
    pending   \* the transaction inserted by the open database transaction

reqVars == <<pc, req, charge, before, pending>>
vars == <<received, ledger, onHand, book, reqVars>>

TypeOK ==
    /\ received \in Nat
    /\ ledger \in [Providers -> Int]
    /\ onHand \in Int
    /\ book \in Seq(Entry)
    /\ pc \in [Slots -> {"idle", "check", "charge", "sum", "insert", "commit"}]
    /\ req \in [Slots -> Request \cup {None}]
    /\ \A s \in Slots : pc[s] # "idle" => req[s] \in Request
    /\ charge \in [Slots -> Int]
    /\ before \in [Slots -> Int]
    /\ pending \in [Slots -> Entry \cup {None}]
    /\ \A s \in Slots : pending[s] # None <=> pc[s] = "commit"

Init ==
    /\ received = 0
    /\ ledger = Opening
    /\ onHand = 0
    /\ book = << >>
    /\ pc = [s \in Slots |-> "idle"]
    /\ req = [s \in Slots |-> None]
    /\ charge = [s \in Slots |-> 0]
    /\ before = [s \in Slots |-> 0]
    /\ pending = [s \in Slots |-> None]

-----------------------------------------------------------------------------
(* buildMovement                                                           *)

\* Slip: the fee is added to the cash that is paid out.
MovementFeeAdded(r, c) ==
    CASE r.flow = "qrPayment" -> [wallet |-> r.amount + c, cash |-> 0]
      [] r.flow = "cashIn" /\ r.handling = "addOnTop" ->
            [wallet |-> -r.amount, cash |-> r.amount + c]
      [] r.flow = "cashIn" /\ r.handling = "deductFromAmount" ->
            [wallet |-> -(r.amount - c), cash |-> r.amount]
      [] r.flow = "cashOut" /\ r.handling = "addOnTop" ->
            [wallet |-> r.amount + c, cash |-> -r.amount]
      [] r.flow = "cashOut" /\ r.handling = "deductFromAmount" ->
            [wallet |-> r.amount, cash |-> -(r.amount + c)]

\* Slip: cash out with the charge deducted is booked the other way around.
MovementReversed(r, c) ==
    CASE r.flow = "qrPayment" -> [wallet |-> r.amount + c, cash |-> 0]
      [] r.flow = "cashIn" /\ r.handling = "addOnTop" ->
            [wallet |-> -r.amount, cash |-> r.amount + c]
      [] r.flow = "cashIn" /\ r.handling = "deductFromAmount" ->
            [wallet |-> -(r.amount - c), cash |-> r.amount]
      [] r.flow = "cashOut" /\ r.handling = "addOnTop" ->
            [wallet |-> r.amount + c, cash |-> -r.amount]
      [] r.flow = "cashOut" /\ r.handling = "deductFromAmount" ->
            [wallet |-> -(r.amount - c), cash |-> r.amount]

\* What request r with charge c does to the wallet and to the cash.
Movement(r, c) ==
    CASE r.flow = "qrPayment" -> [wallet |-> r.amount + c, cash |-> 0]
      [] r.flow = "cashIn" /\ r.handling = "addOnTop" ->
            [wallet |-> -r.amount, cash |-> r.amount + c]
      [] r.flow = "cashIn" /\ r.handling = "deductFromAmount" ->
            [wallet |-> -(r.amount - c), cash |-> r.amount]
      [] r.flow = "cashOut" /\ r.handling = "addOnTop" ->
            [wallet |-> r.amount + c, cash |-> -r.amount]
      [] r.flow = "cashOut" /\ r.handling = "deductFromAmount" ->
            [wallet |-> r.amount, cash |-> -(r.amount - c)]

-----------------------------------------------------------------------------

\* A request on wallet p, or a post to it, may take place now.
Free(p) ==
    p \in Overlap \/ \A q \in Slots : pc[q] # "idle" => req[q].provider # p

Receive(s, r) ==
    /\ pc[s] = "idle" /\ Free(r.provider)
    /\ received < MaxRequests
    /\ received' = received + 1
    /\ pc' = [pc EXCEPT ![s] = "check"]
    /\ req' = [req EXCEPT ![s] = r]
    /\ UNCHANGED <<ledger, onHand, book, charge, before, pending>>

InBook(sync) == \E k \in DOMAIN book : book[k].sync = sync

\* transaction.findUnique({ where: { syncId } }), outside the transaction.
CheckSyncId(s) ==
    /\ pc[s] = "check"
    /\ req[s].sync = None \/ ~InBook(req[s].sync)
    /\ pc' = [pc EXCEPT ![s] = "charge"]
    /\ UNCHANGED <<received, ledger, onHand, book, req, charge, before, pending>>

\* Slip: the fee of no rule is not taken to be 0.
ChargeUndefaulted(rule) == rule

ChargeAmount(rule) == IF rule = None THEN 0 ELSE rule

\* chargeService.findApplicableCharge, a statement of its own
FindCharge(s) ==
    /\ pc[s] = "charge"
    /\ \E rule \in Charges :
          charge' = [charge EXCEPT ![s] = ChargeAmount(rule)]
    /\ pc' = [pc EXCEPT ![s] = "sum"]
    /\ UNCHANGED <<received, ledger, onHand, book, req, before, pending>>

\* Slip: the balance is checked before the transaction is applied to it.
AffordableBefore(s, balance) == balance >= 0

\* balanceAfter < 0 is refused.
Affordable(s, balance) == balance + Movement(req[s], charge[s]).wallet >= 0

\* ledgerEntry.aggregate
SumLedger(s) ==
    /\ pc[s] = "sum"
    /\ Affordable(s, ledger[req[s].provider])
    /\ before' = [before EXCEPT ![s] = ledger[req[s].provider]]
    /\ pc' = [pc EXCEPT ![s] = "insert"]
    /\ UNCHANGED <<received, ledger, onHand, book, req, charge, pending>>

Close(s) ==
    /\ pc' = [pc EXCEPT ![s] = "idle"]
    /\ req' = [req EXCEPT ![s] = None]
    /\ charge' = [charge EXCEPT ![s] = 0]
    /\ before' = [before EXCEPT ![s] = 0]
    /\ pending' = [pending EXCEPT ![s] = None]

\* 409 for a syncId that is there already, 400 for too low a balance.
Refuse(s) ==
    /\ \/ pc[s] = "check" /\ req[s].sync # None /\ InBook(req[s].sync)
       \/ pc[s] = "sum" /\ ~Affordable(s, ledger[req[s].provider])
    /\ Close(s)
    /\ UNCHANGED <<received, ledger, onHand, book>>

\* Another open transaction has inserted the same syncId.
Waits(s) ==
    /\ req[s].sync # None
    /\ \E q \in Slots \ {s} : pending[q] # None /\ pending[q].sync = req[s].sync

Duplicate(s) == req[s].sync # None /\ InBook(req[s].sync)

Inserted(s) ==
    [ sync |-> req[s].sync, provider |-> req[s].provider,
      before |-> before[s],
      after |-> before[s] + Movement(req[s], charge[s]).wallet ]

\* transaction.create and ledgerEntry.create
Insert(s) ==
    /\ pc[s] = "insert"
    /\ ~Waits(s) /\ ~Duplicate(s)
    /\ pending' = [pending EXCEPT ![s] = Inserted(s)]
    /\ pc' = [pc EXCEPT ![s] = "commit"]
    /\ UNCHANGED <<received, ledger, onHand, book, req, charge, before>>

\* P2002: the unique index on syncId refuses the insertion.
UniqueViolation(s) ==
    /\ pc[s] = "insert"
    /\ ~Waits(s) /\ Duplicate(s)
    /\ Close(s)
    /\ UNCHANGED <<received, ledger, onHand, book>>

Commit(s) ==
    /\ pc[s] = "commit"
    /\ LET m == Movement(req[s], charge[s]) IN
          /\ ledger' = [ledger EXCEPT ![req[s].provider] = @ + m.wallet]
          /\ onHand' = onHand + m.cash
    /\ book' = Append(book, pending[s])
    /\ Close(s)
    /\ UNCHANGED received

\* An amount that is not positive, a failed statement, a time limit, a crash.
Abort(s) ==
    /\ pc[s] # "idle"
    /\ Close(s)
    /\ UNCHANGED <<received, ledger, onHand, book>>

\* ledgerEntry.upsert for an entry of a device: created, changed or deleted,
\* it moves the sums by its deltas, without any check.
Post(delta, cash) ==
    /\ \A p \in Providers : delta[p] # 0 => Free(p)
    /\ received < MaxRequests
    /\ received' = received + 1
    /\ ledger' = [p \in Providers |-> ledger[p] + delta[p]]
    /\ onHand' = onHand + cash
    /\ UNCHANGED <<book, reqVars>>

Next ==
    \/ \E delta \in [Providers -> Posts], cash \in Posts : Post(delta, cash)
    \/ \E s \in Slots :
          \/ \E r \in Requests : Receive(s, r)
          \/ CheckSyncId(s) \/ FindCharge(s) \/ SumLedger(s) \/ Refuse(s)
          \/ Insert(s) \/ UniqueViolation(s) \/ Commit(s) \/ Abort(s)

Spec == Init /\ [][Next]_vars

-----------------------------------------------------------------------------

\* A transaction never takes a wallet below zero: the check of balanceAfter
\* still holds when the transaction takes effect.
NoOverdraft ==
    [][\A p \in Providers :
          book' # book /\ ledger'[p] < ledger[p] => ledger'[p] >= 0]_vars

\* The same of a wallet whose requests do not overlap with one another, nor
\* with posts that change it, whatever happens to the other wallets.
NoOverdraftAlone ==
    [][\A p \in Providers \ Overlap :
          book' # book /\ ledger'[p] < ledger[p] => ledger'[p] >= 0]_vars

\* balanceBefore and balanceAfter of a transaction on such a wallet are the
\* wallet before and after it took effect.
StatementsTrue ==
    [][book' # book =>
          LET e == book'[Len(book')] IN
          e.provider \notin Overlap => /\ e.before = ledger[e.provider]
                                       /\ e.after = ledger'[e.provider]]_vars

\* The same of every wallet: the balances recorded chain, however requests
\* overlap.
StatementsChain ==
    [][book' # book =>
          LET e == book'[Len(book')] IN
          /\ e.before = ledger[e.provider]
          /\ e.after = ledger'[e.provider]]_vars

\* Transactions and posts are those of a till: checks, retries and lost answers
\* leave nothing behind, a transaction takes effect at once and with the entry
\* that records it, and on a wallet outside Overlap its balances are true.
TheTill == INSTANCE Till WITH Wallets <- Providers, Shared <- Overlap,
                              balance <- ledger

ImplementsTill == TheTill!Spec

\* The business earns the charge, no more and no less, however it is routed and
\* whichever sign it has; only a QR payment brings in the amount as well.
FeeEarned ==
    [][\A s \in Slots :
          Commit(s) /\ req[s].flow # "qrPayment" =>
              LET p == req[s].provider IN
              (ledger'[p] - ledger[p]) + (onHand' - onHand) = charge[s]]_vars

\* Cash in never fills the wallet, cash out never fills the cash box, as long
\* as the charge is not more than the amount it is deducted from: nothing
\* compares the two.
FlowsOneWay ==
    [][\A s \in Slots :
          Commit(s) /\ charge[s] <= req[s].amount =>
              /\ req[s].flow = "cashIn" =>
                     ledger'[req[s].provider] <= ledger[req[s].provider]
              /\ req[s].flow = "cashOut" => onHand' <= onHand]_vars
=============================================================================

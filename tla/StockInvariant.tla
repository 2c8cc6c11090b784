--------------------------- MODULE StockInvariant ---------------------------
(***************************************************************************)
(* The inductive invariant of Stock: what the pending rows of the open     *)
(* transactions have to do with the committed ones and with the requests.  *)
(***************************************************************************)
EXTENDS Stock

Awaits(s, p) == \E k \in DOMAIN todo[s] : todo[s][k] = p

\* Only kinds of requests that may overlap do, and what an adjustment reads
\* stays true when nothing overlaps with it.
Alone ==
    /\ \A s, q \in Slots :
          s # q => \/ pc[s] = "idle" \/ pc[q] = "idle"
                  \/ {req[s].kind, req[q].kind} \subseteq Overlap
    /\ "adjust" \notin Overlap =>
          \A s \in Slots :
              pc[s] = "write" /\ req[s].kind = "adjust" =>
                  \A p \in Products : seen[s][p] = product[p]

\* A row lock has one holder, and only a transaction that writes.
LocksExclusive ==
    /\ \A s, q \in Slots, p \in Products :
          s # q => pending[s][p] = None \/ pending[q][p] = None
    /\ \A s \in Slots :
          pc[s] # "write" => pending[s] = NoRows

\* A checkout updates each product it deducts from once: before that the
\* product is still to do, afterwards its row is pending.
CheckoutProgress ==
    \A s \in Slots :
        pc[s] = "write" /\ req[s].kind = "checkout" =>
            /\ \A p \in Products :
                  /\ req[s].deduct[p] > 0 <=> Awaits(s, p) \/ pending[s][p] # None
                  /\ ~(Awaits(s, p) /\ pending[s][p] # None)
            /\ \A j, k \in DOMAIN todo[s] : todo[s][j] = todo[s][k] => j = k

\* Any other request updates its one product; only an adjustment keeps the
\* row pending.
SingleProgress ==
    \A s \in Slots :
        pc[s] = "write" /\ req[s].kind # "checkout" =>
            /\ \A p \in Products \ {req[s].product} :
                  ~Awaits(s, p) /\ pending[s][p] = None
            /\ \/ todo[s] = <<req[s].product>>
                  /\ pending[s][req[s].product] = None
               \/ todo[s] = << >> /\ req[s].kind = "adjust"
                  /\ pending[s][req[s].product] # None
            /\ req[s].kind = "adjust" =>
                  /\ seen[s][req[s].product].stock >= 0
                  /\ seen[s][req[s].product].stock + req[s].delta >= 0

\* The pending quantity is the committed one less the deduction, though the
\* row may have changed since the checkout read it; or the adjusted one.
PendingQuantity ==
    \A s \in Slots, p \in Products :
        pending[s][p] # None =>
            /\ req[s].kind = "checkout" =>
                  pending[s][p].stock = product[p].stock - req[s].deduct[p]
            /\ req[s].kind = "adjust" =>
                  pending[s][p].stock = seen[s][p].stock + req[s].delta
            /\ pending[s][p].stock >= 0
            /\ pending[s][p].deleted \/ moves[s][p] = pending[s][p].stock

\* Every pending row is held by one transaction, is the row stored but for
\* the request's quantity, and goes with its movement, whatever was committed
\* since the request read its products: what checkout relies on when it
\* decrements rows one by one.
PendingSound ==
    /\ Alone
    /\ LocksExclusive
    /\ CheckoutProgress
    /\ SingleProgress
    /\ PendingQuantity

IInv == TypeOK /\ PendingSound /\ NeverOversold /\ MovementsAgree
=============================================================================

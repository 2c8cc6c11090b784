------------------------------ MODULE MCWallet ------------------------------
(***************************************************************************)
(* Small instances of Wallet: which transactions are asked for.            *)
(***************************************************************************)
EXTENDS Wallet, TLC

CONSTANTS Amounts,
          Gains, Losses,  \* what devices post
          Rules, Rebates, \* fees of the rules, and negative ones
          StartBalance

SomeRequests ==
    [ provider : Providers, flow : {"cashIn", "cashOut", "qrPayment"},
      handling : {"addOnTop", "deductFromAmount"}, amount : Amounts,
      sync : SyncIds \cup {None} ]

\* Cash-outs as the integration test sends two at once: the fee on top.
CashOuts ==
    {r \in SomeRequests : r.flow = "cashOut" /\ r.handling = "addOnTop"
                          /\ r.sync # None}

SomePosts == {0} \cup Gains \cup {-n : n \in Losses}

Fees == {None} \cup Rules \cup {-n : n \in Rebates}

Opened == [p \in Providers |-> StartBalance]

Symmetric == Permutations(Slots) \cup Permutations(SyncIds)
=============================================================================

------------------------------ MODULE MCRest ------------------------------
(***************************************************************************)
(* Small instances of RestPush: which batches are pushed to each table.    *)
(***************************************************************************)
EXTENDS RestPush, TLC

CONSTANTS Stamps  \* the updatedAt values a record may carry

OneKey == CHOOSE k \in Keys : TRUE

\* Records that differ in what the routes of table t look at.  Devices sign
\* them where pulls look at the signature, and delete by a record where there
\* is no route for it.
Records(t) ==
    {r \in [ sync : SyncIds, key : Keys, signed : {t.device # "never"},
             del : BOOLEAN, pin : BOOLEAN, upd : Stamps \cup {NoTime} ] :
        /\ t.key = "none" => r.key = OneKey
        /\ r.del => /\ t.deletes /\ "remove" \notin t.routes
                    /\ ~r.pin /\ r.upd = NoTime
        /\ r.pin => t.pins
        /\ ~t.compares /\ ~t.stamps => r.upd = NoTime}

Pairs(t) == ~t.compares /\ ~t.stamps

\* One record or, where nothing depends on stamps, two of different
\* identities, neither of them a deletion.
AllBatches ==
    [t \in Tables |->
        LET R == Records(t)
        IN  {<<r>> : r \in R} \cup
               {b \in R \X R : /\ Pairs(t) /\ b[1].sync # b[2].sync
                              /\ ~b[1].del /\ ~b[2].del}]

Symmetric ==
    Permutations(Slots) \cup Permutations(Ids) \cup Permutations(SyncIds)
        \cup Permutations(Devices)
=============================================================================

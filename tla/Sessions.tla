------------------------------ MODULE Sessions ------------------------------
(***************************************************************************)
(* What the tokens of AuthService are for, apart from how they are kept:   *)
(* sessions.  A session begins with a login of one user, ends once, and    *)
(* one at a time; an ended session never comes back.  A logout ends the    *)
(* session it logs out of.                                                 *)
(***************************************************************************)
CONSTANTS Names,     \* of sessions
          Users

VARIABLES session,   \* the users it has served, and whether it is open
          loggedOut  \* the sessions a logout has ended

Init == /\ session = [r \in Names |-> [users |-> {}, open |-> FALSE]]
        /\ loggedOut = {}

Begin(r, u) ==
    /\ session[r].users = {}
    /\ session'[r] = [users |-> {u}, open |-> TRUE]
    /\ loggedOut' = loggedOut

End(r) ==
    /\ session[r].open
    /\ session'[r] = [users |-> session[r].users, open |-> FALSE]
    /\ loggedOut' \in {loggedOut, loggedOut \cup {r}}

\* Nothing but session r changes.
Only(r) ==
    /\ session'[r] # session[r]
    /\ \A q \in Names \ {r} : session'[q] = session[q]

Next ==
    \E r \in Names : Only(r) /\ (End(r) \/ \E u \in Users : Begin(r, u))

Spec == Init /\ [][Next]_<<session, loggedOut>>
=============================================================================

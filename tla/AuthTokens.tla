---------------------------- MODULE AuthTokens ----------------------------
(***************************************************************************)
(* AuthService: accounts and refresh tokens.  Every database statement is  *)
(* a step of its own; requests overlap, also those of one client, handlers *)
(* fail at any step and answers get lost.                                  *)
(*                                                                         *)
(* A session is what begins with a login and is carried on by every        *)
(* exchange of its token; it is named by the token of its login.  Passwords*)
(* are compared and tokens hashed in one piece with the lookup they belong *)
(* to.  isRevoked is never set by the code, and no code removes an account.*)
(***************************************************************************)
EXTENDS Naturals

CONSTANTS Slots,     \* handlers that can be running at once
          Clients,
          Users,     \* usernames
          Passwords,
          Tokens,    \* values of randomUUID, none of them drawn twice
          Lifetime,  \* 7 days
          MaxTime,   \* bound of the model on the clock
          None

Request == [ client : Clients, user : Users \cup {None},
             password : Passwords \cup {None}, token : Tokens \cup {None} ]

Token == [ session : Tokens, client : Clients, user : Users,
           expires : Nat ]

ASSUME LifetimeAssumption == Lifetime \in Nat /\ MaxTime \in Nat
ASSUME NoneAssumption ==
    None \notin Users \cup Passwords \cup Tokens \cup Request \cup Token

VARIABLES
    now,      \* the clock
    accounts, \* the password of every account
    live,     \* the tokens that have a row
    issued,   \* history: what the row of a token says, or said
    pc,       \* the next step of every handler
    req,      \* its request; after an issue, the token that is answered
    held,     \* the token every client goes on with
    ended,    \* history: the sessions whose row a logout has removed
    smooth    \* history: clients with one request at a time, all answered

vars == <<now, accounts, live, issued, pc, req, held, ended, smooth>>

Steps == {"name", "enroll", "password", "lookup", "discard", "rotate",
          "issue", "answer", "forget"}

Running(s) == pc[s] # "idle"

TypeOK ==
    /\ now \in Nat
    /\ accounts \in [Users -> Passwords \cup {None}]
    /\ issued \in [Tokens -> Token \cup {None}]
    /\ live \subseteq {t \in Tokens : issued[t] # None}
    /\ pc \in [Slots -> Steps \cup {"idle"}]
    /\ req \in [Slots -> Request \cup {None}]
    /\ \A s \in Slots : Running(s) => req[s] # None
    /\ held \in [Clients -> Tokens \cup {None}]
    /\ ended \subseteq Tokens
    /\ smooth \subseteq Clients

Init ==
    /\ now = 0
    /\ accounts = [u \in Users |-> None]
    /\ live = {}
    /\ issued = [t \in Tokens |-> None]
    /\ pc = [s \in Slots |-> "idle"]
    /\ req = [s \in Slots |-> None]
    /\ held = [c \in Clients |-> None]
    /\ ended = {}
    /\ smooth = Clients

Expired(t) == issued[t].expires < now

-----------------------------------------------------------------------------
(* Requests.                                                               *)

Send(s, r, step) ==
    /\ ~Running(s)
    /\ pc' = [pc EXCEPT ![s] = step]
    /\ req' = [req EXCEPT ![s] = r]
    /\ smooth' = IF \E q \in Slots : Running(q) /\ req[q].client = r.client
                 THEN smooth \ {r.client} ELSE smooth
    /\ UNCHANGED <<now, accounts, live, issued, held, ended>>

WithPassword(c, u, p) ==
    [client |-> c, user |-> u, password |-> p, token |-> None]

WithToken(c, t) ==
    [client |-> c, user |-> None, password |-> None, token |-> t]

Register(s, c, u, p) == Send(s, WithPassword(c, u, p), "name")

Login(s, c, u, p) == Send(s, WithPassword(c, u, p), "password")

Refresh(s, c) == held[c] # None /\ Send(s, WithToken(c, held[c]), "lookup")

Logout(s, c) == held[c] # None /\ Send(s, WithToken(c, held[c]), "forget")

-----------------------------------------------------------------------------
(* Steps of a handler.                                                     *)

Goto(s, step) ==
    /\ pc' = [pc EXCEPT ![s] = step]
    /\ req' = IF step = "idle" THEN [req EXCEPT ![s] = None] ELSE req

\* The username is free.
CheckName(s) ==
    /\ pc[s] = "name"
    /\ accounts[req[s].user] = None
    /\ Goto(s, "enroll")
    /\ UNCHANGED <<now, accounts, live, issued, held, ended, smooth>>

\* One transaction; username is a unique column.
Enroll(s) ==
    /\ pc[s] = "enroll"
    /\ accounts[req[s].user] = None
    /\ accounts' = [accounts EXCEPT ![req[s].user] = req[s].password]
    /\ Goto(s, "idle")
    /\ UNCHANGED <<now, live, issued, held, ended, smooth>>

CheckPassword(s) ==
    /\ pc[s] = "password"
    /\ accounts[req[s].user] = req[s].password
    /\ Goto(s, "issue")
    /\ UNCHANGED <<now, accounts, live, issued, held, ended, smooth>>

\* refresh: the row is there
LookUp(s) ==
    /\ pc[s] = "lookup"
    /\ req[s].token \in live
    /\ Goto(s, IF Expired(req[s].token) THEN "discard" ELSE "rotate")
    /\ UNCHANGED <<now, accounts, live, issued, held, ended, smooth>>

\* An expired row is cleaned up, if it is still there, and 401 answered.
Discard(s) ==
    /\ pc[s] = "discard"
    /\ live' = live \ {req[s].token}
    /\ Goto(s, "idle")
    /\ UNCHANGED <<now, accounts, issued, held, ended, smooth>>

\* Slip: rotation removes the row if there is one, and goes on.
RotateAnyway(s) ==
    /\ pc[s] = "rotate"
    /\ live' = live \ {req[s].token}
    /\ Goto(s, "issue")
    /\ UNCHANGED <<now, accounts, issued, held, ended, smooth>>

\* Slip: rotation removes every row of the user.
RotateUser(s) ==
    /\ pc[s] = "rotate"
    /\ req[s].token \in live
    /\ live' = {t \in live : issued[t].user # issued[req[s].token].user}
    /\ Goto(s, "issue")
    /\ UNCHANGED <<now, accounts, issued, held, ended, smooth>>

\* delete throws when the row is gone.
Rotate(s) ==
    /\ pc[s] = "rotate"
    /\ req[s].token \in live
    /\ live' = live \ {req[s].token}
    /\ Goto(s, "issue")
    /\ UNCHANGED <<now, accounts, issued, held, ended, smooth>>

\* Slip: a token without end.
ExpiryNone == None

Expiry == now + Lifetime

\* The user who has logged in, or whose token is exchanged; its session
Issued(s, t) ==
    LET token == req[s].token IN
        [ session |-> IF token = None THEN t ELSE issued[token].session,
          client |-> req[s].client,
          user |-> IF token = None THEN req[s].user ELSE issued[token].user,
          expires |-> Expiry ]

\* generateTokens
Issue(s) ==
    /\ pc[s] = "issue"
    /\ \E t \in Tokens :
          /\ issued[t] = None
          /\ issued' = [issued EXCEPT ![t] = Issued(s, t)]
          /\ live' = live \cup {t}
          /\ req' = [req EXCEPT ![s] = WithToken(req[s].client, t)]
    /\ pc' = [pc EXCEPT ![s] = "answer"]
    /\ UNCHANGED <<now, accounts, held, ended, smooth>>

Answer(s) ==
    /\ pc[s] = "answer"
    /\ held' = [held EXCEPT ![req[s].client] = req[s].token]
    /\ Goto(s, "idle")
    /\ UNCHANGED <<now, accounts, live, issued, ended, smooth>>

\* logout; the client drops the token it sent.
Forget(s) ==
    /\ pc[s] = "forget"
    /\ live' = live \ {req[s].token}
    /\ ended' = IF req[s].token \in live
                THEN ended \cup {issued[req[s].token].session} ELSE ended
    /\ held' = [held EXCEPT ![req[s].client] =
                   IF @ = req[s].token THEN None ELSE @]
    /\ Goto(s, "idle")
    /\ UNCHANGED <<now, accounts, issued, smooth>>

\* 401, 404 or 409: the name is taken, the password wrong, the row gone.
Refuse(s) ==
    /\ \/ pc[s] \in {"name", "enroll"} /\ accounts[req[s].user] # None
       \/ pc[s] = "password" /\ accounts[req[s].user] # req[s].password
       \/ pc[s] \in {"lookup", "rotate"} /\ req[s].token \notin live
    /\ Goto(s, "idle")
    /\ UNCHANGED <<now, accounts, live, issued, held, ended, smooth>>

\* A statement fails, the server restarts, or the answer is lost.
Fail(s) ==
    /\ Running(s)
    /\ smooth' = smooth \ {req[s].client}
    /\ Goto(s, "idle")
    /\ UNCHANGED <<now, accounts, live, issued, held, ended>>

Tick ==
    /\ now < MaxTime
    /\ now' = now + 1
    /\ UNCHANGED <<accounts, live, issued, pc, req, held, ended, smooth>>

Handle(s) ==
    \/ CheckName(s) \/ Enroll(s) \/ CheckPassword(s)
    \/ LookUp(s) \/ Discard(s) \/ Rotate(s) \/ Issue(s)
    \/ Answer(s) \/ Forget(s) \/ Refuse(s) \/ Fail(s)

Arrive(s, c) ==
    \/ \E u \in Users, p \in Passwords :
          Register(s, c, u, p) \/ Login(s, c, u, p)
    \/ Refresh(s, c) \/ Logout(s, c)

Next ==
    \/ Tick
    \/ \E s \in Slots : Handle(s) \/ \E c \in Clients : Arrive(s, c)

Spec == Init /\ [][Next]_vars

-----------------------------------------------------------------------------

\* The tokens that carry session r on, and the exchanges that have removed
\* one of them and not yet created the next.
Carriers(r) == {t \in live : issued[t].session = r}

Exchanging(r) == {s \in Slots : /\ pc[s] = "issue" /\ req[s].token # None
                                /\ issued[req[s].token].session = r}

\* Session r has one token, or one exchange under way, or neither.
Linear(r) ==
    /\ \A t, u \in Carriers(r) : t = u
    /\ \A s, q \in Exchanging(r) : s = q
    /\ Carriers(r) = {} \/ Exchanging(r) = {}

\* A token is exchanged once: a session never forks, whatever a client
\* retries or sends twice at the same time.
SessionNeverForks == \A r \in Tokens : Linear(r)

\* A session whose token a logout has removed is over: no refresh that had
\* looked the token up before carries it on.
LogoutEnds == \A r \in ended : Carriers(r) = {} /\ Exchanging(r) = {}

\* Session r: the users its tokens were issued to, and whether a token or an
\* exchange carries it on.
Chain(r) == {t \in Tokens : issued[t] # None /\ issued[t].session = r}

SessionOf(r) == [ users |-> {issued[t].user : t \in Chain(r)},
                  open |-> Carriers(r) # {} \/ Exchanging(r) # {} ]

Service == INSTANCE Sessions WITH Names <- Tokens, loggedOut <- ended,
                                  session <- [r \in Tokens |-> SessionOf(r)]

\* Rotation, clean-up, retries, failures and lost answers are nothing but
\* sessions: each serves the user who logged in, is carried on by one token at
\* a time, so that removing that token ends it, and once ended stays so.
ImplementsSessions == Service!Spec

\* A client that sends one request at a time and loses no answer can always
\* go on with its token until it expires, whatever the other clients of the
\* same account do.
SessionKept ==
    \A c \in smooth :
       /\ held[c] # None /\ ~Expired(held[c])
       /\ \A s \in Slots : Running(s) => req[s].client # c
       => held[c] \in live
=============================================================================

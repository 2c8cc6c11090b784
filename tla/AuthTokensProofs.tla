-------------------------- MODULE AuthTokensProofs --------------------------
(***************************************************************************)
(* Theorems about AuthTokens, for every set of handlers, clients, accounts *)
(* and tokens and every lifetime.                                          *)
(***************************************************************************)
EXTENDS AuthTokens, TLAPS

\* What a handler works on fits the step it is at, and a token that it was
\* sent, or is about to answer, is one of its own client.
RequestsFit ==
    \A s \in Slots : Running(s) =>
        /\ req[s] \in Request
        /\ pc[s] \in {"name", "enroll", "password"} =>
              /\ req[s].user \in Users /\ req[s].password \in Passwords
              /\ req[s].token = None
        /\ pc[s] = "issue" /\ req[s].token = None => req[s].user \in Users
        /\ pc[s] \in {"lookup", "discard", "rotate", "answer", "forget"} =>
              req[s].token \in Tokens
        /\ req[s].token # None =>
              /\ issued[req[s].token] # None
              /\ issued[req[s].token].client = req[s].client

\* A client holds tokens of its own.
HeldMine ==
    \A c \in Clients : held[c] # None =>
        issued[held[c]] # None /\ issued[held[c]].client = c

\* Sessions are named by tokens that have been issued.
SessionsIssued ==
    /\ \A t \in Tokens :
          issued[t] # None => issued[issued[t].session] # None
    /\ \A r \in ended : issued[r] # None

Typed == TypeOK /\ RequestsFit /\ HeldMine /\ SessionsIssued

\* One request at a time.
OneAtATime ==
    \A c \in smooth : \A s, q \in Slots :
        /\ Running(s) /\ Running(q)
        /\ req[s].client = c /\ req[q].client = c
        => s = q

\* Handlers that are to give client c a new token.
Renewing(c) == {s \in Slots : /\ Running(s) /\ req[s].client = c
                              /\ pc[s] \in {"issue", "answer"}}

\* While nothing gives it a new token, the token of a client has its row.
TokenStands ==
    /\ \A c \in smooth : held[c] # None /\ ~Expired(held[c]) =>
          held[c] \in live \/ Renewing(c) # {}
    /\ \A s \in Slots : pc[s] = "answer" /\ req[s].client \in smooth =>
          req[s].token \in live
    /\ \A s \in Slots : pc[s] = "discard" => Expired(req[s].token)

Chains == SessionNeverForks /\ LogoutEnds

IInv == Typed /\ Chains /\ OneAtATime /\ TokenStands

-----------------------------------------------------------------------------

LEMMA InitIInv == Init => IInv
<1>. SUFFICES ASSUME Init PROVE IInv
  OBVIOUS
<1>1. Typed
  BY DEF Init, Typed, TypeOK, RequestsFit, HeldMine, SessionsIssued, Running
<1>2. Chains
  BY DEF Init, Chains, SessionNeverForks, Linear, LogoutEnds, Carriers, Exchanging
<1>3. OneAtATime /\ TokenStands
  BY DEF Init, OneAtATime, TokenStands, Running
<1>. QED
  BY <1>1, <1>2, <1>3 DEF IInv

-----------------------------------------------------------------------------
(* Types.                                                                  *)

LEMMA SendTyped ==
    ASSUME Typed, NEW s \in Slots, NEW r \in Request, NEW step \in Steps,
           Send(s, r, step),
           \/ /\ step \in {"name", "password"}
              /\ r.user \in Users /\ r.password \in Passwords
              /\ r.token = None
           \/ /\ step \in {"lookup", "forget"} /\ r.token \in Tokens
              /\ issued[r.token] # None /\ issued[r.token].client = r.client
    PROVE  Typed'
<1>. USE NoneAssumption
<1>1. TypeOK'
  BY DEF Typed, TypeOK, Send, Running, Steps
<1>2. RequestsFit'
  BY DEF Typed, TypeOK, RequestsFit, Send, Running, Steps
<1>3. HeldMine' /\ SessionsIssued'
  BY DEF Typed, HeldMine, SessionsIssued, Send
<1>. QED
  BY <1>1, <1>2, <1>3 DEF Typed

LEMMA ArriveTyped ==
    ASSUME Typed, NEW s \in Slots, NEW c \in Clients, Arrive(s, c)
    PROVE  Typed'
<1>1. ASSUME NEW u \in Users, NEW p \in Passwords,
             Register(s, c, u, p) \/ Login(s, c, u, p)
      PROVE  Typed'
  <2>1. WithPassword(c, u, p) \in Request
    BY DEF WithPassword, Request
  <2>. QED
    BY <1>1, <2>1, SendTyped DEF Register, Login, WithPassword, Steps
<1>2. CASE Refresh(s, c) \/ Logout(s, c)
  <2>1. held[c] \in Tokens /\ WithToken(c, held[c]) \in Request
    BY <1>2 DEF Refresh, Logout, Typed, TypeOK, WithToken, Request
  <2>2. issued[held[c]] # None /\ issued[held[c]].client = c
    BY <1>2 DEF Refresh, Logout, Typed, HeldMine
  <2>. QED
    BY <1>2, <2>1, <2>2, SendTyped DEF Refresh, Logout, WithToken, Steps
<1>. QED
  BY <1>1, <1>2 DEF Arrive

LEMMA IssueTyped ==
    ASSUME Typed, NEW s \in Slots, Issue(s)
    PROVE  Typed'
<1>. USE NoneAssumption, LifetimeAssumption
<1>. PICK t \in Tokens :
        /\ issued[t] = None
        /\ issued' = [issued EXCEPT ![t] = Issued(s, t)]
        /\ live' = live \cup {t}
        /\ req' = [req EXCEPT ![s] = WithToken(req[s].client, t)]
  BY DEF Issue
<1>1. pc[s] = "issue" /\ pc' = [pc EXCEPT ![s] = "answer"]
      /\ UNCHANGED <<now, accounts, held, ended, smooth>>
  BY DEF Issue
<1>2. req[s] \in Request /\ Expiry \in Nat
  BY <1>1 DEF Typed, TypeOK, RequestsFit, Running, Expiry
<1>3. Issued(s, t) \in Token /\ issued'[t] = Issued(s, t)
      /\ issued'[t].client = req[s].client
      /\ issued'[t].session = IF req[s].token = None THEN t
                              ELSE issued[req[s].token].session
  <2>1. Issued(s, t) \in Token
    <3>1. req[s].token # None => issued[req[s].token] \in Token
      BY <1>1, <1>2 DEF Typed, TypeOK, RequestsFit, Running, Request
    <3>2. req[s].token = None => req[s].user \in Users
      BY <1>1 DEF Typed, RequestsFit, Running
    <3>. QED
      BY <1>2, <3>1, <3>2 DEF Issued, Token, Request
  <2>2. issued'[t] = Issued(s, t)
    BY DEF Typed, TypeOK
  <2>. QED
    BY <2>1, <2>2 DEF Issued
<1>4. \A u \in Tokens \ {t} : issued'[u] = issued[u]
  BY DEF Typed, TypeOK
<1>5. req'[s] = WithToken(req[s].client, t) /\ req'[s] \in Request
  BY <1>2 DEF Typed, TypeOK, Request, WithToken
<1>6. TypeOK'
  <2>1. issued' \in [Tokens -> Token \cup {None}]
    BY <1>3 DEF Typed, TypeOK
  <2>2. live' \subseteq {u \in Tokens : issued'[u] # None}
    BY <1>3, <1>4 DEF Typed, TypeOK
  <2>3. req' \in [Slots -> Request \cup {None}]
    BY <1>5 DEF Typed, TypeOK
  <2>. QED
    BY <1>1, <1>2, <1>5, <2>1, <2>2, <2>3 DEF Typed, TypeOK, Running, Steps
<1>7. RequestsFit'
  <2>1. \A q \in Slots \ {s} : pc'[q] = pc[q] /\ req'[q] = req[q]
    BY <1>1 DEF Typed, TypeOK
  <2>2. pc'[s] = "answer" /\ req'[s].token = t
        /\ req'[s].client = req[s].client
    BY <1>1, <1>2, <1>5 DEF Typed, TypeOK, Request, WithToken
  <2>. QED
    BY <1>3, <1>4, <1>5, <2>1, <2>2
       DEF Typed, TypeOK, RequestsFit, Running, Request
<1>8. HeldMine'
  BY <1>1, <1>4 DEF Typed, TypeOK, HeldMine
<1>9. SessionsIssued'
  <2>1. ASSUME NEW u \in Tokens, issued[u] # None
        PROVE  issued'[u] = issued[u] /\ issued'[u] # None
    BY <1>4, <2>1
  <2>2. \A u \in Tokens \ {t} : issued'[u] # None =>
           issued'[issued'[u].session] # None
    BY <1>4, <2>1 DEF Typed, TypeOK, SessionsIssued, Token
  <2>3. issued'[t] # None /\ issued'[issued'[t].session] # None
    BY <1>1, <1>2, <1>3, <2>1
       DEF Typed, TypeOK, SessionsIssued, RequestsFit, Running, Request, Token
  <2>4. \A r \in ended' : issued'[r] # None
    BY <1>1, <2>1 DEF Typed, TypeOK, SessionsIssued
  <2>. QED
    BY <2>2, <2>3, <2>4 DEF SessionsIssued
<1>. QED
  BY <1>6, <1>7, <1>8, <1>9 DEF Typed

\* Every other step of a handler.
LEMMA HandleTyped ==
    ASSUME Typed, NEW s \in Slots, Handle(s)
    PROVE  Typed'
<1>. USE NoneAssumption
<1>1. CASE CheckName(s) \/ CheckPassword(s) \/ LookUp(s)
  <2>1. TypeOK'
    BY <1>1 DEF Typed, TypeOK, CheckName, CheckPassword, LookUp, Goto,
                Running, Steps
  <2>2. RequestsFit'
    BY <1>1 DEF Typed, TypeOK, RequestsFit, CheckName, CheckPassword, LookUp,
                Goto, Running, Steps
  <2>3. HeldMine' /\ SessionsIssued'
    BY <1>1 DEF Typed, HeldMine, SessionsIssued, CheckName, CheckPassword,
                LookUp
  <2>. QED
    BY <2>1, <2>2, <2>3 DEF Typed
<1>2. CASE Enroll(s)
  <2>1. req[s].password \in Passwords
    BY <1>2 DEF Enroll, Typed, RequestsFit, Running
  <2>2. TypeOK'
    BY <1>2, <2>1 DEF Typed, TypeOK, Enroll, Goto, Running
  <2>3. RequestsFit'
    BY <1>2 DEF Typed, TypeOK, RequestsFit, Enroll, Goto, Running
  <2>4. HeldMine' /\ SessionsIssued'
    BY <1>2 DEF Typed, HeldMine, SessionsIssued, Enroll
  <2>. QED
    BY <2>2, <2>3, <2>4 DEF Typed
<1>3. CASE Discard(s) \/ Rotate(s) \/ Refuse(s) \/ Fail(s)
  <2>1. TypeOK'
    BY <1>3 DEF Typed, TypeOK, Discard, Rotate, Refuse, Fail, Goto, Running,
                Steps
  <2>2. RequestsFit'
    BY <1>3 DEF Typed, TypeOK, RequestsFit, Discard, Rotate, Refuse, Fail,
                Goto, Running
  <2>3. HeldMine' /\ SessionsIssued'
    BY <1>3 DEF Typed, HeldMine, SessionsIssued, Discard, Rotate, Refuse, Fail
  <2>. QED
    BY <2>1, <2>2, <2>3 DEF Typed
<1>4. CASE Issue(s)
  BY <1>4, IssueTyped
<1>5. CASE Answer(s)
  <2>1. req[s].client \in Clients /\ req[s].token \in Tokens
        /\ issued[req[s].token] # None
        /\ issued[req[s].token].client = req[s].client
    BY <1>5 DEF Answer, Typed, RequestsFit, Running, Request
  <2>2. TypeOK'
    BY <1>5, <2>1 DEF Typed, TypeOK, Answer, Goto, Running
  <2>3. RequestsFit'
    BY <1>5 DEF Typed, TypeOK, RequestsFit, Answer, Goto, Running
  <2>4. HeldMine' /\ SessionsIssued'
    BY <1>5, <2>1 DEF Typed, TypeOK, HeldMine, SessionsIssued, Answer
  <2>. QED
    BY <2>2, <2>3, <2>4 DEF Typed
<1>6. CASE Forget(s)
  <2>1. req[s].client \in Clients /\ req[s].token \in Tokens
        /\ issued[req[s].token] # None
    BY <1>6 DEF Forget, Typed, RequestsFit, Running, Request
  <2>2. issued[req[s].token].session \in Tokens
    BY <2>1 DEF Typed, TypeOK, Token
  <2>3. TypeOK'
    BY <1>6, <2>1, <2>2 DEF Typed, TypeOK, Forget, Goto, Running
  <2>4. RequestsFit'
    BY <1>6 DEF Typed, TypeOK, RequestsFit, Forget, Goto, Running
  <2>5. HeldMine' /\ SessionsIssued'
    BY <1>6, <2>1 DEF Typed, TypeOK, HeldMine, SessionsIssued, Forget
  <2>. QED
    BY <2>3, <2>4, <2>5 DEF Typed
<1>. QED
  BY <1>1, <1>2, <1>3, <1>4, <1>5, <1>6 DEF Handle

LEMMA StepTyped == Typed /\ [Next]_vars => Typed'
<1>. SUFFICES ASSUME Typed, [Next]_vars PROVE Typed'
  OBVIOUS
<1>1. CASE Tick
  BY <1>1 DEF Tick, Typed, TypeOK, RequestsFit, HeldMine, SessionsIssued,
              Running
<1>2. CASE UNCHANGED vars
  BY <1>2 DEF vars, Typed, TypeOK, RequestsFit, HeldMine, SessionsIssued,
              Running
<1>. QED
  BY <1>1, <1>2, HandleTyped, ArriveTyped DEF Next

-----------------------------------------------------------------------------
(* Sessions.                                                               *)

\* What only removes rows, and begins no exchange, keeps chains apart.
LEMMA ChainsShrink ==
    ASSUME Chains, live' \subseteq live, issued' = issued, ended' = ended,
           \A s \in Slots : pc'[s] = "issue" /\ req'[s].token # None =>
               pc[s] = "issue" /\ req'[s] = req[s]
    PROVE  Chains'
<1>1. \A r : Carriers(r)' \subseteq Carriers(r)
             /\ Exchanging(r)' \subseteq Exchanging(r)
  BY DEF Carriers, Exchanging
<1>. QED
  BY <1>1 DEF Chains, SessionNeverForks, Linear, LogoutEnds

LEMMA ChainsRotate ==
    ASSUME Typed, Chains, NEW s \in Slots, Rotate(s)
    PROVE  Chains'
<1>1. /\ pc[s] = "rotate" /\ req[s].token \in live
      /\ live' = live \ {req[s].token}
      /\ issued' = issued /\ ended' = ended /\ req' = req
      /\ pc' = [pc EXCEPT ![s] = "issue"]
  BY DEF Rotate, Goto
<1>. PICK mine \in Tokens : req[s].token \in Carriers(mine)
  BY <1>1 DEF Typed, TypeOK, Carriers, Token
<1>2. \A r \in Tokens \ {mine} :
         Carriers(r)' \subseteq Carriers(r) /\ Exchanging(r)' = Exchanging(r)
  BY <1>1 DEF Typed, TypeOK, Carriers, Exchanging
<1>3. Exchanging(mine) = {} /\ Carriers(mine) = {req[s].token}
  BY DEF Chains, SessionNeverForks, Linear
<1>4. Carriers(mine)' = {} /\ Exchanging(mine)' \subseteq {s}
  BY <1>1, <1>3 DEF Typed, TypeOK, Carriers, Exchanging
<1>5. SessionNeverForks'
  <2>1. Linear(mine)'
    BY <1>4 DEF Linear
  <2>2. \A r \in Tokens \ {mine} : Linear(r)'
    BY <1>2 DEF Chains, SessionNeverForks, Linear
  <2>. QED
    BY <2>1, <2>2 DEF SessionNeverForks
<1>6. LogoutEnds'
  <2>1. mine \notin ended
    BY DEF Chains, LogoutEnds
  <2>. QED
    BY <1>1, <1>2, <2>1 DEF Chains, LogoutEnds, Typed, TypeOK
<1>. QED
  BY <1>5, <1>6 DEF Chains

LEMMA ChainsIssue ==
    ASSUME Typed, Chains, NEW s \in Slots, Issue(s)
    PROVE  Chains'
<1>. USE NoneAssumption
<1>. PICK t \in Tokens :
        /\ issued[t] = None
        /\ issued' = [issued EXCEPT ![t] = Issued(s, t)]
        /\ live' = live \cup {t}
  BY DEF Issue
<1>1. pc[s] = "issue" /\ pc' = [pc EXCEPT ![s] = "answer"] /\ ended' = ended
      /\ \A q \in Slots \ {s} : req'[q] = req[q]
  BY DEF Issue, Typed, TypeOK
<1>2. \A q \in Slots : Running(q) /\ req[q].token # None =>
         req[q].token \in Tokens \ {t} /\ issued[req[q].token] # None
  BY DEF Typed, TypeOK, RequestsFit, Request
<1>. PICK mine \in Tokens :
        mine = IF req[s].token = None THEN t ELSE issued[req[s].token].session
  BY <1>1, <1>2 DEF Typed, TypeOK, Running, Token
<1>3. issued'[t].session = mine
      /\ \A u \in Tokens \ {t} : issued'[u] = issued[u]
  BY DEF Issued, Typed, TypeOK
<1>4. \A r : Exchanging(r)' \subseteq Exchanging(r) \ {s}
  BY <1>1, <1>2, <1>3 DEF Exchanging, Running, Typed, TypeOK
<1>5. \A r : r # mine => Carriers(r)' \subseteq Carriers(r)
  BY <1>3 DEF Carriers, Typed, TypeOK
<1>6. Carriers(mine) = {} /\ Exchanging(mine) \subseteq {s} /\ mine \notin ended
  <2>1. CASE req[s].token = None
    <3>1. \A u \in Tokens : issued[u] # None => issued[u].session # t
      BY DEF Typed, SessionsIssued
    <3>2. Carriers(t) = {}
      BY <3>1 DEF Carriers, Typed, TypeOK
    <3>3. Exchanging(t) = {}
      BY <1>2, <3>1 DEF Exchanging, Running
    <3>. QED
      BY <2>1, <3>2, <3>3 DEF Typed, SessionsIssued
  <2>2. CASE req[s].token # None
    <3>1. s \in Exchanging(mine)
      BY <1>1, <2>2 DEF Exchanging
    <3>. QED
      BY <3>1 DEF Chains, SessionNeverForks, Linear, LogoutEnds
  <2>. QED
    BY <2>1, <2>2
<1>7. Carriers(mine)' \subseteq {t} /\ Exchanging(mine)' = {}
  BY <1>3, <1>4, <1>6 DEF Carriers, Typed, TypeOK
<1>8. SessionNeverForks'
  <2>1. Linear(mine)'
    BY <1>7 DEF Linear
  <2>2. \A r \in Tokens \ {mine} : Linear(r)'
    BY <1>4, <1>5 DEF Chains, SessionNeverForks, Linear
  <2>. QED
    BY <2>1, <2>2 DEF SessionNeverForks
<1>9. LogoutEnds'
  BY <1>1, <1>4, <1>5, <1>6 DEF Chains, LogoutEnds
<1>. QED
  BY <1>8, <1>9 DEF Chains

LEMMA ChainsForget ==
    ASSUME Typed, Chains, NEW s \in Slots, Forget(s)
    PROVE  Chains'
<1>1. /\ pc[s] = "forget" /\ live' = live \ {req[s].token}
      /\ issued' = issued
      /\ ended' = IF req[s].token \in live
                  THEN ended \cup {issued[req[s].token].session} ELSE ended
      /\ pc' = [pc EXCEPT ![s] = "idle"]
      /\ \A q \in Slots \ {s} : req'[q] = req[q]
  BY DEF Forget, Goto, Typed, TypeOK
<1>2. \A r : Carriers(r)' \subseteq Carriers(r) \ {req[s].token}
             /\ Exchanging(r)' \subseteq Exchanging(r)
  BY <1>1 DEF Carriers, Exchanging, Typed, TypeOK
<1>3. SessionNeverForks'
  BY <1>2 DEF Chains, SessionNeverForks, Linear
<1>4. LogoutEnds'
  <2>. SUFFICES ASSUME NEW r \in ended'
                PROVE  Carriers(r)' = {} /\ Exchanging(r)' = {}
    BY DEF LogoutEnds
  <2>1. CASE r \in ended
    BY <1>2, <2>1 DEF Chains, LogoutEnds
  <2>2. CASE r \notin ended
    <3>1. req[s].token \in live /\ r = issued[req[s].token].session
      BY <1>1, <2>2
    <3>2. r \in Tokens /\ req[s].token \in Carriers(r)
      BY <3>1 DEF Carriers, Typed, TypeOK, Token
    <3>. QED
      BY <1>2, <3>2 DEF Chains, SessionNeverForks, Linear
  <2>. QED
    BY <2>1, <2>2
<1>. QED
  BY <1>3, <1>4 DEF Chains

LEMMA StepChains == Typed /\ Chains /\ [Next]_vars => Chains'
<1>. SUFFICES ASSUME Typed, Chains, [Next]_vars PROVE Chains'
  OBVIOUS
<1>1. ASSUME NEW s \in Slots, Handle(s) PROVE Chains'
  <2>1. CASE CheckName(s) \/ Enroll(s) \/ LookUp(s) \/ Discard(s)
                \/ Answer(s) \/ Refuse(s) \/ Fail(s)
    <3>1. /\ live' \subseteq live /\ issued' = issued /\ ended' = ended
          /\ \E step \in {"enroll", "idle", "discard", "rotate"} : Goto(s, step)
      BY <2>1 DEF CheckName, Enroll, LookUp, Discard, Answer, Refuse, Fail
    <3>. QED
      BY <3>1, ChainsShrink DEF Goto, Typed, TypeOK
  <2>2. CASE CheckPassword(s)
    <3>1. req[s].token = None
      BY <2>2 DEF CheckPassword, Typed, RequestsFit, Running
    <3>. QED
      BY <2>2, <3>1, ChainsShrink DEF CheckPassword, Goto, Typed, TypeOK
  <2>. QED
    BY <1>1, <2>1, <2>2, ChainsRotate, ChainsIssue, ChainsForget DEF Handle
<1>2. ASSUME NEW s \in Slots, NEW c \in Clients, Arrive(s, c)
      PROVE  Chains'
  <2>1. PICK step \in {"name", "password", "lookup", "forget"} :
           \E r : Send(s, r, step)
    BY <1>2 DEF Arrive, Register, Login, Refresh, Logout
  <2>. QED
    BY <2>1, ChainsShrink DEF Send, Typed, TypeOK
<1>3. CASE Tick \/ UNCHANGED vars
  BY <1>3, ChainsShrink DEF Tick, vars
<1>. QED
  BY <1>1, <1>2, <1>3 DEF Next

-----------------------------------------------------------------------------
(* Clients that send one request at a time.                                *)

LEMMA HandleAlone ==
    ASSUME Typed, OneAtATime, NEW s \in Slots, Handle(s)
    PROVE  OneAtATime'
<1>1. /\ smooth' \subseteq smooth
      /\ \A q \in Slots \ {s} : pc'[q] = pc[q] /\ req'[q] = req[q]
  BY DEF Handle, CheckName, Enroll, CheckPassword, LookUp, Discard, Rotate,
         Issue, Answer, Forget, Refuse, Fail, Goto, Typed, TypeOK
<1>2. Running(s)' => Running(s) /\ req'[s].client = req[s].client
  <2>1. CASE Issue(s)
    BY <2>1 DEF Issue, Running, WithToken, Typed, TypeOK
  <2>2. CASE ~Issue(s)
    BY <2>2 DEF Handle, CheckName, Enroll, CheckPassword, LookUp, Discard,
                Rotate, Answer, Forget, Refuse, Fail, Goto, Running, Typed,
                TypeOK
  <2>. QED
    BY <2>1, <2>2
<1>. QED
  BY <1>1, <1>2 DEF OneAtATime, Running

LEMMA ArriveAlone ==
    ASSUME Typed, OneAtATime, NEW s \in Slots, NEW c \in Clients, Arrive(s, c)
    PROVE  OneAtATime'
<1>1. PICK step \in Steps : \E r : r.client = c /\ Send(s, r, step)
  BY DEF Arrive, Register, Login, Refresh, Logout, WithPassword, WithToken,
         Steps
<1>2. /\ ~Running(s) /\ req'[s].client = c
      /\ \A q \in Slots \ {s} : pc'[q] = pc[q] /\ req'[q] = req[q]
      /\ smooth' \subseteq smooth
      /\ c \in smooth' => ~\E q \in Slots : Running(q) /\ req[q].client = c
  BY <1>1 DEF Send, Typed, TypeOK
<1>. QED
  BY <1>2 DEF OneAtATime, Running

LEMMA StepAlone == Typed /\ OneAtATime /\ [Next]_vars => OneAtATime'
<1>. SUFFICES ASSUME Typed, OneAtATime, [Next]_vars PROVE OneAtATime'
  OBVIOUS
<1>1. CASE Tick \/ UNCHANGED vars
  BY <1>1 DEF Tick, vars, OneAtATime, Running
<1>. QED
  BY <1>1, HandleAlone, ArriveAlone DEF Next

\* No other handler takes the row of a token of client c.
LEMMA RowMine ==
    ASSUME Typed, NEW s \in Slots, Running(s), NEW t \in Tokens,
           issued[t] # None, issued[t].client # req[s].client
    PROVE  t # req[s].token
BY NoneAssumption DEF Typed, RequestsFit

LEMMA HandleStands ==
    ASSUME Typed, OneAtATime, TokenStands, NEW s \in Slots, Handle(s)
    PROVE  TokenStands'
<1>. USE NoneAssumption
<1>1. Running(s) /\ req[s] \in Request
  BY DEF Handle, CheckName, Enroll, CheckPassword, LookUp, Discard, Rotate,
         Issue, Answer, Forget, Refuse, Fail, Running, Typed, RequestsFit
<1>2. now' = now /\ smooth' \subseteq smooth
      /\ \A q \in Slots \ {s} : pc'[q] = pc[q] /\ req'[q] = req[q]
  BY DEF Handle, CheckName, Enroll, CheckPassword, LookUp, Discard, Rotate,
         Issue, Answer, Forget, Refuse, Fail, Goto, Typed, TypeOK
<1>3. \A t \in Tokens : issued[t] # None =>
         issued'[t] = issued[t] /\ Expired(t)' = Expired(t)
  BY <1>2 DEF Handle, CheckName, Enroll, CheckPassword, LookUp, Discard,
         Rotate, Issue, Answer, Forget, Refuse, Fail, Expired, Typed, TypeOK
<1>4. \A t \in live : t = req[s].token \/ t \in live'
  BY DEF Handle, CheckName, Enroll, CheckPassword, LookUp, Discard, Rotate,
         Issue, Answer, Forget, Refuse, Fail
<1>5. \A q \in Slots : pc'[q] = "answer" /\ req'[q].client \in smooth' =>
         req'[q].token \in live'
  <2>. SUFFICES ASSUME NEW q \in Slots, pc'[q] = "answer",
                       req'[q].client \in smooth'
                PROVE  req'[q].token \in live'
    OBVIOUS
  <2>1. CASE q # s
    <3>1. Running(q) /\ req[q].token \in live /\ req[q].client \in smooth
      BY <1>2, <2>1 DEF TokenStands, Running
    <3>2. req[q].client # req[s].client
      BY <1>1, <2>1, <3>1 DEF OneAtATime, Typed, TypeOK
    <3>3. req[q].token # req[s].token
      BY <1>1, <3>1, <3>2, RowMine DEF Typed, TypeOK, RequestsFit
    <3>. QED
      BY <1>2, <1>4, <2>1, <3>1, <3>3
  <2>2. CASE q = s
    <3>1. Issue(s)
      BY <2>2 DEF Handle, CheckName, Enroll, CheckPassword, LookUp, Discard,
                  Rotate, Answer, Forget, Refuse, Fail, Goto, Typed, TypeOK
    <3>. QED
      BY <2>2, <3>1 DEF Issue, WithToken, Typed, TypeOK
  <2>. QED
    BY <2>1, <2>2
<1>6. \A q \in Slots : pc'[q] = "discard" => Expired(req[q].token)
                                            /\ req'[q] = req[q]
  <2>1. ASSUME NEW q \in Slots, pc'[q] = "discard", q # s
        PROVE  Expired(req[q].token) /\ req'[q] = req[q]
    BY <1>2, <2>1 DEF TokenStands
  <2>2. ASSUME pc'[s] = "discard"
        PROVE  Expired(req[s].token) /\ req'[s] = req[s]
    <3>1. LookUp(s)
      BY <2>2 DEF Handle, CheckName, Enroll, CheckPassword, Discard, Rotate,
                  Issue, Answer, Forget, Refuse, Fail, Goto, Typed, TypeOK
    <3>2. pc'[s] = IF Expired(req[s].token) THEN "discard" ELSE "rotate"
      BY <3>1 DEF LookUp, Goto, Typed, TypeOK
    <3>3. Expired(req[s].token)
      BY <2>2, <3>2
    <3>. QED
      BY <3>1, <3>3 DEF LookUp, Goto
  <2>. QED
    BY <2>1, <2>2
<1>7. \A q \in Slots :
         pc'[q] = "discard" => issued'[req'[q].token].expires < now'
  <2>. SUFFICES ASSUME NEW q \in Slots, pc'[q] = "discard"
                PROVE  issued'[req'[q].token].expires < now'
    OBVIOUS
  <2>1. pc[q] \in {"lookup", "discard"}
    BY <1>2 DEF Handle, CheckName, Enroll, CheckPassword, LookUp, Discard,
                Rotate, Issue, Answer, Forget, Refuse, Fail, Goto, Typed,
                TypeOK
  <2>2. req[q].token \in Tokens /\ issued[req[q].token] # None
    BY <2>1 DEF Typed, RequestsFit, Running
  <2>. QED
    BY <1>2, <1>3, <1>6, <2>2 DEF Expired
<1>8. \A c \in smooth' :
         held'[c] # None /\ ~(issued'[held'[c]].expires < now') =>
         held'[c] \in live' \/ Renewing(c)' # {}
  <2>. SUFFICES ASSUME NEW c \in smooth', held'[c] # None,
                       ~(issued'[held'[c]].expires < now')
                PROVE  held'[c] \in live' \/ Renewing(c)' # {}
    OBVIOUS
  <2>1. c \in Clients /\ c \in smooth
    BY <1>2 DEF Typed, TypeOK
  <2>2. CASE req[s].client # c
    <3>1. held'[c] = held[c]
      BY <2>1, <2>2 DEF Handle, CheckName, Enroll, CheckPassword, LookUp,
            Discard, Rotate, Issue, Answer, Forget, Refuse, Fail, Typed, TypeOK
    <3>2. held[c] \in Tokens /\ issued[held[c]] # None
          /\ issued[held[c]].client = c
      BY <2>1, <3>1 DEF Typed, TypeOK, HeldMine
    <3>3. ~Expired(held[c]) /\ held[c] # req[s].token
      BY <1>1, <1>2, <1>3, <2>2, <3>1, <3>2, RowMine DEF Expired
    <3>4. Renewing(c) \subseteq Renewing(c)'
      BY <1>2, <2>2 DEF Renewing, Running
    <3>. QED
      BY <1>4, <2>1, <3>1, <3>3, <3>4 DEF TokenStands
  <2>3. CASE req[s].client = c
    <3>1. \A q \in Slots : Running(q) /\ req[q].client = c => q = s
      BY <1>1, <2>1, <2>3 DEF OneAtATime
    <3>2. Renewing(c) # {} => pc[s] \in {"issue", "answer"}
      BY <3>1 DEF Renewing
    <3>3. CASE Rotate(s) \/ Issue(s)
      BY <1>1, <2>3, <3>3 DEF Rotate, Issue, Goto, WithToken, Renewing,
                              Running, Typed, TypeOK
    <3>4. CASE Answer(s)
      <4>1. held'[c] = req[s].token /\ live' = live /\ pc[s] = "answer"
        BY <2>1, <2>3, <3>4 DEF Answer, Typed, TypeOK
      <4>. QED
        BY <2>1, <2>3, <4>1 DEF TokenStands
    <3>5. CASE Fail(s)
      BY <2>3, <3>5 DEF Fail
    <3>6. CASE \/ CheckName(s) \/ Enroll(s) \/ CheckPassword(s)
               \/ LookUp(s) \/ Discard(s) \/ Forget(s) \/ Refuse(s)
      <4>1. pc[s] \notin {"issue", "answer"}
        BY <3>6 DEF CheckName, Enroll, CheckPassword, LookUp, Discard,
                    Forget, Refuse
      <4>2. held'[c] = held[c] /\ held[c] \in Tokens
            /\ issued[held[c]] # None
        BY <2>1, <3>6 DEF CheckName, Enroll, CheckPassword, LookUp, Discard,
                          Forget, Refuse, Typed, TypeOK, HeldMine
      <4>3. held[c] \in live
        BY <1>2, <1>3, <2>1, <3>2, <4>1, <4>2 DEF TokenStands, Expired
      <4>4. CASE Discard(s)
        <5>1. Expired(req[s].token)
          BY <4>4 DEF Discard, TokenStands
        <5>. QED
          BY <1>2, <1>3, <1>4, <4>2, <4>3, <5>1 DEF Expired
      <4>5. CASE Forget(s)
        <5>1. held[c] # req[s].token
          BY <2>1, <2>3, <4>2, <4>5 DEF Forget, Typed, TypeOK
        <5>. QED
          BY <1>4, <4>2, <4>3, <5>1
      <4>6. CASE ~Discard(s) /\ ~Forget(s)
        BY <3>6, <4>2, <4>3, <4>6 DEF CheckName, Enroll, CheckPassword,
                                      LookUp, Refuse
      <4>. QED
        BY <4>4, <4>5, <4>6
    <3>. QED
      BY <3>3, <3>4, <3>5, <3>6 DEF Handle
  <2>. QED
    BY <2>2, <2>3
<1>. QED
  BY <1>5, <1>7, <1>8 DEF TokenStands, Expired

LEMMA ArriveStands ==
    ASSUME Typed, TokenStands, NEW s \in Slots, NEW c \in Clients,
           Arrive(s, c)
    PROVE  TokenStands'
<1>1. PICK step \in {"name", "password", "lookup", "forget"} :
         \E r : Send(s, r, step)
  BY DEF Arrive, Register, Login, Refresh, Logout
<1>2. /\ ~Running(s) /\ pc'[s] = step
      /\ \A q \in Slots \ {s} : pc'[q] = pc[q] /\ req'[q] = req[q]
      /\ smooth' \subseteq smooth
      /\ UNCHANGED <<now, live, issued, held>>
  BY <1>1 DEF Send, Typed, TypeOK
<1>3. \A d : Renewing(d) \subseteq Renewing(d)'
  BY <1>2 DEF Renewing, Running
<1>. QED
  BY <1>2, <1>3 DEF TokenStands, Expired

LEMMA StepStands ==
    Typed /\ OneAtATime /\ TokenStands /\ [Next]_vars => TokenStands'
<1>. SUFFICES ASSUME Typed, OneAtATime, TokenStands, [Next]_vars
              PROVE  TokenStands'
  OBVIOUS
<1>1. CASE Tick
  <2>1. \A t \in Tokens : issued[t] # None /\ Expired(t) => Expired(t)'
    BY <1>1 DEF Tick, Expired, Typed, TypeOK, Token
  <2>2. \A d : Renewing(d)' = Renewing(d)
    BY <1>1 DEF Tick, Renewing, Running
  <2>3. \A q \in Slots : pc[q] = "discard" =>
           req[q].token \in Tokens /\ issued[req[q].token] # None
    BY NoneAssumption DEF Typed, RequestsFit, Running
  <2>4. \A d \in smooth : held[d] # None =>
           held[d] \in Tokens /\ issued[held[d]] # None
    BY DEF Typed, TypeOK, HeldMine
  <2>. QED
    BY <1>1, <2>1, <2>2, <2>3, <2>4 DEF Tick, TokenStands
<1>2. CASE UNCHANGED vars
  BY <1>2 DEF vars, TokenStands, Renewing, Running, Expired
<1>. QED
  BY <1>1, <1>2, HandleStands, ArriveStands DEF Next

-----------------------------------------------------------------------------

LEMMA SpecIInv == Spec => []IInv
<1>1. IInv /\ [Next]_vars => IInv'
  BY StepTyped, StepChains, StepAlone, StepStands DEF IInv
<1>. QED
  BY <1>1, InitIInv, PTL DEF Spec

\* Tokens have an owner and a session, and so has what a handler works on.
THEOREM TokensTyped == Spec => []TypeOK
<1>1. IInv => TypeOK
  BY DEF IInv, Typed
<1>. QED
  BY <1>1, SpecIInv, PTL

\* However refreshes, logins and logouts overlap, fail and repeat, a session
\* never has two tokens: refresh goes on only if its own delete found a row.
THEOREM NoFork == Spec => []SessionNeverForks
<1>1. IInv => SessionNeverForks
  BY DEF IInv, Chains
<1>. QED
  BY <1>1, SpecIInv, PTL

\* A session is over once a logout has removed its token.
THEOREM LogoutIsFinal == Spec => []LogoutEnds
<1>1. IInv => LogoutEnds
  BY DEF IInv, Chains
<1>. QED
  BY <1>1, SpecIInv, PTL

\* No other client, and no clean-up, takes the token of a client that sends
\* one request at a time and gets its answers.
THEOREM NobodyElseEnds == Spec => []SessionKept
<1>1. IInv => SessionKept
  BY DEF IInv, TokenStands, SessionKept, Renewing
<1>. QED
  BY <1>1, SpecIInv, PTL

-----------------------------------------------------------------------------
(* Tokens are sessions.                                                    *)

IsOpen(r) == Carriers(r) # {} \/ Exchanging(r) # {}

\* While no token is issued, a session changes only by opening or ending.
LEMMA SessionServes ==
    ASSUME issued' = issued, NEW r
    PROVE  SessionOf(r)' = [users |-> SessionOf(r).users, open |-> IsOpen(r)']
<1>1. Chain(r)' = Chain(r)
  BY DEF Chain
<1>2. \A t : issued'[t].user = issued[t].user
  OBVIOUS
<1>3. {issued'[t].user : t \in Chain(r)} = {issued[t].user : t \in Chain(r)}
  BY <1>2
<1>. QED
  BY <1>1, <1>3 DEF SessionOf, IsOpen

LEMMA SessionStays ==
    ASSUME issued' = issued, NEW r, IsOpen(r)' <=> IsOpen(r)
    PROVE  SessionOf(r)' = SessionOf(r)
BY SessionServes DEF SessionOf, IsOpen

\* A step that removes no row and neither begins nor ends an exchange.
LEMMA SessionsStay ==
    ASSUME Typed, UNCHANGED <<live, issued, ended>>,
           \A s \in Slots : pc[s] = "issue" \/ pc'[s] = "issue" =>
               \/ pc'[s] = pc[s] /\ req'[s] = req[s]
               \/ pc[s] # "issue" /\ req'[s].token = None
    PROVE  UNCHANGED <<[r \in Tokens |-> SessionOf(r)], ended>>
<1>1. \A r : Carriers(r)' = Carriers(r) /\ Exchanging(r)' = Exchanging(r)
  BY DEF Carriers, Exchanging
<1>2. \A r \in Tokens : IsOpen(r)' <=> IsOpen(r)
  BY <1>1 DEF IsOpen
<1>3. \A r \in Tokens : SessionOf(r)' = SessionOf(r)
  <2>. SUFFICES ASSUME NEW r \in Tokens PROVE SessionOf(r)' = SessionOf(r)
    OBVIOUS
  <2>1. IsOpen(r)' <=> IsOpen(r)
    BY <1>2
  <2>. QED
    BY <2>1, SessionStays
<1>4. [r \in Tokens |-> SessionOf(r)]' = [r \in Tokens |-> SessionOf(r)]
  BY <1>3
<1>. QED
  BY <1>4

\* A step that takes the one token, or the one exchange, of session r away.
LEMMA SessionEnds ==
    ASSUME NEW r \in Tokens, issued' = issued, IsOpen(r), ~IsOpen(r)',
           \A o \in Tokens \ {r} : IsOpen(o)' <=> IsOpen(o),
           ended' \in {ended, ended \cup {r}}
    PROVE  Service!Next
<1>1. \A o \in Tokens \ {r} : SessionOf(o)' = SessionOf(o)
  BY SessionStays
<1>2. SessionOf(r).open
  BY DEF SessionOf, IsOpen
<1>3. SessionOf(r)' = [users |-> SessionOf(r).users, open |-> FALSE]
  BY SessionServes
<1>4. SessionOf(r)' # SessionOf(r)
  BY <1>2, <1>3
<1>. QED
  BY <1>1, <1>2, <1>3, <1>4 DEF Service!Next, Service!Only, Service!End

\* Removing a row ends its session, if there is the row.
LEMMA RemoveEnds ==
    ASSUME Typed, Chains, NEW t \in Tokens,
           live' = live \ {t}, issued' = issued,
           \/ ended' = ended
           \/ t \in live /\ ended' = ended \cup {issued[t].session},
           t \notin live => ended' = ended,
           \A s \in Slots : pc[s] = "issue" \/ pc'[s] = "issue" =>
               pc'[s] = pc[s] /\ req'[s] = req[s]
    PROVE  \/ Service!Next
           \/ UNCHANGED <<[r \in Tokens |-> SessionOf(r)], ended>>
<1>1. \A r : Exchanging(r)' = Exchanging(r)
  BY DEF Exchanging
<1>2. CASE t \in live
  <2>1. PICK mine \in Tokens : t \in Carriers(mine) /\ mine = issued[t].session
    BY <1>2 DEF Typed, TypeOK, Carriers, Token
  <2>2. Carriers(mine) = {t} /\ Exchanging(mine) = {}
    BY <2>1 DEF Chains, SessionNeverForks, Linear
  <2>3. ~IsOpen(mine)' /\ IsOpen(mine)
    BY <1>1, <2>2 DEF IsOpen, Carriers
  <2>4. \A o \in Tokens \ {mine} : Carriers(o)' = Carriers(o)
    BY <2>1 DEF Carriers
  <2>. QED
    BY <1>1, <2>1, <2>3, <2>4, SessionEnds DEF IsOpen
<1>3. CASE t \notin live
  <2>1. live' = live
    BY <1>3
  <2>. QED
    BY <1>3, <2>1, SessionsStay
<1>. QED
  BY <1>2, <1>3

\* An exchange that fails after its delete ends the session.
LEMMA FailEnds ==
    ASSUME Typed, Chains, NEW s \in Slots, Fail(s)
    PROVE  \/ Service!Next
           \/ UNCHANGED <<[r \in Tokens |-> SessionOf(r)], ended>>
<1>1. /\ UNCHANGED <<live, issued, ended>>
      /\ pc' = [pc EXCEPT ![s] = "idle"]
      /\ \A q \in Slots \ {s} : req'[q] = req[q]
  BY DEF Fail, Goto, Typed, TypeOK
<1>2. CASE pc[s] = "issue" /\ req[s].token # None
  <2>1. PICK mine \in Tokens : mine = issued[req[s].token].session
    BY <1>2 DEF Typed, TypeOK, RequestsFit, Running, Request, Token
  <2>2. s \in Exchanging(mine)
    BY <1>2, <2>1 DEF Exchanging
  <2>3. Exchanging(mine) = {s} /\ Carriers(mine) = {}
    BY <2>2 DEF Chains, SessionNeverForks, Linear
  <2>4. Exchanging(mine)' = {} /\ Carriers(mine)' = {}
    BY <1>1, <2>3 DEF Exchanging, Carriers, Typed, TypeOK
  <2>5. \A o \in Tokens \ {mine} :
           Exchanging(o)' = Exchanging(o) /\ Carriers(o)' = Carriers(o)
    BY <1>1, <2>1 DEF Exchanging, Carriers, Typed, TypeOK
  <2>. QED
    BY <1>1, <2>2, <2>4, <2>5, SessionEnds DEF IsOpen
<1>3. CASE pc[s] # "issue"
  BY <1>1, <1>3, SessionsStay DEF Typed, TypeOK
<1>4. CASE pc[s] = "issue" /\ req[s].token = None
  <2>1. \A r : Carriers(r)' = Carriers(r) /\ Exchanging(r)' = Exchanging(r)
    BY <1>1, <1>4 DEF Carriers, Exchanging, Typed, TypeOK
  <2>2. \A r \in Tokens : SessionOf(r)' = SessionOf(r)
    BY <1>1, <2>1, SessionStays DEF IsOpen
  <2>. QED
    BY <1>1, <2>2
<1>. QED
  BY <1>2, <1>3, <1>4

\* The exchange itself: the session passes from the row to the handler.
LEMMA RotateKeeps ==
    ASSUME Typed, Chains, NEW s \in Slots, Rotate(s)
    PROVE  UNCHANGED <<[r \in Tokens |-> SessionOf(r)], ended>>
<1>1. /\ pc[s] = "rotate" /\ req[s].token \in live
      /\ live' = live \ {req[s].token}
      /\ issued' = issued /\ ended' = ended /\ req' = req
      /\ pc' = [pc EXCEPT ![s] = "issue"]
  BY DEF Rotate, Goto
<1>2. PICK mine \in Tokens :
          req[s].token \in Carriers(mine) /\ mine = issued[req[s].token].session
  BY <1>1 DEF Typed, TypeOK, Carriers, Token
<1>3. s \in Exchanging(mine)'
  BY <1>1, <1>2, NoneAssumption DEF Exchanging, Typed, TypeOK
<1>4. \A o \in Tokens \ {mine} :
         Carriers(o)' = Carriers(o) /\ Exchanging(o)' = Exchanging(o)
  BY <1>1, <1>2 DEF Carriers, Exchanging, Typed, TypeOK
<1>5. \A r \in Tokens : IsOpen(r)' <=> IsOpen(r)
  BY <1>2, <1>3, <1>4 DEF IsOpen
<1>6. \A r \in Tokens : SessionOf(r)' = SessionOf(r)
  BY <1>1, <1>5, SessionStays
<1>. QED
  BY <1>1, <1>6

\* A new token begins the session it names, or carries an open one on for the
\* user it has been serving.
LEMMA IssueBegins ==
    ASSUME Typed, Chains, NEW s \in Slots, Issue(s)
    PROVE  \/ Service!Next
           \/ UNCHANGED <<[r \in Tokens |-> SessionOf(r)], ended>>
<1>. USE NoneAssumption
<1>. PICK t \in Tokens :
        /\ issued[t] = None
        /\ issued' = [issued EXCEPT ![t] = Issued(s, t)]
        /\ live' = live \cup {t}
        /\ req' = [req EXCEPT ![s] = WithToken(req[s].client, t)]
  BY DEF Issue
<1>1. /\ pc[s] = "issue" /\ pc' = [pc EXCEPT ![s] = "answer"]
      /\ ended' = ended
      /\ \A q \in Slots \ {s} : req'[q] = req[q]
  BY DEF Issue, Typed, TypeOK
<1>2. \A q \in Slots : Running(q) /\ req[q].token # None =>
         req[q].token \in Tokens \ {t} /\ issued[req[q].token] # None
  BY DEF Typed, TypeOK, RequestsFit, Request
<1>. PICK mine \in Tokens :
        mine = IF req[s].token = None THEN t ELSE issued[req[s].token].session
  BY <1>1, <1>2 DEF Typed, TypeOK, Running, Token
<1>. DEFINE u == IF req[s].token = None THEN req[s].user
                 ELSE issued[req[s].token].user
<1>3. /\ issued'[t].session = mine /\ issued'[t].user = u
      /\ issued'[t] # None
      /\ \A o \in Tokens \ {t} : issued'[o] = issued[o]
  <2>1. Typed'
    BY IssueTyped
  <2>2. issued'[t] = Issued(s, t)
    BY DEF Typed, TypeOK
  <2>3. t \in live'
    OBVIOUS
  <2>. QED
    BY <2>1, <2>2, <2>3 DEF Issued, Typed, TypeOK
<1>4. \A o \in Tokens \ {mine} :
         /\ Chain(o)' = Chain(o)
         /\ Carriers(o)' = Carriers(o)
         /\ Exchanging(o)' = Exchanging(o)
  BY <1>1, <1>2, <1>3 DEF Chain, Carriers, Exchanging, Running, Typed, TypeOK
<1>5. \A o \in Tokens \ {mine} : SessionOf(o)' = SessionOf(o)
  <2>. SUFFICES ASSUME NEW o \in Tokens \ {mine}
                PROVE  SessionOf(o)' = SessionOf(o)
    OBVIOUS
  <2>1. t \notin Chain(o)
    BY DEF Chain
  <2>2. \A x \in Chain(o) : issued'[x].user = issued[x].user
    BY <1>3, <2>1 DEF Chain
  <2>3. {issued'[x].user : x \in Chain(o)} = {issued[x].user : x \in Chain(o)}
    BY <2>2
  <2>. QED
    BY <1>4, <2>3 DEF SessionOf
<1>6. Chain(mine)' = Chain(mine) \cup {t} /\ t \notin Chain(mine)
  BY <1>3 DEF Chain, Typed, TypeOK
<1>7. t \in Carriers(mine)'
  BY <1>3 DEF Carriers
<1>8. CASE req[s].token = None
  <2>1. mine = t /\ u = req[s].user /\ u \in Users
    BY <1>1, <1>8 DEF Typed, RequestsFit, Running
  <2>2. \A o \in Tokens : issued[o] # None => issued[o].session # t
    BY DEF Typed, SessionsIssued
  <2>3. Chain(t) = {}
    BY <2>2 DEF Chain
  <2>4. SessionOf(t)' = [users |-> {u}, open |-> TRUE]
    <3>1. Chain(t)' = {t}
      BY <1>6, <2>1, <2>3
    <3>2. {issued'[x].user : x \in {t}} = {u}
      BY <1>3
    <3>. QED
      BY <1>7, <2>1, <3>1, <3>2 DEF SessionOf
  <2>5. SessionOf(t).users = {}
    BY <2>3 DEF SessionOf
  <2>6. SessionOf(t)' # SessionOf(t)
    BY <2>4, <2>5
  <2>. QED
    BY <1>1, <1>5, <2>1, <2>4, <2>5, <2>6
       DEF Service!Next, Service!Only, Service!Begin
<1>9. CASE req[s].token # None
  <2>1. req[s].token \in Chain(mine) /\ u = issued[req[s].token].user
    BY <1>1, <1>2, <1>9 DEF Chain, Running
  <2>2. s \in Exchanging(mine)
    BY <1>1, <1>9 DEF Exchanging
  <2>3. {issued'[x].user : x \in Chain(mine) \cup {t}}
           = {issued[x].user : x \in Chain(mine)}
    BY <1>3, <1>6, <2>1 DEF Chain
  <2>4. SessionOf(mine)' = SessionOf(mine)
    BY <1>6, <1>7, <2>2, <2>3 DEF SessionOf
  <2>. QED
    BY <1>1, <1>5, <2>4
<1>. QED
  BY <1>8, <1>9

\* The refresh tokens are sessions: whatever overlaps, fails and is repeated,
\* a session serves one user, begins with a login, and ends once, by a logout,
\* an exchange that fails half way or a clean-up, and with nothing else.
THEOREM TokensAreSessions == Spec => ImplementsSessions
<1>1. Init => Service!Init
  <2>. SUFFICES ASSUME Init PROVE Service!Init
    OBVIOUS
  <2>1. \A r \in Tokens :
           Chain(r) = {} /\ Carriers(r) = {} /\ Exchanging(r) = {}
    BY DEF Init, Chain, Carriers, Exchanging
  <2>2. \A r \in Tokens : SessionOf(r) = [users |-> {}, open |-> FALSE]
    BY <2>1 DEF SessionOf
  <2>. QED
    BY <2>2 DEF Init, Service!Init
<1>2. IInv /\ [Next]_vars =>
         [Service!Next]_<<[r \in Tokens |-> SessionOf(r)], ended>>
  <2>. SUFFICES ASSUME Typed, Chains, [Next]_vars
                PROVE  \/ Service!Next
                       \/ UNCHANGED <<[r \in Tokens |-> SessionOf(r)], ended>>
    BY DEF IInv
  <2>1. ASSUME NEW s \in Slots,
               CheckName(s) \/ Enroll(s) \/ LookUp(s) \/ Answer(s) \/ Refuse(s)
        PROVE  UNCHANGED <<[r \in Tokens |-> SessionOf(r)], ended>>
    <3>1. /\ UNCHANGED <<live, issued, ended>> /\ pc[s] # "issue"
          /\ \E step \in {"enroll", "idle", "discard", "rotate"} : Goto(s, step)
      BY <2>1 DEF CheckName, Enroll, LookUp, Answer, Refuse
    <3>. QED
      BY <3>1, SessionsStay DEF Goto, Typed, TypeOK
  <2>2. ASSUME NEW s \in Slots, CheckPassword(s)
        PROVE  UNCHANGED <<[r \in Tokens |-> SessionOf(r)], ended>>
    <3>1. req[s].token = None
      BY <2>2 DEF CheckPassword, Typed, RequestsFit, Running
    <3>. QED
      BY <2>2, <3>1, SessionsStay DEF CheckPassword, Goto, Typed, TypeOK
  <2>3. ASSUME NEW s \in Slots, Discard(s) \/ Forget(s)
        PROVE  \/ Service!Next
               \/ UNCHANGED <<[r \in Tokens |-> SessionOf(r)], ended>>
    <3>. PICK t \in Tokens : t = req[s].token
      BY <2>3 DEF Discard, Forget, Typed, RequestsFit, Running
    <3>1. live' = live \ {t} /\ issued' = issued
      BY <2>3 DEF Discard, Forget
    <3>2. /\ \/ ended' = ended
             \/ t \in live /\ ended' = ended \cup {issued[t].session}
          /\ t \notin live => ended' = ended
      BY <2>3 DEF Discard, Forget
    <3>3. \A q \in Slots : pc[q] = "issue" \/ pc'[q] = "issue" =>
             pc'[q] = pc[q] /\ req'[q] = req[q]
      BY <2>3 DEF Discard, Forget, Goto, Typed, TypeOK
    <3>. QED
      BY <3>1, <3>2, <3>3, RemoveEnds
  <2>4. ASSUME NEW s \in Slots, NEW c \in Clients, Arrive(s, c)
        PROVE  UNCHANGED <<[r \in Tokens |-> SessionOf(r)], ended>>
    <3>1. PICK step \in {"name", "password", "lookup", "forget"} :
             \E r : Send(s, r, step)
      BY <2>4 DEF Arrive, Register, Login, Refresh, Logout
    <3>. QED
      BY <3>1, SessionsStay DEF Send, Running, Typed, TypeOK
  <2>5. CASE Tick \/ UNCHANGED vars
    BY <2>5, SessionsStay DEF Tick, vars
  <2>. QED
    BY <2>1, <2>2, <2>3, <2>4, <2>5, RotateKeeps, IssueBegins, FailEnds
       DEF Next, Handle
<1>. QED
  BY <1>1, <1>2, SpecIInv, PTL DEF Spec, ImplementsSessions, Service!Spec
=============================================================================

------------------------------ MODULE MCAuth ------------------------------
(***************************************************************************)
(* Two clients of one account, two requests at a time and three tokens:    *)
(* a login on both, or one session of a login and two exchanges.           *)
(***************************************************************************)
EXTENDS AuthTokens, TLC

Symmetric == Permutations(Slots) \cup Permutations(Clients)
                \cup Permutations(Passwords) \cup Permutations(Tokens)
=============================================================================

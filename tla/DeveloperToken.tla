---------------------------- MODULE DeveloperToken ----------------------------
(***************************************************************************)
(* The developer token that calls of the device definitions API carry      *)
(* (internal/service/dimo_auth.go).  One token is kept; GetToken hands it  *)
(* out while it is valid and otherwise gets a new one, in two calls of the *)
(* auth server, with the mutex held all the while.                         *)
(***************************************************************************)
EXTENDS Naturals

CONSTANTS Lifetime   \* ticks until a new token expires

ASSUME LifetimeAssumption == Lifetime \in Nat

VARIABLES
  token,      \* the token kept, and the ticks until it expires
  renewing    \* who is in getNewToken, with the mutex

tokenVars == <<token, renewing>>

Token   == [kept : BOOLEAN, left : 0..Lifetime]
NoToken == [kept |-> FALSE, left |-> 0]
Fresh   == [kept |-> TRUE, left |-> Lifetime]

TokenInit == token = NoToken /\ renewing = {}

\* validateCurrentToken: a token that has expired is dropped.
Valid(t) == t.kept /\ t.left > 0

\* GetToken has the mutex and finds a valid token.
UseToken(c) ==
  /\ renewing = {}
  /\ Valid(token)
  /\ UNCHANGED tokenVars

\* GetToken has the mutex and must get a new token.
BeginRenewalUnlocked(c) ==                                         \* mutant
  /\ ~Valid(token)
  /\ token' = NoToken
  /\ renewing' = renewing \cup {c}

BeginRenewal(c) ==
  /\ renewing = {}
  /\ ~Valid(token)
  /\ token' = NoToken
  /\ renewing' = {c}

\* The challenge was signed and accepted, or one of the calls failed.
EndRenewal(c, new) ==
  /\ c \in renewing
  /\ new \in {Fresh, NoToken}
  /\ token' = new
  /\ renewing' = renewing \ {c}

\* Time passes.
Older(n) == IF n = 0 THEN 0 ELSE n - 1

TokenTick == token' = [token EXCEPT !.left = Older(@)] /\ UNCHANGED renewing
=============================================================================

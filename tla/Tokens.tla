------------------------------- MODULE Tokens -------------------------------
(***************************************************************************)
(* tokens.py: the owner's login token and the signed session cookie.  The  *)
(* secret that signs and the hash of the token come from one env file,     *)
(* generated together, so that one number stands for both and for the      *)
(* token itself.  A MAC under another secret never matches.                *)
(***************************************************************************)
EXTENDS Naturals

CONSTANTS
    Ttl,    \* DEFAULT_TTL: how long a cookie is valid
    None    \* no cookie, no token

ASSUME TtlAssumption == Ttl \in Nat \ {0}
ASSUME NoneAssumption == None \notin [secret : Nat, exp : Nat]

\* Only the hash is stored; a token is right when it hashes to the same.
VerifyToken(token, secret) == token = secret

SignCookie(secret, now) == [secret |-> secret, exp |-> now + Ttl]

\* Mutant: the clock is compared before the secret and decides alone.
VerifyCookie_AnySecret(secret, cookie, now) ==
    cookie # None /\ ~(cookie.exp <= now)

\* Mutant: a cookie dies a unit of time too early.
VerifyCookie_Early(secret, cookie, now) ==
    cookie # None /\ cookie.secret = secret /\ ~(cookie.exp <= now + 1)

\* An intact, unexpired cookie of this secret.
VerifyCookie(secret, cookie, now) ==
    cookie # None /\ cookie.secret = secret /\ ~(cookie.exp <= now)
=============================================================================

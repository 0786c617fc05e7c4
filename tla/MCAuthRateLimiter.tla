-------------------------- MODULE MCAuthRateLimiter --------------------------
(***************************************************************************)
(* A small instance of AuthRateLimiter for TLC: one operation, requests    *)
(* for one account from either of two addresses, and from one of them for  *)
(* no account (a body without an email).                                   *)
(***************************************************************************)
EXTENDS AuthRateLimiter

CONSTANTS home, away, account

MCRequests == {{home}, {home, account}, {away, account}}
MCLimit    == [k \in Keys |-> IF k = account THEN 2 ELSE 1]
MCWindow   == [k \in Keys |-> IF k = account THEN 3 ELSE 1]
=============================================================================

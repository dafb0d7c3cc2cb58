---------------------------- MODULE MCAuthSessions ----------------------------
(* One user, one platform, three refresh tokens. *)
EXTENDS AuthSessions, TLC

CONSTANTS t1, t2, t3, none, r1

TokenSymmetry == Permutations(Tokens)
===============================================================================

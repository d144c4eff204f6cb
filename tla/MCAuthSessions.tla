---------------------------- MODULE MCAuthSessions ----------------------------
(* AuthSessions for TLC: two handlers, one user name. *)
EXTENDS AuthSessions

CONSTANTS h1, h2, alice

MCHandlers == {h1, h2}
MCNames == {alice}
===============================================================================

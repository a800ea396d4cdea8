------------------------------ MODULE MCArena ------------------------------
(* Arena with blocks of three words, requests that fill most of a block or
   need one of their own, and an interner that starts with two slots in which
   all strings collide, and grows to eight. *)
EXTENDS Arena, TLC

CONSTANTS foo, bar, baz

MCWords == (foo :> 1) @@ (bar :> 2) @@ (baz :> 1)

MCHash == (foo :> 0) @@ (bar :> 8) @@ (baz :> 2) @@ (Data :> 1)
=============================================================================

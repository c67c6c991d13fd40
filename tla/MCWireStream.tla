---------------------------- MODULE MCWireStream ----------------------------
(***************************************************************************)
(* WireStream for TLC.                                                     *)
(***************************************************************************)
EXTENDS WireStream

\* No text, a short one, and one whose length overflows when Base = 3.
MCText == {<<>>, <<1>>, [k \in 1 .. 9 |-> k % 2]}
=============================================================================

----------------------------- MODULE MCWidening -----------------------------
(* Instances of Widening small enough for TLC. *)
EXTENDS Widening

CONSTANTS openid, read, write

\* A server that begins with one scope and gains another.
TwoLists == {{openid, read}, {openid, read, write}}

=============================================================================

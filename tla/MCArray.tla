------------------------------ MODULE MCArray -------------------------------
(* Three cells and puts of up to four bytes: a put can wrap, fill the      *)
(* buffer, or need more than there is, in every position of the buffer.    *)
EXTENDS SLSArray
=============================================================================

--------------------------- MODULE MCOutputStream ---------------------------
(* A small instance of module OutputStream for TLC.                           *)
EXTENDS OutputStream, TLC
=============================================================================

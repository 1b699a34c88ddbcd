------------------------------ MODULE MCWindow ------------------------------
(* Window on small instances, for Window.cfg and WindowResurrection.cfg. *)
EXTENDS Window, TLC
=============================================================================

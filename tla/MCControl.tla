----------------------------- MODULE MCControl -----------------------------
(* Model checking of Control.                                               *)
EXTENDS Control
=============================================================================

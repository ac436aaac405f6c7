----------------------------- MODULE MCStartup -----------------------------
(* Model checking of Startup with the delays of the program, in seconds.    *)
EXTENDS Startup
=============================================================================

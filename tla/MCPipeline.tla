----------------------------- MODULE MCPipeline -----------------------------
(* Model checking of Pipeline: small channels that fill up, two sessions.   *)
EXTENDS Pipeline
=============================================================================

----------------------------- MODULE MCEventLoop -----------------------------
(* Model-checking instance of EventLoop; see the README for the bounds.    *)
EXTENDS EventLoop
=============================================================================

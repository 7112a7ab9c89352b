-------------------------- MODULE MC_CircuitBreaker --------------------------
(* Instances of CircuitBreaker for TLC.                                    *)
EXTENDS CircuitBreaker
=============================================================================

------------------------------ MODULE MCBank ------------------------------
(***************************************************************************)
(* An instance of Bank for TLC: three tellers and four seconds.  The queue *)
(* is scaled down so that a run is long enough to reach the realloc and    *)
(* the accesses that follow it.                                            *)
(***************************************************************************)
EXTENDS Bank

=============================================================================

------------------------------ MODULE MCShell ------------------------------
(***************************************************************************)
(* Instances of Shell for TLC.  Two processes suffice for a foreground job *)
(* beside a background job, three also for more jobs than slots.           *)
(***************************************************************************)
EXTENDS Shell

TwoPids == 1 .. 2
ThreePids == 1 .. 3

=============================================================================

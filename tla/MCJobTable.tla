---------------------------- MODULE MCJobTable ----------------------------
(***************************************************************************)
(* An instance of JobTable for TLC.  Job IDs grow past MAXJOBS, because    *)
(* deletejob restarts them above the largest one: JidBound ends the run.   *)
(***************************************************************************)
EXTENDS JobTable

CONSTANT JidBound

FourPids == 1 .. 4

JidsBounded == nextjid <= JidBound

=============================================================================

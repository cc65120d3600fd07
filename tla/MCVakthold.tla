----------------------------- MODULE MCVakthold -----------------------------
(***************************************************************************)
(* Constants of the watchdog's run: one input of each kind the code treats *)
(* in its own way.  The power inputs are treated as the energy input is,   *)
(* without the frozen clock.                                               *)
(***************************************************************************)
EXTENDS Vakthold

=============================================================================

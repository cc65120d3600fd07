---------------------------- MODULE MCUtgivelse ----------------------------
(***************************************************************************)
(* Constants of the release flow's run.  Two commits of version 1, since   *)
(* the main branch moves on with the same version, the second on a branch  *)
(* until it is pushed, and one of version 2 and of the test version 0, the *)
(* last on a branch.                                                       *)
(***************************************************************************)
EXTENDS Utgivelse, TLC

CONSTANTS c1, c2, c3, p1

MCInnhold == (c1 :> "t1") @@ (c2 :> "t2") @@ (c3 :> "t2") @@ (p1 :> "t1")
MCVersjonAv == (c1 :> 1) @@ (c2 :> 1) @@ (c3 :> 2) @@ (p1 :> 0)

=============================================================================

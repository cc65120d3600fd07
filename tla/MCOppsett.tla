------------------------------ MODULE MCOppsett ------------------------------
(***************************************************************************)
(* Constants of the run of the setup: an entry of a merged company and one *)
(* of the company that took it over.                                       *)
(***************************************************************************)
EXTENDS Oppsett, TLC

CONSTANTS gammel, ny, e1, e2

MCFusjon == gammel :> ny

\* What the setup dialogue of schema 4 left on e1, of the merged company or of
\* the one that took it over: the rate its company had then.  The owner of e2
\* has chosen a rate of his own.
MCUtgangspunkt ==
  {(e1 :> [versjon |-> 4, dso |-> selskap, modus |-> "catalog", sats |-> selskap, paa |-> TRUE])
   @@ (e2 :> [versjon |-> 5, dso |-> ny, modus |-> "manual", sats |-> ny, paa |-> TRUE])
     : selskap \in {gammel, ny}}

=============================================================================

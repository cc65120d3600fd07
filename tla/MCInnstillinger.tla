--------------------------- MODULE MCInnstillinger ---------------------------
(***************************************************************************)
(* Constants of the run of the settings: a company with rows and a new     *)
(* list, one with seasons, and one that was split and cannot be chosen.    *)
(***************************************************************************)
EXTENDS Innstillinger, TLC

CONSTANTS alut, sesong, delt, r1, r2, e1, e2, p1, p2

MCSikringstrinn == (alut :> {r1, r2}) @@ (sesong :> {}) @@ (delt :> {})

\* e1 comes from before schema 5: of the company that was split, with a rate of its
\* own, or the user's own company with the old label.  e2 is not there yet.
Gammel(c) == [av |-> c, slag |-> "gammel"]
MCDelt ==
  [dso |-> delt, modus |-> "legacy_unconfirmed", sats |-> Gammel(delt), sikring |-> Ingen,
   trinn |-> "ingen", effekt |-> p1, lev |-> FALSE, sjekket |-> FALSE, bekreftet |-> {}]
MCEgen ==
  [dso |-> Egendefinert, modus |-> "manual", sats |-> Gammel(Egendefinert), sikring |-> Ingen,
   trinn |-> "ulesbar", effekt |-> p1, lev |-> TRUE, sjekket |-> FALSE, bekreftet |-> {}]
MCUtgangspunkt == {[e \in Anlegg |-> IF e = e1 THEN d ELSE Ingen] : d \in {MCDelt, MCEgen}}

=============================================================================

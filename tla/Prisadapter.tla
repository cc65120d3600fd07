----------------------------- MODULE Prisadapter -----------------------------
(***************************************************************************)
(* The price adapter of avregning.py on its own: samples are registered in *)
(* any order, months are forgotten, and the routes are written to the      *)
(* Store and read back.  The history variable godkjent holds the accepted  *)
(* samples of the routes that have not been forgotten.                     *)
(***************************************************************************)
EXTENDS Avregning

CONSTANT Priser     \* the prices a sample can carry

ASSUME PrisAssumption == Priser \subseteq Int

VARIABLES
  ruter,      \* Prisadapter._ruter
  godkjent,   \* history: the accepted samples
  lager,      \* the routes in the Store
  lagret      \* history: godkjent at the last save

vars == <<ruter, godkjent, lager, lagret>>

Prover == [polltid : Tikk, verdi : Priser]

Init ==
  /\ ruter = <<>>
  /\ godkjent = {}
  /\ lager = <<>>
  /\ lagret = {}

\* registrer(polltid, verdi), in whatever order the samples are replayed.
Prove(p) ==
  /\ Godtas(p.polltid)
  /\ ruter' = Registrer(ruter, p)
  /\ godkjent' = godkjent \cup {p}
  /\ UNCHANGED <<lager, lagret>>

\* glem_for(start of month m).
Glem(m) ==
  /\ ruter' = GlemFor(ruter, m)
  /\ godkjent' = {p \in godkjent : ManedAv[TimeForRute(Rute(p.polltid))] >= m}
  /\ UNCHANGED <<lager, lagret>>

\* til_lagring(fra hour h): the routes before h are not written.
Lagre(h) ==
  /\ lager' = RuterFra(ruter, h)
  /\ lagret' = {p \in godkjent : TimeForRute(Rute(p.polltid)) >= h}
  /\ UNCHANGED <<ruter, godkjent>>

\* fra_lagring.
Les ==
  /\ ruter' = lager
  /\ godkjent' = lagret
  /\ UNCHANGED <<lager, lagret>>

Next ==
  \/ \E p \in Prover : Prove(p)
  \/ \E m \in Maneder : Glem(m)
  \/ \E h \in Timer : Lagre(h)
  \/ Les

Spec == Init /\ [][Next]_vars

-----------------------------------------------------------------------------
\* r holds the winner among the samples s: one of them, of the route itself,
\* with none newer (nor dearer at the same poll time).
ErSiste(r, prove, s) ==
  /\ prove \in s
  /\ Rute(prove.polltid) = r
  /\ \A q \in s : Rute(q.polltid) = r => ~ Eldre(prove, q)

AvgjortAv(tabell, s) ==
  /\ \A p \in s : Rute(p.polltid) \in DOMAIN tabell
  /\ \A r \in DOMAIN tabell : ErSiste(r, tabell[r], s)

\* A2.1 and the docstring of class Prisadapter: which sample holds a route is
\* decided by the poll times alone, never by the order of the calls, so two
\* replays of the same samples give the same price; and no route holds a
\* sample of another route.  A save and a reload change nothing of this.
RekkefolgeUavhengig ==
  AvgjortAv(ruter, godkjent) /\ AvgjortAv(lager, lagret)

TypeOK ==
  /\ godkjent \subseteq Prover
  /\ lagret \subseteq Prover
  /\ DOMAIN ruter \subseteq Ruter
  /\ DOMAIN lager \subseteq Ruter

=============================================================================

---------------------------- MODULE Avregningsbok ----------------------------
(***************************************************************************)
(* The book of avregning.py as a state machine: the clock advances, price  *)
(* samples and readings arrive, the sums are read, the book is written to  *)
(* the Store and the process stops and starts again from what was written. *)
(* The operations are those of module Avregning; each action is one call.  *)
(*                                                                         *)
(* Three history variables say what the properties compare the book with:    *)
(*   hel       the posts and routes of the active month as a book that     *)
(*             never folded anything away would hold them (til_lagring     *)
(*             without naa writes exactly that)                            *)
(*   regnskap  the energy of every accepted or rejected delta so far       *)
(* Like the book they fall back to the last save on a restart.             *)
(***************************************************************************)
EXTENDS Avregning

CONSTANTS
  Priser,         \* the prices a sample can carry
  Verdier,        \* the values a reading can carry
  Etterslep,      \* bound: how old a reading is when it arrives, in ticks
  MaksStillhet,   \* environment: how long the meter may be silent, in ticks
  MaksOmstarter,  \* bound on restarts
  Startlager      \* what the Store may hold at the start

\* A reading is a number of the model's energy units.
ASSUME VerdiAssumption == Verdier \subseteq Int

ASSUME StartAssumption ==
  /\ Startlager \subseteq {TomtLager, GammeltLager}
  /\ Etterslep \in Nat
  /\ MaksStillhet \in Nat
  /\ MaksOmstarter \in Nat

VARIABLES
  naa,        \* the clock (the code takes it as an argument)
  bok,        \* the Avregningsbok object
  lager,      \* the book's part of the Store file
  kilde,      \* the configured source: a change reloads the entry
  hel,        \* history: the active month in full
  regnskap,   \* history: accepted and rejected energy
  hovedbok,   \* history: the ledger the book stands for, HovedbokAv
  lagret,     \* history: hel, regnskap and the ledger at the last save
  omstarter   \* number of restarts, bounded by MaksOmstarter

vars == <<naa, bok, lager, kilde, hel, regnskap, hovedbok, lagret, omstarter>>

Avlesninger == [kilde : Kilder, tid : Tikk, verdi : Verdier]

\* The ledger a book stands for, whatever hours, prices and caches it holds.
KontoAv(s) == [dag |-> s.sum.dag, natt |-> s.sum.natt, avvist |-> s.avvist]

HovedbokAv(b, mottatt) ==
  [aktiv |-> b.aktiv, aapen |-> KontoAv(Maanedssum(b)),
   lukket |-> [m \in DOMAIN b.arkiv |-> KontoAv(b.arkiv[m])],
   mottatt |-> mottatt]

TomHel == [poster |-> <<>>, ruter |-> <<>>]

\* The model's energy unit makes every share of a split whole.
Delelig(a) ==
  LET delta == IF a.kilde \in Estimerte THEN a.verdi ELSE a.verdi - bok.sist.verdi
      lengde == a.tid - bok.sist.tid
  IN  bok.sist # Ingen /\ lengde > 0 /\ delta > 0 =>
        \A h \in Time(bok.sist.tid) .. Time(a.tid - 1) :
              (delta * Overlapp(h, bok.sist.tid, a.tid)) % lengde = 0

-----------------------------------------------------------------------------
Init ==
  /\ naa = 0
  /\ lager \in Startlager
  /\ bok = FraLagring(lager)
  /\ kilde \in Kilder
  /\ hel = TomHel
  /\ regnskap = 0
  /\ hovedbok = HovedbokAv(bok, regnskap)
  /\ lagret = [hel |-> hel, regnskap |-> regnskap, hovedbok |-> hovedbok]
  /\ omstarter = 0

\* Time passes.  The meter stays silent for at most MaksStillhet ticks.
Klokke ==
  /\ naa + 1 \in Tikk
  /\ bok.sist # Ingen => naa + 1 - bok.sist.tid <= MaksStillhet
  /\ naa' = naa + 1
  /\ UNCHANGED <<bok, lager, kilde, hel, regnskap, hovedbok, lagret, omstarter>>

\* A poll reads the spot price: registrer_prisprove(naa, verdi).
Prisprove(verdi) ==
  LET p == [polltid |-> naa, verdi |-> verdi]
  IN  /\ bok' = RegistrerPrisprove(bok, p)
      /\ hel' = IF Godtas(naa) THEN [hel EXCEPT !.ruter = Registrer(@, p)] ELSE hel
      /\ UNCHANGED <<naa, lager, kilde, regnskap, lagret, omstarter>>
      /\ hovedbok' = HovedbokAv(bok', regnskap')

\* The posts of the month the book keeps after an answer, with nothing folded:
\* a month that was opened by this reading starts from nothing.
HeleMaaneden(svar) ==
  LET forrige == IF svar.bok.aktiv = bok.aktiv THEN hel.poster ELSE <<>>
      ny == {h \in DOMAIN svar.fordeling : ManedAv[h] = svar.bok.aktiv}
      ruter == IF bok.aktiv # Ingen /\ svar.bok.aktiv # bok.aktiv
               THEN GlemFor(hel.ruter, svar.bok.aktiv) ELSE hel.ruter
  IN  [poster |-> [h \in DOMAIN forrige \cup ny |->
                     (IF h \in DOMAIN forrige THEN forrige[h] ELSE 0)
                     + (IF h \in ny THEN svar.fordeling[h] ELSE 0)],
       ruter |-> ruter]

\* The energy a reading stands for when it is neither a baseline, a repeat nor
\* a step backwards: what the meter has counted since the last one.
Tellt(a, svar) ==
  IF svar.utfall \in {"bokfort", "avvist_arkivert", "avvist_sprang"}
  THEN IF a.kilde \in Estimerte THEN a.verdi ELSE a.verdi - bok.sist.verdi
  ELSE 0

\* A reading arrives: bokfor(a).
Avles(a) ==
  LET svar == Bokfor(bok, a)
  IN  /\ a.kilde = kilde
      /\ a.tid <= naa
      /\ naa - a.tid <= Etterslep
      /\ Delelig(a)
      /\ bok' = svar.bok
      /\ hel' = HeleMaaneden(svar)
      /\ regnskap' = regnskap + Tellt(a, svar)
      /\ UNCHANGED <<naa, lager, kilde, lagret, omstarter>>
      /\ hovedbok' = HovedbokAv(bok', regnskap')

\* The coordinator asks for the month's sums.
LesSummer ==
  /\ bok.skitne # {}
  /\ bok' = Oppdater(bok)
  /\ UNCHANGED <<naa, lager, kilde, hel, regnskap, lagret, omstarter>>
  /\ hovedbok' = HovedbokAv(bok', regnskap')

\* The Store is written.  til_lagring refreshes the sums on the way.  A save
\* that no restart of the model can follow is left out: it only refreshes sums.
Lagre ==
  /\ omstarter < MaksOmstarter
  /\ bok.sist # Ingen => naa - bok.sist.tid <= MaksStillhet
  /\ bok' = Oppdater(bok)
  /\ lager' = TilLagring(bok, naa)
  /\ lagret' = [hel |-> hel, regnskap |-> regnskap,
                 hovedbok |-> hovedbok]
  /\ UNCHANGED <<naa, kilde, hel, regnskap, omstarter>>
  /\ hovedbok' = HovedbokAv(bok', regnskap')

\* The process dies, or is stopped, and starts from what was written; the
\* energy source may have been reconfigured meanwhile.
Omstart ==
  /\ omstarter < MaksOmstarter
  /\ omstarter' = omstarter + 1
  /\ bok' = FraLagring(lager)
  /\ kilde' \in Kilder
  /\ hel' = lagret.hel
  /\ regnskap' = lagret.regnskap
  /\ UNCHANGED <<naa, lager, lagret>>
  /\ hovedbok' = HovedbokAv(bok', regnskap')

Next ==
  \/ Klokke
  \/ \E verdi \in Priser : Prisprove(verdi)
  \/ \E a \in Avlesninger : Avles(a)
  \/ LesSummer
  \/ Lagre
  \/ Omstart

Spec == Init /\ [][Next]_vars

-----------------------------------------------------------------------------
(***************************************************************************)
(* Properties.                                                             *)
(***************************************************************************)
TypeOK ==
  /\ naa \in Tikk
  /\ StrukturOK(bok)
  /\ bok.sist \in Avlesninger \cup {Ingen}
  /\ kilde \in Kilder
  /\ omstarter \in 0 .. MaksOmstarter

\* No stale read and no forgotten refresh (the two predicates are stated with
\* the operators in Avregning): what _bygg serves and what maanedssum adds up
\* is what the posts, the routes and the flag give now.
CacheErFersk == CacheFersk(bok) /\ BidragFersk(bok)

\* C2.7, restart equality: the sums the book reports for its month are the
\* sums of everything that was booked in it, priced with every sample that was
\* accepted, whatever was folded away by saves and however often the process
\* was restarted in between.
Restartlikhet ==
  LET bidrag == [h \in DOMAIN hel.poster |->
                   [kwh |-> hel.poster[h],
                    kvalitet |-> Priskvalitet(Prisintervall(hel.ruter, h))]]
      sum == Maanedssum(bok)
  IN  sum.sum = SumAv(bidrag) /\ sum.antall = Cardinality(DOMAIN hel.poster)

\* C2.1 and C5, conservation: the energy of the meter's accepted and rejected
\* deltas is in the active month, in an archived month or among the rejected
\* kWh, through month boundaries, source changes, saves and restarts.
EnergiBevart ==
  LET Arkiv(f(_)) == MapThenSumSet(LAMBDA m : f(bok.arkiv[m]), DOMAIN bok.arkiv)
  IN  regnskap = Maanedssum(bok).sum.total + bok.avvist
                 + Arkiv(LAMBDA s : s.sum.total) + Arkiv(LAMBDA s : s.avvist)

\* C6, an archived month is immutable: what the Store says of an archived
\* month is never contradicted, neither by later readings nor by a restart.
LagretArkivStaar ==
  lager.skjema = 3 =>
    \A m \in DOMAIN lager.arkiv :
      m \in DOMAIN bok.arkiv /\ bok.arkiv[m] = lager.arkiv[m]

\* C6, within one run of the process: a step that is not a restart leaves
\* every archived month as it is and never reopens one.
ArkivUforanderlig ==
  [][omstarter' = omstarter =>
       \A m \in DOMAIN bok.arkiv :
         /\ m \in DOMAIN bok'.arkiv
         /\ bok'.arkiv[m] = bok.arkiv[m]
         /\ m # bok'.aktiv]_vars

\* C6, the price is fixed when an interval closes: a step that is not a
\* restart gives an hour that is over, and still kept, no other price.
PrisStaarFast ==
  [][omstarter' = omstarter =>
       \A h \in DOMAIN bok.poster \cap DOMAIN bok'.poster :
         (h + 1) * TikkPerTime <= naa =>
           Prisintervall(bok'.ruter, h) = Prisintervall(bok.ruter, h)]_vars

-----------------------------------------------------------------------------
(***************************************************************************)
(* The ledger the book implements (module Hovedbok).                       *)
(***************************************************************************)
Bokens == INSTANCE Hovedbok WITH avskrift <- lagret.hovedbok

\* Contract C2, C6 and C7 taken together: seen as a ledger, the book only ever
\* receives energy (day and night each for itself), closes months in order and
\* for good, writes itself down and is taken up again; prices, caches, sums
\* that are read, and the folding away of old hours never show.
ErEnHovedbok == Bokens!Spec

=============================================================================

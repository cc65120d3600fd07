------------------------------ MODULE Eksportbok ------------------------------
(***************************************************************************)
(* The export book, eksport.py, as the poll of the coordinator drives it:  *)
(* a price adapter of its own (module Prisadapter, whose variables it      *)
(* shares), the energy of each price route, and the balances of the two    *)
(* months that are shown, into which routes older than Lagringsvindu are   *)
(* folded.  The Store is written after the polls that changed something,   *)
(* a write may fail, and the process may die between any two steps.        *)
(*                                                                         *)
(* The host's clock may be set back a little (time synchronisation), so    *)
(* samples do not always come in the order of their poll times.  There is  *)
(* at most one poll a tick.                                                *)
(*                                                                         *)
(* History: hel holds the openings and every route's energy and sample as  *)
(* if nothing was ever folded or forgotten; lagretHel is hel as it was     *)
(* last written; feilet tells that the last write failed.                  *)
(***************************************************************************)
EXTENDS Prisadapter

CONSTANTS
  Innganger,      \* what a poll can read: the price and the exported power
  Apninger,       \* what a file without a book may hold: two balances, or Ingen
  Tilbake,        \* bound: how many ticks the clock may be set back
  MaksOmstarter,  \* bound on restarts
  MaksTilbake     \* bound on how often the clock is set back

\* A balance: energy, the income of what has a price, and energy without one.
Saldoer == [kwh : Int, inntekt : Int, uten : Int]

ASSUME EksportAssumption ==
  /\ Innganger \subseteq [pris : Priser \cup {Ingen}, effekt : Nat]
  /\ Apninger \subseteq {Ingen} \cup (Saldoer \X Saldoer)
  /\ Tilbake \in Nat /\ MaksOmstarter \in Nat /\ MaksTilbake \in Nat

VARIABLES
  naa,        \* the clock
  sist,       \* _last_update: when the last poll booked, or Ingen
  energi,     \* Eksportbok._energi: energy per price route
  ferdige,    \* Eksportbok._ferdige: the folded balance of each month
  fil,        \* energi, ferdige and sist in the Store (lager has the routes)
  skriver,    \* the poll has something to write and awaits the Store
  feilet,     \* history: the last write failed
  hel,        \* history: openings, energy and samples in full
  lagretHel,  \* history: hel at the last write
  omstarter,  \* bounded by MaksOmstarter
  stilt       \* how often the clock was set back, bounded by MaksTilbake

eksportvars ==
  <<vars, naa, sist, energi, ferdige, fil, skriver, feilet, hel, lagretHel,
    omstarter, stilt>>

Null == [kwh |-> 0, inntekt |-> 0, uten |-> 0]

Lagt(s, t) ==
  [kwh |-> s.kwh + t.kwh, inntekt |-> s.inntekt + t.inntekt, uten |-> s.uten + t.uten]

Av(tabell, m) == IF m \in DOMAIN tabell THEN tabell[m] ELSE Null

-----------------------------------------------------------------------------
(***************************************************************************)
(* Operators of class Eksportbok.                                          *)
(***************************************************************************)

\* _bidrag: the energy of a route at the route's own price, if it has one.
Bidrag(tabell, r, kwh) ==
  IF r \in DOMAIN tabell
  THEN [kwh |-> kwh, inntekt |-> kwh * tabell[r].verdi, uten |-> 0]
  ELSE [kwh |-> kwh, inntekt |-> 0, uten |-> kwh]

\* The contributions of the routes R of a month, added up.
Bidragssum(e, tabell, R, m) ==
  LET S == {r \in R : ManedAv[TimeForRute(r)] = m}
      B(r) == Bidrag(tabell, r, e[r])
  IN  [kwh |-> MapThenSumSet(LAMBDA r : B(r).kwh, S),
       inntekt |-> MapThenSumSet(LAMBDA r : B(r).inntekt, S),
       uten |-> MapThenSumSet(LAMBDA r : B(r).uten, S)]

\* maaned: the folded balance and the routes that are still kept.
Maaned(f, e, tabell, m) == Lagt(Av(f, m), Bidragssum(e, tabell, DOMAIN e, m))

\* bokfor: the energy of the window, spread evenly over its price routes.
MedEnergi(e, fra, til, effekt) ==
  LET truffet == {r \in Ruter : fra < (r + 1) * TikkPerRute /\ r * TikkPerRute < til}
      Del(r) == effekt * (MinstAv(til, (r + 1) * TikkPerRute)
                          - StorstAv(fra, r * TikkPerRute))
      Foer(r) == IF r \in DOMAIN e THEN e[r] ELSE 0
  IN  IF effekt = 0 \/ til <= fra THEN e
      ELSE [r \in DOMAIN e \cup truffet |->
              Foer(r) + (IF r \in truffet THEN Del(r) ELSE 0)]

\* The price routes before this one are folded and forgotten at time t.
Foldegrense(t) == Rute(t) - Lagringsvindu * RuterPerTime

NyereEnn(tabell, grense) == Restrict(tabell, {r \in DOMAIN tabell : r >= grense})

\* Mutant of Foldet: the prices are dropped before the routes are folded.
FoldetUtenPris(f, e, tabell, t) ==
  LET gamle == {r \in DOMAIN e : r < Foldegrense(t)}
      maneder == DOMAIN f \cup {ManedAv[TimeForRute(r)] : r \in gamle}
      eldste == ManedAv[Time(t)] - 1
      igjen == NyereEnn(tabell, Foldegrense(t))
  IN  [m \in {x \in maneder : x >= eldste} |->
         Lagt(Av(f, m), Bidragssum(e, igjen, gamle, m))]

\* avslutt_eldre, the balances: old routes are folded in at the price they
\* have, and balances before the previous month are dropped.
Foldet(f, e, tabell, t) ==
  LET gamle == {r \in DOMAIN e : r < Foldegrense(t)}
      maneder == DOMAIN f \cup {ManedAv[TimeForRute(r)] : r \in gamle}
      eldste == ManedAv[Time(t)] - 1
  IN  [m \in {x \in maneder : x >= eldste} |->
         Lagt(Av(f, m), Bidragssum(e, tabell, gamle, m))]

\* The price a table gives a route; Ingen when it has no sample.
PrisI(tabell, r) == IF r \in DOMAIN tabell THEN tabell[r].verdi ELSE Ingen

\* Mutant of NyPris: a new price is no reason to write.
AldriNyPris(foer, etter, t) == FALSE

\* registrer_pris's answer: the route's price is another than it was.
NyPris(foer, etter, t) == PrisI(etter, Rute(t)) # PrisI(foer, Rute(t))

-----------------------------------------------------------------------------
(***************************************************************************)
(* The coordinator's use of it.                                            *)
(***************************************************************************)

\* What a file without a readable book gives (sett_apning): opening balances for
\* the month it was written in and the one before, in that order.
Start(a) ==
  IF a = Ingen THEN <<>>
  ELSE [m \in {ManedAv[0], ManedAv[0] - 1} |-> IF m = ManedAv[0] THEN a[1] ELSE a[2]]

TomHistorie == [apning |-> <<>>, energi |-> <<>>, ruter |-> <<>>]

EksportInit ==
  /\ Init
  /\ naa = 0
  /\ sist = Ingen
  /\ energi = <<>>
  /\ \E a \in Apninger :
       /\ ferdige = Start(a)
       /\ hel = [TomHistorie EXCEPT !.apning = Start(a)]
  /\ fil = [energi |-> <<>>, ferdige |-> ferdige, sist |-> Ingen]
  /\ lagretHel = hel
  /\ skriver = FALSE /\ feilet = FALSE
  /\ omstarter = 0 /\ stilt = 0

Boken == <<ruter, godkjent, lager, lagret, sist, energi, ferdige, fil, skriver,
           feilet, hel, lagretHel, omstarter>>

Klokke ==
  /\ naa + 1 \in Tikk
  /\ naa' = naa + 1
  /\ UNCHANGED <<Boken, stilt>>

\* The host's clock is set back, within the month.
StillTilbake ==
  /\ stilt < MaksTilbake
  /\ \E d \in 1 .. Tilbake :
       /\ naa - d \in Tikk
       /\ ManedAv[Time(naa - d)] = ManedAv[Time(naa)]
       /\ naa' = naa - d
  /\ stilt' = stilt + 1
  /\ UNCHANGED Boken

\* The window a poll books: what has passed since the last one, never negative
\* and never longer than MAX_ELAPSED_HOURS.
Vindu ==
  IF sist = Ingen THEN 0 ELSE StorstAv(0, MinstAv(naa - sist, MaksEstimertVindu))

\* The part of a poll that concerns the export: the spot price, if it could be
\* read, is registered; the exported power is booked over the window; old
\* routes are folded; and the poll goes on to write if there is a new price or
\* energy.  (The consumption can give it a reason to write as well: that only
\* writes more often what the next export poll writes.)
Poll(pris, effekt) ==
  LET p == [polltid |-> naa, verdi |-> pris]
      prove == IF pris # Ingen /\ Godtas(naa) THEN {p} ELSE {}
      Med(tabell) == IF prove = {} THEN tabell ELSE Registrer(tabell, p)
      fylt == MedEnergi(energi, naa - Vindu, naa, effekt)
      grense == Foldegrense(naa)
  IN  /\ ~ skriver
      /\ sist # naa
      /\ ruter' = NyereEnn(Med(ruter), grense)
      /\ godkjent' = {q \in godkjent \cup prove : Rute(q.polltid) >= grense}
      /\ energi' = NyereEnn(fylt, grense)
      /\ ferdige' = Foldet(ferdige, fylt, Med(ruter), naa)
      /\ sist' = naa
      /\ hel' = [hel EXCEPT !.ruter = Med(@),
                            !.energi = MedEnergi(@, naa - Vindu, naa, effekt)]
      /\ skriver' = (NyPris(ruter, Med(ruter), naa) \/ fylt # energi)
      /\ UNCHANGED <<naa, lager, lagret, fil, feilet, lagretHel, omstarter, stilt>>

\* til_lagring and the write: the adapter writes all its routes.
Skriv ==
  /\ skriver
  /\ skriver' = FALSE
  /\ feilet' = FALSE
  /\ lager' = ruter
  /\ lagret' = godkjent
  /\ fil' = [energi |-> energi, ferdige |-> ferdige, sist |-> sist]
  /\ lagretHel' = hel
  /\ UNCHANGED <<naa, ruter, godkjent, sist, energi, ferdige, hel, omstarter, stilt>>

\* The write fails; the coordinator goes on with what it has in memory.
Skrivefeil ==
  /\ skriver
  /\ skriver' = FALSE
  /\ feilet' = TRUE
  /\ UNCHANGED <<vars, naa, sist, energi, ferdige, fil, hel, lagretHel, omstarter, stilt>>

\* The process dies and starts again (fra_lagring); the time of the last poll
\* is taken up when it is at most MAX_ELAPSED_HOURS ago.
Omstart ==
  /\ omstarter < MaksOmstarter
  /\ omstarter' = omstarter + 1
  /\ Les
  /\ energi' = fil.energi
  /\ ferdige' = fil.ferdige
  /\ sist' = IF fil.sist # Ingen /\ naa - fil.sist \in 0 .. MaksEstimertVindu
             THEN fil.sist ELSE Ingen
  /\ hel' = lagretHel
  /\ skriver' = FALSE /\ feilet' = FALSE
  /\ UNCHANGED <<naa, fil, lagretHel, stilt>>

EksportNext ==
  \/ Klokke
  \/ StillTilbake
  \/ \E i \in Innganger : Poll(i.pris, i.effekt)
  \/ Skriv
  \/ Skrivefeil
  \/ Omstart

EksportSpec == EksportInit /\ [][EksportNext]_eksportvars

-----------------------------------------------------------------------------
(***************************************************************************)
(* Properties.                                                             *)
(***************************************************************************)

\* The months the coordinator asks for.
Viste == {ManedAv[Time(naa)], ManedAv[Time(naa)] - 1}

\* The docstring of eksport.py: the export is priced in its own UTC price route,
\* never with the neighbour's price, and known income and unpriced energy are
\* kept apart.  What a month shows is what its openings, every route's energy
\* and every route's last sample give, although only three hours of routes and
\* prices are kept, whatever was folded, failed or restarted in between.
MaanedenStemmer ==
  \A m \in Viste :
    Maaned(ferdige, energi, ruter, m)
      = Maaned(hel.apning, hel.energi, hel.ruter, m)

\* The comment on eksportpris_endret: the book is written when a route gets
\* another price or energy is booked, not at each sample, and that is enough:
\* between two polls, unless the last write failed, the file gives the same
\* months as the memory, so a restart loses nothing.
FilenErFersk ==
  ~ skriver /\ ~ feilet =>
    \A m \in Viste :
      Maaned(fil.ferdige, fil.energi, lager, m) = Maaned(ferdige, energi, ruter, m)

=============================================================================

----------------------------- MODULE Koordinator -----------------------------
(***************************************************************************)
(* The poll of coordinator.py around the book: _async_update_data with the *)
(* split at month boundaries, the months shown to the user, the kroner,    *)
(* the daily peaks, the month rollover by the clock, the late tail of a    *)
(* month already closed, and the two places where the Store is written.    *)
(*                                                                         *)
(* A poll runs without interruption except where it awaits: the save in    *)
(* _handle_month_rollover and the save at the end.  A poll is therefore    *)
(* one step up to its first await and one step per write; between them the *)
(* process may die (Krasj), and a write may fail with OSError, which the   *)
(* code logs and forgets.                                                  *)
(*                                                                         *)
(* Abstractions.  The energy components of the kroner are one number per   *)
(* interval (Kr): grid tariff per kWh, the spot price where one is known,  *)
(* and a support per kWh up to a monthly cap.  The fixed fee is Fastledd's *)
(* for the month that closes; the share of it shown while the month runs,  *)
(* texts and export are left out.  A poll takes less than a tick.          *)
(*                                                                         *)
(* The history variable hel holds what a restart-free ledger would: energy *)
(* per hour of every month, every accepted price sample, the opening       *)
(* balance of a Store from before the book, the weekly peaks it held, the  *)
(* tariff the last one was closed with, and the months the clock dropped.  *)
(***************************************************************************)
EXTENDS Avregning, Fastledd, Folds

CONSTANTS
  Dogn,           \* the local date of each hour (lokal_dato)
  Priser,         \* the prices a sample can carry
  Verdier,        \* the values a reading can carry
  Apninger,       \* month totals a Store from before the book can hold
  Nett, Stotte, Tak, \* grid tariff and support per kWh, cap of the support
  Starttariffer,  \* the tariffs an entry can be set up with at first
  Tariffer,       \* those it can be set up with later
  GamleUker,      \* the weekly peaks a Store can hold from before, by Monday
  Vindu,          \* FEM_VEKTET_VINDU_MAANEDER: how long they count, in days
  Etterslep,      \* bound: how old a reading is when it is polled, in ticks
  MaksStillhet,   \* environment: how long the meter may be silent, in ticks
  MaksOmstarter,  \* bound on restarts
  Skrivefeil,     \* may a write fail with OSError?
  FeilIMellom     \* may the second write of a rollover poll fail to happen?

ASSUME PengeAssumption ==
  /\ Nett \in Nat /\ Stotte \in Nat /\ Tak \in Nat
  /\ Priser \subseteq Int

\* Dates come in calendar order, and each of them lies in one month.
ASSUME DatoAssumption ==
  /\ Dogn \in [Timer -> Nat]
  /\ \A g, h \in Timer : g <= h => Dogn[g] <= Dogn[h]
  /\ \A g, h \in Timer : Dogn[g] = Dogn[h] => ManedAv[g] = ManedAv[h]

\* A reading is a number of energy units; so is a month total of the old Store,
\* where _validate_consumption reads a negative one as none.  None is no reading.
ASSUME EnhetAssumption ==
  /\ Verdier \subseteq Int
  /\ Apninger \subseteq Nat
  /\ Ingen \notin [kilde : Kilder, tid : Int, verdi : Int]

VARIABLES
  naa,       \* the clock
  bok,       \* self._bok
  k,         \* the coordinator's own fields, see Minne
  fase,      \* where the poll is: "ledig", "skifte" or "lagrer"
  poll,      \* the poll in progress: its hours, and whether it is dirty
  lager,     \* the Store file
  kilde,     \* the configured energy source
  tariff,    \* _fastleddtariff(): the grid company's, and the user's choices
  hel,       \* history: the full ledger
  lagret,    \* history: hel at the last successful write
  omstarter  \* number of restarts, bounded by MaksOmstarter

vars == <<naa, bok, k, fase, poll, lager, kilde, tariff, hel, lagret, omstarter>>

Avlesninger == [kilde : Kilder, tid : Tikk, verdi : Verdier]

Null == [dag |-> 0, natt |-> 0]
SumKwh(f) == f.dag + f.natt
Sum(f, S) == MapThenSumSet(LAMBDA x : f[x], S)

IngenForrige ==
  [navn |-> Ingen, forbruk |-> Null, kroner |-> 0, topp |-> <<>>, uke |-> <<>>,
   tariff |-> Ingen, ledd |-> 0, bekreftet |-> TRUE]

\* The fields of the coordinator that the Store carries.
\*   maned _current_month   dato _current_date   forbruk _monthly_consumption
\*   kroner the month's _monthly_* kroner        dagskost _daily_cost
\*   topp _daily_max_power, by date   uke _weekly_max_power, by Monday
\*   forrige the previous_month_* fields, among them the fixed fee ledd, whether
\*     it is a known amount, and the snapshot of tariff, topp and uke
\* kr (_kr_bokfort) is rebuilt from the book at start.
Minne(m, d, forbruk, uker) ==
  [maned |-> m, dato |-> d, forbruk |-> forbruk, kroner |-> 0, dagskost |-> 0,
   topp |-> <<>>, uke |-> uker, forrige |-> IngenForrige, kr |-> <<>>]

-----------------------------------------------------------------------------
(***************************************************************************)
(* Months, days and kroner.                                                *)
(***************************************************************************)
MndNaa == ManedAv[Time(naa)]
DatoNaa == Dogn[Time(naa)]

\* _fores_av_boken.
ForesAvBoken(b, m) == b.aktiv \in {Ingen, m}

\* _boksum_for_maaneden: the book's kWh for a named month, from the active
\* month, the archive, or none.
Boksum(b, m) ==
  LET s == IF b.aktiv = m THEN Maanedssum(b).sum
           ELSE IF m \in DOMAIN b.arkiv THEN b.arkiv[m].sum
           ELSE NullSum
  IN  [dag |-> s.dag, natt |-> s.natt]

\* Mutant of Aapningsbalanse: what the book does not know of is dropped.
AapningsbalanseNull(b, c) == Null

\* _aapningsbalanse and _forbruk_fra_boken.
Aapningsbalanse(b, c) ==
  LET s == Boksum(b, c.maned)
  IN  [dag |-> c.forbruk.dag - s.dag, natt |-> c.forbruk.natt - s.natt]

ForbrukFraBoken(b, m, balanse) ==
  LET s == Boksum(b, m)
  IN  [dag |-> balanse.dag + s.dag, natt |-> balanse.natt + s.natt]

\* kroner_for_intervall: kwh at a price, with kwhFor already used this month.
Kr(kwh, pris, kwhFor) ==
  LET snitt == Sum(pris, DOMAIN pris) \div Cardinality(DOMAIN pris)
      underTak == MinstAv(kwh, StorstAv(0, Tak - kwhFor))
  IN  kwh * Nett + (IF DOMAIN pris = {} THEN 0 ELSE kwh * snitt - Stotte * underTak)

\* Mutant of Kronebokforing: the kept hours are taken to have given no kroner.
KronebokforingTom(b, c) == <<>>

\* _bygg_kronebokforing: what the intervals of the book stand for now, each
\* after the energy of the month that lies before it.
Kronebokforing(b, c) ==
  LET poster == DOMAIN b.poster
      Kwh(S) == MapThenSumSet(LAMBDA h : b.poster[h].kwh, S)
      foran == StorstAv(0, SumKwh(c.forbruk) - Kwh(poster))
  IN  IF ~ ForesAvBoken(b, c.maned) THEN <<>>
      ELSE [h \in poster |->
              Kr(b.poster[h].kwh, Bygg(b, h).pris, foran + Kwh({g \in poster : g < h}))]

\* Mutant of Omregn: what yesterday's hour gets this morning is today's cost.
OmregnAlleDager(b, c, timer) ==
  LET berorte == {h \in timer \cap DOMAIN b.poster : ManedAv[h] = c.maned}
      Etter(h) == MapThenSumSet(LAMBDA g : b.poster[g].kwh, {g \in DOMAIN b.poster : g >= h})
      Ny(h) == Kr(b.poster[h].kwh, Bygg(b, h).pris, StorstAv(0, SumKwh(c.forbruk) - Etter(h)))
      Diff(h) == Ny(h) - (IF h \in DOMAIN c.kr THEN c.kr[h] ELSE 0)
  IN  [c EXCEPT !.kroner = @ + MapThenSumSet(Diff, berorte),
                !.dagskost = @ + MapThenSumSet(Diff, berorte),
                !.kr = [h \in DOMAIN @ \cup berorte |->
                          IF h \in berorte THEN Ny(h) ELSE c.kr[h]]]

\* The hours are priced again, each after the energy of the month before it,
\* and only the difference from what they have given before is added.
Omregn(b, c, timer) ==
  LET berorte == {h \in timer \cap DOMAIN b.poster : ManedAv[h] = c.maned}
      Etter(h) == MapThenSumSet(LAMBDA g : b.poster[g].kwh, {g \in DOMAIN b.poster : g >= h})
      Ny(h) == Kr(b.poster[h].kwh, Bygg(b, h).pris, StorstAv(0, SumKwh(c.forbruk) - Etter(h)))
      Diff(h) == Ny(h) - (IF h \in DOMAIN c.kr THEN c.kr[h] ELSE 0)
  IN  [c EXCEPT !.kroner = @ + MapThenSumSet(Diff, berorte),
                !.dagskost = @ + MapThenSumSet(Diff, {h \in berorte : Dogn[h] = c.dato}),
                !.kr = [h \in DOMAIN @ \cup berorte |->
                          IF h \in berorte THEN Ny(h) ELSE c.kr[h]]]

\* Mutant of Akkumuler: the open hour is not looked at again.
AkkumulerBareBerorte(b, c, timer) ==
  IF ForesAvBoken(b, c.maned) THEN Omregn(b, c, timer) ELSE c

\* _akkumuler_kroner: the touched hours and the open one, if the book keeps the
\* month that is shown.
Akkumuler(b, c, timer) ==
  IF ForesAvBoken(b, c.maned) THEN Omregn(b, c, timer \cup {Time(naa)}) ELSE c

\* _registrer_timesmaks for a set of hours: the day's peak only grows.
MedTopper(topp, kwh) ==
  LET dager == {Dogn[h] : h \in DOMAIN kwh}
      Gammel(d) == IF d \in DOMAIN topp THEN topp[d] ELSE 0
  IN  [d \in DOMAIN topp \cup dager |->
         Max({Gammel(d)} \cup {kwh[h] : h \in {g \in DOMAIN kwh : Dogn[g] = d}})]

\* _registrer_ukesmaks for a set of hours in order: the highest hour of a week,
\* and the date of it; the first of several equally high.
MedUker(uker, kwh) ==
  LET I(u) == {h \in DOMAIN kwh : Ukestart(Dogn[h]) = u}
      Topp(u) == Max({kwh[h] : h \in I(u)})
      Ny(u) == [kw |-> Topp(u), dato |-> Dogn[Min({h \in I(u) : kwh[h] = Topp(u)})]]
      nye == {u \in {Ukestart(Dogn[h]) : h \in DOMAIN kwh} :
                u \in DOMAIN uker => Topp(u) > uker[u].kw}
  IN  [u \in DOMAIN uker \cup nye |-> IF u \in nye THEN Ny(u) ELSE uker[u]]

\* _trenger_ukesmaks.
TrengerUkesmaks == tariff.metode = "FEM_VEKTET_AR"

LopendeUker(uker, kwh) == IF TrengerUkesmaks THEN MedUker(uker, kwh) ELSE uker

\* Mutant of Timesmaks: hours of another month count too.
TimesmaksAlleManeder(b, c) ==
  LET lukkede == {h \in DOMAIN b.poster : h < Time(naa) /\ b.poster[h].kwh > 0}
      kwh == [h \in lukkede |-> b.poster[h].kwh]
  IN  [c EXCEPT !.topp = MedTopper(@, kwh), !.uke = LopendeUker(@, kwh)]

\* _oppdater_timesmaks: the closed hours of the current month that used anything.
Timesmaks(b, c) ==
  LET lukkede == {h \in DOMAIN b.poster :
                    h < Time(naa) /\ ManedAv[h] = c.maned /\ b.poster[h].kwh > 0}
      kwh == [h \in lukkede |-> b.poster[h].kwh]
  IN  [c EXCEPT !.topp = MedTopper(@, kwh), !.uke = LopendeUker(@, kwh)]

\* _prune_ukesmaks: the window is half open, and follows the peak's own date.
UtenGamle(uker, dag) ==
  Restrict(uker, {u \in DOMAIN uker : ~ TrengerUkesmaks \/ uker[u].dato > dag - Vindu})

\* Mutant of MedFastledd: the closed month is priced with today's tariff.
MedDagensFastledd(f) ==
  LET g == Grunnlag(tariff, f.topp, f.uke)
      ledd == ForGrunnlag(tariff, g)
  IN  IF tariff.metode = "OV_TREFASE" THEN f
      ELSE [f EXCEPT !.kroner = @ + ledd - f.ledd,
                     !.ledd = ledd,
                     !.bekreftet = @ /\ ~ Ukjent(tariff, g)]

\* _lukket_fastledd and what _etterbokfor_lukket_fastledd makes of it: the whole
\* month's fee again with the tariff it was closed with.  A fuse size is not
\* moved by a late reading.
MedFastledd(f) ==
  LET g == Grunnlag(f.tariff, f.topp, f.uke)
      ledd == ForGrunnlag(f.tariff, g)
  IN  IF f.tariff.metode = "OV_TREFASE" THEN f
      ELSE [f EXCEPT !.kroner = @ + ledd - f.ledd,
                     !.ledd = ledd,
                     !.bekreftet = @ /\ ~ Ukjent(f.tariff, g)]

\* Mutant of MedHale: the late tail is not part of the running year.
MedHaleUtenLopende(c, halekwh, helkwh, kroner) ==
  [c EXCEPT
     !.forrige = MedFastledd([@ EXCEPT
       !.forbruk = [dag |-> @.dag + Sum(halekwh, DOMAIN halekwh \cap Dagtimer),
                    natt |-> @.natt + Sum(halekwh, DOMAIN halekwh \ Dagtimer)],
       !.kroner = @ + kroner,
       !.topp = MedTopper(@, helkwh),
       !.uke = MedUker(@, helkwh)])]

\* The closed month with the tail: its kWh, its kroner, its peaks and its fixed
\* fee; here an hour that used nothing may be a peak too.  The corrected hours
\* are part of the running year.
MedHale(c, halekwh, helkwh, kroner) ==
  [c EXCEPT
     !.forrige = MedFastledd([@ EXCEPT
       !.forbruk = [dag |-> @.dag + Sum(halekwh, DOMAIN halekwh \cap Dagtimer),
                    natt |-> @.natt + Sum(halekwh, DOMAIN halekwh \ Dagtimer)],
       !.kroner = @ + kroner,
       !.topp = MedTopper(@, helkwh),
       !.uke = MedUker(@, helkwh)]),
     !.uke = LopendeUker(@, helkwh)]

\* The late tail in a split: its hours of the month the clock has just closed.
Halen(b, c, fordeling) ==
  {h \in DOMAIN fordeling \cap DOMAIN b.poster :
     c.maned = MndNaa /\ c.forrige.navn = MndNaa - 1 /\ ManedAv[h] = c.forrige.navn}

\* Mutant of Etterbokfor: the late tail is not added to the closed month.
EtterbokforIkke(b, c, fordeling) == c

\* _etterbokfor_lukket_maned: energy that arrives for the month the clock has
\* just closed is added to it, priced as a tail after what it already holds.
Etterbokfor(b, c, fordeling) ==
  LET hale == Halen(b, c, fordeling)
      foran == SumKwh(c.forrige.forbruk)
      Kroner(h) ==
        Kr(fordeling[h], Bygg(b, h).pris, foran + Sum(fordeling, {g \in hale : g < h}))
  IN  IF hale = {} THEN c
      ELSE MedHale(c, Restrict(fordeling, hale), [h \in hale |-> b.poster[h].kwh],
                   MapThenSumSet(Kroner, hale))

\* What is archived of the month that closes: its cost holds the fee of the whole
\* month, and the tariff and the peaks are frozen beside it.
Lukket(c) ==
  LET g == Grunnlag(tariff, c.topp, c.uke)
      ukjent == BelopUkjent(tariff, g)
      ledd == IF c.topp = <<>> /\ tariff.metode \in Trinnbaserte THEN 0
              ELSE ForGrunnlag(tariff, g)
  IN  [navn |-> c.maned, forbruk |-> c.forbruk,
       kroner |-> c.kroner + (IF ukjent THEN 0 ELSE ledd),
       topp |-> c.topp, uke |-> c.uke, tariff |-> tariff,
       ledd |-> ledd, bekreftet |-> ~ ukjent]

\* Mutants of Rullert: the old month's peaks stay; the running year starts over.
RullertMedTopper(c) ==
  [c EXCEPT
     !.forrige = IF c.maned < MndNaa - 1 THEN IngenForrige ELSE Lukket(c),
     !.maned = MndNaa, !.forbruk = Null, !.kroner = 0, !.kr = <<>>]
RullertUtenUker(c) ==
  [c EXCEPT
     !.forrige = IF c.maned < MndNaa - 1 THEN IngenForrige ELSE Lukket(c),
     !.maned = MndNaa, !.forbruk = Null, !.kroner = 0, !.topp = <<>>, !.uke = <<>>,
     !.kr = <<>>]

\* _handle_month_rollover up to its save: the month is archived, or dropped if
\* more than one boundary was missed, and the accumulators start from zero; the
\* weekly peaks go on.
Rullert(c) ==
  [c EXCEPT
     !.forrige = IF c.maned < MndNaa - 1 THEN IngenForrige ELSE Lukket(c),
     !.maned = MndNaa, !.forbruk = Null, !.kroner = 0, !.topp = <<>>, !.kr = <<>>]

-----------------------------------------------------------------------------
(***************************************************************************)
(* The poll.                                                               *)
(***************************************************************************)

\* _maanedsgrenser: the month boundaries strictly between two instants.
Grenser(fra, til) ==
  {h * TikkPerTime : h \in {g \in Timer \ {0} :
      /\ ManedAv[g] # ManedAv[g - 1]
      /\ fra < g * TikkPerTime
      /\ g * TikkPerTime < til}}

\* Mutant of Deler: the reading is booked whole.
DelerIkke(b, a) == IF a = Ingen THEN <<>> ELSE [t \in {a.tid} |-> a]

\* _del_ved_maanedsskifte: the reading cut at the month boundaries, so that the
\* old month is settled before the book archives it.  The parts by the instant
\* each of them ends at; a reading that may not be cut is its own only part.
Deler(b, a) ==
  LET forrige == b.sist
      estimert == a.kilde \in Estimerte
      delta == IF estimert THEN a.verdi ELSE a.verdi - forrige.verdi
      grenser == Grenser(forrige.tid, a.tid)
      Fra(t) == Max({forrige.tid} \cup {u \in grenser : u < t})
      Andel(t, u) == (delta * (u - t)) \div (a.tid - forrige.tid)
      Verdi(t) == IF estimert THEN Andel(Fra(t), t)
                  ELSE forrige.verdi + Andel(forrige.tid, t)
  IN  IF a = Ingen THEN <<>>
      ELSE IF \/ forrige = Ingen \/ forrige.kilde # a.kilde
              \/ a.tid <= forrige.tid \/ delta < 0 \/ delta > MaksDelta
      THEN [t \in {a.tid} |-> a]
      ELSE [t \in grenser \cup {a.tid} |-> [a EXCEPT !.tid = t, !.verdi = Verdi(t)]]

\* The sums are refreshed when the month is asked for, and _oppdater_timesmaks
\* builds every interval.
Lest(b, m) == Bygd(IF b.aktiv = m THEN Oppdater(b) ELSE b)

\* What the poll makes of the book's answer to one part of the reading: the late
\* tail, the month's kWh, the kroner of the hours touched, the closed hours.
Foring(s, svar, balanse) ==
  LET c1 == Etterbokfor(svar.bok, s.k, svar.fordeling)
      c2 == [c1 EXCEPT !.forbruk = ForbrukFraBoken(svar.bok, s.k.maned, balanse)]
  IN  Timesmaks(svar.bok, Akkumuler(svar.bok, c2, DOMAIN svar.fordeling))

\* _oppdater_timesmaks tells whether a peak was moved.
NyeTopper(fra, til) == fra.topp # til.topp \/ fra.uke # til.uke

\* The poll's variables after the part, given the coordinator's fields c.  A late tail
\* marks the poll dirty also when it has no energy.
MedDel(s, svar, c) ==
  [bok |-> Lest(svar.bok, c.maned), k |-> c,
   timer |-> s.timer \cup DOMAIN svar.fordeling,
   skitten |-> \/ s.skitten \/ svar.bokfort > 0 \/ svar.avvist # 0
               \/ Halen(svar.bok, s.k, svar.fordeling) # {} \/ NyeTopper(s.k, c),
   kwh |-> [h \in DOMAIN s.kwh \cup DOMAIN svar.fordeling |->
              (IF h \in DOMAIN s.kwh THEN s.kwh[h] ELSE 0)
              + (IF h \in DOMAIN svar.fordeling THEN svar.fordeling[h] ELSE 0)]]

\* The loop body of the poll for one part of the reading.
MedSvar(s, svar, balanse) == MedDel(s, svar, Foring(s, svar, balanse))
EnDel(s, a, balanse) == MedSvar(s, Bokfor(s.bok, a), balanse)

\* The closed hours once more: a poll without a reading has not seen them.
MedTimesmaks(s, c) == [s EXCEPT !.k = c, !.skitten = @ \/ NyeTopper(s.k, c)]
Avsluttet(s) == MedTimesmaks(s, Timesmaks(s.bok, s.k))

\* The loop over the parts of the reading, in the order they end in; the opening
\* balance is taken first.
AlleDeler(b, c, deler, balanse) ==
  Avsluttet(MapThenFoldSet(LAMBDA t, s : EnDel(s, deler[t], balanse),
                           [bok |-> Lest(b, c.maned), k |-> c, timer |-> {},
                            skitten |-> FALSE, kwh |-> hel.kwh],
                           LAMBDA t : t, LAMBDA S : Max(S), DOMAIN deler))

\* The poll up to the question of a month rollover: the price sample, the new
\* day, the reading part by part, the closed hours.
Bokfort(prove, a) ==
  LET b == IF prove = Ingen THEN bok
           ELSE RegistrerPrisprove(bok, [polltid |-> naa, verdi |-> prove])
      c == IF k.dato = DatoNaa THEN k ELSE [k EXCEPT !.dato = DatoNaa, !.dagskost = 0]
  IN  AlleDeler(b, c, Deler(b, a), Aapningsbalanse(b, c))

\* The rest of the poll: the kroner, the weekly peaks that have gone out of the
\* window; statusfelt asks for the sums of the active month.
Ferdig(b, c, timer, skitten) ==
  LET uker == UtenGamle(c.uke, DatoNaa)
  IN  /\ bok' = Bygd(Oppdater(b))
      /\ k' = [Akkumuler(b, c, timer) EXCEPT !.uke = uker]
      /\ fase' = IF skitten \/ uker # c.uke THEN "lagrer" ELSE "ledig"

\* What _save_stored_data writes.
Fil == [bok |-> TilLagring(bok, naa),
        baseline |-> IF bok.sist # Ingen /\ bok.sist.kilde \notin Estimerte
                     THEN bok.sist ELSE Ingen,
        k |-> [k EXCEPT !.kr = <<>>]]

\* The book that is read back, with the baseline of an older schema, and with
\* none if the energy sensor is gone (sett_baseline).
LestBok(l, sensor) ==
  LET b == FraLagring(l.bok)
  IN  CASE l.baseline # Ingen /\ sensor \in Estimerte -> [b EXCEPT !.sist = Ingen]
        [] b.sist = Ingen /\ sensor \notin Estimerte -> [b EXCEPT !.sist = l.baseline]
        [] OTHER -> b

\* _bygg_kronebokforing asks the book for its intervals if it keeps the month.
MedKroner(c, felter, kr) ==
  [bok |-> IF ForesAvBoken(c, felter.maned) THEN Bygd(c) ELSE c,
   k |-> [felter EXCEPT !.kr = kr]]

\* A fee that lies outside the source's table is no known amount, also when the
\* file says it is; only the daily peaks are looked at.
LestForrige(f) ==
  IF f.navn = Ingen THEN f
  ELSE [f EXCEPT !.bekreftet =
          @ /\ ~ UtenforKildegrense(f.tariff, Grunnlag(f.tariff, f.topp, <<>>))]

\* _load_stored_data: the book, the coordinator's fields, and the kroner the
\* kept intervals have given already.
Innlest(l, sensor) ==
  LET c == LestBok(l, sensor)
      felter == [l.k EXCEPT !.forrige = LestForrige(@)]
  IN  MedKroner(c, felter, Kronebokforing(c, felter))

-----------------------------------------------------------------------------
\* A Store from before the book: its baseline, the month's kWh and weekly peaks.
Startfil(l, baseline, forbruk, uker) ==
  [bok |-> l, baseline |-> baseline, k |-> Minne(ManedAv[0], Dogn[0], forbruk, uker)]

GamleGrunnlinjer == [kilde : Kilder \ Estimerte, tid : {0}, verdi : Verdier \ {0}]

Startfiler ==
  {Startfil(TomtLager, Ingen, Null, u) : u \in GamleUker}
  \cup
  {Startfil(GammeltLager, b, [dag |-> x, natt |-> 0], u) :
     x \in Apninger, u \in GamleUker, b \in {Ingen} \cup GamleGrunnlinjer}

IngenPoll == [timer |-> {}, skitten |-> FALSE, skiftet |-> FALSE]

Init ==
  /\ naa = 0
  /\ lager \in Startfiler
  /\ kilde \in Kilder
  /\ tariff \in Starttariffer
  /\ bok = Innlest(lager, kilde).bok
  /\ k = Innlest(lager, kilde).k
  /\ fase = "ledig"
  /\ poll = IngenPoll
  /\ hel = [kwh |-> <<>>, ruter |-> <<>>, apning |-> lager.k.forbruk, poll |-> 0,
            uker |-> lager.k.uke, arlig |-> TRUE, tapt |-> {}, lukket |-> Ingen]
  /\ lagret = hel
  /\ omstarter = 0

\* Time passes between polls.
Klokke ==
  /\ fase = "ledig"
  /\ naa + 1 \in Tikk
  /\ bok.sist # Ingen => naa + 1 - bok.sist.tid <= MaksStillhet
  /\ naa' = naa + 1
  /\ UNCHANGED <<bok, k, fase, poll, lager, kilde, tariff, hel, lagret, omstarter>>

\* What the sensors can show when they are polled: a meter reading no older
\* than Etterslep and above zero (a meter that reads zero is not read), an
\* estimate of this instant, or nothing.  The model's energy unit makes every
\* share of a split whole.
Lesbar(a) ==
  LET delta == IF a.kilde \in Estimerte THEN a.verdi ELSE a.verdi - bok.sist.verdi
      lengde == a.tid - bok.sist.tid
  IN  a # Ingen =>
        /\ a.kilde = kilde
        /\ a.tid <= naa
        /\ naa - a.tid <= IF a.kilde \in Estimerte THEN 0 ELSE Etterslep
        /\ a.kilde \in Estimerte \/ a.verdi > 0
        /\ bok.sist # Ingen /\ lengde > 0 /\ delta > 0 =>
             \A h \in Time(bok.sist.tid) .. Time(a.tid - 1) :
               (delta * Overlapp(h, bok.sist.tid, a.tid)) % lengde = 0

\* The ledger of the history variable after a poll: arlig says that every poll
\* so far has kept weekly peaks, lukket the tariff of the last month closed, and
\* arlig then.
NyHel(prove, kwh, maned) ==
  [hel EXCEPT
     !.kwh = kwh,
     !.poll = naa,
     !.arlig = @ /\ TrengerUkesmaks,
     !.tapt = IF maned < MndNaa - 1 THEN @ \cup (maned .. MndNaa - 1) ELSE @,
     !.lukket = IF maned = MndNaa THEN @
                ELSE [tariff |-> tariff, arlig |-> hel.arlig /\ TrengerUkesmaks],
     !.ruter = IF prove = Ingen \/ ~ Godtas(naa) THEN @
               ELSE Registrer(@, [polltid |-> naa, verdi |-> prove])]

\* _async_update_data up to its first await, from what the poll has booked: the
\* month has either turned by the clock, and the rollover is about to be saved,
\* or it has not.
Bokfores(s, prove) ==
  /\ hel' = NyHel(prove, s.kwh, s.k.maned)
  /\ \/ /\ s.k.maned = MndNaa
        /\ Ferdig(s.bok, s.k, s.timer, s.skitten)
        /\ poll' = IngenPoll
     \/ /\ s.k.maned # MndNaa
        /\ fase' = "skifte"
        /\ bok' = s.bok
        /\ k' = Rullert(s.k)
        /\ poll' = [timer |-> s.timer, skitten |-> s.skitten, skiftet |-> FALSE]
  /\ UNCHANGED <<naa, lager, kilde, tariff, lagret, omstarter>>

\* (The quantifier over one value makes TLC evaluate it once.)
Poll ==
  /\ fase = "ledig"
  /\ \E prove \in Priser \cup {Ingen}, a \in {x \in Avlesninger \cup {Ingen} : Lesbar(x)} :
       \E s \in {Bokfort(prove, a)} : Bokfores(s, prove)

\* A write, or one that fails with OSError.
Skriv(ok) ==
  /\ ok \/ Skrivefeil
  /\ lager' = IF ok THEN Fil ELSE lager
  /\ lagret' = IF ok THEN hel ELSE lagret

\* The month's kWh and the closed hours, read again after the save of the
\* rollover.
EtterSkifte ==
  Timesmaks(bok, [k EXCEPT !.forbruk = ForbrukFraBoken(bok, k.maned, Null)])

\* The save of the rollover and the rest of the poll after it.
Skifte(ok) ==
  /\ fase = "skifte"
  /\ Skriv(ok)
  /\ \E c \in {EtterSkifte} :
       /\ Ferdig(bok, c, poll.timer, poll.skitten \/ NyeTopper(k, c))
       /\ poll' = [IngenPoll EXCEPT !.skiftet = ok /\ fase' = "lagrer"]
  /\ UNCHANGED <<naa, kilde, tariff, hel, omstarter>>

\* The save at the end of a poll that changed something.
Slutt(ok) ==
  /\ fase = "lagrer"
  /\ ok \/ FeilIMellom \/ ~ poll.skiftet
  /\ Skriv(ok)
  /\ bok' = Oppdater(bok)
  /\ fase' = "ledig"
  /\ poll' = IngenPoll
  /\ UNCHANGED <<naa, k, kilde, tariff, hel, omstarter>>

\* The process stops or dies, and starts again from the Store, perhaps with
\* another tariff.  Unloading an entry saves nothing.
Krasj ==
  /\ omstarter < MaksOmstarter
  /\ FeilIMellom \/ ~ poll.skiftet
  /\ omstarter' = omstarter + 1
  /\ \E x \in {Innlest(lager, kilde)} : bok' = x.bok /\ k' = x.k
  /\ fase' = "ledig"
  /\ poll' = IngenPoll
  /\ hel' = lagret
  /\ tariff' \in Tariffer
  /\ UNCHANGED <<naa, lager, kilde, lagret>>

Next ==
  \/ Klokke
  \/ Poll
  \/ \E ok \in BOOLEAN : Skifte(ok)
  \/ \E ok \in BOOLEAN : Slutt(ok)
  \/ Krasj

Spec == Init /\ [][Next]_vars

-----------------------------------------------------------------------------
(***************************************************************************)
(* What the months are to show, from the full ledger.                      *)
(***************************************************************************)
TimerI(m) == {h \in DOMAIN hel.kwh : ManedAv[h] = m}

Apning(m) == IF m = ManedAv[0] THEN hel.apning ELSE Null

FasitForbruk(m) ==
  [dag |-> Apning(m).dag + Sum(hel.kwh, TimerI(m) \cap Dagtimer),
   natt |-> Apning(m).natt + Sum(hel.kwh, TimerI(m) \ Dagtimer)]

FasitKroner(m, timer) ==
  LET Foran(h) == SumKwh(Apning(m)) + Sum(hel.kwh, {g \in TimerI(m) : g < h})
  IN  MapThenSumSet(LAMBDA h : Kr(hel.kwh[h], Prisintervall(hel.ruter, h), Foran(h)), timer)

Brukte(timer) == {h \in timer : hel.kwh[h] > 0}

FasitTopp(timer) == MedTopper(<<>>, [h \in Brukte(timer) |-> hel.kwh[h]])

\* The weekly peaks on a date: for each week the highest of the hours and of what
\* the Store held from before, with the dates it may carry.
FasitUker(timer, dag) ==
  LET verdier == {[kw |-> hel.kwh[h], dato |-> Dogn[h]] : h \in Brukte(timer)}
                 \cup {x \in Range(hel.uker) : x.dato > dag - Vindu}
      I(u) == {x \in verdier : Ukestart(x.dato) = u}
  IN  [u \in {Ukestart(x.dato) : x \in verdier} |->
         {x \in I(u) : \A y \in I(u) : y.kw <= x.kw}]

\* The peaks that are above zero, and whether the weekly ones are those of the
\* hours up to one.  A week with a day in a month that was dropped is not asked
\* for.
Over(topp) == RestrictValues(topp, LAMBDA kw : kw > 0)

Helt(u) == \A h \in Timer : Ukestart(Dogn[h]) = u => ManedAv[h] \notin hel.tapt

UkerStemmer(uker, siste, dag) ==
  LET over == RestrictDomain(RestrictValues(uker, LAMBDA x : x.kw > 0), Helt)
      fasit == RestrictDomain(FasitUker({h \in DOMAIN hel.kwh : h <= siste}, dag), Helt)
  IN  DOMAIN over = DOMAIN fasit /\ \A u \in DOMAIN over : over[u] \in fasit[u]

\* The state a poll leaves behind.
Ledig == fase = "ledig"

-----------------------------------------------------------------------------
(***************************************************************************)
(* Properties.                                                             *)
(***************************************************************************)
\* C2.1 and contract D, what the month shows: after every poll the month's
\* day and night kWh are the opening balance and every delta that was booked
\* in it, whether the book or the clock turned the month first.
ForbrukFolgerBoken == Ledig => k.forbruk = FasitForbruk(k.maned)

\* C2.4, the kroner follow the energy: each interval counts once, with the
\* price of its own hour and the support cap at its own place in the month,
\* however many times it got more energy or another sample.
KronerFolgerEnergien ==
  Ledig /\ ForesAvBoken(bok, k.maned) => k.kroner = FasitKroner(k.maned, TimerI(k.maned))

\* The cost of the day is that of the day's own intervals, also when an hour of
\* yesterday got energy this morning.
DagskostForDagen ==
  Ledig /\ ForesAvBoken(bok, k.maned) =>
    k.dagskost = FasitKroner(k.maned, {h \in TimerI(k.maned) : Dogn[h] = k.dato})

\* The closed month takes its late tail: what is shown as the previous month is
\* all its energy, its kroner and its peaks, though the clock had closed it, and
\* the weekly peaks as they were at its end.  Its cost holds one fixed fee, that
\* of the tariff it was closed with on those peaks, whatever tariff the entry has
\* had since, and a fee nobody knows is not shown as known.
ForrigeManedStemmer ==
  LET f == k.forrige
      m == f.navn
      t == hel.lukket.tariff
      siste == Max({h \in Timer : ManedAv[h] = m})
      g == Grunnlag(t, f.topp, f.uke)
      fee == IF f.topp = <<>> /\ t.metode \in Trinnbaserte THEN 0 ELSE ForGrunnlag(t, g)
  IN  Ledig /\ m # Ingen =>
        /\ f.forbruk = FasitForbruk(m)
        /\ Over(f.topp) = FasitTopp(TimerI(m))
        /\ hel.lukket.arlig =>
             UkerStemmer(f.uke, siste, Dogn[siste])
        /\ f.kroner = FasitKroner(m, TimerI(m)) + fee
        /\ f.bekreftet => ~ BelopUkjent(t, g)

\* The peaks of the month are those of its own hours that had ended at the last
\* poll, with all the energy each of them got, late energy too; never of an hour
\* of the month before, which the book may still be keeping.
ToppeneErManedens ==
  Ledig => k.topp = FasitTopp({h \in TimerI(k.maned) : h < Time(hel.poll)})

\* The running year: as long as weekly peaks are kept, each week shows its highest
\* hour that had ended at the last poll, with the date it fell on, over month
\* boundaries, late tails and restarts, and none that is older than the window.
UkestoppeneStemmer ==
  LET sist == Time(hel.poll)
  IN  Ledig /\ hel.arlig =>
        UkerStemmer(k.uke, sist - 1, Dogn[sist])

\* No stale read and no forgotten refresh, whatever the poll does with the book between
\* two awaits (the two predicates are stated with the operators in Avregning): what
\* _bygg serves and what maanedssum adds up is what the posts, the routes and the flag
\* give now.
CacheErFersk == CacheFersk(bok) /\ BidragFersk(bok)

\* C6, the price is fixed when an interval closes: a step that is not a restart gives an
\* hour that is over, and still kept, no other price, though the poll that books its last
\* energy has first registered a sample of the hour after it.
PrisStaarFast ==
  [][omstarter' = omstarter =>
       \A h \in DOMAIN bok.poster \cap DOMAIN bok'.poster :
         (h + 1) * TikkPerTime <= naa =>
           Prisintervall(bok'.ruter, h) = Prisintervall(bok.ruter, h)]_vars

=============================================================================

------------------------------ MODULE Avregning ------------------------------
(***************************************************************************)
(* The settlement kernel, custom_components/stromkalkulator/avregning.py,  *)
(* as operators on values: time and intervals, the pro-rata split of a     *)
(* meter delta, the price routes, and the book (class Avregningsbok) as a  *)
(* record with one operator per method.  No variables here: Avregningsbok  *)
(* turns the operators into a state machine, Koordinator calls them from   *)
(* the poll, and AvregningProofs proves what each of them preserves.       *)
(*                                                                         *)
(* Abstractions.  Instants are ticks; a price route is TikkPerRute ticks   *)
(* and a settlement interval (a UTC hour) is RuterPerTime routes, so hours *)
(* and routes are numbers.  The local calendar enters only through the     *)
(* month of an hour (ManedAv) and the day/night tariff (Dagtimer): both    *)
(* are decided by the start of the interval alone (contract A1).  Energy   *)
(* is counted in a unit small enough for every pro-rata share to be whole, *)
(* and the price of an hour is kept as the samples it is the mean of.      *)
(***************************************************************************)
EXTENDS Integers, FiniteSets, FiniteSetsExt, Functions

CONSTANTS
  SisteTime,      \* the hours of the model are 0 .. SisteTime
  TikkPerRute,    \* ticks in a price route (15 minutes in the code)
  RuterPerTime,   \* price routes in an hour (60 / opplosning_minutter)
  SettleTikk,     \* PRIS_SETTLE_SEKUNDER
  Lagringsvindu,  \* LAGRINGSVINDU, in hours
  MaksDelta,      \* MAX_ENERGY_DELTA_KWH
  MaksEstimertVindu, \* MAX_ELAPSED_HOURS, in ticks
  ManedAv,        \* the billing month each hour belongs to (lokal_maned)
  Dagtimer,       \* the hours with the day tariff (Tariffregel.tariff)
  Kilder,         \* source identities of energy sensors
  Estimerte,      \* those that are power sensors: their readings are estimates
  Ingen           \* None

Timer == 0 .. SisteTime

TikkPerTime == TikkPerRute * RuterPerTime

ASSUME TidAssumption ==
  /\ SisteTime \in Nat
  /\ TikkPerRute \in Nat \ {0}
  /\ RuterPerTime \in Nat \ {0}
  /\ SettleTikk \in Nat
  /\ Lagringsvindu \in Nat

ASSUME GrenseAssumption ==
  /\ MaksDelta \in Nat
  /\ MaksEstimertVindu \in Nat

\* Months are compared as the strings YYYY-MM are: in calendar order.
ASSUME KalenderAssumption ==
  /\ ManedAv \in [Timer -> Nat]
  /\ \A g, h \in Timer : g <= h => ManedAv[g] <= ManedAv[h]
  /\ Dagtimer \subseteq Timer
  /\ Ingen \notin {ManedAv[h] : h \in Timer}

ASSUME KildeAssumption ==
  /\ Estimerte \subseteq Kilder
  /\ Ingen \notin Kilder

Maneder == {ManedAv[h] : h \in Timer}

\* Instants a reading or a poll can carry, and the routes of the model.
Tikk == 0 .. (SisteTime + 1) * TikkPerTime - 1
Ruter == 0 .. (SisteTime + 1) * RuterPerTime - 1

-----------------------------------------------------------------------------
(***************************************************************************)
(* Time and the pro-rata split.                                            *)
(***************************************************************************)

\* intervallstart: the hour an instant falls in (half-open intervals).
Time(t) == t \div TikkPerTime

\* prisrutestart: the price route an instant falls in.
Rute(t) == t \div TikkPerRute

TimeForRute(r) == r \div RuterPerTime

MinstAv(a, b) == IF a <= b THEN a ELSE b
StorstAv(a, b) == IF a <= b THEN b ELSE a

\* The ticks of hour h that lie in the window (fra, til].
Overlapp(h, fra, til) ==
  MinstAv(til, (h + 1) * TikkPerTime) - StorstAv(fra, h * TikkPerTime)

\* fordel_delta: the delta spread evenly over the window, per hour.
FordelDelta(fra, til, delta) ==
  [h \in Time(fra) .. Time(til - 1) |->
      (delta * Overlapp(h, fra, til)) \div (til - fra)]

-----------------------------------------------------------------------------
(***************************************************************************)
(* Prisadapter: the latest accepted sample of each route.                  *)
(***************************************************************************)

\* The order registrer uses between two samples of one route: by poll time,
\* then by value.
Eldre(p, q) ==
  \/ p.polltid < q.polltid
  \/ p.polltid = q.polltid /\ p.verdi < q.verdi

\* A sample closer to the start of its route than the settle time is dropped.
Godtas(t) == t - Rute(t) * TikkPerRute >= SettleTikk

\* Mutants of Registrer: the sample is carried into the route before; the
\* order of the calls decides instead of the poll time.
RegistrerIForrigeRute(ruter, p) ==
  LET r == StorstAv(0, Rute(p.polltid) - 1)
  IN  [x \in DOMAIN ruter \cup {r} |-> IF x = r THEN p ELSE ruter[x]]

RegistrerSistKalt(ruter, p) ==
  [x \in DOMAIN ruter \cup {Rute(p.polltid)} |->
     IF x = Rute(p.polltid) THEN p ELSE ruter[x]]

\* Prisadapter.registrer, given that the sample is accepted.
Registrer(ruter, p) ==
  LET r == Rute(p.polltid)
  IN  IF r \in DOMAIN ruter /\ ~ Eldre(ruter[r], p)
      THEN ruter
      ELSE [x \in DOMAIN ruter \cup {r} |-> IF x = r THEN p ELSE ruter[x]]

\* Prisadapter.ruter_i and prisintervall: the price of hour h is the
\* unweighted mean of these samples, whatever the missing routes.
Prisintervall(ruter, h) ==
  [r \in {x \in DOMAIN ruter : TimeForRute(x) = h} |-> ruter[r].verdi]

\* Prisintervall.kvalitet.
Priskvalitet(pris) ==
  CASE DOMAIN pris = {} -> "uten_pris"
    [] DOMAIN pris # {} /\ Cardinality(DOMAIN pris) < RuterPerTime -> "delvis_pris"
    [] OTHER -> "komplett"

\* Prisadapter.glem_for at the start of month m.
GlemFor(ruter, m) ==
  Restrict(ruter, {r \in DOMAIN ruter : ManedAv[TimeForRute(r)] >= m})

\* Prisadapter.til_lagring(fra): the routes from hour h on.
RuterFra(ruter, h) ==
  Restrict(ruter, {r \in DOMAIN ruter : TimeForRute(r) >= h})

-----------------------------------------------------------------------------
(***************************************************************************)
(* Avregningsbok: the book as a record.                                    *)
(*   poster   energy booked per hour of the active month (_poster)         *)
(*   ruter    the price adapter's routes (pris._ruter)                     *)
(*   bygget   finished intervals, the read cache (_bygget)                 *)
(*   bidrag   what each hour contributed to the running sums (_bidrag)     *)
(*   skitne   hours whose contribution must be refreshed (_skitne)         *)
(*   sum      the running sums (_sum_total, _sum_dag, ...)                 *)
(*   ferdige  intervals folded into the sums (_ferdige_intervaller)        *)
(*   sist     last treated reading, baseline of the next delta             *)
(*   aktiv    the month the book is keeping, arkiv the closed ones         *)
(*   avvist   rejected energy this month, ufullstendig the migration flag  *)
(***************************************************************************)
NullSum == [total |-> 0, dag |-> 0, natt |-> 0, uten |-> 0, delvis |-> 0]

TomBok(ufullstendig) ==
  [poster |-> <<>>, ruter |-> <<>>, bygget |-> <<>>, bidrag |-> <<>>,
   skitne |-> {}, sum |-> NullSum, ferdige |-> 0, sist |-> Ingen,
   aktiv |-> Ingen, arkiv |-> <<>>, avvist |-> 0,
   ufullstendig |-> ufullstendig]

\* The interval _bygg makes from the post, the routes and the flag.
NyttIntervall(b, h) ==
  LET pris == Prisintervall(b.ruter, h)
  IN  [kwh |-> b.poster[h].kwh,
       energikvalitet |-> b.poster[h].energikvalitet,
       pris |-> pris,
       kvalitet |-> IF b.ufullstendig THEN "ufullstendig"
                                      ELSE Priskvalitet(pris)]

\* _bygg: the cached interval if there is one.
Bygg(b, h) ==
  IF h \in DOMAIN b.bygget THEN b.bygget[h] ELSE NyttIntervall(b, h)

\* What an interval adds to the running sums.
BidragAv(i) == [kwh |-> i.kwh, kvalitet |-> Priskvalitet(i.pris)]

\* The sums over a function from hours to contributions.
SumAv(bidrag) ==
  LET Kwh(S) == MapThenSumSet(LAMBDA h : bidrag[h].kwh, S)
      alle == DOMAIN bidrag
  IN  [total  |-> Kwh(alle),
       dag    |-> Kwh(alle \cap Dagtimer),
       natt   |-> Kwh(alle \ Dagtimer),
       uten   |-> Kwh({h \in alle : bidrag[h].kvalitet = "uten_pris"}),
       delvis |-> Kwh({h \in alle : bidrag[h].kvalitet = "delvis_pris"})]

Pluss(s, t) ==
  [total |-> s.total + t.total, dag |-> s.dag + t.dag, natt |-> s.natt + t.natt,
   uten |-> s.uten + t.uten, delvis |-> s.delvis + t.delvis]

Minus(s, t) ==
  [total |-> s.total - t.total, dag |-> s.dag - t.dag, natt |-> s.natt - t.natt,
   uten |-> s.uten - t.uten, delvis |-> s.delvis - t.delvis]

\* maanedssum's side effect: for every dirty hour the old contribution is
\* taken out and a new one, of the interval _bygg gives, is put in.
Oppdater(b) ==
  LET gamle == b.skitne \cap DOMAIN b.bidrag
      nye == b.skitne \cap DOMAIN b.poster
      nyttBidrag == [h \in nye |-> BidragAv(Bygg(b, h))]
  IN  [b EXCEPT
         !.bygget = [h \in DOMAIN b.bygget \cup nye |-> Bygg(b, h)],
         !.bidrag = [h \in (DOMAIN b.bidrag \ gamle) \cup nye |->
                       IF h \in nye THEN nyttBidrag[h] ELSE b.bidrag[h]],
         !.sum = Pluss(Minus(b.sum, SumAv(Restrict(b.bidrag, gamle))),
                       SumAv(nyttBidrag)),
         !.skitne = {}]

\* maanedssum's result.
Maanedssum(b) ==
  LET o == Oppdater(b)
  IN  [sum |-> o.sum, avvist |-> b.avvist,
       antall |-> b.ferdige + Cardinality(DOMAIN b.poster)]

\* intervaller: every post is built, and what was built stays in the cache.
Bygd(b) == [b EXCEPT !.bygget = [h \in DOMAIN b.poster |-> Bygg(b, h)]]

\* Mutant of RegistrerPrisprove: the cached interval survives the sample.
PrisproveBeholderBygget(b, p) ==
  LET h == TimeForRute(Rute(p.polltid))
  IN  IF ~ Godtas(p.polltid) THEN b
      ELSE [b EXCEPT !.ruter = Registrer(b.ruter, p),
                     !.skitne = b.skitne \cup ({h} \cap DOMAIN b.poster)]

\* registrer_prisprove: an accepted sample also drops the cached interval and
\* marks the hour dirty, whether or not the sample replaced another.
RegistrerPrisprove(b, p) ==
  LET h == TimeForRute(Rute(p.polltid))
  IN  IF ~ Godtas(p.polltid) THEN b
      ELSE [b EXCEPT !.ruter = Registrer(b.ruter, p),
                     !.bygget = Restrict(b.bygget, DOMAIN b.bygget \ {h}),
                     !.skitne = b.skitne \cup ({h} \cap DOMAIN b.poster)]

-----------------------------------------------------------------------------
(***************************************************************************)
(* bokfor.  The result is the book and the Bokforing record; "fordeling"   *)
(* holds the hours that received energy.                                   *)
(***************************************************************************)
Svar(b, utfall, bokfort, avvist, fordeling) ==
  [bok |-> b, utfall |-> utfall, bokfort |-> bokfort, avvist |-> avvist,
   fordeling |-> fordeling]

UtenEnergi(b, utfall) == Svar(b, utfall, 0, 0, <<>>)

\* The loop body of _fordel for the hours of one month: the posts grow, the
\* cached intervals go, the hours become dirty.
Legg(b, del, estimert) ==
  LET Post(h) == IF h \in DOMAIN b.poster THEN b.poster[h]
                 ELSE [kwh |-> 0, energikvalitet |-> "malt"]
      Okt(h) == [kwh |-> Post(h).kwh + del[h],
                 energikvalitet |-> IF estimert THEN "estimert"
                                                ELSE Post(h).energikvalitet]
  IN  [b EXCEPT
         !.poster = [h \in DOMAIN b.poster \cup DOMAIN del |->
                       IF h \in DOMAIN del THEN Okt(h) ELSE b.poster[h]],
         !.bygget = Restrict(b.bygget, DOMAIN b.bygget \ DOMAIN del),
         !.skitne = b.skitne \cup DOMAIN del]

\* What _arkiver leaves behind when month m becomes the active one.
NyManed(b, m) ==
  [b EXCEPT !.poster = <<>>, !.bygget = <<>>, !.skitne = {}, !.bidrag = <<>>,
            !.sum = NullSum, !.ferdige = 0, !.avvist = 0, !.aktiv = m,
            !.ufullstendig = FALSE, !.ruter = GlemFor(b.ruter, m)]

\* The book while _fordel fills month m: as it was if m is the active month,
\* just opened if the window has carried it past a month boundary.
ForManed(b, m, fordeling, estimert) ==
  LET del == Restrict(fordeling, {h \in DOMAIN fordeling : ManedAv[h] = m})
  IN  Legg(IF m = b.aktiv THEN b ELSE NyManed(b, m), del, estimert)

\* Mutant of LukkesVed: the month just opened is archived as well.
LukkesTilOgMed(aktiv, maneder, ny) == {m \in {aktiv} \cup maneder : m <= ny}

\* The months _fordel archives on the way from the active month to ny.
LukkesVed(aktiv, maneder, ny) == {m \in {aktiv} \cup maneder : m < ny}

\* _fordel.  The window's hours come in order, so the months it passes are
\* archived one by one, each with the sums of its own hours; hours before the
\* active month are rejected.
Fordel(b, a, delta) ==
  LET fordeling == FordelDelta(b.sist.tid, a.tid, delta)
      estimert == a.kilde \in Estimerte
      b0 == IF b.aktiv = Ingen
            THEN [b EXCEPT !.aktiv = ManedAv[Time(b.sist.tid)]] ELSE b
      ny == ManedAv[Time(a.tid - 1)]
      bak == {h \in DOMAIN fordeling : ManedAv[h] < b0.aktiv}
      landet == Restrict(fordeling, DOMAIN fordeling \ bak)
      avvist == MapThenSumSet(LAMBDA h : fordeling[h], bak)
      lukkes == LukkesVed(b0.aktiv, {ManedAv[h] : h \in DOMAIN landet}, ny)
      sisteBok == IF ny < b0.aktiv THEN b0
                  ELSE ForManed(b0, ny, fordeling, estimert)
      arkiv == [m \in DOMAIN b.arkiv \cup lukkes |->
                  IF m \in lukkes
                  THEN Maanedssum(ForManed(b0, m, fordeling, estimert))
                  ELSE b.arkiv[m]]
  IN  Svar([sisteBok EXCEPT !.arkiv = arkiv, !.sist = a, !.avvist = @ + avvist],
           IF DOMAIN landet # {} THEN "bokfort" ELSE "avvist_arkivert",
           MapThenSumSet(LAMBDA h : landet[h], DOMAIN landet), avvist, landet)

\* Mutant of BokforDelta: a rejected jump is not counted.
SprangUtenAvvist(b, a, delta) ==
  IF delta < 0 \/ delta > MaksDelta
  THEN UtenEnergi([b EXCEPT !.sist = a], "avvist_sprang")
  ELSE Fordel(b, a, delta)

\* The part _bokfor_teller and _bokfor_estimert share: a negative or a too
\* large delta moves the baseline and books nothing.
BokforDelta(b, a, delta) ==
  LET flyttet == [b EXCEPT !.sist = a]
  IN  CASE delta < 0 -> UtenEnergi(flyttet, "avvist_negativ")
        [] delta > MaksDelta ->
             Svar([flyttet EXCEPT !.avvist = @ + delta], "avvist_sprang",
                  0, delta, <<>>)
        [] OTHER -> Fordel(b, a, delta)

\* _bokfor_estimert: the value is the energy of the window, and a window that
\* is too long is dropped whole.
BokforEstimert(b, a) ==
  IF a.tid - b.sist.tid > MaksEstimertVindu
  THEN UtenEnergi([b EXCEPT !.sist = a], "avvist_for_langt_vindu")
  ELSE BokforDelta(b, a, a.verdi)

\* _bokfor_teller: the value is the meter's reading.
BokforTeller(b, a) == BokforDelta(b, a, a.verdi - b.sist.verdi)

\* bokfor: the early returns in the order of the contract (C2.2, C2.3, C1).  A
\* new book or another source moves the baseline; a second reading of the same
\* instant leaves it, so that the next delta is measured from a known value.
Bokfor(b, a) ==
  IF b.sist = Ingen \/ b.sist.kilde # a.kilde
  THEN UtenEnergi([b EXCEPT !.sist = a], "baseline")
  ELSE IF b.sist = a THEN UtenEnergi(b, "duplikat")
  ELSE IF a.tid < b.sist.tid THEN UtenEnergi(b, "forsinket")
  ELSE IF a.tid = b.sist.tid THEN UtenEnergi(b, "avvist_nullvindu")
  ELSE IF a.kilde \in Estimerte THEN BokforEstimert(b, a)
  ELSE BokforTeller(b, a)

-----------------------------------------------------------------------------
(***************************************************************************)
(* Persistence.                                                            *)
(***************************************************************************)

\* Mutant of TilLagring: the sums are written as they stand, not refreshed.
TilLagringUtenOppdatering(b, naa) ==
  LET fra == Time(naa) - Lagringsvindu
      beholdte == {h \in DOMAIN b.poster : h >= fra}
  IN  [skjema |-> 3, aktiv |-> b.aktiv, ufullstendig |-> b.ufullstendig,
       avvist |-> b.avvist,
       ferdige_sum |-> Minus(b.sum,
                             SumAv(Restrict(b.bidrag, beholdte \cap DOMAIN b.bidrag))),
       antall |-> b.ferdige + Cardinality(DOMAIN b.poster \ beholdte),
       sist |-> b.sist, ruter |-> RuterFra(b.ruter, fra),
       poster |-> Restrict(b.poster, beholdte), arkiv |-> b.arkiv]

\* til_lagring(naa) of a book whose sums are fresh: the posts and routes of the
\* window are kept, the rest of the month is folded into finished sums.
TilLagring(b, naa) ==
  LET fra == Time(naa) - Lagringsvindu
      beholdte == {h \in DOMAIN b.poster : h >= fra}
      o == Oppdater(b)
  IN  [skjema |-> 3, aktiv |-> b.aktiv, ufullstendig |-> b.ufullstendig,
       avvist |-> b.avvist,
       ferdige_sum |-> Minus(o.sum, SumAv(Restrict(o.bidrag, beholdte))),
       antall |-> b.ferdige + Cardinality(DOMAIN b.poster \ beholdte),
       sist |-> b.sist, ruter |-> RuterFra(b.ruter, fra),
       poster |-> Restrict(b.poster, beholdte), arkiv |-> b.arkiv]

\* A Store from before schema 3, and one that was never written.
GammeltLager == [skjema |-> 2]
TomtLager == [skjema |-> 0]

\* Mutant of FraLagring: the price routes are left behind.
FraLagringUtenRuter(l) ==
  IF l.skjema < 3 THEN TomBok(l = GammeltLager)
  ELSE [TomBok(l.ufullstendig) EXCEPT
          !.poster = l.poster, !.skitne = DOMAIN l.poster,
          !.sum = l.ferdige_sum, !.ferdige = l.antall, !.sist = l.sist,
          !.aktiv = l.aktiv, !.arkiv = l.arkiv, !.avvist = l.avvist]

\* Mutant of FraLagring: the hours that were kept are not marked dirty.
FraLagringUtenSkitne(l) ==
  IF l.skjema < 3 THEN TomBok(l = GammeltLager)
  ELSE [TomBok(l.ufullstendig) EXCEPT
          !.poster = l.poster, !.ruter = l.ruter,
          !.sum = l.ferdige_sum, !.ferdige = l.antall, !.sist = l.sist,
          !.aktiv = l.aktiv, !.arkiv = l.arkiv, !.avvist = l.avvist]

\* fra_lagring and migrer_lagring: an older schema gives an empty book marked
\* incomplete, nothing stored gives a fresh one, and a stored book starts with
\* every kept hour dirty.
FraLagring(l) ==
  CASE l = TomtLager -> TomBok(FALSE)
    [] l = GammeltLager -> TomBok(TRUE)
    [] OTHER ->
       [TomBok(l.ufullstendig) EXCEPT
          !.poster = l.poster, !.ruter = l.ruter, !.skitne = DOMAIN l.poster,
          !.sum = l.ferdige_sum, !.ferdige = l.antall, !.sist = l.sist,
          !.aktiv = l.aktiv, !.arkiv = l.arkiv, !.avvist = l.avvist]

-----------------------------------------------------------------------------
(***************************************************************************)
(* What a book is to satisfy between two calls.                            *)
(***************************************************************************)

\* The posts and the routes lie on the calendar, every post is in the active
\* month, an archived month comes before it, and a book that keeps no month
\* yet has neither posts nor archive.
StrukturOK(b) ==
  /\ DOMAIN b = DOMAIN TomBok(FALSE)
  /\ DOMAIN b.poster \subseteq Timer
  /\ DOMAIN b.ruter \subseteq Ruter
  /\ b.sist # Ingen => b.sist.tid \in Tikk
  /\ b.aktiv \in Maneder \cup {Ingen}
  /\ \A h \in DOMAIN b.poster : ManedAv[h] = b.aktiv
  /\ \A m \in DOMAIN b.arkiv : m \in Maneder /\ b.aktiv # Ingen /\ m < b.aktiv

\* No stale read: an interval served from the cache _bygget is the one that
\* would be built from the posts, the routes and the flag as they are now.
\* _bygg looks in the cache before anything else.
CacheFersk(b) ==
  \A h \in DOMAIN b.bygget :
    h \in DOMAIN b.poster /\ b.bygget[h] = NyttIntervall(b, h)

\* No forgotten refresh: an hour that is not marked dirty has contributed to
\* the running sums exactly what it holds now, so til_lagring finds a
\* contribution for every hour it keeps (it indexes _bidrag without a check).
BidragFersk(b) ==
  /\ DOMAIN b.bidrag \subseteq DOMAIN b.poster
  /\ \A h \in DOMAIN b.poster \ b.skitne :
       h \in DOMAIN b.bidrag /\ b.bidrag[h] = BidragAv(NyttIntervall(b, h))

=============================================================================

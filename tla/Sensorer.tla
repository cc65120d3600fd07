------------------------------ MODULE Sensorer ------------------------------
(***************************************************************************)
(* From a poll to what Home Assistant shows: coordinator.data, the         *)
(* notification of the entities in sensor.py, the state each of them has   *)
(* written, and the long-term statistics made of it.                       *)
(*                                                                         *)
(* A poll reads its clock and its inputs in one step, books and rolls the  *)
(* month over, and then awaits the save; the data is built and published   *)
(* after it.  The clock, a failure and a restart can come in between.      *)
(*                                                                         *)
(* Abstractions.  How energy is booked is the matter of Koordinator: here  *)
(* a poll books one amount to one tick, and the save of a rollover and of  *)
(* the poll are one.  DataUpdateCoordinator, the recorder and the          *)
(* statistics are Home Assistant's, modelled from how the code uses them.  *)
(***************************************************************************)
EXTENDS Sensorverdier

CONSTANTS
  SisteTikk,       \* bound: the clock stops here; a tick has one poll
  Oppsettene,      \* the settings a restart may come back with
  Spotpriser, Leverandorpriser,  \* what the price sensors may say
  Forbruk, Eksport,              \* kWh one poll may book
  CacheTid,        \* _SPOT_CACHE_MAX_AGE
  MaksOmstart,     \* bound: restarts
  Grace,           \* INPUT_UTFALL_GRACE_MINUTTER
  Entiteter        \* the entities that are followed

VARIABLES
  klokke,          \* dt_util.now()
  oppsett,         \* entry.data
  konto,           \* the coordinator's month, and the month closed last
  fil,             \* the Store
  spotlager, leverandorlager,   \* _last_spot_price and its supplier twin: <<>> or <<[pris, tid]>>
  sistGyldig,      \* _input_sist_gyldig of the spot price
  pollet,          \* the tick of the last poll of this process
  omstarter,       \* counts the restarts
  poll,            \* <<>>, or <<i>> of a poll that awaits its save
  data,            \* coordinator.data: <<>>, or <<[d, o, k, i]>>, d built from the rest
  ok,              \* last_update_success
  lagt,            \* the entities are added
  skrevet,         \* _last_state_written
  vist,            \* the state machine's state of each entity
  varslet,         \* the clock when the entities last wrote
  avlest,          \* the last reading of each price sensor, by any process
  statistikk,      \* sum, last value and last_reset of each TOTAL sensor
  perioder         \* what each TOTAL sensor last showed, by period

vars == <<klokke, oppsett, konto, fil, spotlager, leverandorlager, sistGyldig, pollet, omstarter, poll, data,
          ok, lagt, skrevet, vist, varslet, avlest, statistikk, perioder>>
prosess == <<spotlager, leverandorlager, sistGyldig, pollet, poll, data, ok, lagt, skrevet, vist>>

Totaler == Entiteter \cap (Maanedsvise \cup Dognvise)
Intet == [e \in Entiteter |-> Ingen]

TomForrige ==
  [navn |-> Ingen, forbruk |-> <<>>, eksport |-> 0, belop |-> 0,
   bekreftet |-> TRUE, bokfort |-> TRUE, kr |-> 1]

Init ==
  /\ klokke = 0
  /\ oppsett \in Oppsettene
  /\ konto = [maaned |-> Maaned(0), dato |-> Dogn(0), forbruk |-> <<>>, eksport |-> 0,
              forrige |-> TomForrige]
  /\ fil = konto
  /\ spotlager = Ingen /\ leverandorlager = Ingen /\ sistGyldig = Ingen
  /\ pollet = Ingen /\ omstarter = 0
  /\ poll = Ingen /\ data = Ingen /\ ok = TRUE /\ lagt = FALSE
  /\ skrevet = Intet /\ vist = Intet
  /\ varslet = 0
  /\ avlest = [spot |-> Ingen, leverandor |-> Ingen]
  /\ statistikk = [e \in Totaler |-> [sum |-> 0, sist |-> Ingen, reset |-> Ingen]]
  /\ perioder = [e \in Totaler |-> <<>>]

-----------------------------------------------------------------------------
Tikk ==
  /\ klokke < SisteTikk
  /\ klokke' = klokke + 1
  /\ UNCHANGED <<oppsett, konto, fil, prosess, omstarter, varslet, avlest, statistikk, perioder>>

\* A price sensor's reading, Ingen when it has none, and the cache of the last one.
NyttLager(lager, lest) == IF lest = Ingen THEN lager ELSE <<[pris |-> lest[1], tid |-> klokke]>>

\* Mutant of Brukbar: a price as old as the cache's age is still used.
BrukbarTilOgMed(lager) ==
  IF lager # Ingen /\ klokke - lager[1].tid <= CacheTid THEN <<lager[1].pris>> ELSE Ingen

\* A cached price is used while it is younger than the cache's age.
Brukbar(lager) == IF lager # Ingen /\ klokke - lager[1].tid < CacheTid THEN <<lager[1].pris>> ELSE Ingen

\* Energy that reaches the book, at a tick of the month the account is in.
Bokfort(k, t, kwh) ==
  IF kwh = 0 THEN k
  ELSE [k EXCEPT !.forbruk =
          (t :> (kwh + IF t \in DOMAIN k.forbruk THEN k.forbruk[t] ELSE 0)) @@ k.forbruk]

\* _handle_month_rollover: the month is archived when it is the one before, and what is
\* older leaves no previous month.
Arkiv(o, k) ==
  LET doegn == Doegnmaks(k.forbruk)
      g == Grunnlag(o.tariff, doegn, <<>>)
      uten == doegn = <<>> /\ o.tariff.metode \in Trinnbaserte
  IN  [navn |-> <<k.maaned>>, forbruk |-> k.forbruk, eksport |-> k.eksport,
       belop |-> IF uten THEN 0 ELSE ForGrunnlag(o.tariff, g),
       bekreftet |-> ~ BelopUkjent(o.tariff, g), bokfort |-> TRUE, kr |-> 1]

Rullet(o, k) ==
  [k EXCEPT !.maaned = Maaned(klokke), !.forbruk = <<>>, !.eksport = 0,
            !.forrige = IF k.maaned + 1 < Maaned(klokke) THEN TomForrige ELSE Arkiv(o, k)]

\* The account after the poll's energy: kWh of the month that runs out are booked
\* before the rollover, kWh of the new month after it.
Etter(o, k, t, kwh, eks) ==
  LET idag == [k EXCEPT !.dato = Dogn(klokke)]
      skifte == Maaned(klokke) # k.maaned
      eksport(x) == [x EXCEPT !.eksport = @ + eks]
  IN  IF skifte /\ Maaned(t) # k.maaned THEN eksport(Bokfort(Rullet(o, idag), t, kwh))
      ELSE IF skifte THEN Rullet(o, eksport(Bokfort(idag, t, kwh)))
      ELSE eksport(Bokfort(idag, t, kwh))

\* _async_update_data as far as the save: the inputs are read, the prices decided, and
\* the energy booked: of the tick, or the tail of the month that ran until then, late
\* energy of other ticks being Koordinator's matter.
Start(lest, leverandor, t, kwh, eks) ==
  /\ poll = Ingen
  /\ data = Ingen \/ lagt
  /\ pollet # <<klokke>>
  /\ pollet' = <<klokke>>
  /\ t = klokke \/ (Maaned(t) = konto.maaned /\ Maaned(t) # Maaned(klokke))
  /\ eks > 0 => oppsett.eksport
  /\ LET spot == NyttLager(spotlager, lest)
         lev == NyttLager(leverandorlager, leverandor)
         siden == IF lest # Ingen \/ sistGyldig = Ingen THEN klokke ELSE sistGyldig[1]
         pris == Brukbar(spot)
         gyldig == pris # Ingen
     IN  /\ spotlager' = spot
         /\ leverandorlager' = lev
         /\ sistGyldig' = <<siden>>
         /\ konto' = Etter(oppsett, konto, t, kwh, eks)
         /\ poll' = <<[naa |-> klokke, resultat |-> lest,
                       spot |-> IF gyldig THEN pris[1] ELSE 0, gyldig |-> gyldig,
                       leverandor |-> IF oppsett.leverandor THEN Brukbar(lev) ELSE Ingen,
                       problemer |->
                         IF lest # Ingen \/ klokke - siden <= Grace THEN {}
                         ELSE {IF gyldig THEN "utfall" ELSE "spot_utlopt"}]>>
         /\ avlest' = [spot |-> NyttLager(avlest.spot, lest),
                       leverandor |-> NyttLager(avlest.leverandor, leverandor)]
  /\ leverandor # Ingen => oppsett.leverandor
  /\ UNCHANGED <<klokke, oppsett, fil, omstarter, data, ok, lagt, skrevet, vist, varslet, statistikk,
                 perioder>>

\* The statistics of a TOTAL sensor: a new last_reset starts from zero, and without one
\* the change is added.
NyStatistikk(s, tilstand) ==
  IF tilstand = Utilgjengelig \/ tilstand[1].verdi = Ingen THEN s
  ELSE LET v == tilstand[1].verdi[1]
           r == tilstand[1].last_reset
           fra == IF s.sist = Ingen \/ r # s.reset THEN 0 ELSE s.sist[1]
       IN  [sum |-> s.sum + v - fra, sist |-> <<v>>, reset |-> r]

\* The period a value belongs to, from the account it was computed from.
Periode(e, k) == IF e \in Dognvise THEN k.dato ELSE k.maaned
NyPeriode(p, e, k, tilstand) ==
  IF tilstand = Utilgjengelig \/ tilstand[1].verdi = Ingen THEN p
  ELSE (Periode(e, k) :> tilstand[1].verdi[1]) @@ p

\* The entities in S write the states ny.
Skriv(S, ny, k) ==
  /\ vist' = [e \in Entiteter |-> IF e \in S THEN ny[e] ELSE vist[e]]
  /\ varslet' = klokke
  /\ statistikk' = [e \in Totaler |->
                      IF e \in S THEN NyStatistikk(statistikk[e], ny[e]) ELSE statistikk[e]]
  /\ perioder' = [e \in Totaler |-> NyPeriode(perioder[e], e, k, ny[e])]

\* The state of each entity, and the signature of each sensor.
Tilstander(n, d, lykkes) == [e \in Entiteter |-> Tilstand(e, n[e], d, lykkes, klokke)]
Signaturer(n, d, lykkes) ==
  [e \in Entiteter |-> IF e \in Binaere THEN Ingen ELSE <<Signatur(e, n[e], d, lykkes, klokke)>>]

\* _handle_coordinator_update: a sensor writes when its signature is a new one, a binary
\* sensor always.
Varsle(x, lykkes) ==
  \E n \in {Entitetene(x.d, klokke)} :
    /\ skrevet' = Signaturer(n, x.d, lykkes)
    /\ \E S \in {{e \in Entiteter \ Binaere : skrevet'[e] # skrevet[e]}},
          ny \in {Tilstander(n, x.d, lykkes)} :
         Skriv(S \cup (Entiteter \cap Binaere), ny, x.k)

\* The save is done, or failed with an OSError that is logged; the data is built and the
\* listeners are told.
Publiser(lagret) ==
  /\ poll # Ingen
  /\ data' = <<[d |-> Data(oppsett, konto, poll[1]), o |-> oppsett, k |-> konto, i |-> poll[1]]>>
  /\ IF lagt THEN Varsle(data'[1], TRUE)
     ELSE UNCHANGED <<skrevet, vist, varslet, statistikk, perioder>>
  /\ fil' = IF lagret THEN konto ELSE fil
  /\ ok' = TRUE
  /\ poll' = Ingen
  /\ UNCHANGED <<klokke, oppsett, konto, spotlager, leverandorlager, sistGyldig, pollet,
                 omstarter, lagt, avlest>>

\* The poll raises: the data stays, and the listeners are told the first time.
Feil ==
  /\ poll # Ingen
  /\ lagt
  /\ IF ok THEN Varsle(data[1], FALSE)
     ELSE UNCHANGED <<skrevet, vist, varslet, statistikk, perioder>>
  /\ ok' = FALSE
  /\ poll' = Ingen
  /\ UNCHANGED <<klokke, oppsett, konto, fil, spotlager, leverandorlager, sistGyldig, pollet,
                 omstarter, data, lagt, avlest>>

\* The platforms add their entities after the first refresh; each writes its state
\* without the signature.
LeggTil ==
  /\ ~ lagt
  /\ data # Ingen
  /\ lagt' = TRUE
  /\ LET x == data[1] IN Skriv(Entiteter, Tilstander(Entitetene(x.d, klokke), x.d, ok), x.k)
  /\ UNCHANGED <<klokke, oppsett, konto, fil, spotlager, leverandorlager, sistGyldig, pollet,
                 omstarter, poll, data, ok, skrevet, avlest>>

\* A restart, a reload with new settings, or a first refresh that raised.
Omstart(o) ==
  /\ omstarter < MaksOmstart
  /\ omstarter' = omstarter + 1
  /\ oppsett' = o
  /\ konto' = fil
  /\ spotlager' = Ingen /\ leverandorlager' = Ingen /\ sistGyldig' = Ingen
  /\ pollet' = Ingen /\ poll' = Ingen /\ data' = Ingen /\ ok' = TRUE /\ lagt' = FALSE
  /\ skrevet' = Intet /\ vist' = Intet
  /\ UNCHANGED <<klokke, fil, varslet, avlest, statistikk, perioder>>

Next ==
  \/ Tikk
  \/ \E lest \in {Ingen} \cup {<<p>> : p \in Spotpriser},
        leverandor \in {Ingen} \cup {<<p>> : p \in Leverandorpriser},
        t \in Max({0, klokke - 1}) .. klokke, kwh \in Forbruk, eks \in Eksport :
       Start(lest, leverandor, t, kwh, eks)
  \/ \E lagret \in BOOLEAN : Publiser(lagret)
  \/ Feil
  \/ LeggTil
  \/ \E o \in Oppsettene : Omstart(o)

Spec == Init /\ [][Next]_vars

-----------------------------------------------------------------------------
\* A value on display is the value of the last completed poll, attributes, availability
\* and last_reset included, although _handle_coordinator_update skips most writes.
VistErFersk ==
  lagt => LET d == data[1].d n == Entitetene(d, varslet) IN
    \A e \in Entiteter : vist[e] = Tilstand(e, n[e], d, ok, varslet)

\* What a poll does not know: the spot price when there is none, the running month's fee
\* when ledd says so, the previous month's when its basis is not confirmed; and the data
\* the poll would give with other values for them.
Ellers(x, ledd, pris, belop) ==
  DataMed(x.o,
          IF x.k.forrige.bekreftet THEN x.k ELSE [x.k EXCEPT !.forrige.belop = belop],
          IF x.i.gyldig THEN x.i ELSE [x.i EXCEPT !.spot = pris],
          IF ledd THEN belop ELSE Belop(x.o, x.k),
          IF ledd THEN {belop} ELSE Maanedsbelop(x.o, x.k))

\* A number on display without the flag fastledd_ukjent, and a number of the button's
\* report, is the same whatever those values are.  Today's cost is left out: it is not in
\* the table of input-og-konfig.md:388-398, and has neither the flag nor Ukjent.
UavhengigAvUkjent(x, ledd) ==
  LET d == x.d n == Entitetene(d, x.i.naa)
      a == Ellers(x, ledd, 3 * Terskel, 24) m == Entitetene(a, x.i.naa)
  IN  /\ Rapport(a) = Rapport(d)
      /\ \A e \in DOMAIN n \ {"daily_cost"} :
           (n[e].merket /\ d.fastledd_ukjent) \/ n[e].verdi = m[e].verdi

Grunnlaget(x) == Grunnlag(x.o.tariff, Doegnmaks(x.k.forbruk), <<>>)

\* No number rests on a spot price of 0.0 that stands for none, on a previous month's fee
\* whose basis is not confirmed, or on a fee of 0 that stands for one outside the table:
\* there is no table, or the basis is above where its source ends.
TallUtenGjetning ==
  data # Ingen => LET x == data[1] ledd == Ukjent(x.o.tariff, Grunnlaget(x)) IN
    (x.i.gyldig /\ ~ ledd /\ x.k.forrige.bekreftet) \/ UavhengigAvUkjent(x, ledd)

\* The same of every unknown fee, a customer's who has not chosen a fuse size included:
\* "Mangler valget, skal beløpet være Ukjent" (domain-rules.md:78), and the flag
\* fastledd_ukjent behaves the same as fastledd_mangler_sikringsvalg
\* (input-og-konfig.md:385-387).  _fastledd_ukjent leaves that customer out.
TallErKjent ==
  data # Ingen => LET x == data[1] ledd == BelopUkjent(x.o.tariff, Grunnlaget(x)) IN
    (x.i.gyldig /\ ~ ledd /\ x.k.forrige.bekreftet) \/ UavhengigAvUkjent(x, ledd)

\* The long-term statistics of a sensor that starts again add up to what it last showed
\* in each period: last_reset arrives with the value it belongs to, and no period is
\* counted twice or taken back.
StatistikkStemmer ==
  \A e \in Totaler : statistikk[e].sum = SumFunction(perioder[e])

=============================================================================

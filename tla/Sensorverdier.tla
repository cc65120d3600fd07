---------------------------- MODULE Sensorverdier ----------------------------
(***************************************************************************)
(* What a poll computes for display and what each entity reads from it:    *)
(* the second half of _async_update_data with _build_data_dict in          *)
(* coordinator.py, and native_value, extra_state_attributes and last_reset *)
(* of every class in sensor.py, binary_sensor.py and the report of         *)
(* button.py.  No state: Sensorer is the state machine around it.          *)
(*                                                                         *)
(* A poll's result is built from three records:                            *)
(*   o   the settings: norgespris, tariff (see Fastledd), bolig, eksport,  *)
(*       leverandor (is there a supplier's price sensor), varsel           *)
(*   k   the account: maaned, dato, forbruk (kWh by tick of the month),    *)
(*       eksport (kWh), forrige (the month closed last)                    *)
(*   i   what the poll read: naa, resultat (of the spot sensor), spot,     *)
(*       gyldig, leverandor, problemer                                     *)
(* An optional value is <<>> or <<value>>, as Python's None is or is not.  *)
(*                                                                         *)
(* Abstractions.  The kroner a kWh is booked with are constants: which they *)
(* are is the matter of Koordinator and its ledger.  Prices have VAT,       *)
(* amounts are whole, and rounding is left out.  A day's peak is its        *)
(* largest tick.  An attribute that is computed from fields of the data    *)
(* stands for those fields.  Names of devices, units, notes and labels are *)
(* left out.                                                               *)
(***************************************************************************)
EXTENDS Fastledd, Sequences, TLC

CONSTANTS
  TikkPerDogn,     \* ticks in a day
  Dagtikk,         \* the ticks at the day rate
  Dagsats, Nattsats,          \* energiledd with taxes and VAT, by kWh
  Forbruksavgift, Enova,      \* the two taxes in it, with VAT
  Norgespris,      \* get_norgespris_inkl_mva
  Terskel,         \* get_stromstotte_terskel
  StotteMaks,      \* get_stromstotte_max_kwh, by kind of home
  NorgesprisMaks,  \* get_norgespris_max_kwh, by kind of home
  Kraft, Stotte, Komp, Diff,  \* kroner booked by kWh: power, support, the two Norgespris lines
  Eksportpris      \* kroner booked by exported kWh

Ingen == <<>>

Dogn(t) == t \div TikkPerDogn
Maaned(t) == Manedsdato[Dogn(t)]
ErDag(t) == t \in Dagtikk

\* maanedsvindu: the ticks of t's month; Manedsdato is sorted by date.
Dager(m) == {d \in DOMAIN Manedsdato : Manedsdato[d] = m}
Maanedslengde(t) == TikkPerDogn * Cardinality(Dager(Maaned(t)))
GaattAvMaaned(t) == t - TikkPerDogn * Min(Dager(Maaned(t)))

Dagkwh(f) == SumFunctionOnSet(f, {t \in DOMAIN f : ErDag(t)})
Nattkwh(f) == SumFunctionOnSet(f, {t \in DOMAIN f : ~ ErDag(t)})
Alt(f) == SumFunction(f)

\* _daily_max_power and _get_top_3_days: the peak of each day, the highest first.
Doegnmaks(f) ==
  [d \in {Dogn(t) : t \in DOMAIN f} |-> Max({f[t] : t \in {u \in DOMAIN f : Dogn(u) = d}})]
Topp3(f) ==
  LET maks == Doegnmaks(f)
      dager == Hoyeste(maks, 3)
      plass(d) == 1 + Cardinality({e \in dager : maks[e] > maks[d] \/ (maks[e] = maks[d] /\ e < d)})
  IN  [n \in 1 .. Cardinality(dager) |->
         LET d == CHOOSE x \in dager : plass(x) = n IN [dato |-> d, kw |-> maks[d]]]
Snitt(topp) ==
  IF topp = <<>> THEN 0
  ELSE (Skala * FoldFunction(+, 0, [n \in DOMAIN topp |-> topp[n].kw])) \div Len(topp)

\* _calculate_stromstotte: nine tenths of what is over the threshold, under the cap.
StotteFor(spot, kwh, bolig) ==
  IF kwh >= StotteMaks[bolig] \/ spot <= Terskel THEN 0 ELSE (9 * (spot - Terskel)) \div 10

\* fastledd_belop and the shares of the month: an unknown fee is nothing booked.
Andel(belop, tikk, t) == (SumSet(belop) * tikk) \div Maanedslengde(t)

-----------------------------------------------------------------------------
\* The fields of coordinator.data, in the groups they are computed in.

\* The text for the step of a basis: an unknown fee and a missing fuse size have theirs,
\* a row of the fuse table its label.
Trinntekst(tariff, g) ==
  CASE Ukjent(tariff, g) -> "ukjent"
    [] BelopUkjent(tariff, g) -> "mangler sikringsvalg"
    [] tariff.metode = "OV_TREFASE" -> "sikring"
    [] tariff.metode = "FEM_VEKTET_AR" -> ToString(g)
    [] OTHER -> ToString(TrinnFor(tariff, g))

\* The fixed fee of the running month and the distance to the next step.  belop is
\* what is shown for it, zero when no amount is known.
Trinnfelt(o, k, belop) ==
  LET g == Grunnlag(o.tariff, Doegnmaks(k.forbruk), <<>>)
      n == TrinnFor(o.tariff, g)
      topp == Topp3(k.forbruk)
      ukjent == Ukjent(o.tariff, g)
      trinnvis == o.tariff.metode \in Trinnbaserte /\ o.tariff.trinn # <<>>
      harNeste == trinnvis /\ n < Len(o.tariff.trinn)
                  /\ ILavereTrinn(g, o.tariff.trinn[n].under, o.tariff.inkludert)
      margin == IF harNeste THEN Skala * o.tariff.trinn[n].under - g ELSE 0
      neste == IF harNeste THEN o.tariff.trinn[n + 1].kr ELSE belop
  IN  [kapasitetsledd |-> belop,
       kapasitetstrinn_nummer |->
         IF BelopUkjent(o.tariff, g) THEN Ingen
         ELSE IF trinnvis THEN <<n>>
         ELSE IF o.tariff.metode = "OV_TREFASE" THEN <<1>> ELSE Ingen,
       kapasitetstrinn_intervall |-> Trinntekst(o.tariff, g),
       fastledd_metode |-> o.tariff.metode,
       fastledd_grunnlag_kw |-> g,
       fastledd_ukjent |-> ukjent,
       fastledd_mangler_sikringsvalg |->
         o.tariff.metode = "OV_TREFASE" /\ o.tariff.sikring = {},
       margin_neste_trinn_kw |-> margin,
       neste_trinn_pris |-> neste,
       kapasitet_varsel |-> ~ (margin = 0 /\ neste = belop) /\ margin < o.varsel,
       top_3_days |-> topp,
       avg_top_3_kw |-> Snitt(topp)]

\* The prices by kWh.
Prisfelt(o, k, i, belop) ==
  LET kwh == Alt(k.forbruk)
      energiledd == IF ErDag(i.naa) THEN Dagsats ELSE Nattsats
      fastledd == belop \div Maanedslengde(i.naa)
      stotte == StotteFor(i.spot, kwh, o.bolig)
      overTak == kwh >= NorgesprisMaks[o.bolig]
      iOrdningen == IF overTak THEN i.spot ELSE Norgespris
      din == IF o.norgespris THEN iOrdningen ELSE i.spot - stotte
      utenStotte == IF o.norgespris THEN iOrdningen ELSE i.spot
      nett == energiledd + fastledd
  IN  [energiledd |-> energiledd, energiledd_dag |-> Dagsats, energiledd_natt |-> Nattsats,
       is_day_rate |-> ErDag(i.naa),
       kapasitetsledd_per_kwh |-> fastledd,
       spot_price |-> i.spot, spot_price_valid |-> i.gyldig,
       boligtype |-> o.bolig,
       stromstotte |-> stotte,
       spotpris_etter_stotte |-> i.spot - stotte,
       stromstotte_tak_naadd |-> kwh >= StotteMaks[o.bolig],
       stromstotte_gjenstaaende_kwh |-> Max({0, StotteMaks[o.bolig] - kwh}),
       norgespris |-> Norgespris,
       har_norgespris |-> o.norgespris,
       norgespris_over_tak |-> overTak,
       strompris_norgespris |-> iOrdningen,
       total_pris_norgespris |-> iOrdningen + nett,
       total_price |-> din + nett,
       total_price_uten_stotte |-> utenStotte + nett,
       total_price_inkl_avgifter |-> din + nett,
       strompris_per_kwh |-> utenStotte + energiledd,
       strompris_per_kwh_etter_stotte |-> din + energiledd,
       kroner_spart_per_kwh |->
         (IF o.norgespris THEN i.spot - stotte + nett ELSE iOrdningen + nett) - (din + nett),
       offentlige_avgifter |-> Forbruksavgift + Enova,
       electricity_company_price |-> i.leverandor,
       electricity_company_total |-> [n \in DOMAIN i.leverandor |-> i.leverandor[n] + nett],
       input_problemer |-> i.problemer,
       maaledata_problem |-> i.problemer # {}]

\* What the running month has booked.  fastledd is {} or {kr}, the month's fee.
Bokfortfelt(o, k, i, fastledd) ==
  LET dag == Dagkwh(k.forbruk) natt == Nattkwh(k.forbruk) kwh == Alt(k.forbruk)
      avgift == Forbruksavgift + Enova
      kapasitet == Andel(fastledd, GaattAvMaaned(i.naa), i.naa)
      idag == {t \in DOMAIN k.forbruk : Dogn(t) = k.dato}
      energi(T) == SumFunctionOnSet([t \in DOMAIN k.forbruk |->
                     k.forbruk[t] * (Kraft + IF ErDag(t) THEN Dagsats ELSE Nattsats)], T)
      kostnad == energi(DOMAIN k.forbruk) + kapasitet
  IN  [current_month |-> k.maaned, current_date |-> k.dato,
       monthly_consumption_dag_kwh |-> dag,
       monthly_consumption_natt_kwh |-> natt,
       monthly_consumption_total_kwh |-> kwh,
       monthly_energiledd_dag_kr |-> (Dagsats - avgift) * dag,
       monthly_energiledd_natt_kr |-> (Nattsats - avgift) * natt,
       monthly_avgifter_kr |-> avgift * kwh,
       monthly_stromstotte_kr |-> Stotte * kwh,
       monthly_accumulated_cost_strom_kr |-> Kraft * kwh,
       monthly_accumulated_cost_energiledd_kr |->
         Dagsats * dag + Nattsats * natt,
       monthly_accumulated_cost_kapasitetsledd_kr |-> kapasitet,
       monthly_accumulated_cost_kr |-> kostnad,
       monthly_norgespris_diff_kr |-> Diff * kwh,
       monthly_norgespris_compensation_kr |-> Komp * kwh,
       daily_cost_kr |-> energi(idag) + Andel(fastledd, i.naa % TikkPerDogn, i.naa),
       eksport_konfigurert |-> o.eksport,
       monthly_export_kwh |-> k.eksport,
       monthly_export_revenue_kr |-> Eksportpris * k.eksport,
       monthly_cost_kr |-> kostnad,
       monthly_net_cost_kr |-> kostnad - Eksportpris * k.eksport]

\* The month closed last.  kr is 1, or 0 for an archive of an older version, which has
\* the kWh and not the kroner.
Forrigefelt(f) ==
  LET dag == Dagkwh(f.forbruk) natt == Nattkwh(f.forbruk) kwh == Alt(f.forbruk)
      topp == Topp3(f.forbruk)
      avgift == Forbruksavgift + Enova
      netto == Kraft * kwh + Dagsats * dag + Nattsats * natt + f.belop - Eksportpris * f.eksport
  IN  [previous_month_name |-> f.navn,
       previous_month_consumption_dag_kwh |-> dag,
       previous_month_consumption_natt_kwh |-> natt,
       previous_month_consumption_total_kwh |-> kwh,
       previous_month_top_3 |-> topp,
       previous_month_avg_top_3_kw |-> Snitt(topp),
       previous_month_fastledd_grunnlag_bekreftet |-> f.bekreftet,
       previous_month_kapasitetsledd |-> IF f.bekreftet THEN <<f.belop>> ELSE Ingen,
       previous_month_energiledd_dag_kr |-> f.kr * (Dagsats - avgift) * dag,
       previous_month_energiledd_natt_kr |-> f.kr * (Nattsats - avgift) * natt,
       previous_month_avgifter_kr |-> f.kr * avgift * kwh,
       previous_month_stromstotte_kr |-> f.kr * Stotte * kwh,
       previous_month_bokforte_kroner |-> f.bokfort,
       previous_month_norgespris_diff_kr |-> Diff * kwh,
       previous_month_norgespris_compensation_kr |-> Komp * kwh,
       previous_month_export_kwh |-> f.eksport,
       previous_month_export_revenue_kr |-> Eksportpris * f.eksport,
       previous_month_net_cost_kr |-> IF f.bekreftet THEN <<netto>> ELSE Ingen]

\* The month's fee as _async_update_data has it: shown, and booked when it is known.
Belop(o, k) == ForGrunnlag(o.tariff, Grunnlag(o.tariff, Doegnmaks(k.forbruk), <<>>))
Maanedsbelop(o, k) ==
  IF BelopUkjent(o.tariff, Grunnlag(o.tariff, Doegnmaks(k.forbruk), <<>>)) THEN {} ELSE {Belop(o, k)}

\* _build_data_dict with a fee given from outside, and with the code's own.
DataMed(o, k, i, belop, fastledd) ==
  Trinnfelt(o, k, belop) @@ Prisfelt(o, k, i, belop)
    @@ Bokfortfelt(o, k, i, fastledd) @@ Forrigefelt(k.forrige)

Data(o, k, i) == DataMed(o, k, i, Belop(o, k), Maanedsbelop(o, k))

\* FakturaRapportButton: the numbers of the report on the month closed last.  A fee whose
\* basis is not confirmed is a text.
RapportFelt ==
  {"previous_month_name", "previous_month_consumption_dag_kwh", "previous_month_consumption_natt_kwh",
   "previous_month_consumption_total_kwh", "previous_month_kapasitetsledd",
   "previous_month_avg_top_3_kw", "previous_month_norgespris_diff_kr",
   "previous_month_norgespris_compensation_kr"}
Rapport(d) == Restrict(d, RapportFelt)

-----------------------------------------------------------------------------
\* An entity: its value, the fields its attributes are of, and whether it gets the
\* flag fastledd_ukjent.  Attributes of the settings alone are left out.
Umerket(verdi, felt) == [verdi |-> verdi, felt |-> felt, merket |-> FALSE]
Merket(verdi, felt) == [verdi |-> verdi, felt |-> felt, merket |-> TRUE]

\* _spot_dependent: a value that needs the spot price, unless it is free of it.
SpotAvhengig(d, felt, fri) == IF d.spot_price_valid \/ fri THEN <<d[felt]>> ELSE Ingen

\* Mutant of FastprisAktiv: the cap is forgotten.
FastprisUtenTak(d) == d.har_norgespris

\* _norgespris_fastpris_aktiv.
FastprisAktiv(d) == d.har_norgespris /\ ~ d.norgespris_over_tak

\* A value that is built on a month's fee.
MedFastledd(d, x) == IF d.fastledd_ukjent THEN Ingen ELSE <<x>>

Trinnsensorer(d) ==
  [energiledd |-> Umerket(<<d.energiledd>>, {"is_day_rate", "energiledd_dag", "energiledd_natt"}),
   kapasitetstrinn |->
     Merket(IF d.fastledd_mangler_sikringsvalg THEN Ingen ELSE MedFastledd(d, d.kapasitetsledd),
            {"kapasitetstrinn_nummer", "kapasitetstrinn_intervall", "avg_top_3_kw", "fastledd_metode",
             "fastledd_grunnlag_kw", "fastledd_mangler_sikringsvalg", "top_3_days"}),
   margin_neste_trinn |->
     Umerket(MedFastledd(d, d.margin_neste_trinn_kw), {"kapasitetsledd", "neste_trinn_pris"})]

Toppsensorer(d) ==
  [total_price |-> Merket(SpotAvhengig(d, "total_price_uten_stotte", FALSE),
                          {"spot_price", "energiledd", "kapasitetsledd_per_kwh"}),
   maks_forbruk |-> Umerket([n \in DOMAIN d.top_3_days |-> d.top_3_days[n].kw], {"top_3_days"}),
   gjennomsnitt_forbruk |-> Umerket(<<d.avg_top_3_kw>>, {"kapasitetsledd"}),
   trinn_nummer |->
     Umerket(IF d.fastledd_ukjent THEN Ingen ELSE d.kapasitetstrinn_nummer, {}),
   trinn_intervall |-> Umerket(<<d.kapasitetstrinn_intervall>>, {})]

Leverandorsensorer(d) ==
  [offentlige_avgifter |-> Umerket(<<Forbruksavgift + Enova>>, {}),
   electricity_company_total |->
     Merket(d.electricity_company_total,
            {"electricity_company_price", "energiledd", "kapasitetsledd_per_kwh"}),
   strompris_per_kwh |-> Merket(SpotAvhengig(d, "strompris_per_kwh", FastprisAktiv(d)),
                                {"spot_price", "energiledd"})]

Stottesensorer(d) ==
  LET felt == {"spot_price", "stromstotte", "spotpris_etter_stotte", "energiledd",
               "kapasitetsledd_per_kwh"}
  IN  [stromstotte |-> Umerket(SpotAvhengig(d, "stromstotte", FALSE),
                               {"spot_price", "stromstotte_tak_naadd", "boligtype"}),
       spotpris_etter_stotte |-> Umerket(SpotAvhengig(d, "spotpris_etter_stotte", FALSE),
                                         {"spot_price", "stromstotte"}),
       total_pris_etter_stotte |-> Merket(SpotAvhengig(d, "total_price", FastprisAktiv(d)), felt),
       total_pris_inkl_avgifter |->
         Merket(SpotAvhengig(d, "total_price_inkl_avgifter", FastprisAktiv(d)),
                felt \cup {"offentlige_avgifter"})]

Norgesprissensorer(d) ==
  LET underTak == ~ d.norgespris_over_tak
  IN  [total_pris_norgespris |->
         Merket(SpotAvhengig(d, "total_pris_norgespris", underTak),
                {"norgespris", "energiledd", "kapasitetsledd_per_kwh", "norgespris_over_tak", "boligtype"}),
       strompris_norgespris |->
         Merket(SpotAvhengig(d, "strompris_norgespris", underTak),
                {"norgespris", "spot_price", "monthly_consumption_total_kwh",
                 "norgespris_over_tak", "boligtype"}),
       prisforskjell_norgespris |->
         Umerket(SpotAvhengig(d, "kroner_spart_per_kwh", FALSE),
                 {"norgespris", "spotpris_etter_stotte", "har_norgespris", "kroner_spart_per_kwh"})]

Fakturasensorer(d) ==
  [energiledd_dag |-> Umerket(<<d.energiledd_dag>>, {"energiledd_dag"}),
   energiledd_natt |-> Umerket(<<d.energiledd_natt>>, {"energiledd_natt"}),
   forbruksavgift |-> Umerket(<<Forbruksavgift>>, {}),
   enovaavgift |-> Umerket(<<Enova>>, {})]

Etterstottesensorer(d) ==
  [stromstotte_gjenstaaende |-> Umerket(<<d.stromstotte_gjenstaaende_kwh>>, {}),
   strompris_per_kwh_etter_stotte |->
     Umerket(SpotAvhengig(d, "strompris_per_kwh_etter_stotte", FastprisAktiv(d)),
             {"spot_price", "stromstotte", "energiledd"}),
   tariff |-> Umerket(<<IF d.is_day_rate THEN "dag" ELSE "natt">>, {"is_day_rate"})]

\* _bokfort_nettleie.
BokfortNettleie(d) ==
  d.monthly_accumulated_cost_energiledd_kr + d.monthly_accumulated_cost_kapasitetsledd_kr

Forbrukssensorer(d) ==
  LET kwh == {"monthly_consumption_dag_kwh", "monthly_consumption_natt_kwh"}
      bokfort == {"monthly_energiledd_dag_kr", "monthly_energiledd_natt_kr", "monthly_avgifter_kr"}
      kapasitet == {"monthly_accumulated_cost_kapasitetsledd_kr"}
  IN  [maanedlig_forbruk_dag |-> Umerket(<<d.monthly_consumption_dag_kwh>>, {}),
       maanedlig_forbruk_natt |-> Umerket(<<d.monthly_consumption_natt_kwh>>, {}),
       maanedlig_forbruk_total |-> Umerket(<<d.monthly_consumption_total_kwh>>, kwh),
       maanedlig_nettleie |->
         Merket(MedFastledd(d, BokfortNettleie(d)),
                bokfort \cup (IF d.fastledd_ukjent THEN {} ELSE kapasitet))]

Maanedssensorer(d) ==
  [maanedlig_avgifter |-> Umerket(<<d.monthly_avgifter_kr>>, {"monthly_avgifter_kr"}),
   maanedlig_stromstotte |-> Umerket(<<d.monthly_stromstotte_kr>>, {"stromstotte", "har_norgespris"}),
   maanedlig_total |->
     Merket(MedFastledd(d, BokfortNettleie(d) - d.monthly_stromstotte_kr),
            {"monthly_accumulated_cost_energiledd_kr", "monthly_accumulated_cost_kapasitetsledd_kr",
             "monthly_stromstotte_kr", "monthly_consumption_dag_kwh", "monthly_consumption_natt_kwh"})]

Differansesensorer(d) ==
  [maanedlig_norgespris_diff |-> Umerket(<<d.monthly_norgespris_diff_kr>>, {"har_norgespris"}),
   maanedlig_norgespris_kompensasjon |-> Umerket(<<d.monthly_norgespris_compensation_kr>>, {}),
   daily_cost |-> Umerket(<<d.daily_cost_kr>>, {})]

\* The estimate scales by the day of month of the clock at t, when the state is
\* written; the whole fee of the month is on top.
Estimat(d, t) ==
  LET variabel == d.monthly_accumulated_cost_energiledd_kr - d.monthly_stromstotte_kr
      dag == 1 + GaattAvMaaned(t) \div TikkPerDogn
  IN  (variabel * Cardinality(Dager(Maaned(t)))) \div dag + d.kapasitetsledd

Kostnadssensorer(d, t) ==
  [akkumulert_kostnad |->
     Merket(MedFastledd(d, d.monthly_accumulated_cost_kr),
            {"monthly_accumulated_cost_strom_kr", "monthly_accumulated_cost_energiledd_kr",
             "monthly_accumulated_cost_kapasitetsledd_kr", "monthly_consumption_total_kwh"}),
   estimated_monthly_cost |-> Umerket(MedFastledd(d, Estimat(d, t)), {})]

Forrigeforbruk(d) ==
  LET navn == {"previous_month_name"}
      dag == "previous_month_consumption_dag_kwh"
      natt == "previous_month_consumption_natt_kwh"
  IN  [forrige_maaned_forbruk_dag |-> Umerket(<<d[dag]>>, navn),
       forrige_maaned_forbruk_natt |-> Umerket(<<d[natt]>>, navn),
       forrige_maaned_forbruk_total |->
         Umerket(<<d.previous_month_consumption_total_kwh>>, navn \cup {dag, natt})]

\* The closed month's grid rent is unknown without a confirmed basis for its fee, and
\* when an archive of an older version has no booked kroner.
Forrigesensorer(d) ==
  LET navn == {"previous_month_name"}
      uten == IF ~ d.previous_month_fastledd_grunnlag_bekreftet
              THEN {"previous_month_fastledd_grunnlag_bekreftet"}
              ELSE IF d.previous_month_name # Ingen /\ ~ d.previous_month_bokforte_kroner
              THEN {"previous_month_bokforte_kroner"} ELSE {}
      ledd == {"previous_month_energiledd_dag_kr", "previous_month_energiledd_natt_kr",
               "previous_month_avgifter_kr"}
  IN  [forrige_maaned_nettleie |->
         IF uten # {} THEN Umerket(Ingen, navn \cup uten)
         ELSE Umerket(<<SumSet(Range(d.previous_month_kapasitetsledd))
                          + MapThenSumSet(LAMBDA f : d[f], ledd) - d.previous_month_stromstotte_kr>>,
                      navn \cup ledd \cup
                      {"previous_month_stromstotte_kr", "previous_month_kapasitetsledd",
                       "previous_month_avg_top_3_kw", "previous_month_norgespris_diff_kr"}),
       forrige_maaned_toppforbruk |->
         Umerket(<<d.previous_month_avg_top_3_kw>>, navn \cup {"previous_month_top_3"}),
       forrige_maaned_norgespris_kompensasjon |->
         Umerket(<<d.previous_month_norgespris_compensation_kr>>, navn)]

Eksportsensorer(d) ==
  [maanedlig_eksport_kwh |-> Umerket(<<d.monthly_export_kwh>>, {}),
   maanedlig_eksport_inntekt |->
     Umerket(<<d.monthly_export_revenue_kr>>, {"monthly_export_kwh", "monthly_export_revenue_kr"}),
   maanedlig_nettokostnad |->
     Merket(MedFastledd(d, d.monthly_net_cost_kr), {"monthly_cost_kr", "monthly_export_revenue_kr"})]

Forrigeeksport(d) ==
  [forrige_maaned_eksport_kwh |->
     Umerket(<<d.previous_month_export_kwh>>, {"previous_month_name"}),
   forrige_maaned_eksport_inntekt |->
     Umerket(<<d.previous_month_export_revenue_kr>>,
             {"previous_month_name", "previous_month_net_cost_kr"})]

\* The four binary sensors; one that is on or off has a value.
Binaersensorer(d) ==
  [kapasitet_varsel |-> Umerket(<<d.kapasitet_varsel>>, {"margin_neste_trinn_kw"}),
   maaledata_problem |-> Umerket(<<d.maaledata_problem>>, {"input_problemer", "spot_price_valid"}),
   norgespris_aktiv |-> Umerket(<<d.har_norgespris>>, {}),
   stromstotte_aktiv |->
     Umerket(IF d.spot_price_valid THEN <<d.stromstotte > 0>> ELSE Ingen,
             {"spot_price", "stromstotte", "boligtype"})]

\* Every entity of async_setup_entry, written when the clock is t.
Entitetene(d, t) ==
  Trinnsensorer(d) @@ Toppsensorer(d) @@ Leverandorsensorer(d) @@ Stottesensorer(d)
    @@ Norgesprissensorer(d) @@ Fakturasensorer(d) @@ Etterstottesensorer(d)
    @@ Forbrukssensorer(d) @@ Maanedssensorer(d) @@ Differansesensorer(d)
    @@ Kostnadssensorer(d, t) @@ Forrigeforbruk(d) @@ Forrigesensorer(d)
    @@ Eksportsensorer(d) @@ Forrigeeksport(d) @@ Binaersensorer(d)

Binaere == {"kapasitet_varsel", "maaledata_problem", "norgespris_aktiv", "stromstotte_aktiv"}
Eksportentiteter ==
  {"maanedlig_eksport_kwh", "maanedlig_eksport_inntekt", "maanedlig_nettokostnad",
   "forrige_maaned_eksport_kwh", "forrige_maaned_eksport_inntekt"}

\* _reset_periode: the sensors with state class TOTAL that start again.
Maanedsvise ==
  {"maanedlig_nettleie", "maanedlig_avgifter", "maanedlig_stromstotte", "maanedlig_total",
   "maanedlig_norgespris_diff", "maanedlig_norgespris_kompensasjon", "akkumulert_kostnad",
   "forrige_maaned_forbruk_dag", "forrige_maaned_forbruk_natt", "forrige_maaned_forbruk_total",
   "forrige_maaned_nettleie", "forrige_maaned_norgespris_kompensasjon",
   "maanedlig_eksport_inntekt", "maanedlig_nettokostnad",
   "forrige_maaned_eksport_kwh", "forrige_maaned_eksport_inntekt"}
Dognvise == {"daily_cost"}

\* Mutant of LastReset: the period is the clock's, not the data's.
LastResetNaa(e, d, t) ==
  CASE e \in Maanedsvise -> <<Maaned(t)>>
    [] e \in Dognvise -> <<Dogn(t)>>
    [] OTHER -> Ingen

\* last_reset: the label of the period, read from the data the value is of.  t is the
\* clock when the state is written.
LastReset(e, d, t) ==
  CASE e \in Maanedsvise -> <<d.current_month>>
    [] e \in Dognvise -> <<d.current_date>>
    [] OTHER -> Ingen

\* extra_state_attributes, with the flag of _merk_fastledd_ukjent.
Attributter(x, d) == <<Restrict(d, x.felt), x.merket /\ d.fastledd_ukjent>>

\* available: the last poll succeeded, and for the export sensors only that export is
\* set up.
Tilgjengelig(e, d, ok) == IF e \in Eksportentiteter THEN d.eksport_konfigurert ELSE ok

\* What Home Assistant shows for entity e, which is x.
Utilgjengelig == Ingen
Tilstand(e, x, d, ok, t) ==
  IF ~ Tilgjengelig(e, d, ok) THEN Utilgjengelig
  ELSE <<[verdi |-> x.verdi, attributter |-> Attributter(x, d), last_reset |-> LastReset(e, d, t)]>>

\* Mutant of Signatur: whether the entity is available is no part of it.
SignaturUtenTilgjengelig(e, x, d, ok, t) ==
  <<x.verdi, Attributter(x, d), LastReset(e, d, t)>>

\* The signature _handle_coordinator_update compares with the one it wrote last.
Signatur(e, x, d, ok, t) ==
  <<Tilgjengelig(e, d, ok), x.verdi, Attributter(x, d), LastReset(e, d, t)>>

=============================================================================

----------------------------- MODULE Diagnostikk -----------------------------
(***************************************************************************)
(* The diagnostics download: bygg_diagnostikk in diagnostikk.py.  It can   *)
(* be asked for at any time, while a poll awaits its save too.             *)
(*                                                                         *)
(* Abstractions.  Aliases and the cleaning of text are left out: the       *)
(* fields stand for themselves, and what the dump leaves out is not here.  *)
(***************************************************************************)
EXTENDS Sensorer

\* _input_roller_seksjon: the results as coordinator.data froze them.
InputRoller(x) == [spotpris |-> x.i.resultat]

\* _vakthold_seksjon: the problems of the data, with the watchdog's own memory as it is
\* now.
VaktholdSeksjon(x) ==
  [input_problemer |-> x.i.problemer, input_sist_gyldig |-> [spotpris |-> sistGyldig]]

\* _beregning_seksjon and _avregning_seksjon: fields of coordinator.data.
BeregningFelt ==
  {"spot_price", "spot_price_valid", "stromstotte", "energiledd", "total_price", "kapasitetsledd",
   "fastledd_metode", "fastledd_grunnlag_kw", "fastledd_ukjent", "current_month",
   "monthly_consumption_total_kwh", "monthly_accumulated_cost_kr"}
Beregning(x) == Restrict(x.d, BeregningFelt)
AvregningSeksjon(x) == [oppdatert |-> x.i.naa]

\* bygg_diagnostikk of an entry that is loaded.
Dump ==
  LET x == data[1]
  IN  [input_roller |-> InputRoller(x), vakthold |-> VaktholdSeksjon(x),
       beregning |-> Beregning(x), avregning |-> AvregningSeksjon(x)]

-----------------------------------------------------------------------------
\* A price can be traced.  What a poll computes with was read from the price sensor
\* less than the cache's age before the poll, however many polls and restarts have
\* reused it (_SPOT_CACHE_MAX_AGE); and the dump explains the price it shows: the
\* reading in it is the one the price was computed from, and beside a price that has
\* run out there is none.
PrisenErSporbar ==
  data # Ingen => LET i == data[1].i dump == Dump IN
    /\ i.gyldig => \E a \in Range(avlest.spot) : i.spot = a.pris /\ i.naa - a.tid < CacheTid
    /\ i.leverandor # Ingen =>
         \E a \in Range(avlest.leverandor) : i.leverandor = <<a.pris>> /\ i.naa - a.tid < CacheTid
    /\ \A p \in Range(dump.input_roller.spotpris) :
         dump.beregning.spot_price_valid /\ dump.beregning.spot_price = p
    /\ ~ dump.beregning.spot_price_valid => dump.input_roller.spotpris = Ingen

=============================================================================

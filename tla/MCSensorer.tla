----------------------------- MODULE MCSensorer -----------------------------
(***************************************************************************)
(* Constants of the display run.  Days of one tick, day rate and night     *)
(* rate in turn, and months of two days; the caps are a few kWh, so that a *)
(* month can pass them, and a price is old after two ticks.                *)
(***************************************************************************)
EXTENDS Diagnostikk

MCManedsdato == [d \in 0 .. 3 |-> d \div 2]
MCStotteMaks == [bolig |-> 3, fritid |-> 0]
MCNorgesprisMaks == [bolig |-> 3, fritid |-> 3]

MCTrinn ==
  [metode |-> "TRE_DOGNMAX_MND", inkludert |-> TRUE,
   trinn |-> <<[under |-> 2, kr |-> 8], [under |-> Uendelig, kr |-> 16]>>,
   grense |-> {3}, grenseInkludert |-> FALSE, lineaer |-> {}, sesong |-> <<>>, sikring |-> {}]
MCUtenTrinn == [MCTrinn EXCEPT !.trinn = <<>>]
MCUtenSikring == [MCUtenTrinn EXCEPT !.metode = "OV_TREFASE", !.grense = {}]

MCKunde(norgespris, tariff, eksport, leverandor) ==
  [norgespris |-> norgespris, tariff |-> tariff, bolig |-> "bolig", eksport |-> eksport,
   leverandor |-> leverandor, varsel |-> Skala]
MCSikringskunde == MCKunde(FALSE, MCUtenSikring, TRUE, FALSE)
MCOppsettene ==
  {MCKunde(TRUE, MCTrinn, TRUE, TRUE), MCKunde(FALSE, MCUtenTrinn, TRUE, FALSE), MCSikringskunde}
MCSikringskunder == {MCSikringskunde}

=============================================================================

----------------------------- MODULE MCEksportbok -----------------------------
(***************************************************************************)
(* Constants of the run on the price adapter and the export book: three    *)
(* hours of one route of two ticks; the first two are one month.  A price  *)
(* may be negative.  The file at the start holds no readable book but the  *)
(* sums of two months, of which one has energy without a price.            *)
(***************************************************************************)
EXTENDS Eksportbok

MCManedAv == [h \in Timer |-> IF h <= 1 THEN 0 ELSE 1]
MCDagtimer == {}
MCPriser == {2, -1}
MCInnganger ==
  {[pris |-> 2, effekt |-> 1], [pris |-> -1, effekt |-> 0],
   [pris |-> Ingen, effekt |-> 1]}

MCApninger ==
  {<<[kwh |-> 3, inntekt |-> 1, uten |-> 3], [kwh |-> 5, inntekt |-> -2, uten |-> 0]>>}

=============================================================================

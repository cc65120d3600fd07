---------------------------- MODULE MCKoordinator ----------------------------
(***************************************************************************)
(* Constants of the coordinator's runs.  The calendar is short: a month of *)
(* one hour and one of two; or months of one hour each, so that two        *)
(* boundaries can fall between two polls.  A day is an hour, a week two    *)
(* days, and weekly peaks count for three.                                 *)
(***************************************************************************)
EXTENDS Koordinator, TLC

MCManedAv == [h \in Timer |-> (h + 1) \div 2]
MCDogn == [h \in Timer |-> h]
MCTreManeder == [h \in Timer |-> h]
MCDagtimer == {h \in Timer : h % 2 = 1}

\* The month of a date, one before the model starts too.
MCManedsdato ==
  [d \in -2 .. SisteTime |-> IF d < 0 THEN -1 ELSE ManedAv[d]]

\* A weekly peak of the week before the model starts.
MCGamleUker == {(-2 :> [kw |-> 3, dato |-> -1])}
MCIngenUker == {<<>>}

\* Steps up to where the source's table ends; weekly peaks with a season factor
\* for the weeks that start in the first month, and with other amounts and no season.
MCTrinn ==
  [metode |-> "TRE_DOGNMAX_MND", inkludert |-> TRUE,
   trinn |-> <<[under |-> 1, kr |-> 1], [under |-> 2, kr |-> 5], [under |-> Uendelig, kr |-> 9]>>,
   grense |-> {2}, grenseInkludert |-> FALSE, lineaer |-> {}, sesong |-> <<>>, sikring |-> {}]
MCArstopp ==
  [metode |-> "FEM_VEKTET_AR", inkludert |-> TRUE, trinn |-> <<>>,
   grense |-> {}, grenseInkludert |-> TRUE, lineaer |-> {[grunn |-> 12, sats |-> 12]},
   sesong |-> (0 :> 2), sikring |-> {}]
MCSikring ==
  [metode |-> "OV_TREFASE", inkludert |-> TRUE, trinn |-> <<>>,
   grense |-> {}, grenseInkludert |-> TRUE, lineaer |-> {}, sesong |-> <<>>, sikring |-> {7}]

MCTariffer == {MCTrinn, MCArstopp}
MCNyArstopp == {[MCArstopp EXCEPT !.lineaer = {[grunn |-> 24, sats |-> 48]}, !.sesong = <<>>]}
MCBareArstopp == {MCArstopp}
MCEnTariff == {MCSikring}

=============================================================================

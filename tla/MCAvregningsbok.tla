--------------------------- MODULE MCAvregningsbok ---------------------------
(***************************************************************************)
(* Constants of the book's runs.  MCLangManed: a month of three hours,     *)
(* longer than the Store's window, then months of one.  MCTreManeder: two  *)
(* hours, one and one.  The Store starts empty or from before schema 3.    *)
(***************************************************************************)
EXTENDS Avregningsbok

MCLangManed == [h \in Timer |-> IF h < 3 THEN 0 ELSE h - 2]
MCTreManeder == [h \in Timer |-> IF h < 2 THEN 0 ELSE h - 1]
MCDagtimer == {h \in Timer : h % 2 = 1}
MCFersk == {TomtLager}
MCMigrert == {GammeltLager}

=============================================================================

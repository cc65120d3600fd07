------------------------------ MODULE Fastledd ------------------------------
(***************************************************************************)
(* The fixed fee of a month, from a tariff and the peaks: fastledd.py with *)
(* the lookup of a capacity step in dso.py.  One rule for the month that   *)
(* runs, for a closed month that gets a late tail, and for a closed month  *)
(* read back from the Store.  No state.                                    *)
(*                                                                         *)
(* A tariff is a record:                                                   *)
(*   metode     how the fee is set, one of Metoder                         *)
(*   trinn      the capacity steps in order, each [under, kr]; the open    *)
(*              top step is under Uendelig                                 *)
(*   inkludert  terskel_inkludert: a basis on the threshold is above it    *)
(*   grense, grenseInkludert  where the source's table ends: {} or {kw}    *)
(*   lineaer    {} or {[grunn, sats]}, kr per year with VAT                *)
(*   sesong     season factor of some months, 1 for the others             *)
(*   sikring    {} or {kr}: the fuse size the user has chosen              *)
(*                                                                         *)
(* Abstractions.  VAT is in the amounts; the step's number and text are    *)
(* left out.  A basis is in 1/300 kW, so that the mean of three days and a *)
(* hundredth are whole.                                                    *)
(***************************************************************************)
EXTENDS Integers, FiniteSets, FiniteSetsExt, Functions

CONSTANTS
  DagerPerUke,    \* a week starts on a date that DagerPerUke divides
  Manedsdato,     \* the month of each date
  Doegntopper,    \* how many daily peaks the mean is of (3)
  Uketopper       \* FEM_VEKTET_ANTALL_TOPPER (5)

Skala == 300
Uendelig == 1000000

Metoder == {"TRE_DOGNMAX_MND", "MND_MAX", "OV_TREFASE", "FEM_VEKTET_AR", "UKJENT"}
Trinnbaserte == {"TRE_DOGNMAX_MND", "MND_MAX", "UKJENT"}

ASSUME UkeAssumption == DagerPerUke \in Nat \ {0}
ASSUME ToppAssumption == Doegntopper \in 1 .. 3 /\ Uketopper \in 1 .. 5

\* ukestart: the Monday of the week.
Ukestart(dato) == dato - (dato % DagerPerUke)

\* Rounded to the nearest whole, a half up.
Rundet(a, b) == (2 * a + b) \div (2 * b)

\* The keys of the n highest values.
Hoyeste(f, n) ==
  CHOOSE S \in kSubset(Min({n, Cardinality(DOMAIN f)}), DOMAIN f) :
    \A x \in S, y \in DOMAIN f \ S : f[x] >= f[y]

\* vektet_kw: the season factor follows the Monday of the week.
Vektet(uker, sesong) ==
  [u \in DOMAIN uker |->
     LET m == Manedsdato[Ukestart(uker[u].dato)]
     IN  uker[u].kw * (IF m \in DOMAIN sesong THEN sesong[m] ELSE 1)]

\* fastledd_grunnlag, from the daily peaks and the weekly ones, each with the
\* date it fell on.
Grunnlag(tariff, doegn, uker) ==
  LET vektet == Vektet(uker, tariff.sesong)
      dager == Hoyeste(doegn, Doegntopper)
      fem == Hoyeste(vektet, Uketopper)
  IN  CASE tariff.metode = "MND_MAX" -> Skala * Max({0} \cup {doegn[d] : d \in DOMAIN doegn})
        [] tariff.metode = "FEM_VEKTET_AR" ->
             IF fem = {} THEN 0
             ELSE (Skala \div 100) * Rundet(100 * SumFunctionOnSet(vektet, fem), Cardinality(fem))
        [] OTHER ->
             IF dager = {} THEN 0 ELSE (Skala * SumFunctionOnSet(doegn, dager)) \div Cardinality(dager)

\* utenfor_kildegrense, fastledd_ukjent and fastledd_belop_ukjent.
UtenforKildegrense(tariff, g) ==
  \E grense \in tariff.grense :
    g > Skala * grense \/ (g = Skala * grense /\ ~ tariff.grenseInkludert)

Ukjent(tariff, g) ==
  \/ tariff.metode \in Trinnbaserte /\ tariff.trinn = <<>>
  \/ UtenforKildegrense(tariff, g)

BelopUkjent(tariff, g) ==
  Ukjent(tariff, g) \/ (tariff.metode = "OV_TREFASE" /\ tariff.sikring = {})

\* lineart_fastledd.
Lineart(tariff, g) ==
  MapThenSumSet(LAMBDA l : Rundet(l.grunn * Skala + l.sats * g, 12 * Skala), tariff.lineaer)

\* grunnlag_i_lavere_trinn and finn_kapasitetstrinn: the first step the basis is
\* below, or the last.
ILavereTrinn(g, terskel, inkludert) ==
  IF inkludert THEN g < Skala * terskel ELSE g <= Skala * terskel

TrinnFor(tariff, g) ==
  Min({Cardinality(DOMAIN tariff.trinn)}
      \cup {i \in DOMAIN tariff.trinn : ILavereTrinn(g, tariff.trinn[i].under, tariff.inkludert)})

\* fastledd_for_grunnlag: kr per month; zero stands for no known amount.
ForGrunnlag(tariff, g) ==
  CASE BelopUkjent(tariff, g) -> 0
    [] tariff.metode = "OV_TREFASE" -> SumSet(tariff.sikring)
    [] tariff.metode = "FEM_VEKTET_AR" -> Lineart(tariff, g)
    [] OTHER -> tariff.trinn[TrinnFor(tariff, g)].kr

=============================================================================

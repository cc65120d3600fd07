--------------------------- MODULE EksportbokProofs ---------------------------
(***************************************************************************)
(* Theorems about the price adapter, on its own and in the export book.    *)
(* The adapter is independent of the order of its calls, for every         *)
(* resolution, settle time, calendar and set of prices, and the export     *)
(* book keeps that promise whatever the clock, the failed writes and the   *)
(* restarts.                                                               *)
(*                                                                         *)
(* What the export book shows of a month is what its full history gives    *)
(* (KontoInv): there is a bound such that the routes before it are in the  *)
(* balances, each at the last price it will ever have, and the others are  *)
(* as they were.  That holds as long as the clock is not set back by more  *)
(* than the hours that are kept; were it set back further, a poll would    *)
(* register a price or book energy in a route that was already folded.     *)
(***************************************************************************)
EXTENDS Eksportbok, AvregningProofs

-----------------------------------------------------------------------------
\* Eldre is a strict total order on the samples, read through its negation.
LEMMA EldreOrden ==
  ASSUME NEW p \in Prover, NEW q \in Prover, NEW r \in Prover
  PROVE  /\ ~ Eldre(p, p)
         /\ Eldre(p, q) => ~ Eldre(q, p)
         /\ Eldre(p, q) /\ ~ Eldre(p, r) => ~ Eldre(q, r)
<1>. p.polltid \in Int /\ q.polltid \in Int /\ r.polltid \in Int
  BY TidAssumption DEF Prover, Tikk
<1>. p.verdi \in Int /\ q.verdi \in Int /\ r.verdi \in Int
  BY PrisAssumption DEF Prover
<1>. QED
  BY DEF Eldre

\* registrer: the table decided by a set of samples becomes the table decided
\* by the set with the new sample in it.
LEMMA RegistrerAvgjor ==
  ASSUME NEW tabell, NEW s \in SUBSET Prover, NEW p \in Prover,
         AvgjortAv(tabell, s)
  PROVE  AvgjortAv(Registrer(tabell, p), s \cup {p})
<1> DEFINE r == Rute(p.polltid)
           ny == Registrer(tabell, p)
<1>1. \A x \in DOMAIN tabell : tabell[x] \in s /\ Rute(tabell[x].polltid) = x
  BY DEF AvgjortAv, ErSiste
<1>2. CASE r \in DOMAIN tabell /\ ~ Eldre(tabell[r], p)
  <2>1. ny = tabell
    BY <1>2 DEF Registrer
  <2>2. ASSUME NEW x \in DOMAIN tabell, NEW q \in s \cup {p}, Rute(q.polltid) = x
        PROVE  ~ Eldre(tabell[x], q)
    BY <1>2, <2>2 DEF AvgjortAv, ErSiste
  <2>. QED
    BY <1>1, <1>2, <2>1, <2>2 DEF AvgjortAv, ErSiste
<1>3. CASE ~ (r \in DOMAIN tabell /\ ~ Eldre(tabell[r], p))
  <2>1. ny = [x \in DOMAIN tabell \cup {r} |-> IF x = r THEN p ELSE tabell[x]]
    BY <1>3 DEF Registrer
  <2>2. DOMAIN ny = DOMAIN tabell \cup {r} /\ ny[r] = p
    BY <2>1
  <2>3. \A x \in DOMAIN tabell : x # r => ny[x] = tabell[x]
    BY <2>1
  <2>4. ASSUME NEW q \in s, Rute(q.polltid) = r
        PROVE  ~ Eldre(p, q)
    <3>1. r \in DOMAIN tabell /\ Eldre(tabell[r], p)
      BY <1>3, <2>4 DEF AvgjortAv
    <3>2. tabell[r] \in Prover /\ ~ Eldre(tabell[r], q)
      BY <1>1, <2>4, <3>1 DEF AvgjortAv, ErSiste
    <3>. QED
      BY <3>1, <3>2, EldreOrden
  <2>5. ErSiste(r, ny[r], s \cup {p})
    BY <2>2, <2>4, EldreOrden DEF ErSiste
  <2>6. ASSUME NEW x \in DOMAIN ny, x # r
        PROVE  ErSiste(x, ny[x], s \cup {p})
    BY <2>2, <2>3, <2>6 DEF AvgjortAv, ErSiste
  <2>7. \A q \in s \cup {p} : Rute(q.polltid) \in DOMAIN ny
    BY <2>2 DEF AvgjortAv
  <2>. QED
    BY <2>5, <2>6, <2>7 DEF AvgjortAv
<1>. QED
  BY <1>2, <1>3

\* Forgetting or not saving some routes together with their samples.
LEMMA UtvalgAvgjor ==
  ASSUME NEW tabell, NEW s, NEW R \in SUBSET DOMAIN tabell, AvgjortAv(tabell, s)
  PROVE  AvgjortAv(Restrict(tabell, R), {p \in s : Rute(p.polltid) \in R})
<1>1. DOMAIN Restrict(tabell, R) = R
  BY DEF Restrict
<1>2. \A r \in R : Restrict(tabell, R)[r] = tabell[r]
  BY DEF Restrict
<1>. QED
  BY <1>1, <1>2 DEF AvgjortAv, ErSiste

-----------------------------------------------------------------------------
Inv == TypeOK /\ RekkefolgeUavhengig

LEMMA InitInv == Init => Inv
BY DEF Init, Inv, TypeOK, RekkefolgeUavhengig, AvgjortAv

LEMMA ProveInv ==
  ASSUME Inv, NEW p \in Prover, Prove(p)
  PROVE  Inv'
<1>1. Rute(p.polltid) \in Ruter
  BY RuteType DEF Prover
<1>2. TypeOK'
  BY <1>1 DEF Inv, TypeOK, Prove, Registrer
<1>3. RekkefolgeUavhengig'
  BY RegistrerAvgjor DEF Inv, TypeOK, Prove, RekkefolgeUavhengig
<1>. QED
  BY <1>2, <1>3 DEF Inv

LEMMA GlemInv ==
  ASSUME Inv, NEW m \in Maneder, Glem(m)
  PROVE  Inv'
<1> DEFINE R == {r \in DOMAIN ruter : ManedAv[TimeForRute(r)] >= m}
<1>1. ruter' = Restrict(ruter, R) /\ lager' = lager /\ lagret' = lagret
  BY DEF Glem, GlemFor
<1>2. godkjent' = {p \in godkjent : Rute(p.polltid) \in R}
  BY DEF Glem, Inv, RekkefolgeUavhengig, AvgjortAv
<1>3. AvgjortAv(ruter', godkjent')
  BY <1>1, <1>2, UtvalgAvgjor DEF Inv, RekkefolgeUavhengig
<1>4. TypeOK'
  BY <1>1, <1>2 DEF Inv, TypeOK, Restrict
<1>. QED
  BY <1>1, <1>3, <1>4 DEF Inv, RekkefolgeUavhengig

LEMMA LagreInv ==
  ASSUME Inv, NEW h \in Timer, Lagre(h)
  PROVE  Inv'
<1> DEFINE R == {r \in DOMAIN ruter : TimeForRute(r) >= h}
<1>1. lager' = Restrict(ruter, R) /\ ruter' = ruter /\ godkjent' = godkjent
  BY DEF Lagre, RuterFra
<1>2. lagret' = {p \in godkjent : Rute(p.polltid) \in R}
  BY DEF Lagre, Inv, RekkefolgeUavhengig, AvgjortAv
<1>3. AvgjortAv(lager', lagret')
  BY <1>1, <1>2, UtvalgAvgjor DEF Inv, RekkefolgeUavhengig
<1>4. TypeOK'
  BY <1>1, <1>2 DEF Inv, TypeOK, Restrict
<1>. QED
  BY <1>1, <1>3, <1>4 DEF Inv, RekkefolgeUavhengig

LEMMA NextInv == Inv /\ [Next]_vars => Inv'
<1> SUFFICES ASSUME Inv, [Next]_vars PROVE Inv'
  OBVIOUS
<1>1. CASE \E p \in Prover : Prove(p)
  BY <1>1, ProveInv
<1>2. CASE \E m \in Maneder : Glem(m)
  BY <1>2, GlemInv
<1>3. CASE \E h \in Timer : Lagre(h)
  BY <1>3, LagreInv
<1>4. CASE Les
  BY <1>4 DEF Les, Inv, TypeOK, RekkefolgeUavhengig, AvgjortAv, ErSiste
<1>5. CASE UNCHANGED vars
  BY <1>5 DEF vars, Inv, TypeOK, RekkefolgeUavhengig, AvgjortAv, ErSiste
<1>. QED
  BY <1>1, <1>2, <1>3, <1>4, <1>5 DEF Next

\* The price of a route depends on the samples that were accepted for it and
\* on nothing else, through any order of calls, saves and reloads (A2.1).
THEOREM PrisenErRekkefolgeUavhengig == Spec => []RekkefolgeUavhengig
<1>1. Inv => RekkefolgeUavhengig
  BY DEF Inv
<1>. QED
  BY InitInv, NextInv, <1>1, PTL DEF Spec

\* Two tables decided by the same samples are the same table: a replay of the
\* same samples in another order gives every route the same price (A2.1).
THEOREM SammeProverSammePris ==
  ASSUME NEW t1, NEW t2, NEW s \in SUBSET Prover, AvgjortAv(t1, s), AvgjortAv(t2, s)
  PROVE  DOMAIN t1 = DOMAIN t2 /\ \A r \in DOMAIN t1 : t1[r] = t2[r]
<1>1. DOMAIN t1 = DOMAIN t2
  BY DEF AvgjortAv, ErSiste
<1>2. ASSUME NEW r \in DOMAIN t1
      PROVE  t1[r] = t2[r]
  <2>1. /\ t1[r] \in Prover /\ t2[r] \in Prover
        /\ ~ Eldre(t1[r], t2[r]) /\ ~ Eldre(t2[r], t1[r])
    BY <1>1 DEF AvgjortAv, ErSiste
  <2>2. ASSUME NEW p \in Prover, NEW q \in Prover, ~ Eldre(p, q), ~ Eldre(q, p)
        PROVE  p = q
    <3>1. /\ p.polltid \in Tikk /\ q.polltid \in Tikk
          /\ p.verdi \in Priser /\ q.verdi \in Priser
      BY DEF Prover
    <3>2. /\ p.polltid \in Nat /\ q.polltid \in Nat
          /\ p.verdi \in Int /\ q.verdi \in Int
      BY <3>1, TikkHel, PrisAssumption
    <3>3. p.polltid = q.polltid /\ p.verdi = q.verdi
      BY <2>2, <3>2 DEF Eldre
    <3>. QED
      BY <3>3 DEF Prover
  <2>. QED
    BY <2>1, <2>2
<1>. QED
  BY <1>1, <1>2

-----------------------------------------------------------------------------
(***************************************************************************)
(* The export book: a poll registers and forgets in one step.              *)
(***************************************************************************)
\* The adapter's invariant, and a clock on the calendar.
EksportInv == Inv /\ naa \in Tikk

LEMMA EksportInitInv == EksportInit => EksportInv
<1>1. (SisteTime + 1) * TikkPerTime \in Nat /\ (SisteTime + 1) * TikkPerTime > 0
  <2>1. TikkPerTime \in Nat \ {0}
    BY TidAssumption DEF TikkPerTime
  <2>. QED
    BY <2>1, TidAssumption
<1>2. 0 \in Tikk
  BY <1>1 DEF Tikk
<1>. QED
  BY <1>2, InitInv DEF EksportInit, EksportInv

\* Forgetting the routes before a bound, together with their samples.
LEMMA NyereEnnAvgjor ==
  ASSUME NEW tabell, NEW s, NEW g, AvgjortAv(tabell, s)
  PROVE  AvgjortAv(NyereEnn(tabell, g), {q \in s : Rute(q.polltid) >= g})
<1> DEFINE R == {r \in DOMAIN tabell : r >= g}
<1>1. {q \in s : Rute(q.polltid) >= g} = {q \in s : Rute(q.polltid) \in R}
  BY DEF AvgjortAv
<1>. QED
  BY <1>1, UtvalgAvgjor DEF NyereEnn

LEMMA PollInv ==
  ASSUME EksportInv, NEW i \in Innganger, Poll(i.pris, i.effekt)
  PROVE  EksportInv'
<1> DEFINE p == [polltid |-> naa, verdi |-> i.pris]
           g == Foldegrense(naa)
<1>1. PICK tabell, s :
        /\ AvgjortAv(tabell, s)
        /\ s \subseteq Prover
        /\ DOMAIN tabell \subseteq Ruter
        /\ ruter' = NyereEnn(tabell, g)
        /\ godkjent' = {q \in s : Rute(q.polltid) >= g}
  <2>1. CASE i.pris # Ingen /\ Godtas(naa)
    <3>1. p \in Prover
      BY <2>1, EksportAssumption DEF EksportInv, Prover
    <3>2. AvgjortAv(Registrer(ruter, p), godkjent \cup {p})
      BY <3>1, RegistrerAvgjor DEF EksportInv, Inv, TypeOK, RekkefolgeUavhengig
    <3>3. DOMAIN Registrer(ruter, p) \subseteq Ruter
      BY RuteType DEF Registrer, EksportInv, Inv, TypeOK
    <3>4. /\ ruter' = NyereEnn(Registrer(ruter, p), g)
          /\ godkjent' = {q \in godkjent \cup {p} : Rute(q.polltid) >= g}
      BY <2>1 DEF Poll
    <3>. QED
      BY <3>1, <3>2, <3>3, <3>4 DEF EksportInv, Inv, TypeOK
  <2>2. CASE ~ (i.pris # Ingen /\ Godtas(naa))
    <3>1. /\ ruter' = NyereEnn(ruter, g)
          /\ godkjent' = {q \in godkjent : Rute(q.polltid) >= g}
      BY <2>2 DEF Poll
    <3>. QED
      BY <3>1 DEF EksportInv, Inv, TypeOK, RekkefolgeUavhengig
  <2>. QED
    BY <2>1, <2>2
<1>2. AvgjortAv(ruter', godkjent')
  BY <1>1, NyereEnnAvgjor
<1>3. DOMAIN ruter' \subseteq Ruter /\ godkjent' \subseteq Prover
  BY <1>1 DEF NyereEnn, Restrict
<1>4. naa' = naa /\ lager' = lager /\ lagret' = lagret
  BY DEF Poll
<1>. QED
  BY <1>2, <1>3, <1>4 DEF EksportInv, Inv, TypeOK, RekkefolgeUavhengig

LEMMA EksportNextInv == EksportInv /\ [EksportNext]_eksportvars => EksportInv'
<1> SUFFICES ASSUME EksportInv, [EksportNext]_eksportvars PROVE EksportInv'
  OBVIOUS
<1> USE DEF EksportInv, Inv, TypeOK, RekkefolgeUavhengig
<1>1. CASE Klokke
  BY <1>1 DEF Klokke, Boken, AvgjortAv, ErSiste
<1>2. CASE StillTilbake
  BY <1>2 DEF StillTilbake, Boken, AvgjortAv, ErSiste
<1>3. CASE \E i \in Innganger : Poll(i.pris, i.effekt)
  BY <1>3, PollInv
<1>4. CASE Skriv
  BY <1>4 DEF Skriv, AvgjortAv, ErSiste
<1>5. CASE Skrivefeil
  BY <1>5 DEF Skrivefeil, vars, AvgjortAv, ErSiste
<1>6. CASE Omstart
  BY <1>6 DEF Omstart, Les, AvgjortAv, ErSiste
<1>7. CASE UNCHANGED eksportvars
  BY <1>7 DEF eksportvars, vars, AvgjortAv, ErSiste
<1>. QED
  BY <1>1, <1>2, <1>3, <1>4, <1>5, <1>6, <1>7 DEF EksportNext

\* In the export book as in the adapter alone, which sample holds a price route
\* is decided by the poll times: not by the order in which they came when the
\* clock was set back, nor by what was folded, forgotten or read back.
THEOREM EksportprisenErRekkefolgeUavhengig == EksportSpec => []RekkefolgeUavhengig
<1>1. EksportInv => RekkefolgeUavhengig
  BY DEF EksportInv, Inv
<1>. QED
  BY EksportInitInv, EksportNextInv, <1>1, PTL DEF EksportSpec

-----------------------------------------------------------------------------
(***************************************************************************)
(* The balance of a set of routes, field by field.                         *)
(***************************************************************************)
Bidragsfelt == {"kwh", "inntekt", "uten"}

RuterI(R, m) == {r \in R : ManedAv[TimeForRute(r)] = m}

Feltsum(x, e, t, R, m) ==
  SumFunctionOnSet([r \in RuterI(R, m) |-> Bidrag(t, r, e[r])[x]], RuterI(R, m))

\* Energy and prices that can be added up over the routes R.
Regnbar(e, t, R) ==
  /\ IsFiniteSet(R)
  /\ \A r \in R : e[r] \in Int /\ (r \in DOMAIN t => t[r].verdi \in Int)

\* The routes R have the same energy and the same price.
SammeRuter(e, t, f, u, R) ==
  \A r \in R : /\ f[r] = e[r]
               /\ r \in DOMAIN u <=> r \in DOMAIN t
               /\ r \in DOMAIN t => u[r].verdi = t[r].verdi

\* The sums of the module are those the lemmas are about: energy,
LEMMA KwhFeltsum ==
  ASSUME NEW e, NEW t, NEW S, IsFiniteSet(S)
  PROVE  MapThenSumSet(LAMBDA r : Bidrag(t, r, e[r]).kwh, S)
           = SumFunctionOnSet([r \in S |-> Bidrag(t, r, e[r])["kwh"]], S)
<1> DEFINE v == [r \in S |-> Bidrag(t, r, e[r]).kwh]
           P(k) == k = [s \in SUBSET S |-> IF s = {} THEN 0
                          ELSE Bidrag(t, CHOOSE x \in s : TRUE, e[CHOOSE x \in s : TRUE]).kwh
                               + k[s \ {CHOOSE x \in s : TRUE}]]
<1>1. PICK g : ErSum(g, v, S)
  BY SumFinnes
<1>2. \A s \in SUBSET S : s # {} => (CHOOSE x \in s : TRUE) \in S
  OBVIOUS
<1>3. \A k : P(k) <=> ErSum(k, v, S)
  BY <1>2 DEF ErSum, Valgt
<1>4. MapThenSumSet(LAMBDA r : Bidrag(t, r, e[r]).kwh, S) = (CHOOSE k : P(k))[S]
  BY DEF MapThenSumSet, MapThenFoldSet
<1> HIDE DEF P, v
<1>5. ErSum(CHOOSE k : P(k), v, S)
  BY <1>1, <1>3
<1>. QED
  BY <1>4, <1>5, SumVerdi DEF v

\* income,
LEMMA InntektFeltsum ==
  ASSUME NEW e, NEW t, NEW S, IsFiniteSet(S)
  PROVE  MapThenSumSet(LAMBDA r : Bidrag(t, r, e[r]).inntekt, S)
           = SumFunctionOnSet([r \in S |-> Bidrag(t, r, e[r])["inntekt"]], S)
<1> DEFINE v == [r \in S |-> Bidrag(t, r, e[r]).inntekt]
           P(k) == k = [s \in SUBSET S |-> IF s = {} THEN 0
                          ELSE Bidrag(t, CHOOSE x \in s : TRUE, e[CHOOSE x \in s : TRUE]).inntekt
                               + k[s \ {CHOOSE x \in s : TRUE}]]
<1>1. PICK g : ErSum(g, v, S)
  BY SumFinnes
<1>2. \A s \in SUBSET S : s # {} => (CHOOSE x \in s : TRUE) \in S
  OBVIOUS
<1>3. \A k : P(k) <=> ErSum(k, v, S)
  BY <1>2 DEF ErSum, Valgt
<1>4. MapThenSumSet(LAMBDA r : Bidrag(t, r, e[r]).inntekt, S) = (CHOOSE k : P(k))[S]
  BY DEF MapThenSumSet, MapThenFoldSet
<1> HIDE DEF P, v
<1>5. ErSum(CHOOSE k : P(k), v, S)
  BY <1>1, <1>3
<1>. QED
  BY <1>4, <1>5, SumVerdi DEF v

\* and energy without a price.
LEMMA UtenFeltsum ==
  ASSUME NEW e, NEW t, NEW S, IsFiniteSet(S)
  PROVE  MapThenSumSet(LAMBDA r : Bidrag(t, r, e[r]).uten, S)
           = SumFunctionOnSet([r \in S |-> Bidrag(t, r, e[r])["uten"]], S)
<1> DEFINE v == [r \in S |-> Bidrag(t, r, e[r]).uten]
           P(k) == k = [s \in SUBSET S |-> IF s = {} THEN 0
                          ELSE Bidrag(t, CHOOSE x \in s : TRUE, e[CHOOSE x \in s : TRUE]).uten
                               + k[s \ {CHOOSE x \in s : TRUE}]]
<1>1. PICK g : ErSum(g, v, S)
  BY SumFinnes
<1>2. \A s \in SUBSET S : s # {} => (CHOOSE x \in s : TRUE) \in S
  OBVIOUS
<1>3. \A k : P(k) <=> ErSum(k, v, S)
  BY <1>2 DEF ErSum, Valgt
<1>4. MapThenSumSet(LAMBDA r : Bidrag(t, r, e[r]).uten, S) = (CHOOSE k : P(k))[S]
  BY DEF MapThenSumSet, MapThenFoldSet
<1> HIDE DEF P, v
<1>5. ErSum(CHOOSE k : P(k), v, S)
  BY <1>1, <1>3
<1>. QED
  BY <1>4, <1>5, SumVerdi DEF v

LEMMA BidragssumFelt ==
  ASSUME NEW e, NEW t, NEW R, IsFiniteSet(R), NEW m
  PROVE  Bidragssum(e, t, R, m)
           = [kwh |-> Feltsum("kwh", e, t, R, m), inntekt |-> Feltsum("inntekt", e, t, R, m),
              uten |-> Feltsum("uten", e, t, R, m)]
<1> DEFINE S == RuterI(R, m)
<1>1. IsFiniteSet(S)
  BY FS_Subset DEF RuterI
<1>2. Bidragssum(e, t, R, m)
        = [kwh |-> MapThenSumSet(LAMBDA r : Bidrag(t, r, e[r]).kwh, S),
           inntekt |-> MapThenSumSet(LAMBDA r : Bidrag(t, r, e[r]).inntekt, S),
           uten |-> MapThenSumSet(LAMBDA r : Bidrag(t, r, e[r]).uten, S)]
  BY DEF Bidragssum, RuterI
<1> HIDE DEF S
<1>. QED
  BY <1>1, <1>2, KwhFeltsum, InntektFeltsum, UtenFeltsum DEF Feltsum, S

\* What one route adds.
LEMMA BidragType ==
  ASSUME NEW e, NEW t, NEW r, e[r] \in Int, r \in DOMAIN t => t[r].verdi \in Int
  PROVE  \A x \in Bidragsfelt : Bidrag(t, r, e[r])[x] \in Int
<1>1. CASE r \in DOMAIN t
  <2> DEFINE v == t[r].verdi
             k == e[r]
  <2>1. k \in Int /\ v \in Int
    BY <1>1
  <2>2. Bidrag(t, r, e[r]) = [kwh |-> k, inntekt |-> k * v, uten |-> 0]
    BY <1>1 DEF Bidrag
  <2> HIDE DEF k, v
  <2>3. k * v \in Int
    BY <2>1
  <2>. QED
    BY <2>1, <2>2, <2>3 DEF Bidragsfelt
<1>2. CASE r \notin DOMAIN t
  BY <1>2 DEF Bidrag, Bidragsfelt
<1>. QED
  BY <1>1, <1>2

LEMMA FeltsumType ==
  ASSUME NEW e, NEW t, NEW R, Regnbar(e, t, R), NEW m, NEW x \in Bidragsfelt
  PROVE  Feltsum(x, e, t, R, m) \in Int
<1> DEFINE S == RuterI(R, m)
           v == [r \in S |-> Bidrag(t, r, e[r])[x]]
<1>1. IsFiniteSet(S) /\ S \subseteq R
  BY FS_Subset DEF RuterI, Regnbar
<1>2. \A r \in S : v[r] \in Int
  BY <1>1, BidragType DEF Regnbar
<1> HIDE DEF S, v
<1>3. SumFunctionOnSet(v, S) \in Int
  BY <1>1, <1>2, SumType
<1>. QED
  BY <1>3 DEF Feltsum, S, v

\* Routes with the same energy and the same price.
LEMMA FeltsumLik ==
  ASSUME NEW e, NEW t, NEW R, Regnbar(e, t, R), NEW f, NEW u,
         SammeRuter(e, t, f, u, R),
         NEW m, NEW x
  PROVE  Feltsum(x, f, u, R, m) = Feltsum(x, e, t, R, m)
<1>1. \A r \in RuterI(R, m) : Bidrag(u, r, f[r]) = Bidrag(t, r, e[r])
  BY DEF RuterI, Bidrag, SammeRuter
<1>2. [r \in RuterI(R, m) |-> Bidrag(u, r, f[r])[x]] = [r \in RuterI(R, m) |-> Bidrag(t, r, e[r])[x]]
  BY <1>1
<1>. QED
  BY <1>2 DEF Feltsum

\* Two sets of routes that have nothing in common.
LEMMA FeltsumSplitt ==
  ASSUME NEW e, NEW t, NEW R, Regnbar(e, t, R), NEW S \in SUBSET R, NEW m, NEW x \in Bidragsfelt
  PROVE  Feltsum(x, e, t, R, m) = Feltsum(x, e, t, S, m) + Feltsum(x, e, t, R \ S, m)
<1> DEFINE A == RuterI(S, m)
           C == RuterI(R \ S, m)
           B == RuterI(R, m)
           v == [r \in B |-> Bidrag(t, r, e[r])[x]]
<1>1. IsFiniteSet(A) /\ IsFiniteSet(C) /\ A \cap C = {} /\ A \cup C = B
  BY FS_Subset DEF RuterI, Regnbar
<1>2. \A r \in B : v[r] \in Int
  BY BidragType DEF Regnbar, RuterI
<1>3. [r \in A |-> Bidrag(t, r, e[r])[x]] = [r \in A |-> v[r]]
  BY <1>1
<1>4. [r \in C |-> Bidrag(t, r, e[r])[x]] = [r \in C |-> v[r]]
  BY <1>1
<1>5. Feltsum(x, e, t, R, m) = SumFunctionOnSet(v, B)
  BY DEF Feltsum
<1> HIDE DEF v
<1>6. Feltsum(x, e, t, S, m) = SumFunctionOnSet([r \in A |-> v[r]], A)
      /\ Feltsum(x, e, t, R \ S, m) = SumFunctionOnSet([r \in C |-> v[r]], C)
  BY <1>3, <1>4 DEF Feltsum
<1> HIDE DEF A, B, C
<1>7. SumFunctionOnSet([r \in A |-> v[r]], A) = SumFunctionOnSet(v, A)
  <2> DEFINE w == [r \in A |-> v[r]]
  <2>1. \A r \in A : v[r] \in Int /\ w[r] = v[r]
    BY <1>1, <1>2
  <2> HIDE DEF w
  <2>2. SumFunctionOnSet(w, A) = SumFunctionOnSet(v, A)
    BY <1>1, <2>1, SumLik
  <2>. QED
    BY <2>2 DEF w
<1>8. SumFunctionOnSet([r \in C |-> v[r]], C) = SumFunctionOnSet(v, C)
  <2> DEFINE w == [r \in C |-> v[r]]
  <2>1. \A r \in C : v[r] \in Int /\ w[r] = v[r]
    BY <1>1, <1>2
  <2> HIDE DEF w
  <2>2. SumFunctionOnSet(w, C) = SumFunctionOnSet(v, C)
    BY <1>1, <2>1, SumLik
  <2>. QED
    BY <2>2 DEF w
<1>9. SumFunctionOnSet(v, A \cup C) = SumFunctionOnSet(v, A) + SumFunctionOnSet(v, C)
  <2>1. \A r \in A \cup C : v[r] \in Int
    BY <1>1, <1>2
  <2>. QED
    BY <1>1, <2>1, SumUnion
<1>. QED
  BY <1>1, <1>5, <1>6, <1>7, <1>8, <1>9

-----------------------------------------------------------------------------
(***************************************************************************)
(* Balances.                                                               *)
(***************************************************************************)
LEMMA LagtSaldo ==
  ASSUME NEW s \in Saldoer, NEW t \in Saldoer, NEW u \in Saldoer
  PROVE  /\ Lagt(s, t) \in Saldoer /\ Null \in Saldoer
         /\ Lagt(s, Null) = s /\ Lagt(Null, s) = s
         /\ Lagt(Lagt(s, t), u) = Lagt(s, Lagt(t, u))
<1>1. /\ s = [kwh |-> s.kwh, inntekt |-> s.inntekt, uten |-> s.uten]
      /\ s.kwh \in Int /\ s.inntekt \in Int /\ s.uten \in Int
      /\ t.kwh \in Int /\ t.inntekt \in Int /\ t.uten \in Int
      /\ u.kwh \in Int /\ u.inntekt \in Int /\ u.uten \in Int
  BY DEF Saldoer
<1>2. Lagt(s, t) \in Saldoer /\ Null \in Saldoer
  BY <1>1 DEF Lagt, Null, Saldoer
<1>3. Lagt(s, Null) = [kwh |-> s.kwh, inntekt |-> s.inntekt, uten |-> s.uten]
  BY <1>1 DEF Lagt, Null
<1>4. Lagt(Null, s) = [kwh |-> s.kwh, inntekt |-> s.inntekt, uten |-> s.uten]
  BY <1>1 DEF Lagt, Null
<1>5. Lagt(Lagt(s, t), u) = Lagt(s, Lagt(t, u))
  BY <1>1 DEF Lagt
<1>. QED
  BY <1>1, <1>2, <1>3, <1>4, <1>5

LEMMA BidragssumType ==
  ASSUME NEW e, NEW t, NEW R, Regnbar(e, t, R), NEW m
  PROVE  Bidragssum(e, t, R, m) \in Saldoer
<1>1. \A x \in Bidragsfelt : Feltsum(x, e, t, R, m) \in Int
  BY FeltsumType
<1>2. /\ Feltsum("kwh", e, t, R, m) \in Int /\ Feltsum("inntekt", e, t, R, m) \in Int
      /\ Feltsum("uten", e, t, R, m) \in Int
  BY <1>1 DEF Bidragsfelt
<1>3. IsFiniteSet(R)
  BY DEF Regnbar
<1>. QED
  BY <1>2, <1>3, BidragssumFelt DEF Saldoer

\* Routes with the same energy and the same price give the same balance.
LEMMA BidragssumLik ==
  ASSUME NEW e, NEW t, NEW R, Regnbar(e, t, R), NEW f, NEW u,
         SammeRuter(e, t, f, u, R),
         NEW m
  PROVE  Bidragssum(f, u, R, m) = Bidragssum(e, t, R, m)
<1>1. \A x : Feltsum(x, f, u, R, m) = Feltsum(x, e, t, R, m)
  BY FeltsumLik
<1>2. IsFiniteSet(R)
  BY DEF Regnbar
<1>. QED
  BY <1>1, <1>2, BidragssumFelt

\* The balance of a part of the routes and of the rest.
LEMMA BidragssumSplitt ==
  ASSUME NEW e, NEW t, NEW R, Regnbar(e, t, R), NEW S \in SUBSET R, NEW m
  PROVE  Bidragssum(e, t, R, m) = Lagt(Bidragssum(e, t, S, m), Bidragssum(e, t, R \ S, m))
<1>1. \A x \in Bidragsfelt : Feltsum(x, e, t, R, m) = Feltsum(x, e, t, S, m) + Feltsum(x, e, t, R \ S, m)
  BY FeltsumSplitt
<1>2. IsFiniteSet(R) /\ IsFiniteSet(S) /\ IsFiniteSet(R \ S)
  BY FS_Subset DEF Regnbar
<1>3. Bidragssum(e, t, R, m)
        = [kwh |-> Feltsum("kwh", e, t, S, m) + Feltsum("kwh", e, t, R \ S, m),
           inntekt |-> Feltsum("inntekt", e, t, S, m) + Feltsum("inntekt", e, t, R \ S, m),
           uten |-> Feltsum("uten", e, t, S, m) + Feltsum("uten", e, t, R \ S, m)]
  BY <1>1, <1>2, BidragssumFelt DEF Bidragsfelt
<1>4. /\ Bidragssum(e, t, S, m)
           = [kwh |-> Feltsum("kwh", e, t, S, m), inntekt |-> Feltsum("inntekt", e, t, S, m),
              uten |-> Feltsum("uten", e, t, S, m)]
      /\ Bidragssum(e, t, R \ S, m)
           = [kwh |-> Feltsum("kwh", e, t, R \ S, m), inntekt |-> Feltsum("inntekt", e, t, R \ S, m),
              uten |-> Feltsum("uten", e, t, R \ S, m)]
  BY <1>2, BidragssumFelt
<1>. QED
  BY <1>3, <1>4 DEF Lagt

\* No route, no balance.
LEMMA BidragssumTom ==
  ASSUME NEW e, NEW t, NEW R, NEW m, \A r \in R : ManedAv[TimeForRute(r)] # m, IsFiniteSet(R)
  PROVE  Bidragssum(e, t, R, m) = Null
<1>1. RuterI(R, m) = {}
  BY DEF RuterI
<1>2. \A x : Feltsum(x, e, t, R, m) = 0
  BY <1>1, SumTom DEF Feltsum
<1>. QED
  BY <1>2, BidragssumFelt DEF Null

-----------------------------------------------------------------------------
(***************************************************************************)
(* What a poll does to the routes.                                         *)
(***************************************************************************)
\* Selecting the routes from a bound on.
LEMMA NyereEnnForm ==
  ASSUME NEW t, NEW g
  PROVE  /\ DOMAIN NyereEnn(t, g) = {r \in DOMAIN t : r >= g}
         /\ \A r \in DOMAIN t : r >= g => NyereEnn(t, g)[r] = t[r]
         /\ NyereEnn(t, g) = [r \in {x \in DOMAIN t : x >= g} |-> t[r]]
BY DEF NyereEnn, Restrict

LEMMA NyereEnnToGanger ==
  ASSUME NEW t, DOMAIN t \subseteq Ruter, NEW g \in Int, NEW k \in Int
  PROVE  NyereEnn(NyereEnn(t, g), k) = NyereEnn(t, StorstAv(g, k))
<1>1. \A r \in DOMAIN t : r \in Int
  BY DEF Ruter
<1>2. {x \in {y \in DOMAIN t : y >= g} : x >= k} = {x \in DOMAIN t : x >= StorstAv(g, k)}
  BY <1>1 DEF StorstAv
<1>3. /\ NyereEnn(NyereEnn(t, g), k) = [r \in {x \in DOMAIN NyereEnn(t, g) : x >= k} |-> NyereEnn(t, g)[r]]
      /\ NyereEnn(t, StorstAv(g, k)) = [r \in {x \in DOMAIN t : x >= StorstAv(g, k)} |-> t[r]]
      /\ DOMAIN NyereEnn(t, g) = {x \in DOMAIN t : x >= g}
      /\ \A r \in DOMAIN t : r >= g => NyereEnn(t, g)[r] = t[r]
  BY NyereEnnForm
<1>. QED
  BY <1>2, <1>3

\* A sample of a route from the bound on is registered there, or forgotten by
\* nothing but the bound.
LEMMA RegistrerNyere ==
  ASSUME NEW t, NEW g, NEW p, Rute(p.polltid) >= g
  PROVE  /\ Registrer(NyereEnn(t, g), p) = NyereEnn(Registrer(t, p), g)
         /\ \A r \in DOMAIN t \cup DOMAIN Registrer(t, p) :
              r # Rute(p.polltid) => /\ r \in DOMAIN t /\ r \in DOMAIN Registrer(t, p)
                                     /\ Registrer(t, p)[r] = t[r]
<1> DEFINE q == Rute(p.polltid)
           n == NyereEnn(t, g)
<1>1. /\ DOMAIN n = {r \in DOMAIN t : r >= g}
      /\ \A r \in DOMAIN t : r >= g => n[r] = t[r]
      /\ n = [r \in {x \in DOMAIN t : x >= g} |-> t[r]]
  BY NyereEnnForm
<1>2. q >= g
  OBVIOUS
<1> HIDE DEF n
<1>3. CASE q \in DOMAIN t /\ ~ Eldre(t[q], p)
  <2>1. Registrer(t, p) = t
    BY <1>3 DEF Registrer
  <2>2. Registrer(n, p) = n
    BY <1>1, <1>2, <1>3 DEF Registrer
  <2>. QED
    BY <2>1, <2>2 DEF n
<1>4. CASE ~ (q \in DOMAIN t /\ ~ Eldre(t[q], p))
  <2>1. Registrer(t, p) = [x \in DOMAIN t \cup {q} |-> IF x = q THEN p ELSE t[x]]
    BY <1>4 DEF Registrer
  <2>2. Registrer(n, p) = [x \in DOMAIN n \cup {q} |-> IF x = q THEN p ELSE n[x]]
    BY <1>1, <1>2, <1>4 DEF Registrer
  <2> DEFINE u == Registrer(t, p)
  <2>3. NyereEnn(u, g) = [r \in {x \in DOMAIN u : x >= g} |-> u[r]]
    BY NyereEnnForm
  <2> HIDE DEF u, q
  <2>4. DOMAIN u = DOMAIN t \cup {q} /\ \A x \in DOMAIN u : u[x] = IF x = q THEN p ELSE t[x]
    BY <2>1 DEF u
  <2>5. {x \in DOMAIN u : x >= g} = DOMAIN n \cup {q}
    BY <1>1, <1>2, <2>4
  <2>6. \A r \in DOMAIN n \cup {q} : u[r] = IF r = q THEN p ELSE n[r]
    BY <1>1, <2>4
  <2>7. NyereEnn(u, g) = Registrer(n, p)
    BY <2>2, <2>3, <2>5, <2>6
  <2>. QED
    BY <2>4, <2>7 DEF u, n, q
<1>. QED
  BY <1>3, <1>4

Truffet(fra, til) == {r \in Ruter : fra < (r + 1) * TikkPerRute /\ r * TikkPerRute < til}

Del(r, fra, til, effekt) ==
  effekt * (MinstAv(til, (r + 1) * TikkPerRute) - StorstAv(fra, r * TikkPerRute))

\* A window touches no route before the one it starts in.
LEMMA TruffetSenere ==
  ASSUME NEW fra \in Nat, NEW til \in Int, NEW r \in Truffet(fra, til)
  PROVE  r \in Ruter /\ r \in Int /\ r >= Rute(fra)
<1>1. r \in Ruter /\ r \in Int /\ fra < (r + 1) * TikkPerRute
  BY DEF Truffet, Ruter
<1> DEFINE q == Rute(fra)
           T == TikkPerRute
<1>2. T \in Nat /\ T > 0
  BY TidAssumption
<1>3. q \in Int /\ q * T <= fra
  BY <1>2 DEF Rute
<1> HIDE DEF q, T
<1>4. q * T < (r + 1) * T
  <2>1. (r + 1) * T \in Int /\ q * T \in Int
    BY <1>1, <1>2, <1>3
  <2>. QED
    BY <1>1, <1>3, <2>1 DEF T
<1>5. q < r + 1
  <2>1. SUFFICES ASSUME q >= r + 1 PROVE FALSE
    BY <1>1, <1>3
  <2>2. q * T >= (r + 1) * T
    BY <1>1, <1>2, <1>3, <2>1
  <2>3. (r + 1) * T \in Int /\ q * T \in Int
    BY <1>1, <1>2, <1>3
  <2>. QED
    BY <1>4, <2>2, <2>3
<1>. QED
  BY <1>1, <1>3, <1>5 DEF q

LEMMA DelType ==
  ASSUME NEW r \in Int, NEW fra \in Int, NEW til \in Int, NEW effekt \in Int
  PROVE  Del(r, fra, til, effekt) \in Int
<1> DEFINE d == MinstAv(til, (r + 1) * TikkPerRute) - StorstAv(fra, r * TikkPerRute)
<1>1. (r + 1) * TikkPerRute \in Int /\ r * TikkPerRute \in Int
  BY TidAssumption
<1>2. d \in Int
  BY <1>1 DEF MinstAv, StorstAv
<1> HIDE DEF d
<1>3. effekt * d \in Int
  BY <1>2
<1>. QED
  BY <1>3 DEF Del, d

\* bokfor, seen from outside: the routes before the window are as they were.
LEMMA MedEnergiNyere ==
  ASSUME NEW e, DOMAIN e \subseteq Ruter, \A r \in DOMAIN e : e[r] \in Int,
         NEW fra \in Nat, NEW til \in Int, NEW effekt \in Nat,
         NEW g \in Int, g <= Rute(fra)
  PROVE  LET ny == MedEnergi(e, fra, til, effekt)
         IN  /\ DOMAIN ny \subseteq Ruter /\ \A r \in DOMAIN ny : ny[r] \in Int
             /\ DOMAIN e \subseteq DOMAIN ny
             /\ \A r \in DOMAIN ny : r < g => r \in DOMAIN e /\ ny[r] = e[r]
             /\ MedEnergi(NyereEnn(e, g), fra, til, effekt) = NyereEnn(ny, g)
<1> DEFINE ny == MedEnergi(e, fra, til, effekt)
           n == NyereEnn(e, g)
           T == Truffet(fra, til)
           D(r) == Del(r, fra, til, effekt)
<1>1. /\ DOMAIN n = {r \in DOMAIN e : r >= g}
      /\ \A r \in DOMAIN e : r >= g => n[r] = e[r]
  BY NyereEnnForm
<1>2. NyereEnn(ny, g) = [r \in {x \in DOMAIN ny : x >= g} |-> ny[r]]
  BY NyereEnnForm
<1>3. \A r \in T : r \in Ruter /\ r \in Int /\ r >= g /\ D(r) \in Int
  <2>1. ASSUME NEW r \in T
        PROVE  r \in Ruter /\ r \in Int /\ r >= g /\ D(r) \in Int
    <3>1. r \in Ruter /\ r \in Int /\ r >= Rute(fra)
      BY TruffetSenere
    <3>2. Rute(fra) \in Int
      BY TidAssumption DEF Rute
    <3>3. fra \in Int /\ effekt \in Int /\ r \in Int
      BY <3>1
    <3>4. D(r) \in Int
      BY <3>3, DelType
    <3>. QED
      BY <3>1, <3>2, <3>4
  <2>. QED
    BY <2>1
<1>4. CASE effekt = 0 \/ til <= fra
  <2>1. ny = e /\ MedEnergi(n, fra, til, effekt) = n
    BY <1>4 DEF MedEnergi
  <2>2. \A r \in DOMAIN e : r < g => r \in DOMAIN e /\ ny[r] = e[r]
    BY <2>1
  <2>3. DOMAIN ny \subseteq Ruter /\ \A r \in DOMAIN ny : ny[r] \in Int
    BY <2>1
  <2>4. MedEnergi(n, fra, til, effekt) = NyereEnn(ny, g)
    BY <2>1
  <2>. QED
    BY <2>1, <2>2, <2>3, <2>4
<1>5. CASE ~ (effekt = 0 \/ til <= fra)
  <2>1. ny = [r \in DOMAIN e \cup T |-> (IF r \in DOMAIN e THEN e[r] ELSE 0)
                                        + (IF r \in T THEN D(r) ELSE 0)]
    BY <1>5 DEF MedEnergi, Truffet, Del
  <2>2. MedEnergi(n, fra, til, effekt)
          = [r \in DOMAIN n \cup T |-> (IF r \in DOMAIN n THEN n[r] ELSE 0)
                                       + (IF r \in T THEN D(r) ELSE 0)]
    BY <1>5 DEF MedEnergi, Truffet, Del
  <2> HIDE DEF ny, n, T, D
  <2>3. /\ DOMAIN ny = DOMAIN e \cup T
        /\ \A r \in DOMAIN ny : ny[r] = (IF r \in DOMAIN e THEN e[r] ELSE 0)
                                        + (IF r \in T THEN D(r) ELSE 0)
    BY <2>1
  <2>4. \A r \in DOMAIN ny : ny[r] \in Int /\ r \in Ruter /\ r \in Int
    BY <1>3, <2>3 DEF Ruter
  <2>5. \A r \in DOMAIN ny : r < g => r \in DOMAIN e /\ ny[r] = e[r]
    BY <1>3, <2>3, <2>4
  <2>6. {x \in DOMAIN ny : x >= g} = DOMAIN n \cup T
    BY <1>1, <1>3, <2>3
  <2>7. \A r \in DOMAIN n \cup T : ny[r] = (IF r \in DOMAIN n THEN n[r] ELSE 0)
                                           + (IF r \in T THEN D(r) ELSE 0)
    BY <1>1, <1>3, <2>3
  <2>8. MedEnergi(n, fra, til, effekt) = NyereEnn(ny, g)
    BY <1>2, <2>2, <2>6, <2>7
  <2>9. DOMAIN ny \subseteq Ruter /\ DOMAIN e \subseteq DOMAIN ny
    BY <2>3, <2>4
  <2>. QED
    BY <2>4, <2>5, <2>8, <2>9 DEF ny, n
<1>. QED
  BY <1>4, <1>5

\* Nothing to write: the routes that are kept have the energy they had, and so
\* has every route.
LEMMA MedEnergiUendret ==
  ASSUME NEW e, DOMAIN e \subseteq Ruter, \A r \in DOMAIN e : e[r] \in Int, e = [r \in DOMAIN e |-> e[r]],
         NEW fra \in Nat, NEW til \in Int, NEW effekt \in Nat,
         NEW g \in Int, g <= Rute(fra),
         MedEnergi(NyereEnn(e, g), fra, til, effekt) = NyereEnn(e, g)
  PROVE  MedEnergi(e, fra, til, effekt) = e
<1> DEFINE ny == MedEnergi(e, fra, til, effekt)
<1>1. /\ DOMAIN ny \subseteq Ruter
      /\ DOMAIN e \subseteq DOMAIN ny
      /\ \A r \in DOMAIN ny : r < g => r \in DOMAIN e /\ ny[r] = e[r]
      /\ NyereEnn(ny, g) = NyereEnn(e, g)
  BY MedEnergiNyere
<1>2. ny = e \/ ny = [r \in DOMAIN ny |-> ny[r]]
  BY DEF MedEnergi
<1> HIDE DEF ny
<1>3. /\ DOMAIN NyereEnn(ny, g) = {r \in DOMAIN ny : r >= g}
      /\ \A r \in DOMAIN ny : r >= g => NyereEnn(ny, g)[r] = ny[r]
      /\ DOMAIN NyereEnn(e, g) = {r \in DOMAIN e : r >= g}
      /\ \A r \in DOMAIN e : r >= g => NyereEnn(e, g)[r] = e[r]
  BY NyereEnnForm
<1>4. \A r \in DOMAIN ny : r \in Int
  BY <1>1 DEF Ruter
<1>5. \A r \in DOMAIN ny : r \in DOMAIN e /\ ny[r] = e[r]
  BY <1>1, <1>3, <1>4
<1>6. DOMAIN ny = DOMAIN e
  BY <1>1, <1>5
<1>7. ny = e
  BY <1>2, <1>5, <1>6
<1>. QED
  BY <1>7 DEF ny

\* avslutt_eldre: what a month that is kept gains is what the folded routes gave.
LEMMA FoldetSaldo ==
  ASSUME NEW f, NEW e, DOMAIN e \subseteq Ruter, IsFiniteSet(DOMAIN e), NEW t, NEW n \in Tikk,
         NEW m \in Int, m >= ManedAv[Time(n)] - 1, Av(f, m) \in Saldoer
  PROVE  Av(Foldet(f, e, t, n), m)
           = Lagt(Av(f, m), Bidragssum(e, t, {r \in DOMAIN e : r < Foldegrense(n)}, m))
<1> DEFINE gamle == {r \in DOMAIN e : r < Foldegrense(n)}
           maneder == DOMAIN f \cup {ManedAv[TimeForRute(r)] : r \in gamle}
           ny == Foldet(f, e, t, n)
           L(x) == Lagt(Av(f, x), Bidragssum(e, t, gamle, x))
<1>1. ny = [x \in {y \in maneder : y >= ManedAv[Time(n)] - 1} |-> L(x)]
  BY DEF Foldet
<1>2. IsFiniteSet(gamle)
  BY FS_Subset
<1>3. CASE m \in maneder
  <2> HIDE DEF maneder, gamle, L
  <2>1. m \in DOMAIN ny /\ ny[m] = L(m)
    BY <1>1, <1>3
  <2>. QED
    BY <2>1 DEF Av, L, gamle
<1>4. CASE m \notin maneder
  <2>1. Av(ny, m) = Null
    <3> HIDE DEF maneder, L
    <3>1. m \notin DOMAIN ny
      BY <1>1, <1>4
    <3>. QED
      BY <3>1 DEF Av
  <2>2. Av(f, m) = Null
    BY <1>4 DEF Av
  <2>3. \A r \in gamle : ManedAv[TimeForRute(r)] # m
    BY <1>4
  <2> HIDE DEF gamle
  <2>4. Bidragssum(e, t, gamle, m) = Null
    BY <1>2, <2>3, BidragssumTom
  <2>5. Lagt(Null, Null) = Null
    BY LagtSaldo, <2>2
  <2>. QED
    BY <2>1, <2>2, <2>4, <2>5 DEF gamle
<1>. QED
  BY <1>3, <1>4

-----------------------------------------------------------------------------
(***************************************************************************)
(* A book and what it folded away.                                         *)
(***************************************************************************)
\* The months that can be shown.
Vismaneder == Maneder \cup {m - 1 : m \in Maneder}

HistorieOK(h) ==
  /\ DOMAIN h = DOMAIN TomHistorie
  /\ DOMAIN h.energi \subseteq Ruter /\ h.energi = [r \in DOMAIN h.energi |-> h.energi[r]]
  /\ \A r \in DOMAIN h.energi : h.energi[r] \in Int
  /\ DOMAIN h.ruter \subseteq Ruter /\ \A r \in DOMAIN h.ruter : h.ruter[r].verdi \in Int
  /\ \A m \in DOMAIN h.apning : h.apning[m] \in Saldoer

\* The routes of h before g.
Gamle(h, g) == {r \in DOMAIN h.energi : r < g}

\* A book with the balances f, the energy e and the prices t holds the history
\* h: the routes before g are in the balances, each at its last price, the
\* others are as they were, whatever month is shown at time n or later.
Foert(f, e, t, h, g, n) ==
  /\ e = NyereEnn(h.energi, g)
  /\ t = NyereEnn(h.ruter, g)
  /\ \A m \in Vismaneder : m >= ManedAv[Time(n)] - 1 =>
       Av(f, m) = Lagt(Av(h.apning, m), Bidragssum(h.energi, h.ruter, Gamle(h, g), m))

\* Two histories that differ at most in when a price was read.
Lik(h, k) ==
  /\ h.apning = k.apning /\ h.energi = k.energi /\ DOMAIN h.ruter = DOMAIN k.ruter
  /\ \A r \in DOMAIN h.ruter : h.ruter[r].verdi = k.ruter[r].verdi

LEMMA RuterEndelig == IsFiniteSet(Ruter) /\ Ruter \subseteq Int
<1>1. (SisteTime + 1) * RuterPerTime - 1 \in Int
  BY TidAssumption
<1>. QED
  BY <1>1, FS_Interval DEF Ruter

LEMMA VismanederHel == Vismaneder \subseteq Int
BY ManederNat DEF Vismaneder

\* The routes that are kept are those of the history.
LEMMA FoertRuter ==
  ASSUME NEW f, NEW e, NEW t, NEW h, NEW g, NEW n, Foert(f, e, t, h, g, n)
  PROVE  /\ DOMAIN e = {r \in DOMAIN h.energi : r >= g}
         /\ SammeRuter(h.energi, h.ruter, e, t, DOMAIN e)
<1> DEFINE u == h.energi
           v == h.ruter
<1>0. e = NyereEnn(u, g) /\ t = NyereEnn(v, g)
  BY DEF Foert
<1> HIDE DEF u, v
<1>1. /\ DOMAIN e = {r \in DOMAIN u : r >= g}
      /\ \A r \in DOMAIN u : r >= g => e[r] = u[r]
      /\ DOMAIN t = {r \in DOMAIN v : r >= g}
      /\ \A r \in DOMAIN v : r >= g => t[r] = v[r]
  <2>1. /\ DOMAIN NyereEnn(u, g) = {r \in DOMAIN u : r >= g}
        /\ \A r \in DOMAIN u : r >= g => NyereEnn(u, g)[r] = u[r]
    BY NyereEnnForm
  <2>2. /\ DOMAIN NyereEnn(v, g) = {r \in DOMAIN v : r >= g}
        /\ \A r \in DOMAIN v : r >= g => NyereEnn(v, g)[r] = v[r]
    BY NyereEnnForm
  <2>. QED
    BY <1>0, <2>1, <2>2
<1>. QED
  BY <1>1 DEF SammeRuter, u, v

LEMMA HistorieRegnbar ==
  ASSUME NEW h, HistorieOK(h)
  PROVE  /\ \A R \in SUBSET DOMAIN h.energi : Regnbar(h.energi, h.ruter, R)
         /\ \A m : Av(h.apning, m) \in Saldoer
<1>1. ASSUME NEW R \in SUBSET DOMAIN h.energi
      PROVE  Regnbar(h.energi, h.ruter, R)
  <2>1. IsFiniteSet(R)
    BY RuterEndelig, FS_Subset DEF HistorieOK
  <2>. QED
    BY <2>1 DEF HistorieOK, Regnbar
<1>2. \A m : Av(h.apning, m) \in Saldoer
  BY DEF HistorieOK, Av, Null, Saldoer
<1>. QED
  BY <1>1, <1>2

\* What a book shows of a month is what its history shows.
LEMMA FoertMaaned ==
  ASSUME NEW f, NEW e, NEW t, NEW h, HistorieOK(h), NEW g \in Int, NEW n, Foert(f, e, t, h, g, n),
         NEW m \in Vismaneder, m >= ManedAv[Time(n)] - 1
  PROVE  /\ Av(f, m) \in Saldoer
         /\ Maaned(f, e, t, m) = Maaned(h.apning, h.energi, h.ruter, m)
<1> DEFINE D == DOMAIN h.energi
           A == Gamle(h, g)
           S(R) == Bidragssum(h.energi, h.ruter, R, m)
<1>1. A \subseteq D /\ D \ A = DOMAIN e /\ DOMAIN e \subseteq D
  <2>1. DOMAIN e = {r \in D : r >= g}
    BY NyereEnnForm DEF Foert
  <2>2. \A r \in D : r \in Int
    BY RuterEndelig DEF HistorieOK
  <2>. QED
    BY <2>1, <2>2 DEF Gamle
<1>2. Regnbar(h.energi, h.ruter, D) /\ Regnbar(h.energi, h.ruter, A) /\ Regnbar(h.energi, h.ruter, DOMAIN e)
  BY <1>1, HistorieRegnbar
<1>3. S(D) \in Saldoer /\ S(A) \in Saldoer /\ S(DOMAIN e) \in Saldoer
  BY <1>2, BidragssumType
<1>4. S(D) = Lagt(S(A), S(D \ A))
  BY <1>1, <1>2, BidragssumSplitt
<1>5. Bidragssum(e, t, DOMAIN e, m) = S(DOMAIN e)
  <2>1. SammeRuter(h.energi, h.ruter, e, t, DOMAIN e)
    BY FoertRuter
  <2>. QED
    BY <1>2, <2>1, BidragssumLik
<1>6. Av(h.apning, m) \in Saldoer
  BY HistorieRegnbar
<1>7. Av(f, m) = Lagt(Av(h.apning, m), S(A))
  BY DEF Foert
<1> HIDE DEF S, A, D
<1>8. Av(f, m) \in Saldoer
  BY <1>3, <1>6, <1>7, LagtSaldo
<1>9. Lagt(Lagt(Av(h.apning, m), S(A)), S(DOMAIN e)) = Lagt(Av(h.apning, m), Lagt(S(A), S(DOMAIN e)))
  BY <1>3, <1>6, LagtSaldo
<1>10. Maaned(f, e, t, m) = Lagt(Av(f, m), S(DOMAIN e))
  BY <1>5 DEF Maaned
<1>11. Maaned(h.apning, h.energi, h.ruter, m) = Lagt(Av(h.apning, m), S(D))
  BY DEF Maaned, S, D
<1>. QED
  BY <1>1, <1>4, <1>7, <1>8, <1>9, <1>10, <1>11

\* New energy and new samples, all from g on.
LEMMA FoertFyller ==
  ASSUME NEW f, NEW e, NEW t, NEW h, HistorieOK(h), NEW g \in Int, NEW n, Foert(f, e, t, h, g, n),
         NEW k, HistorieOK(k), k.apning = h.apning,
         \A r \in DOMAIN k.energi : r < g => r \in DOMAIN h.energi /\ k.energi[r] = h.energi[r],
         DOMAIN h.energi \subseteq DOMAIN k.energi,
         \A r : r < g => /\ r \in DOMAIN k.ruter <=> r \in DOMAIN h.ruter
                         /\ r \in DOMAIN h.ruter => k.ruter[r].verdi = h.ruter[r].verdi
  PROVE  Foert(f, NyereEnn(k.energi, g), NyereEnn(k.ruter, g), k, g, n)
<1>1. Gamle(k, g) = Gamle(h, g) /\ Gamle(h, g) \subseteq DOMAIN h.energi
  BY DEF Gamle
<1>2. Regnbar(h.energi, h.ruter, Gamle(h, g))
  BY <1>1, HistorieRegnbar
<1>3. SammeRuter(h.energi, h.ruter, k.energi, k.ruter, Gamle(h, g))
  BY DEF Gamle, SammeRuter
<1>4. \A m : Bidragssum(k.energi, k.ruter, Gamle(h, g), m) = Bidragssum(h.energi, h.ruter, Gamle(h, g), m)
  BY <1>2, <1>3, BidragssumLik
<1>. QED
  BY <1>1, <1>4 DEF Foert

\* avslutt_eldre moves the bound and nothing else.
LEMMA FoertFolder ==
  ASSUME NEW f, NEW e, NEW t, NEW h, HistorieOK(h), NEW g \in Int, NEW n \in Tikk, Foert(f, e, t, h, g, n)
  PROVE  LET G == Foldegrense(n)
         IN  Foert(Foldet(f, e, t, n), NyereEnn(e, G), NyereEnn(t, G), h, StorstAv(g, G), n)
<1> DEFINE G == Foldegrense(n)
           H == StorstAv(g, G)
           ny == Foldet(f, e, t, n)
<1>1. G \in Int
  <2>1. n \in Nat
    BY TikkHel
  <2>. QED
    BY <2>1, TidAssumption DEF Foldegrense, Rute
<1>2. NyereEnn(e, G) = NyereEnn(h.energi, H) /\ NyereEnn(t, G) = NyereEnn(h.ruter, H)
  BY <1>1, NyereEnnToGanger DEF Foert, HistorieOK
<1>3. DOMAIN e = {r \in DOMAIN h.energi : r >= g} /\ SammeRuter(h.energi, h.ruter, e, t, DOMAIN e)
  BY FoertRuter
<1> HIDE DEF G
<1>4. ASSUME NEW m \in Vismaneder, m >= ManedAv[Time(n)] - 1
      PROVE  Av(ny, m) = Lagt(Av(h.apning, m), Bidragssum(h.energi, h.ruter, Gamle(h, H), m))
  <2> DEFINE A == Gamle(h, g)
             B == {r \in DOMAIN e : r < G}
             C == Gamle(h, H)
             S(R) == Bidragssum(h.energi, h.ruter, R, m)
  <2>1. \A r \in DOMAIN h.energi : r \in Int
    BY RuterEndelig DEF HistorieOK
  <2>2. A \subseteq C /\ C \ A = B /\ B \subseteq DOMAIN e /\ C \subseteq DOMAIN h.energi
        /\ DOMAIN e \subseteq DOMAIN h.energi
    BY <1>1, <1>3, <2>1 DEF Gamle, StorstAv
  <2>3. Regnbar(h.energi, h.ruter, A) /\ Regnbar(h.energi, h.ruter, B) /\ Regnbar(h.energi, h.ruter, C)
    <3> HIDE DEF A, B, C
    <3>. QED
      BY <2>2, HistorieRegnbar
  <2>4. Av(f, m) \in Saldoer
    BY <1>4, FoertMaaned
  <2>5. Av(ny, m) = Lagt(Av(f, m), Bidragssum(e, t, B, m))
    <3>1. m \in Int /\ DOMAIN e \subseteq Ruter /\ IsFiniteSet(DOMAIN e)
      BY <2>2, VismanederHel, RuterEndelig, FS_Subset DEF HistorieOK
    <3>. QED
      BY <1>4, <2>4, <3>1, FoldetSaldo DEF G
  <2>6. Bidragssum(e, t, B, m) = S(B)
    <3>1. SammeRuter(h.energi, h.ruter, e, t, B)
      BY <1>3 DEF SammeRuter
    <3> HIDE DEF B
    <3>. QED
      BY <2>3, <3>1, BidragssumLik
  <2>7. Av(f, m) = Lagt(Av(h.apning, m), S(A))
    BY <1>4 DEF Foert
  <2> HIDE DEF A, B, C, ny, H
  <2>8. S(C) = Lagt(S(A), S(C \ A))
    BY <2>2, <2>3, BidragssumSplitt
  <2>9. S(A) \in Saldoer /\ S(B) \in Saldoer /\ Av(h.apning, m) \in Saldoer
    BY <2>3, BidragssumType, HistorieRegnbar
  <2> HIDE DEF S
  <2>10. Lagt(Lagt(Av(h.apning, m), S(A)), S(B)) = Lagt(Av(h.apning, m), Lagt(S(A), S(B)))
    BY <2>9, LagtSaldo
  <2>11. Av(ny, m) = Lagt(Av(h.apning, m), S(C))
    BY <2>2, <2>5, <2>6, <2>7, <2>8, <2>10
  <2>. QED
    BY <2>11 DEF S, C
<1>. QED
  BY <1>2, <1>4 DEF Foert, G

-----------------------------------------------------------------------------
(***************************************************************************)
(* Time.                                                                   *)
(***************************************************************************)
\* Later instants lie in later routes and months, and k routes later in the
\* k-th route from here.
LEMMA RuteStiger ==
  ASSUME NEW s \in Tikk, NEW t \in Tikk, s <= t
  PROVE  /\ Rute(s) \in Int /\ Rute(t) \in Int /\ Rute(s) <= Rute(t)
         /\ Foldegrense(s) \in Int /\ Foldegrense(s) <= Foldegrense(t)
         /\ Foldegrense(s) <= Rute(s)
<1> DEFINE T == TikkPerRute
           p == Rute(s)
           q == Rute(t)
<1>1. T \in Nat /\ T > 0 /\ s \in Nat /\ t \in Nat
  BY TidAssumption, TikkHel
<1>2. p \in Int /\ q \in Int /\ p * T <= s /\ t < (q + 1) * T
  BY <1>1 DEF Rute
<1>3. Lagringsvindu * RuterPerTime \in Nat
  BY TidAssumption
<1> HIDE DEF p, q, T
<1>4. p * T < (q + 1) * T
  <2>1. p * T \in Int /\ (q + 1) * T \in Int
    BY <1>1, <1>2
  <2>. QED
    BY <1>1, <1>2, <2>1
<1>5. p < q + 1
  <2>1. SUFFICES ASSUME p >= q + 1 PROVE FALSE
    BY <1>2
  <2>2. p * T >= (q + 1) * T
    BY <1>1, <1>2, <2>1
  <2>3. p * T \in Int /\ (q + 1) * T \in Int
    BY <1>1, <1>2
  <2>. QED
    BY <1>4, <2>2, <2>3
<1>. QED
  BY <1>2, <1>3, <1>5 DEF Foldegrense, p, q

LEMMA ManedForTid ==
  ASSUME NEW s \in Tikk, NEW t \in Tikk, s <= t
  PROVE  /\ ManedAv[Time(s)] \in Nat /\ ManedAv[Time(t)] \in Nat
         /\ ManedAv[Time(s)] <= ManedAv[Time(t)]
<1> DEFINE T == TikkPerTime
           p == Time(s)
           q == Time(t)
<1>1. T \in Nat /\ T > 0 /\ s \in Nat /\ t \in Nat
  BY TidAssumption, TikkHel DEF TikkPerTime
<1>2. p \in Int /\ q \in Int /\ p * T <= s /\ t < (q + 1) * T
  BY <1>1 DEF Time
<1> HIDE DEF p, q, T
<1>4. p * T < (q + 1) * T
  <2>1. p * T \in Int /\ (q + 1) * T \in Int
    BY <1>1, <1>2
  <2>. QED
    BY <1>1, <1>2, <2>1
<1>5. p < q + 1
  <2>1. SUFFICES ASSUME p >= q + 1 PROVE FALSE
    BY <1>2
  <2>2. p * T >= (q + 1) * T
    BY <1>1, <1>2, <2>1
  <2>3. p * T \in Int /\ (q + 1) * T \in Int
    BY <1>1, <1>2
  <2>. QED
    BY <1>4, <2>2, <2>3
<1>6. p \in Timer /\ q \in Timer
  BY TimeType DEF p, q
<1>. QED
  BY <1>2, <1>5, <1>6, KalenderAssumption DEF p, q

\* The clock has been set back by no more than the routes that are kept.
LEMMA GrensenBak ==
  ASSUME NEW n \in Tikk, NEW M \in Tikk, M <= n + Lagringsvindu * TikkPerTime
  PROVE  Foldegrense(M) <= Rute(n)
<1> DEFINE T == TikkPerRute
           K == Lagringsvindu * RuterPerTime
           p == Rute(n)
           q == Rute(M)
<1>1. T \in Nat /\ T > 0 /\ n \in Nat /\ M \in Nat /\ K \in Nat
  BY TidAssumption, TikkHel
<1>2. p \in Int /\ q \in Int /\ q * T <= M /\ n < (p + 1) * T
  BY <1>1 DEF Rute
<1>3. Lagringsvindu * TikkPerTime = K * T
  <2>1. \A x, y, z \in Nat : x * (y * z) = (x * z) * y
    OBVIOUS
  <2>. QED
    BY <2>1, TidAssumption DEF TikkPerTime
<1>4. Foldegrense(M) = q - K
  BY DEF Foldegrense
<1>5. M <= n + K * T
  BY <1>3
<1> HIDE DEF p, q, T, K
<1>6. q * T < (p + 1 + K) * T
  <2>1. (p + 1 + K) * T = (p + 1) * T + K * T
    BY <1>1, <1>2
  <2>2. q * T \in Int /\ (p + 1) * T \in Int /\ K * T \in Int
    BY <1>1, <1>2
  <2>. QED
    BY <1>1, <1>2, <1>5, <2>1, <2>2
<1>7. q < p + 1 + K
  <2>1. SUFFICES ASSUME q >= p + 1 + K PROVE FALSE
    BY <1>1, <1>2
  <2>2. q * T >= (p + 1 + K) * T
    BY <1>1, <1>2, <2>1
  <2>3. q * T \in Int /\ (p + 1 + K) * T \in Int
    BY <1>1, <1>2
  <2>. QED
    BY <1>6, <2>2, <2>3
<1>. QED
  BY <1>1, <1>2, <1>4, <1>7 DEF p

-----------------------------------------------------------------------------
(***************************************************************************)
(* The book in memory and the book in the file.                            *)
(***************************************************************************)
\* Foert, and the bound is behind the clock at its latest, M, and behind the
\* last booking s, so that no window and no sample reaches what was folded.
BokFoert(f, e, t, h, s, M) ==
  \E g \in Int : /\ g <= Foldegrense(M)
                 /\ s # Ingen => g <= Rute(s)
                 /\ Foert(f, e, t, h, g, naa)

\* The latest the clock has been, as far as it was set back.
Klokketopp(M) == M \in Tikk /\ naa <= M /\ M <= naa + stilt * Tilbake

KontoInv ==
  /\ HistorieOK(hel) /\ HistorieOK(lagretHel)
  /\ sist \in Tikk \cup {Ingen} /\ fil.sist \in Tikk \cup {Ingen}
  /\ stilt \in 0 .. MaksTilbake
  /\ \E M : /\ Klokketopp(M)
            /\ BokFoert(ferdige, energi, ruter, hel, sist, M)
            /\ BokFoert(fil.ferdige, fil.energi, lager, lagretHel, fil.sist, M)
  /\ ~ skriver /\ ~ feilet => Lik(hel, lagretHel)

\* A book that holds its history holds it later on, and in the same month.
LEMMA FoertSenere ==
  ASSUME NEW f, NEW e, NEW t, NEW h, NEW g, NEW n \in Tikk, NEW k \in Tikk,
         ManedAv[Time(n)] <= ManedAv[Time(k)], Foert(f, e, t, h, g, n)
  PROVE  Foert(f, e, t, h, g, k)
<1>1. ManedAv[Time(n)] \in Nat /\ ManedAv[Time(k)] \in Nat
  BY ManedForTid, TikkHel
<1>2. \A m \in Vismaneder : m >= ManedAv[Time(k)] - 1 => m >= ManedAv[Time(n)] - 1
  BY <1>1, VismanederHel
<1>. QED
  BY <1>2 DEF Foert

LEMMA StartSaldoer ==
  ASSUME NEW a \in Apninger
  PROVE  \A m \in DOMAIN Start(a) : Start(a)[m] \in Saldoer
<1>1. CASE a = Ingen
  BY <1>1 DEF Start
<1>2. CASE a # Ingen
  <2>1. a \in Saldoer \X Saldoer
    BY <1>2, EksportAssumption
  <2>2. a[1] \in Saldoer /\ a[2] \in Saldoer
    BY <2>1
  <2>. QED
    BY <1>2, <2>2 DEF Start
<1>. QED
  BY <1>1, <1>2

LEMMA KontoInitInv == EksportInit => KontoInv
<1> SUFFICES ASSUME EksportInit PROVE KontoInv
  OBVIOUS
<1>1. PICK a \in Apninger : ferdige = Start(a) /\ hel = [TomHistorie EXCEPT !.apning = Start(a)]
  BY DEF EksportInit
<1>2. HistorieOK(hel)
  <2>1. hel.apning = Start(a) /\ hel.energi = <<>> /\ hel.ruter = <<>> /\ DOMAIN hel = DOMAIN TomHistorie
    BY <1>1 DEF TomHistorie
  <2>. QED
    BY <2>1, StartSaldoer DEF HistorieOK
<1>3. hel.apning = Start(a) /\ hel.energi = <<>> /\ hel.ruter = <<>>
  BY <1>1 DEF TomHistorie
<1>4. 0 \in Tikk /\ naa = 0
  BY EksportInitInv DEF EksportInit, EksportInv
<1>5. \A g : Foert(ferdige, <<>>, <<>>, hel, g, naa)
  <2>1. \A g : NyereEnn(<<>>, g) = <<>>
    <3>1. \A g : NyereEnn(<<>>, g) \in [{} -> {}]
      BY DEF NyereEnn, Restrict
    <3>2. <<>> \in [{} -> {}]
      OBVIOUS
    <3>. QED
      BY <3>1, <3>2
  <2>2. \A g, m : Bidragssum(hel.energi, hel.ruter, Gamle(hel, g), m) = Null
    <3>1. \A g : Gamle(hel, g) = {}
      BY <1>3 DEF Gamle
    <3>2. IsFiniteSet({})
      BY FS_EmptySet
    <3>. QED
      BY <3>1, <3>2, BidragssumTom
  <2>3. \A m : Av(ferdige, m) = Lagt(Av(hel.apning, m), Null)
    BY <1>1, <1>2, <1>3, HistorieRegnbar, LagtSaldo
  <2>. QED
    BY <1>3, <2>1, <2>2, <2>3 DEF Foert
<1>6. BokFoert(ferdige, <<>>, <<>>, hel, Ingen, 0)
  <2>1. Foldegrense(0) \in Int /\ Foldegrense(0) <= Foldegrense(0)
    BY <1>4, RuteStiger
  <2>. QED
    BY <1>5, <2>1 DEF BokFoert
<1>7. /\ energi = <<>> /\ ruter = <<>> /\ lager = <<>> /\ sist = Ingen
      /\ fil.energi = <<>> /\ fil.ferdige = ferdige /\ fil.sist = Ingen
      /\ lagretHel = hel /\ stilt = 0
  BY DEF EksportInit, Init
<1>8. stilt \in 0 .. MaksTilbake /\ Klokketopp(0)
  BY <1>4, <1>7, EksportAssumption DEF Klokketopp
<1>9. Lik(hel, hel)
  BY DEF Lik
<1>. QED
  BY <1>2, <1>6, <1>7, <1>8, <1>9 DEF KontoInv

-----------------------------------------------------------------------------
(***************************************************************************)
(* Polls and the clock.                                                    *)
(***************************************************************************)
\* The table after the sample of a poll at time n, if there is one to accept.
Provd(t, pris, n) ==
  IF pris # Ingen /\ Godtas(n) THEN Registrer(t, [polltid |-> n, verdi |-> pris]) ELSE t

\* What a poll does, with names for its parts.
LEMMA PollForm ==
  ASSUME NEW pris, NEW effekt, Poll(pris, effekt)
  PROVE  LET G == Foldegrense(naa)
             fra == naa - Vindu
             fylt == MedEnergi(energi, fra, naa, effekt)
         IN  /\ ~ skriver
             /\ ruter' = NyereEnn(Provd(ruter, pris, naa), G)
             /\ energi' = NyereEnn(fylt, G)
             /\ ferdige' = Foldet(ferdige, fylt, Provd(ruter, pris, naa), naa)
             /\ sist' = naa
             /\ hel' = [hel EXCEPT !.ruter = Provd(@, pris, naa),
                                   !.energi = MedEnergi(@, fra, naa, effekt)]
             /\ ~ skriver' => /\ ~ NyPris(ruter, Provd(ruter, pris, naa), naa)
                              /\ fylt = energi
             /\ UNCHANGED <<naa, lager, lagret, fil, feilet, lagretHel, omstarter, stilt>>
<1>1. CASE pris # Ingen /\ Godtas(naa)
  BY <1>1 DEF Poll, Provd
<1>2. CASE ~ (pris # Ingen /\ Godtas(naa))
  BY <1>2 DEF Poll, Provd
<1>. QED
  BY <1>1, <1>2

\* The window of a poll starts at the last one or later.
LEMMA VinduStart ==
  ASSUME naa \in Tikk, sist \in Tikk \cup {Ingen}
  PROVE  LET fra == naa - Vindu
         IN  fra \in Tikk /\ fra \in Nat /\ fra <= naa /\ (fra = naa \/ (sist # Ingen /\ sist <= fra))
<1> DEFINE fra == naa - Vindu
<1>1. naa \in Nat /\ (sist # Ingen => sist \in Nat) /\ MaksEstimertVindu \in Nat
  BY TikkHel, GrenseAssumption
<1>2. /\ fra \in Nat /\ fra <= naa
      /\ fra = naa \/ (sist # Ingen /\ sist <= fra)
  BY <1>1 DEF Vindu, StorstAv, MinstAv
<1>3. \A t \in Nat : t <= naa => t \in Tikk
  <2>1. (SisteTime + 1) * TikkPerTime - 1 \in Int
    BY TidAssumption DEF TikkPerTime
  <2>. QED
    BY <2>1 DEF Tikk
<1>. QED
  BY <1>2, <1>3

\* A sample of a route from g on.
LEMMA ProvdNyere ==
  ASSUME NEW t, DOMAIN t \subseteq Ruter, NEW g, NEW n \in Tikk, Rute(n) >= g,
         NEW pris \in Priser \cup {Ingen}, \A r \in DOMAIN t : t[r].verdi \in Int
  PROVE  LET ny == Provd(t, pris, n)
         IN  /\ DOMAIN ny \subseteq Ruter
             /\ \A r \in DOMAIN ny : ny[r].verdi \in Int
             /\ Provd(NyereEnn(t, g), pris, n) = NyereEnn(ny, g)
             /\ \A r \in DOMAIN t \cup DOMAIN ny :
                  r # Rute(n) => r \in DOMAIN t /\ r \in DOMAIN ny /\ ny[r] = t[r]
<1> DEFINE p == [polltid |-> n, verdi |-> pris]
<1>1. CASE pris # Ingen /\ Godtas(n)
  <2>1. /\ Provd(t, pris, n) = Registrer(t, p)
        /\ Provd(NyereEnn(t, g), pris, n) = Registrer(NyereEnn(t, g), p)
    BY <1>1 DEF Provd
  <2>2. Rute(p.polltid) = Rute(n) /\ Rute(n) \in Ruter /\ p.verdi \in Int
    BY <1>1, RuteType, PrisAssumption
  <2>3. DOMAIN Registrer(t, p) \subseteq DOMAIN t \cup {Rute(n)}
    BY <2>2 DEF Registrer
  <2>4. \A r \in DOMAIN Registrer(t, p) : Registrer(t, p)[r].verdi \in Int
    BY <2>2 DEF Registrer
  <2> HIDE DEF p
  <2>5. /\ Registrer(NyereEnn(t, g), p) = NyereEnn(Registrer(t, p), g)
        /\ \A r \in DOMAIN t \cup DOMAIN Registrer(t, p) :
             r # Rute(p.polltid) => /\ r \in DOMAIN t /\ r \in DOMAIN Registrer(t, p)
                                    /\ Registrer(t, p)[r] = t[r]
    BY <2>2, RegistrerNyere
  <2>. QED
    BY <2>1, <2>2, <2>3, <2>4, <2>5
<1>2. CASE ~ (pris # Ingen /\ Godtas(n))
  BY <1>2 DEF Provd
<1>. QED
  BY <1>1, <1>2

\* A poll that finds the price it had leaves every route at its price.
LEMMA ProvdUendret ==
  ASSUME NEW t, DOMAIN t \subseteq Ruter, NEW g, NEW n \in Tikk, Rute(n) >= g,
         NEW pris \in Priser \cup {Ingen}, \A r \in DOMAIN t : t[r].verdi \in Int,
         ~ NyPris(NyereEnn(t, g), Provd(NyereEnn(t, g), pris, n), n)
  PROVE  /\ DOMAIN Provd(t, pris, n) = DOMAIN t
         /\ \A r \in DOMAIN t : Provd(t, pris, n)[r].verdi = t[r].verdi
<1> DEFINE q == Rute(n)
           ny == Provd(t, pris, n)
           e == NyereEnn(t, g)
           f == NyereEnn(ny, g)
<1>1. /\ Provd(e, pris, n) = f
      /\ \A r \in DOMAIN t \cup DOMAIN ny : r # q => r \in DOMAIN t /\ r \in DOMAIN ny /\ ny[r] = t[r]
  BY ProvdNyere
<1>2. /\ DOMAIN e = {r \in DOMAIN t : r >= g} /\ \A r \in DOMAIN t : r >= g => e[r] = t[r]
      /\ DOMAIN f = {r \in DOMAIN ny : r >= g} /\ \A r \in DOMAIN ny : r >= g => f[r] = ny[r]
  BY NyereEnnForm
<1>3. PrisI(f, q) = PrisI(e, q)
  BY <1>1 DEF NyPris
<1>4. CASE pris # Ingen /\ Godtas(n)
  <2>1. q \in DOMAIN ny /\ (q \in DOMAIN t \/ ny[q].verdi # Ingen)
    BY <1>4 DEF Provd, Registrer
  <2> HIDE DEF q, ny, e, f
  <2>2. q >= g
    BY DEF q
  <2>3. PrisI(f, q) = ny[q].verdi
    BY <1>2, <2>1, <2>2 DEF PrisI
  <2>4. q \in DOMAIN t
    BY <1>2, <1>3, <2>1, <2>3 DEF PrisI
  <2>5. PrisI(e, q) = t[q].verdi
    BY <1>2, <2>2, <2>4 DEF PrisI
  <2>. QED
    BY <1>1, <1>3, <2>1, <2>3, <2>4, <2>5 DEF ny
<1>5. CASE ~ (pris # Ingen /\ Godtas(n))
  BY <1>5 DEF Provd
<1>. QED
  BY <1>4, <1>5

\* The clock was never further ahead than the routes that are kept reach.
LEMMA KlokkeBak ==
  ASSUME MaksTilbake * Tilbake <= Lagringsvindu * TikkPerTime, naa \in Tikk,
         stilt \in 0 .. MaksTilbake, NEW M, Klokketopp(M)
  PROVE  /\ Foldegrense(M) <= Rute(naa)
         /\ Foldegrense(naa) <= Foldegrense(M)
<1>1. stilt \in Nat /\ Tilbake \in Nat /\ MaksTilbake \in Nat /\ stilt <= MaksTilbake
  BY EksportAssumption
<1>2. stilt * Tilbake <= MaksTilbake * Tilbake
  BY <1>1
<1>3. /\ stilt * Tilbake \in Nat /\ MaksTilbake * Tilbake \in Nat
      /\ Lagringsvindu * TikkPerTime \in Nat /\ naa \in Nat
  BY <1>1, TidAssumption, TikkHel DEF TikkPerTime
<1>4. M \in Tikk /\ naa <= M /\ M <= naa + stilt * Tilbake /\ M \in Nat
  BY TikkHel DEF Klokketopp
<1>5. M <= naa + Lagringsvindu * TikkPerTime
  BY <1>2, <1>3, <1>4
<1>. QED
  BY <1>4, <1>5, GrensenBak, RuteStiger

-----------------------------------------------------------------------------
(***************************************************************************)
(* Every step keeps a book that holds its history.                         *)
(***************************************************************************)
LEMMA PollKonto ==
  ASSUME MaksTilbake * Tilbake <= Lagringsvindu * TikkPerTime, EksportInv, KontoInv,
         NEW i \in Innganger, Poll(i.pris, i.effekt)
  PROVE  KontoInv'
<1> DEFINE pris == i.pris
           effekt == i.effekt
           G == Foldegrense(naa)
           fra == naa - Vindu
           fylt == MedEnergi(energi, fra, naa, effekt)
           tabell == Provd(ruter, pris, naa)
<1>1. pris \in Priser \cup {Ingen} /\ effekt \in Nat /\ naa \in Tikk /\ naa \in Nat
  BY EksportAssumption, TikkHel DEF EksportInv
<1>2. /\ ~ skriver
      /\ ruter' = NyereEnn(tabell, G) /\ energi' = NyereEnn(fylt, G)
      /\ ferdige' = Foldet(ferdige, fylt, tabell, naa) /\ sist' = naa
      /\ hel' = [hel EXCEPT !.ruter = Provd(@, pris, naa),
                            !.energi = MedEnergi(@, fra, naa, effekt)]
      /\ ~ skriver' => ~ NyPris(ruter, tabell, naa) /\ fylt = energi
      /\ UNCHANGED <<naa, lager, lagret, fil, feilet, lagretHel, omstarter, stilt>>
  BY PollForm
<1>3. HistorieOK(hel) /\ sist \in Tikk \cup {Ingen} /\ stilt \in 0 .. MaksTilbake
  BY DEF KontoInv
<1>4. PICK M : /\ Klokketopp(M)
               /\ BokFoert(ferdige, energi, ruter, hel, sist, M)
               /\ BokFoert(fil.ferdige, fil.energi, lager, lagretHel, fil.sist, M)
  BY DEF KontoInv
<1>5. PICK g \in Int : /\ g <= Foldegrense(M)
                       /\ sist # Ingen => g <= Rute(sist)
                       /\ Foert(ferdige, energi, ruter, hel, g, naa)
  BY <1>4 DEF BokFoert
<1>6. Foldegrense(M) <= Rute(naa) /\ Foldegrense(naa) <= Foldegrense(M)
  BY <1>1, <1>3, <1>4, KlokkeBak
<1>7. fra \in Tikk /\ fra \in Nat /\ fra <= naa /\ (fra = naa \/ (sist # Ingen /\ sist <= fra))
  BY <1>1, <1>3, VinduStart
<1>8. /\ Foldegrense(M) \in Int /\ G \in Int /\ Rute(naa) \in Int /\ G <= Rute(naa)
      /\ M \in Tikk
  BY <1>1, <1>4, RuteStiger, TikkHel DEF Klokketopp
<1> HIDE DEF fra, G, pris, effekt
<1>9. g <= Rute(naa) /\ g <= Rute(fra)
  <2>1. g <= Rute(naa)
    BY <1>5, <1>6, <1>8
  <2>2. CASE fra = naa
    BY <2>1, <2>2
  <2>3. CASE sist # Ingen /\ sist <= fra
    <3>1. sist \in Tikk /\ g <= Rute(sist)
      BY <1>3, <1>5, <2>3
    <3>2. Rute(sist) \in Int /\ Rute(fra) \in Int /\ Rute(sist) <= Rute(fra)
      BY <1>7, <2>3, <3>1, RuteStiger
    <3>. QED
      BY <2>1, <3>1, <3>2
  <2>. QED
    BY <1>7, <2>1, <2>2, <2>3
<1> DEFINE e == hel.energi
           t == hel.ruter
           ny == MedEnergi(e, fra, naa, effekt)
           nt == Provd(t, pris, naa)
<1>10. /\ DOMAIN e \subseteq Ruter /\ e = [r \in DOMAIN e |-> e[r]]
       /\ \A r \in DOMAIN e : e[r] \in Int
       /\ DOMAIN t \subseteq Ruter /\ \A r \in DOMAIN t : t[r].verdi \in Int
  BY <1>3 DEF HistorieOK
<1>11. energi = NyereEnn(e, g) /\ ruter = NyereEnn(t, g)
  BY <1>5 DEF Foert
<1>12. hel'.energi = ny /\ hel'.ruter = nt /\ hel'.apning = hel.apning /\ DOMAIN hel' = DOMAIN hel
  BY <1>2, <1>3 DEF HistorieOK, TomHistorie
<1> HIDE DEF e, t
<1>13. /\ DOMAIN ny \subseteq Ruter /\ \A r \in DOMAIN ny : ny[r] \in Int
       /\ DOMAIN e \subseteq DOMAIN ny
       /\ \A r \in DOMAIN ny : r < g => r \in DOMAIN e /\ ny[r] = e[r]
       /\ MedEnergi(NyereEnn(e, g), fra, naa, effekt) = NyereEnn(ny, g)
  BY <1>1, <1>7, <1>9, <1>10, MedEnergiNyere
<1>14. /\ DOMAIN nt \subseteq Ruter
       /\ \A r \in DOMAIN nt : nt[r].verdi \in Int
       /\ Provd(NyereEnn(t, g), pris, naa) = NyereEnn(nt, g)
       /\ \A r \in DOMAIN t \cup DOMAIN nt :
            r # Rute(naa) => r \in DOMAIN t /\ r \in DOMAIN nt /\ nt[r] = t[r]
  BY <1>1, <1>8, <1>9, <1>10, ProvdNyere
<1>15. ny = [r \in DOMAIN ny |-> ny[r]]
  BY <1>10 DEF MedEnergi
<1>16. fylt = NyereEnn(ny, g) /\ tabell = NyereEnn(nt, g)
  BY <1>11, <1>13, <1>14
<1> HIDE DEF ny, nt
<1>17. HistorieOK(hel')
  BY <1>3, <1>12, <1>13, <1>14, <1>15 DEF HistorieOK
<1>18. Foert(ferdige, fylt, tabell, hel', g, naa)
  <2>1. \A r \in DOMAIN hel'.energi : r < g => r \in DOMAIN hel.energi /\ hel'.energi[r] = hel.energi[r]
    BY <1>12, <1>13 DEF e
  <2>2. DOMAIN hel.energi \subseteq DOMAIN hel'.energi
    BY <1>12, <1>13 DEF e
  <2>3. \A r : r < g => /\ r \in DOMAIN hel'.ruter <=> r \in DOMAIN hel.ruter
                        /\ r \in DOMAIN hel.ruter => hel'.ruter[r].verdi = hel.ruter[r].verdi
    <3>1. ASSUME NEW r, r < g
          PROVE  /\ r \in DOMAIN hel'.ruter <=> r \in DOMAIN hel.ruter
                 /\ r \in DOMAIN hel.ruter => hel'.ruter[r].verdi = hel.ruter[r].verdi
      <4>1. CASE r \in DOMAIN t \cup DOMAIN nt
        <5>1. r \in Int
          BY <1>10, <1>14, <4>1, RuterEndelig
        <5>2. r # Rute(naa)
          BY <1>8, <1>9, <3>1, <5>1
        <5>. QED
          BY <1>12, <1>14, <4>1, <5>2 DEF t
      <4>2. CASE r \notin DOMAIN t \cup DOMAIN nt
        BY <1>12, <4>2 DEF t
      <4>. QED
        BY <4>1, <4>2
    <3>. QED
      BY <3>1
  <2>4. Foert(ferdige, NyereEnn(hel'.energi, g), NyereEnn(hel'.ruter, g), hel', g, naa)
    BY <1>3, <1>5, <1>12, <1>17, <2>1, <2>2, <2>3, FoertFyller
  <2>. QED
    BY <1>12, <1>16, <2>4
<1>19. Foert(ferdige', energi', ruter', hel', StorstAv(g, G), naa)
  <2> HIDE DEF fylt, tabell
  <2>1. Foert(Foldet(ferdige, fylt, tabell, naa), NyereEnn(fylt, Foldegrense(naa)),
              NyereEnn(tabell, Foldegrense(naa)), hel', StorstAv(g, Foldegrense(naa)), naa)
    BY <1>1, <1>17, <1>18, FoertFolder
  <2>. QED
    BY <1>2, <2>1 DEF G
<1>20. BokFoert(ferdige, energi, ruter, hel, sist, M)'
  <2>1. StorstAv(g, G) \in Int /\ StorstAv(g, G) <= Foldegrense(M) /\ StorstAv(g, G) <= Rute(naa)
    BY <1>5, <1>6, <1>8, <1>9 DEF StorstAv, G
  <2>. QED
    BY <1>2, <1>19, <2>1 DEF BokFoert
<1>21. BokFoert(fil.ferdige, fil.energi, lager, lagretHel, fil.sist, M)' /\ Klokketopp(M)'
  BY <1>2, <1>4 DEF BokFoert, Klokketopp
<1>22. ~ skriver' /\ ~ feilet' => Lik(hel', lagretHel')
  <2> SUFFICES ASSUME ~ skriver', ~ feilet' PROVE Lik(hel', lagretHel')
    OBVIOUS
  <2>1. Lik(hel, lagretHel) /\ lagretHel' = lagretHel
    BY <1>2 DEF KontoInv
  <2>2. NyereEnn(ny, g) = NyereEnn(e, g)
    BY <1>2, <1>11, <1>16
  <2>3. ny = e
    BY <1>1, <1>7, <1>9, <1>10, <1>13, <2>2, MedEnergiUendret DEF ny
  <2>4. ~ NyPris(NyereEnn(t, g), Provd(NyereEnn(t, g), pris, naa), naa)
    BY <1>2, <1>11
  <2>5. DOMAIN nt = DOMAIN t /\ \A r \in DOMAIN t : nt[r].verdi = t[r].verdi
    BY <1>1, <1>8, <1>9, <1>10, <2>4, ProvdUendret DEF nt
  <2>. QED
    BY <1>12, <2>1, <2>3, <2>5 DEF Lik, e, t
<1>. QED
  BY <1>1, <1>2, <1>3, <1>17, <1>20, <1>21, <1>22 DEF KontoInv

\* A step that does no more than let the clock go on, or set it back.
LEMMA TidKonto ==
  ASSUME EksportInv, KontoInv, naa' \in Tikk, ManedAv[Time(naa)] <= ManedAv[Time(naa')],
         stilt' \in 0 .. MaksTilbake, UNCHANGED Boken,
         NEW M, Klokketopp(M), NEW N, Klokketopp(N)', M <= N,
         BokFoert(ferdige, energi, ruter, hel, sist, M),
         BokFoert(fil.ferdige, fil.energi, lager, lagretHel, fil.sist, M)
  PROVE  KontoInv'
<1>1. naa \in Tikk /\ M \in Tikk /\ N \in Tikk
  BY DEF EksportInv, Klokketopp
<1>2. Foldegrense(M) \in Int /\ Foldegrense(N) \in Int /\ Foldegrense(M) <= Foldegrense(N)
  BY <1>1, RuteStiger, TikkHel
<1>3. ASSUME NEW f, NEW e, NEW t, NEW h, NEW s, NEW g \in Int, g <= Foldegrense(M),
             s # Ingen => g <= Rute(s), Foert(f, e, t, h, g, naa)
      PROVE  g <= Foldegrense(N) /\ Foert(f, e, t, h, g, naa')
  BY <1>1, <1>2, <1>3, FoertSenere
<1>4. /\ BokFoert(ferdige, energi, ruter, hel, sist, N)'
      /\ BokFoert(fil.ferdige, fil.energi, lager, lagretHel, fil.sist, N)'
  BY <1>3 DEF BokFoert, Boken
<1>. QED
  BY <1>4 DEF KontoInv, Boken

LEMMA KlokkeKonto ==
  ASSUME EksportInv, KontoInv, Klokke
  PROVE  KontoInv'
<1>1. naa \in Tikk /\ naa' \in Tikk /\ naa' = naa + 1 /\ naa \in Nat /\ stilt' = stilt /\ UNCHANGED Boken
  BY TikkHel DEF EksportInv, Klokke
<1>2. PICK M : /\ Klokketopp(M)
               /\ BokFoert(ferdige, energi, ruter, hel, sist, M)
               /\ BokFoert(fil.ferdige, fil.energi, lager, lagretHel, fil.sist, M)
  BY DEF KontoInv
<1>3. stilt \in 0 .. MaksTilbake /\ stilt * Tilbake \in Nat
  BY EksportAssumption DEF KontoInv
<1>4. M \in Tikk /\ M \in Nat
  BY <1>2, TikkHel DEF Klokketopp
<1>5. \E N \in Tikk : naa + 1 <= N /\ M <= N /\ N <= naa + 1 + stilt * Tilbake
  <2>1. naa <= M /\ M <= naa + stilt * Tilbake
    BY <1>2 DEF Klokketopp
  <2>2. CASE naa + 1 <= M
    BY <1>1, <1>3, <1>4, <2>1, <2>2
  <2>3. CASE ~ (naa + 1 <= M)
    <3>1. naa + 1 \in Tikk /\ M <= naa + 1 /\ naa + 1 <= naa + 1 + stilt * Tilbake
      BY <1>1, <1>3, <1>4, <2>3
    <3>. QED
      BY <1>1, <3>1
  <2>. QED
    BY <2>2, <2>3
<1>6. PICK N \in Tikk : naa + 1 <= N /\ M <= N /\ N <= naa + 1 + stilt * Tilbake
  BY <1>5
<1>7. Klokketopp(N)'
  BY <1>1, <1>6 DEF Klokketopp
<1>8. ManedAv[Time(naa)] <= ManedAv[Time(naa')]
  BY <1>1, ManedForTid
<1>9. naa' \in Tikk /\ stilt' \in 0 .. MaksTilbake /\ UNCHANGED Boken
  BY <1>1, <1>3
<1>10. /\ Klokketopp(M)
       /\ BokFoert(ferdige, energi, ruter, hel, sist, M)
       /\ BokFoert(fil.ferdige, fil.energi, lager, lagretHel, fil.sist, M)
  BY <1>2
<1>. QED
  BY <1>6, <1>7, <1>8, <1>9, <1>10, TidKonto

LEMMA TilbakeKonto ==
  ASSUME EksportInv, KontoInv, StillTilbake
  PROVE  KontoInv'
<1>1. PICK d \in 1 .. Tilbake : /\ naa - d \in Tikk /\ naa' = naa - d
                               /\ ManedAv[Time(naa - d)] = ManedAv[Time(naa)]
  BY DEF StillTilbake
<1>2. /\ naa \in Tikk /\ naa \in Nat /\ naa' \in Tikk /\ naa' \in Nat /\ UNCHANGED Boken
      /\ stilt \in 0 .. MaksTilbake /\ stilt' = stilt + 1 /\ stilt' \in 0 .. MaksTilbake
  BY <1>1, TikkHel, EksportAssumption DEF EksportInv, KontoInv, StillTilbake
<1>3. PICK M : /\ Klokketopp(M)
               /\ BokFoert(ferdige, energi, ruter, hel, sist, M)
               /\ BokFoert(fil.ferdige, fil.energi, lager, lagretHel, fil.sist, M)
  BY DEF KontoInv
<1>4. (stilt + 1) * Tilbake = stilt * Tilbake + Tilbake /\ stilt * Tilbake \in Nat /\ Tilbake \in Nat
  BY <1>2, EksportAssumption
<1>5. M \in Tikk /\ M \in Nat /\ naa <= M /\ M <= naa + stilt * Tilbake
  BY <1>3, TikkHel DEF Klokketopp
<1>6. naa' <= M /\ M <= naa' + stilt' * Tilbake
  BY <1>1, <1>2, <1>4, <1>5
<1>7. Klokketopp(M)'
  BY <1>5, <1>6 DEF Klokketopp
<1>8. ManedAv[Time(naa)] <= ManedAv[Time(naa')]
  BY <1>1, <1>2, ManedForTid
<1>. QED
  BY <1>2, <1>3, <1>5, <1>7, <1>8, TidKonto

LEMMA SkrivKonto ==
  ASSUME KontoInv, Skriv
  PROVE  KontoInv'
<1>1. PICK M : /\ Klokketopp(M)
               /\ BokFoert(ferdige, energi, ruter, hel, sist, M)
               /\ BokFoert(fil.ferdige, fil.energi, lager, lagretHel, fil.sist, M)
  BY DEF KontoInv
<1>2. /\ lager' = ruter /\ lagretHel' = hel /\ fil' = [energi |-> energi, ferdige |-> ferdige, sist |-> sist]
      /\ UNCHANGED <<naa, ruter, sist, energi, ferdige, hel, stilt>>
  BY DEF Skriv
<1>3. BokFoert(ferdige, energi, ruter, hel, sist, M)' /\ Klokketopp(M)'
  BY <1>1, <1>2 DEF BokFoert, Klokketopp
<1>4. BokFoert(fil.ferdige, fil.energi, lager, lagretHel, fil.sist, M)'
  BY <1>2, <1>3 DEF BokFoert
<1>5. Lik(hel', lagretHel')
  BY <1>2 DEF Lik
<1>. QED
  BY <1>2, <1>3, <1>4, <1>5 DEF KontoInv

LEMMA OmstartKonto ==
  ASSUME KontoInv, Omstart
  PROVE  KontoInv'
<1>1. PICK M : /\ Klokketopp(M)
               /\ BokFoert(ferdige, energi, ruter, hel, sist, M)
               /\ BokFoert(fil.ferdige, fil.energi, lager, lagretHel, fil.sist, M)
  BY DEF KontoInv
<1>2. /\ ruter' = lager /\ energi' = fil.energi /\ ferdige' = fil.ferdige /\ hel' = lagretHel
      /\ sist' = fil.sist \/ sist' = Ingen
      /\ UNCHANGED <<naa, fil, lager, lagretHel, stilt>>
  BY DEF Omstart, Les
<1>3. BokFoert(fil.ferdige, fil.energi, lager, lagretHel, fil.sist, M)' /\ Klokketopp(M)'
  BY <1>1, <1>2 DEF BokFoert, Klokketopp
<1>4. BokFoert(ferdige, energi, ruter, hel, sist, M)'
  BY <1>2, <1>3 DEF BokFoert
<1>5. Lik(hel', lagretHel')
  BY <1>2 DEF Lik
<1>. QED
  BY <1>2, <1>3, <1>4, <1>5 DEF KontoInv

LEMMA KontoNext ==
  ASSUME MaksTilbake * Tilbake <= Lagringsvindu * TikkPerTime,
         EksportInv, KontoInv, [EksportNext]_eksportvars
  PROVE  KontoInv'
<1>1. CASE Klokke
  BY <1>1, KlokkeKonto
<1>2. CASE StillTilbake
  BY <1>2, TilbakeKonto
<1>3. CASE \E i \in Innganger : Poll(i.pris, i.effekt)
  BY <1>3, PollKonto
<1>4. CASE Skriv
  BY <1>4, SkrivKonto
<1>5. CASE Skrivefeil
  BY <1>5 DEF Skrivefeil, vars, KontoInv, BokFoert, Klokketopp
<1>6. CASE Omstart
  BY <1>6, OmstartKonto
<1>7. CASE UNCHANGED eksportvars
  BY <1>7 DEF eksportvars, vars, KontoInv, BokFoert, Klokketopp
<1>. QED
  BY <1>1, <1>2, <1>3, <1>4, <1>5, <1>6, <1>7 DEF EksportNext

\* What memory and file show of a month is what their histories show.
LEMMA MaanedeneVises ==
  ASSUME EksportInv, KontoInv, NEW m \in Viste
  PROVE  /\ Maaned(ferdige, energi, ruter, m) = Maaned(hel.apning, hel.energi, hel.ruter, m)
         /\ Maaned(fil.ferdige, fil.energi, lager, m)
              = Maaned(lagretHel.apning, lagretHel.energi, lagretHel.ruter, m)
<1>1. m \in Vismaneder /\ m >= ManedAv[Time(naa)] - 1
  <2>1. Time(naa) \in Timer
    BY TimeType DEF EksportInv
  <2>2. ManedAv[Time(naa)] \in Maneder /\ ManedAv[Time(naa)] \in Nat
    BY <2>1, ManederNat DEF Maneder
  <2>. QED
    BY <2>2 DEF Viste, Vismaneder
<1>. QED
  BY <1>1, FoertMaaned DEF KontoInv, BokFoert

\* Contract of eksport.py: every route at its own price, known income and
\* unpriced energy apart, whatever was folded, failed or restarted in between,
\* as long as the clock is not set back by more than the hours that are kept.
THEOREM MaanedeneStemmer ==
  ASSUME MaksTilbake * Tilbake <= Lagringsvindu * TikkPerTime
  PROVE  EksportSpec => []MaanedenStemmer
<1>1. EksportInit => EksportInv /\ KontoInv
  BY EksportInitInv, KontoInitInv
<1>2. EksportInv /\ KontoInv /\ [EksportNext]_eksportvars => (EksportInv /\ KontoInv)'
  BY EksportNextInv, KontoNext
<1>3. EksportInv /\ KontoInv => MaanedenStemmer
  BY MaanedeneVises DEF MaanedenStemmer
<1>. QED
  BY <1>1, <1>2, <1>3, PTL DEF EksportSpec

\* Between two polls, unless the last write failed, the file gives the months
\* the memory gives: what was not written was not needed.
THEOREM FilenErAlltidFersk ==
  ASSUME MaksTilbake * Tilbake <= Lagringsvindu * TikkPerTime
  PROVE  EksportSpec => []FilenErFersk
<1>1. EksportInit => EksportInv /\ KontoInv
  BY EksportInitInv, KontoInitInv
<1>2. EksportInv /\ KontoInv /\ [EksportNext]_eksportvars => (EksportInv /\ KontoInv)'
  BY EksportNextInv, KontoNext
<1>3. EksportInv /\ KontoInv => FilenErFersk
  <2> SUFFICES ASSUME EksportInv, KontoInv, ~ skriver, ~ feilet, NEW m \in Viste
               PROVE  Maaned(fil.ferdige, fil.energi, lager, m) = Maaned(ferdige, energi, ruter, m)
    BY DEF FilenErFersk
  <2>1. HistorieOK(hel) /\ Lik(hel, lagretHel)
    BY DEF KontoInv
  <2> DEFINE e == hel.energi
             R == DOMAIN e
  <2>2. Regnbar(e, hel.ruter, R) /\ SammeRuter(e, hel.ruter, e, lagretHel.ruter, R)
    BY <2>1, HistorieRegnbar DEF Lik, SammeRuter
  <2>3. Bidragssum(e, lagretHel.ruter, R, m) = Bidragssum(e, hel.ruter, R, m)
    <3> HIDE DEF e, R
    <3>. QED
      BY <2>2, BidragssumLik
  <2>4. Maaned(lagretHel.apning, lagretHel.energi, lagretHel.ruter, m)
          = Maaned(hel.apning, hel.energi, hel.ruter, m)
    BY <2>1, <2>3 DEF Lik, Maaned
  <2>. QED
    BY <2>4, MaanedeneVises
<1>. QED
  BY <1>1, <1>2, <1>3, PTL DEF EksportSpec

=============================================================================

------------------------- MODULE AvregningsbokProofs -------------------------
(***************************************************************************)
(* Theorems about the book as a state machine: type correctness, the       *)
(* freshness of its caches, the immutability of archived months and of     *)
(* closed prices, for every calendar, resolution, threshold, price, set of *)
(* readings and number of restarts.                                        *)
(*                                                                         *)
(* And the three that say what the book is for: no energy is lost or made  *)
(* (EnergienErBevart), the book implements the ledger of module Hovedbok   *)
(* (BokenErEnHovedbok), and a restart changes no sum (RestartenErLik).     *)
(*                                                                         *)
(* The inductive invariant BokIInv adds to what is wanted what the Store   *)
(* says: the months of a saved book are ordered like those of a live one,  *)
(* so that a restart lands in a state the invariant allows.  EnergiInv has *)
(* the account of both books: the one in memory holds what was received,   *)
(* the one a restart would build what had been received at the last save.  *)
(* RestartInv says of both that what is folded away is out of reach, and   *)
(* that the rest is what was booked.                                       *)
(***************************************************************************)
EXTENDS Avregningsbok, AvregningProofs

\* The Store holds nothing, an old schema, or the months of a book.
LagerInv ==
  \/ lager \in {TomtLager, GammeltLager}
  \/ /\ lager.skjema = 3
     /\ LagerOK(lager)
     /\ lager.sist \in Avlesninger \cup {Ingen}

BokIInv ==
  /\ TypeOK
  /\ CacheErFersk
  /\ LagerInv
  /\ LagretArkivStaar

\* What every step but a restart does to the book's past.
Fremgang ==
  /\ \A m \in DOMAIN bok.arkiv : m \in DOMAIN bok'.arkiv /\ bok'.arkiv[m] = bok.arkiv[m]
  /\ \A h \in DOMAIN bok.poster \cap DOMAIN bok'.poster :
       (h + 1) * TikkPerTime <= naa =>
         Prisintervall(bok'.ruter, h) = Prisintervall(bok.ruter, h)

-----------------------------------------------------------------------------
\* An instant lies before the end of the hour its price route belongs to.
LEMMA RutensTime ==
  ASSUME NEW t \in Tikk
  PROVE  t < (TimeForRute(Rute(t)) + 1) * TikkPerTime
<1> DEFINE q == Rute(t)
           h == TimeForRute(q)
<1>1. t \in Nat /\ q \in Nat /\ h \in Nat
  <2>1. q \in Ruter
    BY RuteType
  <2>2. h \in Timer
    BY <2>1, TimeForRuteType
  <2>3. (SisteTime + 1) * RuterPerTime \in Nat
    BY TidAssumption
  <2>. QED
    BY <2>1, <2>2, <2>3, TikkHel, TidAssumption DEF Ruter, Timer
<1>2. t < (q + 1) * TikkPerRute
  BY <1>1, TidAssumption DEF Rute
<1>3. q + 1 <= (h + 1) * RuterPerTime
  BY <1>1, TidAssumption DEF TimeForRute
<1> HIDE DEF q, h
<1>4. (q + 1) * TikkPerRute <= ((h + 1) * RuterPerTime) * TikkPerRute
  BY <1>1, <1>3, TidAssumption
<1>5. ((h + 1) * RuterPerTime) * TikkPerRute = (h + 1) * TikkPerTime
  BY <1>1, TidAssumption DEF TikkPerTime
<1>6. (q + 1) * TikkPerRute \in Nat /\ ((h + 1) * RuterPerTime) * TikkPerRute \in Nat
  BY <1>1, TidAssumption
<1>7. t < (h + 1) * TikkPerTime
  BY <1>1, <1>2, <1>4, <1>5, <1>6
<1>. QED
  BY <1>7 DEF q, h

\* A new Store, or one of an older schema, gives an empty book.
LEMMA TomtLagerGirTomBok ==
  ASSUME lager \in {TomtLager, GammeltLager}
  PROVE  /\ FraLagring(lager) \in {TomBok(FALSE), TomBok(TRUE)}
         /\ lager.skjema # 3
<1>1. TomtLager.skjema = 0 /\ GammeltLager.skjema = 2
  BY DEF TomtLager, GammeltLager
<1>2. TomtLager # GammeltLager
  BY <1>1
<1>3. CASE lager = TomtLager
  BY <1>1, <1>2, <1>3 DEF FraLagring
<1>4. CASE lager = GammeltLager
  BY <1>1, <1>2, <1>4 DEF FraLagring
<1>. QED
  BY <1>3, <1>4

\* What the Store gives is a book.
LEMMA FraLagringAv ==
  ASSUME LagerInv
  PROVE  LET b == FraLagring(lager)
         IN  /\ BokInv(b) /\ b.sist \in Avlesninger \cup {Ingen}
             /\ lager.skjema = 3 => b.arkiv = lager.arkiv
<1>1. CASE lager \in {TomtLager, GammeltLager}
  BY <1>1, TomtLagerGirTomBok, TomBokInv
<1>2. CASE lager.skjema = 3 /\ LagerOK(lager) /\ lager.sist \in Avlesninger \cup {Ingen}
  BY <1>2, FraLagringInv
<1>. QED
  BY <1>1, <1>2 DEF LagerInv

\* The clock, and every instant of the model, starts at zero.
LEMMA NullErTikk == 0 \in Tikk
<1>1. (SisteTime + 1) * TikkPerTime \in Nat \ {0}
  BY TidAssumption DEF TikkPerTime
<1>. QED
  BY <1>1 DEF Tikk

LEMMA BokInitInv == Init => BokIInv
<1> SUFFICES ASSUME Init PROVE BokIInv
  OBVIOUS
<1>1. LagerInv
  BY StartAssumption DEF Init, LagerInv
<1>2. BokInv(bok) /\ bok.sist \in Avlesninger \cup {Ingen}
  BY <1>1, FraLagringAv DEF Init
<1>3. LagretArkivStaar
  BY StartAssumption DEF Init, LagretArkivStaar, TomtLager, GammeltLager
<1>4. naa \in Tikk /\ kilde \in Kilder /\ omstarter \in 0 .. MaksOmstarter
  BY NullErTikk, StartAssumption DEF Init
<1>. QED
  BY <1>1, <1>2, <1>3, <1>4 DEF BokIInv, TypeOK, CacheErFersk, BokInv

\* What a step that leaves clock, Store, source and restarts alone must do.
LEMMA StegPaaBoken ==
  ASSUME BokIInv, BokInv(bok'), bok'.sist \in Avlesninger \cup {Ingen},
         Fremover(bok, bok'), UNCHANGED <<naa, lager, kilde, omstarter>>
  PROVE  BokIInv' /\ Fremgang
<1>1. TypeOK' /\ CacheErFersk'
  BY DEF BokIInv, TypeOK, CacheErFersk, BokInv
<1>2. LagerInv'
  BY DEF BokIInv, LagerInv
<1>3. LagretArkivStaar'
  BY DEF BokIInv, LagretArkivStaar, Fremover
<1>4. Fremgang
  BY DEF Fremgang, Fremover
<1>. QED
  BY <1>1, <1>2, <1>3, <1>4 DEF BokIInv

LEMMA KlokkeInv == BokIInv /\ Klokke => BokIInv' /\ Fremgang
<1> SUFFICES ASSUME BokIInv, Klokke PROVE BokIInv' /\ Fremgang
  OBVIOUS
<1>1. naa' \in Tikk /\ UNCHANGED <<bok, lager, kilde, omstarter>>
  BY DEF Klokke
<1>. QED
  BY <1>1 DEF BokIInv, TypeOK, CacheErFersk, LagerInv, LagretArkivStaar, Fremgang

LEMMA PrisproveInv ==
  ASSUME NEW verdi, BokIInv, Prisprove(verdi)
  PROVE  BokIInv' /\ Fremgang
<1> DEFINE p == [polltid |-> naa, verdi |-> verdi]
<1>1. naa \in Tikk /\ BokInv(bok) /\ bok.sist \in Avlesninger \cup {Ingen}
  BY DEF BokIInv, TypeOK, CacheErFersk, BokInv
<1>2. bok' = RegistrerPrisprove(bok, p) /\ UNCHANGED <<naa, lager, kilde, omstarter>>
  BY DEF Prisprove
<1>3. /\ BokInv(bok')
      /\ bok'.arkiv = bok.arkiv /\ bok'.aktiv = bok.aktiv /\ bok'.sist = bok.sist
      /\ bok'.poster = bok.poster
  BY <1>1, <1>2, RegistrerPrisproveInv
<1>4. BokIInv'
  <2>1. TypeOK' /\ CacheErFersk'
    BY <1>1, <1>2, <1>3 DEF BokIInv, TypeOK, CacheErFersk, BokInv
  <2>2. LagerInv'
    BY <1>2 DEF BokIInv, LagerInv
  <2>3. LagretArkivStaar'
    BY <1>2, <1>3 DEF BokIInv, LagretArkivStaar
  <2>. QED
    BY <2>1, <2>2, <2>3 DEF BokIInv
<1>5. ASSUME NEW h \in DOMAIN bok.poster, (h + 1) * TikkPerTime <= naa
      PROVE  Prisintervall(bok'.ruter, h) = Prisintervall(bok.ruter, h)
  <2> DEFINE t == TimeForRute(Rute(naa))
  <2>1. h \in Nat /\ t \in Nat
    <3>1. h \in Timer
      BY <1>1 DEF BokInv, StrukturOK
    <3>2. t \in Timer
      BY <1>1, RuteType, TimeForRuteType
    <3>. QED
      BY <3>1, <3>2, TidAssumption DEF Timer
  <2>2. naa < (t + 1) * TikkPerTime /\ naa \in Nat
    BY <1>1, RutensTime, TikkHel
  <2>3. h # t
    <3>1. (t + 1) * TikkPerTime \in Nat
      BY <2>1, TidAssumption DEF TikkPerTime
    <3> HIDE DEF t
    <3>. QED
      BY <1>5, <2>1, <2>2, <3>1
  <2>4. CASE Godtas(naa)
    <3>1. bok'.ruter = Registrer(bok.ruter, p)
      BY <1>1, <1>2, <2>4 DEF RegistrerPrisprove, BokInv, StrukturOK, TomBok
    <3>. QED
      BY <2>3, <3>1, RegistrerAndreTimer
  <2>5. CASE ~ Godtas(naa)
    BY <1>2, <2>5 DEF RegistrerPrisprove
  <2>. QED
    BY <2>4, <2>5
<1>. QED
  BY <1>3, <1>4, <1>5 DEF Fremgang

LEMMA AvlesInv ==
  ASSUME NEW a \in Avlesninger, BokIInv, Avles(a)
  PROVE  BokIInv' /\ Fremgang
<1>1. a.tid \in Tikk
  BY DEF Avlesninger
<1>2. BokInv(bok) /\ bok.sist \in Avlesninger \cup {Ingen}
  BY DEF BokIInv, TypeOK, CacheErFersk, BokInv
<1>3. bok' = Bokfor(bok, a).bok /\ UNCHANGED <<naa, lager, kilde, omstarter>>
  BY DEF Avles
<1>4. BokInv(bok') /\ Fremover(bok, bok') /\ bok'.sist \in {a, bok.sist}
  BY <1>1, <1>2, <1>3, BokforInv
<1>. QED
  BY <1>2, <1>3, <1>4, StegPaaBoken

\* Refreshing the sums disturbs nothing.
LEMMA OppdaterFremover ==
  ASSUME NEW b, BokInv(b)
  PROVE  LET o == Oppdater(b)
         IN  BokInv(o) /\ Fremover(b, o) /\ o.sist = b.sist /\ o.arkiv = b.arkiv
<1> DEFINE o == Oppdater(b)
<1>1. BokInv(o) /\ o.ruter = b.ruter /\ o.sist = b.sist /\ o.aktiv = b.aktiv
      /\ o.arkiv = b.arkiv
  BY OppdaterInv, OppdaterFelt DEF BokInv
<1> HIDE DEF o
<1>2. Fremover(b, o)
  BY <1>1, FremoverSelv
<1>. QED
  BY <1>1, <1>2 DEF o

LEMMA LesSummerInv == BokIInv /\ LesSummer => BokIInv' /\ Fremgang
<1> SUFFICES ASSUME BokIInv, LesSummer PROVE BokIInv' /\ Fremgang
  OBVIOUS
<1>1. bok' = Oppdater(bok) /\ UNCHANGED <<naa, lager, kilde, omstarter>>
  BY DEF LesSummer
<1>2. BokInv(bok) /\ bok.sist \in Avlesninger \cup {Ingen}
  BY DEF BokIInv, TypeOK, CacheErFersk, BokInv
<1>. QED
  BY <1>1, <1>2, OppdaterFremover, StegPaaBoken

LEMMA LagreInv == BokIInv /\ Lagre => BokIInv' /\ Fremgang
<1> SUFFICES ASSUME BokIInv, Lagre PROVE BokIInv' /\ Fremgang
  OBVIOUS
<1>1. /\ bok' = Oppdater(bok) /\ lager' = TilLagring(bok, naa)
      /\ UNCHANGED <<naa, kilde, omstarter>>
  BY DEF Lagre
<1>2. BokInv(bok) /\ bok.sist \in Avlesninger \cup {Ingen}
  BY DEF BokIInv, TypeOK, CacheErFersk, BokInv
<1>3. /\ BokInv(bok') /\ Fremover(bok, bok') /\ bok'.sist = bok.sist
      /\ bok'.arkiv = bok.arkiv
  BY <1>1, <1>2, OppdaterFremover
<1>4. LagerOK(lager') /\ lager'.skjema = 3 /\ lager'.sist = bok.sist /\ lager'.arkiv = bok.arkiv
  BY <1>1, <1>2, TilLagringInv
<1>5. LagerInv' /\ LagretArkivStaar'
  BY <1>2, <1>3, <1>4 DEF LagerInv, LagretArkivStaar
<1>6. TypeOK' /\ CacheErFersk'
  BY <1>1, <1>2, <1>3 DEF BokIInv, TypeOK, CacheErFersk, BokInv
<1>7. Fremgang
  BY <1>3 DEF Fremgang, Fremover
<1>. QED
  BY <1>5, <1>6, <1>7 DEF BokIInv

LEMMA OmstartInv == BokIInv /\ Omstart => BokIInv' /\ omstarter' # omstarter
<1> SUFFICES ASSUME BokIInv, Omstart PROVE BokIInv' /\ omstarter' # omstarter
  OBVIOUS
<1>1. /\ bok' = FraLagring(lager) /\ kilde' \in Kilder
      /\ omstarter < MaksOmstarter /\ omstarter' = omstarter + 1
      /\ UNCHANGED <<naa, lager>>
  BY DEF Omstart
<1>2. /\ BokInv(bok') /\ bok'.sist \in Avlesninger \cup {Ingen}
      /\ lager.skjema = 3 => bok'.arkiv = lager.arkiv
  BY <1>1, FraLagringAv DEF BokIInv
<1>3. omstarter' \in 0 .. MaksOmstarter /\ omstarter' # omstarter
  BY <1>1, StartAssumption DEF BokIInv, TypeOK
<1>4. TypeOK' /\ CacheErFersk'
  BY <1>1, <1>2, <1>3 DEF BokIInv, TypeOK, CacheErFersk, BokInv
<1>5. LagerInv' /\ LagretArkivStaar'
  BY <1>1, <1>2 DEF BokIInv, LagerInv, LagretArkivStaar
<1>. QED
  BY <1>3, <1>4, <1>5 DEF BokIInv

\* A step keeps the invariant, and keeps the past unless it is a restart.
LEMMA BokNextInv ==
  BokIInv /\ [Next]_vars => BokIInv' /\ (omstarter' = omstarter => Fremgang)
<1> SUFFICES ASSUME BokIInv, [Next]_vars
             PROVE  BokIInv' /\ (omstarter' = omstarter => Fremgang)
  OBVIOUS
<1>1. CASE Klokke
  BY <1>1, KlokkeInv
<1>2. ASSUME NEW verdi \in Priser, Prisprove(verdi)
      PROVE  BokIInv' /\ Fremgang
  BY <1>2, PrisproveInv
<1>3. ASSUME NEW a \in Avlesninger, Avles(a)
      PROVE  BokIInv' /\ Fremgang
  BY <1>3, AvlesInv
<1>4. CASE LesSummer
  BY <1>4, LesSummerInv
<1>5. CASE Lagre
  BY <1>5, LagreInv
<1>6. CASE Omstart
  BY <1>6, OmstartInv
<1>7. CASE UNCHANGED vars
  BY <1>7 DEF vars, BokIInv, TypeOK, CacheErFersk, LagerInv, LagretArkivStaar, Fremgang
<1>. QED
  BY <1>1, <1>2, <1>3, <1>4, <1>5, <1>6, <1>7 DEF Next

LEMMA BokInvariant == Spec => []BokIInv
<1>1. BokIInv /\ [Next]_vars => BokIInv'
  BY BokNextInv
<1>. QED
  BY <1>1, BokInitInv, PTL DEF Spec

-----------------------------------------------------------------------------
(***************************************************************************)
(* The theorems.                                                           *)
(***************************************************************************)

\* Type correctness: a book keeps only posts of its active month, and only
\* months before it in the archive, across saves, restarts and new sources.
THEOREM TypeRiktig == Spec => []TypeOK
<1>1. BokIInv => TypeOK
  BY DEF BokIInv
<1>. QED
  BY <1>1, BokInvariant, PTL

\* No cached interval and no contribution to the running sums is ever stale:
\* what _bygg and maanedssum serve is what the book holds.
THEOREM CachenErFersk == Spec => []CacheErFersk
<1>1. BokIInv => CacheErFersk
  BY DEF BokIInv
<1>. QED
  BY <1>1, BokInvariant, PTL

\* What the Store says of an archived month is what the book says of it, from
\* the save until for ever after (C6).
THEOREM LagretArkivGjelder == Spec => []LagretArkivStaar
<1>1. BokIInv => LagretArkivStaar
  BY DEF BokIInv
<1>. QED
  BY <1>1, BokInvariant, PTL

\* Within one run of the process an archived month never changes and is never
\* opened again (C6).
THEOREM ArkivetErUforanderlig == Spec => ArkivUforanderlig
<1>1. BokIInv /\ BokIInv' /\ (omstarter' = omstarter => Fremgang)
        => (omstarter' = omstarter =>
              \A m \in DOMAIN bok.arkiv :
                 /\ m \in DOMAIN bok'.arkiv
                 /\ bok'.arkiv[m] = bok.arkiv[m]
                 /\ m # bok'.aktiv)
  <2> SUFFICES ASSUME BokIInv', Fremgang, NEW m \in DOMAIN bok.arkiv
               PROVE  m \in DOMAIN bok'.arkiv /\ bok'.arkiv[m] = bok.arkiv[m] /\ m # bok'.aktiv
    OBVIOUS
  <2>1. m \in DOMAIN bok'.arkiv /\ bok'.arkiv[m] = bok.arkiv[m]
    BY DEF Fremgang
  <2>2. m \in Maneder /\ m < bok'.aktiv
    BY <2>1 DEF BokIInv, TypeOK, StrukturOK
  <2>3. m \in Nat
    BY <2>2, ManederNat
  <2>. QED
    BY <2>1, <2>2, <2>3
<1>. QED
  BY <1>1, BokInvariant, BokNextInv, PTL DEF Spec, ArkivUforanderlig

\* The price of an hour that is over is fixed: no later sample, reading, save
\* or month change gives a kept hour another price (C6).
THEOREM PrisenStaarFast == Spec => PrisStaarFast
<1>1. (omstarter' = omstarter => Fremgang)
        => (omstarter' = omstarter =>
              \A h \in DOMAIN bok.poster \cap DOMAIN bok'.poster :
                 (h + 1) * TikkPerTime <= naa =>
                   Prisintervall(bok'.ruter, h) = Prisintervall(bok.ruter, h))
  BY DEF Fremgang
<1>. QED
  BY <1>1, BokInvariant, BokNextInv, PTL DEF Spec, PrisStaarFast

-----------------------------------------------------------------------------
(***************************************************************************)
(* The energy of the book, and the ledger it implements.                   *)
(***************************************************************************)
\* The sums of the modules are those the lemmas are about: archived energy,
LEMMA TotalTilSum ==
  ASSUME NEW f, NEW S, IsFiniteSet(S)
  PROVE  MapThenSumSet(LAMBDA x : f[x].sum.total, S)
           = SumFunctionOnSet([x \in S |-> f[x].sum.total], S)
<1> DEFINE v == [x \in S |-> f[x].sum.total]
           P(k) == k = [s \in SUBSET S |-> IF s = {} THEN 0
                          ELSE f[CHOOSE x \in s : TRUE].sum.total
                               + k[s \ {CHOOSE x \in s : TRUE}]]
<1>1. PICK g : ErSum(g, v, S)
  BY SumFinnes
<1>2. \A s \in SUBSET S : s # {} => (CHOOSE x \in s : TRUE) \in S
  OBVIOUS
<1>3. \A k : P(k) <=> ErSum(k, v, S)
  BY <1>2 DEF ErSum, Valgt
<1>4. MapThenSumSet(LAMBDA x : f[x].sum.total, S) = (CHOOSE k : P(k))[S]
  BY DEF MapThenSumSet, MapThenFoldSet
<1> HIDE DEF P, v
<1>5. ErSum(CHOOSE k : P(k), v, S)
  BY <1>1, <1>3
<1>. QED
  BY <1>4, <1>5, SumVerdi DEF v

\* archived rejections,
LEMMA AvvistTilSum ==
  ASSUME NEW f, NEW S, IsFiniteSet(S)
  PROVE  MapThenSumSet(LAMBDA x : f[x].avvist, S)
           = SumFunctionOnSet([x \in S |-> f[x].avvist], S)
<1> DEFINE v == [x \in S |-> f[x].avvist]
           P(k) == k = [s \in SUBSET S |-> IF s = {} THEN 0
                          ELSE f[CHOOSE x \in s : TRUE].avvist
                               + k[s \ {CHOOSE x \in s : TRUE}]]
<1>1. PICK g : ErSum(g, v, S)
  BY SumFinnes
<1>2. \A s \in SUBSET S : s # {} => (CHOOSE x \in s : TRUE) \in S
  OBVIOUS
<1>3. \A k : P(k) <=> ErSum(k, v, S)
  BY <1>2 DEF ErSum, Valgt
<1>4. MapThenSumSet(LAMBDA x : f[x].avvist, S) = (CHOOSE k : P(k))[S]
  BY DEF MapThenSumSet, MapThenFoldSet
<1> HIDE DEF P, v
<1>5. ErSum(CHOOSE k : P(k), v, S)
  BY <1>1, <1>3
<1>. QED
  BY <1>4, <1>5, SumVerdi DEF v

\* and the accounts of the ledger.
LEMMA BelopTilSum ==
  ASSUME NEW f, NEW S, IsFiniteSet(S)
  PROVE  Bokens!MapThenSumSet(LAMBDA x : Bokens!Belop(f[x]), S)
           = SumFunctionOnSet([x \in S |-> f[x].dag + f[x].natt + f[x].avvist], S)
<1> DEFINE v == [x \in S |-> f[x].dag + f[x].natt + f[x].avvist]
           B(x) == f[x].dag + f[x].natt + f[x].avvist
           P(k) == k = [s \in SUBSET S |-> IF s = {} THEN 0
                          ELSE B(CHOOSE x \in s : TRUE)
                               + k[s \ {CHOOSE x \in s : TRUE}]]
<1>1. PICK g : ErSum(g, v, S)
  BY SumFinnes
<1>2. \A s \in SUBSET S : s # {} => (CHOOSE x \in s : TRUE) \in S
  OBVIOUS
<1>3. \A k : P(k) <=> ErSum(k, v, S)
  BY <1>2 DEF ErSum, Valgt
<1>4. Bokens!MapThenSumSet(LAMBDA x : Bokens!Belop(f[x]), S) = (CHOOSE k : P(k))[S]
  BY DEF Bokens!MapThenSumSet, Bokens!MapThenFoldSet, Bokens!Belop
<1> HIDE DEF P, v
<1>5. ErSum(CHOOSE k : P(k), v, S)
  BY <1>1, <1>3
<1>. QED
  BY <1>4, <1>5, SumVerdi DEF v

\* What the ledger shows of a book, in the terms the sums are proved in.
LEMMA HovedbokFelt ==
  ASSUME NEW b, BokInv(b), HelBok(b), NEW r
  PROVE  LET l == HovedbokAv(b, r)
         IN  /\ l.aktiv = b.aktiv /\ l.mottatt = r
             /\ l.aapen = [dag |-> Sumfelt(b, "dag"), natt |-> Sumfelt(b, "natt"),
                           avvist |-> b.avvist]
             /\ l.lukket = [m \in DOMAIN b.arkiv |->
                              [dag |-> b.arkiv[m].sum.dag, natt |-> b.arkiv[m].sum.natt,
                               avvist |-> b.arkiv[m].avvist]]
<1>1. "dag" \in Felt /\ "natt" \in Felt
  BY DEF Felt
<1>2. /\ Maanedssum(b).sum.dag = Sumfelt(b, "dag") /\ Maanedssum(b).sum.natt = Sumfelt(b, "natt")
  BY <1>1, MaanedssumFelt
<1>3. Maanedssum(b).avvist = b.avvist
  BY DEF Maanedssum
<1>. QED
  BY <1>2, <1>3 DEF HovedbokAv, KontoAv

\* The saldo of the ledger is the energy of the book.
LEMMA SaldoAv ==
  ASSUME NEW b, BokInv(b), HelBok(b), NEW r
  PROVE  Bokens!Saldo(HovedbokAv(b, r))
           = Feltsaldo(b, "dag") + Feltsaldo(b, "natt") + Avvistsaldo(b)
<1> DEFINE A == DOMAIN b.arkiv
           l == HovedbokAv(b, r)
           v == [m \in A |-> l.lukket[m].dag + l.lukket[m].natt + l.lukket[m].avvist]
           d == [m \in A |-> b.arkiv[m].sum["dag"]]
           n == [m \in A |-> b.arkiv[m].sum["natt"]]
           a == [m \in A |-> b.arkiv[m].avvist]
           dn == [m \in A |-> d[m] + n[m]]
<1>1. IsFiniteSet(A)
  BY ArkivEndelig
<1>2. DOMAIN l.lukket = A
  BY DEF HovedbokAv
<1>3. Bokens!Saldo(l) = Bokens!Belop(l.aapen) + SumFunctionOnSet(v, A)
  <2> DEFINE g == l.lukket
  <2>1. Bokens!MapThenSumSet(LAMBDA x : Bokens!Belop(g[x]), A)
          = SumFunctionOnSet([x \in A |-> g[x].dag + g[x].natt + g[x].avvist], A)
    <3> HIDE DEF A, g
    <3>. QED
      BY <1>1, BelopTilSum
  <2>2. Bokens!Saldo(l)
          = Bokens!Belop(l.aapen) + Bokens!MapThenSumSet(LAMBDA x : Bokens!Belop(g[x]), DOMAIN g)
    BY DEF Bokens!Saldo
  <2>3. DOMAIN g = A
    BY <1>2
  <2> HIDE DEF l, A
  <2>. QED
    BY <2>1, <2>2, <2>3
<1>4. \A m \in A : d[m] \in Int /\ n[m] \in Int /\ a[m] \in Int
  BY DEF HelBok, Felt
<1>5. \A m \in A : dn[m] \in Int /\ dn[m] = d[m] + n[m] /\ v[m] = dn[m] + a[m]
  <2>1. \A m \in A : dn[m] \in Int /\ dn[m] = d[m] + n[m]
    <3> HIDE DEF d, n, a, v, l, A
    <3>. QED
      BY <1>4
  <2>2. \A m \in A : /\ l.lukket[m].dag = d[m] /\ l.lukket[m].natt = n[m]
                     /\ l.lukket[m].avvist = a[m]
    BY DEF HovedbokAv, KontoAv
  <2>3. \A m \in A : v[m] = d[m] + n[m] + a[m]
    <3> HIDE DEF d, n, a, l
    <3>. QED
      BY <2>2
  <2> HIDE DEF d, n, a, dn, v, l
  <2>. QED
    BY <1>4, <2>1, <2>3
<1>6. Bokens!Belop(l.aapen) = Sumfelt(b, "dag") + Sumfelt(b, "natt") + b.avvist
  <2>1. l.aapen = [dag |-> Sumfelt(b, "dag"), natt |-> Sumfelt(b, "natt"), avvist |-> b.avvist]
    BY HovedbokFelt
  <2> HIDE DEF l
  <2>. QED
    BY <2>1 DEF Bokens!Belop
<1>7. /\ Feltsaldo(b, "dag") = Sumfelt(b, "dag") + SumFunctionOnSet(d, A)
      /\ Feltsaldo(b, "natt") = Sumfelt(b, "natt") + SumFunctionOnSet(n, A)
      /\ Avvistsaldo(b) = b.avvist + SumFunctionOnSet(a, A)
  BY DEF Feltsaldo, Avvistsaldo
<1>8. Sumfelt(b, "dag") \in Int /\ Sumfelt(b, "natt") \in Int /\ b.avvist \in Int
  BY MaanedssumFelt DEF Felt, HelBok
<1> HIDE DEF v, d, n, a, dn, A, l
<1>9. SumFunctionOnSet(dn, A) = SumFunctionOnSet(d, A) + SumFunctionOnSet(n, A)
  BY <1>1, <1>4, <1>5, SumPluss
<1>10. SumFunctionOnSet(v, A) = SumFunctionOnSet(dn, A) + SumFunctionOnSet(a, A)
  BY <1>1, <1>4, <1>5, SumPluss
<1>11. SumFunctionOnSet(d, A) \in Int /\ SumFunctionOnSet(n, A) \in Int /\ SumFunctionOnSet(a, A) \in Int
  BY <1>1, <1>4, SumType
<1>12. Bokens!Saldo(l) = Feltsaldo(b, "dag") + Feltsaldo(b, "natt") + Avvistsaldo(b)
  BY <1>3, <1>6, <1>7, <1>8, <1>9, <1>10, <1>11
<1>. QED
  BY <1>12 DEF l

\* The book accounts for r, by month and by day and night.
Saldert(b, r) ==
  /\ HelBok(b)
  /\ Feltsaldo(b, "total") + Avvistsaldo(b) = r
  /\ Feltsaldo(b, "dag") + Feltsaldo(b, "natt") + Avvistsaldo(b) = r

\* The book in memory accounts for all that was received, the one a restart
\* would build for what had been received when it was saved, and the ledgers are
\* those of the two books.
EnergiInv ==
  /\ Saldert(bok, regnskap)
  /\ Saldert(FraLagring(lager), lagret.regnskap)
  /\ hovedbok = HovedbokAv(bok, regnskap)
  /\ lagret.hovedbok = HovedbokAv(FraLagring(lager), lagret.regnskap)

\* Two books with the same energy account for the same and stand for the same
\* ledger.
LEMMA SammeSaldo ==
  ASSUME NEW b, BokInv(b), HelBok(b), NEW c, BokInv(c), HelBok(c),
         c.avvist = b.avvist, c.arkiv = b.arkiv, c.aktiv = b.aktiv,
         \A x \in Energifelt : Sumfelt(c, x) = Sumfelt(b, x), NEW r
  PROVE  /\ Saldert(b, r) => Saldert(c, r)
         /\ HovedbokAv(c, r) = HovedbokAv(b, r)
<1>1. \A x \in Energifelt : Feltsaldo(c, x) = Feltsaldo(b, x)
  BY DEF Feltsaldo
<1>2. Avvistsaldo(c) = Avvistsaldo(b)
  BY DEF Avvistsaldo
<1>3. Saldert(b, r) => Saldert(c, r)
  BY <1>1, <1>2 DEF Saldert, Energifelt
<1>4. Sumfelt(c, "dag") = Sumfelt(b, "dag") /\ Sumfelt(c, "natt") = Sumfelt(b, "natt")
  BY DEF Energifelt
<1>5. KontoAv(Maanedssum(c)) = KontoAv(Maanedssum(b))
  <2>1. KontoAv(Maanedssum(c)) = [dag |-> Sumfelt(c, "dag"), natt |-> Sumfelt(c, "natt"), avvist |-> c.avvist]
    BY HovedbokFelt DEF HovedbokAv
  <2>2. KontoAv(Maanedssum(b)) = [dag |-> Sumfelt(b, "dag"), natt |-> Sumfelt(b, "natt"), avvist |-> b.avvist]
    BY HovedbokFelt DEF HovedbokAv
  <2>. QED
    BY <1>4, <2>1, <2>2
<1>6. HovedbokAv(c, r) = HovedbokAv(b, r)
  BY <1>5 DEF HovedbokAv
<1>. QED
  BY <1>3, <1>6

\* A book that has received d accounts for d more.
LEMMA BevartSaldo ==
  ASSUME NEW b, BokInv(b), NEW r, Saldert(b, r), NEW d \in Int, NEW c, Bevart(b, c, d)
  PROVE  Saldert(c, r + d) /\ r \in Int
<1>1. /\ Feltsaldo(b, "total") \in Int /\ Feltsaldo(b, "dag") \in Int
      /\ Feltsaldo(b, "natt") \in Int /\ Avvistsaldo(b) \in Int
  BY SaldoType DEF Felt, Saldert
<1>. QED
  BY <1>1 DEF Bevart, Saldert

\* The least of a set of months.
LEMMA MinsteManed ==
  ASSUME NEW S, NEW f \in S, \A m \in S : m \in Nat /\ f <= m
  PROVE  Bokens!Min(S) = f
<1> DEFINE c == CHOOSE x \in S : \A y \in S : x <= y
<1>1. c \in S /\ \A y \in S : c <= y
  OBVIOUS
<1>2. c <= f /\ f <= c /\ c \in Nat /\ f \in Nat
  BY <1>1
<1> HIDE DEF c
<1>3. c = f
  BY <1>2
<1>. QED
  BY <1>3 DEF Bokens!Min, c

\* A book that receives energy is a ledger that does.
LEMMA MottaAv ==
  ASSUME NEW b, BokInv(b), NEW r, Saldert(b, r), NEW d \in Int,
         NEW c, BokInv(c), Bevart(b, c, d)
  PROVE  LET l == HovedbokAv(b, r)
             k == HovedbokAv(c, r + d)
         IN  /\ Bokens!IManeden(l, k) \/ Bokens!OverManedsskifte(l, k)
             /\ Bokens!Saldo(k) - Bokens!Saldo(l) = k.mottatt - l.mottatt
<1> DEFINE l == HovedbokAv(b, r)
           k == HovedbokAv(c, r + d)
           Konto(s) == [dag |-> s.sum.dag, natt |-> s.sum.natt, avvist |-> s.avvist]
<1>1. HelBok(b) /\ HelBok(c) /\ Saldert(c, r + d) /\ r \in Int
  BY BevartSaldo DEF Saldert, Bevart
<1>2. /\ l.aktiv = b.aktiv /\ l.mottatt = r
      /\ l.aapen = [dag |-> Sumfelt(b, "dag"), natt |-> Sumfelt(b, "natt"), avvist |-> b.avvist]
      /\ l.lukket = [m \in DOMAIN b.arkiv |-> Konto(b.arkiv[m])]
  BY <1>1, HovedbokFelt
<1>3. /\ l.aktiv = b.aktiv /\ l.mottatt = r
      /\ l.aapen = [dag |-> Sumfelt(b, "dag"), natt |-> Sumfelt(b, "natt"), avvist |-> b.avvist]
      /\ DOMAIN l.lukket = DOMAIN b.arkiv
      /\ \A m \in DOMAIN b.arkiv : l.lukket[m] = Konto(b.arkiv[m])
  <2> HIDE DEF l, Konto
  <2>. QED
    BY <1>2
<1>4. /\ k.aktiv = c.aktiv /\ k.mottatt = r + d
      /\ k.aapen = [dag |-> Sumfelt(c, "dag"), natt |-> Sumfelt(c, "natt"), avvist |-> c.avvist]
      /\ k.lukket = [m \in DOMAIN c.arkiv |-> Konto(c.arkiv[m])]
  BY <1>1, HovedbokFelt
<1>5. Bokens!Saldo(k) - Bokens!Saldo(l) = k.mottatt - l.mottatt
  <2>1. /\ Bokens!Saldo(l) = Feltsaldo(b, "dag") + Feltsaldo(b, "natt") + Avvistsaldo(b)
        /\ Bokens!Saldo(k) = Feltsaldo(c, "dag") + Feltsaldo(c, "natt") + Avvistsaldo(c)
    BY <1>1, SaldoAv
  <2>2. Bokens!Saldo(l) = r /\ Bokens!Saldo(k) = r + d
    BY <1>1, <2>1 DEF Saldert
  <2> HIDE DEF l, k
  <2>. QED
    BY <1>1, <1>3, <1>4, <2>2
<1>6. /\ Sumfelt(b, "dag") \in Nat /\ Sumfelt(b, "natt") \in Nat /\ b.avvist \in Nat
      /\ Sumfelt(c, "dag") \in Nat /\ Sumfelt(c, "natt") \in Nat /\ c.avvist \in Nat
      /\ \A m \in DOMAIN c.arkiv : /\ c.arkiv[m].sum.dag \in Nat /\ c.arkiv[m].sum.natt \in Nat
                                   /\ c.arkiv[m].avvist \in Nat
  BY <1>1, MaanedssumFelt DEF Felt, HelBok
<1> HIDE DEF l, k, Konto
<1>7. CASE IManeden(b, c)
  <2>1. k.lukket = l.lukket
    BY <1>2, <1>4, <1>7 DEF IManeden
  <2>2. Bokens!Voks(l.aapen, k.aapen)
    BY <1>3, <1>4, <1>7 DEF IManeden, Energifelt, Bokens!Voks
  <2>3. k.aktiv = l.aktiv
    BY <1>3, <1>4, <1>7 DEF IManeden
  <2>4. Bokens!IManeden(l, k)
    BY <2>1, <2>2, <2>3 DEF Bokens!IManeden
  <2>. QED
    BY <1>5, <2>4 DEF l, k
<1>8. CASE OverManedsskifte(b, c)
  <2> DEFINE nye == DOMAIN k.lukket \ DOMAIN l.lukket
             KontoFor(m) == IF m = k.aktiv THEN k.aapen ELSE k.lukket[m]
  <2>1. nye = DOMAIN c.arkiv \ DOMAIN b.arkiv
    BY <1>3, <1>4
  <2>2. \A m \in DOMAIN c.arkiv : m \in Maneder /\ m < c.aktiv /\ k.lukket[m] = Konto(c.arkiv[m])
    BY <1>4 DEF BokInv, StrukturOK
  <2>3. c.aktiv \in Maneder /\ c.aktiv # b.aktiv /\ c.aktiv \in Nat
    BY <1>8, ManederNat DEF OverManedsskifte
  <2>4. PICK f \in nye \cup {c.aktiv} :
           /\ \A m \in nye \cup {c.aktiv} : f <= m
           /\ b.aktiv # Ingen => b.aktiv = f
           /\ f = c.aktiv => /\ b.avvist <= c.avvist
                             /\ \A x \in Energifelt : Sumfelt(b, x) <= Sumfelt(c, x)
           /\ f # c.aktiv => /\ b.avvist <= c.arkiv[f].avvist
                             /\ \A x \in Energifelt : Sumfelt(b, x) <= c.arkiv[f].sum[x]
    <3> HIDE DEF nye
    <3>. QED
      BY <1>8, <2>1 DEF OverManedsskifte
  <2>5. \A m \in nye : m \in DOMAIN c.arkiv /\ m \in Maneder /\ m \in Nat /\ m < c.aktiv
    BY <2>1, <2>2, ManederNat
  <2>6. Bokens!Min(nye \cup {k.aktiv}) = f
    <3> HIDE DEF nye
    <3>1. \A m \in nye \cup {k.aktiv} : m \in Nat /\ f <= m
      BY <1>4, <2>3, <2>4, <2>5
    <3>2. f \in nye \cup {k.aktiv}
      BY <1>4, <2>4
    <3>. QED
      BY <3>1, <3>2, MinsteManed
  <2> HIDE DEF nye
  <2>7. Bokens!Voks(l.aapen, KontoFor(f))
    <3>1. CASE f = c.aktiv
      BY <1>3, <1>4, <2>4, <3>1 DEF Energifelt, Bokens!Voks
    <3>2. CASE f # c.aktiv
      <4>1. f \in DOMAIN c.arkiv /\ k.lukket[f] = Konto(c.arkiv[f])
        BY <2>2, <2>4, <2>5, <3>2
      <4>2. /\ b.avvist <= c.arkiv[f].avvist /\ Sumfelt(b, "dag") <= c.arkiv[f].sum.dag
            /\ Sumfelt(b, "natt") <= c.arkiv[f].sum.natt
        BY <2>4, <3>2 DEF Energifelt
      <4>. QED
        BY <1>3, <1>4, <3>2, <4>1, <4>2 DEF Bokens!Voks, Konto
    <3>. QED
      BY <3>1, <3>2
  <2>8. \A m \in nye \cup {k.aktiv} : Bokens!Voks(Bokens!TomKonto, KontoFor(m))
    <3>1. ASSUME NEW m \in nye, m # k.aktiv
          PROVE  Bokens!Voks(Bokens!TomKonto, KontoFor(m))
      <4>1. m \in DOMAIN c.arkiv /\ k.lukket[m] = Konto(c.arkiv[m])
        BY <2>2, <2>5
      <4>. QED
        BY <1>6, <3>1, <4>1 DEF Bokens!Voks, Bokens!TomKonto, Konto
    <3>2. Bokens!Voks(Bokens!TomKonto, KontoFor(k.aktiv))
      BY <1>4, <1>6 DEF Bokens!Voks, Bokens!TomKonto
    <3> HIDE DEF KontoFor
    <3>. QED
      BY <3>1, <3>2
  <2>9. \A m \in DOMAIN l.lukket : m \in DOMAIN k.lukket /\ k.lukket[m] = l.lukket[m]
    BY <1>3, <1>4, <1>8 DEF OverManedsskifte
  <2>10. /\ k.aktiv \in Maneder \ {l.aktiv}
         /\ l.aktiv # Ingen => l.aktiv = f
         /\ \A m \in nye : m \in Maneder /\ m < k.aktiv
    BY <1>3, <1>4, <2>3, <2>4, <2>5
  <2>11. Bokens!OverManedsskifte(l, k)
    BY <2>6, <2>7, <2>8, <2>9, <2>10 DEF Bokens!OverManedsskifte, nye
  <2>. QED
    BY <1>5, <2>11 DEF l, k
<1>9. IManeden(b, c) \/ OverManedsskifte(b, c)
  BY DEF Bevart
<1>. QED
  BY <1>7, <1>8, <1>9

\* The book a Store gives.
LEMMA LagretBok ==
  ASSUME BokIInv
  PROVE  BokInv(bok) /\ BokInv(FraLagring(lager)) /\ naa \in Tikk
         /\ bok.sist \in Avlesninger \cup {Ingen}
<1>1. BokInv(FraLagring(lager))
  BY FraLagringAv DEF BokIInv
<1>. QED
  BY <1>1 DEF BokIInv, TypeOK, CacheErFersk, BokInv

\* A new Store, or one of an older schema, starts from nothing.
LEMMA EnergiInitInv == Init => EnergiInv /\ Bokens!Init
<1> SUFFICES ASSUME Init PROVE EnergiInv /\ Bokens!Init
  OBVIOUS
<1>1. PICK u : FraLagring(lager) = TomBok(u)
  BY StartAssumption, TomtLagerGirTomBok DEF Init
<1>2. /\ HelBok(TomBok(u)) /\ Avvistsaldo(TomBok(u)) = 0
      /\ Feltsaldo(TomBok(u), "total") = 0 /\ Feltsaldo(TomBok(u), "dag") = 0
      /\ Feltsaldo(TomBok(u), "natt") = 0
      /\ Sumfelt(TomBok(u), "dag") = 0 /\ Sumfelt(TomBok(u), "natt") = 0
  BY TomEnergi DEF Felt
<1>3. Saldert(TomBok(u), 0)
  BY <1>2 DEF Saldert
<1>4. /\ bok = TomBok(u) /\ regnskap = 0 /\ hovedbok = HovedbokAv(bok, regnskap)
      /\ lagret.regnskap = regnskap /\ lagret.hovedbok = hovedbok
  BY <1>1 DEF Init
<1>5. EnergiInv
  BY <1>1, <1>3, <1>4 DEF EnergiInv
<1>6. HovedbokAv(TomBok(u), 0) = Bokens!TomHovedbok
  <2> DEFINE b == TomBok(u)
             l == HovedbokAv(b, 0)
  <2>1. BokInv(b) /\ HelBok(b)
    BY <1>2, TomBokInv
  <2>2. /\ l.aktiv = b.aktiv /\ l.mottatt = 0
        /\ l.aapen = [dag |-> Sumfelt(b, "dag"), natt |-> Sumfelt(b, "natt"), avvist |-> b.avvist]
    <3> HIDE DEF b
    <3>1. /\ l.aktiv = b.aktiv /\ l.mottatt = 0
          /\ l.aapen = [dag |-> Sumfelt(b, "dag"), natt |-> Sumfelt(b, "natt"), avvist |-> b.avvist]
          /\ l.lukket = [m \in DOMAIN b.arkiv |->
                           [dag |-> b.arkiv[m].sum.dag, natt |-> b.arkiv[m].sum.natt,
                            avvist |-> b.arkiv[m].avvist]]
      BY <2>1, HovedbokFelt
    <3>. QED
      BY <3>1
  <2>3. b.aktiv = Ingen /\ b.avvist = 0 /\ b.arkiv = <<>>
    BY DEF TomBok
  <2>4. l.lukket = <<>>
    BY <2>3 DEF HovedbokAv
  <2>5. l = [aktiv |-> l.aktiv, aapen |-> l.aapen, lukket |-> l.lukket, mottatt |-> l.mottatt]
    BY DEF HovedbokAv
  <2> HIDE DEF l
  <2>6. l = [aktiv |-> Ingen, aapen |-> [dag |-> 0, natt |-> 0, avvist |-> 0],
             lukket |-> <<>>, mottatt |-> 0]
    BY <1>2, <2>2, <2>3, <2>4, <2>5
  <2>. QED
    BY <2>6 DEF l, Bokens!TomHovedbok, Bokens!TomKonto
<1>. QED
  BY <1>4, <1>5, <1>6 DEF Bokens!Init

\* A step after which the book holds the same energy: the ledger stands still.
LEMMA EnergiStille ==
  ASSUME BokIInv, BokIInv', EnergiInv, HelBok(bok'),
         bok'.avvist = bok.avvist, bok'.arkiv = bok.arkiv, bok'.aktiv = bok.aktiv,
         \A x \in Energifelt : Sumfelt(bok', x) = Sumfelt(bok, x),
         regnskap' = regnskap, hovedbok' = HovedbokAv(bok', regnskap')
  PROVE  Saldert(bok', regnskap') /\ hovedbok' = hovedbok
<1>1. BokInv(bok) /\ BokInv(bok') /\ HelBok(bok)
  BY DEF BokIInv, TypeOK, CacheErFersk, BokInv, EnergiInv, Saldert
<1>2. /\ Saldert(bok, regnskap) => Saldert(bok', regnskap)
      /\ HovedbokAv(bok', regnskap) = HovedbokAv(bok, regnskap)
  BY <1>1, SammeSaldo
<1>. QED
  BY <1>2 DEF EnergiInv

\* Action by action: Klokke,
LEMMA KlokkeEnergi ==
  ASSUME EnergiInv, Klokke
  PROVE  EnergiInv' /\ UNCHANGED Bokens!vars
BY DEF EnergiInv, Klokke, Bokens!vars

\* Prisprove,
LEMMA PrisproveBevarer ==
  ASSUME NEW verdi, BokIInv, BokIInv', EnergiInv, Prisprove(verdi)
  PROVE  EnergiInv' /\ UNCHANGED Bokens!vars
<1> DEFINE p == [polltid |-> naa, verdi |-> verdi]
<1>1. BokInv(bok) /\ naa \in Tikk /\ HelBok(bok)
  BY LagretBok DEF EnergiInv, Saldert
<1>2. /\ bok' = RegistrerPrisprove(bok, p) /\ regnskap' = regnskap /\ lagret' = lagret
      /\ lager' = lager /\ hovedbok' = HovedbokAv(bok', regnskap')
  BY DEF Prisprove
<1>3. HelBok(bok') /\ \A x \in Energifelt : Sumfelt(bok', x) = Sumfelt(bok, x)
  BY <1>1, <1>2, PrisproveEnergi
<1>4. bok'.avvist = bok.avvist /\ bok'.arkiv = bok.arkiv /\ bok'.aktiv = bok.aktiv
  BY <1>1, <1>2 DEF RegistrerPrisprove, BokInv, StrukturOK, TomBok
<1>5. Saldert(bok', regnskap') /\ hovedbok' = hovedbok
  BY <1>2, <1>3, <1>4, EnergiStille
<1>. QED
  BY <1>2, <1>5 DEF EnergiInv, Bokens!vars

\* LesSummer,
LEMMA LesSummerBevarer ==
  ASSUME BokIInv, BokIInv', EnergiInv, LesSummer
  PROVE  EnergiInv' /\ UNCHANGED Bokens!vars
<1>1. BokInv(bok) /\ HelBok(bok)
  BY LagretBok DEF EnergiInv, Saldert
<1>2. /\ bok' = Oppdater(bok) /\ regnskap' = regnskap /\ lagret' = lagret
      /\ lager' = lager /\ hovedbok' = HovedbokAv(bok', regnskap')
  BY DEF LesSummer
<1>3. /\ HelBok(bok') /\ bok'.avvist = bok.avvist /\ bok'.arkiv = bok.arkiv
      /\ bok'.aktiv = bok.aktiv
      /\ \A x \in Felt : Sumfelt(bok', x) = Sumfelt(bok, x)
  BY <1>1, <1>2, OppdaterEnergi
<1>4. Saldert(bok', regnskap') /\ hovedbok' = hovedbok
  BY <1>2, <1>3, EnergiStille DEF Energifelt, Felt
<1>. QED
  BY <1>2, <1>4 DEF EnergiInv, Bokens!vars

\* The model's energy unit makes the split of a reading that is taken whole.
LEMMA HeltDelt ==
  ASSUME BokIInv, NEW a \in Avlesninger, Delelig(a),
         bok.sist # Ingen, bok.sist.tid < a.tid, Maalt(bok, a) \in Nat
  PROVE  DeltHelt(bok.sist.tid, a.tid, Maalt(bok, a))
<1> DEFINE fra == bok.sist.tid
           til == a.tid
           delta == Maalt(bok, a)
<1>1. fra \in Nat /\ til \in Nat /\ fra < til
  BY LagretBok, TikkHel DEF Avlesninger
<1>2. CASE delta > 0
  <2>1. til - fra > 0
    BY <1>1
  <2>2. \A h \in Time(fra) .. Time(til - 1) : (delta * Overlapp(h, fra, til)) % (til - fra) = 0
    BY <1>2, <2>1 DEF Delelig, Maalt
  <2>. QED
    BY <2>2 DEF DeltHelt
<1>3. CASE ~ (delta > 0)
  <2>1. delta = 0
    BY <1>3
  <2>2. ASSUME NEW h \in Time(fra) .. Time(til - 1)
        PROVE  (0 * Overlapp(h, fra, til)) % (til - fra) = 0
    <3>1. Overlapp(h, fra, til) \in Nat
      BY <1>1, OverlappType
    <3>2. til - fra \in Nat \ {0}
      BY <1>1
    <3>3. 0 * Overlapp(h, fra, til) = 0
      BY <3>1
    <3>. QED
      BY <3>2, <3>3
  <2> HIDE DEF delta
  <2>3. DeltHelt(fra, til, delta)
    BY <2>1, <2>2 DEF DeltHelt
  <2>. QED
    BY <2>3 DEF delta
<1>. QED
  BY <1>2, <1>3

\* Avles: the ledger receives exactly what the reading stands for,
LEMMA AvlesBevarer ==
  ASSUME NEW a \in Avlesninger, BokIInv, BokIInv', EnergiInv, Avles(a)
  PROVE  EnergiInv' /\ Bokens!Motta
<1>1. BokInv(bok) /\ BokInv(bok') /\ HelBok(bok) /\ Saldert(bok, regnskap)
  BY LagretBok DEF EnergiInv, Saldert, BokIInv, TypeOK, CacheErFersk, BokInv
<1>2. a.tid \in Tikk /\ a.verdi \in Int /\ a.kilde \in Kilder
  BY VerdiAssumption DEF Avlesninger
<1>3. bok.sist # Ingen => bok.sist.verdi \in Int /\ bok.sist.tid \in Tikk
  BY LagretBok, VerdiAssumption DEF Avlesninger
<1>4. /\ bok' = Bokfor(bok, a).bok /\ regnskap' = regnskap + Tellt(a, Bokfor(bok, a))
      /\ lagret' = lagret /\ lager' = lager /\ hovedbok' = HovedbokAv(bok', regnskap')
      /\ Delelig(a)
  BY DEF Avles
<1>5. Tellt(a, Bokfor(bok, a)) = Regnskap(bok, a)
  BY DEF Tellt, Regnskap, Regnskapsfort, Maalt
<1>6. bok.sist # Ingen /\ bok.sist.tid < a.tid /\ Maalt(bok, a) \in Nat
        => DeltHelt(bok.sist.tid, a.tid, Maalt(bok, a))
  BY <1>4, HeltDelt
<1>7. Bevart(bok, bok', Regnskap(bok, a))
  BY <1>1, <1>2, <1>3, <1>4, <1>6, BokforEnergi
<1>8. Regnskap(bok, a) \in Int
  <2>1. CASE bok.sist = Ingen
    <3>1. Regnskap(bok, a) = 0
      BY <2>1 DEF Regnskap, Regnskapsfort, Bokfor, UtenEnergi, Svar
    <3>. QED
      BY <3>1
  <2>2. CASE bok.sist # Ingen
    BY <1>2, <1>3, <2>2 DEF Regnskap, Maalt
  <2>. QED
    BY <2>1, <2>2
<1> DEFINE d == Regnskap(bok, a)
<1> HIDE DEF d
<1>9. d \in Int /\ Bevart(bok, bok', d) /\ regnskap' = regnskap + d
  BY <1>4, <1>5, <1>7, <1>8 DEF d
<1>10. Saldert(bok', regnskap')
  BY <1>1, <1>9, BevartSaldo
<1>11. LET l == HovedbokAv(bok, regnskap)
           k == HovedbokAv(bok', regnskap + d)
       IN  /\ Bokens!IManeden(l, k) \/ Bokens!OverManedsskifte(l, k)
           /\ Bokens!Saldo(k) - Bokens!Saldo(l) = k.mottatt - l.mottatt
  BY <1>1, <1>9, MottaAv
<1>12. hovedbok = HovedbokAv(bok, regnskap) /\ hovedbok' = HovedbokAv(bok', regnskap + d)
  BY <1>4, <1>9 DEF EnergiInv
<1>13. Bokens!Motta
  BY <1>4, <1>11, <1>12 DEF Bokens!Motta
<1>. QED
  BY <1>4, <1>10, <1>13 DEF EnergiInv

\* Lagre: what is written accounts for what had been received,
LEMMA LagreBevarer ==
  ASSUME BokIInv, BokIInv', EnergiInv, Lagre
  PROVE  EnergiInv' /\ Bokens!Skriv
<1>1. BokInv(bok) /\ HelBok(bok) /\ naa \in Tikk /\ Saldert(bok, regnskap)
  BY LagretBok DEF EnergiInv, Saldert
<1>2. /\ bok' = Oppdater(bok) /\ regnskap' = regnskap /\ lager' = TilLagring(bok, naa)
      /\ lagret'.regnskap = regnskap /\ lagret'.hovedbok = hovedbok
      /\ hovedbok' = HovedbokAv(bok', regnskap')
  BY DEF Lagre
<1>3. /\ HelBok(bok') /\ bok'.avvist = bok.avvist /\ bok'.arkiv = bok.arkiv
      /\ bok'.aktiv = bok.aktiv
      /\ \A x \in Felt : Sumfelt(bok', x) = Sumfelt(bok, x)
  BY <1>1, <1>2, OppdaterEnergi
<1>4. Saldert(bok', regnskap') /\ hovedbok' = hovedbok
  BY <1>2, <1>3, EnergiStille DEF Energifelt, Felt
<1>5. /\ Saldert(FraLagring(lager'), regnskap)
      /\ HovedbokAv(FraLagring(lager'), regnskap) = HovedbokAv(bok, regnskap)
  <2> DEFINE c == FraLagring(lager')
  <2>1. /\ HelBok(c) /\ c.avvist = bok.avvist /\ c.arkiv = bok.arkiv /\ c.aktiv = bok.aktiv
        /\ \A x \in Felt : Sumfelt(c, x) = Sumfelt(bok, x)
    BY <1>1, <1>2, LagretEnergi
  <2>2. BokInv(c)
    <3>1. LagerOK(lager') /\ lager'.skjema = 3
      BY <1>1, <1>2, TilLagringInv
    <3>. QED
      BY <3>1, FraLagringInv
  <2>3. \A x \in Energifelt : Sumfelt(c, x) = Sumfelt(bok, x)
    BY <2>1 DEF Energifelt, Felt
  <2> HIDE DEF c
  <2>4. (Saldert(bok, regnskap) => Saldert(c, regnskap))
        /\ HovedbokAv(c, regnskap) = HovedbokAv(bok, regnskap)
    BY <1>1, <2>1, <2>2, <2>3, SammeSaldo
  <2>. QED
    BY <1>1, <2>4 DEF c
<1>6. EnergiInv'
  BY <1>2, <1>4, <1>5 DEF EnergiInv
<1>. QED
  BY <1>2, <1>4, <1>6 DEF Bokens!Skriv

\* Omstart: the book falls back to what was written.
LEMMA OmstartBevarer ==
  ASSUME EnergiInv, Omstart
  PROVE  EnergiInv' /\ Bokens!TaOpp
BY DEF EnergiInv, Omstart, Bokens!TaOpp

\* Every step of the book keeps the account, and is a step of the ledger or
\* leaves it alone.
LEMMA EnergiNext ==
  BokIInv /\ BokIInv' /\ EnergiInv /\ [Next]_vars => EnergiInv' /\ [Bokens!Next]_(Bokens!vars)
<1> SUFFICES ASSUME BokIInv, BokIInv', EnergiInv, [Next]_vars
             PROVE  EnergiInv' /\ [Bokens!Next]_(Bokens!vars)
  OBVIOUS
<1>1. CASE Klokke
  BY <1>1, KlokkeEnergi
<1>2. ASSUME NEW verdi \in Priser, Prisprove(verdi)
      PROVE  EnergiInv' /\ UNCHANGED Bokens!vars
  BY <1>2, PrisproveBevarer
<1>3. ASSUME NEW a \in Avlesninger, Avles(a)
      PROVE  EnergiInv' /\ Bokens!Motta
  BY <1>3, AvlesBevarer
<1>4. CASE LesSummer
  BY <1>4, LesSummerBevarer
<1>5. CASE Lagre
  BY <1>5, LagreBevarer DEF Bokens!Next
<1>6. CASE Omstart
  BY <1>6, OmstartBevarer DEF Bokens!Next
<1>7. CASE UNCHANGED vars
  BY <1>7 DEF vars, EnergiInv, Bokens!vars
<1>. QED
  BY <1>1, <1>2, <1>3, <1>4, <1>5, <1>6, <1>7 DEF Next, Bokens!Next

\* The books account for what they received, in memory and in the Store.
LEMMA EnergiInvariant == Spec => []EnergiInv
<1>1. Init => EnergiInv
  BY EnergiInitInv
<1>. QED
  BY <1>1, BokInvariant, EnergiNext, PTL DEF Spec

\* C2.1 and C5, conservation: the energy of the meter's accepted and rejected
\* deltas is in the active month, in an archived month or among the rejected
\* kWh, for every meter, calendar, month boundary, save and restart.
THEOREM EnergienErBevart == Spec => []EnergiBevart
<1>1. BokIInv /\ EnergiInv => EnergiBevart
  <2> SUFFICES ASSUME BokIInv, EnergiInv PROVE EnergiBevart
    OBVIOUS
  <2> DEFINE A == DOMAIN bok.arkiv
             t == SumFunctionOnSet([m \in A |-> bok.arkiv[m].sum.total], A)
             v == SumFunctionOnSet([m \in A |-> bok.arkiv[m].avvist], A)
  <2>1. BokInv(bok) /\ HelBok(bok) /\ Saldert(bok, regnskap)
    BY LagretBok DEF EnergiInv, Saldert
  <2>2. /\ MapThenSumSet(LAMBDA m : bok.arkiv[m].sum.total, A) = t
        /\ MapThenSumSet(LAMBDA m : bok.arkiv[m].avvist, A) = v
    <3>1. IsFiniteSet(A)
      BY <2>1, ArkivEndelig
    <3> HIDE DEF A
    <3>. QED
      BY <3>1, TotalTilSum, AvvistTilSum
  <2>3. Maanedssum(bok).sum.total = Sumfelt(bok, "total") /\ Sumfelt(bok, "total") \in Int
    BY <2>1, MaanedssumFelt DEF Felt
  <2>4. Feltsaldo(bok, "total") = Sumfelt(bok, "total") + t /\ Avvistsaldo(bok) = bok.avvist + v
    BY DEF Feltsaldo, Avvistsaldo
  <2>5. Feltsaldo(bok, "total") \in Int /\ Avvistsaldo(bok) \in Int /\ bok.avvist \in Int
    BY <2>1, SaldoType DEF Felt, HelBok
  <2>6. t \in Int /\ v \in Int
    <3> DEFINE g == [m \in A |-> bok.arkiv[m].sum.total]
               k == [m \in A |-> bok.arkiv[m].avvist]
    <3>1. IsFiniteSet(A) /\ \A m \in A : g[m] \in Int /\ k[m] \in Int
      BY <2>1, ArkivEndelig DEF HelBok, Felt
    <3> HIDE DEF g, k, A
    <3>2. SumFunctionOnSet(g, A) \in Int /\ SumFunctionOnSet(k, A) \in Int
      BY <3>1, SumType
    <3>. QED
      BY <3>2 DEF g, k
  <2>7. regnskap = Sumfelt(bok, "total") + bok.avvist + t + v
    <3> HIDE DEF t, v
    <3>. QED
      BY <2>1, <2>3, <2>4, <2>5, <2>6 DEF Saldert
  <2>8. regnskap = Maanedssum(bok).sum.total + bok.avvist
                   + MapThenSumSet(LAMBDA m : bok.arkiv[m].sum.total, A)
                   + MapThenSumSet(LAMBDA m : bok.arkiv[m].avvist, A)
    BY <2>2, <2>3, <2>7
  <2>. QED
    BY <2>8 DEF EnergiBevart
<1>. QED
  BY <1>1, BokInvariant, EnergiInvariant, PTL

\* Contract C2, C6 and C7 taken together: the book implements the ledger of
\* module Hovedbok.
THEOREM BokenErEnHovedbok == Spec => ErEnHovedbok
<1>1. Init => Bokens!Init
  BY EnergiInitInv
<1>2. BokIInv /\ BokIInv' /\ EnergiInv /\ [Next]_vars => [Bokens!Next]_(Bokens!vars)
  BY EnergiNext
<1>. QED
  BY <1>1, <1>2, BokInvariant, EnergiInvariant, PTL DEF Spec, ErEnHovedbok, Bokens!Spec

-----------------------------------------------------------------------------
(***************************************************************************)
(* Restart equality.  A book follows a history if, from some hour g on, it *)
(* holds what the history holds, and has folded away what lies before g at *)
(* the price the history gives it.  No sample and no reading reaches back  *)
(* beyond g, so every call keeps the two alike; a save only moves g.       *)
(***************************************************************************)

\* The contributions of a month of which nothing was folded away.
HelInnhold(x) ==
  [h \in DOMAIN x.poster |->
     [kwh |-> x.poster[h], kvalitet |-> Priskvalitet(Prisintervall(x.ruter, h))]]

\* The hours of x before g.
Foldede(x, g) == {h \in DOMAIN x.poster : h < g}

LikRute(t, u, r) == (r \in DOMAIN t <=> r \in DOMAIN u) /\ (r \in DOMAIN t => t[r] = u[r])

\* The routes an open hour can have from g on: those of months that are over
\* are forgotten.
Aapen(b, g, r) ==
  TimeForRute(r) >= g /\ (b.aktiv # Ingen => ManedAv[TimeForRute(r)] >= b.aktiv)

\* The book b follows the history x: the hours before g are in the finished
\* sums, at the price x has for them, and the others are as x has them.
Fulgt(b, x, g) ==
  /\ DOMAIN x = DOMAIN TomHel
  /\ DOMAIN x.poster \subseteq Timer
  /\ \A h \in DOMAIN x.poster : x.poster[h] \in Nat /\ ManedAv[h] = b.aktiv
  /\ DOMAIN x.ruter \subseteq Ruter
  /\ DOMAIN b.poster = DOMAIN x.poster \ Foldede(x, g)
  /\ \A h \in DOMAIN b.poster : b.poster[h].kwh = x.poster[h]
  /\ \A r \in Ruter : Aapen(b, g, r) => LikRute(b.ruter, x.ruter, r)
  /\ \A f \in Felt : Rest(b, f) = SumI(f, Restrict(HelInnhold(x), Foldede(x, g)))
  /\ b.ferdige = Cardinality(Foldede(x, g))

\* Tables with the same routes of an hour give it the same price.
LEMMA LikPris ==
  ASSUME NEW t, NEW u, DOMAIN t \subseteq Ruter, DOMAIN u \subseteq Ruter, NEW h,
         \A r \in Ruter : TimeForRute(r) = h => LikRute(t, u, r)
  PROVE  Prisintervall(t, h) = Prisintervall(u, h)
<1>1. {r \in DOMAIN t : TimeForRute(r) = h} = {r \in DOMAIN u : TimeForRute(r) = h}
  BY DEF LikRute
<1>2. \A r \in DOMAIN t : TimeForRute(r) = h => t[r] = u[r]
  BY DEF LikRute
<1>. QED
  BY <1>1, <1>2 DEF Prisintervall

\* The hours of a history, those that were folded and those that are kept.
LEMMA HelTimer ==
  ASSUME NEW b, NEW x, NEW g \in Int, Fulgt(b, x, g)
  PROVE  /\ IsFiniteSet(DOMAIN x.poster) /\ IsFiniteSet(Foldede(x, g)) /\ IsFiniteSet(DOMAIN b.poster)
         /\ DOMAIN HelInnhold(x) = DOMAIN x.poster
         /\ Foldede(x, g) \in SUBSET DOMAIN x.poster
         /\ Tellbar(HelInnhold(x))
         /\ \A T \in SUBSET DOMAIN x.poster : Tellbar(Restrict(HelInnhold(x), T))
<1>1. IsFiniteSet(DOMAIN x.poster)
  BY TimerEndelig, FS_Subset DEF Fulgt
<1>2. Foldede(x, g) \in SUBSET DOMAIN x.poster /\ DOMAIN b.poster \in SUBSET DOMAIN x.poster
  BY DEF Foldede, Fulgt
<1>3. DOMAIN HelInnhold(x) = DOMAIN x.poster /\ Tellbar(HelInnhold(x))
  BY <1>1 DEF HelInnhold, Tellbar, Fulgt
<1>4. ASSUME NEW T \in SUBSET DOMAIN x.poster
      PROVE  Tellbar(Restrict(HelInnhold(x), T))
  <2>1. IsFiniteSet(T)
    BY <1>1, FS_Subset
  <2>. QED
    BY <1>3, <2>1 DEF Tellbar, Restrict
<1>. QED
  BY <1>1, <1>2, <1>3, <1>4, FS_Subset

\* A kept hour contributes what the history says.
LEMMA BeholdtInnhold ==
  ASSUME NEW b, BokInv(b), NEW x, NEW g \in Int, Fulgt(b, x, g)
  PROVE  Innhold(b) = Restrict(HelInnhold(x), DOMAIN x.poster \ Foldede(x, g))
<1>1. ASSUME NEW h \in DOMAIN b.poster
      PROVE  Innhold(b)[h] = HelInnhold(x)[h]
  <2>1. h \in DOMAIN x.poster /\ h \notin Foldede(x, g) /\ h \in Timer /\ ManedAv[h] = b.aktiv
    BY DEF Fulgt
  <2>2. h >= g /\ h \in Int
    BY <2>1, TidAssumption DEF Foldede, Timer
  <2>3. ManedAv[h] \in Nat
    BY <2>1, KalenderAssumption
  <2>4. \A r \in Ruter : TimeForRute(r) = h => Aapen(b, g, r)
    BY <2>1, <2>2, <2>3 DEF Aapen
  <2>5. Prisintervall(b.ruter, h) = Prisintervall(x.ruter, h)
    <3>1. DOMAIN b.ruter \subseteq Ruter /\ DOMAIN x.ruter \subseteq Ruter
      BY DEF Fulgt, BokInv, StrukturOK
    <3>2. \A r \in Ruter : TimeForRute(r) = h => LikRute(b.ruter, x.ruter, r)
      BY <2>4 DEF Fulgt
    <3>. QED
      BY <3>1, <3>2, LikPris
  <2>6. b.poster[h].kwh = x.poster[h]
    BY DEF Fulgt
  <2>. QED
    BY <2>1, <2>5, <2>6 DEF Innhold, HelInnhold, BidragAv, NyttIntervall
<1>2. DOMAIN Innhold(b) = DOMAIN x.poster \ Foldede(x, g) /\ DOMAIN b.poster = DOMAIN Innhold(b)
  BY DEF Innhold, Fulgt
<1>3. Innhold(b) = [h \in DOMAIN Innhold(b) |-> Innhold(b)[h]]
  BY DEF Innhold
<1>. QED
  BY <1>1, <1>2, <1>3 DEF Restrict

\* The sums of a book are those of its history.
LEMMA FulgtSum ==
  ASSUME NEW b, BokInv(b), HelBok(b), NEW x, NEW g \in Int, Fulgt(b, x, g), NEW f \in Felt
  PROVE  Sumfelt(b, f) = SumI(f, HelInnhold(x))
<1> DEFINE D == DOMAIN x.poster
           F == Foldede(x, g)
           i == HelInnhold(x)
<1>1. Tellbar(i) /\ DOMAIN i = D /\ F \in SUBSET D
  BY HelTimer
<1>2. Innhold(b) = Restrict(i, D \ F) /\ Rest(b, f) = SumI(f, Restrict(i, F))
  BY BeholdtInnhold DEF Fulgt
<1> HIDE DEF D, F, i
<1>3. SumI(f, i) = SumI(f, Restrict(i, F)) + SumI(f, Restrict(i, D \ F))
  BY <1>1, SumISplitt
<1>4. Sumfelt(b, f) = SumI(f, i)
  BY <1>2, <1>3 DEF Sumfelt
<1>. QED
  BY <1>4 DEF i

LEMMA FulgtLikhet ==
  ASSUME NEW b, BokInv(b), HelBok(b), NEW x, NEW g \in Int, Fulgt(b, x, g)
  PROVE  Maanedssum(b).sum = SumAv(HelInnhold(x)) /\ Maanedssum(b).antall = Cardinality(DOMAIN x.poster)
<1> DEFINE s == Maanedssum(b).sum
           i == HelInnhold(x)
           t == SumAv(i)
<1>1. \A f \in Felt : s[f] = t[f]
  <2>1. \A f \in Felt : t[f] = SumI(f, i)
    BY HelTimer, SumAvFelt
  <2>2. \A f \in Felt : s[f] = Sumfelt(b, f)
    BY MaanedssumFelt
  <2>. QED
    BY <2>1, <2>2, FulgtSum
<1>2. s = [total |-> s.total, dag |-> s.dag, natt |-> s.natt, uten |-> s.uten, delvis |-> s.delvis]
  BY DEF Maanedssum, Oppdater, Pluss, BokInv, StrukturOK, TomBok
<1>3. t = [total |-> t.total, dag |-> t.dag, natt |-> t.natt, uten |-> t.uten, delvis |-> t.delvis]
  BY DEF SumAv
<1>4. Maanedssum(b).antall = Cardinality(DOMAIN x.poster)
  <2> DEFINE D == DOMAIN x.poster
             F == Foldede(x, g)
  <2>1. IsFiniteSet(D) /\ IsFiniteSet(F) /\ F \in SUBSET D
    BY HelTimer
  <2>2. Maanedssum(b).antall = Cardinality(F) + Cardinality(D \ F)
    BY DEF Maanedssum, Fulgt
  <2> HIDE DEF D, F
  <2>3. F \cap D = F /\ Cardinality(D \ F) = Cardinality(D) - Cardinality(D \cap F) /\ D \cap F = F
    BY <2>1, FS_Difference
  <2>4. Cardinality(D) \in Nat /\ Cardinality(F) \in Nat
    BY <2>1, FS_CardinalityType
  <2>5. Maanedssum(b).antall = Cardinality(D)
    BY <2>2, <2>3, <2>4
  <2>. QED
    BY <2>5 DEF D
<1> HIDE DEF s, t
<1>5. s = t
  BY <1>1, <1>2, <1>3 DEF Felt
<1>. QED
  BY <1>4, <1>5 DEF s, t

\* A step that leaves what a book says of its hours alone.
LEMMA FulgtUendret ==
  ASSUME NEW b, NEW x, NEW g, Fulgt(b, x, g),
         NEW c, c.poster = b.poster, c.ruter = b.ruter, c.aktiv = b.aktiv,
         c.ferdige = b.ferdige, \A f \in Felt : Rest(c, f) = Rest(b, f)
  PROVE  Fulgt(c, x, g)
<1>1. \A r : Aapen(c, g, r) <=> Aapen(b, g, r)
  BY DEF Aapen
<1>. QED
  BY <1>1 DEF Fulgt

\* What the hours T of a history contribute depends on their energy and price.
LEMMA HelLik ==
  ASSUME NEW x, NEW y, NEW T, T \in SUBSET DOMAIN x.poster, T \in SUBSET DOMAIN y.poster,
         \A h \in T : /\ y.poster[h] = x.poster[h]
                      /\ Prisintervall(y.ruter, h) = Prisintervall(x.ruter, h)
  PROVE  Restrict(HelInnhold(y), T) = Restrict(HelInnhold(x), T)
BY DEF Restrict, HelInnhold

\* Tables that are alike in a route stay alike when both register a sample.
LEMMA RegistrerLik ==
  ASSUME NEW t, NEW u, NEW r, LikRute(t, u, r), NEW p
  PROVE  LikRute(Registrer(t, p), Registrer(u, p), r)
<1>1. CASE r = Rute(p.polltid)
  BY <1>1 DEF LikRute, Registrer
<1>2. CASE r # Rute(p.polltid)
  <2>1. \A v : /\ r \in DOMAIN Registrer(v, p) <=> r \in DOMAIN v
               /\ r \in DOMAIN v => Registrer(v, p)[r] = v[r]
    BY <1>2 DEF Registrer
  <2>. QED
    BY <2>1 DEF LikRute
<1>. QED
  BY <1>1, <1>2

\* The hour of a sample's route is not before the hour of the poll.
LEMMA RutensTimeSenere ==
  ASSUME NEW t \in Tikk
  PROVE  /\ Time(t) \in Timer /\ TimeForRute(Rute(t)) \in Timer
         /\ Time(t) <= TimeForRute(Rute(t))
<1> DEFINE h == TimeForRute(Rute(t))
           d == TikkPerTime
           k == Time(t)
<1>1. h \in Timer /\ k \in Timer
  BY RuteType, TimeForRuteType, TimeType
<1>2. h \in Nat /\ k \in Nat /\ d \in Nat \ {0} /\ t \in Nat
  BY <1>1, TikkHel, TidAssumption DEF Timer, TikkPerTime
<1>3. t < (h + 1) * d
  BY RutensTime
<1>4. k * d <= t
  <2>1. k = t \div d
    BY DEF Time
  <2> HIDE DEF k, d, h
  <2>. QED
    BY <1>2, <2>1
<1> HIDE DEF h, d, k
<1>5. k < h + 1
  <2>1. SUFFICES ASSUME k >= h + 1 PROVE FALSE
    BY <1>2
  <2>2. k * d >= (h + 1) * d
    BY <1>2, <2>1
  <2>3. k * d \in Int /\ (h + 1) * d \in Int
    BY <1>2
  <2>. QED
    BY <1>2, <1>3, <1>4, <2>2, <2>3
<1>. QED
  BY <1>1, <1>2, <1>5 DEF h, k

\* A sample from g on is registered alike, and reaches no hour that was folded.
LEMMA FulgtPris ==
  ASSUME NEW b, BokInv(b), NEW x, NEW g \in Int, Fulgt(b, x, g),
         NEW p, p.polltid \in Tikk, g <= Time(p.polltid)
  PROVE  Fulgt(RegistrerPrisprove(b, p),
               IF Godtas(p.polltid) THEN [x EXCEPT !.ruter = Registrer(@, p)] ELSE x, g)
<1> DEFINE c == RegistrerPrisprove(b, p)
           y == [x EXCEPT !.ruter = Registrer(@, p)]
           F == Foldede(x, g)
           q == TimeForRute(Rute(p.polltid))
<1>1. CASE ~ Godtas(p.polltid)
  BY <1>1 DEF RegistrerPrisprove
<1>2. CASE Godtas(p.polltid)
  <2>1. /\ c.poster = b.poster /\ c.bidrag = b.bidrag /\ c.sum = b.sum
        /\ c.ferdige = b.ferdige /\ c.aktiv = b.aktiv /\ c.ruter = Registrer(b.ruter, p)
    BY <1>2 DEF RegistrerPrisprove, BokInv, StrukturOK, TomBok
  <2>2. y.poster = x.poster /\ y.ruter = Registrer(x.ruter, p) /\ DOMAIN y = DOMAIN TomHel
    BY DEF Fulgt, TomHel
  <2>3. Time(p.polltid) <= q /\ q \in Int /\ Time(p.polltid) \in Int
    BY RutensTimeSenere, TidAssumption DEF Timer
  <2>4. \A h \in F : h \in DOMAIN x.poster /\ h # q
    <3>1. \A h \in F : h \in DOMAIN x.poster /\ h \in Timer /\ h < g
      BY DEF Foldede, Fulgt
    <3>2. \A h \in Timer : h \in Int
      BY TidAssumption DEF Timer
    <3> HIDE DEF F, q
    <3>. QED
      BY <2>3, <3>1, <3>2
  <2>5. DOMAIN y.ruter \subseteq Ruter
    BY <2>2, RuteType DEF Registrer, Fulgt
  <2>6. Foldede(y, g) = F
    BY <2>2 DEF Foldede
  <2> HIDE DEF c, y
  <2>7. Restrict(HelInnhold(y), F) = Restrict(HelInnhold(x), F)
    <3>1. \A h \in F : Prisintervall(y.ruter, h) = Prisintervall(x.ruter, h)
      BY <2>2, <2>4, RegistrerAndreTimer
    <3>2. F \in SUBSET DOMAIN x.poster /\ F \in SUBSET DOMAIN y.poster
      BY <2>2, <2>4
    <3> HIDE DEF F
    <3>. QED
      BY <2>2, <3>1, <3>2, HelLik
  <2>8. \A r \in Ruter : Aapen(c, g, r) => LikRute(c.ruter, y.ruter, r)
    <3>1. \A r : Aapen(c, g, r) <=> Aapen(b, g, r)
      BY <2>1 DEF Aapen
    <3>. QED
      BY <2>1, <2>2, <3>1, RegistrerLik DEF Fulgt
  <2>9. \A f \in Felt : Rest(c, f) = Rest(b, f)
    BY <2>1 DEF Rest
  <2>10. Fulgt(c, y, g)
    BY <2>1, <2>2, <2>5, <2>6, <2>7, <2>8, <2>9 DEF Fulgt
  <2>. QED
    BY <1>2, <2>10 DEF c, y
<1>. QED
  BY <1>1, <1>2

\* Reading the sums changes what is cached, and nothing else.
LEMMA FulgtOppdater ==
  ASSUME NEW b, BokInv(b), HelBok(b), NEW x, NEW g, Fulgt(b, x, g)
  PROVE  Fulgt(Oppdater(b), x, g)
<1> DEFINE o == Oppdater(b)
<1>1. o.poster = b.poster /\ o.ruter = b.ruter /\ o.aktiv = b.aktiv
  BY OppdaterFelt DEF BokInv
<1>2. o.ferdige = b.ferdige
  BY DEF Oppdater, BokInv, StrukturOK, TomBok
<1>3. \A f \in Felt : Rest(o, f) = Rest(b, f)
  BY OppdaterSum
<1> HIDE DEF o
<1>4. Fulgt(o, x, g)
  BY <1>1, <1>2, <1>3, FulgtUendret
<1>. QED
  BY <1>4 DEF o

\* HeleMaaneden, of any book and history.
HeleAv(b, x, svar) ==
  LET forrige == IF svar.bok.aktiv = b.aktiv THEN x.poster ELSE <<>>
      ny == {h \in DOMAIN svar.fordeling : ManedAv[h] = svar.bok.aktiv}
      ruter == IF b.aktiv # Ingen /\ svar.bok.aktiv # b.aktiv
               THEN GlemFor(x.ruter, svar.bok.aktiv) ELSE x.ruter
  IN  [poster |-> [h \in DOMAIN forrige \cup ny |->
                     (IF h \in DOMAIN forrige THEN forrige[h] ELSE 0)
                     + (IF h \in ny THEN svar.fordeling[h] ELSE 0)],
       ruter |-> ruter]

\* y is the history x with the energy del on top.
LagtTil(x, y, del) ==
  /\ DOMAIN y = DOMAIN TomHel
  /\ DOMAIN y.poster = DOMAIN x.poster \cup DOMAIN del
  /\ \A h \in DOMAIN y.poster :
       y.poster[h] = (IF h \in DOMAIN x.poster THEN x.poster[h] ELSE 0)
                     + (IF h \in DOMAIN del THEN del[h] ELSE 0)
  /\ y.ruter = x.ruter

\* Energy in hours from g on is added alike, and reaches no hour that was folded.
LEMMA FulgtLegg ==
  ASSUME NEW b, BokInv(b), HelBok(b), NEW x, NEW g \in Int, Fulgt(b, x, g),
         NEW del, DOMAIN del \subseteq Timer,
         \A h \in DOMAIN del : h >= g /\ del[h] \in Nat /\ ManedAv[h] = b.aktiv,
         NEW y, LagtTil(x, y, del), NEW estimert
  PROVE  Fulgt(Legg(b, del, estimert), y, g)
<1> DEFINE c == Legg(b, del, estimert)
           P == DOMAIN b.poster
           X == DOMAIN x.poster
           D == DOMAIN del
           F == Foldede(x, g)
<1>1. /\ c.bidrag = b.bidrag /\ c.sum = b.sum /\ c.ruter = b.ruter /\ c.aktiv = b.aktiv
      /\ c.ferdige = b.ferdige /\ DOMAIN c.poster = P \cup D
  BY DEF Legg, BokInv, StrukturOK, TomBok
<1>2. \A h \in P \cup D : c.poster[h].kwh
          = (IF h \in P THEN b.poster[h].kwh ELSE 0) + (IF h \in D THEN del[h] ELSE 0)
  <2>1. \A h \in P : b.poster[h].kwh \in Nat
    BY DEF HelBok
  <2>2. ASSUME NEW h \in P \cup D
        PROVE  /\ h \in D => c.poster[h].kwh = (IF h \in P THEN b.poster[h].kwh ELSE 0) + del[h]
               /\ h \notin D => c.poster[h] = b.poster[h]
    BY DEF Legg, BokInv, StrukturOK, TomBok
  <2> HIDE DEF c, P, D
  <2>. QED
    BY <2>1, <2>2
<1>3. /\ P = X \ F /\ (\A h \in P : b.poster[h].kwh = x.poster[h])
      /\ (\A h \in X : h \in Timer /\ x.poster[h] \in Nat /\ ManedAv[h] = b.aktiv)
      /\ DOMAIN x.ruter \subseteq Ruter /\ b.ferdige = Cardinality(F)
      /\ (\A f \in Felt : Rest(b, f) = SumI(f, Restrict(HelInnhold(x), F)))
      /\ \A r \in Ruter : Aapen(b, g, r) => LikRute(b.ruter, x.ruter, r)
  BY DEF Fulgt
<1>4. /\ DOMAIN y = DOMAIN TomHel /\ DOMAIN y.poster = X \cup D /\ y.ruter = x.ruter
      /\ \A h \in X \cup D : y.poster[h] = (IF h \in X THEN x.poster[h] ELSE 0)
                                           + (IF h \in D THEN del[h] ELSE 0)
  BY DEF LagtTil
<1>5. Timer \subseteq Int
  BY TidAssumption DEF Timer
<1>6. (\A h \in D : ~ (h < g) /\ h \in Timer /\ del[h] \in Nat /\ ManedAv[h] = b.aktiv)
      /\ \A h : h \in F <=> h \in X /\ h < g
  <2>1. \A h : h \in F <=> h \in X /\ h < g
    BY DEF Foldede
  <2>2. \A h \in D : h >= g /\ h \in Int /\ h \in Timer /\ del[h] \in Nat /\ ManedAv[h] = b.aktiv
    BY <1>5
  <2> HIDE DEF D, F
  <2>. QED
    BY <2>1, <2>2
<1>7. Foldede(y, g) = F
  <2>1. \A h : h \in Foldede(y, g) <=> h \in X \cup D /\ h < g
    BY <1>4 DEF Foldede
  <2> HIDE DEF F, X, D
  <2>. QED
    BY <1>6, <2>1
<1> HIDE DEF c, P, X, D, F
<1>8. \A h \in DOMAIN y.poster : h \in Timer /\ y.poster[h] \in Nat /\ ManedAv[h] = b.aktiv
  BY <1>3, <1>4, <1>6
<1>9. DOMAIN c.poster = DOMAIN y.poster \ F
  BY <1>1, <1>3, <1>4, <1>6
<1>10. \A h \in DOMAIN c.poster : c.poster[h].kwh = y.poster[h]
  <2> SUFFICES ASSUME NEW h \in P \cup D PROVE c.poster[h].kwh = y.poster[h]
    BY <1>1
  <2>1. h \in P <=> h \in X
    BY <1>3, <1>6
  <2>. QED
    BY <1>2, <1>3, <1>4, <2>1
<1>11. Restrict(HelInnhold(y), F) = Restrict(HelInnhold(x), F)
  <2>1. \A h \in F : h \in X /\ h \notin D /\ y.poster[h] = x.poster[h]
    BY <1>3, <1>4, <1>6
  <2>2. F \in SUBSET DOMAIN x.poster /\ F \in SUBSET DOMAIN y.poster
    BY <1>4, <2>1 DEF X
  <2>. QED
    BY <1>4, <2>1, <2>2, HelLik
<1>12. \A f \in Felt : Rest(c, f) = Rest(b, f)
  BY <1>1 DEF Rest
<1>13. \A r \in Ruter : Aapen(c, g, r) => LikRute(c.ruter, y.ruter, r)
  BY <1>1, <1>3, <1>4 DEF Aapen
<1>14. Fulgt(c, y, g)
  BY <1>1, <1>3, <1>4, <1>7, <1>8, <1>9, <1>10, <1>11, <1>12, <1>13 DEF Fulgt
<1>. QED
  BY <1>14 DEF c

\* A book without hours, in a month not before that of b, follows a history
\* without hours: it may have forgotten routes of months that are over.
LEMMA FulgtTom ==
  ASSUME NEW b, NEW x, NEW g, Fulgt(b, x, g),
         NEW c, DOMAIN c.poster = {}, c.aktiv \in Maneder, c.ferdige = 0,
         \A f \in Felt : Rest(c, f) = 0,
         b.aktiv # Ingen => b.aktiv \in Nat /\ b.aktiv <= c.aktiv,
         c.ruter \in {b.ruter, GlemFor(b.ruter, c.aktiv)},
         NEW y, DOMAIN y = DOMAIN TomHel, DOMAIN y.poster = {},
         y.ruter \in {x.ruter, GlemFor(x.ruter, c.aktiv)}
  PROVE  Fulgt(c, y, g)
<1>1. Foldede(y, g) = {}
  BY DEF Foldede
<1>2. DOMAIN y.ruter \subseteq Ruter
  BY DEF Fulgt, GlemFor, Restrict
<1>3. \A f \in Felt : Rest(c, f) = SumI(f, Restrict(HelInnhold(y), Foldede(y, g)))
  <2>1. DOMAIN Restrict(HelInnhold(y), {}) = {}
    BY DEF Restrict
  <2>2. \A f : SumI(f, Restrict(HelInnhold(y), {})) = 0
    BY <2>1, SumTom DEF SumI
  <2>. QED
    BY <1>1, <2>2
<1>4. c.ferdige = Cardinality(Foldede(y, g))
  BY <1>1, FS_EmptySet
<1>5. ASSUME NEW r \in Ruter, Aapen(c, g, r)
      PROVE  LikRute(c.ruter, y.ruter, r)
  <2>1. c.aktiv \in Nat /\ c.aktiv # Ingen /\ ManedAv[TimeForRute(r)] \in Nat
    BY ManederNat, TimeForRuteType, ManedType
  <2>2. TimeForRute(r) >= g /\ ManedAv[TimeForRute(r)] >= c.aktiv
    BY <1>5, <2>1 DEF Aapen
  <2>3. b.aktiv # Ingen => ManedAv[TimeForRute(r)] >= b.aktiv
    BY <2>1, <2>2
  <2>4. LikRute(b.ruter, x.ruter, r)
    BY <2>2, <2>3 DEF Fulgt, Aapen
  <2>5. \A t : /\ r \in DOMAIN GlemFor(t, c.aktiv) <=> r \in DOMAIN t
               /\ r \in DOMAIN t => GlemFor(t, c.aktiv)[r] = t[r]
    BY <2>2 DEF GlemFor, Restrict
  <2>. QED
    BY <2>4, <2>5 DEF LikRute
<1>. QED
  BY <1>1, <1>2, <1>3, <1>4, <1>5 DEF Fulgt

\* An answer that leaves the hours of the book alone.
LEMMA FulgtStille ==
  ASSUME NEW b, NEW x, NEW g, Fulgt(b, x, g),
         NEW s, s.bok.poster = b.poster, s.bok.ruter = b.ruter, s.bok.aktiv = b.aktiv,
         s.bok.ferdige = b.ferdige, s.bok.sum = b.sum, s.bok.bidrag = b.bidrag,
         \A h \in DOMAIN s.fordeling : ManedAv[h] # b.aktiv
  PROVE  Fulgt(s.bok, HeleAv(b, x, s), g)
<1> DEFINE y == HeleAv(b, x, s)
           c == s.bok
<1>1. /\ DOMAIN y = DOMAIN TomHel /\ DOMAIN y.poster = DOMAIN x.poster /\ y.ruter = x.ruter
      /\ \A h \in DOMAIN x.poster : y.poster[h] = x.poster[h] + 0
  BY DEF HeleAv, TomHel
<1> HIDE DEF y
<1>2. \A h \in DOMAIN x.poster : y.poster[h] = x.poster[h] /\ y.poster[h] \in Nat
  BY <1>1 DEF Fulgt
<1>3. Foldede(y, g) = Foldede(x, g) /\ Foldede(x, g) \in SUBSET DOMAIN x.poster
  BY <1>1 DEF Foldede
<1>4. Restrict(HelInnhold(y), Foldede(x, g)) = Restrict(HelInnhold(x), Foldede(x, g))
  <2> DEFINE F == Foldede(x, g)
  <2>1. F \in SUBSET DOMAIN x.poster /\ F \in SUBSET DOMAIN y.poster
    BY <1>1, <1>3
  <2>2. \A h \in F : y.poster[h] = x.poster[h]
    BY <1>2, <1>3
  <2> HIDE DEF F
  <2>3. Restrict(HelInnhold(y), F) = Restrict(HelInnhold(x), F)
    BY <1>1, <2>1, <2>2, HelLik
  <2>. QED
    BY <2>3 DEF F
<1>5. Fulgt(b, y, g)
  BY <1>1, <1>2, <1>3, <1>4 DEF Fulgt
<1>6. \A f \in Felt : Rest(c, f) = Rest(b, f)
  BY DEF Rest
<1> HIDE DEF c
<1>7. Fulgt(c, y, g)
  BY <1>5, <1>6, FulgtUendret DEF c
<1>. QED
  BY <1>7 DEF c, y

\* What a month that has just been opened starts with.
LEMMA NyManedFelt ==
  ASSUME NEW b, BokInv(b), NEW m
  PROVE  LET c == NyManed(b, m)
         IN  /\ DOMAIN c.poster = {} /\ DOMAIN c.bidrag = {} /\ c.sum = NullSum
             /\ c.ferdige = 0 /\ c.ruter = GlemFor(b.ruter, m)
BY DEF NyManed, BokInv, StrukturOK, TomBok

\* _fordel: what lands in the month the window ends in is added to the history
\* as it is to the posts, and a month that is opened starts from nothing.
LEMMA FulgtFordel ==
  ASSUME NEW b, BokInv(b), HelBok(b), b.sist # Ingen,
         NEW a, a.tid \in Tikk, b.sist.tid < a.tid, NEW delta \in Nat,
         DeltHelt(b.sist.tid, a.tid, delta),
         NEW x, NEW g \in Int, Fulgt(b, x, g), g <= Time(b.sist.tid)
  PROVE  LET s == Fordel(b, a, delta) IN Fulgt(s.bok, HeleAv(b, x, s), g)
<1> DEFINE b0 == Apnet(b)
           f == FordelDelta(b.sist.tid, a.tid, delta)
           est == a.kilde \in Estimerte
           ny == ManedAv[Time(a.tid - 1)]
           s == Fordel(b, a, delta)
           c == s.bok
           y == HeleAv(b, x, s)
           land == Landet(b0, f)
           S == {h \in DOMAIN f : ManedAv[h] = ny}
           del == Restrict(f, S)
           apen == IF ny = b0.aktiv THEN b0 ELSE NyManed(b0, ny)
<1>1. b.sist.tid \in Tikk
  BY DEF BokInv, StrukturOK
<1>2. /\ DOMAIN f \subseteq Timer /\ ny \in Maneder /\ ny \in Nat /\ ny # Ingen
      /\ \A h \in DOMAIN f : ManedAv[h] <= ny
      /\ ManedAv[Time(b.sist.tid)] \in Nat /\ ManedAv[Time(b.sist.tid)] <= ny
  BY <1>1, VinduManed
<1>3. \A h \in DOMAIN f : f[h] \in Nat /\ h >= g /\ h \in Int /\ ManedAv[h] \in Nat
  <2>1. \A h \in DOMAIN f : f[h] \in Nat
    BY <1>1, FordelDeltaSum DEF DeltHelt
  <2>2. DOMAIN f = Time(b.sist.tid) .. Time(a.tid - 1) /\ Time(b.sist.tid) \in Int
    BY <1>1, VinduType, TidAssumption DEF Timer
  <2>3. \A h \in DOMAIN f : h \in Int /\ h >= g
    <3> DEFINE lo == Time(b.sist.tid)
               hi == Time(a.tid - 1)
    <3>1. DOMAIN f = lo .. hi /\ lo \in Int /\ g <= lo
      BY <2>2
    <3> HIDE DEF f, lo, hi
    <3>. QED
      BY <3>1
  <2>4. \A h \in DOMAIN f : ManedAv[h] \in Nat
    BY <1>2, ManedType
  <2>. QED
    BY <2>1, <2>3, <2>4
<1>4. EtterFordeling(b, c, b0, f, est, ny)
  BY FordelForm
<1>5. /\ BokInv(b0) /\ HelBok(b0) /\ b0.aktiv \in Maneder /\ b0.aktiv \in Nat
      /\ b.aktiv # Ingen => b0 = b
      /\ b.aktiv = Ingen => /\ DOMAIN b.poster = {}
                            /\ b0.aktiv = ManedAv[Time(b.sist.tid)]
  BY ApnetInv
<1>6. /\ b.aktiv = Ingen => /\ b0.poster = b.poster /\ b0.ruter = b.ruter
                            /\ b0.bidrag = b.bidrag /\ b0.sum = b.sum /\ b0.ferdige = b.ferdige
      /\ b0.ruter = b.ruter
  BY DEF Apnet, BokInv, StrukturOK, TomBok
<1>7. /\ DOMAIN s.fordeling = land
      /\ \A h \in land : s.fordeling[h] = f[h]
  BY DEF Fordel, Svar, Apnet, Landet, Restrict
<1>8. CASE ny < b0.aktiv
  <2>1. b.aktiv # Ingen /\ b0 = b
    BY <1>2, <1>5, <1>8
  <2>2. /\ c.poster = b.poster /\ c.ruter = b.ruter /\ c.aktiv = b.aktiv
        /\ c.ferdige = b.ferdige /\ c.sum = b.sum /\ c.bidrag = b.bidrag
    BY <1>4, <1>8, <2>1 DEF EtterFordeling
  <2>3. \A h \in DOMAIN s.fordeling : ManedAv[h] # b.aktiv
    <3> SUFFICES ASSUME NEW h \in land, ManedAv[h] = b.aktiv PROVE FALSE
      BY <1>7
    <3>1. h \in DOMAIN f
      BY DEF Landet
    <3> HIDE DEF f, ny, b0
    <3>. QED
      BY <1>2, <1>3, <1>5, <1>8, <2>1, <3>1
  <2> HIDE DEF s
  <2>4. Fulgt(s.bok, HeleAv(b, x, s), g)
    BY <2>2, <2>3, FulgtStille
  <2>. QED
    BY <2>4 DEF s
<1>9. CASE ~ (ny < b0.aktiv)
  <2>1. b0.aktiv <= ny
    BY <1>2, <1>5, <1>9
  <2> DEFINE siste == ForManed(b0, ny, f, est)
  <2>2. siste = Legg(apen, del, est)
    BY DEF ForManed
  <2>3. /\ c.poster = siste.poster /\ c.ruter = siste.ruter /\ c.aktiv = siste.aktiv
        /\ c.ferdige = siste.ferdige /\ c.sum = siste.sum /\ c.bidrag = siste.bidrag
    BY <1>4, <1>9 DEF EtterFordeling
  <2>4. BokInv(apen) /\ HelBok(apen) /\ apen.aktiv = ny
    <3> HIDE DEF b0, ny
    <3>1. CASE ny = b0.aktiv
      BY <1>5, <3>1
    <3>2. CASE ny # b0.aktiv
      BY <1>2, <1>5, <2>1, <3>2, NyManedInv, NyManedEnergi
    <3>. QED
      BY <3>1, <3>2
  <2>5. /\ DOMAIN del = S /\ S \subseteq Timer
        /\ \A h \in S : h >= g /\ del[h] = f[h] /\ del[h] \in Nat /\ ManedAv[h] = apen.aktiv
    <3>1. DOMAIN del = S /\ \A h \in S : del[h] = f[h] /\ h \in DOMAIN f /\ ManedAv[h] = ny
      BY DEF Restrict
    <3> HIDE DEF del, S, f, ny, apen
    <3>. QED
      BY <1>2, <1>3, <2>4, <3>1
  <2>6. siste.aktiv = ny
    <3>1. siste.aktiv = apen.aktiv
      BY <2>2, <2>4 DEF Legg, BokInv, StrukturOK, TomBok
    <3>. QED
      BY <2>4, <3>1
  <2>7. {h \in DOMAIN s.fordeling : ManedAv[h] = c.aktiv} = S
    <3>1. c.aktiv = ny
      BY <2>3, <2>6
    <3>2. \A h \in S : h \in land
      <4> SUFFICES ASSUME NEW h \in DOMAIN f, ManedAv[h] = ny PROVE ~ (ManedAv[h] < b0.aktiv)
        BY DEF Landet
      <4> HIDE DEF f, ny, b0
      <4>. QED
        BY <1>9
    <3>3. land \subseteq DOMAIN f
      BY DEF Landet
    <3> HIDE DEF c, land, f, ny, s
    <3>. QED
      BY <1>7, <3>1, <3>2, <3>3
  <2>8. \A h \in S : s.fordeling[h] = del[h]
    <3>1. \A h \in S : h \in land
      BY <1>7, <2>7
    <3>. QED
      BY <1>7, <2>5, <3>1
  <2>9. c.aktiv = ny
    BY <2>3, <2>6
  <2> HIDE DEF s, b0, f, est, ny, S, del, land
  <2>10. PICK z : Fulgt(apen, z, g) /\ LagtTil(z, y, del)
    <3>1. CASE ny = b.aktiv
      <4>1. apen = b
        BY <1>2, <1>5, <3>1
      <4>2. /\ DOMAIN y = DOMAIN TomHel /\ DOMAIN y.poster = DOMAIN x.poster \cup S
            /\ y.ruter = x.ruter
            /\ \A h \in DOMAIN x.poster \cup S :
                 y.poster[h] = (IF h \in DOMAIN x.poster THEN x.poster[h] ELSE 0)
                               + (IF h \in S THEN s.fordeling[h] ELSE 0)
        BY <2>7, <2>9, <3>1 DEF HeleAv, TomHel
      <4> HIDE DEF y
      <4>3. LagtTil(x, y, del)
        BY <2>5, <2>8, <4>2 DEF LagtTil
      <4>. QED
        BY <4>1, <4>3
    <3>2. CASE ny # b.aktiv
      <4> DEFINE z == [poster |-> <<>>, ruter |-> y.ruter]
      <4>1. /\ DOMAIN y = DOMAIN TomHel /\ DOMAIN y.poster = S
            /\ y.ruter \in {x.ruter, GlemFor(x.ruter, ny)}
            /\ \A h \in S : y.poster[h] = 0 + s.fordeling[h]
        BY <2>7, <2>9, <3>2 DEF HeleAv, TomHel
      <4>2. DOMAIN z = DOMAIN TomHel /\ DOMAIN z.poster = {} /\ z.ruter = y.ruter
        BY DEF TomHel
      <4> HIDE DEF y, z
      <4>3. LagtTil(z, y, del)
        BY <2>5, <2>8, <4>1, <4>2 DEF LagtTil
      <4>4. /\ DOMAIN apen.poster = {} /\ apen.ferdige = 0
            /\ (\A e \in Felt : Rest(apen, e) = 0)
            /\ apen.ruter \in {b.ruter, GlemFor(b.ruter, ny)}
        <5>1. CASE ny = b0.aktiv
          <6>1. b.aktiv = Ingen
            BY <1>5, <3>2, <5>1
          <6>2. DOMAIN x.poster = {}
            <7>1. \A h \in DOMAIN x.poster : h \in Timer /\ ManedAv[h] = Ingen
              BY <6>1 DEF Fulgt
            <7>. QED
              BY <7>1, ManedType
          <6>3. Foldede(x, g) = {}
            BY <6>2 DEF Foldede
          <6>4. DOMAIN Restrict(HelInnhold(x), {}) = {}
            BY DEF Restrict
          <6>5. \A e : SumI(e, Restrict(HelInnhold(x), {})) = 0
            BY <6>4, SumTom DEF SumI
          <6>6. (\A e \in Felt : Rest(b, e) = 0) /\ b.ferdige = 0
            BY <6>3, <6>5, FS_EmptySet DEF Fulgt
          <6>7. (\A e \in Felt : Rest(b0, e) = Rest(b, e))
            BY <1>6, <6>1 DEF Rest
          <6>. QED
            BY <1>5, <1>6, <5>1, <6>1, <6>6, <6>7
        <5>2. CASE ny # b0.aktiv
          <6>1. apen = NyManed(b0, ny)
            BY <5>2
          <6>2. /\ DOMAIN apen.poster = {} /\ DOMAIN apen.bidrag = {} /\ apen.sum = NullSum
                /\ apen.ferdige = 0 /\ apen.ruter = GlemFor(b.ruter, ny)
            BY <1>5, <1>6, <6>1, NyManedFelt
          <6>3. \A e \in Felt : apen.sum[e] = 0
            BY <6>2 DEF NullSum, Felt
          <6>4. \A e : SumI(e, apen.bidrag) = 0
            BY <6>2, SumTom DEF SumI
          <6>. QED
            BY <6>2, <6>3, <6>4 DEF Rest
        <5>. QED
          BY <5>1, <5>2
      <4>5. b.aktiv # Ingen => b.aktiv \in Nat /\ b.aktiv <= ny
        BY <1>5, <2>1
      <4> HIDE DEF apen
      <4>6. Fulgt(apen, z, g)
        BY <1>2, <2>4, <4>1, <4>2, <4>4, <4>5, FulgtTom
      <4>. QED
        BY <4>3, <4>6
    <3>. QED
      BY <3>1, <3>2
  <2> HIDE DEF apen, y, siste, c
  <2>11. Fulgt(siste, y, g)
    BY <2>2, <2>4, <2>5, <2>10, FulgtLegg
  <2>12. \A e \in Felt : Rest(c, e) = Rest(siste, e)
    BY <2>3 DEF Rest
  <2>13. Fulgt(c, y, g)
    BY <2>3, <2>11, <2>12, FulgtUendret
  <2>. QED
    BY <2>13 DEF c, y, s
<1>. QED
  BY <1>8, <1>9

\* bokfor: whatever the reading, the book and its history take it in alike.
LEMMA FulgtBokfor ==
  ASSUME NEW b, BokInv(b), HelBok(b), NEW a, a.tid \in Tikk, a.verdi \in Int,
         b.sist # Ingen => b.sist.verdi \in Int,
         b.sist # Ingen /\ b.sist.tid < a.tid /\ Maalt(b, a) \in Nat =>
           DeltHelt(b.sist.tid, a.tid, Maalt(b, a)),
         NEW x, NEW g \in Int, Fulgt(b, x, g), b.sist # Ingen => g <= Time(b.sist.tid)
  PROVE  LET s == Bokfor(b, a) IN Fulgt(s.bok, HeleAv(b, x, s), g)
<1> DEFINE s == Bokfor(b, a)
           flyttet == [b EXCEPT !.sist = a]
           sprang == [flyttet EXCEPT !.avvist = @ + Maalt(b, a)]
<1>1. /\ flyttet.poster = b.poster /\ flyttet.ruter = b.ruter /\ flyttet.aktiv = b.aktiv
      /\ flyttet.ferdige = b.ferdige /\ flyttet.sum = b.sum /\ flyttet.bidrag = b.bidrag
      /\ sprang.poster = b.poster /\ sprang.ruter = b.ruter /\ sprang.aktiv = b.aktiv
      /\ sprang.ferdige = b.ferdige /\ sprang.sum = b.sum /\ sprang.bidrag = b.bidrag
  BY DEF BokInv, StrukturOK, TomBok
<1>2. /\ s.bok \in {b, flyttet, sprang} /\ s.fordeling = <<>>
      \/ /\ s = Fordel(b, a, Maalt(b, a)) /\ Maalt(b, a) \in Nat
         /\ b.sist # Ingen /\ b.sist.tid < a.tid
  <2>1. CASE b.sist = Ingen \/ b.sist.kilde # a.kilde \/ b.sist = a
             \/ a.tid < b.sist.tid \/ a.tid = b.sist.tid
    BY <2>1 DEF Bokfor, UtenEnergi, Svar
  <2>2. CASE ~ (b.sist = Ingen \/ b.sist.kilde # a.kilde \/ b.sist = a
                \/ a.tid < b.sist.tid \/ a.tid = b.sist.tid)
    <3>1. b.sist # Ingen /\ b.sist.tid < a.tid /\ b.sist.verdi \in Int
      <4>1. b.sist.tid \in Tikk
        BY <2>2 DEF BokInv, StrukturOK
      <4>2. a.tid \in Nat /\ b.sist.tid \in Nat
        BY <4>1, TikkHel
      <4>. QED
        BY <2>2, <4>2
    <3>2. CASE a.kilde \in Estimerte /\ a.tid - b.sist.tid > MaksEstimertVindu
      BY <2>2, <3>2 DEF Bokfor, BokforEstimert, UtenEnergi, Svar
    <3>3. CASE ~ (a.kilde \in Estimerte /\ a.tid - b.sist.tid > MaksEstimertVindu)
      <4>1. s = BokforDelta(b, a, Maalt(b, a))
        BY <2>2, <3>3 DEF Bokfor, BokforEstimert, BokforTeller, Maalt
      <4>2. Maalt(b, a) \in Int
        BY <3>1 DEF Maalt
      <4>3. CASE Maalt(b, a) < 0
        BY <4>1, <4>3 DEF BokforDelta, UtenEnergi, Svar
      <4>4. CASE ~ (Maalt(b, a) < 0) /\ Maalt(b, a) > MaksDelta
        BY <4>1, <4>4 DEF BokforDelta, Svar
      <4>5. CASE ~ (Maalt(b, a) < 0) /\ ~ (Maalt(b, a) > MaksDelta)
        BY <3>1, <4>1, <4>2, <4>5 DEF BokforDelta
      <4>. QED
        BY <4>3, <4>4, <4>5
    <3>. QED
      BY <3>2, <3>3
  <2>. QED
    BY <2>1, <2>2
<1>3. CASE s.bok \in {b, flyttet, sprang} /\ s.fordeling = <<>>
  <2>1. /\ s.bok.poster = b.poster /\ s.bok.ruter = b.ruter /\ s.bok.aktiv = b.aktiv
        /\ s.bok.ferdige = b.ferdige /\ s.bok.sum = b.sum /\ s.bok.bidrag = b.bidrag
    <3> HIDE DEF s, flyttet, sprang
    <3>. QED
      BY <1>1, <1>3
  <2>2. \A h \in DOMAIN s.fordeling : ManedAv[h] # b.aktiv
    BY <1>3
  <2> HIDE DEF s
  <2>3. Fulgt(s.bok, HeleAv(b, x, s), g)
    BY <2>1, <2>2, FulgtStille
  <2>. QED
    BY <2>3 DEF s
<1>4. CASE /\ s = Fordel(b, a, Maalt(b, a)) /\ Maalt(b, a) \in Nat
           /\ b.sist # Ingen /\ b.sist.tid < a.tid
  <2> DEFINE t == Fordel(b, a, Maalt(b, a))
  <2>1. Fulgt(t.bok, HeleAv(b, x, t), g)
    BY <1>4, FulgtFordel
  <2> HIDE DEF s, t
  <2>2. s = t
    BY <1>4 DEF t
  <2>3. Fulgt(s.bok, HeleAv(b, x, s), g)
    BY <2>1, <2>2
  <2>. QED
    BY <2>3 DEF s
<1> HIDE DEF s, flyttet, sprang
<1>5. Fulgt(s.bok, HeleAv(b, x, s), g)
  BY <1>2, <1>3, <1>4 DEF s
<1>. QED
  BY <1>5 DEF s

\* A book that is written and read again follows the same history; the hours
\* before the window have been folded away.
LEMMA FulgtLagret ==
  ASSUME NEW b, BokInv(b), HelBok(b), NEW n \in Tikk, NEW x, NEW g \in Int, Fulgt(b, x, g)
  PROVE  Fulgt(FraLagring(TilLagring(b, n)), x, StorstAv(g, Time(n) - Lagringsvindu))
<1> DEFINE fra == Time(n) - Lagringsvindu
           e == StorstAv(g, fra)
           P == DOMAIN b.poster
           X == DOMAIN x.poster
           B == {h \in P : h >= fra}
           F == Foldede(x, g)
           E == Foldede(x, e)
           o == Oppdater(b)
           l == TilLagring(b, n)
           c == FraLagring(l)
           i == HelInnhold(x)
<1>1. fra \in Int
  <2>1. Time(n) \in Int
    BY TimeType, TidAssumption DEF Timer
  <2>. QED
    BY <2>1, TidAssumption
<1>2. e \in Int /\ g <= e /\ fra <= e /\ (e = g \/ e = fra)
  <2> HIDE DEF fra
  <2>. QED
    BY <1>1 DEF StorstAv
<1>3. /\ l.skjema = 3 /\ l.poster = Restrict(b.poster, B) /\ l.ruter = RuterFra(b.ruter, fra)
      /\ l.ferdige_sum = Minus(o.sum, SumAv(Restrict(o.bidrag, B)))
      /\ l.aktiv = b.aktiv /\ l.antall = b.ferdige + Cardinality(P \ B)
  BY DEF TilLagring
<1>4. l # TomtLager /\ l # GammeltLager
  BY <1>3 DEF TomtLager, GammeltLager
<1>5. /\ c.poster = Restrict(b.poster, B) /\ c.ruter = RuterFra(b.ruter, fra)
      /\ DOMAIN c.bidrag = {} /\ c.sum = l.ferdige_sum
      /\ c.aktiv = b.aktiv /\ c.ferdige = b.ferdige + Cardinality(P \ B)
  <2> HIDE DEF l
  <2>1. /\ c.poster = l.poster /\ c.ruter = l.ruter /\ c.bidrag = <<>> /\ c.sum = l.ferdige_sum
        /\ c.aktiv = l.aktiv /\ c.ferdige = l.antall
    BY <1>4 DEF FraLagring, TomBok
  <2>2. DOMAIN << >> = {}
    OBVIOUS
  <2> HIDE DEF c, fra, B
  <2>. QED
    BY <1>3, <2>1, <2>2
<1> HIDE DEF c, l
<1>6. /\ P = X \ F /\ (\A h \in P : b.poster[h].kwh = x.poster[h])
      /\ (\A h \in X : h \in Int)
      /\ b.ferdige = Cardinality(F)
      /\ \A r \in Ruter : Aapen(b, g, r) => LikRute(b.ruter, x.ruter, r)
  BY TidAssumption DEF Fulgt, Timer
<1>7. \A h : /\ h \in F <=> h \in X /\ h < g
             /\ h \in E <=> h \in X /\ h < e
             /\ h \in B <=> h \in P /\ h >= fra
  BY DEF Foldede
<1>8. B = X \ E /\ P \ B = E \ F /\ F \subseteq E
  <2> HIDE DEF B, E, F, P, X, fra, e
  <2>. QED
    BY <1>1, <1>2, <1>6, <1>7
<1>9. c.ferdige = Cardinality(E)
  <2>1. IsFiniteSet(E) /\ IsFiniteSet(F)
    BY HelTimer, FS_Subset DEF Foldede
  <2> HIDE DEF B, E, F, P, X
  <2>2. Cardinality(E \ F) = Cardinality(E) - Cardinality(E \cap F) /\ E \cap F = F
    BY <1>8, <2>1, FS_Difference
  <2>3. Cardinality(E) \in Nat /\ Cardinality(F) \in Nat
    BY <2>1, FS_CardinalityType
  <2>4. Cardinality(P \ B) = Cardinality(E) - Cardinality(F)
    BY <1>8, <2>2
  <2>5. c.ferdige = Cardinality(F) + Cardinality(P \ B)
    BY <1>5, <1>6
  <2>. QED
    BY <2>3, <2>4, <2>5
<1>10. ASSUME NEW f \in Felt
       PROVE  Rest(c, f) = SumI(f, Restrict(i, E))
  <2>1. Tellbar(i) /\ DOMAIN i = X /\ E \in SUBSET X /\ Tellbar(Restrict(i, B))
        /\ Tellbar(Restrict(i, E))
    <3>1. B \in SUBSET X /\ E \in SUBSET X
      BY <1>8 DEF Foldede
    <3>. QED
      BY <3>1, HelTimer
  <2>2. Restrict(Innhold(b), B) = Restrict(i, B)
    <3>1. Innhold(b) = Restrict(i, X \ F) /\ B \subseteq X \ F
      BY <1>6, BeholdtInnhold
    <3> HIDE DEF i, B, X, F
    <3>. QED
      BY <3>1 DEF Restrict
  <2>3. o.bidrag = Innhold(b) /\ o.sum[f] = Sumfelt(b, f)
    BY OppdaterSum
  <2>4. Sumfelt(b, f) = SumI(f, i)
    BY FulgtSum
  <2> HIDE DEF i, B, X, E, o, F
  <2>5. SumI(f, i) = SumI(f, Restrict(i, E)) + SumI(f, Restrict(i, B))
    BY <1>8, <2>1, SumISplitt
  <2>6. c.sum[f] = SumI(f, i) - SumI(f, Restrict(i, B))
    <3>1. l.ferdige_sum[f] = o.sum[f] - SumAv(Restrict(o.bidrag, B))[f]
      BY <1>3, PlussFelt
    <3>2. SumAv(Restrict(i, B))[f] = SumI(f, Restrict(i, B))
      BY <2>1, SumAvFelt
    <3>. QED
      BY <1>5, <2>2, <2>3, <2>4, <3>1, <3>2
  <2>7. SumI(f, c.bidrag) = 0
    BY <1>5, SumTom DEF SumI
  <2>8. SumI(f, i) \in Nat /\ SumI(f, Restrict(i, E)) \in Nat /\ SumI(f, Restrict(i, B)) \in Nat
    BY <2>1, SumIType
  <2>. QED
    BY <2>5, <2>6, <2>7, <2>8 DEF Rest
<1>11. DOMAIN c.poster = X \ E /\ \A h \in DOMAIN c.poster : c.poster[h].kwh = x.poster[h]
  <2>1. DOMAIN c.poster = B /\ \A h \in B : c.poster[h] = b.poster[h] /\ h \in P
    BY <1>5 DEF Restrict
  <2> HIDE DEF B, P, X, E
  <2>. QED
    BY <1>6, <1>8, <2>1
<1>12. ASSUME NEW r \in Ruter, Aapen(c, e, r)
       PROVE  LikRute(c.ruter, x.ruter, r)
  <2>1. TimeForRute(r) \in Int
    BY TimeForRuteType, TidAssumption DEF Timer
  <2>2. TimeForRute(r) >= fra /\ TimeForRute(r) >= g
    <3>1. TimeForRute(r) >= e
      BY <1>12 DEF Aapen
    <3> HIDE DEF e, fra
    <3>. QED
      BY <1>1, <1>2, <2>1, <3>1
  <2>3. LikRute(b.ruter, x.ruter, r)
    BY <1>5, <1>6, <1>12, <2>2 DEF Aapen
  <2> HIDE DEF fra
  <2>4. /\ r \in DOMAIN c.ruter <=> r \in DOMAIN b.ruter
        /\ r \in DOMAIN b.ruter => c.ruter[r] = b.ruter[r]
    BY <1>5, <2>2 DEF RuterFra, Restrict
  <2>. QED
    BY <2>3, <2>4 DEF LikRute
<1> HIDE DEF e
<1>13. Fulgt(c, x, e)
  BY <1>5, <1>9, <1>10, <1>11, <1>12 DEF Fulgt
<1>. QED
  BY <1>13 DEF c, l, e

\* Between two instants no further apart than the window the Store keeps there
\* are no more hours than the window has.
LEMMA VinduBak ==
  ASSUME NEW n \in Tikk, NEW t \in Tikk, n - t <= Lagringsvindu * TikkPerTime
  PROVE  Time(n) - Lagringsvindu <= Time(t)
<1> DEFINE d == TikkPerTime
           K == Lagringsvindu
           p == Time(t)
           q == Time(n)
<1>1. d \in Nat /\ d > 0 /\ n \in Nat /\ t \in Nat /\ K \in Nat
  BY TidAssumption, TikkHel DEF TikkPerTime
<1>2. p \in Int /\ q \in Int /\ q * d <= n /\ t < (p + 1) * d
  <2>1. p = t \div d /\ q = n \div d
    BY DEF Time
  <2> HIDE DEF p, q, d, K
  <2>. QED
    BY <1>1, <2>1
<1>3. n - t <= K * d
  OBVIOUS
<1> HIDE DEF p, q, d, K
<1>4. q * d < (p + 1 + K) * d
  <2>1. (p + 1 + K) * d = (p + 1) * d + K * d
    BY <1>1, <1>2
  <2>2. q * d \in Int /\ (p + 1) * d \in Int /\ K * d \in Int
    BY <1>1, <1>2
  <2>. QED
    BY <1>1, <1>2, <1>3, <2>1, <2>2
<1>5. q < p + 1 + K
  <2>1. SUFFICES ASSUME q >= p + 1 + K PROVE FALSE
    BY <1>1, <1>2
  <2>2. q * d >= (p + 1 + K) * d
    BY <1>1, <1>2, <2>1
  <2>3. q * d \in Int /\ (p + 1 + K) * d \in Int
    BY <1>1, <1>2
  <2>. QED
    BY <1>4, <2>2, <2>3
<1>6. q - K <= p
  BY <1>1, <1>2, <1>5
<1>. QED
  BY <1>6 DEF p, q, K

LEMMA TimeStiger ==
  ASSUME NEW t \in Tikk, NEW n \in Tikk, t <= n
  PROVE  Time(t) <= Time(n) /\ Time(t) \in Nat /\ Time(n) \in Nat
<1>1. Time(t) \in Nat /\ Time(n) \in Nat
  BY TimeType, TidAssumption DEF Timer
<1>2. TikkPerTime \in Nat \ {0} /\ t \in Nat /\ n \in Nat
  BY TidAssumption, TikkHel DEF TikkPerTime
<1>3. Time(t) <= Time(n)
  BY <1>2 DEF Time
<1>. QED
  BY <1>1, <1>3

\* The hours before g are over for good: no sample and no reading reaches them.
Grense(b, g, n) ==
  /\ g <= Time(n) - Lagringsvindu
  /\ b.sist # Ingen => g <= Time(b.sist.tid)

Folger(b, x, n) == \E g \in Int : Grense(b, g, n) /\ Fulgt(b, x, g)

\* The book, and the one the Store gives, follow their histories.
RestartInv == Folger(bok, hel, naa) /\ Folger(FraLagring(lager), lagret.hel, naa)

\* The meter is silent, and a reading late, for no longer than what the Store
\* keeps hours for.
Nok ==
  /\ MaksStillhet <= Lagringsvindu * TikkPerTime
  /\ Etterslep <= Lagringsvindu * TikkPerTime

\* What the arithmetic of the bounds needs.
LEMMA NokVindu ==
  ASSUME Nok, NEW n \in Tikk, NEW t \in Tikk, n - t <= MaksStillhet \/ n - t <= Etterslep
  PROVE  Time(n) - Lagringsvindu <= Time(t)
<1>1. /\ n \in Nat /\ t \in Nat /\ MaksStillhet \in Nat /\ Etterslep \in Nat
      /\ Lagringsvindu * TikkPerTime \in Nat
  BY TikkHel, StartAssumption, TidAssumption DEF TikkPerTime
<1>2. n - t <= Lagringsvindu * TikkPerTime
  BY <1>1 DEF Nok
<1>. QED
  BY <1>2, VinduBak

\* Time passes.
LEMMA FolgerSenere ==
  ASSUME NEW n \in Tikk, NEW m \in Tikk, n <= m, NEW b, NEW x, Folger(b, x, n)
  PROVE  Folger(b, x, m)
<1>1. Time(n) <= Time(m) /\ Time(n) \in Int /\ Time(m) \in Int /\ Lagringsvindu \in Int
  BY TimeStiger, TidAssumption
<1>2. ASSUME NEW g \in Int, Grense(b, g, n)
      PROVE  Grense(b, g, m)
  BY <1>1, <1>2 DEF Grense
<1>. QED
  BY <1>2 DEF Folger

\* A new Store, or one of an older schema: nothing booked, nothing folded.
LEMMA RestartInit == Init => RestartInv
<1> SUFFICES ASSUME Init PROVE RestartInv
  OBVIOUS
<1>1. PICK u : FraLagring(lager) = TomBok(u)
  BY StartAssumption, TomtLagerGirTomBok DEF Init
<1> DEFINE b == TomBok(u)
           x == TomHel
           g == Time(0) - Lagringsvindu
<1>2. g \in Int
  BY TimeType, NullErTikk, TidAssumption DEF Timer
<1>3. /\ DOMAIN b.poster = {} /\ b.ruter = <<>> /\ DOMAIN b.bidrag = {} /\ b.sum = NullSum
      /\ b.ferdige = 0 /\ b.sist = Ingen
  BY DEF TomBok
<1>4. DOMAIN x.poster = {} /\ x.ruter = <<>> /\ DOMAIN <<>> = {}
  BY DEF TomHel
<1>5. Foldede(x, g) = {}
  BY <1>4 DEF Foldede
<1>6. \A f \in Felt : Rest(b, f) = SumI(f, Restrict(HelInnhold(x), Foldede(x, g)))
  <2> HIDE DEF b, x
  <2>1. DOMAIN Restrict(HelInnhold(x), {}) = {}
    BY DEF Restrict
  <2>2. \A f : SumI(f, Restrict(HelInnhold(x), {})) = 0 /\ SumI(f, b.bidrag) = 0
    BY <1>3, <2>1, SumTom DEF SumI
  <2>3. \A f \in Felt : b.sum[f] = 0
    BY <1>3 DEF NullSum, Felt
  <2>. QED
    BY <1>5, <2>2, <2>3 DEF Rest
<1> HIDE DEF b, g
<1>7. Fulgt(b, x, g)
  BY <1>3, <1>4, <1>5, <1>6, FS_EmptySet DEF Fulgt, LikRute
<1>8. Folger(b, x, 0)
  BY <1>2, <1>3, <1>7 DEF Folger, Grense, g
<1>9. bok = b /\ FraLagring(lager) = b /\ hel = x /\ lagret.hel = x /\ naa = 0
  BY <1>1 DEF Init, b
<1>. QED
  BY <1>8, <1>9 DEF RestartInv

\* Action by action: Klokke,
LEMMA KlokkeFolger ==
  ASSUME BokIInv, RestartInv, Klokke
  PROVE  RestartInv'
<1>1. naa \in Tikk /\ naa' \in Tikk /\ naa <= naa'
  <2>1. naa \in Tikk
    BY LagretBok
  <2>. QED
    BY <2>1, TikkHel DEF Klokke
<1>2. bok' = bok /\ hel' = hel /\ lager' = lager /\ lagret' = lagret
  BY DEF Klokke
<1>. QED
  BY <1>1, <1>2, FolgerSenere DEF RestartInv

\* Prisprove,
LEMMA PrisproveFolger ==
  ASSUME NEW verdi, BokIInv, RestartInv, Prisprove(verdi)
  PROVE  RestartInv'
<1> DEFINE p == [polltid |-> naa, verdi |-> verdi]
<1>1. BokInv(bok) /\ naa \in Tikk
  BY LagretBok
<1>2. /\ bok' = RegistrerPrisprove(bok, p) /\ lagret' = lagret /\ lager' = lager /\ naa' = naa
      /\ hel' = IF Godtas(p.polltid) THEN [hel EXCEPT !.ruter = Registrer(@, p)] ELSE hel
  BY DEF Prisprove
<1>3. PICK g \in Int : Grense(bok, g, naa) /\ Fulgt(bok, hel, g)
  BY DEF RestartInv, Folger
<1>4. p.polltid \in Tikk /\ g <= Time(p.polltid)
  <2>1. Time(naa) \in Nat /\ Lagringsvindu \in Nat
    BY <1>1, TimeStiger, TidAssumption, TikkHel
  <2>. QED
    BY <1>1, <1>3, <2>1 DEF Grense
<1> HIDE DEF p
<1>5. Fulgt(bok', hel', g)
  BY <1>1, <1>2, <1>3, <1>4, FulgtPris
<1>6. bok'.sist = bok.sist
  BY <1>1, <1>2, <1>4, RegistrerPrisproveInv
<1>. QED
  BY <1>2, <1>3, <1>5, <1>6 DEF RestartInv, Folger, Grense

\* Avles: a late reading is still later than what has been folded away,
LEMMA AvlesFolger ==
  ASSUME Nok, BokIInv, EnergiInv, RestartInv, NEW a \in Avlesninger, Avles(a)
  PROVE  RestartInv'
<1> DEFINE s == Bokfor(bok, a)
<1>1. BokInv(bok) /\ HelBok(bok) /\ naa \in Tikk
  BY LagretBok DEF EnergiInv, Saldert
<1>2. a.tid \in Tikk /\ a.verdi \in Int
  BY VerdiAssumption DEF Avlesninger
<1>3. bok.sist # Ingen => bok.sist.verdi \in Int /\ bok.sist.tid \in Tikk
  BY LagretBok, VerdiAssumption DEF Avlesninger
<1>4. /\ bok' = s.bok /\ hel' = HeleAv(bok, hel, s)
      /\ lagret' = lagret /\ lager' = lager /\ naa' = naa
      /\ Delelig(a) /\ naa - a.tid <= Etterslep
  BY DEF Avles, HeleMaaneden, HeleAv
<1>5. bok.sist # Ingen /\ bok.sist.tid < a.tid /\ Maalt(bok, a) \in Nat
        => DeltHelt(bok.sist.tid, a.tid, Maalt(bok, a))
  BY <1>4, HeltDelt
<1>6. PICK g \in Int : Grense(bok, g, naa) /\ Fulgt(bok, hel, g)
  BY DEF RestartInv, Folger
<1>7. bok.sist # Ingen => g <= Time(bok.sist.tid)
  BY <1>6 DEF Grense
<1>8. Fulgt(s.bok, HeleAv(bok, hel, s), g)
  BY <1>1, <1>2, <1>3, <1>5, <1>6, <1>7, FulgtBokfor
<1>9. s.bok.sist \in {a, bok.sist}
  BY <1>1, <1>2, BokforInv
<1>10. g <= Time(a.tid)
  <2>1. Time(naa) - Lagringsvindu <= Time(a.tid)
    BY <1>1, <1>2, <1>4, NokVindu
  <2>2. Time(naa) \in Nat /\ Lagringsvindu \in Nat /\ Time(a.tid) \in Nat
    BY <1>1, <1>2, TimeType, TidAssumption DEF Timer
  <2>. QED
    BY <1>6, <2>1, <2>2 DEF Grense
<1> HIDE DEF s
<1>11. Grense(bok', g, naa)
  BY <1>4, <1>6, <1>7, <1>9, <1>10 DEF Grense
<1>. QED
  BY <1>4, <1>6, <1>8, <1>11 DEF RestartInv, Folger

\* LesSummer,
LEMMA OppdaterFolger ==
  ASSUME NEW b, BokInv(b), HelBok(b), NEW x, NEW n, Folger(b, x, n)
  PROVE  Folger(Oppdater(b), x, n)
<1>1. PICK g \in Int : Grense(b, g, n) /\ Fulgt(b, x, g)
  BY DEF Folger
<1>2. Fulgt(Oppdater(b), x, g)
  BY <1>1, FulgtOppdater
<1>3. Oppdater(b).sist = b.sist
  BY OppdaterFelt DEF BokInv
<1>. QED
  BY <1>1, <1>2, <1>3 DEF Folger, Grense

LEMMA LesSummerFolger ==
  ASSUME BokIInv, EnergiInv, RestartInv, LesSummer
  PROVE  RestartInv'
<1>1. BokInv(bok) /\ HelBok(bok)
  BY LagretBok DEF EnergiInv, Saldert
<1>2. /\ bok' = Oppdater(bok) /\ hel' = hel /\ lagret' = lagret /\ lager' = lager /\ naa' = naa
  BY DEF LesSummer
<1>. QED
  BY <1>1, <1>2, OppdaterFolger DEF RestartInv

\* Lagre: what is folded away lies before every later sample and reading,
LEMMA LagreFolger ==
  ASSUME Nok, BokIInv, EnergiInv, RestartInv, Lagre
  PROVE  RestartInv'
<1> DEFINE fra == Time(naa) - Lagringsvindu
           c == FraLagring(TilLagring(bok, naa))
<1>1. BokInv(bok) /\ HelBok(bok) /\ naa \in Tikk
  BY LagretBok DEF EnergiInv, Saldert
<1>2. /\ bok' = Oppdater(bok) /\ hel' = hel /\ lager' = TilLagring(bok, naa)
      /\ lagret'.hel = hel /\ naa' = naa
      /\ bok.sist # Ingen => naa - bok.sist.tid <= MaksStillhet
  BY DEF Lagre
<1>3. PICK g \in Int : Grense(bok, g, naa) /\ Fulgt(bok, hel, g)
  BY DEF RestartInv, Folger
<1>4. Fulgt(c, hel, StorstAv(g, fra))
  BY <1>1, <1>3, FulgtLagret
<1>5. fra \in Int /\ StorstAv(g, fra) = fra
  <2>1. Time(naa) \in Int /\ Lagringsvindu \in Int
    BY <1>1, TimeType, TidAssumption DEF Timer
  <2>2. g <= fra
    BY <1>3 DEF Grense
  <2>. QED
    BY <2>1, <2>2 DEF StorstAv
<1>6. c.sist = bok.sist
  <2>1. LagerOK(TilLagring(bok, naa)) /\ TilLagring(bok, naa).skjema = 3
        /\ TilLagring(bok, naa).sist = bok.sist
    BY <1>1, TilLagringInv
  <2>. QED
    BY <2>1, FraLagringInv
<1>7. bok.sist # Ingen => fra <= Time(bok.sist.tid)
  <2> SUFFICES ASSUME bok.sist # Ingen PROVE fra <= Time(bok.sist.tid)
    OBVIOUS
  <2>1. bok.sist.tid \in Tikk
    BY LagretBok DEF Avlesninger
  <2>. QED
    BY <1>1, <1>2, <2>1, NokVindu
<1> HIDE DEF c, fra
<1>8. Folger(c, hel, naa)
  <2>1. Grense(c, fra, naa)
    <3>1. fra <= Time(naa) - Lagringsvindu
      BY <1>5 DEF fra
    <3>. QED
      BY <1>6, <1>7, <3>1 DEF Grense
  <2>2. Fulgt(c, hel, fra)
    BY <1>4, <1>5
  <2>. QED
    BY <1>5, <2>1, <2>2 DEF Folger
<1>9. Folger(bok', hel, naa)
  BY <1>1, <1>2, OppdaterFolger DEF RestartInv
<1>. QED
  BY <1>2, <1>8, <1>9 DEF RestartInv, c

\* Omstart: the book follows the history as it was when the Store was written.
LEMMA OmstartFolger ==
  ASSUME RestartInv, Omstart
  PROVE  RestartInv'
BY DEF RestartInv, Omstart

LEMMA RestartNext ==
  ASSUME Nok
  PROVE  BokIInv /\ EnergiInv /\ RestartInv /\ [Next]_vars => RestartInv'
<1> SUFFICES ASSUME BokIInv, EnergiInv, RestartInv, [Next]_vars PROVE RestartInv'
  OBVIOUS
<1>1. CASE Klokke
  BY <1>1, KlokkeFolger
<1>2. ASSUME NEW verdi \in Priser, Prisprove(verdi)
      PROVE  RestartInv'
  BY <1>2, PrisproveFolger
<1>3. ASSUME NEW a \in Avlesninger, Avles(a)
      PROVE  RestartInv'
  BY <1>3, AvlesFolger
<1>4. CASE LesSummer
  BY <1>4, LesSummerFolger
<1>5. CASE Lagre
  BY <1>5, LagreFolger
<1>6. CASE Omstart
  BY <1>6, OmstartFolger
<1>7. CASE UNCHANGED vars
  BY <1>7 DEF vars, RestartInv
<1>. QED
  BY <1>1, <1>2, <1>3, <1>4, <1>5, <1>6, <1>7 DEF Next

\* C2.7, restart equality: whatever saves folded away and however often the
\* process was restarted, the sums of the month are those of everything that
\* was booked in it, each hour at the price of every sample that was accepted.
\* The Store keeps hours for a window; the meter must not be silent, and no
\* reading late, for longer than that.
THEOREM RestartenErLik ==
  ASSUME MaksStillhet <= Lagringsvindu * TikkPerTime, Etterslep <= Lagringsvindu * TikkPerTime
  PROVE  Spec => []Restartlikhet
<1>1. Nok
  BY DEF Nok
<1>2. BokIInv /\ EnergiInv /\ RestartInv => Restartlikhet
  <2> SUFFICES ASSUME BokIInv, EnergiInv, RestartInv PROVE Restartlikhet
    OBVIOUS
  <2>1. BokInv(bok) /\ HelBok(bok)
    BY LagretBok DEF EnergiInv, Saldert
  <2>2. PICK g \in Int : Fulgt(bok, hel, g)
    BY DEF RestartInv, Folger
  <2>3. /\ Maanedssum(bok).sum = SumAv(HelInnhold(hel))
        /\ Maanedssum(bok).antall = Cardinality(DOMAIN hel.poster)
    BY <2>1, <2>2, FulgtLikhet
  <2>. QED
    BY <2>3 DEF Restartlikhet, HelInnhold
<1>3. Init => RestartInv
  BY RestartInit
<1>4. BokIInv /\ EnergiInv /\ RestartInv /\ [Next]_vars => RestartInv'
  BY <1>1, RestartNext
<1>. QED
  BY <1>2, <1>3, <1>4, BokInvariant, EnergiInvariant, PTL DEF Spec

=============================================================================

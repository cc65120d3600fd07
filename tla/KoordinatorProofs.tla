------------------------- MODULE KoordinatorProofs --------------------------
(***************************************************************************)
(* Proofs about the coordinator: the month's kWh it shows are the opening  *)
(* balance and everything that was booked in the month, through month      *)
(* boundaries, late readings, restarts and failed writes; and the peaks of *)
(* the month are those of its own closed hours.                            *)
(***************************************************************************)
EXTENDS Koordinator, AvregningProofs

-----------------------------------------------------------------------------
(***************************************************************************)
(* The kWh of one month of a book, active, archived or unknown.            *)
(***************************************************************************)
Manedsfelt(b, m, x) ==
  IF b.aktiv = m THEN Sumfelt(b, x)
  ELSE IF m \in DOMAIN b.arkiv THEN b.arkiv[m].sum[x]
  ELSE 0

\* A book whose energy can be counted, and that has none before its first month.
TellbarBok(b) ==
  /\ BokInv(b) /\ HelBok(b)
  /\ b.sist # Ingen => b.sist.verdi \in Int
  /\ b.aktiv = Ingen => \A x \in Energifelt : Sumfelt(b, x) = 0

\* What a split, or a ledger of hours, holds of month m.
IManed(f, m) == Gruppe(DOMAIN f, ManedAv, m)

Manedsdel(x, f, m) == Fordelt(x, f, IManed(f, m))

\* A split over hours of the calendar.
Timesplitt(f) == DOMAIN f \subseteq Timer /\ \A h \in DOMAIN f : f[h] \in Nat

\* Every month has grown by its part of the split, and no other way.
Vokst(b, c, f) ==
  \A m \in Maneder, x \in Energifelt :
    Manedsfelt(c, m, x) = Manedsfelt(b, m, x) + Manedsdel(x, f, m)

LEMMA EnergifeltFelt == Energifelt \subseteq Felt /\ "dag" \in Energifelt /\ "natt" \in Energifelt
BY DEF Energifelt, Felt

\* The hours of a month in a split are finitely many.
LEMMA ManedsdelType ==
  ASSUME NEW f, Timesplitt(f), NEW m, NEW x
  PROVE  IsFiniteSet(IManed(f, m)) /\ Manedsdel(x, f, m) \in Nat
<1>1. IManed(f, m) \subseteq Timer /\ \A h \in IManed(f, m) : f[h] \in Nat
  BY DEF IManed, Gruppe, Timesplitt
<1>2. IsFiniteSet(IManed(f, m))
  BY <1>1, TimerEndelig, FS_Subset
<1>. QED
  BY <1>1, <1>2, FordeltType DEF Manedsdel

\* The energy of a month is a natural number.
LEMMA ManedsfeltType ==
  ASSUME NEW b, BokInv(b), HelBok(b), NEW m, NEW x \in Energifelt
  PROVE  Manedsfelt(b, m, x) \in Nat
<1>1. x \in Felt
  BY EnergifeltFelt
<1>2. Sumfelt(b, x) \in Nat
  BY <1>1, MaanedssumFelt
<1>. QED
  BY <1>1, <1>2 DEF Manedsfelt, HelBok

\* A month that gets no hour gets no energy.
LEMMA ManedsdelTom ==
  ASSUME NEW f, NEW m, NEW x, IManed(f, m) = {}
  PROVE  Manedsdel(x, f, m) = 0
BY SumTom DEF Manedsdel, Fordelt

\* An hour's energy in a split is a natural number, whatever the delta.
LEMMA SplittType ==
  ASSUME NEW fra \in Tikk, NEW til \in Tikk, fra < til, NEW delta \in Nat
  PROVE  Timesplitt(FordelDelta(fra, til, delta))
<1> DEFINE f == FordelDelta(fra, til, delta)
<1>1. fra \in Nat /\ til \in Nat
  BY TikkHel
<1>2. DOMAIN f \subseteq Timer
  BY VinduType
<1>3. ASSUME NEW h \in Time(fra) .. Time(til - 1)
      PROVE  (delta * Overlapp(h, fra, til)) \div (til - fra) \in Nat
  <2>1. Overlapp(h, fra, til) \in Nat
    BY <1>1, OverlappType
  <2>2. delta * Overlapp(h, fra, til) \in Nat /\ til - fra \in Nat \ {0}
    BY <1>1, <2>1
  <2> DEFINE n == delta * Overlapp(h, fra, til)
             d == til - fra
  <2> HIDE DEF n, d
  <2>3. n \in Nat /\ d \in Nat \ {0} => n \div d \in Nat
    OBVIOUS
  <2>. QED
    BY <2>2, <2>3 DEF n, d
<1>. QED
  BY <1>2, <1>3 DEF FordelDelta, Timesplitt

\* The month a book is opened in holds what the book holds already: nothing.
LEMMA ApnetManed ==
  ASSUME NEW b, TellbarBok(b), b.sist # Ingen, NEW m, NEW x \in Energifelt
  PROVE  Manedsfelt(Apnet(b), m, x) = Manedsfelt(b, m, x)
<1> DEFINE b0 == Apnet(b)
<1>1. /\ b0.arkiv = b.arkiv /\ b0.aktiv # Ingen
      /\ b.aktiv # Ingen => b0 = b
      /\ b.aktiv = Ingen => DOMAIN b.arkiv = {}
      /\ Sumfelt(b0, x) = Sumfelt(b, x)
  BY ApnetInv DEF TellbarBok
<1>2. b.aktiv = Ingen => Sumfelt(b, x) = 0
  BY DEF TellbarBok
<1> HIDE DEF b0
<1>3. CASE b.aktiv # Ingen
  BY <1>1, <1>3 DEF b0
<1>4. CASE b.aktiv = Ingen
  BY <1>1, <1>2, <1>4 DEF Manedsfelt, b0
<1>. QED
  BY <1>3, <1>4

\* The hours that land, month by month.
LEMMA LandetManed ==
  ASSUME NEW b, b.aktiv \in Nat, NEW f, Timesplitt(f), NEW m
  PROVE  LET l == Restrict(f, Landet(b, f))
         IN  /\ Timesplitt(l)
             /\ IManed(l, m) = IF m < b.aktiv THEN {} ELSE IManed(f, m)
             /\ \A x : Manedsdel(x, l, m) = IF m < b.aktiv THEN 0 ELSE Manedsdel(x, f, m)
<1> DEFINE l == Restrict(f, Landet(b, f))
<1>1. DOMAIN l = Landet(b, f) /\ \A h \in Landet(b, f) : l[h] = f[h]
  BY DEF Restrict
<1>2. Landet(b, f) \subseteq DOMAIN f
  BY DEF Landet
<1> HIDE DEF l
<1>3. Timesplitt(l)
  BY <1>1, <1>2 DEF Timesplitt
<1>4. IManed(l, m) = IF m < b.aktiv THEN {} ELSE IManed(f, m)
  BY <1>1 DEF IManed, Gruppe, Landet
<1>5. ASSUME NEW x
      PROVE  Manedsdel(x, l, m) = IF m < b.aktiv THEN 0 ELSE Manedsdel(x, f, m)
  <2>1. CASE m < b.aktiv
    BY <1>4, <2>1, ManedsdelTom
  <2>2. CASE ~ (m < b.aktiv)
    <3>1. IManed(l, m) = IManed(f, m) /\ \A h \in IManed(f, m) : l[h] = f[h]
      BY <1>1, <1>4, <2>2 DEF IManed, Gruppe
    <3>2. [h \in IManed(l, m) |-> IF TellesI(x, h) THEN l[h] ELSE 0]
            = [h \in IManed(f, m) |-> IF TellesI(x, h) THEN f[h] ELSE 0]
      BY <3>1
    <3>. QED
      BY <2>2, <3>1, <3>2 DEF Manedsdel, Fordelt
  <2>. QED
    BY <2>1, <2>2
<1>. QED
  BY <1>3, <1>4, <1>5 DEF l

\* _fordel, month by month: each month the book keeps, closes on the way or ends
\* in grows by the hours of it that land.
LEMMA FordelManed ==
  ASSUME NEW b, BokInv(b), HelBok(b), b.aktiv \in Maneder, NEW ny \in Maneder,
         NEW f, Timesplitt(f), \A h \in DOMAIN f : ManedAv[h] <= ny,
         NEW est, NEW c, EtterFordeling(b, c, b, f, est, ny)
  PROVE  HelBok(c) /\ c.aktiv \in Maneder /\ Vokst(b, c, Restrict(f, Landet(b, f)))
<1> DEFINE land == Landet(b, f)
           l == Restrict(f, land)
           lukkes == LukkesVed(b.aktiv, {ManedAv[h] : h \in land}, ny)
           D(m) == ForManed(b, m, f, est)
<1>1. ny \in Nat /\ b.aktiv \in Nat /\ b.aktiv # Ingen
  BY ManederNat
<1>2. DOMAIN f \subseteq Timer /\ (\A h \in DOMAIN f : f[h] \in Nat /\ ManedAv[h] <= ny)
      /\ \A h \in DOMAIN f : ManedAv[h] \in Nat /\ ManedAv[h] \in Maneder
  BY ManedType DEF Timesplitt
<1>3. \A m \in Maneder, x \in Energifelt :
        Manedsdel(x, l, m) = IF m < b.aktiv THEN 0 ELSE Manedsdel(x, f, m)
  BY <1>1, LandetManed
<1>4. \A m \in Maneder : m \in Nat
  BY ManederNat
<1>5. \A m \in DOMAIN b.arkiv : m \in Maneder /\ m < b.aktiv
  BY DEF BokInv, StrukturOK
<1>6. \A x \in Energifelt : x \in Felt /\ \A m \in Maneder :
        Manedsfelt(b, m, x) \in Nat /\ Manedsdel(x, f, m) \in Nat
  BY EnergifeltFelt, ManedsfeltType, ManedsdelType
<1>7. CASE ny < b.aktiv
  <2>1. land = {}
    BY <1>1, <1>2, <1>7 DEF Landet
  <2>2. lukkes = {}
    BY <1>1, <1>7, <2>1 DEF LukkesVed
  <2>3. /\ c.poster = b.poster /\ c.bidrag = b.bidrag /\ c.sum = b.sum /\ c.aktiv = b.aktiv
        /\ DOMAIN c.arkiv = DOMAIN b.arkiv
        /\ \A m \in DOMAIN b.arkiv : c.arkiv[m] = b.arkiv[m]
    <3> HIDE DEF land
    <3>. QED
      BY <1>7, <2>2 DEF EtterFordeling, land
  <2> HIDE DEF land, l, lukkes, D
  <2>4. HelBok(c)
    <3>1. Fort(b, c, f, Landet(b, f))
      BY <1>1, <1>2, <1>7, FordelBak
    <3>. QED
      BY <3>1 DEF Fort
  <2>5. \A x \in Energifelt : Sumfelt(c, x) = Sumfelt(b, x)
    BY <2>3, SammeSum
  <2>6. ASSUME NEW m \in Maneder, NEW x \in Energifelt
        PROVE  Manedsfelt(c, m, x) = Manedsfelt(b, m, x) + Manedsdel(x, l, m)
    <3>1. Manedsfelt(c, m, x) = Manedsfelt(b, m, x)
      BY <2>3, <2>5 DEF Manedsfelt
    <3>2. Manedsdel(x, l, m) = 0
      <4>1. CASE m < b.aktiv
        BY <1>3, <4>1
      <4>2. CASE ~ (m < b.aktiv)
        <5>1. IManed(f, m) = {}
          BY <1>1, <1>2, <1>4, <1>7, <4>2 DEF IManed, Gruppe
        <5>. QED
          BY <1>3, <4>2, <5>1, ManedsdelTom
      <4>. QED
        BY <4>1, <4>2
    <3>. QED
      BY <1>6, <3>1, <3>2
  <2>. QED
    BY <2>3, <2>4, <2>6 DEF Vokst, l, land
<1>8. CASE ~ (ny < b.aktiv)
  <2>1. b.aktiv <= ny
    BY <1>1, <1>8
  <2>2. /\ \A m \in lukkes : m \in Maneder /\ m \in Nat /\ b.aktiv <= m /\ m < ny
        /\ b.aktiv \in lukkes \cup {ny}
        /\ \A h \in land : ManedAv[h] \in lukkes \cup {ny}
    <3>1. \A h \in land : h \in DOMAIN f /\ ~ (ManedAv[h] < b.aktiv)
      BY DEF Landet
    <3>2. \A h \in land : ManedAv[h] \in Maneder /\ ManedAv[h] \in Nat
                          /\ b.aktiv <= ManedAv[h] /\ ManedAv[h] <= ny
      BY <1>1, <1>2, <3>1
    <3> HIDE DEF land
    <3>. QED
      BY <1>1, <2>1, <3>2 DEF LukkesVed
  <2>3. /\ c.poster = D(ny).poster /\ c.bidrag = D(ny).bidrag /\ c.sum = D(ny).sum
        /\ c.aktiv = D(ny).aktiv
        /\ DOMAIN c.arkiv = DOMAIN b.arkiv \cup lukkes
        /\ \A m \in lukkes : c.arkiv[m] = Maanedssum(D(m))
        /\ \A m \in DOMAIN b.arkiv \ lukkes : c.arkiv[m] = b.arkiv[m]
    <3> HIDE DEF land, D
    <3>. QED
      BY <1>8 DEF EtterFordeling, land, D
  <2> HIDE DEF land, l, lukkes
  <2>4. HelBok(c)
    <3>1. Apnes(b, b)
      BY DEF Apnes
    <3>2. Fort(b, c, f, Landet(b, f))
      BY <1>2, <2>1, <3>1, FordelLandet
    <3>. QED
      BY <3>2 DEF Fort
  <2>5. ASSUME NEW m \in lukkes \cup {ny}
        PROVE  /\ BokInv(D(m)) /\ HelBok(D(m)) /\ D(m).aktiv = m
               /\ \A x \in Energifelt : Sumfelt(D(m), x) = Manedsfelt(b, m, x) + Manedsdel(x, f, m)
    <3>1. m \in Maneder /\ b.aktiv <= m
      BY <2>1, <2>2
    <3>2. BokInv(D(m)) /\ D(m).aktiv = m
      BY <1>1, <1>2, <3>1, ForManedInv
    <3>3. /\ HelBok(D(m))
          /\ \A x \in Energifelt :
               Sumfelt(D(m), x) = (IF m = b.aktiv THEN Sumfelt(b, x) ELSE 0)
                                  + Fordelt(x, f, {h \in DOMAIN f : ManedAv[h] = m})
      BY <1>2, <3>1, ForManedEnergi
    <3>4. m \notin DOMAIN b.arkiv
      BY <1>1, <1>4, <1>5, <3>1
    <3>5. \A x : Manedsdel(x, f, m) = Fordelt(x, f, {h \in DOMAIN f : ManedAv[h] = m})
      BY DEF Manedsdel, IManed, Gruppe
    <3>6. \A x : Manedsfelt(b, m, x) = IF m = b.aktiv THEN Sumfelt(b, x) ELSE 0
      BY <3>4 DEF Manedsfelt
    <3> HIDE DEF D
    <3>. QED
      BY <3>2, <3>3, <3>5, <3>6
  <2> HIDE DEF D
  <2>6. c.aktiv = ny /\ \A x \in Energifelt : Sumfelt(c, x) = Sumfelt(D(ny), x)
    BY <2>3, <2>5, SammeSum
  <2>7. \A m \in lukkes, x \in Felt : c.arkiv[m].sum[x] = Sumfelt(D(m), x)
    BY <2>3, <2>5, MaanedssumFelt
  <2>8. ASSUME NEW m \in Maneder, NEW x \in Energifelt
        PROVE  Manedsfelt(c, m, x) = Manedsfelt(b, m, x) + Manedsdel(x, l, m)
    <3>1. CASE m = ny
      BY <1>1, <1>3, <2>1, <2>5, <2>6, <3>1 DEF Manedsfelt
    <3>2. CASE m \in lukkes
      <4>1. m # c.aktiv /\ m \in DOMAIN c.arkiv /\ ~ (m < b.aktiv)
        BY <1>1, <2>2, <2>3, <2>6, <3>2
      <4>. QED
        BY <1>3, <1>6, <2>5, <2>7, <3>2, <4>1 DEF Manedsfelt
    <3>3. CASE m \notin lukkes \cup {ny}
      <4>1. m # c.aktiv /\ m # b.aktiv
        BY <2>2, <2>6, <3>3
      <4>2. Manedsfelt(c, m, x) = Manedsfelt(b, m, x)
        BY <2>3, <3>3, <4>1 DEF Manedsfelt
      <4>3. Manedsdel(x, l, m) = 0
        <5>1. IManed(l, m) = {}
          <6>1. DOMAIN l = land
            BY DEF l, Restrict
          <6>. QED
            BY <2>2, <3>3, <6>1 DEF IManed, Gruppe
        <5>. QED
          BY <5>1, ManedsdelTom
      <4>. QED
        BY <1>6, <4>2, <4>3
    <3>. QED
      BY <3>1, <3>2, <3>3
  <2>. QED
    BY <2>4, <2>6, <2>8 DEF Vokst, l, land
<1>. QED
  BY <1>7, <1>8

\* Natural numbers that add up to nothing are all zero.
LEMMA SumIngenting ==
  ASSUME NEW S, IsFiniteSet(S), NEW f, \A x \in S : f[x] \in Nat, SumFunctionOnSet(f, S) = 0
  PROVE  \A x \in S : f[x] = 0
<1> SUFFICES ASSUME NEW e \in S PROVE f[e] = 0
  OBVIOUS
<1>1. \A x \in S : f[x] \in Int
  OBVIOUS
<1>2. SumFunctionOnSet(f, S) = f[e] + SumFunctionOnSet(f, S \ {e})
  BY <1>1, SumUten
<1>3. SumFunctionOnSet(f, S \ {e}) \in Nat
  <2>1. IsFiniteSet(S \ {e})
    BY FS_Subset
  <2>. QED
    BY <2>1, SumNat
<1>. QED
  BY <1>2, <1>3

\* What the coordinator may rely on in an answer s of the book b to a reading
\* that ended at the instant t.
GodtSvar(b, s, t) ==
  /\ TellbarBok(s.bok)
  /\ Timesplitt(s.fordeling)
  /\ \A h \in DOMAIN s.fordeling : ManedAv[h] <= ManedAv[Time(t)]
  /\ s.bokfort \in Nat
  /\ s.bokfort = 0 => \A h \in DOMAIN s.fordeling : s.fordeling[h] = 0
  /\ Vokst(b, s.bok, s.fordeling)

\* An answer that books nothing.
LEMMA SvarUtenEnergi ==
  ASSUME NEW b, TellbarBok(b), NEW t, NEW s, s.bokfort = 0, s.fordeling = <<>>,
         BokInv(s.bok), s.bok.sist # Ingen => s.bok.sist.verdi \in Int,
         s.bok.poster = b.poster, s.bok.bidrag = b.bidrag, s.bok.sum = b.sum,
         s.bok.avvist \in Nat, s.bok.arkiv = b.arkiv, s.bok.aktiv = b.aktiv
  PROVE  GodtSvar(b, s, t)
<1>1. DOMAIN s.fordeling = {}
  OBVIOUS
<1>2. /\ \A x \in Energifelt : Sumfelt(s.bok, x) = Sumfelt(b, x)
      /\ \A x \in Felt : Rest(s.bok, x) = Rest(b, x)
  BY SammeSum
<1>3. HelBok(s.bok)
  BY <1>2 DEF HelBok, TellbarBok
<1>4. ASSUME NEW m \in Maneder, NEW x \in Energifelt
      PROVE  Manedsfelt(s.bok, m, x) = Manedsfelt(b, m, x) + Manedsdel(x, s.fordeling, m)
  <2>1. Manedsfelt(s.bok, m, x) = Manedsfelt(b, m, x)
    BY <1>2 DEF Manedsfelt
  <2>2. IManed(s.fordeling, m) = {}
    BY <1>1 DEF IManed, Gruppe
  <2>3. Manedsfelt(b, m, x) \in Nat
    BY ManedsfeltType DEF TellbarBok
  <2>. QED
    BY <2>1, <2>2, <2>3, ManedsdelTom
<1>5. TellbarBok(s.bok)
  BY <1>2, <1>3 DEF TellbarBok
<1>. QED
  BY <1>1, <1>4, <1>5 DEF GodtSvar, Vokst, Timesplitt

\* The answer of _fordel.
LEMMA FordelSvar ==
  ASSUME NEW b, TellbarBok(b), b.sist # Ingen,
         NEW a, a.tid \in Tikk, a.verdi \in Int, b.sist.tid < a.tid, NEW delta \in Nat
  PROVE  GodtSvar(b, Fordel(b, a, delta), a.tid)
<1> DEFINE b0 == Apnet(b)
           f == FordelDelta(b.sist.tid, a.tid, delta)
           est == a.kilde \in Estimerte
           ny == ManedAv[Time(a.tid - 1)]
           s == Fordel(b, a, delta)
           c == s.bok
           l == Restrict(f, Landet(b0, f))
<1>1. b.sist.tid \in Tikk /\ BokInv(b) /\ HelBok(b)
  BY DEF BokInv, StrukturOK, TellbarBok
<1>2. /\ ny \in Maneder /\ \A h \in DOMAIN f : ManedAv[h] <= ny
      /\ Timesplitt(f)
  BY <1>1, VinduManed, SplittType
<1>3. EtterFordeling(b, c, b0, f, est, ny)
  BY <1>1, FordelForm
<1>4. /\ BokInv(b0) /\ HelBok(b0) /\ b0.aktiv \in Maneder /\ b0.aktiv \in Nat /\ b0.arkiv = b.arkiv
  BY <1>1, ApnetInv
<1>5. BokInv(c) /\ c.sist = a
  BY <1>1, FordelInv
<1>6. s.fordeling = l /\ s.bokfort = SumFunctionOnSet(l, DOMAIN l)
  <2> DEFINE bak == {h \in DOMAIN f : ManedAv[h] < b0.aktiv}
             l2 == Restrict(f, DOMAIN f \ bak)
  <2>1. s.fordeling = l2 /\ s.bokfort = MapThenSumSet(LAMBDA h : l2[h], DOMAIN l2)
    BY DEF Fordel, Svar, Apnet
  <2>2. DOMAIN f \ bak = Landet(b0, f)
    BY DEF Landet
  <2>3. l2 = l
    BY <2>2
  <2> HIDE DEF l2, l, s
  <2>. QED
    BY <2>1, <2>3, MapTilSum
<1>7. ManedAv[Time(a.tid - 1)] <= ManedAv[Time(a.tid)] /\ ManedAv[Time(a.tid)] \in Nat
  <2>1. a.tid - 1 \in Tikk
    BY <1>1, VinduType
  <2>2. Time(a.tid - 1) \in Timer /\ Time(a.tid) \in Timer
    BY <2>1, TimeType
  <2>3. Time(a.tid - 1) <= Time(a.tid)
    <3>1. a.tid \in Nat /\ a.tid - 1 \in Nat
      BY <2>1, TikkHel
    <3>2. TikkPerTime \in Nat \ {0}
      BY TidAssumption DEF TikkPerTime
    <3>. QED
      BY <3>1, <3>2 DEF Time
  <2>. QED
    BY <2>2, <2>3, ManedStiger, ManedType
<1> HIDE DEF b0, f, est, ny, s
<1>8. EtterFordeling(b0, c, b0, f, est, ny)
  BY <1>3, <1>4 DEF EtterFordeling
<1>9. HelBok(c) /\ c.aktiv \in Maneder /\ Vokst(b0, c, l)
  BY <1>2, <1>4, <1>8, FordelManed
<1>10. Timesplitt(l)
  BY <1>2, <1>4, LandetManed
<1>11. Vokst(b, c, l)
  <2>1. \A m \in Maneder, x \in Energifelt : Manedsfelt(b0, m, x) = Manedsfelt(b, m, x)
    BY ApnetManed DEF b0
  <2>. QED
    BY <1>9, <2>1 DEF Vokst
<1>12. TellbarBok(c)
  BY <1>5, <1>9, ManederNat DEF TellbarBok
<1>13. s.bokfort \in Nat /\ (s.bokfort = 0 => \A h \in DOMAIN l : l[h] = 0)
  <2>1. IsFiniteSet(DOMAIN l) /\ \A h \in DOMAIN l : l[h] \in Nat
    BY <1>10, TimerEndelig, FS_Subset DEF Timesplitt
  <2> HIDE DEF l
  <2>. QED
    BY <1>6, <2>1, SumNat, SumIngenting
<1>14. \A h \in DOMAIN l : ManedAv[h] <= ManedAv[Time(a.tid)]
  <2>1. DOMAIN l \subseteq DOMAIN f
    BY DEF l, Restrict, Landet
  <2>2. \A h \in DOMAIN f : ManedAv[h] \in Nat /\ ManedAv[h] <= ny
    BY <1>2, ManedType DEF Timesplitt
  <2>3. ny \in Nat /\ ny <= ManedAv[Time(a.tid)]
    BY <1>2, <1>7, ManederNat DEF ny
  <2> HIDE DEF l
  <2>. QED
    BY <1>7, <2>1, <2>2, <2>3
<1> HIDE DEF l
<1>. QED
  BY <1>6, <1>10, <1>11, <1>12, <1>13, <1>14 DEF GodtSvar, s

\* bokfor: the answer to any reading of the model.
LEMMA BokforSvar ==
  ASSUME NEW b, TellbarBok(b), NEW a, a.tid \in Tikk, a.verdi \in Int
  PROVE  GodtSvar(b, Bokfor(b, a), a.tid)
<1> DEFINE s == Bokfor(b, a)
           flyttet == [b EXCEPT !.sist = a]
           sprang(d) == [flyttet EXCEPT !.avvist = @ + d]
<1>1. BokInv(s.bok) /\ s.bok.sist \in {a, b.sist}
  BY BokforInv DEF TellbarBok
<1>2. s.bok.sist # Ingen => s.bok.sist.verdi \in Int
  BY <1>1 DEF TellbarBok
<1>3. b.avvist \in Nat /\ DOMAIN b = DOMAIN TomBok(FALSE)
  BY DEF TellbarBok, HelBok, BokInv, StrukturOK
<1>4. /\ flyttet.poster = b.poster /\ flyttet.bidrag = b.bidrag /\ flyttet.sum = b.sum
      /\ flyttet.avvist = b.avvist /\ flyttet.arkiv = b.arkiv /\ flyttet.aktiv = b.aktiv
  BY <1>3 DEF TomBok
<1>5. ASSUME NEW d \in Nat
      PROVE  LET c == sprang(d)
             IN  /\ c.poster = b.poster /\ c.bidrag = b.bidrag /\ c.sum = b.sum
                 /\ c.avvist \in Nat /\ c.arkiv = b.arkiv /\ c.aktiv = b.aktiv
  BY <1>3 DEF TomBok
<1>6. CASE s.bok = b /\ s.bokfort = 0 /\ s.fordeling = <<>>
  <2> HIDE DEF s
  <2>1. GodtSvar(b, s, a.tid)
    BY <1>1, <1>2, <1>3, <1>6, SvarUtenEnergi
  <2>. QED
    BY <2>1 DEF s
<1>7. CASE s.bok = flyttet /\ s.bokfort = 0 /\ s.fordeling = <<>>
  <2> HIDE DEF s, flyttet
  <2>1. GodtSvar(b, s, a.tid)
    BY <1>1, <1>2, <1>3, <1>4, <1>7, SvarUtenEnergi
  <2>. QED
    BY <2>1 DEF s
<1>8. ASSUME NEW d \in Nat, s.bok = sprang(d), s.bokfort = 0, s.fordeling = <<>>
      PROVE  GodtSvar(b, Bokfor(b, a), a.tid)
  <2> HIDE DEF s, flyttet, sprang
  <2>1. GodtSvar(b, s, a.tid)
    BY <1>1, <1>2, <1>5, <1>8, SvarUtenEnergi
  <2>. QED
    BY <2>1 DEF s
<1>9. CASE b.sist = Ingen \/ b.sist.kilde # a.kilde \/ b.sist = a \/ a.tid < b.sist.tid
           \/ a.tid = b.sist.tid
  <2>1. s.bokfort = 0 /\ s.fordeling = <<>> /\ s.bok \in {b, flyttet}
    BY <1>9 DEF Bokfor, UtenEnergi, Svar
  <2> HIDE DEF s, flyttet
  <2>. QED
    BY <2>1, <1>6, <1>7
<1>10. CASE ~ (b.sist = Ingen \/ b.sist.kilde # a.kilde \/ b.sist = a \/ a.tid < b.sist.tid
               \/ a.tid = b.sist.tid)
  <2>1. b.sist # Ingen /\ b.sist.verdi \in Int /\ b.sist.tid \in Tikk
    BY <1>10 DEF TellbarBok, BokInv, StrukturOK
  <2>2. b.sist.tid < a.tid
    <3>1. a.tid \in Nat /\ b.sist.tid \in Nat
      BY <2>1, TikkHel
    <3>. QED
      BY <1>10, <3>1
  <2>3. CASE a.kilde \in Estimerte /\ a.tid - b.sist.tid > MaksEstimertVindu
    <3>1. s.bokfort = 0 /\ s.fordeling = <<>> /\ s.bok = flyttet
      BY <1>10, <2>3 DEF Bokfor, BokforEstimert, UtenEnergi, Svar
    <3>. QED
      BY <3>1, <1>7
  <2>4. CASE ~ (a.kilde \in Estimerte /\ a.tid - b.sist.tid > MaksEstimertVindu)
    <3>1. s = BokforDelta(b, a, Maalt(b, a))
      BY <1>10, <2>4 DEF Bokfor, BokforEstimert, BokforTeller, Maalt
    <3> DEFINE d == Maalt(b, a)
    <3>2. d \in Int
      BY <2>1 DEF Maalt
    <3> HIDE DEF d, s
    <3>3. CASE d < 0
      <4>1. s.bokfort = 0 /\ s.fordeling = <<>> /\ s.bok = flyttet
        <5>1. ~ (d > MaksDelta)
          BY <3>2, <3>3, GrenseAssumption
        <5>. QED
          BY <3>1, <3>3, <5>1 DEF BokforDelta, UtenEnergi, Svar, d
      <4>. QED
        BY <4>1, <1>7
    <3>4. CASE ~ (d < 0) /\ d > MaksDelta
      <4>1. s.bokfort = 0 /\ s.fordeling = <<>> /\ s.bok = sprang(d)
        BY <3>1, <3>4 DEF BokforDelta, Svar, d
      <4>2. d \in Nat
        BY <3>2, <3>4
      <4> HIDE DEF sprang, flyttet
      <4>. QED
        BY <4>1, <4>2, <1>8
    <3>5. CASE ~ (d < 0) /\ ~ (d > MaksDelta)
      <4>1. s = Fordel(b, a, d)
        BY <3>1, <3>5 DEF BokforDelta, d
      <4>2. d \in Nat
        BY <3>2, <3>5
      <4>3. GodtSvar(b, Fordel(b, a, d), a.tid)
        BY <2>1, <2>2, <4>2, FordelSvar
      <4>. QED
        BY <4>1, <4>3 DEF s
    <3>. QED
      BY <3>3, <3>4, <3>5
  <2>. QED
    BY <2>3, <2>4
<1>. QED
  BY <1>9, <1>10

-----------------------------------------------------------------------------
(***************************************************************************)
(* The calls that only read the book, and the ledger of the history.       *)
(***************************************************************************)

\* c is the book b with other caches: the same energy in every month.
SammeManeder(b, c) ==
  /\ TellbarBok(c)
  /\ \A m \in Maneder, x \in Energifelt : Manedsfelt(c, m, x) = Manedsfelt(b, m, x)

\* Enough for it.
LEMMA SammeManederAv ==
  ASSUME NEW b, TellbarBok(b), NEW c, BokInv(c), HelBok(c),
         c.sist # Ingen => c.sist.verdi \in Int,
         c.aktiv = b.aktiv, c.arkiv = b.arkiv,
         \A x \in Energifelt : Sumfelt(c, x) = Sumfelt(b, x)
  PROVE  SammeManeder(b, c)
BY DEF SammeManeder, TellbarBok, Manedsfelt

LEMMA SammeManederKjede ==
  ASSUME NEW b, NEW c, NEW d, SammeManeder(b, c), SammeManeder(c, d)
  PROVE  SammeManeder(b, d)
BY DEF SammeManeder

LEMMA OppdaterManeder ==
  ASSUME NEW b, TellbarBok(b)
  PROVE  SammeManeder(b, Oppdater(b))
<1> DEFINE o == Oppdater(b)
<1>1. BokInv(o) /\ o.sist = b.sist
  BY OppdaterInv, OppdaterFelt DEF TellbarBok, BokInv
<1>2. HelBok(o) /\ o.aktiv = b.aktiv /\ o.arkiv = b.arkiv /\ \A x \in Felt : Sumfelt(o, x) = Sumfelt(b, x)
  BY OppdaterEnergi DEF TellbarBok
<1> HIDE DEF o
<1>3. SammeManeder(b, o)
  BY <1>1, <1>2, EnergifeltFelt, SammeManederAv DEF TellbarBok
<1>. QED
  BY <1>3 DEF o

LEMMA BygdManeder ==
  ASSUME NEW b, TellbarBok(b)
  PROVE  SammeManeder(b, Bygd(b))
<1> DEFINE c == Bygd(b)
<1>1. /\ c.poster = b.poster /\ c.ruter = b.ruter /\ c.bidrag = b.bidrag /\ c.skitne = b.skitne
      /\ c.sum = b.sum /\ c.sist = b.sist /\ c.aktiv = b.aktiv /\ c.arkiv = b.arkiv
      /\ c.avvist = b.avvist /\ c.ufullstendig = b.ufullstendig /\ DOMAIN c = DOMAIN b
      /\ c.bygget = [h \in DOMAIN b.poster |-> Bygg(b, h)]
  BY DEF Bygd, TellbarBok, BokInv, StrukturOK, TomBok
<1> HIDE DEF c
<1>2. \A h : NyttIntervall(c, h) = NyttIntervall(b, h)
  BY <1>1 DEF NyttIntervall
<1>3. BokInv(c)
  <2>1. StrukturOK(c) /\ BidragFersk(c)
    BY <1>1, <1>2 DEF TellbarBok, BokInv, StrukturOK, BidragFersk
  <2>2. CacheFersk(c)
    BY <1>1, <1>2 DEF TellbarBok, BokInv, CacheFersk, Bygg
  <2>. QED
    BY <2>1, <2>2 DEF BokInv
<1>4. HelBok(c) /\ \A x \in Energifelt : Sumfelt(c, x) = Sumfelt(b, x)
  BY <1>1, SammeEnergi DEF TellbarBok
<1>. QED
  BY <1>1, <1>3, <1>4, SammeManederAv DEF TellbarBok, c

LEMMA LestManeder ==
  ASSUME NEW b, TellbarBok(b), NEW m
  PROVE  SammeManeder(b, Lest(b, m))
<1> DEFINE o == IF b.aktiv = m THEN Oppdater(b) ELSE b
<1>1. SammeManeder(b, o)
  BY OppdaterManeder DEF SammeManeder
<1>2. SammeManeder(o, Bygd(o))
  <2> HIDE DEF o
  <2>. QED
    BY <1>1, BygdManeder DEF SammeManeder
<1> HIDE DEF o
<1>3. SammeManeder(b, Bygd(o))
  BY <1>1, <1>2, SammeManederKjede
<1>. QED
  BY <1>3 DEF o, Lest

LEMMA PrisproveManeder ==
  ASSUME NEW b, TellbarBok(b), NEW p, p.polltid \in Tikk
  PROVE  SammeManeder(b, RegistrerPrisprove(b, p))
<1> DEFINE c == RegistrerPrisprove(b, p)
<1>1. BokInv(c) /\ HelBok(c) /\ \A x \in Energifelt : Sumfelt(c, x) = Sumfelt(b, x)
  BY RegistrerPrisproveInv, PrisproveEnergi DEF TellbarBok
<1>2. c.sist = b.sist /\ c.aktiv = b.aktiv /\ c.arkiv = b.arkiv
  BY DEF RegistrerPrisprove, TellbarBok, BokInv, StrukturOK, TomBok
<1> HIDE DEF c
<1>3. SammeManeder(b, c)
  BY <1>1, <1>2, SammeManederAv DEF TellbarBok
<1>. QED
  BY <1>3 DEF c

\* What the coordinator reads of a month is what the book holds of it.
LEMMA BoksumManed ==
  ASSUME NEW b, TellbarBok(b), NEW m
  PROVE  /\ Boksum(b, m).dag = Manedsfelt(b, m, "dag")
         /\ Boksum(b, m).natt = Manedsfelt(b, m, "natt")
         /\ Manedsfelt(b, m, "dag") \in Nat /\ Manedsfelt(b, m, "natt") \in Nat
<1>1. \A x \in Energifelt : Maanedssum(b).sum[x] = Sumfelt(b, x)
  BY MaanedssumFelt, EnergifeltFelt DEF TellbarBok
<1>2. NullSum.dag = 0 /\ NullSum.natt = 0
  BY DEF NullSum
<1>3. \A x \in Energifelt : Manedsfelt(b, m, x) \in Nat
  BY ManedsfeltType DEF TellbarBok
<1>4. /\ Boksum(b, m).dag = Manedsfelt(b, m, "dag")
      /\ Boksum(b, m).natt = Manedsfelt(b, m, "natt")
  BY <1>1, <1>2, EnergifeltFelt DEF Boksum, Manedsfelt
<1>. QED
  BY <1>3, <1>4, EnergifeltFelt

\* A ledger of hours to which a split is added, hour by hour.
Lagt(g, f) ==
  [h \in DOMAIN g \cup DOMAIN f |->
     (IF h \in DOMAIN g THEN g[h] ELSE 0) + (IF h \in DOMAIN f THEN f[h] ELSE 0)]

LEMMA LagtManed ==
  ASSUME NEW g, Timesplitt(g), NEW f, Timesplitt(f), NEW m, NEW x
  PROVE  /\ Timesplitt(Lagt(g, f))
         /\ Manedsdel(x, Lagt(g, f), m) = Manedsdel(x, g, m) + Manedsdel(x, f, m)
<1> DEFINE ny == Lagt(g, f)
           A == IManed(ny, m)
           G == IManed(g, m)
           F == IManed(f, m)
           wk == [h \in A |-> IF TellesI(x, h) THEN ny[h] ELSE 0]
           wg == [h \in G |-> IF TellesI(x, h) THEN g[h] ELSE 0]
           wf == [h \in F |-> IF TellesI(x, h) THEN f[h] ELSE 0]
           ug == [h \in A |-> IF h \in G THEN wg[h] ELSE 0]
           uf == [h \in A |-> IF h \in F THEN wf[h] ELSE 0]
<1>1. /\ DOMAIN ny = DOMAIN g \cup DOMAIN f
      /\ \A h \in DOMAIN ny : /\ ny[h] \in Nat
                             /\ ny[h] = (IF h \in DOMAIN g THEN g[h] ELSE 0)
                                       + (IF h \in DOMAIN f THEN f[h] ELSE 0)
  BY DEF Lagt, Timesplitt
<1> HIDE DEF ny
<1>2. Timesplitt(ny)
  BY <1>1 DEF Timesplitt
<1>3. A = G \cup F /\ G \in SUBSET A /\ F \in SUBSET A
  BY <1>1 DEF IManed, Gruppe
<1>4. IsFiniteSet(A)
  BY <1>2, ManedsdelType
<1>5. (\A h \in G : g[h] \in Nat /\ h \in DOMAIN g) /\ (\A h \in F : f[h] \in Nat /\ h \in DOMAIN f)
  BY DEF IManed, Gruppe, Timesplitt
<1>6. \A h \in A : /\ h \in DOMAIN ny /\ (h \in DOMAIN g <=> h \in G) /\ (h \in DOMAIN f <=> h \in F)
  BY <1>1 DEF IManed, Gruppe
<1> HIDE DEF A, G, F
<1>7. \A h \in G : wg[h] \in Int
  BY <1>5
<1>8. \A h \in F : wf[h] \in Int
  BY <1>5
<1>9. \A h \in A : ug[h] \in Int /\ uf[h] \in Int /\ wk[h] = ug[h] + uf[h]
  <2> SUFFICES ASSUME NEW h \in A PROVE ug[h] \in Int /\ uf[h] \in Int /\ wk[h] = ug[h] + uf[h]
    OBVIOUS
  <2>1. ny[h] = (IF h \in G THEN g[h] ELSE 0) + (IF h \in F THEN f[h] ELSE 0)
    BY <1>1, <1>6
  <2>2. wk[h] = IF TellesI(x, h) THEN ny[h] ELSE 0
    OBVIOUS
  <2>3. ug[h] = IF h \in G /\ TellesI(x, h) THEN g[h] ELSE 0
    OBVIOUS
  <2>4. uf[h] = IF h \in F /\ TellesI(x, h) THEN f[h] ELSE 0
    OBVIOUS
  <2>5. (h \in G => g[h] \in Int) /\ (h \in F => f[h] \in Int)
    BY <1>5
  <2> HIDE DEF wk, ug, uf
  <2>. QED
    BY <2>1, <2>2, <2>3, <2>4, <2>5
<1>10. \A h \in A : ug[h] = IF h \in G THEN wg[h] ELSE 0
  OBVIOUS
<1>11. \A h \in A : uf[h] = IF h \in F THEN wf[h] ELSE 0
  OBVIOUS
<1>12. /\ Manedsdel(x, ny, m) = SumFunctionOnSet(wk, A)
       /\ Manedsdel(x, g, m) = SumFunctionOnSet(wg, G)
       /\ Manedsdel(x, f, m) = SumFunctionOnSet(wf, F)
  BY DEF Manedsdel, Fordelt, A, G, F
<1> HIDE DEF wk, wg, wf, ug, uf
<1>13. SumFunctionOnSet(wk, A) = SumFunctionOnSet(ug, A) + SumFunctionOnSet(uf, A)
  BY <1>4, <1>9, SumPluss
<1>14. SumFunctionOnSet(wg, G) = SumFunctionOnSet(ug, A)
  BY <1>3, <1>4, <1>7, <1>10, SumFilter
<1>15. SumFunctionOnSet(wf, F) = SumFunctionOnSet(uf, A)
  BY <1>3, <1>4, <1>8, <1>11, SumFilter
<1>. QED
  BY <1>2, <1>12, <1>13, <1>14, <1>15 DEF ny

\* The book holds of every month what the ledger of hours does.
Folger(b, kwh) ==
  \A m \in Maneder, x \in Energifelt : Manedsfelt(b, m, x) = Manedsdel(x, kwh, m)

LEMMA FolgerSamme ==
  ASSUME NEW b, NEW c, SammeManeder(b, c), NEW kwh, Folger(b, kwh)
  PROVE  Folger(c, kwh)
BY DEF SammeManeder, Folger

LEMMA FolgerVokst ==
  ASSUME NEW b, NEW c, NEW f, Timesplitt(f), Vokst(b, c, f),
         NEW kwh, Timesplitt(kwh), Folger(b, kwh)
  PROVE  Folger(c, Lagt(kwh, f)) /\ Timesplitt(Lagt(kwh, f))
BY LagtManed DEF Folger, Vokst

\* What month m is to show of the ledger kwh and the opening balance.
Fasit(m, kwh, apning) ==
  [dag |-> (IF m = ManedAv[0] THEN apning ELSE Null).dag + Manedsdel("dag", kwh, m),
   natt |-> (IF m = ManedAv[0] THEN apning ELSE Null).natt + Manedsdel("natt", kwh, m)]

\* The sums of the properties are those of the book's proofs.
LEMMA TimerSum ==
  ASSUME NEW f, Timesplitt(f), NEW m
  PROVE  /\ Sum(f, IManed(f, m) \cap Dagtimer) = Manedsdel("dag", f, m)
         /\ Sum(f, IManed(f, m) \ Dagtimer) = Manedsdel("natt", f, m)
<1> DEFINE S == IManed(f, m)
           w(x) == [h \in S |-> IF TellesI(x, h) THEN f[h] ELSE 0]
<1>1. IsFiniteSet(S) /\ \A h \in S : f[h] \in Int
  <2>1. IsFiniteSet(IManed(f, m)) /\ Manedsdel("dag", f, m) \in Nat
    BY ManedsdelType
  <2>2. \A h \in S : f[h] \in Int
    BY DEF IManed, Gruppe, Timesplitt
  <2>. QED
    BY <2>1, <2>2
<1>2. \A h \in S : w("dag")[h] = IF h \in S \cap Dagtimer THEN f[h] ELSE 0
  BY DEF TellesI
<1>3. \A h \in S : w("natt")[h] = IF h \in S \ Dagtimer THEN f[h] ELSE 0
  BY DEF TellesI
<1>4. \A x : Manedsdel(x, f, m) = SumFunctionOnSet(w(x), S)
  BY DEF Manedsdel, Fordelt
<1>5. \A T : Sum(f, T) = SumFunctionOnSet(f, T)
  BY MapTilSum DEF Sum
<1>6. S \cap Dagtimer \in SUBSET S /\ S \ Dagtimer \in SUBSET S
  OBVIOUS
<1> HIDE DEF w, S
<1>7. SumFunctionOnSet(f, S \cap Dagtimer) = SumFunctionOnSet(w("dag"), S)
  <2>1. \A h \in S \cap Dagtimer : f[h] \in Int
    BY <1>1
  <2>. QED
    BY <1>1, <1>2, <1>6, <2>1, SumFilter
<1>8. SumFunctionOnSet(f, S \ Dagtimer) = SumFunctionOnSet(w("natt"), S)
  <2>1. \A h \in S \ Dagtimer : f[h] \in Int
    BY <1>1
  <2>. QED
    BY <1>1, <1>3, <1>6, <2>1, SumFilter
<1>. QED
  BY <1>4, <1>5, <1>7, <1>8 DEF S

LEMMA FasitManed ==
  ASSUME Timesplitt(hel.kwh), NEW m
  PROVE  FasitForbruk(m) = Fasit(m, hel.kwh, hel.apning)
<1>1. TimerI(m) = IManed(hel.kwh, m)
  BY DEF TimerI, IManed, Gruppe
<1>2. Apning(m) = IF m = ManedAv[0] THEN hel.apning ELSE Null
  BY DEF Apning
<1>. QED
  BY <1>1, <1>2, TimerSum DEF FasitForbruk, Fasit

-----------------------------------------------------------------------------
(***************************************************************************)
(* The coordinator's own fields: which calls leave the month and its kWh.  *)
(***************************************************************************)
FelterOK(c) == DOMAIN c = DOMAIN Minne(0, 0, Null, <<>>) /\ c.maned \in Maneder

SammeForbruk(c, d) == FelterOK(d) /\ d.maned = c.maned /\ d.forbruk = c.forbruk

LEMMA TimesmaksForbruk ==
  ASSUME NEW b, NEW c, FelterOK(c)
  PROVE  SammeForbruk(c, Timesmaks(b, c))
BY DEF Timesmaks, SammeForbruk, FelterOK, Minne

LEMMA AkkumulerForbruk ==
  ASSUME NEW b, NEW c, FelterOK(c), NEW timer
  PROVE  SammeForbruk(c, Akkumuler(b, c, timer))
BY DEF Akkumuler, Omregn, SammeForbruk, FelterOK, Minne

LEMMA EtterbokforForbruk ==
  ASSUME NEW b, NEW c, FelterOK(c), NEW fordeling
  PROVE  SammeForbruk(c, Etterbokfor(b, c, fordeling))
BY DEF Etterbokfor, MedHale, SammeForbruk, FelterOK, Minne

-----------------------------------------------------------------------------
(***************************************************************************)
(* The loop over the parts of a reading.  It is a fold that takes the      *)
(* latest part off first, so that the earliest is applied first; what each *)
(* part preserves, the loop preserves.                                     *)
(***************************************************************************)
LEMMA MaksI ==
  ASSUME NEW S, IsFiniteSet(S), S \subseteq Int, S # {}
  PROVE  Max(S) \in S /\ \A y \in S : Max(S) >= y
<1> DEFINE G == {T \in SUBSET S : T = {} \/ \E x \in T : \A y \in T : x >= y}
<1>1. {} \in G
  OBVIOUS
<1>2. ASSUME NEW T \in SUBSET S, NEW e \in S, T \in G, e \notin T
      PROVE  T \cup {e} \in G
  <2>1. CASE T = {}
    BY <2>1
  <2>2. CASE T # {}
    <3>1. PICK x \in T : \A y \in T : x >= y
      BY <1>2, <2>2
    <3>2. x \in Int /\ e \in Int /\ T \subseteq Int
      OBVIOUS
    <3>3. CASE x >= e
      BY <3>1, <3>3
    <3>4. CASE ~ (x >= e)
      <4>1. \A y \in T \cup {e} : e >= y
        BY <3>1, <3>2, <3>4
      <4>. QED
        BY <4>1
    <3>. QED
      BY <3>3, <3>4
  <2>. QED
    BY <2>1, <2>2
<1>3. S \in G
  <2> HIDE DEF G
  <2>. QED
    BY <1>1, <1>2, EndeligInduksjon
<1>4. \E x \in S : \A y \in S : x >= y
  BY <1>3
<1>. QED
  BY <1>4 DEF Max

\* A finite set of instants, and its subsets.
Heltall(S) == IsFiniteSet(S) /\ S \subseteq Int

LEMMA HeltallDel ==
  ASSUME NEW S, Heltall(S), NEW T \in SUBSET S
  PROVE  Heltall(T) /\ (T # {} => Max(T) \in T)
<1>1. Heltall(T)
  BY FS_Subset DEF Heltall
<1>. QED
  BY <1>1, MaksI DEF Heltall

\* The function the loop is defined by.
ErLop(g, deler, balanse, start, S) ==
  g = [s \in SUBSET S |->
         IF s = {} THEN start ELSE EnDel(g[s \ {Max(s)}], deler[Max(s)], balanse)]

Lop(deler, balanse, start, S) == CHOOSE g : ErLop(g, deler, balanse, start, S)

Lopet(deler, balanse, start, S) ==
  MapThenFoldSet(LAMBDA t, s : EnDel(s, deler[t], balanse), start,
                 LAMBDA t : t, LAMBDA T : Max(T), S)

LEMMA LopUtfoldet ==
  ASSUME NEW deler, NEW balanse, NEW start, NEW S
  PROVE  Lopet(deler, balanse, start, S) = Lop(deler, balanse, start, S)[S]
BY DEF Lopet, MapThenFoldSet, ErLop, Lop

LEMMA LopEntydig ==
  ASSUME NEW S, Heltall(S), NEW T \in SUBSET S,
         NEW deler, NEW balanse, NEW start,
         NEW g, NEW h, ErLop(g, deler, balanse, start, S), ErLop(h, deler, balanse, start, T)
  PROVE  \A s \in SUBSET T : g[s] = h[s]
<1> DEFINE G == {s \in SUBSET T : g[s] = h[s]}
<1>1. ASSUME NEW s \in SUBSET T, \A U \in SUBSET s : U # s => U \in G
      PROVE  s \in G
  <2>1. CASE s = {}
    BY <2>1 DEF ErLop
  <2>2. CASE s # {}
    <3>2. Max(s) \in s
      BY <2>2, HeltallDel
    <3>3. s \ {Max(s)} \in G
      BY <1>1, <3>2
    <3>4. /\ g[s] = EnDel(g[s \ {Max(s)}], deler[Max(s)], balanse)
          /\ h[s] = EnDel(h[s \ {Max(s)}], deler[Max(s)], balanse)
      BY <2>2 DEF ErLop
    <3>. QED
      BY <3>3, <3>4
  <2>. QED
    BY <2>1, <2>2
<1>2. \A s \in SUBSET T : s \in G
  <2>1. IsFiniteSet(T)
    BY FS_Subset DEF Heltall
  <2> HIDE DEF G
  <2>. QED
    BY <1>1, <2>1, DelmengdeInduksjon
<1>. QED
  BY <1>2

LEMMA LopFinnes ==
  ASSUME NEW S, Heltall(S), NEW deler, NEW balanse, NEW start
  PROVE  \E g : ErLop(g, deler, balanse, start, S)
<1> DEFINE G == {T \in SUBSET S : \E g : ErLop(g, deler, balanse, start, T)}
           L(T) == Lop(deler, balanse, start, T)
<1>1. ASSUME NEW T \in SUBSET S, \A U \in SUBSET T : U # T => U \in G
      PROVE  T \in G
  <2> DEFINE g == [s \in SUBSET T |->
                     IF s = {} THEN start
                     ELSE EnDel(L(s \ {Max(s)})[s \ {Max(s)}], deler[Max(s)], balanse)]
  <2>a. \A s \in SUBSET T : s # {} =>
          Max(s) \in s /\ s \ {Max(s)} \in SUBSET T /\ s \ {Max(s)} # T
    <3> SUFFICES ASSUME NEW s \in SUBSET T, s # {} PROVE Max(s) \in s
      OBVIOUS
    <3>1. s \in SUBSET S
      OBVIOUS
    <3>. QED
      BY <3>1, HeltallDel
  <2>1. ASSUME NEW U \in SUBSET T, U # T
        PROVE  ErLop(L(U), deler, balanse, start, U)
    BY <1>1, <2>1 DEF Lop
  <2>2. ASSUME NEW U \in SUBSET T, U # T
        PROVE  g[U] = L(U)[U]
    <3>1. CASE U = {}
      BY <2>1, <2>2, <3>1 DEF ErLop
    <3>2. CASE U # {}
      <4> DEFINE V == U \ {Max(U)}
      <4>a. PICK u : u = L(U)
        OBVIOUS
      <4>b. PICK v : v = L(V)
        OBVIOUS
      <4>1. V \in SUBSET U /\ V # T /\ V \in SUBSET T /\ V \in SUBSET S
        BY <2>a, <2>2, <3>2
      <4>2. ErLop(u, deler, balanse, start, U) /\ ErLop(v, deler, balanse, start, V)
        BY <2>1, <2>2, <4>1, <4>a, <4>b
      <4>3. v[V] = u[V]
        <5>1. Heltall(U)
          BY HeltallDel
        <5>2. V \in SUBSET U /\ V \in SUBSET V
          BY <4>1
        <5> HIDE DEF V
        <5>3. \A s \in SUBSET V : u[s] = v[s]
          BY <4>2, <5>1, <5>2, LopEntydig
        <5>. QED
          BY <5>2, <5>3
      <4>4. u[U] = EnDel(u[V], deler[Max(U)], balanse)
        BY <3>2, <4>2 DEF ErLop
      <4>. QED
        BY <2>2, <3>2, <4>3, <4>4, <4>a, <4>b
    <3>. QED
      BY <3>1, <3>2
  <2>3. ErLop(g, deler, balanse, start, T)
    <3> HIDE DEF L
    <3>1. \A s \in SUBSET T : s # {} => g[s \ {Max(s)}] = L(s \ {Max(s)})[s \ {Max(s)}]
      <4> HIDE DEF g
      <4>. QED
        BY <2>2, <2>a
    <3>. QED
      BY <3>1 DEF ErLop
  <2>. QED
    BY <2>3
<1>2. S \in G
  <2>1. IsFiniteSet(S)
    BY DEF Heltall
  <2> HIDE DEF G
  <2>. QED
    BY <1>1, <2>1, DelmengdeInduksjon
<1>. QED
  BY <1>2

\* The value of the loop.
LEMMA LopVerdi ==
  ASSUME NEW S, Heltall(S), NEW deler, NEW balanse, NEW start
  PROVE  \E g : ErLop(g, deler, balanse, start, S) /\ Lopet(deler, balanse, start, S) = g[S]
<1>1. ErLop(Lop(deler, balanse, start, S), deler, balanse, start, S)
  BY LopFinnes DEF Lop
<1>. QED
  BY <1>1, LopUtfoldet

\* What the poll's variables are to satisfy between two parts, for the month
\* maned that is shown, the opening balance of the Store, the ledger kwh the poll
\* began with, and the month mnd of the clock: the book follows the ledger, the
\* month shows it, and a poll that is not dirty has booked nothing.
Delvis(s, maned, apning, kwh, mnd) ==
  /\ DOMAIN s = {"bok", "k", "timer", "skitten", "kwh"}
  /\ TellbarBok(s.bok) /\ Timesplitt(s.kwh) /\ Folger(s.bok, s.kwh)
  /\ FelterOK(s.k) /\ s.k.maned = maned /\ s.k.forbruk = Fasit(maned, s.kwh, apning)
  /\ \A h \in DOMAIN s.kwh : ManedAv[h] <= mnd
  /\ \/ s.skitten
     \/ \A m \in Maneder, x \in Energifelt : Manedsdel(x, s.kwh, m) = Manedsdel(x, kwh, m)

LEMMA LopBevarer ==
  ASSUME NEW S, Heltall(S), NEW deler, NEW balanse, NEW start,
         NEW maned, NEW apning, NEW kwh, NEW mnd,
         Delvis(start, maned, apning, kwh, mnd),
         \A t \in S : \A s : Delvis(s, maned, apning, kwh, mnd) =>
                               Delvis(EnDel(s, deler[t], balanse), maned, apning, kwh, mnd)
  PROVE  Delvis(Lopet(deler, balanse, start, S), maned, apning, kwh, mnd)
<1>1. PICK g : ErLop(g, deler, balanse, start, S) /\ Lopet(deler, balanse, start, S) = g[S]
  BY LopVerdi
<1> DEFINE G == {T \in SUBSET S : Delvis(g[T], maned, apning, kwh, mnd)}
<1>2. ASSUME NEW T \in SUBSET S, \A U \in SUBSET T : U # T => U \in G
      PROVE  T \in G
  <2>1. CASE T = {}
    BY <1>1, <2>1 DEF ErLop
  <2>2. CASE T # {}
    <3>1. Max(T) \in T
      BY <2>2, HeltallDel
    <3>2. T \ {Max(T)} \in G
      BY <1>2, <3>1
    <3>3. g[T] = EnDel(g[T \ {Max(T)}], deler[Max(T)], balanse)
      BY <1>1, <2>2 DEF ErLop
    <3>. QED
      BY <3>1, <3>2, <3>3
  <2>. QED
    BY <2>1, <2>2
<1>3. S \in G
  <2>1. IsFiniteSet(S)
    BY DEF Heltall
  <2> HIDE DEF G
  <2>. QED
    BY <1>2, <2>1, DelmengdeInduksjon
<1>. QED
  BY <1>1, <1>3

\* The month the opening balance belongs to, and the balance of any other.
Balanse(maned, apning) == IF maned = ManedAv[0] THEN apning ELSE Null

LEMMA BalanseType ==
  ASSUME NEW maned, NEW apning \in [dag : Int, natt : Int]
  PROVE  Balanse(maned, apning).dag \in Int /\ Balanse(maned, apning).natt \in Int
BY DEF Balanse, Null

\* The opening balance is what the book does not know of.
LEMMA AapningsbalanseVerdi ==
  ASSUME NEW b, TellbarBok(b), NEW kwh, Timesplitt(kwh), Folger(b, kwh),
         NEW apning \in [dag : Int, natt : Int],
         NEW c, c.maned \in Maneder, c.forbruk = Fasit(c.maned, kwh, apning)
  PROVE  Aapningsbalanse(b, c) = [dag |-> Balanse(c.maned, apning).dag,
                                  natt |-> Balanse(c.maned, apning).natt]
<1> DEFINE A == Balanse(c.maned, apning)
           s == Boksum(b, c.maned)
           D(x) == Manedsdel(x, kwh, c.maned)
<1>1. s.dag = D("dag") /\ s.natt = D("natt") /\ D("dag") \in Nat /\ D("natt") \in Nat
  <2>1. \A x \in Energifelt : Manedsfelt(b, c.maned, x) = D(x)
    BY DEF Folger
  <2>. QED
    BY <2>1, BoksumManed, EnergifeltFelt
<1>2. A.dag \in Int /\ A.natt \in Int
  BY BalanseType
<1>3. c.forbruk.dag = A.dag + D("dag") /\ c.forbruk.natt = A.natt + D("natt")
  BY DEF Fasit, Balanse
<1>4. Aapningsbalanse(b, c) = [dag |-> c.forbruk.dag - s.dag, natt |-> c.forbruk.natt - s.natt]
  BY DEF Aapningsbalanse
<1> HIDE DEF A, s, D
<1>5. c.forbruk.dag - s.dag = A.dag /\ c.forbruk.natt - s.natt = A.natt
  BY <1>1, <1>2, <1>3
<1>. QED
  BY <1>4, <1>5 DEF A

\* With that balance the month shows what the ledger holds.
LEMMA ForbrukVerdi ==
  ASSUME NEW b, TellbarBok(b), NEW kwh, Folger(b, kwh), NEW apning, NEW m \in Maneder,
         NEW balanse, balanse.dag = Balanse(m, apning).dag, balanse.natt = Balanse(m, apning).natt
  PROVE  ForbrukFraBoken(b, m, balanse) = Fasit(m, kwh, apning)
<1>1. \A x \in Energifelt : Manedsfelt(b, m, x) = Manedsdel(x, kwh, m)
  BY DEF Folger
<1>2. /\ Boksum(b, m).dag = Manedsdel("dag", kwh, m)
      /\ Boksum(b, m).natt = Manedsdel("natt", kwh, m)
  BY <1>1, BoksumManed, EnergifeltFelt
<1>. QED
  BY <1>2 DEF ForbrukFraBoken, Fasit, Balanse

\* A split without energy adds none.
LEMMA ManedsdelNull ==
  ASSUME NEW f, Timesplitt(f), \A h \in DOMAIN f : f[h] = 0, NEW m, NEW x
  PROVE  Manedsdel(x, f, m) = 0
<1> DEFINE S == IManed(f, m)
           w == [h \in S |-> IF TellesI(x, h) THEN f[h] ELSE 0]
<1>1. IsFiniteSet(S)
  BY ManedsdelType
<1>2. \A h \in S : f[h] = 0
  BY DEF IManed, Gruppe
<1>3. \A h \in S : w[h] = 0
  BY <1>2
<1>4. Manedsdel(x, f, m) = SumFunctionOnSet(w, S)
  BY DEF Manedsdel, Fordelt
<1> HIDE DEF S, w
<1>. QED
  BY <1>1, <1>3, <1>4, SumNull

\* One part of the reading: the book grows by its answer, the ledger by the same
\* split, and the month is read anew from the book.
LEMMA EnDelBevarer ==
  ASSUME NEW s, NEW maned, NEW apning, NEW kwh, Timesplitt(kwh), NEW t \in Tikk,
         NEW mnd \in Nat, ManedAv[Time(t)] <= mnd,
         Delvis(s, maned, apning, kwh, mnd),
         NEW a, a.tid = t, a.verdi \in Int,
         NEW balanse, balanse.dag = Balanse(maned, apning).dag,
         balanse.natt = Balanse(maned, apning).natt
  PROVE  Delvis(EnDel(s, a, balanse), maned, apning, kwh, mnd)
<1>1. PICK svar : svar = Bokfor(s.bok, a)
  OBVIOUS
<1>2. GodtSvar(s.bok, svar, t)
  <2>1. a.tid \in Tikk /\ TellbarBok(s.bok)
    BY DEF Delvis
  <2>2. GodtSvar(s.bok, Bokfor(s.bok, a), a.tid)
    BY <2>1, BokforSvar
  <2>. QED
    BY <1>1, <2>2
<1>3. PICK f : f = svar.fordeling
  OBVIOUS
<1>4. /\ TellbarBok(svar.bok) /\ Timesplitt(f) /\ Vokst(s.bok, svar.bok, f)
      /\ \A h \in DOMAIN f : ManedAv[h] <= ManedAv[Time(t)]
      /\ svar.bokfort \in Nat
      /\ svar.bokfort = 0 => \A h \in DOMAIN f : f[h] = 0
  BY <1>2, <1>3 DEF GodtSvar
<1>5. /\ Timesplitt(s.kwh) /\ Folger(s.bok, s.kwh) /\ FelterOK(s.k)
      /\ s.k.maned = maned /\ maned \in Maneder
      /\ \A h \in DOMAIN s.kwh : ManedAv[h] <= mnd
  BY DEF Delvis, FelterOK
<1>6. PICK ny : ny = Lagt(s.kwh, f)
  OBVIOUS
<1>7. Folger(svar.bok, ny) /\ Timesplitt(ny)
  BY <1>4, <1>5, <1>6, FolgerVokst
<1>8. PICK c : c = Foring(s, svar, balanse)
  OBVIOUS
<1>9. FelterOK(c) /\ c.maned = maned /\ c.forbruk = Fasit(maned, ny, apning)
  <2>1. PICK c1 : c1 = Etterbokfor(svar.bok, s.k, f)
    OBVIOUS
  <2>2. FelterOK(c1) /\ c1.maned = maned
    BY <1>5, <2>1, EtterbokforForbruk DEF SammeForbruk
  <2>3. PICK c2 : c2 = [c1 EXCEPT !.forbruk = ForbrukFraBoken(svar.bok, maned, balanse)]
    OBVIOUS
  <2>4. FelterOK(c2) /\ c2.maned = maned /\ c2.forbruk = ForbrukFraBoken(svar.bok, maned, balanse)
    BY <2>2, <2>3 DEF FelterOK, Minne
  <2>5. PICK c3 : c3 = Akkumuler(svar.bok, c2, DOMAIN f)
    OBVIOUS
  <2>6. SammeForbruk(c2, c3)
    BY <2>4, <2>5, AkkumulerForbruk
  <2>7. c = Timesmaks(svar.bok, c3)
    BY <1>3, <1>5, <1>8, <2>1, <2>3, <2>5 DEF Foring
  <2>8. SammeForbruk(c3, c)
    <3>1. FelterOK(c3)
      BY <2>6 DEF SammeForbruk
    <3>. QED
      BY <2>7, <3>1, TimesmaksForbruk
  <2>9. ForbrukFraBoken(svar.bok, maned, balanse) = Fasit(maned, ny, apning)
    BY <1>4, <1>5, <1>7, ForbrukVerdi
  <2>. QED
    BY <2>4, <2>6, <2>8, <2>9 DEF SammeForbruk
<1>10. PICK l : l = Lest(svar.bok, c.maned)
  OBVIOUS
<1>11. TellbarBok(l) /\ Folger(l, ny)
  <2>1. SammeManeder(svar.bok, l)
    BY <1>4, <1>10, LestManeder
  <2>. QED
    BY <1>7, <2>1, FolgerSamme DEF SammeManeder
<1>12. \A h \in DOMAIN ny : ManedAv[h] <= mnd
  <2>1. DOMAIN ny = DOMAIN s.kwh \cup DOMAIN f
    BY <1>6 DEF Lagt
  <2>2. ManedAv[Time(t)] \in Nat
    BY TimeType, ManedType
  <2>3. \A h \in DOMAIN f : ManedAv[h] \in Nat
    BY <1>4, ManedType DEF Timesplitt
  <2>4. \A h \in DOMAIN f : ManedAv[h] <= mnd
    BY <1>4, <2>2, <2>3
  <2>. QED
    BY <1>5, <2>1, <2>4
<1>13. ASSUME ~ s.skitten, ~ (svar.bokfort > 0), NEW m \in Maneder, NEW x \in Energifelt
       PROVE  Manedsdel(x, ny, m) = Manedsdel(x, kwh, m)
  <2>1. svar.bokfort = 0
    BY <1>4, <1>13
  <2>2. Manedsdel(x, f, m) = 0
    BY <1>4, <2>1, ManedsdelNull
  <2>3. Manedsdel(x, ny, m) = Manedsdel(x, s.kwh, m) + Manedsdel(x, f, m)
    BY <1>4, <1>5, <1>6, LagtManed
  <2>4. Manedsdel(x, s.kwh, m) = Manedsdel(x, kwh, m)
    BY <1>13 DEF Delvis
  <2>5. Manedsdel(x, kwh, m) \in Nat
    BY ManedsdelType
  <2>. QED
    BY <2>2, <2>3, <2>4, <2>5
<1>14. PICK r : r = EnDel(s, a, balanse)
  OBVIOUS
<1>15. /\ DOMAIN r = {"bok", "k", "timer", "skitten", "kwh"}
       /\ r.bok = l /\ r.k = c /\ r.kwh = ny
       /\ r.skitten = \/ s.skitten \/ svar.bokfort > 0 \/ svar.avvist # 0
                      \/ Halen(svar.bok, s.k, svar.fordeling) # {} \/ NyeTopper(s.k, c)
  <2>1. r = MedDel(s, svar, c)
    BY <1>1, <1>8, <1>14 DEF EnDel, MedSvar
  <2>. QED
    BY <1>3, <1>6, <1>10, <2>1 DEF MedDel, Lagt
<1>16. Delvis(r, maned, apning, kwh, mnd)
  <2>1. r.skitten \/ (~ s.skitten /\ ~ (svar.bokfort > 0))
    BY <1>15
  <2>2. \/ r.skitten
        \/ \A m \in Maneder, x \in Energifelt : Manedsdel(x, r.kwh, m) = Manedsdel(x, kwh, m)
    BY <1>13, <1>15, <2>1
  <2>. QED
    BY <1>7, <1>9, <1>11, <1>12, <1>15, <2>2 DEF Delvis
<1>. QED
  BY <1>14, <1>16

\* The month boundaries between two instants.
LEMMA GrenserType ==
  ASSUME NEW fra \in Nat, NEW til \in Tikk
  PROVE  \A t \in Grenser(fra, til) : t \in Tikk /\ fra < t /\ t < til
<1> SUFFICES ASSUME NEW t \in Grenser(fra, til) PROVE t \in Tikk /\ fra < t /\ t < til
  OBVIOUS
<1>1. PICK h \in Timer : t = h * TikkPerTime /\ fra < t /\ t < til
  BY DEF Grenser
<1>2. TikkPerTime \in Nat /\ h \in Nat /\ til \in Nat
  BY TidAssumption, TikkHel DEF TikkPerTime, Timer
<1>3. h * TikkPerTime \in Nat
  BY <1>2
<1>4. t \in Nat
  BY <1>1, <1>3
<1>5. t \in Tikk
  <2>1. (SisteTime + 1) * TikkPerTime \in Nat
    BY <1>2, TidAssumption
  <2> DEFINE n == (SisteTime + 1) * TikkPerTime
  <2>2. til \in 0 .. n - 1
    BY DEF Tikk
  <2> HIDE DEF n
  <2>3. t \in 0 .. n - 1
    BY <1>1, <1>2, <1>4, <2>1, <2>2 DEF n
  <2>. QED
    BY <2>3 DEF Tikk, n
<1>. QED
  BY <1>1, <1>5

LEMMA TikkHeltall ==
  ASSUME NEW S, S \subseteq Tikk
  PROVE  Heltall(S)
<1>1. (SisteTime + 1) * TikkPerTime \in Nat
  BY TidAssumption DEF TikkPerTime
<1> DEFINE n == (SisteTime + 1) * TikkPerTime
<1>2. n \in Nat /\ Tikk = 0 .. n - 1
  BY <1>1 DEF Tikk
<1> HIDE DEF n
<1>3. IsFiniteSet(Tikk)
  BY <1>2, FS_Interval
<1>4. S \subseteq Int
  BY TikkHel
<1>. QED
  BY <1>3, <1>4, FS_Subset DEF Heltall

\* A reading's parts end at instants of the model, none later than the reading
\* itself, and each is a reading of a number of energy units.
LEMMA DelerType ==
  ASSUME NEW b, b.sist # Ingen => b.sist.tid \in Tikk /\ b.sist.verdi \in Int,
         NEW a \in Avlesninger \cup {Ingen}
  PROVE  /\ Heltall(DOMAIN Deler(b, a))
         /\ \A t \in DOMAIN Deler(b, a) :
              /\ a # Ingen /\ t \in Tikk /\ t <= a.tid
              /\ Deler(b, a)[t].tid = t /\ Deler(b, a)[t].verdi \in Int
<1> DEFINE G(d) == /\ Heltall(DOMAIN d)
                   /\ \A t \in DOMAIN d : /\ a # Ingen /\ t \in Tikk /\ t <= a.tid
                                          /\ d[t].tid = t /\ d[t].verdi \in Int
<1>1. CASE a = Ingen
  <2>1. DOMAIN Deler(b, a) = {}
    BY <1>1 DEF Deler
  <2>2. Heltall({})
    BY TikkHeltall
  <2>. QED
    BY <2>1, <2>2
<1>2. CASE a # Ingen
  <2>1. /\ a.tid \in Tikk /\ a.tid \in Nat /\ a.verdi \in Int
        /\ DOMAIN a = {"kilde", "tid", "verdi"}
    BY <1>2, TikkHel, EnhetAssumption DEF Avlesninger
  <2>2. PICK forrige : forrige = b.sist
    OBVIOUS
  <2>4. PICK delta : delta = IF a.kilde \in Estimerte THEN a.verdi ELSE a.verdi - forrige.verdi
    OBVIOUS
  <2>5. PICK grenser : grenser = Grenser(forrige.tid, a.tid)
    OBVIOUS
  <2>6. CASE \/ forrige = Ingen \/ forrige.kilde # a.kilde
             \/ a.tid <= forrige.tid \/ delta < 0 \/ delta > MaksDelta
    <3>1. Deler(b, a) = [t \in {a.tid} |-> a]
      BY <1>2, <2>2, <2>4, <2>6 DEF Deler
    <3>2. G([t \in {a.tid} |-> a])
      <4>1. Heltall({a.tid})
        BY <2>1, TikkHeltall
      <4>. QED
        BY <1>2, <2>1, <4>1
    <3>. QED
      BY <3>1, <3>2
  <2>7. CASE ~ (\/ forrige = Ingen \/ forrige.kilde # a.kilde
                \/ a.tid <= forrige.tid \/ delta < 0 \/ delta > MaksDelta)
    <3>1. forrige.tid \in Tikk /\ forrige.tid \in Nat /\ forrige.verdi \in Int /\ delta \in Int
      <4>1. forrige # Ingen
        BY <2>7
      <4>2. forrige.tid \in Tikk /\ forrige.verdi \in Int
        BY <2>2, <4>1
      <4>3. forrige.tid \in Nat
        BY <4>2, TikkHel
      <4>4. delta \in Int
        BY <2>1, <2>4, <4>2
      <4>. QED
        BY <4>2, <4>3, <4>4
    <3>2. a.tid - forrige.tid \in Nat \ {0}
      BY <2>1, <2>7, <3>1
    <3>3. grenser \subseteq Tikk /\ \A t \in grenser : t <= a.tid
      <4>1. \A t \in grenser : t \in Tikk /\ t < a.tid
        BY <2>1, <2>5, <3>1, GrenserType
      <4>2. \A t \in grenser : t <= a.tid
        <5> SUFFICES ASSUME NEW t \in grenser PROVE t <= a.tid
          OBVIOUS
        <5>1. t \in Nat /\ t < a.tid
          BY <4>1, TikkHel
        <5>. QED
          BY <2>1, <5>1
      <4>. QED
        BY <4>1, <4>2
    <3> DEFINE Fra(t) == Max({forrige.tid} \cup {u \in grenser : u < t})
               Andel(t, u) == (delta * (u - t)) \div (a.tid - forrige.tid)
               Verdi(t) == IF a.kilde \in Estimerte THEN Andel(Fra(t), t)
                           ELSE forrige.verdi + Andel(forrige.tid, t)
               d == [t \in grenser \cup {a.tid} |-> [a EXCEPT !.tid = t, !.verdi = Verdi(t)]]
    <3>4. \A t : Fra(t) \in Int
      <4>1. \A t : Heltall({forrige.tid} \cup {u \in grenser : u < t})
        BY <3>1, <3>3, TikkHeltall
      <4>. QED
        BY <4>1, MaksI DEF Heltall
    <3>5. ASSUME NEW t \in Int, NEW u \in Int
          PROVE  Andel(t, u) \in Int
      <4> DEFINE n == delta * (u - t)
                 l == a.tid - forrige.tid
      <4>1. n \in Int /\ l \in Nat \ {0}
        BY <3>1, <3>2
      <4> HIDE DEF n, l
      <4>2. n \div l \in Int
        BY <4>1
      <4>. QED
        BY <4>2 DEF n, l
    <3>6. \A t \in grenser \cup {a.tid} : t \in Tikk /\ t <= a.tid /\ t \in Int
      BY <2>1, <3>3, TikkHel
    <3>7. Deler(b, a) = d
      BY <1>2, <2>2, <2>4, <2>5, <2>7 DEF Deler
    <3> HIDE DEF Fra, Andel
    <3>8. \A t \in grenser \cup {a.tid} : Verdi(t) \in Int
      <4> SUFFICES ASSUME NEW t \in grenser \cup {a.tid} PROVE Verdi(t) \in Int
        OBVIOUS
      <4>1. t \in Int /\ forrige.tid \in Int
        BY <3>1, <3>6
      <4>2. Andel(forrige.tid, t) \in Int
        BY <3>5, <4>1
      <4>3. Andel(Fra(t), t) \in Int
        BY <3>4, <3>5, <4>1
      <4>. QED
        BY <3>1, <4>2, <4>3
    <3> HIDE DEF Verdi
    <3>9. DOMAIN d = grenser \cup {a.tid} /\ \A t \in DOMAIN d : d[t].tid = t /\ d[t].verdi = Verdi(t)
      BY <2>1
    <3> HIDE DEF d
    <3>10. Heltall(DOMAIN d)
      <4>1. grenser \cup {a.tid} \subseteq Tikk
        BY <2>1, <3>3
      <4>. QED
        BY <3>9, <4>1, TikkHeltall
    <3>11. G(d)
      BY <1>2, <3>6, <3>8, <3>9, <3>10
    <3>. QED
      BY <3>7, <3>11
  <2>. QED
    BY <2>6, <2>7
<1>. QED
  BY <1>1, <1>2

-----------------------------------------------------------------------------
(***************************************************************************)
(* The poll up to the question of a month rollover.                        *)
(***************************************************************************)

\* A book, the coordinator's fields and the ledger agree, and the clock's month
\* is mnd: what the month shows is the opening balance and the ledger's energy.
Enige(b, c, kwh, apning, mnd) ==
  /\ TellbarBok(b) /\ FelterOK(c) /\ Timesplitt(kwh) /\ Folger(b, kwh)
  /\ apning \in [dag : Int, natt : Int]
  /\ \A h \in DOMAIN kwh : ManedAv[h] <= mnd
  /\ c.forbruk = Fasit(c.maned, kwh, apning)

LEMMA AlleDelerUtfoldet ==
  ASSUME NEW b, NEW c, NEW deler, NEW balanse
  PROVE  AlleDeler(b, c, deler, balanse)
           = Avsluttet(Lopet(deler, balanse,
                             [bok |-> Lest(b, c.maned), k |-> c, timer |-> {},
                              skitten |-> FALSE, kwh |-> hel.kwh], DOMAIN deler))
BY DEF AlleDeler, Lopet

LEMMA AvsluttetBevarer ==
  ASSUME NEW s, NEW maned, NEW apning, NEW kwh, NEW mnd, Delvis(s, maned, apning, kwh, mnd)
  PROVE  Delvis(Avsluttet(s), maned, apning, kwh, mnd)
<1>1. PICK c : c = Timesmaks(s.bok, s.k)
  OBVIOUS
<1>2. FelterOK(s.k)
  BY DEF Delvis
<1>3. SammeForbruk(s.k, c)
  BY <1>1, <1>2, TimesmaksForbruk
<1>4. PICK r : r = Avsluttet(s)
  OBVIOUS
<1>5. /\ DOMAIN r = DOMAIN s /\ r.bok = s.bok /\ r.k = c /\ r.kwh = s.kwh
      /\ r.skitten = (s.skitten \/ NyeTopper(s.k, c))
  BY <1>1, <1>4 DEF Avsluttet, MedTimesmaks, Delvis
<1>6. Delvis(r, maned, apning, kwh, mnd)
  BY <1>3, <1>5 DEF Delvis, SammeForbruk
<1>. QED
  BY <1>4, <1>6

LEMMA BokfortDelvis ==
  ASSUME naa \in Tikk, Enige(bok, k, hel.kwh, hel.apning, MndNaa),
         NEW prove, NEW a \in Avlesninger \cup {Ingen}, Lesbar(a)
  PROVE  Delvis(Bokfort(prove, a), k.maned, hel.apning, hel.kwh, MndNaa)
<1>1. PICK b : b = IF prove = Ingen THEN bok
                   ELSE RegistrerPrisprove(bok, [polltid |-> naa, verdi |-> prove])
  OBVIOUS
<1>2. TellbarBok(b) /\ Folger(b, hel.kwh)
  <2>1. CASE prove = Ingen
    BY <1>1, <2>1 DEF Enige
  <2>2. CASE prove # Ingen
    <3>1. PICK p : p = [polltid |-> naa, verdi |-> prove]
      OBVIOUS
    <3>2. SammeManeder(bok, RegistrerPrisprove(bok, p))
      BY <3>1, PrisproveManeder DEF Enige
    <3>. QED
      BY <1>1, <2>2, <3>1, <3>2, FolgerSamme DEF Enige, SammeManeder
  <2>. QED
    BY <2>1, <2>2
<1>3. PICK c : c = IF k.dato = DatoNaa THEN k ELSE [k EXCEPT !.dato = DatoNaa, !.dagskost = 0]
  OBVIOUS
<1>4. FelterOK(c) /\ c.maned = k.maned /\ c.forbruk = k.forbruk /\ c.maned \in Maneder
  BY <1>3 DEF Enige, FelterOK, Minne
<1>5. PICK balanse : balanse = Aapningsbalanse(b, c)
  OBVIOUS
<1>6. PICK apning : apning = hel.apning
  OBVIOUS
<1>7. PICK kwh : kwh = hel.kwh
  OBVIOUS
<1>8. PICK maned : maned = k.maned
  OBVIOUS
<1>9. PICK mnd : mnd = MndNaa
  OBVIOUS
<1>10. /\ Timesplitt(kwh) /\ Folger(b, kwh) /\ apning \in [dag : Int, natt : Int]
       /\ c.forbruk = Fasit(maned, kwh, apning) /\ c.maned = maned
       /\ \A h \in DOMAIN kwh : ManedAv[h] <= mnd
  BY <1>2, <1>4, <1>6, <1>7, <1>8, <1>9 DEF Enige
<1>11. balanse.dag = Balanse(maned, apning).dag /\ balanse.natt = Balanse(maned, apning).natt
  <2>1. balanse = [dag |-> Balanse(c.maned, apning).dag, natt |-> Balanse(c.maned, apning).natt]
    BY <1>2, <1>4, <1>5, <1>10, AapningsbalanseVerdi
  <2>. QED
    BY <1>10, <2>1
<1>12. PICK start : start = [bok |-> Lest(b, c.maned), k |-> c, timer |-> {},
                             skitten |-> FALSE, kwh |-> hel.kwh]
  OBVIOUS
<1>13. Delvis(start, maned, apning, kwh, mnd)
  <2>1. SammeManeder(b, Lest(b, c.maned))
    BY <1>2, LestManeder
  <2>2. PICK l : l = Lest(b, c.maned)
    OBVIOUS
  <2>3. TellbarBok(l) /\ Folger(l, kwh)
    BY <1>10, <2>1, <2>2, FolgerSamme DEF SammeManeder
  <2>4. start.bok = l /\ start.k = c /\ start.kwh = kwh
        /\ DOMAIN start = {"bok", "k", "timer", "skitten", "kwh"}
    BY <1>7, <1>12, <2>2
  <2>. QED
    BY <1>4, <1>10, <2>3, <2>4 DEF Delvis
<1>14. PICK deler : deler = Deler(b, a)
  OBVIOUS
<1>15. /\ Heltall(DOMAIN deler)
       /\ \A t \in DOMAIN deler : /\ a # Ingen /\ t \in Tikk /\ t <= a.tid
                                  /\ deler[t].tid = t /\ deler[t].verdi \in Int
  <2>1. b.sist # Ingen => b.sist.tid \in Tikk /\ b.sist.verdi \in Int
    BY <1>2 DEF TellbarBok, BokInv, StrukturOK
  <2>. QED
    BY <1>14, <2>1, DelerType
<1>16. mnd \in Nat /\ \A t \in DOMAIN deler : ManedAv[Time(t)] <= mnd
  <2>1. mnd = ManedAv[Time(naa)] /\ Time(naa) \in Timer
    BY <1>9, TimeType DEF MndNaa
  <2>2. mnd \in Nat
    BY <2>1, ManedType
  <2>3. ASSUME NEW t \in DOMAIN deler
        PROVE  ManedAv[Time(t)] <= mnd
    <3>1. t \in Tikk /\ t \in Nat /\ naa \in Nat
      BY <1>15, TikkHel
    <3>2. a.tid <= naa /\ a.tid \in Nat
      <4>1. a # Ingen /\ a \in Avlesninger
        BY <1>15
      <4>2. a.tid \in Tikk
        BY <4>1 DEF Avlesninger
      <4>3. a.tid \in Nat
        BY <4>2, TikkHel
      <4>. QED
        BY <4>1, <4>3 DEF Lesbar
    <3>3. t <= naa
      BY <1>15, <3>1, <3>2
    <3>4. Time(t) \in Timer
      BY <3>1, TimeType
    <3>5. Time(t) <= Time(naa)
      <4>1. TikkPerTime \in Nat \ {0}
        BY TidAssumption DEF TikkPerTime
      <4>. QED
        BY <3>1, <3>3, <4>1 DEF Time
    <3>. QED
      BY <2>1, <3>4, <3>5, ManedStiger
  <2>. QED
    BY <2>2, <2>3
<1>17. \A t \in DOMAIN deler : \A s : Delvis(s, maned, apning, kwh, mnd) =>
          Delvis(EnDel(s, deler[t], balanse), maned, apning, kwh, mnd)
  <2> SUFFICES ASSUME NEW t \in DOMAIN deler, NEW s, Delvis(s, maned, apning, kwh, mnd)
               PROVE  Delvis(EnDel(s, deler[t], balanse), maned, apning, kwh, mnd)
    OBVIOUS
  <2>1. t \in Tikk /\ deler[t].tid = t /\ deler[t].verdi \in Int /\ ManedAv[Time(t)] <= mnd
    BY <1>15, <1>16
  <2>. QED
    BY <1>10, <1>11, <1>16, <2>1, EnDelBevarer
<1>18. Delvis(Avsluttet(Lopet(deler, balanse, start, DOMAIN deler)), maned, apning, kwh, mnd)
  <2>1. PICK S : S = DOMAIN deler
    OBVIOUS
  <2>2. Delvis(Lopet(deler, balanse, start, S), maned, apning, kwh, mnd)
    BY <1>13, <1>15, <1>17, <2>1, LopBevarer
  <2>. QED
    BY <2>1, <2>2, AvsluttetBevarer
<1>19. Bokfort(prove, a) = AlleDeler(b, c, deler, balanse)
  BY <1>1, <1>3, <1>5, <1>14 DEF Bokfort
<1>. QED
  BY <1>6, <1>7, <1>8, <1>9, <1>12, <1>18, <1>19, AlleDelerUtfoldet

-----------------------------------------------------------------------------
(***************************************************************************)
(* The Store.                                                              *)
(***************************************************************************)

\* A reading that can be a book's baseline.
Grunnlinje(a) == a = Ingen \/ (a.tid \in Tikk /\ a.verdi \in Int)

\* Another baseline changes nothing in the book but the baseline.
LEMMA GrunnlinjeManeder ==
  ASSUME NEW b, TellbarBok(b), NEW a, Grunnlinje(a)
  PROVE  SammeManeder(b, [b EXCEPT !.sist = a])
<1>1. PICK c : c = [b EXCEPT !.sist = a]
  OBVIOUS
<1>2. /\ c.poster = b.poster /\ c.ruter = b.ruter /\ c.bygget = b.bygget
      /\ c.bidrag = b.bidrag /\ c.skitne = b.skitne /\ c.sum = b.sum /\ c.sist = a
      /\ c.aktiv = b.aktiv /\ c.arkiv = b.arkiv /\ c.avvist = b.avvist
      /\ c.ufullstendig = b.ufullstendig /\ DOMAIN c = DOMAIN b
  BY <1>1 DEF TellbarBok, BokInv, StrukturOK, TomBok
<1>3. BokInv(c)
  <2>1. StrukturOK(c)
    BY <1>2 DEF TellbarBok, BokInv, StrukturOK, Grunnlinje
  <2>2. CacheFersk(c) /\ BidragFersk(c)
    BY <1>2, SammeInnhold DEF TellbarBok, BokInv
  <2>. QED
    BY <2>1, <2>2 DEF BokInv
<1>4. HelBok(c) /\ \A x \in Energifelt : Sumfelt(c, x) = Sumfelt(b, x)
  BY <1>2, SammeEnergi DEF TellbarBok
<1>5. SammeManeder(b, c)
  BY <1>2, <1>3, <1>4, SammeManederAv DEF Grunnlinje
<1>. QED
  BY <1>1, <1>5

LEMMA LestBokManeder ==
  ASSUME NEW l, NEW sensor, TellbarBok(FraLagring(l.bok)), Grunnlinje(l.baseline)
  PROVE  SammeManeder(FraLagring(l.bok), LestBok(l, sensor))
<1>1. PICK b : b = FraLagring(l.bok)
  OBVIOUS
<1>2. PICK c : c = LestBok(l, sensor)
  OBVIOUS
<1>3. c = b \/ c = [b EXCEPT !.sist = Ingen] \/ c = [b EXCEPT !.sist = l.baseline]
  BY <1>1, <1>2 DEF LestBok
<1>4. SammeManeder(b, b)
  BY <1>1 DEF SammeManeder
<1>5. Grunnlinje(Ingen)
  BY DEF Grunnlinje
<1>6. SammeManeder(b, [b EXCEPT !.sist = Ingen])
  BY <1>1, <1>5, GrunnlinjeManeder
<1>7. SammeManeder(b, [b EXCEPT !.sist = l.baseline])
  BY <1>1, GrunnlinjeManeder
<1>8. SammeManeder(b, c)
  BY <1>3, <1>4, <1>6, <1>7
<1>. QED
  BY <1>1, <1>2, <1>8

\* A book that is written and read again holds every month as it was.
LEMMA LagretManeder ==
  ASSUME NEW b, TellbarBok(b), NEW t \in Tikk
  PROVE  SammeManeder(b, FraLagring(TilLagring(b, t)))
<1>1. PICK l : l = TilLagring(b, t)
  OBVIOUS
<1>2. LagerOK(l) /\ l.skjema = 3 /\ l.sist = b.sist
  BY <1>1, TilLagringInv DEF TellbarBok
<1>3. PICK c : c = FraLagring(l)
  OBVIOUS
<1>4. BokInv(c) /\ c.sist = b.sist
  BY <1>2, <1>3, FraLagringInv
<1>5. /\ HelBok(c) /\ c.arkiv = b.arkiv /\ c.aktiv = b.aktiv
      /\ \A x \in Felt : Sumfelt(c, x) = Sumfelt(b, x)
  BY <1>1, <1>3, LagretEnergi DEF TellbarBok
<1>6. SammeManeder(b, c)
  BY <1>4, <1>5, EnergifeltFelt, SammeManederAv DEF TellbarBok
<1>. QED
  BY <1>1, <1>3, <1>6

\* So a restart after the write of Fil finds the book it was written from.
LEMMA FilManeder ==
  ASSUME naa \in Tikk, TellbarBok(bok), NEW sensor
  PROVE  SammeManeder(bok, LestBok(Fil, sensor))
<1>1. PICK l : l = Fil
  OBVIOUS
<1>2. l.bok = TilLagring(bok, naa) /\ (l.baseline = bok.sist \/ l.baseline = Ingen)
  BY <1>1 DEF Fil
<1>3. SammeManeder(bok, FraLagring(l.bok))
  BY <1>2, LagretManeder
<1>4. Grunnlinje(l.baseline)
  <2>1. Grunnlinje(bok.sist)
    BY DEF Grunnlinje, TellbarBok, BokInv, StrukturOK
  <2>2. Grunnlinje(Ingen)
    BY DEF Grunnlinje
  <2>. QED
    BY <1>2, <2>1, <2>2
<1>5. SammeManeder(FraLagring(l.bok), LestBok(l, sensor))
  BY <1>3, <1>4, LestBokManeder DEF SammeManeder
<1>6. SammeManeder(bok, LestBok(l, sensor))
  <2>1. PICK c : c = FraLagring(l.bok)
    OBVIOUS
  <2>2. PICK d : d = LestBok(l, sensor)
    OBVIOUS
  <2>3. SammeManeder(bok, c) /\ SammeManeder(c, d)
    BY <1>3, <1>5, <2>1, <2>2
  <2>4. SammeManeder(bok, d)
    BY <2>3 DEF SammeManeder
  <2>. QED
    BY <2>2, <2>4
<1>. QED
  BY <1>1, <1>6

LEMMA NullTikk == 0 \in Tikk
<1> DEFINE n == (SisteTime + 1) * TikkPerTime
<1>1. n \in Nat /\ n > 0
  BY TidAssumption DEF TikkPerTime
<1> HIDE DEF n
<1>2. 0 \in 0 .. n - 1
  BY <1>1
<1>. QED
  BY <1>2 DEF Tikk, n

\* What the Store says of the month at the very start.
LEMMA StartfilForm ==
  ASSUME NEW l \in Startfiler
  PROVE  /\ DOMAIN l = {"bok", "baseline", "k"}
         /\ \/ l.bok = TomtLager /\ l.baseline = Ingen
            \/ l.bok = GammeltLager /\ l.baseline \in {Ingen} \cup GamleGrunnlinjer
         /\ FelterOK(l.k) /\ l.k.maned = ManedAv[0]
         /\ l.k.forbruk \in [dag : Int, natt : Int]
<1>1. ManedAv[0] \in Maneder
  <2>1. 0 \in Timer
    BY TidAssumption DEF Timer
  <2>. QED
    BY <2>1, ManedType
<1>2. ASSUME NEW f \in [dag : Int, natt : Int], NEW u, NEW g, NEW b,
             l = Startfil(g, b, f, u)
      PROVE  /\ DOMAIN l = {"bok", "baseline", "k"} /\ l.bok = g /\ l.baseline = b
             /\ FelterOK(l.k) /\ l.k.maned = ManedAv[0]
             /\ l.k.forbruk \in [dag : Int, natt : Int]
  BY <1>1, <1>2 DEF Startfil, FelterOK, Minne
<1>3. \/ \E u \in GamleUker : l = Startfil(TomtLager, Ingen, Null, u)
      \/ \E x \in Apninger, u \in GamleUker, b \in {Ingen} \cup GamleGrunnlinjer :
           l = Startfil(GammeltLager, b, [dag |-> x, natt |-> 0], u)
  BY DEF Startfiler
<1>4. Null \in [dag : Int, natt : Int]
  BY DEF Null
<1>5. \A x \in Apninger : [dag |-> x, natt |-> 0] \in [dag : Int, natt : Int]
  BY EnhetAssumption
<1>6. CASE \E u \in GamleUker : l = Startfil(TomtLager, Ingen, Null, u)
  <2>1. PICK u \in GamleUker : l = Startfil(TomtLager, Ingen, Null, u)
    BY <1>6
  <2>. QED
    BY <1>2, <1>4, <2>1
<1>7. CASE \E x \in Apninger, u \in GamleUker, b \in {Ingen} \cup GamleGrunnlinjer :
             l = Startfil(GammeltLager, b, [dag |-> x, natt |-> 0], u)
  <2>1. PICK x \in Apninger, u \in GamleUker, b \in {Ingen} \cup GamleGrunnlinjer :
          l = Startfil(GammeltLager, b, [dag |-> x, natt |-> 0], u)
    BY <1>7
  <2>2. PICK f : f = [dag |-> x, natt |-> 0]
    OBVIOUS
  <2>3. f \in [dag : Int, natt : Int] /\ l = Startfil(GammeltLager, b, f, u)
    BY <1>5, <2>1, <2>2
  <2>4. /\ DOMAIN l = {"bok", "baseline", "k"} /\ l.bok = GammeltLager /\ l.baseline = b
        /\ FelterOK(l.k) /\ l.k.maned = ManedAv[0]
        /\ l.k.forbruk \in [dag : Int, natt : Int]
    BY <1>2, <2>3
  <2>. QED
    BY <2>4
<1>. QED
  BY <1>3, <1>6, <1>7

\* A Store from before the book, and one that was never written, give a book that
\* holds nothing.
LEMMA StartManeder ==
  ASSUME NEW l \in Startfiler, NEW sensor
  PROVE  TellbarBok(LestBok(l, sensor)) /\ Folger(LestBok(l, sensor), <<>>)
<1>1. /\ l.bok = TomtLager \/ l.bok = GammeltLager
      /\ Grunnlinje(l.baseline)
  <2>1. 0 \in Tikk
    BY NullTikk
  <2>2. \/ l.bok = TomtLager /\ l.baseline = Ingen
        \/ l.bok = GammeltLager /\ l.baseline \in {Ingen} \cup GamleGrunnlinjer
    BY StartfilForm
  <2>3. \A b \in GamleGrunnlinjer : Grunnlinje(b)
    BY <2>1, EnhetAssumption DEF Grunnlinje, GamleGrunnlinjer
  <2>4. Grunnlinje(Ingen)
    BY DEF Grunnlinje
  <2>. QED
    BY <2>2, <2>3, <2>4
<1>2. \E u : FraLagring(l.bok) = TomBok(u)
  <2>1. TomtLager.skjema = 0 /\ GammeltLager.skjema = 2
    BY DEF TomtLager, GammeltLager
  <2>2. TomtLager # GammeltLager
    BY <2>1
  <2>3. l.bok = TomtLager => FraLagring(l.bok) = TomBok(FALSE)
    BY <2>2 DEF FraLagring
  <2>4. l.bok = GammeltLager => FraLagring(l.bok) = TomBok(TRUE)
    BY <2>2 DEF FraLagring
  <2>. QED
    BY <1>1, <2>3, <2>4
<1>3. PICK u : FraLagring(l.bok) = TomBok(u)
  BY <1>2
<1>4. PICK b : b = TomBok(u)
  OBVIOUS
<1>5. BokInv(b) /\ b.sist = Ingen /\ DOMAIN b.arkiv = {} /\ b.aktiv = Ingen
  BY <1>4, TomBokInv DEF TomBok
<1>6. HelBok(b) /\ \A x \in Felt : Sumfelt(b, x) = 0
  BY <1>4, TomEnergi
<1>7. TellbarBok(b)
  BY <1>5, <1>6, EnergifeltFelt DEF TellbarBok
<1>8. \A m \in Maneder, x \in Energifelt : Manedsfelt(b, m, x) = 0
  BY <1>5, ManederNat DEF Manedsfelt
<1>9. SammeManeder(b, LestBok(l, sensor))
  BY <1>1, <1>3, <1>4, <1>7, LestBokManeder
<1>10. \A m \in Maneder, x \in Energifelt : Manedsdel(x, <<>>, m) = 0
  <2>1. \A m : IManed(<<>>, m) = {}
    BY DEF IManed, Gruppe
  <2>. QED
    BY <2>1, ManedsdelTom
<1>11. Folger(b, <<>>)
  BY <1>8, <1>10 DEF Folger
<1>. QED
  BY <1>9, <1>11, FolgerSamme DEF SammeManeder

-----------------------------------------------------------------------------
(***************************************************************************)
(* The invariant.  The book and the fields of the coordinator, and in the  *)
(* same way what the Store would give back, hold what the ledger holds;    *)
(* outside a rollover the month shows it.  During a rollover the new month *)
(* shows nothing yet; a write then puts that on disk, and if the poll ends *)
(* there, it had booked nothing in the new month.  Only a poll that is     *)
(* still to write once more (poll.skiftet) leaves a Store that shows less. *)
(***************************************************************************)

\* The book b, the fields c and the ledger h agree on every month, and no energy
\* lies after the month that is shown, which is not after the clock's.
Holder(b, c, h, mnd) ==
  /\ TellbarBok(b) /\ FelterOK(c) /\ Timesplitt(h.kwh) /\ Folger(b, h.kwh)
  /\ DOMAIN h = {"kwh", "ruter", "apning", "poll", "uker", "arlig", "tapt", "lukket"}
  /\ h.apning \in [dag : Int, natt : Int]
  /\ \A x \in DOMAIN h.kwh : ManedAv[x] <= c.maned
  /\ c.maned <= mnd

\* The month shows what the ledger holds.
Viser(c, h) == c.forbruk = Fasit(c.maned, h.kwh, h.apning)

\* The month has been opened by a rollover and not been read yet.
Nyapnet(c, h, mnd, skitten) ==
  /\ c.maned = mnd /\ c.forbruk = Null /\ c.maned # ManedAv[0]
  /\ skitten \/ \A x \in Energifelt : Manedsdel(x, h.kwh, c.maned) = 0

ForbrukInv ==
  /\ naa \in Tikk
  /\ fase \in {"ledig", "skifte", "lagrer"}
  /\ Holder(bok, k, hel, MndNaa)
  /\ Holder(LestBok(lager, kilde), lager.k, lagret, MndNaa)
  /\ fase = "skifte" => Nyapnet(k, hel, MndNaa, poll.skitten)
  /\ fase # "skifte" => Viser(k, hel)
  /\ poll.skiftet => fase = "lagrer"
  /\ ~ poll.skiftet => Viser(lager.k, lagret)

LEMMA HolderSamme ==
  ASSUME NEW b, NEW c, NEW h, NEW mnd, Holder(b, c, h, mnd),
         NEW b2, SammeManeder(b, b2), NEW c2, SammeForbruk(c, c2)
  PROVE  Holder(b2, c2, h, mnd) /\ (Viser(c, h) => Viser(c2, h))
<1>1. TellbarBok(b2) /\ Folger(b2, h.kwh)
  BY FolgerSamme DEF Holder, SammeManeder
<1>. QED
  BY <1>1 DEF Holder, SammeForbruk, Viser

\* A month that nothing has been booked in shows nothing.
LEMMA TomManedViser ==
  ASSUME NEW c, NEW h, NEW mnd, Nyapnet(c, h, mnd, FALSE)
  PROVE  Viser(c, h)
<1>1. Manedsdel("dag", h.kwh, c.maned) = 0 /\ Manedsdel("natt", h.kwh, c.maned) = 0
  BY EnergifeltFelt DEF Nyapnet
<1>. QED
  BY <1>1 DEF Nyapnet, Viser, Fasit, Null

LEMMA SammeForbrukSelv ==
  ASSUME NEW c, FelterOK(c)
  PROVE  SammeForbruk(c, c)
BY DEF SammeForbruk

\* The end of a poll.
LEMMA FerdigSteg ==
  ASSUME NEW b, NEW c, NEW timer, NEW skitten, Ferdig(b, c, timer, skitten),
         NEW h, NEW mnd, Holder(b, c, h, mnd), Viser(c, h)
  PROVE  /\ Holder(bok', k', h, mnd) /\ Viser(k', h)
         /\ fase' \in {"ledig", "lagrer"} /\ (skitten => fase' = "lagrer")
<1>1. PICK o : o = Oppdater(b)
  OBVIOUS
<1>2. PICK b2 : b2 = Bygd(o)
  OBVIOUS
<1>3. SammeManeder(b, b2)
  <2>1. SammeManeder(b, o)
    BY <1>1, OppdaterManeder DEF Holder
  <2>2. SammeManeder(o, b2)
    BY <1>2, <2>1, BygdManeder DEF SammeManeder
  <2>. QED
    BY <2>1, <2>2, SammeManederKjede
<1>4. PICK c2 : c2 = Akkumuler(b, c, timer)
  OBVIOUS
<1>5. SammeForbruk(c, c2)
  BY <1>4, AkkumulerForbruk DEF Holder
<1>6. PICK uker : uker = UtenGamle(c.uke, DatoNaa)
  OBVIOUS
<1>7. PICK c3 : c3 = [c2 EXCEPT !.uke = uker]
  OBVIOUS
<1>8. SammeForbruk(c, c3)
  BY <1>5, <1>7 DEF SammeForbruk, FelterOK, Minne
<1>9. bok' = b2 /\ k' = c3
  BY <1>1, <1>2, <1>4, <1>6, <1>7 DEF Ferdig
<1>10. Holder(b2, c3, h, mnd) /\ Viser(c3, h)
  BY <1>3, <1>8, HolderSamme
<1>11. fase' \in {"ledig", "lagrer"} /\ (skitten => fase' = "lagrer")
  BY DEF Ferdig
<1>. QED
  BY <1>9, <1>10, <1>11

\* What a write puts in the Store.
LEMMA FilHolder ==
  ASSUME naa \in Tikk, NEW h, NEW mnd, Holder(bok, k, h, mnd), NEW sensor
  PROVE  /\ Holder(LestBok(Fil, sensor), Fil.k, h, mnd)
         /\ SammeForbruk(k, Fil.k)
<1>1. SammeForbruk(k, Fil.k)
  BY DEF Fil, SammeForbruk, Holder, FelterOK, Minne
<1>2. SammeManeder(bok, LestBok(Fil, sensor))
  BY FilManeder DEF Holder
<1>3. PICK b2 : b2 = LestBok(Fil, sensor)
  OBVIOUS
<1>4. PICK c2 : c2 = Fil.k
  OBVIOUS
<1>5. Holder(b2, c2, h, mnd)
  BY <1>1, <1>2, <1>3, <1>4, HolderSamme
<1>. QED
  BY <1>1, <1>3, <1>4, <1>5

\* What a start makes of the Store.
LEMMA InnlestHolder ==
  ASSUME NEW l, NEW sensor, NEW h, NEW mnd, Holder(LestBok(l, sensor), l.k, h, mnd)
  PROVE  LET x == Innlest(l, sensor)
         IN  /\ Holder(x.bok, x.k, h, mnd)
             /\ Viser(l.k, h) => Viser(x.k, h)
<1>1. PICK c : c = LestBok(l, sensor)
  OBVIOUS
<1>2. PICK felter : felter = [l.k EXCEPT !.forrige = LestForrige(@)]
  OBVIOUS
<1>3. PICK x : x = Innlest(l, sensor)
  OBVIOUS
<1>4. x.bok = (IF ForesAvBoken(c, felter.maned) THEN Bygd(c) ELSE c)
      /\ x.k = [felter EXCEPT !.kr = Kronebokforing(c, felter)]
  BY <1>1, <1>2, <1>3 DEF Innlest, MedKroner
<1>5. TellbarBok(c) /\ FelterOK(l.k)
  BY <1>1 DEF Holder
<1>6. PICK b2 : b2 = x.bok
  OBVIOUS
<1>7. SammeManeder(c, b2)
  <2>1. SammeManeder(c, c)
    BY <1>5 DEF SammeManeder
  <2>2. SammeManeder(c, Bygd(c))
    BY <1>5, BygdManeder
  <2>. QED
    BY <1>4, <1>6, <2>1, <2>2
<1>8. PICK c2 : c2 = x.k
  OBVIOUS
<1>9. PICK k0 : k0 = l.k
  OBVIOUS
<1>10. SammeForbruk(k0, c2)
  BY <1>2, <1>4, <1>5, <1>8, <1>9 DEF SammeForbruk, FelterOK, Minne
<1>11. Holder(b2, c2, h, mnd) /\ (Viser(k0, h) => Viser(c2, h))
  BY <1>1, <1>7, <1>9, <1>10, HolderSamme
<1>12. Holder(x.bok, x.k, h, mnd) /\ (Viser(l.k, h) => Viser(x.k, h))
  BY <1>6, <1>8, <1>9, <1>11
<1>. QED
  BY <1>3, <1>12

-----------------------------------------------------------------------------
(***************************************************************************)
(* The steps.                                                              *)
(***************************************************************************)
LEMMA MndNaaType ==
  ASSUME naa \in Tikk
  PROVE  MndNaa \in Nat /\ MndNaa \in Maneder
BY TimeType, ManedType DEF MndNaa

LEMMA ForbrukInit == Init => ForbrukInv
<1> SUFFICES ASSUME Init PROVE ForbrukInv
  OBVIOUS
<1>1. naa \in Tikk /\ MndNaa = ManedAv[0]
  <2>1. Time(0) = 0
    BY TidAssumption DEF Time, TikkPerTime
  <2>. QED
    BY <2>1, NullTikk DEF Init, MndNaa
<1>2. PICK l : l = lager
  OBVIOUS
<1>3. l \in Startfiler
  BY <1>2 DEF Init
<1>4. PICK h : h = hel
  OBVIOUS
<1>5. /\ h.kwh = <<>> /\ h.apning = l.k.forbruk
      /\ DOMAIN h = {"kwh", "ruter", "apning", "poll", "uker", "arlig", "tapt", "lukket"}
  BY <1>2, <1>4 DEF Init
<1>6. FelterOK(l.k) /\ l.k.maned = ManedAv[0] /\ l.k.forbruk \in [dag : Int, natt : Int]
  BY <1>3, StartfilForm
<1>7. TellbarBok(LestBok(l, kilde)) /\ Folger(LestBok(l, kilde), <<>>)
  BY <1>3, StartManeder
<1>8. Timesplitt(<<>>) /\ \A x : Manedsdel(x, <<>>, ManedAv[0]) = 0
  <2>1. Timesplitt(<<>>)
    BY DEF Timesplitt
  <2>2. \A m : IManed(<<>>, m) = {}
    BY DEF IManed, Gruppe
  <2>. QED
    BY <2>1, <2>2, ManedsdelTom
<1>9. PICK mnd : mnd = MndNaa
  OBVIOUS
<1>10. mnd \in Nat /\ mnd = ManedAv[0]
  BY <1>1, <1>9, MndNaaType
<1>11. Holder(LestBok(l, kilde), l.k, h, mnd)
  BY <1>5, <1>6, <1>7, <1>8, <1>10 DEF Holder
<1>12. Viser(l.k, h)
  <2>1. l.k.forbruk = [dag |-> l.k.forbruk.dag + 0, natt |-> l.k.forbruk.natt + 0]
    BY <1>6
  <2>. QED
    BY <1>5, <1>6, <1>8, <2>1 DEF Viser, Fasit
<1>13. PICK x : x = Innlest(l, kilde)
  OBVIOUS
<1>14. Holder(x.bok, x.k, h, mnd) /\ Viser(x.k, h)
  BY <1>11, <1>12, <1>13, InnlestHolder
<1>15. bok = x.bok /\ k = x.k /\ lagret = h /\ fase = "ledig" /\ poll.skiftet = FALSE
  BY <1>2, <1>4, <1>13 DEF Init, IngenPoll
<1>. QED
  BY <1>1, <1>2, <1>4, <1>9, <1>11, <1>12, <1>14, <1>15 DEF ForbrukInv

LEMMA HolderSenere ==
  ASSUME NEW b, NEW c, NEW h, NEW m \in Nat, NEW n \in Nat, Holder(b, c, h, m), m <= n
  PROVE  Holder(b, c, h, n)
<1>1. c.maned \in Nat
  BY ManederNat DEF Holder, FelterOK
<1>. QED
  BY <1>1 DEF Holder

LEMMA KlokkeSteg == ForbrukInv /\ Klokke => ForbrukInv'
<1> SUFFICES ASSUME ForbrukInv, Klokke PROVE ForbrukInv'
  OBVIOUS
<1>1. naa' \in Tikk /\ naa' = naa + 1 /\ fase = "ledig"
  BY DEF Klokke
<1>2. PICK m : m = MndNaa
  OBVIOUS
<1>3. PICK n : n = ManedAv[Time(naa')]
  OBVIOUS
<1>4. m \in Nat /\ n \in Nat /\ m <= n
  <2>1. naa \in Tikk /\ naa \in Nat
    BY TikkHel DEF ForbrukInv
  <2>2. Time(naa) \in Timer /\ Time(naa') \in Timer
    BY <1>1, <2>1, TimeType
  <2>3. Time(naa) <= Time(naa')
    <3>1. TikkPerTime \in Nat \ {0}
      BY TidAssumption DEF TikkPerTime
    <3>. QED
      BY <1>1, <2>1, <3>1 DEF Time
  <2>4. ManedAv[Time(naa)] <= ManedAv[Time(naa')]
    BY <2>2, <2>3, ManedStiger
  <2>. QED
    BY <1>2, <1>3, <2>2, <2>4, ManedType DEF MndNaa
<1>5. Holder(bok, k, hel, n) /\ Holder(LestBok(lager, kilde), lager.k, lagret, n)
  <2>1. Holder(bok, k, hel, m) /\ Holder(LestBok(lager, kilde), lager.k, lagret, m)
    BY <1>2 DEF ForbrukInv
  <2>. QED
    BY <1>4, <2>1, HolderSenere
<1>6. Viser(k, hel) /\ ~ poll.skiftet /\ Viser(lager.k, lagret)
  BY <1>1 DEF ForbrukInv
<1>7. n = MndNaa'
  BY <1>3 DEF MndNaa
<1>. QED
  BY <1>1, <1>5, <1>6, <1>7 DEF ForbrukInv, Klokke

LEMMA PollSteg == ForbrukInv /\ Poll => ForbrukInv'
<1> SUFFICES ASSUME ForbrukInv, Poll PROVE ForbrukInv'
  OBVIOUS
<1>1. PICK prove \in Priser \cup {Ingen}, a \in Avlesninger \cup {Ingen} :
        Lesbar(a) /\ Bokfores(Bokfort(prove, a), prove)
  BY DEF Poll
<1>2. fase = "ledig" /\ naa \in Tikk /\ Holder(bok, k, hel, MndNaa) /\ Viser(k, hel)
      /\ ~ poll.skiftet /\ Viser(lager.k, lagret)
      /\ Holder(LestBok(lager, kilde), lager.k, lagret, MndNaa)
  BY DEF ForbrukInv, Poll
<1>3. PICK mnd : mnd = MndNaa
  OBVIOUS
<1>4. mnd \in Nat /\ mnd \in Maneder
  BY <1>2, <1>3, MndNaaType
<1>5. k.maned \in Maneder /\ k.maned \in Nat /\ k.maned <= mnd
  BY <1>2, <1>3, ManederNat DEF Holder, FelterOK
<1>6. \A h \in DOMAIN hel.kwh : ManedAv[h] \in Nat /\ ManedAv[h] <= k.maned
  BY <1>2, ManedType DEF Holder, Timesplitt
<1>7. Enige(bok, k, hel.kwh, hel.apning, MndNaa)
  <2>1. \A h \in DOMAIN hel.kwh : ManedAv[h] <= mnd
    BY <1>4, <1>5, <1>6
  <2>. QED
    BY <1>2, <1>3, <2>1 DEF Enige, Holder, Viser
<1>8. PICK s : s = Bokfort(prove, a)
  OBVIOUS
<1>9. Delvis(s, k.maned, hel.apning, hel.kwh, mnd)
  BY <1>1, <1>2, <1>3, <1>7, <1>8, BokfortDelvis
<1>10. Bokfores(s, prove)
  BY <1>1, <1>8
<1>11. PICK h : h = NyHel(prove, s.kwh, s.k.maned)
  OBVIOUS
<1>12. /\ h.kwh = s.kwh /\ h.apning = hel.apning
       /\ DOMAIN h = {"kwh", "ruter", "apning", "poll", "uker", "arlig", "tapt", "lukket"}
  BY <1>2, <1>11 DEF NyHel, Holder
<1>13. hel' = h /\ UNCHANGED <<naa, lager, kilde, tariff, lagret, omstarter>>
  BY <1>10, <1>11 DEF Bokfores
<1>14. /\ TellbarBok(s.bok) /\ FelterOK(s.k) /\ Timesplitt(h.kwh) /\ Folger(s.bok, h.kwh)
       /\ h.apning \in [dag : Int, natt : Int] /\ s.k.maned = k.maned
       /\ \A x \in DOMAIN h.kwh : ManedAv[x] <= mnd
       /\ Viser(s.k, h)
  BY <1>2, <1>9, <1>12 DEF Delvis, Holder, Viser
<1>15. CASE s.k.maned = MndNaa /\ Ferdig(s.bok, s.k, s.timer, s.skitten) /\ poll' = IngenPoll
  <2>1. Holder(s.bok, s.k, h, mnd)
    BY <1>3, <1>4, <1>12, <1>14, <1>15 DEF Holder
  <2>2. PICK b : b = s.bok
    OBVIOUS
  <2>3. PICK c : c = s.k
    OBVIOUS
  <2>4. /\ Holder(bok', k', h, mnd) /\ Viser(k', h) /\ fase' \in {"ledig", "lagrer"}
    BY <1>14, <1>15, <2>1, <2>2, <2>3, FerdigSteg
  <2>5. poll'.skiftet = FALSE
    BY <1>15 DEF IngenPoll
  <2>6. mnd = MndNaa'
    BY <1>3, <1>13 DEF MndNaa
  <2>. QED
    BY <1>2, <1>3, <1>13, <2>4, <2>5, <2>6 DEF ForbrukInv
<1>16. CASE /\ s.k.maned # MndNaa /\ fase' = "skifte" /\ bok' = s.bok /\ k' = Rullert(s.k)
            /\ poll' = [timer |-> s.timer, skitten |-> s.skitten, skiftet |-> FALSE]
  <2>1. PICK c : c = Rullert(s.k)
    OBVIOUS
  <2>2. FelterOK(c) /\ c.maned = mnd /\ c.forbruk = Null
    BY <1>3, <1>4, <1>14, <2>1 DEF Rullert, FelterOK, Minne
  <2>3. Holder(s.bok, c, h, mnd)
    BY <1>4, <1>12, <1>14, <2>2 DEF Holder
  <2>4. k.maned < mnd
    BY <1>3, <1>4, <1>5, <1>14, <1>16
  <2>5. mnd # ManedAv[0]
    <3>1. \A m \in Maneder : ManedAv[0] <= m /\ ManedAv[0] \in Nat
      <4>1. 0 \in Timer /\ \A x \in Timer : 0 <= x
        BY TidAssumption DEF Timer
      <4>. QED
        BY <4>1, ManedStiger, ManedType DEF Maneder
    <3>. QED
      BY <1>4, <1>5, <2>4, <3>1
  <2>6. s.skitten \/ \A x \in Energifelt : Manedsdel(x, h.kwh, mnd) = 0
    <3>1. CASE s.skitten
      BY <3>1
    <3>2. CASE ~ s.skitten
      <4>1. \A x \in Energifelt : Manedsdel(x, h.kwh, mnd) = Manedsdel(x, hel.kwh, mnd)
        BY <1>4, <1>9, <1>12, <3>2 DEF Delvis
      <4>2. IManed(hel.kwh, mnd) = {}
        BY <1>4, <1>5, <1>6, <2>4 DEF IManed, Gruppe
      <4>. QED
        BY <4>1, <4>2, ManedsdelTom
    <3>. QED
      BY <3>1, <3>2
  <2>7. Nyapnet(c, h, mnd, s.skitten)
    BY <2>2, <2>5, <2>6 DEF Nyapnet
  <2>8. poll'.skiftet = FALSE /\ poll'.skitten = s.skitten /\ k' = c /\ fase' = "skifte"
    BY <1>16, <2>1
  <2>9. mnd = MndNaa'
    BY <1>3, <1>13 DEF MndNaa
  <2>. QED
    BY <1>2, <1>3, <1>13, <1>16, <2>3, <2>7, <2>8, <2>9 DEF ForbrukInv
<1>. QED
  BY <1>10, <1>15, <1>16 DEF Bokfores

\* The save of the rollover and what follows it: the new month is read from the
\* book.  If the poll ends there, the Store shows all there is to show.
LEMMA SkifteSteg ==
  ASSUME ForbrukInv, NEW ok \in BOOLEAN, Skifte(ok)
  PROVE  ForbrukInv'
<1>1. PICK mnd : mnd = MndNaa
  OBVIOUS
<1>2. /\ fase = "skifte" /\ naa \in Tikk /\ Holder(bok, k, hel, mnd)
      /\ Nyapnet(k, hel, mnd, poll.skitten)
      /\ ~ poll.skiftet /\ Viser(lager.k, lagret)
      /\ Holder(LestBok(lager, kilde), lager.k, lagret, mnd)
  BY <1>1 DEF ForbrukInv, Skifte
<1>3. PICK h : h = hel
  OBVIOUS
<1>4. PICK c : c = EtterSkifte
  OBVIOUS
<1>5. Holder(bok, c, h, mnd) /\ Viser(c, h)
  <2>1. TellbarBok(bok) /\ Folger(bok, h.kwh) /\ FelterOK(k) /\ k.maned \in Maneder
    BY <1>2, <1>3 DEF Holder, FelterOK
  <2>2. Balanse(k.maned, h.apning) = Null
    BY <1>2 DEF Nyapnet, Balanse
  <2>3. ForbrukFraBoken(bok, k.maned, Null) = Fasit(k.maned, h.kwh, h.apning)
    <3>1. PICK apning : apning = h.apning
      OBVIOUS
    <3>2. PICK kwh : kwh = h.kwh
      OBVIOUS
    <3>3. PICK m : m = k.maned
      OBVIOUS
    <3>4. PICK balanse : balanse = Null
      OBVIOUS
    <3>5. balanse.dag = Balanse(m, apning).dag /\ balanse.natt = Balanse(m, apning).natt
      BY <2>2, <3>1, <3>3, <3>4
    <3>6. ForbrukFraBoken(bok, m, balanse) = Fasit(m, kwh, apning)
      <4>1. PICK b : b = bok
        OBVIOUS
      <4>2. ForbrukFraBoken(b, m, balanse) = Fasit(m, kwh, apning)
        BY <2>1, <3>2, <3>3, <3>5, <4>1, ForbrukVerdi
      <4>. QED
        BY <4>1, <4>2
    <3>. QED
      BY <3>1, <3>2, <3>3, <3>4, <3>6
  <2>4. PICK c0 : c0 = [k EXCEPT !.forbruk = ForbrukFraBoken(bok, k.maned, Null)]
    OBVIOUS
  <2>5. FelterOK(c0) /\ c0.maned = k.maned /\ c0.forbruk = Fasit(c0.maned, h.kwh, h.apning)
    BY <2>1, <2>3, <2>4 DEF FelterOK, Minne
  <2>6. Holder(bok, c0, h, mnd) /\ Viser(c0, h)
    BY <1>2, <1>3, <2>5 DEF Holder, Viser
  <2>7. c = Timesmaks(bok, c0)
    BY <1>4, <2>4 DEF EtterSkifte
  <2>8. SammeForbruk(c0, c)
    BY <2>5, <2>7, TimesmaksForbruk
  <2>9. PICK b : b = bok
    OBVIOUS
  <2>10. SammeManeder(b, b) /\ Holder(b, c0, h, mnd)
    BY <2>1, <2>6, <2>9 DEF SammeManeder
  <2>11. Holder(b, c, h, mnd) /\ Viser(c, h)
    BY <2>6, <2>8, <2>10, HolderSamme
  <2>. QED
    BY <2>9, <2>11
<1>6. PICK skitten : skitten = (poll.skitten \/ NyeTopper(k, c))
  OBVIOUS
<1>7. /\ Ferdig(bok, c, poll.timer, skitten)
      /\ poll' = [IngenPoll EXCEPT !.skiftet = ok /\ fase' = "lagrer"]
      /\ UNCHANGED <<naa, kilde, tariff, hel, omstarter>>
      /\ lager' = (IF ok THEN Fil ELSE lager) /\ lagret' = IF ok THEN hel ELSE lagret
  BY <1>4, <1>6 DEF Skifte, Skriv
<1>8. /\ Holder(bok', k', h, mnd) /\ Viser(k', h)
      /\ fase' \in {"ledig", "lagrer"} /\ (skitten => fase' = "lagrer")
  <2>1. PICK b : b = bok
    OBVIOUS
  <2>2. PICK timer : timer = poll.timer
    OBVIOUS
  <2>3. Ferdig(b, c, timer, skitten) /\ Holder(b, c, h, mnd)
    BY <1>5, <1>7, <2>1, <2>2
  <2>. QED
    BY <1>5, <2>3, FerdigSteg
<1>9. (poll'.skiftet <=> (ok /\ fase' = "lagrer")) /\ (poll'.skiftet => fase' = "lagrer")
  BY <1>7 DEF IngenPoll
<1>10. mnd = MndNaa' /\ naa' \in Tikk
  BY <1>1, <1>2, <1>7 DEF MndNaa
<1>11. /\ Holder(LestBok(lager', kilde'), lager'.k, lagret', mnd)
       /\ ~ poll'.skiftet => Viser(lager'.k, lagret')
  <2>1. CASE ~ ok
    BY <1>2, <1>7, <2>1
  <2>2. CASE ok
    <3>1. PICK l : l = Fil
      OBVIOUS
    <3>2. Holder(LestBok(l, kilde), l.k, h, mnd) /\ SammeForbruk(k, l.k)
      BY <1>2, <1>3, <3>1, FilHolder
    <3>3. lager' = l /\ lagret' = h /\ kilde' = kilde
      BY <1>3, <1>7, <2>2, <3>1
    <3>4. ASSUME ~ poll'.skiftet
          PROVE  Viser(l.k, h)
      <4>1. fase' # "lagrer"
        BY <1>9, <2>2, <3>4
      <4>2. ~ poll.skitten
        BY <1>6, <1>8, <4>1
      <4>3. PICK c1 : c1 = l.k
        OBVIOUS
      <4>4. Nyapnet(c1, h, mnd, FALSE)
        BY <1>2, <1>3, <3>2, <4>2, <4>3 DEF Nyapnet, SammeForbruk
      <4>5. Viser(c1, h)
        BY <4>4, TomManedViser
      <4>. QED
        BY <4>3, <4>5
    <3>. QED
      BY <3>2, <3>3, <3>4
  <2>. QED
    BY <2>1, <2>2
<1>12. hel' = h /\ fase' # "skifte"
  BY <1>3, <1>7, <1>8
<1>. QED
  BY <1>8, <1>9, <1>10, <1>11, <1>12 DEF ForbrukInv

\* The save at the end of the poll.  After a rollover that wrote, this one is
\* taken to succeed: FeilIMellom is FALSE.
LEMMA SluttSteg ==
  ASSUME ~ FeilIMellom, ForbrukInv, NEW ok \in BOOLEAN, Slutt(ok)
  PROVE  ForbrukInv'
<1>1. PICK mnd : mnd = MndNaa
  OBVIOUS
<1>2. /\ fase = "lagrer" /\ naa \in Tikk /\ Holder(bok, k, hel, mnd) /\ Viser(k, hel)
      /\ Holder(LestBok(lager, kilde), lager.k, lagret, mnd)
      /\ ~ poll.skiftet => Viser(lager.k, lagret)
  BY <1>1 DEF ForbrukInv, Slutt
<1>3. PICK h : h = hel
  OBVIOUS
<1>4. /\ ok \/ ~ poll.skiftet
      /\ lager' = (IF ok THEN Fil ELSE lager) /\ lagret' = (IF ok THEN hel ELSE lagret)
      /\ bok' = Oppdater(bok) /\ fase' = "ledig" /\ poll' = IngenPoll
      /\ UNCHANGED <<naa, k, kilde, tariff, hel, omstarter>>
  BY DEF Slutt, Skriv
<1>5. Holder(bok', k, h, mnd) /\ Viser(k, h)
  <2>1. PICK b : b = bok
    OBVIOUS
  <2>2. PICK b2 : b2 = Oppdater(b)
    OBVIOUS
  <2>3. PICK c : c = k
    OBVIOUS
  <2>4. Holder(b, c, h, mnd) /\ Viser(c, h)
    BY <1>2, <1>3, <2>1, <2>3
  <2>5. SammeManeder(b, b2) /\ SammeForbruk(c, c)
    BY <2>2, <2>4, OppdaterManeder, SammeForbrukSelv DEF Holder
  <2>6. Holder(b2, c, h, mnd)
    BY <2>4, <2>5, HolderSamme
  <2>. QED
    BY <1>4, <2>1, <2>2, <2>3, <2>4, <2>6
<1>6. Holder(LestBok(lager', kilde'), lager'.k, lagret', mnd) /\ Viser(lager'.k, lagret')
  <2>1. CASE ~ ok
    BY <1>2, <1>4, <2>1
  <2>2. CASE ok
    <3>1. PICK l : l = Fil
      OBVIOUS
    <3>2. Holder(LestBok(l, kilde), l.k, h, mnd) /\ SammeForbruk(k, l.k)
      BY <1>2, <1>3, <3>1, FilHolder
    <3>3. lager' = l /\ lagret' = h /\ kilde' = kilde
      BY <1>3, <1>4, <2>2, <3>1
    <3>4. Viser(l.k, h)
      BY <1>5, <3>2 DEF Viser, SammeForbruk
    <3>. QED
      BY <3>2, <3>3, <3>4
  <2>. QED
    BY <2>1, <2>2
<1>7. mnd = MndNaa' /\ naa' \in Tikk /\ poll'.skiftet = FALSE /\ hel' = h /\ k' = k
      /\ fase' = "ledig"
  BY <1>1, <1>2, <1>3, <1>4 DEF MndNaa, IngenPoll
<1>. QED
  BY <1>5, <1>6, <1>7 DEF ForbrukInv

\* A restart takes up what the Store holds, and so does the ledger.
LEMMA KrasjSteg ==
  ASSUME ~ FeilIMellom, ForbrukInv, Krasj
  PROVE  ForbrukInv'
<1>1. PICK mnd : mnd = MndNaa
  OBVIOUS
<1>2. PICK l : l = lager
  OBVIOUS
<1>3. PICK h : h = lagret
  OBVIOUS
<1>4. PICK x : x = Innlest(l, kilde)
  OBVIOUS
<1>5. naa \in Tikk /\ Holder(LestBok(l, kilde), l.k, h, mnd) /\ Viser(l.k, h)
  BY <1>1, <1>2, <1>3 DEF ForbrukInv, Krasj
<1>6. /\ bok' = x.bok /\ k' = x.k /\ fase' = "ledig" /\ poll' = IngenPoll /\ hel' = h
      /\ UNCHANGED <<naa, lager, kilde, lagret>>
  BY <1>2, <1>3, <1>4 DEF Krasj
<1>7. Holder(x.bok, x.k, h, mnd) /\ Viser(x.k, h)
  BY <1>4, <1>5, InnlestHolder
<1>8. mnd = MndNaa' /\ poll'.skiftet = FALSE
  BY <1>1, <1>6 DEF MndNaa, IngenPoll
<1>. QED
  BY <1>2, <1>3, <1>5, <1>6, <1>7, <1>8 DEF ForbrukInv

LEMMA ForbrukSteg ==
  ASSUME ~ FeilIMellom
  PROVE  ForbrukInv /\ [Next]_vars => ForbrukInv'
<1> SUFFICES ASSUME ForbrukInv, [Next]_vars PROVE ForbrukInv'
  OBVIOUS
<1>1. CASE Klokke
  BY <1>1, KlokkeSteg
<1>2. CASE Poll
  BY <1>2, PollSteg
<1>3. ASSUME NEW ok \in BOOLEAN, Skifte(ok) PROVE ForbrukInv'
  BY <1>3, SkifteSteg
<1>4. ASSUME NEW ok \in BOOLEAN, Slutt(ok) PROVE ForbrukInv'
  BY <1>4, SluttSteg
<1>5. CASE Krasj
  BY <1>5, KrasjSteg
<1>6. CASE UNCHANGED vars
  BY <1>6 DEF vars, ForbrukInv, MndNaa
<1>. QED
  BY <1>1, <1>2, <1>3, <1>4, <1>5, <1>6 DEF Next

\* The month that is shown is the opening balance and everything that was booked
\* in it, after every poll, whatever the readings, the month boundaries, the
\* failed writes and the restarts, as long as the two writes of a poll that turns
\* the month stand or fall together.
THEOREM ForbruketFolgerBoken ==
  ASSUME ~ FeilIMellom
  PROVE  Spec => []ForbrukFolgerBoken
<1>1. Init => ForbrukInv
  BY ForbrukInit
<1>2. ForbrukInv /\ [Next]_vars => ForbrukInv'
  BY ForbrukSteg
<1>3. ForbrukInv => ForbrukFolgerBoken
  <2> SUFFICES ASSUME ForbrukInv, Ledig PROVE k.forbruk = FasitForbruk(k.maned)
    BY DEF ForbrukFolgerBoken
  <2>1. Timesplitt(hel.kwh) /\ Viser(k, hel)
    BY DEF ForbrukInv, Ledig, Holder
  <2>. QED
    BY <2>1, FasitManed DEF Viser
<1>. QED
  BY <1>1, <1>2, <1>3, PTL DEF Spec


-----------------------------------------------------------------------------
(***************************************************************************)
(* The posts of a book and the ledger of hours: a post holds all the       *)
(* energy its hour got, and no hour that a window can still reach has lost *)
(* its post.                                                               *)
(***************************************************************************)

\* The posts of b against the ledger kwh: they agree, the ledger ends with the
\* active month, which is not after mnd, and its hours from g on have their post.
\* No window starts before g: the baseline is a reading of the hour g or later,
\* no later than the instant seneste, and of the sensor that filled the ledger.
Postert(b, kwh, g, sensor, mnd, seneste) ==
  /\ \A h \in DOMAIN b.poster : h \in DOMAIN kwh /\ b.poster[h].kwh = kwh[h]
  /\ \A h \in DOMAIN kwh : b.aktiv # Ingen /\ ManedAv[h] <= b.aktiv
  /\ \A h \in DOMAIN kwh : ManedAv[h] = b.aktiv /\ g <= h => h \in DOMAIN b.poster
  /\ b.aktiv # Ingen => b.aktiv <= mnd
  /\ b.sist # Ingen => g <= Time(b.sist.tid) /\ b.sist.tid <= seneste
  /\ DOMAIN kwh # {} => b.sist # Ingen /\ b.sist.kilde = sensor

\* The hours of a split are not before g.
FraOgMed(f, g) == \A h \in DOMAIN f : g <= h

\* The fields of a book.
Bokform(b) == DOMAIN b = DOMAIN TomBok(FALSE)

\* What Legg makes of the posts.
LEMMA LeggPoster ==
  ASSUME NEW b, Bokform(b), NEW del, NEW est
  PROVE  LET c == Legg(b, del, est)
         IN  /\ c.aktiv = b.aktiv
             /\ DOMAIN c.poster = DOMAIN b.poster \cup DOMAIN del
             /\ \A h \in DOMAIN b.poster \ DOMAIN del : c.poster[h].kwh = b.poster[h].kwh
             /\ \A h \in DOMAIN del :
                  c.poster[h].kwh = (IF h \in DOMAIN b.poster THEN b.poster[h].kwh ELSE 0) + del[h]
<1> DEFINE c == Legg(b, del, est)
           Post(h) == IF h \in DOMAIN b.poster THEN b.poster[h]
                      ELSE [kwh |-> 0, energikvalitet |-> "malt"]
           Okt(h) == [kwh |-> Post(h).kwh + del[h],
                      energikvalitet |-> IF est THEN "estimert" ELSE Post(h).energikvalitet]
<1>1. c.aktiv = b.aktiv
  BY DEF Legg, Bokform, TomBok
<1>2. c.poster = [h \in DOMAIN b.poster \cup DOMAIN del |->
                    IF h \in DOMAIN del THEN Okt(h) ELSE b.poster[h]]
  BY DEF Legg, Bokform, TomBok
<1>3. \A h : Okt(h).kwh = (IF h \in DOMAIN b.poster THEN b.poster[h].kwh ELSE 0) + del[h]
  OBVIOUS
<1> HIDE DEF c, Okt
<1>. QED
  BY <1>1, <1>2, <1>3 DEF c

\* And ForManed: the posts of the month that is filled.
LEMMA ForManedPoster ==
  ASSUME NEW b, Bokform(b), NEW m, NEW f, NEW est
  PROVE  LET c == ForManed(b, m, f, est)
             I == IManed(f, m)
         IN  /\ c.aktiv = m
             /\ DOMAIN c.poster = (IF m = b.aktiv THEN DOMAIN b.poster ELSE {}) \cup I
             /\ \A h \in I : c.poster[h].kwh =
                  (IF m = b.aktiv /\ h \in DOMAIN b.poster THEN b.poster[h].kwh ELSE 0) + f[h]
             /\ \A h \in DOMAIN c.poster \ I : c.poster[h].kwh = b.poster[h].kwh
<1>1. PICK del : del = Restrict(f, {h \in DOMAIN f : ManedAv[h] = m})
  OBVIOUS
<1>2. DOMAIN del = IManed(f, m) /\ \A h \in DOMAIN del : del[h] = f[h]
  BY <1>1 DEF Restrict, IManed, Gruppe
<1>3. PICK b0 : b0 = IF m = b.aktiv THEN b ELSE NyManed(b, m)
  OBVIOUS
<1>4. /\ Bokform(b0) /\ b0.aktiv = m
      /\ DOMAIN b0.poster = (IF m = b.aktiv THEN DOMAIN b.poster ELSE {})
      /\ m = b.aktiv => b0 = b
  <2>1. PICK n : n = NyManed(b, m)
    OBVIOUS
  <2>2. n.poster = <<>> /\ n.aktiv = m /\ DOMAIN n = DOMAIN b
    BY <2>1 DEF NyManed, Bokform, TomBok
  <2>3. DOMAIN n.poster = {}
    BY <2>2
  <2>. QED
    BY <1>3, <2>1, <2>2, <2>3 DEF Bokform
<1>5. PICK c : c = ForManed(b, m, f, est)
  OBVIOUS
<1>6. c = Legg(b0, del, est)
  BY <1>1, <1>3, <1>5 DEF ForManed
<1>7. /\ c.aktiv = b0.aktiv
      /\ DOMAIN c.poster = DOMAIN b0.poster \cup DOMAIN del
      /\ \A h \in DOMAIN b0.poster \ DOMAIN del : c.poster[h].kwh = b0.poster[h].kwh
      /\ \A h \in DOMAIN del :
           c.poster[h].kwh = (IF h \in DOMAIN b0.poster THEN b0.poster[h].kwh ELSE 0) + del[h]
  BY <1>4, <1>6, LeggPoster
<1>8. /\ c.aktiv = m
      /\ DOMAIN c.poster = (IF m = b.aktiv THEN DOMAIN b.poster ELSE {}) \cup IManed(f, m)
  BY <1>2, <1>4, <1>7
<1>9. \A h \in IManed(f, m) : c.poster[h].kwh =
        (IF m = b.aktiv /\ h \in DOMAIN b.poster THEN b.poster[h].kwh ELSE 0) + f[h]
  BY <1>2, <1>4, <1>7
<1>10. \A h \in DOMAIN c.poster \ IManed(f, m) : c.poster[h].kwh = b.poster[h].kwh
  BY <1>2, <1>4, <1>7, <1>8
<1>. QED
  BY <1>5, <1>8, <1>9, <1>10

\* The calls that only read the book leave its posts.
LEMMA SammePoster ==
  ASSUME NEW b, NEW c, c.poster = b.poster, c.aktiv = b.aktiv, c.sist = b.sist,
         NEW kwh, NEW g, NEW sensor, NEW mnd, NEW seneste, Postert(b, kwh, g, sensor, mnd, seneste)
  PROVE  Postert(c, kwh, g, sensor, mnd, seneste)
BY DEF Postert

\* The answer of _fordel and the ledger with the same split.
LEMMA FordelPostert ==
  ASSUME NEW b, TellbarBok(b), b.sist # Ingen,
         NEW kwh, Timesplitt(kwh), NEW g \in Int, NEW mnd \in Nat, NEW seneste \in Nat,
         NEW a, a # Ingen, a.tid \in Tikk, b.sist.tid < a.tid, a.tid <= seneste,
         ManedAv[Time(a.tid - 1)] <= mnd, ManedAv[Time(b.sist.tid)] <= mnd,
         NEW delta \in Nat,
         Postert(b, kwh, g, a.kilde, mnd, seneste)
  PROVE  LET s == Fordel(b, a, delta)
         IN  Postert(s.bok, Lagt(kwh, s.fordeling), g, a.kilde, mnd, seneste) /\ FraOgMed(s.fordeling, g)
<1>1. PICK f : f = FordelDelta(b.sist.tid, a.tid, delta)
  OBVIOUS
<1>2. PICK est : est = (a.kilde \in Estimerte)
  OBVIOUS
<1>3. PICK ny : ny = ManedAv[Time(a.tid - 1)]
  OBVIOUS
<1>4. PICK b0 : b0 = Apnet(b)
  OBVIOUS
<1>5. PICK s : s = Fordel(b, a, delta)
  OBVIOUS
<1>6. PICK c : c = s.bok
  OBVIOUS
<1>7. b.sist.tid \in Tikk /\ b.sist.tid \in Nat /\ a.tid \in Nat /\ BokInv(b) /\ HelBok(b)
  BY TikkHel DEF BokInv, StrukturOK, TellbarBok
<1>8. /\ ny \in Maneder /\ ny \in Nat /\ ny <= mnd
      /\ \A h \in DOMAIN f : ManedAv[h] \in Nat /\ ManedAv[h] <= ny /\ h \in Int
      /\ Timesplitt(f) /\ DOMAIN f = Time(b.sist.tid) .. Time(a.tid - 1)
  <2>1. /\ ny \in Maneder /\ ny \in Nat /\ \A h \in DOMAIN f : ManedAv[h] <= ny
        /\ Timesplitt(f)
    BY <1>1, <1>3, <1>7, VinduManed, SplittType
  <2>2. DOMAIN f = Time(b.sist.tid) .. Time(a.tid - 1)
    BY <1>1, <1>7, VinduType
  <2>3. \A h \in Timer : ManedAv[h] \in Nat /\ h \in Int
    BY ManedType, TidAssumption DEF Timer
  <2>. QED
    BY <1>3, <2>1, <2>2, <2>3 DEF Timesplitt
<1>9. EtterFordeling(b, c, b0, f, est, ny)
  BY <1>1, <1>2, <1>3, <1>4, <1>5, <1>6, <1>7, FordelForm
<1>10. /\ BokInv(b0) /\ b0.aktiv \in Nat /\ b0.poster = b.poster
       /\ b.aktiv # Ingen => b0.aktiv = b.aktiv
       /\ b.aktiv = Ingen => DOMAIN b.poster = {} /\ b0.aktiv = ManedAv[Time(b.sist.tid)]
       /\ Bokform(b0)
  <2>1. /\ BokInv(b0) /\ b0.aktiv \in Nat /\ b0.poster = b.poster
        /\ b.aktiv # Ingen => b0 = b
        /\ b.aktiv = Ingen => DOMAIN b.poster = {} /\ b0.aktiv = ManedAv[Time(b.sist.tid)]
    BY <1>4, <1>7, ApnetInv
  <2>. QED
    BY <2>1 DEF BokInv, StrukturOK, Bokform
<1>11. /\ \A h \in DOMAIN b.poster : h \in DOMAIN kwh /\ b.poster[h].kwh = kwh[h]
       /\ \A h \in DOMAIN kwh : /\ b.aktiv # Ingen /\ ManedAv[h] <= b0.aktiv /\ h \in Int
                                /\ ManedAv[h] \in Nat /\ kwh[h] \in Nat
       /\ \A h \in DOMAIN kwh : ManedAv[h] = b0.aktiv /\ g <= h => h \in DOMAIN b.poster
       /\ b0.aktiv <= mnd
       /\ g <= Time(b.sist.tid)
  <2>1. \A h \in Timer : ManedAv[h] \in Nat /\ h \in Int
    BY ManedType, TidAssumption DEF Timer
  <2>2. \A h \in DOMAIN kwh : h \in Timer /\ kwh[h] \in Nat
    BY DEF Timesplitt
  <2>. QED
    BY <1>10, <2>1, <2>2 DEF Postert
<1>a. ny \in Nat /\ b0.aktiv \in Nat
  BY <1>8, <1>10
<1>b. PICK akt \in Nat : akt = b0.aktiv
  BY <1>a
<1>c. /\ \A h \in DOMAIN f : ManedAv[h] \in Nat /\ ManedAv[h] <= ny
      /\ \A h \in DOMAIN kwh : ManedAv[h] \in Nat /\ ManedAv[h] <= akt
  BY <1>8, <1>11, <1>b
<1>12. PICK land : land = Landet(b0, f)
  OBVIOUS
<1>13. PICK l : l = s.fordeling
  OBVIOUS
<1>14. DOMAIN l = land /\ \A h \in land : l[h] = f[h]
  <2> DEFINE bak == {h \in DOMAIN f : ManedAv[h] < b0.aktiv}
  <2>1. l = Restrict(f, DOMAIN f \ bak)
    BY <1>1, <1>4, <1>5, <1>13 DEF Fordel, Svar, Apnet
  <2>2. DOMAIN f \ bak = land
    BY <1>12 DEF Landet
  <2>. QED
    BY <2>1, <2>2 DEF Restrict
<1>15. \A h \in land : /\ h \in DOMAIN f /\ h \in Int /\ f[h] \in Nat /\ g <= h
                       /\ ManedAv[h] \in Nat /\ b0.aktiv <= ManedAv[h] /\ ManedAv[h] <= ny
  <2>1. Time(b.sist.tid) \in Int
    BY <1>7, TimeType, TidAssumption DEF Timer
  <2>2. \A h \in DOMAIN f : Time(b.sist.tid) <= h /\ f[h] \in Nat
    BY <1>8, <2>1 DEF Timesplitt
  <2>3. \A h \in land : h \in DOMAIN f /\ ~ (ManedAv[h] < b0.aktiv)
    BY <1>12 DEF Landet
  <2>4. \A h \in DOMAIN f : g <= h
    BY <1>8, <1>11, <2>1, <2>2
  <2>5. \A h \in land : ManedAv[h] \in Nat /\ ManedAv[h] <= ny /\ akt <= ManedAv[h]
    BY <1>a, <1>b, <1>c, <2>3
  <2>6. \A h \in land : h \in Int
    BY <1>8, <2>3
  <2>. QED
    BY <1>b, <2>2, <2>3, <2>4, <2>5, <2>6
<1>d. \A h \in land : ManedAv[h] \in Nat /\ akt <= ManedAv[h] /\ ManedAv[h] <= ny
  BY <1>15, <1>b
<1>16. FraOgMed(l, g)
  BY <1>14, <1>15 DEF FraOgMed
<1>17. c.sist = a
  BY <1>5, <1>6, <1>7, FordelInv
<1>18. PICK kwh2 : kwh2 = Lagt(kwh, l)
  OBVIOUS
<1>19. /\ DOMAIN kwh2 = DOMAIN kwh \cup land
       /\ \A h \in land : kwh2[h] = (IF h \in DOMAIN kwh THEN kwh[h] ELSE 0) + f[h]
       /\ \A h \in DOMAIN kwh \ land : kwh2[h] = kwh[h]
  <2>1. /\ DOMAIN kwh2 = DOMAIN kwh \cup DOMAIN l
        /\ \A h \in DOMAIN kwh2 : kwh2[h] = (IF h \in DOMAIN kwh THEN kwh[h] ELSE 0)
                                            + (IF h \in DOMAIN l THEN l[h] ELSE 0)
    BY <1>18 DEF Lagt
  <2>. QED
    BY <1>11, <1>14, <2>1
<1>20. /\ \A h \in DOMAIN c.poster : h \in DOMAIN kwh2 /\ c.poster[h].kwh = kwh2[h]
       /\ \A h \in DOMAIN kwh2 : c.aktiv # Ingen /\ ManedAv[h] <= c.aktiv
       /\ \A h \in DOMAIN kwh2 : ManedAv[h] = c.aktiv /\ g <= h => h \in DOMAIN c.poster
       /\ c.aktiv <= mnd
  <2>1. CASE ny < b0.aktiv
    <3>1. land = {}
      BY <1>a, <1>b, <1>d, <2>1
    <3>2. c.poster = b.poster /\ c.aktiv = b0.aktiv
      BY <1>9, <1>10, <2>1 DEF EtterFordeling
    <3>3. \A h \in DOMAIN kwh2 : c.aktiv # Ingen
      BY <1>10, <1>11, <1>19, <3>1, <3>2
    <3>. QED
      BY <1>11, <1>19, <3>1, <3>2, <3>3
  <2>2. CASE ~ (ny < b0.aktiv)
    <3>1. akt <= ny
      BY <1>a, <1>b, <2>2
    <3>2. PICK D : D = ForManed(b0, ny, f, est)
      OBVIOUS
    <3>3. c.poster = D.poster /\ c.aktiv = D.aktiv
      BY <1>9, <2>2, <3>2 DEF EtterFordeling
    <3>4. PICK I : I = IManed(f, ny)
      OBVIOUS
    <3>5. /\ c.aktiv = ny
          /\ DOMAIN c.poster = (IF ny = b0.aktiv THEN DOMAIN b.poster ELSE {}) \cup I
          /\ \A h \in I : c.poster[h].kwh =
               (IF ny = b0.aktiv /\ h \in DOMAIN b.poster THEN b.poster[h].kwh ELSE 0) + f[h]
          /\ \A h \in DOMAIN c.poster \ I : c.poster[h].kwh = b.poster[h].kwh
      <4>1. /\ D.aktiv = ny
            /\ DOMAIN D.poster = (IF ny = b0.aktiv THEN DOMAIN b0.poster ELSE {}) \cup I
            /\ \A h \in I : D.poster[h].kwh =
                 (IF ny = b0.aktiv /\ h \in DOMAIN b0.poster THEN b0.poster[h].kwh ELSE 0) + f[h]
            /\ \A h \in DOMAIN D.poster \ I : D.poster[h].kwh = b0.poster[h].kwh
        BY <1>10, <3>2, <3>4, ForManedPoster
      <4>. QED
        BY <1>10, <3>3, <4>1
    <3>6. \A h : h \in I <=> h \in land /\ ManedAv[h] = ny
      <4>1. \A h \in DOMAIN f : ManedAv[h] = ny => ~ (ManedAv[h] < b0.aktiv)
        BY <1>a, <1>b, <1>c, <3>1
      <4>. QED
        BY <1>12, <3>4, <4>1 DEF IManed, Gruppe, Landet
    <3>7. \A h \in DOMAIN kwh2 : ManedAv[h] <= ny
      <4>1. \A h \in DOMAIN kwh : ManedAv[h] <= ny
        BY <1>a, <1>c, <3>1
      <4>. QED
        BY <1>19, <1>d, <4>1
    <3>8. ASSUME NEW h \in DOMAIN kwh, ManedAv[h] = ny
          PROVE  ny = b0.aktiv
      <4>1. ny <= akt
        BY <1>c, <3>8
      <4>. QED
        BY <1>a, <1>b, <3>1, <4>1
    <3>9. ASSUME NEW h \in DOMAIN kwh2, ManedAv[h] = ny, g <= h
          PROVE  h \in DOMAIN c.poster
      <4>1. CASE h \in land
        BY <3>5, <3>6, <3>9, <4>1
      <4>2. CASE h \notin land
        <5>1. h \in DOMAIN kwh /\ ny = b0.aktiv
          BY <1>19, <3>8, <3>9, <4>2
        <5>2. h \in DOMAIN b.poster
          BY <1>11, <3>9, <5>1
        <5>. QED
          BY <3>5, <5>1, <5>2
      <4>. QED
        BY <4>1, <4>2
    <3>10. ASSUME NEW h \in DOMAIN c.poster
           PROVE  h \in DOMAIN kwh2 /\ c.poster[h].kwh = kwh2[h]
      <4>1. CASE h \in I
        <5>1. h \in land /\ ManedAv[h] = ny /\ g <= h /\ kwh2[h] = (IF h \in DOMAIN kwh THEN kwh[h] ELSE 0) + f[h]
          BY <1>15, <1>19, <3>6, <4>1
        <5>2. c.poster[h].kwh = (IF ny = b0.aktiv /\ h \in DOMAIN b.poster THEN b.poster[h].kwh ELSE 0) + f[h]
          BY <3>5, <4>1
        <5>3. CASE h \in DOMAIN kwh
          <6>1. ny = b0.aktiv
            BY <3>8, <5>1, <5>3
          <6>2. h \in DOMAIN b.poster /\ b.poster[h].kwh = kwh[h]
            BY <1>11, <5>1, <5>3, <6>1
          <6>. QED
            BY <1>19, <5>1, <5>2, <5>3, <6>1, <6>2
        <5>4. CASE h \notin DOMAIN kwh
          BY <1>11, <1>19, <5>1, <5>2, <5>4
        <5>. QED
          BY <5>3, <5>4
      <4>2. CASE h \notin I
        <5>1. ny = b0.aktiv /\ h \in DOMAIN b.poster /\ c.poster[h].kwh = b.poster[h].kwh
          BY <3>5, <4>2
        <5>2. h \in DOMAIN kwh /\ b.poster[h].kwh = kwh[h]
          BY <1>11, <5>1
        <5>3. ManedAv[h] = b0.aktiv
          <6>1. b.aktiv # Ingen => b0.aktiv = b.aktiv
            BY <1>10
          <6>2. b.aktiv # Ingen
            BY <1>11, <5>2
          <6>. QED
            BY <1>7, <5>1, <6>1, <6>2 DEF BokInv, StrukturOK
        <5>4. h \notin land
          BY <3>6, <4>2, <5>1, <5>3
        <5>. QED
          BY <1>19, <5>1, <5>2, <5>4
      <4>. QED
        BY <4>1, <4>2
    <3>11. ny # Ingen
      BY <1>8, ManederNat
    <3>. QED
      BY <1>8, <3>5, <3>7, <3>9, <3>10, <3>11
  <2>. QED
    BY <2>1, <2>2
<1>21. c.sist # Ingen => g <= Time(c.sist.tid) /\ c.sist.tid <= seneste
  <2>1. Time(b.sist.tid) <= Time(a.tid)
    <3>1. TikkPerTime \in Nat \ {0}
      BY TidAssumption DEF TikkPerTime
    <3>. QED
      BY <1>7, <3>1 DEF Time
  <2>2. Time(b.sist.tid) \in Int /\ Time(a.tid) \in Int
    BY <1>7, TimeType, TidAssumption DEF Timer
  <2>. QED
    BY <1>11, <1>17, <2>1, <2>2
<1>22. DOMAIN kwh2 # {} => c.sist # Ingen /\ c.sist.kilde = a.kilde
  BY <1>17
<1>23. Postert(c, kwh2, g, a.kilde, mnd, seneste)
  BY <1>20, <1>21, <1>22 DEF Postert
<1>. QED
  BY <1>5, <1>6, <1>13, <1>16, <1>18, <1>23

\* An answer that books nothing leaves the ledger; the baseline may move on.
LEMMA UtenEnergiPostert ==
  ASSUME NEW b, NEW c, c.poster = b.poster, c.aktiv = b.aktiv,
         NEW kwh, Timesplitt(kwh), NEW f, f = <<>>,
         NEW g, NEW sensor, NEW mnd, NEW seneste, Postert(b, kwh, g, sensor, mnd, seneste),
         \/ c.sist = b.sist
         \/ /\ c.sist # Ingen /\ c.sist.kilde = sensor
            /\ g <= Time(c.sist.tid) /\ c.sist.tid <= seneste
  PROVE  Postert(c, Lagt(kwh, f), g, sensor, mnd, seneste) /\ FraOgMed(f, g)
<1>1. DOMAIN f = {}
  OBVIOUS
<1>2. PICK kwh2 : kwh2 = Lagt(kwh, f)
  OBVIOUS
<1>3. DOMAIN kwh2 = DOMAIN kwh /\ \A h \in DOMAIN kwh : kwh2[h] = kwh[h]
  BY <1>1, <1>2 DEF Lagt, Timesplitt
<1>4. Postert(c, kwh2, g, sensor, mnd, seneste)
  BY <1>3 DEF Postert
<1>. QED
  BY <1>1, <1>2, <1>4 DEF FraOgMed

\* The hour of a later instant is not earlier.
LEMMA TimeStiger ==
  ASSUME NEW t \in Tikk, NEW u \in Tikk, t <= u
  PROVE  Time(t) <= Time(u) /\ Time(t) \in Nat /\ Time(u) \in Nat
         /\ ManedAv[Time(t)] <= ManedAv[Time(u)]
<1>1. t \in Nat /\ u \in Nat
  BY TikkHel
<1>2. Time(t) \in Timer /\ Time(u) \in Timer
  BY TimeType
<1>3. Time(t) <= Time(u)
  <2>1. TikkPerTime \in Nat \ {0}
    BY TidAssumption DEF TikkPerTime
  <2>. QED
    BY <1>1, <2>1 DEF Time
<1>. QED
  BY <1>2, <1>3, ManedStiger, TidAssumption DEF Timer

\* bokfor: the answer to a reading of the sensor, taken by seneste.  A baseline is
\* set to an earlier hour, or to another source, only while the ledger is empty.
LEMMA BokforPostert ==
  ASSUME NEW b, TellbarBok(b), NEW kwh, Timesplitt(kwh), NEW g \in Int, DOMAIN kwh = {} => g = 0,
         NEW seneste \in Tikk, NEW mnd \in Nat, ManedAv[Time(seneste)] <= mnd,
         NEW a, a # Ingen, a.tid \in Tikk, a.verdi \in Int, a.tid <= seneste,
         Postert(b, kwh, g, a.kilde, mnd, seneste)
  PROVE  LET s == Bokfor(b, a)
         IN  Postert(s.bok, Lagt(kwh, s.fordeling), g, a.kilde, mnd, seneste) /\ FraOgMed(s.fordeling, g)
<1>1. PICK s : s = Bokfor(b, a)
  OBVIOUS
<1> DEFINE flyttet == [b EXCEPT !.sist = a]
           sprang(d) == [flyttet EXCEPT !.avvist = @ + d]
           Maalet == Postert(s.bok, Lagt(kwh, s.fordeling), g, a.kilde, mnd, seneste)
                     /\ FraOgMed(s.fordeling, g)
<1>2. Bokform(b)
  BY DEF TellbarBok, BokInv, StrukturOK, Bokform
<1>3. /\ flyttet.poster = b.poster /\ flyttet.aktiv = b.aktiv /\ flyttet.sist = a
      /\ \A d : /\ sprang(d).poster = b.poster /\ sprang(d).aktiv = b.aktiv
                /\ sprang(d).sist = a
  BY <1>2 DEF Bokform, TomBok
<1>4. seneste \in Nat /\ a.tid \in Nat /\ Time(a.tid) \in Nat
  BY TikkHel, TimeStiger
<1>5. ASSUME s.bok = b, s.fordeling = <<>>
      PROVE  Maalet
  <2>1. PICK f : f = s.fordeling
    OBVIOUS
  <2>2. Postert(b, Lagt(kwh, f), g, a.kilde, mnd, seneste) /\ FraOgMed(f, g)
    BY <1>5, <2>1, UtenEnergiPostert
  <2>. QED
    BY <1>5, <2>1, <2>2
<1>6. ASSUME s.bok.poster = b.poster, s.bok.aktiv = b.aktiv, s.bok.sist = a, s.fordeling = <<>>,
             \/ b.sist = Ingen \/ b.sist.kilde # a.kilde \/ b.sist.tid < a.tid
      PROVE  Maalet
  <2>1. g <= Time(a.tid)
    <3>1. CASE DOMAIN kwh = {}
      BY <1>4, <3>1
    <3>2. CASE DOMAIN kwh # {}
      <4>1. b.sist # Ingen /\ b.sist.kilde = a.kilde /\ g <= Time(b.sist.tid)
        BY <3>2 DEF Postert
      <4>2. b.sist.tid \in Tikk /\ b.sist.tid < a.tid
        BY <1>6, <4>1 DEF TellbarBok, BokInv, StrukturOK
      <4>3. b.sist.tid <= a.tid
        <5>1. b.sist.tid \in Nat
          BY <4>2, TikkHel
        <5>. QED
          BY <1>4, <4>2, <5>1
      <4>4. Time(b.sist.tid) <= Time(a.tid) /\ Time(b.sist.tid) \in Nat
        BY <4>2, <4>3, TimeStiger
      <4>. QED
        BY <1>4, <4>1, <4>4
    <3>. QED
      BY <3>1, <3>2
  <2>2. PICK c : c = s.bok
    OBVIOUS
  <2>3. PICK f : f = s.fordeling
    OBVIOUS
  <2>4. Postert(c, Lagt(kwh, f), g, a.kilde, mnd, seneste) /\ FraOgMed(f, g)
    <3>1. c.sist # Ingen /\ c.sist.kilde = a.kilde /\ g <= Time(c.sist.tid) /\ c.sist.tid <= seneste
      BY <1>6, <2>1, <2>2
    <3>2. c.poster = b.poster /\ c.aktiv = b.aktiv /\ f = <<>>
      BY <1>6, <2>2, <2>3
    <3>. QED
      BY <3>1, <3>2, UtenEnergiPostert
  <2>. QED
    BY <2>2, <2>3, <2>4
<1>7. CASE b.sist = Ingen \/ b.sist.kilde # a.kilde
  <2>1. s.fordeling = <<>> /\ s.bok = flyttet
    BY <1>1, <1>7 DEF Bokfor, UtenEnergi, Svar
  <2> HIDE DEF flyttet, sprang
  <2>. QED
    BY <1>1, <1>3, <1>6, <1>7, <2>1
<1>8. CASE /\ ~ (b.sist = Ingen \/ b.sist.kilde # a.kilde)
           /\ b.sist = a \/ a.tid < b.sist.tid \/ a.tid = b.sist.tid
  <2>1. s.fordeling = <<>> /\ s.bok = b
    BY <1>1, <1>8 DEF Bokfor, UtenEnergi, Svar
  <2> HIDE DEF flyttet, sprang
  <2>. QED
    BY <1>1, <1>5, <2>1
<1>9. CASE ~ (b.sist = Ingen \/ b.sist.kilde # a.kilde \/ b.sist = a \/ a.tid < b.sist.tid
              \/ a.tid = b.sist.tid)
  <2>1. b.sist # Ingen /\ b.sist.verdi \in Int /\ b.sist.tid \in Tikk /\ b.sist.tid \in Nat
    BY <1>9, TikkHel DEF TellbarBok, BokInv, StrukturOK
  <2>2. b.sist.tid < a.tid
    BY <1>4, <1>9, <2>1
  <2>3. ASSUME s.bok \in {flyttet} \cup {sprang(d) : d \in Nat}, s.fordeling = <<>>
        PROVE  Maalet
    <3>1. s.bok.poster = b.poster /\ s.bok.aktiv = b.aktiv /\ s.bok.sist = a
      <4> HIDE DEF flyttet, sprang
      <4>. QED
        BY <1>3, <2>3
    <3> HIDE DEF flyttet, sprang
    <3>. QED
      BY <1>6, <2>2, <2>3, <3>1
  <2>4. CASE a.kilde \in Estimerte /\ a.tid - b.sist.tid > MaksEstimertVindu
    <3>1. s.fordeling = <<>> /\ s.bok = flyttet
      BY <1>1, <1>9, <2>4 DEF Bokfor, BokforEstimert, UtenEnergi, Svar
    <3>. QED
      BY <1>1, <2>3, <3>1
  <2>5. CASE ~ (a.kilde \in Estimerte /\ a.tid - b.sist.tid > MaksEstimertVindu)
    <3>1. s = BokforDelta(b, a, Maalt(b, a))
      BY <1>1, <1>9, <2>5 DEF Bokfor, BokforEstimert, BokforTeller, Maalt
    <3>2. PICK d \in Int : d = Maalt(b, a)
      BY <2>1 DEF Maalt
    <3>3. CASE d < 0
      <4>1. s.fordeling = <<>> /\ s.bok = flyttet
        <5>1. ~ (d > MaksDelta)
          BY <3>2, <3>3, GrenseAssumption
        <5>. QED
          BY <3>1, <3>2, <3>3, <5>1 DEF BokforDelta, UtenEnergi, Svar
      <4>. QED
        BY <1>1, <2>3, <4>1
    <3>4. CASE ~ (d < 0) /\ d > MaksDelta
      <4>1. s.fordeling = <<>> /\ s.bok = sprang(d)
        BY <3>1, <3>2, <3>4 DEF BokforDelta, Svar
      <4>2. d \in Nat
        BY <3>2, <3>4
      <4> HIDE DEF sprang, flyttet
      <4>. QED
        BY <1>1, <2>3, <4>1, <4>2
    <3>5. CASE ~ (d < 0) /\ ~ (d > MaksDelta)
      <4>1. s = Fordel(b, a, d)
        BY <3>1, <3>2, <3>5 DEF BokforDelta
      <4>2. d \in Nat
        BY <3>2, <3>5
      <4>3. ManedAv[Time(a.tid - 1)] <= mnd /\ ManedAv[Time(b.sist.tid)] <= mnd
        <5>1. a.tid - 1 \in Tikk
          BY <2>1, <2>2, VinduType
        <5>2. a.tid - 1 <= seneste /\ b.sist.tid <= seneste
          BY <1>4, <2>1, <2>2
        <5>3. ManedAv[Time(a.tid - 1)] <= ManedAv[Time(seneste)]
          BY <5>1, <5>2, TimeStiger
        <5>4. ManedAv[Time(b.sist.tid)] <= ManedAv[Time(seneste)]
          BY <2>1, <5>2, TimeStiger
        <5>5. ManedAv[Time(a.tid - 1)] \in Nat /\ ManedAv[Time(b.sist.tid)] \in Nat
              /\ ManedAv[Time(seneste)] \in Nat
          BY <2>1, <5>1, TimeType, ManedType
        <5>. QED
          BY <5>3, <5>4, <5>5
      <4>4. LET u == Fordel(b, a, d)
            IN  Postert(u.bok, Lagt(kwh, u.fordeling), g, a.kilde, mnd, seneste)
                /\ FraOgMed(u.fordeling, g)
        BY <1>4, <2>1, <2>2, <4>2, <4>3, FordelPostert
      <4>. QED
        BY <1>1, <4>1, <4>4
    <3>. QED
      BY <3>2, <3>3, <3>4, <3>5
  <2>. QED
    BY <2>4, <2>5
<1>. QED
  BY <1>7, <1>8, <1>9

-----------------------------------------------------------------------------
(***************************************************************************)
(* The daily peaks.  They are squeezed between two bounds that growth of   *)
(* the ledger keeps: no hour is above the peak of its date, and no peak is *)
(* above every hour of its date.                                           *)
(***************************************************************************)

\* The hours of month m before the hour t that used anything.
Brukt(kwh, m, t) == {h \in DOMAIN kwh : ManedAv[h] = m /\ h < t /\ kwh[h] > 0}

Topper(topp) == /\ topp = [d \in DOMAIN topp |-> topp[d]]
                /\ \A d \in DOMAIN topp : topp[d] \in Nat

Dekker(topp, kwh, T) == \A h \in T : Dogn[h] \in DOMAIN topp /\ kwh[h] <= topp[Dogn[h]]

Naadd(topp, kwh, T) == \A d \in DOMAIN topp : \E h \in T : Dogn[h] = d /\ topp[d] <= kwh[h]

\* The peaks r are those of topp and the hours of w.
Vokste(topp, w, r) ==
  /\ Topper(r)
  /\ DOMAIN r = DOMAIN topp \cup {Dogn[h] : h \in DOMAIN w}
  /\ \A d \in DOMAIN topp : topp[d] <= r[d]
  /\ \A h \in DOMAIN w : w[h] <= r[Dogn[h]]
  /\ \A d \in DOMAIN r : \/ d \in DOMAIN topp /\ r[d] = topp[d]
                         \/ \E h \in DOMAIN w : Dogn[h] = d /\ r[d] <= w[h]

LEMMA MedTopperForm ==
  ASSUME NEW topp, \A d \in DOMAIN topp : topp[d] \in Nat,
         NEW kwh, IsFiniteSet(DOMAIN kwh), \A h \in DOMAIN kwh : kwh[h] \in Nat
  PROVE  Vokste(topp, kwh, MedTopper(topp, kwh))
<1> DEFINE dager == {Dogn[h] : h \in DOMAIN kwh}
           Gammel(d) == IF d \in DOMAIN topp THEN topp[d] ELSE 0
           I(d) == {h \in DOMAIN kwh : Dogn[h] = d}
           V(d) == {Gammel(d)} \cup {kwh[h] : h \in I(d)}
<1>1. PICK r : r = MedTopper(topp, kwh)
  OBVIOUS
<1>2. r = [d \in DOMAIN topp \cup dager |-> Max(V(d))]
  BY <1>1 DEF MedTopper
<1>3. \A d : Gammel(d) \in Nat
  OBVIOUS
<1>4. ASSUME NEW d
      PROVE  Max(V(d)) \in V(d) /\ \A y \in V(d) : Max(V(d)) >= y
  <2>1. PICK J : J = {kwh[h] : h \in I(d)}
    OBVIOUS
  <2>2. IsFiniteSet(J)
    <3> DEFINE G == {T \in SUBSET DOMAIN kwh : IsFiniteSet({kwh[h] : h \in T \cap I(d)})}
    <3>1. {} \in G
      <4>1. {kwh[h] : h \in {} \cap I(d)} = {}
        OBVIOUS
      <4>. QED
        BY <4>1, FS_EmptySet
    <3>2. ASSUME NEW T \in SUBSET DOMAIN kwh, NEW e \in DOMAIN kwh, T \in G, e \notin T
          PROVE  T \cup {e} \in G
      <4>1. PICK A : A = {kwh[h] : h \in T \cap I(d)}
        OBVIOUS
      <4>2. PICK B : B = {kwh[h] : h \in (T \cup {e}) \cap I(d)}
        OBVIOUS
      <4>3. IsFiniteSet(A) /\ IsFiniteSet(A \cup {kwh[e]})
        BY <3>2, <4>1, FS_AddElement
      <4>4. B = A \/ B = A \cup {kwh[e]}
        BY <4>1, <4>2
      <4>. QED
        BY <4>2, <4>3, <4>4
    <3>3. DOMAIN kwh \in G
      <4> HIDE DEF G
      <4>. QED
        BY <3>1, <3>2, EndeligInduksjon
    <3>4. J = {kwh[h] : h \in DOMAIN kwh \cap I(d)}
      BY <2>1
    <3>. QED
      BY <3>3, <3>4
  <2>3. V(d) = J \cup {Gammel(d)}
    BY <2>1
  <2>4. IsFiniteSet(V(d))
    BY <2>2, <2>3, FS_AddElement
  <2>5. V(d) \subseteq Int
    <3>1. J \subseteq Int
      BY <2>1
    <3>. QED
      BY <1>3, <2>3, <3>1
  <2>6. V(d) # {}
    OBVIOUS
  <2> HIDE DEF V
  <2>. QED
    BY <2>4, <2>5, <2>6, MaksI
<1>5. \A d : V(d) \subseteq Nat
  <2> SUFFICES ASSUME NEW d PROVE V(d) \subseteq Nat
    OBVIOUS
  <2>. QED
    BY <1>3
<1>6. \A d : Gammel(d) \in V(d) /\ \A h \in DOMAIN kwh : Dogn[h] = d => kwh[h] \in V(d)
  OBVIOUS
<1>7. \A d : \A y \in V(d) : y = Gammel(d) \/ \E h \in DOMAIN kwh : Dogn[h] = d /\ y = kwh[h]
  OBVIOUS
<1>8. \A d \in dager : \E h \in DOMAIN kwh : Dogn[h] = d
  OBVIOUS
<1>9. \A h \in DOMAIN kwh : Dogn[h] \in dager
  OBVIOUS
<1>10. DOMAIN r = DOMAIN topp \cup dager /\ \A d \in DOMAIN r : r[d] = Max(V(d))
  BY <1>2
<1>11. r = [d \in DOMAIN r |-> r[d]]
  BY <1>2
<1>12. \A d \in DOMAIN r : r[d] \in Nat /\ r[d] \in V(d) /\ \A y \in V(d) : y <= r[d]
  <2> HIDE DEF V, dager, Gammel
  <2> SUFFICES ASSUME NEW d \in DOMAIN r
               PROVE  r[d] \in Nat /\ r[d] \in V(d) /\ \A y \in V(d) : y <= r[d]
    OBVIOUS
  <2>1. r[d] \in V(d) /\ \A y \in V(d) : r[d] >= y
    BY <1>4, <1>10
  <2>2. r[d] \in Nat /\ \A y \in V(d) : y \in Nat
    BY <1>5, <2>1
  <2>. QED
    BY <2>1, <2>2
<1>13. \A d \in DOMAIN topp : topp[d] <= r[d]
  <2>1. \A d \in DOMAIN topp : Gammel(d) = topp[d] /\ d \in DOMAIN r
    BY <1>10
  <2> HIDE DEF V, dager, Gammel
  <2>. QED
    BY <1>6, <1>12, <2>1
<1>14. \A h \in DOMAIN kwh : kwh[h] <= r[Dogn[h]]
  <2> HIDE DEF V, dager, Gammel
  <2>. QED
    BY <1>6, <1>9, <1>10, <1>12
<1>15. ASSUME NEW d \in DOMAIN r
       PROVE  \/ d \in DOMAIN topp /\ r[d] = topp[d]
              \/ \E h \in DOMAIN kwh : Dogn[h] = d /\ r[d] <= kwh[h]
  <2>1. r[d] = Gammel(d) \/ \E h \in DOMAIN kwh : Dogn[h] = d /\ r[d] = kwh[h]
    <3> HIDE DEF V, dager, Gammel
    <3>. QED
      BY <1>7, <1>12
  <2>2. CASE \E h \in DOMAIN kwh : Dogn[h] = d /\ r[d] = kwh[h]
    BY <2>2
  <2>3. CASE r[d] = Gammel(d) /\ d \in DOMAIN topp
    BY <2>3
  <2>4. CASE r[d] = Gammel(d) /\ d \notin DOMAIN topp
    <3>1. r[d] = 0 /\ d \in dager
      BY <1>10, <2>4
    <3>2. PICK h \in DOMAIN kwh : Dogn[h] = d
      BY <3>1
    <3>. QED
      BY <3>1, <3>2
  <2>. QED
    BY <2>1, <2>2, <2>3, <2>4
<1>. QED
  BY <1>1, <1>10, <1>11, <1>12, <1>13, <1>14, <1>15 DEF Topper, Vokste

\* The two bounds leave one possibility.
LEMMA TopperEntydig ==
  ASSUME NEW topp, Topper(topp), NEW kwh, Timesplitt(kwh), NEW T, T \subseteq DOMAIN kwh,
         Dekker(topp, kwh, T), Naadd(topp, kwh, T)
  PROVE  topp = MedTopper(<<>>, [h \in T |-> kwh[h]])
<1>1. PICK w : w = [h \in T |-> kwh[h]]
  OBVIOUS
<1>2. DOMAIN w = T /\ \A h \in T : w[h] = kwh[h] /\ kwh[h] \in Nat
  BY <1>1 DEF Timesplitt
<1>3. IsFiniteSet(DOMAIN w)
  BY <1>2, TimerEndelig, FS_Subset DEF Timesplitt
<1>4. PICK e : e = <<>>
  OBVIOUS
<1>5. DOMAIN e = {}
  BY <1>4
<1>6. PICK r : r = MedTopper(e, w)
  OBVIOUS
<1>7. /\ Topper(r)
      /\ DOMAIN r = {Dogn[h] : h \in T}
      /\ \A h \in T : kwh[h] <= r[Dogn[h]]
      /\ \A d \in DOMAIN r : \E h \in T : Dogn[h] = d /\ r[d] <= kwh[h]
  <2>1. /\ Topper(r)
        /\ DOMAIN r = DOMAIN e \cup {Dogn[h] : h \in DOMAIN w}
        /\ \A h \in DOMAIN w : w[h] <= r[Dogn[h]]
        /\ \A d \in DOMAIN r : \/ d \in DOMAIN e /\ r[d] = e[d]
                               \/ \E h \in DOMAIN w : Dogn[h] = d /\ r[d] <= w[h]
    <3>1. \A d \in DOMAIN e : e[d] \in Nat
      BY <1>5
    <3>2. \A h \in DOMAIN w : w[h] \in Nat
      BY <1>2
    <3>3. Vokste(e, w, MedTopper(e, w))
      BY <1>3, <3>1, <3>2, MedTopperForm
    <3>4. Vokste(e, w, r)
      BY <1>6, <3>3
    <3>. QED
      BY <3>4 DEF Vokste
  <2>. QED
    BY <1>2, <1>5, <2>1
<1>8. DOMAIN topp = DOMAIN r
  BY <1>7 DEF Dekker, Naadd
<1>9. ASSUME NEW d \in DOMAIN topp
      PROVE  topp[d] = r[d]
  <2>1. topp[d] \in Nat /\ r[d] \in Nat
    BY <1>7, <1>8 DEF Topper
  <2>2. PICK h \in T : Dogn[h] = d /\ topp[d] <= kwh[h]
    BY DEF Naadd
  <2>3. PICK g \in T : Dogn[g] = d /\ r[d] <= kwh[g]
    BY <1>7, <1>8
  <2>4. kwh[h] <= r[d] /\ kwh[g] <= topp[d] /\ kwh[h] \in Nat /\ kwh[g] \in Nat
    BY <1>2, <1>7, <2>2, <2>3 DEF Dekker
  <2>. QED
    BY <2>1, <2>2, <2>3, <2>4
<1>10. topp = r
  BY <1>7, <1>8, <1>9 DEF Topper
<1>. QED
  BY <1>1, <1>4, <1>6, <1>10

\* The peaks of the month m between two instants of a poll: every used hour before
\* g is covered, and no peak is above what its date used before t.
ToppMellom(topp, kwh, m, g, t) ==
  Topper(topp) /\ Dekker(topp, kwh, Brukt(kwh, m, g)) /\ Naadd(topp, kwh, Brukt(kwh, m, t))

\* The ledger grows from g on: what is covered stays covered, and what a date
\* reached it has still reached.
LEMMA ToppVokst ==
  ASSUME NEW topp, NEW kwh, Timesplitt(kwh), NEW f, Timesplitt(f), NEW g \in Int, FraOgMed(f, g),
         NEW m, NEW t, ToppMellom(topp, kwh, m, g, t)
  PROVE  ToppMellom(topp, Lagt(kwh, f), m, g, t)
<1>1. PICK ny : ny = Lagt(kwh, f)
  OBVIOUS
<1>2. /\ DOMAIN ny = DOMAIN kwh \cup DOMAIN f
      /\ \A h \in DOMAIN ny : ny[h] = (IF h \in DOMAIN kwh THEN kwh[h] ELSE 0)
                                      + (IF h \in DOMAIN f THEN f[h] ELSE 0)
  BY <1>1 DEF Lagt
<1>3. /\ \A h \in DOMAIN kwh : kwh[h] \in Nat
      /\ \A h \in DOMAIN f : f[h] \in Nat /\ g <= h
  BY DEF Timesplitt, FraOgMed
<1>4. \A h \in DOMAIN kwh : ny[h] \in Nat /\ kwh[h] <= ny[h]
  BY <1>2, <1>3
<1>5. \A h \in DOMAIN ny : h \in Int
  BY <1>2, TidAssumption DEF Timesplitt, Timer
<1>6. \A h \in DOMAIN ny : h < g => h \in DOMAIN kwh /\ ny[h] = kwh[h]
  <2> SUFFICES ASSUME NEW h \in DOMAIN ny, h < g PROVE h \in DOMAIN kwh /\ ny[h] = kwh[h]
    OBVIOUS
  <2>1. h \notin DOMAIN f
    BY <1>3, <1>5
  <2>. QED
    BY <1>2, <1>3, <2>1
<1>7. Brukt(ny, m, g) \subseteq Brukt(kwh, m, g)
  BY <1>6 DEF Brukt
<1>8. Dekker(topp, ny, Brukt(ny, m, g))
  <2>1. \A h \in Brukt(ny, m, g) : h \in Brukt(kwh, m, g) /\ ny[h] = kwh[h]
    BY <1>6, <1>7 DEF Brukt
  <2>. QED
    BY <2>1 DEF Dekker, ToppMellom
<1>9. \A h \in Brukt(kwh, m, t) : h \in Brukt(ny, m, t) /\ kwh[h] <= ny[h] /\ kwh[h] \in Nat /\ ny[h] \in Nat
  BY <1>2, <1>3, <1>4 DEF Brukt
<1>10. Naadd(topp, ny, Brukt(ny, m, t))
  <2> SUFFICES ASSUME NEW d \in DOMAIN topp
               PROVE  \E h \in Brukt(ny, m, t) : Dogn[h] = d /\ topp[d] <= ny[h]
    BY DEF Naadd
  <2>1. PICK h \in Brukt(kwh, m, t) : Dogn[h] = d /\ topp[d] <= kwh[h]
    BY DEF ToppMellom, Naadd
  <2>2. topp[d] \in Nat
    BY DEF ToppMellom, Topper
  <2>. QED
    BY <1>9, <2>1, <2>2
<1>. QED
  BY <1>1, <1>8, <1>10 DEF ToppMellom

\* The bounds may be moved apart.
LEMMA ToppVidere ==
  ASSUME NEW topp, NEW kwh, Timesplitt(kwh), NEW m,
         NEW t \in Int, NEW g \in Int, NEW u \in Int, g <= t, t <= u,
         ToppMellom(topp, kwh, m, t, t)
  PROVE  ToppMellom(topp, kwh, m, g, u)
<1>1. \A h \in DOMAIN kwh : h \in Int
  BY TidAssumption DEF Timesplitt, Timer
<1>2. Brukt(kwh, m, g) \subseteq Brukt(kwh, m, t) /\ Brukt(kwh, m, t) \subseteq Brukt(kwh, m, u)
  BY <1>1 DEF Brukt
<1>. QED
  BY <1>2 DEF ToppMellom, Dekker, Naadd

\* _oppdater_timesmaks: the peaks keep the bounds, and cover every used hour
\* before the clock's if the book has a post for those from g on.
LEMMA TimesmaksTopp ==
  ASSUME NEW b, NEW c, FelterOK(c), NEW kwh, Timesplitt(kwh), NEW g \in Int, Time(naa) \in Int,
         \A h \in DOMAIN b.poster : h \in DOMAIN kwh /\ b.poster[h].kwh = kwh[h],
         ToppMellom(c.topp, kwh, c.maned, g, Time(naa))
  PROVE  LET r == Timesmaks(b, c)
         IN  /\ ToppMellom(r.topp, kwh, c.maned, g, Time(naa))
             /\ (\A h \in DOMAIN kwh : ManedAv[h] = c.maned /\ g <= h => h \in DOMAIN b.poster) =>
                  ToppMellom(r.topp, kwh, c.maned, Time(naa), Time(naa))
<1>1. PICK r : r = Timesmaks(b, c)
  OBVIOUS
<1>2. PICK P : P = {h \in DOMAIN b.poster : h < Time(naa) /\ ManedAv[h] = c.maned /\ b.poster[h].kwh > 0}
  OBVIOUS
<1>3. PICK w : w = [h \in P |-> b.poster[h].kwh]
  OBVIOUS
<1>4. PICK topp : topp = c.topp
  OBVIOUS
<1>5. r.topp = MedTopper(topp, w)
  BY <1>1, <1>2, <1>3, <1>4 DEF Timesmaks, FelterOK, Minne
<1>6. PICK t : t = Time(naa)
  OBVIOUS
<1>7. PICK m : m = c.maned
  OBVIOUS
<1>8. ToppMellom(topp, kwh, m, g, t) /\ t \in Int
  BY <1>4, <1>6, <1>7
<1>9. \A h \in DOMAIN kwh : h \in Int /\ kwh[h] \in Nat
  BY TidAssumption DEF Timesplitt, Timer
<1>10. /\ DOMAIN w = P /\ \A h \in P : w[h] = kwh[h] /\ h \in DOMAIN kwh
       /\ P = {h \in Brukt(kwh, m, t) : h \in DOMAIN b.poster}
  BY <1>2, <1>3, <1>6, <1>7 DEF Brukt
<1>11. IsFiniteSet(DOMAIN w)
  BY <1>10, TimerEndelig, FS_Subset DEF Timesplitt
<1>a. \A h \in DOMAIN w : w[h] \in Nat
  BY <1>9, <1>10
<1>12. PICK ny : ny = MedTopper(topp, w)
  OBVIOUS
<1>13. \A d \in DOMAIN topp : topp[d] \in Nat
  BY <1>8 DEF ToppMellom, Topper
<1>14. /\ Topper(ny)
       /\ DOMAIN ny = DOMAIN topp \cup {Dogn[h] : h \in DOMAIN w}
       /\ \A d \in DOMAIN topp : topp[d] <= ny[d]
       /\ \A h \in DOMAIN w : w[h] <= ny[Dogn[h]]
       /\ \A d \in DOMAIN ny : \/ d \in DOMAIN topp /\ ny[d] = topp[d]
                               \/ \E h \in DOMAIN w : Dogn[h] = d /\ ny[d] <= w[h]
  <2>1. Vokste(topp, w, ny)
    BY <1>11, <1>a, <1>12, <1>13, MedTopperForm
  <2>. QED
    BY <2>1 DEF Vokste
<1>15. \A d \in DOMAIN ny : ny[d] \in Nat
  BY <1>14 DEF Topper
<1>16. ASSUME NEW h \in Brukt(kwh, m, g)
       PROVE  Dogn[h] \in DOMAIN ny /\ kwh[h] <= ny[Dogn[h]]
  <2>1. Dogn[h] \in DOMAIN topp /\ kwh[h] <= topp[Dogn[h]]
    BY <1>8 DEF ToppMellom, Dekker
  <2>2. Dogn[h] \in DOMAIN ny /\ topp[Dogn[h]] <= ny[Dogn[h]]
    BY <1>14, <2>1
  <2>3. kwh[h] \in Nat /\ topp[Dogn[h]] \in Nat /\ ny[Dogn[h]] \in Nat
    BY <1>9, <1>13, <1>15, <2>1, <2>2 DEF Brukt
  <2>. QED
    BY <2>1, <2>2, <2>3
<1>17. ASSUME NEW h \in P
       PROVE  Dogn[h] \in DOMAIN ny /\ kwh[h] <= ny[Dogn[h]]
  BY <1>10, <1>14
<1>18. Naadd(ny, kwh, Brukt(kwh, m, t))
  <2> SUFFICES ASSUME NEW d \in DOMAIN ny
               PROVE  \E h \in Brukt(kwh, m, t) : Dogn[h] = d /\ ny[d] <= kwh[h]
    BY DEF Naadd
  <2>1. CASE d \in DOMAIN topp /\ ny[d] = topp[d]
    BY <1>8, <2>1 DEF ToppMellom, Naadd
  <2>2. CASE \E h \in DOMAIN w : Dogn[h] = d /\ ny[d] <= w[h]
    <3>1. PICK h \in DOMAIN w : Dogn[h] = d /\ ny[d] <= w[h]
      BY <2>2
    <3>2. h \in Brukt(kwh, m, t) /\ w[h] = kwh[h]
      BY <1>10
    <3>. QED
      BY <3>1, <3>2
  <2>. QED
    BY <1>14, <2>1, <2>2
<1>19. ToppMellom(ny, kwh, m, g, t)
  BY <1>14, <1>16, <1>18 DEF ToppMellom, Dekker
<1>20. ASSUME \A h \in DOMAIN kwh : ManedAv[h] = m /\ g <= h => h \in DOMAIN b.poster
       PROVE  ToppMellom(ny, kwh, m, t, t)
  <2>1. \A h \in Brukt(kwh, m, t) : h \in P \/ h \in Brukt(kwh, m, g)
    <3> SUFFICES ASSUME NEW h \in Brukt(kwh, m, t), ~ (g <= h) PROVE h \in Brukt(kwh, m, g)
      BY <1>10, <1>20 DEF Brukt
    <3>. QED
      BY <1>9 DEF Brukt
  <2>. QED
    BY <1>14, <1>16, <1>17, <1>18, <2>1 DEF ToppMellom, Dekker
<1>. QED
  BY <1>1, <1>5, <1>6, <1>7, <1>12, <1>19, <1>20

-----------------------------------------------------------------------------
(***************************************************************************)
(* The posts and the peaks through the poll.                               *)
(***************************************************************************)
SammePostene(b, c) == c.poster = b.poster /\ c.aktiv = b.aktiv /\ c.sist = b.sist

LEMMA OppdaterPostene ==
  ASSUME NEW b, TellbarBok(b)
  PROVE  SammePostene(b, Oppdater(b))
<1>1. StrukturOK(b)
  BY DEF TellbarBok, BokInv
<1>2. PICK o : o = Oppdater(b)
  OBVIOUS
<1>3. o.poster = b.poster /\ o.aktiv = b.aktiv /\ o.sist = b.sist
  BY <1>1, <1>2, OppdaterFelt
<1>. QED
  BY <1>2, <1>3 DEF SammePostene

LEMMA BygdPostene ==
  ASSUME NEW b, TellbarBok(b)
  PROVE  SammePostene(b, Bygd(b))
BY DEF Bygd, TellbarBok, BokInv, StrukturOK, TomBok, SammePostene

LEMMA LestPostene ==
  ASSUME NEW b, TellbarBok(b), NEW m
  PROVE  SammePostene(b, Lest(b, m))
<1>1. PICK o : o = IF b.aktiv = m THEN Oppdater(b) ELSE b
  OBVIOUS
<1>2. SammePostene(b, o) /\ TellbarBok(o)
  BY <1>1, OppdaterPostene, OppdaterManeder DEF SammePostene, SammeManeder
<1>3. SammePostene(o, Bygd(o))
  BY <1>2, BygdPostene
<1>4. Lest(b, m) = Bygd(o)
  BY <1>1 DEF Lest
<1>. QED
  BY <1>2, <1>3, <1>4 DEF SammePostene

LEMMA PrisprovePostene ==
  ASSUME NEW b, TellbarBok(b), NEW p
  PROVE  SammePostene(b, RegistrerPrisprove(b, p))
BY DEF RegistrerPrisprove, TellbarBok, BokInv, StrukturOK, TomBok, SammePostene

LEMMA PostertSamme ==
  ASSUME NEW b, NEW c, SammePostene(b, c),
         NEW kwh, NEW g, NEW sensor, NEW mnd, NEW seneste, Postert(b, kwh, g, sensor, mnd, seneste)
  PROVE  Postert(c, kwh, g, sensor, mnd, seneste)
BY SammePoster DEF SammePostene

\* The calls of the loop body before _oppdater_timesmaks leave the peaks.
SammeTopp(c, d) == FelterOK(d) /\ d.maned = c.maned /\ d.topp = c.topp

LEMMA AkkumulerTopp ==
  ASSUME NEW b, NEW c, FelterOK(c), NEW timer
  PROVE  SammeTopp(c, Akkumuler(b, c, timer))
BY DEF Akkumuler, Omregn, SammeTopp, FelterOK, Minne

LEMMA EtterbokforTopp ==
  ASSUME NEW b, NEW c, FelterOK(c), NEW fordeling
  PROVE  SammeTopp(c, Etterbokfor(b, c, fordeling))
BY DEF Etterbokfor, MedHale, SammeTopp, FelterOK, Minne

LEMMA ForingTopp ==
  ASSUME NEW s, FelterOK(s.k), NEW svar, NEW balanse
  PROVE  \E c : SammeTopp(s.k, c) /\ Foring(s, svar, balanse) = Timesmaks(svar.bok, c)
<1>1. PICK f : f = svar.fordeling
  OBVIOUS
<1>2. PICK c1 : c1 = Etterbokfor(svar.bok, s.k, f)
  OBVIOUS
<1>3. SammeTopp(s.k, c1)
  BY <1>2, EtterbokforTopp
<1>4. PICK c2 : c2 = [c1 EXCEPT !.forbruk = ForbrukFraBoken(svar.bok, s.k.maned, balanse)]
  OBVIOUS
<1>5. SammeTopp(s.k, c2)
  BY <1>3, <1>4 DEF SammeTopp, FelterOK, Minne
<1>6. PICK c3 : c3 = Akkumuler(svar.bok, c2, DOMAIN f)
  OBVIOUS
<1>7. SammeTopp(c2, c3)
  BY <1>5, <1>6, AkkumulerTopp DEF SammeTopp
<1>8. SammeTopp(s.k, c3)
  BY <1>5, <1>7 DEF SammeTopp
<1>9. Foring(s, svar, balanse) = Timesmaks(svar.bok, c3)
  BY <1>1, <1>2, <1>4, <1>6 DEF Foring
<1>. QED
  BY <1>8, <1>9

\* What the poll's variables are to satisfy between two parts, beside Delvis: the
\* hours from g on have their post, and the peaks are squeezed, for the sensor
\* that is read at the instant t.
Toppvis(s, maned, kwh0, g, sensor, mnd, t) ==
  /\ Postert(s.bok, s.kwh, g, sensor, mnd, t)
  /\ ToppMellom(s.k.topp, s.kwh, maned, g, Time(t))
  /\ DOMAIN s.kwh = {} => g = 0
  /\ \A h \in DOMAIN s.kwh : h \in DOMAIN kwh0 \/ g <= h

DelvisTopp(s, maned, apning, kwh0, mnd, g, sensor, t) ==
  Delvis(s, maned, apning, kwh0, mnd) /\ Toppvis(s, maned, kwh0, g, sensor, mnd, t)

LEMMA EnDelTopp ==
  ASSUME naa \in Tikk, NEW s, NEW maned, NEW apning, NEW kwh0, Timesplitt(kwh0),
         NEW mnd \in Nat, ManedAv[Time(naa)] <= mnd, NEW g \in Int, NEW sensor,
         DelvisTopp(s, maned, apning, kwh0, mnd, g, sensor, naa),
         NEW a, a # Ingen, a.tid \in Tikk, a.tid <= naa, a.verdi \in Int, a.kilde = sensor,
         NEW balanse, balanse.dag = Balanse(maned, apning).dag,
         balanse.natt = Balanse(maned, apning).natt
  PROVE  DelvisTopp(EnDel(s, a, balanse), maned, apning, kwh0, mnd, g, sensor, naa)
<1>1. /\ Delvis(s, maned, apning, kwh0, mnd) /\ TellbarBok(s.bok) /\ Timesplitt(s.kwh)
      /\ FelterOK(s.k) /\ s.k.maned = maned
      /\ Toppvis(s, maned, kwh0, g, sensor, mnd, naa)
  BY DEF DelvisTopp, Delvis
<1>2. ManedAv[Time(a.tid)] <= mnd
  <2>1. ManedAv[Time(a.tid)] <= ManedAv[Time(naa)]
    BY TimeStiger
  <2>2. ManedAv[Time(a.tid)] \in Nat /\ ManedAv[Time(naa)] \in Nat
    BY TimeType, ManedType
  <2>. QED
    BY <2>1, <2>2
<1>3. PICK t \in Tikk : t = a.tid
  OBVIOUS
<1>4. Delvis(EnDel(s, a, balanse), maned, apning, kwh0, mnd)
  BY <1>1, <1>2, <1>3, EnDelBevarer
<1>5. PICK svar : svar = Bokfor(s.bok, a)
  OBVIOUS
<1>6. PICK f : f = svar.fordeling
  OBVIOUS
<1>7. PICK ny : ny = Lagt(s.kwh, f)
  OBVIOUS
<1>8. TellbarBok(svar.bok) /\ Timesplitt(f) /\ Timesplitt(ny)
  <2>1. PICK b : b = s.bok
    OBVIOUS
  <2>2. GodtSvar(b, Bokfor(b, a), a.tid)
    BY <1>1, <2>1, BokforSvar
  <2>3. TellbarBok(svar.bok) /\ Timesplitt(f)
    BY <1>5, <1>6, <2>1, <2>2 DEF GodtSvar
  <2>. QED
    BY <1>1, <1>7, <2>3, LagtManed
<1>9. Postert(svar.bok, ny, g, sensor, mnd, naa) /\ FraOgMed(f, g)
  <2>1. PICK b : b = s.bok
    OBVIOUS
  <2>2. PICK kwh : kwh = s.kwh
    OBVIOUS
  <2>3. /\ TellbarBok(b) /\ Timesplitt(kwh) /\ (DOMAIN kwh = {} => g = 0)
        /\ Postert(b, kwh, g, a.kilde, mnd, naa)
    BY <1>1, <2>1, <2>2 DEF Toppvis
  <2>4. PICK n \in Tikk : n = naa
    OBVIOUS
  <2>5. LET u == Bokfor(b, a)
        IN  Postert(u.bok, Lagt(kwh, u.fordeling), g, a.kilde, mnd, n) /\ FraOgMed(u.fordeling, g)
    BY <2>3, <2>4, BokforPostert
  <2>. QED
    BY <1>5, <1>6, <1>7, <2>1, <2>2, <2>4, <2>5
<1>10. PICK c : c = Foring(s, svar, balanse)
  OBVIOUS
<1>11. PICK c3 : SammeTopp(s.k, c3) /\ c = Timesmaks(svar.bok, c3)
  BY <1>1, <1>10, ForingTopp
<1>12. Time(naa) \in Int
  BY TimeStiger
<1>13. ToppMellom(c.topp, ny, maned, g, Time(naa))
  <2>1. PICK t0 : t0 = Time(naa)
    OBVIOUS
  <2>2. PICK topp : topp = s.k.topp
    OBVIOUS
  <2>3. PICK kwh : kwh = s.kwh
    OBVIOUS
  <2>4. ToppMellom(topp, kwh, maned, g, t0)
    BY <1>1, <2>1, <2>2, <2>3 DEF Toppvis
  <2>5. ToppMellom(topp, ny, maned, g, t0)
    BY <1>1, <1>7, <1>8, <1>9, <2>3, <2>4, ToppVokst
  <2>6. FelterOK(c3) /\ c3.maned = maned /\ ToppMellom(c3.topp, ny, c3.maned, g, Time(naa))
    BY <1>1, <1>11, <2>1, <2>2, <2>5 DEF SammeTopp
  <2>7. PICK b : b = svar.bok
    OBVIOUS
  <2>8. \A h \in DOMAIN b.poster : h \in DOMAIN ny /\ b.poster[h].kwh = ny[h]
    BY <1>9, <2>7 DEF Postert
  <2>9. LET r == Timesmaks(b, c3) IN ToppMellom(r.topp, ny, c3.maned, g, Time(naa))
    BY <1>8, <1>12, <2>6, <2>8, TimesmaksTopp
  <2>. QED
    BY <1>11, <2>6, <2>7, <2>9
<1>14. PICK l : l = Lest(svar.bok, c.maned)
  OBVIOUS
<1>15. Postert(l, ny, g, sensor, mnd, naa)
  <2>1. SammePostene(svar.bok, l)
    BY <1>8, <1>14, LestPostene
  <2>2. PICK b : b = svar.bok
    OBVIOUS
  <2>. QED
    BY <1>9, <2>1, <2>2, PostertSamme
<1>16. PICK r : r = EnDel(s, a, balanse)
  OBVIOUS
<1>17. r.bok = l /\ r.k = c /\ r.kwh = ny
  <2>1. r = MedDel(s, svar, c)
    BY <1>5, <1>10, <1>16 DEF EnDel, MedSvar
  <2>. QED
    BY <1>6, <1>7, <1>14, <2>1 DEF MedDel, Lagt
<1>18. DOMAIN ny = DOMAIN s.kwh \cup DOMAIN f
  BY <1>7 DEF Lagt
<1>19. \A h \in DOMAIN ny : h \in DOMAIN kwh0 \/ g <= h
  BY <1>1, <1>9, <1>18 DEF Toppvis, FraOgMed
<1>20. DOMAIN ny = {} => g = 0
  BY <1>1, <1>18 DEF Toppvis
<1>21. Toppvis(r, maned, kwh0, g, sensor, mnd, naa)
  BY <1>13, <1>15, <1>17, <1>19, <1>20 DEF Toppvis
<1>. QED
  BY <1>4, <1>16, <1>21 DEF DelvisTopp

LEMMA LopBevarerTopp ==
  ASSUME NEW S, Heltall(S), NEW deler, NEW balanse, NEW start,
         NEW maned, NEW apning, NEW kwh0, NEW mnd, NEW g, NEW sensor, NEW n,
         DelvisTopp(start, maned, apning, kwh0, mnd, g, sensor, n),
         \A t \in S : \A s : DelvisTopp(s, maned, apning, kwh0, mnd, g, sensor, n) =>
           DelvisTopp(EnDel(s, deler[t], balanse), maned, apning, kwh0, mnd, g, sensor, n)
  PROVE  DelvisTopp(Lopet(deler, balanse, start, S), maned, apning, kwh0, mnd, g, sensor, n)
<1>1. PICK e : ErLop(e, deler, balanse, start, S) /\ Lopet(deler, balanse, start, S) = e[S]
  BY LopVerdi
<1> DEFINE G == {T \in SUBSET S : DelvisTopp(e[T], maned, apning, kwh0, mnd, g, sensor, n)}
<1>2. ASSUME NEW T \in SUBSET S, \A U \in SUBSET T : U # T => U \in G
      PROVE  T \in G
  <2>1. CASE T = {}
    BY <1>1, <2>1 DEF ErLop
  <2>2. CASE T # {}
    <3>1. Max(T) \in T
      BY <2>2, HeltallDel
    <3>2. T \ {Max(T)} \in G
      BY <1>2, <3>1
    <3>3. e[T] = EnDel(e[T \ {Max(T)}], deler[Max(T)], balanse)
      BY <1>1, <2>2 DEF ErLop
    <3>. QED
      BY <3>1, <3>2, <3>3
  <2>. QED
    BY <2>1, <2>2
<1>3. S \in G
  <2>1. IsFiniteSet(S)
    BY DEF Heltall
  <2> HIDE DEF G
  <2>. QED
    BY <1>2, <2>1, DelmengdeInduksjon
<1>. QED
  BY <1>1, <1>3

\* An instant of the model and its hour are numbers.
LEMMA TimeNat ==
  ASSUME NEW t \in Tikk
  PROVE  t \in Nat /\ Time(t) \in Nat
BY TikkHel, TimeType, TidAssumption DEF Timer

\* The parts of a reading are readings of the same sensor.
LEMMA DelerKilde ==
  ASSUME NEW b, NEW a \in Avlesninger
  PROVE  \A t \in DOMAIN Deler(b, a) :
           LET p == Deler(b, a)[t]
           IN  p.kilde = a.kilde /\ (p.tid \in Int /\ p.verdi \in Int => p # Ingen)
<1> DEFINE Del(p) == p.kilde = a.kilde /\ (p.tid \in Int /\ p.verdi \in Int => p # Ingen)
           forrige == b.sist
           estimert == a.kilde \in Estimerte
           delta == IF estimert THEN a.verdi ELSE a.verdi - forrige.verdi
           grenser == Grenser(forrige.tid, a.tid)
           Fra(t) == Max({forrige.tid} \cup {u \in grenser : u < t})
           Andel(t, u) == (delta * (u - t)) \div (a.tid - forrige.tid)
           Verdi(t) == IF estimert THEN Andel(Fra(t), t)
                       ELSE forrige.verdi + Andel(forrige.tid, t)
           S == grenser \cup {a.tid}
<1>1. a \in [kilde : Kilder, tid : Tikk, verdi : Verdier]
  BY DEF Avlesninger
<1>a. a \in [kilde : Kilder, tid : Int, verdi : Int]
  <2>1. Tikk \subseteq Int /\ Verdier \subseteq Int
    BY TikkHel, EnhetAssumption
  <2>. QED
    BY <1>1, <2>1
<1>2. PICK d : d = Deler(b, a)
  OBVIOUS
<1>3. \/ d = <<>>
      \/ d = [t \in {a.tid} |-> a]
      \/ d = [t \in S |-> [a EXCEPT !.tid = t, !.verdi = Verdi(t)]]
  BY <1>2 DEF Deler
<1> HIDE DEF Verdi, S
<1>4. ASSUME NEW t, NEW v
      PROVE  Del([a EXCEPT !.tid = t, !.verdi = v])
  <2>1. PICK p : p = [a EXCEPT !.tid = t, !.verdi = v]
    OBVIOUS
  <2>2. p.kilde = a.kilde /\ p.tid = t /\ p.verdi = v
    BY <1>a, <2>1
  <2>3. t \in Int /\ v \in Int => p \in [kilde : Kilder, tid : Int, verdi : Int]
    BY <1>a, <2>1
  <2>. QED
    BY <2>1, <2>2, <2>3, EnhetAssumption
<1>5. Del(a)
  BY <1>a, EnhetAssumption
<1>6. ASSUME NEW t
      PROVE  Del([a EXCEPT !.tid = t, !.verdi = Verdi(t)])
  <2> HIDE DEF Del
  <2>. QED
    BY <1>4
<1> HIDE DEF Del
<1>7. \A t \in DOMAIN d : Del(d[t])
  <2>1. CASE d = <<>>
    BY <2>1
  <2>2. CASE d = [t \in {a.tid} |-> a]
    BY <1>5, <2>2
  <2>3. CASE d = [t \in S |-> [a EXCEPT !.tid = t, !.verdi = Verdi(t)]]
    <3>1. \A t \in DOMAIN d : d[t] = [a EXCEPT !.tid = t, !.verdi = Verdi(t)]
      BY <2>3
    <3>. QED
      BY <1>6, <3>1
  <2>. QED
    BY <1>3, <2>1, <2>2, <2>3
<1>. QED
  BY <1>2, <1>7 DEF Del

\* _oppdater_timesmaks after the loop.  If the book has a post for every hour of
\* the month from g on, the peaks cover all that was used before the clock's hour.
LEMMA AvsluttetTopp ==
  ASSUME naa \in Tikk, NEW s, NEW maned, NEW apning, NEW kwh0, NEW mnd, NEW g \in Int, NEW sensor,
         DelvisTopp(s, maned, apning, kwh0, mnd, g, sensor, naa)
  PROVE  LET r == Avsluttet(s)
         IN  /\ DelvisTopp(r, maned, apning, kwh0, mnd, g, sensor, naa)
             /\ (\A h \in DOMAIN r.kwh : ManedAv[h] = maned /\ g <= h => h \in DOMAIN r.bok.poster) =>
                  ToppMellom(r.k.topp, r.kwh, maned, Time(naa), Time(naa))
<1>1. /\ Delvis(s, maned, apning, kwh0, mnd) /\ Toppvis(s, maned, kwh0, g, sensor, mnd, naa)
      /\ FelterOK(s.k) /\ s.k.maned = maned /\ Timesplitt(s.kwh)
      /\ DOMAIN s = {"bok", "k", "timer", "skitten", "kwh"}
  BY DEF DelvisTopp, Delvis
<1>2. PICK c : c = Timesmaks(s.bok, s.k)
  OBVIOUS
<1>3. PICK r : r = Avsluttet(s)
  OBVIOUS
<1>4. r.bok = s.bok /\ r.k = c /\ r.kwh = s.kwh
  BY <1>1, <1>2, <1>3 DEF Avsluttet, MedTimesmaks
<1>5. Delvis(r, maned, apning, kwh0, mnd)
  BY <1>1, <1>3, AvsluttetBevarer
<1>6. PICK b : b = s.bok
  OBVIOUS
<1>7. PICK k0 : k0 = s.k
  OBVIOUS
<1>8. PICK kwh : kwh = s.kwh
  OBVIOUS
<1>9. /\ ToppMellom(c.topp, kwh, maned, g, Time(naa))
      /\ (\A h \in DOMAIN kwh : ManedAv[h] = maned /\ g <= h => h \in DOMAIN b.poster) =>
            ToppMellom(c.topp, kwh, maned, Time(naa), Time(naa))
  <2>1. /\ FelterOK(k0) /\ k0.maned = maned /\ Timesplitt(kwh)
        /\ ToppMellom(k0.topp, kwh, k0.maned, g, Time(naa))
    BY <1>1, <1>7, <1>8 DEF Toppvis
  <2>2. \A h \in DOMAIN b.poster : h \in DOMAIN kwh /\ b.poster[h].kwh = kwh[h]
    BY <1>1, <1>6, <1>8 DEF Toppvis, Postert
  <2>3. Time(naa) \in Int
    BY TimeNat
  <2>4. LET u == Timesmaks(b, k0)
        IN  /\ ToppMellom(u.topp, kwh, k0.maned, g, Time(naa))
            /\ (\A h \in DOMAIN kwh : ManedAv[h] = k0.maned /\ g <= h => h \in DOMAIN b.poster) =>
                 ToppMellom(u.topp, kwh, k0.maned, Time(naa), Time(naa))
    BY <2>1, <2>2, <2>3, TimesmaksTopp
  <2>. QED
    BY <1>2, <1>6, <1>7, <2>1, <2>4
<1>10. Toppvis(r, maned, kwh0, g, sensor, mnd, naa)
  BY <1>1, <1>4, <1>8, <1>9 DEF Toppvis
<1>. QED
  BY <1>3, <1>4, <1>5, <1>6, <1>8, <1>9, <1>10 DEF DelvisTopp

\* The hour of the baseline, and the first one a window can still reach: the
\* ledger has no hour before it that is not there already.
Grunntime(b) == IF b.sist = Ingen THEN 0 ELSE Time(b.sist.tid)

ForsteTime(b, kwh) == IF DOMAIN kwh = {} THEN 0 ELSE Grunntime(b)

\* The book against the ledger h in the state, and the peaks of the month against it.
Bokholdt(b, c, h) == Postert(b, h.kwh, Grunntime(b), kilde, c.maned, h.poll)

ToppAv(c, h) == ToppMellom(c.topp, h.kwh, c.maned, Time(h.poll), Time(h.poll))

\* The bound may be moved up to the baseline, and down while the ledger is empty.
LEMMA PostertGrunntime ==
  ASSUME NEW b, TellbarBok(b), NEW kwh, Timesplitt(kwh), NEW g \in Int, NEW sensor, NEW mnd,
         NEW n, Postert(b, kwh, g, sensor, mnd, n)
  PROVE  Postert(b, kwh, Grunntime(b), sensor, mnd, n)
<1>1. CASE b.sist = Ingen
  <2>1. DOMAIN kwh = {}
    BY <1>1 DEF Postert
  <2>. QED
    BY <1>1, <2>1 DEF Postert
<1>2. CASE b.sist # Ingen
  <2>1. PICK u : u = Time(b.sist.tid)
    OBVIOUS
  <2>2. u \in Nat /\ g <= u /\ Grunntime(b) = u
    BY <1>2, <2>1, TimeNat DEF TellbarBok, BokInv, StrukturOK, Postert, Grunntime
  <2>3. \A h \in DOMAIN kwh : h \in Int
    BY TidAssumption DEF Timesplitt, Timer
  <2>4. \A h \in DOMAIN kwh : u <= h => g <= h
    BY <2>2, <2>3
  <2>5. \A h \in DOMAIN kwh : ManedAv[h] = b.aktiv /\ u <= h => h \in DOMAIN b.poster
    BY <2>4 DEF Postert
  <2>. QED
    BY <1>2, <2>1, <2>2, <2>5 DEF Postert
<1>. QED
  BY <1>1, <1>2

\* A later month and a later instant are allowed.
LEMMA PostertStart ==
  ASSUME NEW b, TellbarBok(b), NEW kwh, NEW sensor, NEW m \in Nat, NEW mnd \in Nat, m <= mnd,
         NEW n \in Nat, NEW seneste \in Nat, n <= seneste,
         Postert(b, kwh, Grunntime(b), sensor, m, n)
  PROVE  /\ Postert(b, kwh, ForsteTime(b, kwh), sensor, mnd, seneste)
         /\ ForsteTime(b, kwh) \in Nat
         /\ b.sist # Ingen => ForsteTime(b, kwh) <= Time(b.sist.tid)
<1>1. b.sist # Ingen => /\ b.sist.tid \in Nat /\ Time(b.sist.tid) \in Nat
  BY TimeNat DEF TellbarBok, BokInv, StrukturOK
<1>2. Grunntime(b) \in Nat
  BY <1>1 DEF Grunntime
<1>3. ForsteTime(b, kwh) \in Nat /\ (b.sist # Ingen => ForsteTime(b, kwh) <= Time(b.sist.tid))
  BY <1>1, <1>2 DEF ForsteTime, Grunntime
<1>4. b.sist # Ingen => b.sist.tid <= seneste
  <2>1. b.sist # Ingen => b.sist.tid <= n
    BY DEF Postert
  <2>. QED
    BY <1>1, <2>1
<1>5. b.aktiv # Ingen => b.aktiv <= mnd
  <2>1. b.aktiv # Ingen => b.aktiv <= m /\ b.aktiv \in Nat
    BY ManederNat DEF Postert, TellbarBok, BokInv, StrukturOK
  <2>. QED
    BY <2>1
<1>6. \A h \in DOMAIN kwh : ManedAv[h] = b.aktiv /\ ForsteTime(b, kwh) <= h => h \in DOMAIN b.poster
  BY DEF Postert, ForsteTime
<1>. QED
  BY <1>3, <1>4, <1>5, <1>6 DEF Postert

\* The poll up to the question of a month rollover is a loop over the parts of the
\* reading, from a book with the sample and fields of the new day.
ProvetBok(prove, b) ==
  IF prove = Ingen THEN b ELSE RegistrerPrisprove(b, [polltid |-> naa, verdi |-> prove])

DagensFelter(c) == IF c.dato = DatoNaa THEN c ELSE [c EXCEPT !.dato = DatoNaa, !.dagskost = 0]

Startstilling(b, c) ==
  [bok |-> Lest(b, c.maned), k |-> c, timer |-> {}, skitten |-> FALSE, kwh |-> hel.kwh]

Lesbardel(p, t) ==
  p # Ingen /\ p.tid = t /\ p.tid \in Tikk /\ p.tid <= naa /\ p.verdi \in Int /\ p.kilde = kilde

LEMMA BokfortStart ==
  ASSUME naa \in Tikk, Enige(bok, k, hel.kwh, hel.apning, MndNaa),
         Bokholdt(bok, k, hel), ToppAv(k, hel), hel.poll \in Tikk, hel.poll <= naa,
         k.maned <= MndNaa,
         NEW prove, NEW a \in Avlesninger \cup {Ingen}, Lesbar(a)
  PROVE  \E g, balanse :
           LET b == ProvetBok(prove, bok)
               c == DagensFelter(k)
               deler == Deler(b, a)
               start == Startstilling(b, c)
           IN  /\ g \in Nat /\ Bokfort(prove, a) = Avsluttet(Lopet(deler, balanse, start, DOMAIN deler))
               /\ DelvisTopp(start, k.maned, hel.apning, hel.kwh, MndNaa, g, kilde, naa)
               /\ TellbarBok(b) /\ SammePostene(bok, b) /\ FelterOK(c)
               /\ balanse.dag = Balanse(k.maned, hel.apning).dag
               /\ balanse.natt = Balanse(k.maned, hel.apning).natt
               /\ Heltall(DOMAIN deler)
               /\ \A t \in DOMAIN deler : Lesbardel(deler[t], t)
<1>0. PICK b : b = ProvetBok(prove, bok)
  OBVIOUS
<1>1. b = IF prove = Ingen THEN bok
          ELSE RegistrerPrisprove(bok, [polltid |-> naa, verdi |-> prove])
  BY <1>0 DEF ProvetBok
<1>2. TellbarBok(b) /\ Folger(b, hel.kwh) /\ SammePostene(bok, b)
  <2>1. CASE prove = Ingen
    BY <1>1, <2>1 DEF Enige, SammePostene
  <2>2. CASE prove # Ingen
    <3>1. PICK p : p = [polltid |-> naa, verdi |-> prove]
      OBVIOUS
    <3>2. SammeManeder(bok, RegistrerPrisprove(bok, p)) /\ SammePostene(bok, RegistrerPrisprove(bok, p))
      BY <3>1, PrisproveManeder, PrisprovePostene DEF Enige
    <3>. QED
      BY <1>1, <2>2, <3>1, <3>2, FolgerSamme DEF Enige, SammeManeder
  <2>. QED
    BY <2>1, <2>2
<1>a. PICK c : c = DagensFelter(k)
  OBVIOUS
<1>3. c = IF k.dato = DatoNaa THEN k ELSE [k EXCEPT !.dato = DatoNaa, !.dagskost = 0]
  BY <1>a DEF DagensFelter
<1>4. FelterOK(c) /\ c.maned = k.maned /\ c.forbruk = k.forbruk /\ c.maned \in Maneder /\ c.topp = k.topp
  BY <1>3 DEF Enige, FelterOK, Minne
<1>5. PICK balanse : balanse = Aapningsbalanse(b, c)
  OBVIOUS
<1>6. PICK apning : apning = hel.apning
  OBVIOUS
<1>7. PICK kwh : kwh = hel.kwh
  OBVIOUS
<1>8. PICK maned : maned = k.maned
  OBVIOUS
<1>9. PICK mnd : mnd = MndNaa
  OBVIOUS
<1>10. /\ Timesplitt(kwh) /\ Folger(b, kwh) /\ apning \in [dag : Int, natt : Int]
       /\ c.forbruk = Fasit(maned, kwh, apning) /\ c.maned = maned
       /\ \A h \in DOMAIN kwh : ManedAv[h] <= mnd
  BY <1>2, <1>4, <1>6, <1>7, <1>8, <1>9 DEF Enige
<1>11. balanse.dag = Balanse(maned, apning).dag /\ balanse.natt = Balanse(maned, apning).natt
  <2>1. balanse = [dag |-> Balanse(c.maned, apning).dag, natt |-> Balanse(c.maned, apning).natt]
    BY <1>2, <1>4, <1>5, <1>10, AapningsbalanseVerdi
  <2>. QED
    BY <1>10, <2>1
<1>12. mnd \in Nat /\ maned \in Nat /\ maned <= mnd /\ mnd = ManedAv[Time(naa)]
  BY <1>4, <1>8, <1>9, MndNaaType, ManederNat DEF MndNaa
<1>13. PICK n \in Tikk : n = naa
  OBVIOUS
<1>14. PICK n0 \in Tikk : n0 = hel.poll
  OBVIOUS
<1>15. /\ n \in Nat /\ n0 \in Nat /\ n0 <= n /\ Time(n) \in Nat /\ Time(n0) \in Nat
       /\ Time(n0) <= Time(n)
  BY <1>13, <1>14, TimeNat, TimeStiger
<1>16. PICK g : g = ForsteTime(b, kwh)
  OBVIOUS
<1>17. /\ Postert(b, kwh, g, kilde, mnd, n) /\ g \in Nat
       /\ b.sist # Ingen => g <= Time(b.sist.tid)
  <2>1. PICK sensor : sensor = kilde
    OBVIOUS
  <2>2. PICK b0 : b0 = bok
    OBVIOUS
  <2>3. Postert(b0, kwh, Grunntime(b0), sensor, maned, n0) /\ SammePostene(b0, b)
    BY <1>2, <1>7, <1>8, <1>14, <2>1, <2>2 DEF Bokholdt
  <2>4. Postert(b, kwh, Grunntime(b0), sensor, maned, n0) /\ Grunntime(b0) = Grunntime(b)
    BY <2>3, PostertSamme DEF SammePostene, Grunntime
  <2>5. Postert(b, kwh, Grunntime(b), sensor, maned, n0)
    BY <2>4
  <2>. QED
    BY <1>2, <1>12, <1>15, <1>16, <2>1, <2>5, PostertStart
<1>18. g <= Time(n0)
  <2>1. CASE b.sist = Ingen
    BY <1>15, <1>16, <2>1 DEF ForsteTime, Grunntime
  <2>2. CASE b.sist # Ingen
    <3>1. b.sist.tid \in Tikk /\ b.sist.tid <= n0
      BY <1>2, <1>14, <2>2 DEF SammePostene, Bokholdt, Postert, TellbarBok, BokInv, StrukturOK
    <3>2. Time(b.sist.tid) <= Time(n0) /\ Time(b.sist.tid) \in Nat
      BY <3>1, TimeStiger
    <3>. QED
      BY <1>15, <1>17, <2>2, <3>2
  <2>. QED
    BY <2>1, <2>2
<1>19. ToppMellom(c.topp, kwh, maned, g, Time(n))
  <2>1. PICK topp : topp = c.topp
    OBVIOUS
  <2>2. PICK t \in Int : t = Time(n0)
    BY <1>15
  <2>3. PICK u \in Int : u = Time(n)
    BY <1>15
  <2>4. ToppMellom(topp, kwh, maned, t, t)
    BY <1>4, <1>7, <1>8, <1>14, <2>1, <2>2 DEF ToppAv
  <2>5. ToppMellom(topp, kwh, maned, g, u)
    BY <1>10, <1>15, <1>17, <1>18, <2>2, <2>3, <2>4, ToppVidere
  <2>. QED
    BY <2>1, <2>3, <2>5
<1>20. PICK start : start = [bok |-> Lest(b, c.maned), k |-> c, timer |-> {},
                             skitten |-> FALSE, kwh |-> hel.kwh]
  OBVIOUS
<1>21. DelvisTopp(start, maned, apning, kwh, mnd, g, kilde, n)
  <2>1. PICK l : l = Lest(b, c.maned)
    OBVIOUS
  <2>2. SammeManeder(b, l) /\ SammePostene(b, l)
    BY <1>2, <2>1, LestManeder, LestPostene
  <2>3. TellbarBok(l) /\ Folger(l, kwh)
    BY <1>10, <2>2, FolgerSamme DEF SammeManeder
  <2>4. start.bok = l /\ start.k = c /\ start.kwh = kwh
        /\ DOMAIN start = {"bok", "k", "timer", "skitten", "kwh"}
    BY <1>7, <1>20, <2>1
  <2>5. Delvis(start, maned, apning, kwh, mnd)
    BY <1>4, <1>10, <2>3, <2>4 DEF Delvis
  <2>6. PICK sensor : sensor = kilde
    OBVIOUS
  <2>7. Postert(l, kwh, g, sensor, mnd, n)
    BY <1>17, <2>2, <2>6, PostertSamme
  <2>8. DOMAIN kwh = {} => g = 0
    BY <1>16 DEF ForsteTime
  <2>. QED
    BY <1>19, <2>4, <2>5, <2>6, <2>7, <2>8 DEF DelvisTopp, Toppvis
<1>22. PICK deler : deler = Deler(b, a)
  OBVIOUS
<1>23. /\ Heltall(DOMAIN deler)
       /\ \A t \in DOMAIN deler : /\ a # Ingen /\ t \in Tikk /\ t <= a.tid
                                  /\ deler[t].tid = t /\ deler[t].verdi \in Int
  <2>1. b.sist # Ingen => b.sist.tid \in Tikk /\ b.sist.verdi \in Int
    BY <1>2 DEF TellbarBok, BokInv, StrukturOK
  <2>. QED
    BY <1>22, <2>1, DelerType
<1>24. ASSUME NEW t \in DOMAIN deler
       PROVE  Lesbardel(deler[t], t)
  <2>1. a # Ingen /\ t \in Tikk /\ t <= a.tid /\ deler[t].tid = t /\ deler[t].verdi \in Int
    BY <1>23
  <2>2. a \in Avlesninger /\ a.tid \in Tikk /\ a.kilde = kilde /\ a.tid <= naa
    BY <2>1 DEF Lesbar, Avlesninger
  <2>3. deler[t].kilde = a.kilde /\ (deler[t].tid \in Int /\ deler[t].verdi \in Int => deler[t] # Ingen)
    BY <1>22, <2>2, DelerKilde
  <2>4. t \in Nat /\ a.tid \in Nat
    BY <2>1, <2>2, TikkHel
  <2>5. t <= n
    BY <1>13, <1>15, <2>1, <2>2, <2>4
  <2>6. PICK p : p = deler[t]
    OBVIOUS
  <2>7. p # Ingen /\ p.tid = t /\ p.tid \in Tikk /\ p.verdi \in Int /\ p.kilde = kilde
    BY <2>1, <2>2, <2>3, <2>4, <2>6
  <2>8. p.tid <= naa
    BY <1>13, <2>5, <2>7
  <2>. QED
    BY <2>6, <2>7, <2>8 DEF Lesbardel
<1>25. Bokfort(prove, a) = Avsluttet(Lopet(deler, balanse, start, DOMAIN deler))
  <2>1. Bokfort(prove, a) = AlleDeler(b, c, deler, balanse)
    BY <1>1, <1>3, <1>5, <1>22 DEF Bokfort
  <2>. QED
    BY <1>20, <2>1, AlleDelerUtfoldet
<1>26. start = Startstilling(b, c)
  BY <1>20 DEF Startstilling
<1>27. DelvisTopp(start, k.maned, hel.apning, hel.kwh, MndNaa, g, kilde, naa)
  BY <1>6, <1>7, <1>8, <1>9, <1>13, <1>21
<1>28. balanse.dag = Balanse(k.maned, hel.apning).dag /\ balanse.natt = Balanse(k.maned, hel.apning).natt
  BY <1>6, <1>8, <1>11
<1>. QED
  BY <1>0, <1>a, <1>2, <1>4, <1>17, <1>22, <1>23, <1>24, <1>25, <1>26, <1>27, <1>28

\* The poll up to the question of a month rollover, from a state where the peaks
\* are those of the last poll.
LEMMA BokfortTopp ==
  ASSUME naa \in Tikk, Enige(bok, k, hel.kwh, hel.apning, MndNaa),
         Bokholdt(bok, k, hel), ToppAv(k, hel), hel.poll \in Tikk, hel.poll <= naa,
         k.maned <= MndNaa,
         NEW prove, NEW a \in Avlesninger \cup {Ingen}, Lesbar(a)
  PROVE  \E g \in Nat :
           LET s == Bokfort(prove, a)
           IN  /\ DelvisTopp(s, k.maned, hel.apning, hel.kwh, MndNaa, g, kilde, naa)
               /\ (\A h \in DOMAIN s.kwh : ManedAv[h] = k.maned /\ g <= h => h \in DOMAIN s.bok.poster) =>
                    ToppMellom(s.k.topp, s.kwh, k.maned, Time(naa), Time(naa))
<1>1. PICK b : b = ProvetBok(prove, bok)
  OBVIOUS
<1>2. PICK c : c = DagensFelter(k)
  OBVIOUS
<1>3. PICK deler : deler = Deler(b, a)
  OBVIOUS
<1>4. PICK start : start = Startstilling(b, c)
  OBVIOUS
<1>5. PICK g, balanse :
        /\ g \in Nat /\ Bokfort(prove, a) = Avsluttet(Lopet(deler, balanse, start, DOMAIN deler))
        /\ DelvisTopp(start, k.maned, hel.apning, hel.kwh, MndNaa, g, kilde, naa)
        /\ balanse.dag = Balanse(k.maned, hel.apning).dag
        /\ balanse.natt = Balanse(k.maned, hel.apning).natt
        /\ Heltall(DOMAIN deler)
        /\ \A t \in DOMAIN deler : Lesbardel(deler[t], t)
  BY <1>1, <1>2, <1>3, <1>4, BokfortStart
<1>6. PICK apning : apning = hel.apning
  OBVIOUS
<1>7. PICK kwh : kwh = hel.kwh
  OBVIOUS
<1>8. PICK maned : maned = k.maned
  OBVIOUS
<1>9. PICK mnd : mnd = MndNaa
  OBVIOUS
<1>10. PICK sensor : sensor = kilde
  OBVIOUS
<1>11. PICK n \in Tikk : n = naa
  OBVIOUS
<1>12. mnd \in Nat /\ mnd = ManedAv[Time(naa)] /\ ManedAv[Time(naa)] <= mnd /\ Timesplitt(kwh) /\ g \in Int
  BY <1>5, <1>7, <1>9, MndNaaType DEF MndNaa, Enige
<1>13. /\ DelvisTopp(start, maned, apning, kwh, mnd, g, sensor, n)
       /\ balanse.dag = Balanse(maned, apning).dag /\ balanse.natt = Balanse(maned, apning).natt
  BY <1>5, <1>6, <1>7, <1>8, <1>9, <1>10, <1>11
<1>14. \A t \in DOMAIN deler : \A s :
          DelvisTopp(s, maned, apning, kwh, mnd, g, sensor, n) =>
          DelvisTopp(EnDel(s, deler[t], balanse), maned, apning, kwh, mnd, g, sensor, n)
  <2> SUFFICES ASSUME NEW t \in DOMAIN deler, NEW s, DelvisTopp(s, maned, apning, kwh, mnd, g, sensor, n)
               PROVE  DelvisTopp(EnDel(s, deler[t], balanse), maned, apning, kwh, mnd, g, sensor, n)
    OBVIOUS
  <2>1. PICK p : p = deler[t]
    OBVIOUS
  <2>2. p # Ingen /\ p.tid \in Tikk /\ p.tid <= naa /\ p.verdi \in Int /\ p.kilde = sensor
    BY <1>5, <1>10, <2>1 DEF Lesbardel
  <2>3. DelvisTopp(s, maned, apning, kwh, mnd, g, sensor, naa)
    BY <1>11
  <2>4. DelvisTopp(EnDel(s, p, balanse), maned, apning, kwh, mnd, g, sensor, naa)
    BY <1>12, <1>13, <2>2, <2>3, EnDelTopp
  <2>. QED
    BY <1>11, <2>1, <2>4
<1>15. PICK r : r = Lopet(deler, balanse, start, DOMAIN deler)
  OBVIOUS
<1>16. DelvisTopp(r, maned, apning, kwh, mnd, g, sensor, n)
  <2>1. PICK S : S = DOMAIN deler
    OBVIOUS
  <2>2. \A t \in S : \A s : DelvisTopp(s, maned, apning, kwh, mnd, g, sensor, n) =>
          DelvisTopp(EnDel(s, deler[t], balanse), maned, apning, kwh, mnd, g, sensor, n)
    BY <1>14, <2>1
  <2>3. Heltall(S)
    BY <1>5, <2>1
  <2>4. DelvisTopp(Lopet(deler, balanse, start, S), maned, apning, kwh, mnd, g, sensor, n)
    BY <1>13, <2>2, <2>3, LopBevarerTopp
  <2>. QED
    BY <1>15, <2>1, <2>4
<1>17. LET u == Avsluttet(r)
       IN  /\ DelvisTopp(u, maned, apning, kwh, mnd, g, sensor, naa)
           /\ (\A h \in DOMAIN u.kwh : ManedAv[h] = maned /\ g <= h => h \in DOMAIN u.bok.poster) =>
                ToppMellom(u.k.topp, u.kwh, maned, Time(naa), Time(naa))
  <2>1. DelvisTopp(r, maned, apning, kwh, mnd, g, sensor, naa)
    BY <1>11, <1>16
  <2>. QED
    BY <1>12, <2>1, AvsluttetTopp
<1>18. PICK s : s = Avsluttet(r)
  OBVIOUS
<1>19. Bokfort(prove, a) = s
  BY <1>5, <1>15, <1>18
<1>. QED
  BY <1>5, <1>6, <1>7, <1>8, <1>9, <1>10, <1>12, <1>17, <1>18, <1>19

-----------------------------------------------------------------------------
(***************************************************************************)
(* The posts and the peaks through the Store.                              *)
(***************************************************************************)

\* Another baseline while the ledger is empty.
LEMMA GrunnlinjePostert ==
  ASSUME NEW b, TellbarBok(b), NEW n, NEW a, a # Ingen => a.tid \in Tikk /\ a.tid <= n,
         NEW kwh, DOMAIN kwh = {}, NEW sensor, NEW mnd,
         \A h \in DOMAIN b.poster : FALSE,
         b.aktiv # Ingen => b.aktiv <= mnd
  PROVE  LET c == [b EXCEPT !.sist = a]
         IN  Postert(c, kwh, Grunntime(c), sensor, mnd, n)
<1>1. PICK c : c = [b EXCEPT !.sist = a]
  OBVIOUS
<1>2. c.poster = b.poster /\ c.aktiv = b.aktiv /\ c.sist = a
  BY <1>1 DEF TellbarBok, BokInv, StrukturOK, TomBok
<1>3. a # Ingen => Grunntime(c) = Time(a.tid) /\ Time(a.tid) \in Nat
  BY <1>2, TimeNat DEF Grunntime
<1>4. Postert(c, kwh, Grunntime(c), sensor, mnd, n)
  BY <1>2, <1>3 DEF Postert
<1>. QED
  BY <1>1, <1>4

\* The posts a write keeps: those of the window.
LEMMA LagretPoster ==
  ASSUME NEW b, TellbarBok(b), NEW t \in Tikk
  PROVE  LET c == FraLagring(TilLagring(b, t))
         IN  /\ TellbarBok(c) /\ c.aktiv = b.aktiv /\ c.sist = b.sist
             /\ DOMAIN c.poster = {h \in DOMAIN b.poster : h >= Time(t) - Lagringsvindu}
             /\ \A h \in DOMAIN c.poster : c.poster[h] = b.poster[h]
<1>1. PICK l : l = TilLagring(b, t)
  OBVIOUS
<1>2. LagerOK(l) /\ l.skjema = 3 /\ l.sist = b.sist /\ l.aktiv = b.aktiv
  BY <1>1, TilLagringInv DEF TellbarBok
<1>3. PICK B : B = {h \in DOMAIN b.poster : h >= Time(t) - Lagringsvindu}
  OBVIOUS
<1>4. l.poster = Restrict(b.poster, B)
  BY <1>1, <1>3 DEF TilLagring
<1>5. PICK c : c = FraLagring(l)
  OBVIOUS
<1>6. c.aktiv = b.aktiv /\ c.sist = b.sist
  BY <1>2, <1>5, FraLagringInv
<1>7. c.poster = l.poster
  <2>1. l # TomtLager /\ l # GammeltLager
    BY <1>2 DEF TomtLager, GammeltLager
  <2>. QED
    BY <1>5, <2>1 DEF FraLagring, TomBok
<1>8. TellbarBok(c)
  BY <1>1, <1>5, LagretManeder DEF SammeManeder
<1>9. DOMAIN c.poster = B /\ \A h \in B : c.poster[h] = b.poster[h]
  BY <1>3, <1>4, <1>7 DEF Restrict
<1>. QED
  BY <1>1, <1>3, <1>5, <1>6, <1>8, <1>9

\* The meter has been heard from within the window that a write keeps, when
\* something is to be written.
MalerenHores ==
  fase # "ledig" /\ bok.sist # Ingen => Time(naa) - Time(bok.sist.tid) <= Lagringsvindu

\* So no window to come reaches an hour whose post a restart has lost.
LEMMA FilPostert ==
  ASSUME naa \in Tikk, TellbarBok(bok), NEW kwh, Timesplitt(kwh), NEW mnd, NEW n,
         Postert(bok, kwh, Grunntime(bok), kilde, mnd, n),
         bok.sist # Ingen => Time(naa) - Time(bok.sist.tid) <= Lagringsvindu
  PROVE  LET c == LestBok(Fil, kilde)
         IN  Postert(c, kwh, Grunntime(c), kilde, mnd, n)
<1>1. PICK b : b = bok
  OBVIOUS
<1>2. PICK sensor : sensor = kilde
  OBVIOUS
<1>3. PICK t \in Tikk : t = naa
  OBVIOUS
<1>4. PICK l : l = Fil
  OBVIOUS
<1>5. /\ l.bok = TilLagring(b, t)
      /\ l.baseline = IF b.sist # Ingen /\ b.sist.kilde \notin Estimerte THEN b.sist ELSE Ingen
  BY <1>1, <1>3, <1>4 DEF Fil
<1>6. PICK d : d = FraLagring(l.bok)
  OBVIOUS
<1>7. /\ TellbarBok(b) /\ Postert(b, kwh, Grunntime(b), sensor, mnd, n)
      /\ b.sist # Ingen => Time(t) - Time(b.sist.tid) <= Lagringsvindu
  BY <1>1, <1>2, <1>3
<1>8. /\ TellbarBok(d) /\ d.aktiv = b.aktiv /\ d.sist = b.sist
      /\ DOMAIN d.poster = {h \in DOMAIN b.poster : h >= Time(t) - Lagringsvindu}
      /\ \A h \in DOMAIN d.poster : d.poster[h] = b.poster[h]
  BY <1>5, <1>6, <1>7, LagretPoster
<1>9. Postert(d, kwh, Grunntime(d), sensor, mnd, n)
  <2>1. Grunntime(d) = Grunntime(b)
    BY <1>8 DEF Grunntime
  <2>2. ASSUME NEW h \in DOMAIN kwh, ManedAv[h] = b.aktiv, Grunntime(b) <= h
        PROVE  h \in DOMAIN d.poster
    <3>1. h \in DOMAIN b.poster /\ b.sist # Ingen
      BY <1>7, <2>2 DEF Postert
    <3>2. h \in Int /\ Time(t) \in Nat /\ Time(b.sist.tid) \in Nat /\ Lagringsvindu \in Nat
      <4>1. h \in Int
        BY TidAssumption DEF Timesplitt, Timer
      <4>2. Time(t) \in Nat
        BY TimeNat
      <4>3. b.sist.tid \in Tikk
        BY <1>7, <3>1 DEF TellbarBok, BokInv, StrukturOK
      <4>4. Time(b.sist.tid) \in Nat
        BY <4>3, TimeNat
      <4>5. Lagringsvindu \in Nat
        BY TidAssumption
      <4>. QED
        BY <4>1, <4>2, <4>4, <4>5
    <3>3. Time(b.sist.tid) <= h
      BY <2>2, <3>1 DEF Grunntime
    <3>4. h >= Time(t) - Lagringsvindu
      BY <1>7, <3>1, <3>2, <3>3
    <3>. QED
      BY <1>8, <3>1, <3>4
  <2>3. \A h \in DOMAIN d.poster : h \in DOMAIN kwh /\ d.poster[h].kwh = kwh[h]
    BY <1>7, <1>8 DEF Postert
  <2>. QED
    BY <1>7, <1>8, <2>1, <2>2, <2>3 DEF Postert
<1>10. PICK c : c = LestBok(l, sensor)
  OBVIOUS
<1>11. Postert(c, kwh, Grunntime(c), sensor, mnd, n)
  <2>1. CASE l.baseline # Ingen /\ sensor \in Estimerte
    <3>1. c = [d EXCEPT !.sist = Ingen]
      BY <1>6, <1>10, <2>1 DEF LestBok
    <3>2. DOMAIN kwh = {}
      BY <1>5, <1>7, <2>1 DEF Postert
    <3>3. (\A h \in DOMAIN d.poster : FALSE) /\ (d.aktiv # Ingen => d.aktiv <= mnd)
      BY <1>9, <3>2 DEF Postert
    <3>. QED
      BY <1>8, <3>1, <3>2, <3>3, GrunnlinjePostert
  <2>2. CASE ~ (l.baseline # Ingen /\ sensor \in Estimerte) /\ d.sist = Ingen /\ sensor \notin Estimerte
    <3>1. c = [d EXCEPT !.sist = Ingen]
      BY <1>5, <1>6, <1>8, <1>10, <2>2 DEF LestBok
    <3>2. DOMAIN kwh = {}
      BY <1>9, <2>2 DEF Postert
    <3>3. (\A h \in DOMAIN d.poster : FALSE) /\ (d.aktiv # Ingen => d.aktiv <= mnd)
      BY <1>9, <3>2 DEF Postert
    <3>. QED
      BY <1>8, <3>1, <3>2, <3>3, GrunnlinjePostert
  <2>3. CASE ~ (l.baseline # Ingen /\ sensor \in Estimerte) /\ ~ (d.sist = Ingen /\ sensor \notin Estimerte)
    <3>1. c = d
      BY <1>6, <1>10, <2>3 DEF LestBok
    <3>. QED
      BY <1>9, <3>1
  <2>. QED
    BY <2>1, <2>2, <2>3
<1>. QED
  BY <1>2, <1>4, <1>10, <1>11

\* A start from a Store that holds no book.
LEMMA StartPostert ==
  ASSUME NEW l \in Startfiler, NEW sensor, NEW mnd
  PROVE  LET c == LestBok(l, sensor)
         IN  Postert(c, <<>>, Grunntime(c), sensor, mnd, 0)
<1>1. PICK kwh : kwh = <<>>
  OBVIOUS
<1>2. DOMAIN kwh = {}
  BY <1>1
<1>3. /\ l.bok = TomtLager \/ l.bok = GammeltLager
      /\ l.baseline # Ingen => l.baseline.tid = 0
  BY StartfilForm DEF GamleGrunnlinjer
<1>4. PICK b : b = FraLagring(l.bok)
  OBVIOUS
<1>5. \E u : b = TomBok(u)
  <2>1. TomtLager.skjema = 0 /\ GammeltLager.skjema = 2
    BY DEF TomtLager, GammeltLager
  <2>2. TomtLager # GammeltLager
    BY <2>1
  <2>3. l.bok = TomtLager => b = TomBok(FALSE)
    BY <1>4, <2>2 DEF FraLagring
  <2>4. l.bok = GammeltLager => b = TomBok(TRUE)
    BY <1>4, <2>2 DEF FraLagring
  <2>. QED
    BY <1>3, <2>3, <2>4
<1>6. TellbarBok(b) /\ b.sist = Ingen /\ b.aktiv = Ingen /\ (\A h \in DOMAIN b.poster : FALSE)
  <2>1. PICK u : b = TomBok(u)
    BY <1>5
  <2>2. b.sist = Ingen /\ b.aktiv = Ingen /\ b.poster = <<>>
    BY <2>1 DEF TomBok
  <2>3. BokInv(b) /\ HelBok(b) /\ \A x \in Felt : Sumfelt(b, x) = 0
    BY <2>1, TomBokInv, TomEnergi
  <2>. QED
    BY <2>2, <2>3, EnergifeltFelt DEF TellbarBok
<1>7. PICK c : c = LestBok(l, sensor)
  OBVIOUS
<1>8. c = b \/ c = [b EXCEPT !.sist = Ingen] \/ c = [b EXCEPT !.sist = l.baseline]
  BY <1>4, <1>7 DEF LestBok
<1>9. PICK n : n = 0
  OBVIOUS
<1>10. Postert(b, kwh, Grunntime(b), sensor, mnd, n)
  BY <1>2, <1>6 DEF Postert
<1>11. LET d == [b EXCEPT !.sist = Ingen] IN Postert(d, kwh, Grunntime(d), sensor, mnd, n)
  BY <1>2, <1>6, GrunnlinjePostert
<1>12. LET d == [b EXCEPT !.sist = l.baseline] IN Postert(d, kwh, Grunntime(d), sensor, mnd, n)
  <2>1. PICK a : a = l.baseline
    OBVIOUS
  <2>2. a # Ingen => a.tid \in Tikk /\ a.tid <= n
    BY <1>3, <1>9, <2>1, NullTikk
  <2>3. LET d == [b EXCEPT !.sist = a] IN Postert(d, kwh, Grunntime(d), sensor, mnd, n)
    BY <1>2, <1>6, <2>2, GrunnlinjePostert
  <2>. QED
    BY <2>1, <2>3
<1>13. Postert(c, kwh, Grunntime(c), sensor, mnd, n)
  BY <1>8, <1>10, <1>11, <1>12
<1>. QED
  BY <1>1, <1>7, <1>9, <1>13

\* What a start makes of the Store leaves posts and peaks.
LEMMA InnlestTopp ==
  ASSUME NEW l, NEW sensor, TellbarBok(LestBok(l, sensor)), FelterOK(l.k)
  PROVE  LET x == Innlest(l, sensor)
         IN  SammePostene(LestBok(l, sensor), x.bok) /\ SammeTopp(l.k, x.k)
<1>1. PICK c : c = LestBok(l, sensor)
  OBVIOUS
<1>2. PICK felter : felter = [l.k EXCEPT !.forrige = LestForrige(@)]
  OBVIOUS
<1>3. PICK x : x = Innlest(l, sensor)
  OBVIOUS
<1>4. x.bok = (IF ForesAvBoken(c, felter.maned) THEN Bygd(c) ELSE c)
      /\ x.k = [felter EXCEPT !.kr = Kronebokforing(c, felter)]
  BY <1>1, <1>2, <1>3 DEF Innlest, MedKroner
<1>5. SammePostene(c, x.bok)
  BY <1>1, <1>4, BygdPostene DEF SammePostene
<1>6. PICK k0 : k0 = l.k
  OBVIOUS
<1>7. PICK k1 : k1 = x.k
  OBVIOUS
<1>8. SammeTopp(k0, k1)
  BY <1>2, <1>4, <1>6, <1>7 DEF SammeTopp, FelterOK, Minne
<1>. QED
  BY <1>1, <1>3, <1>5, <1>6, <1>7, <1>8

-----------------------------------------------------------------------------
(***************************************************************************)
(* The invariant behind the peaks.  The book and what the Store would give *)
(* back keep the posts that a window can still reach, and the peaks of the *)
(* month are squeezed between the two bounds at the hour of the last poll. *)
(* During a rollover there are no peaks, and every hour of the new month   *)
(* has its post.                                                           *)
(***************************************************************************)
ToppInv ==
  /\ hel.poll \in Tikk /\ hel.poll <= naa
  /\ fase # "ledig" => hel.poll = naa
  /\ lagret.poll \in Tikk /\ lagret.poll <= naa
  /\ Bokholdt(bok, k, hel)
  /\ Bokholdt(LestBok(lager, kilde), lager.k, lagret)
  /\ fase = "skifte" =>
       /\ k.topp = <<>>
       /\ \A h \in DOMAIN hel.kwh : ManedAv[h] = k.maned => h \in DOMAIN bok.poster
  /\ fase # "skifte" => ToppAv(k, hel)
  /\ ~ poll.skiftet => ToppAv(lager.k, lagret)

LEMMA BokholdtSamme ==
  ASSUME NEW b, NEW c, NEW h, Bokholdt(b, c, h), NEW b2, SammePostene(b, b2),
         NEW c2, c2.maned = c.maned
  PROVE  Bokholdt(b2, c2, h)
<1>1. PICK sensor : sensor = kilde
  OBVIOUS
<1>2. PICK g : g = Grunntime(b)
  OBVIOUS
<1>3. PICK kwh : kwh = h.kwh
  OBVIOUS
<1>4. PICK m : m = c.maned
  OBVIOUS
<1>5. PICK n : n = h.poll
  OBVIOUS
<1>6. Postert(b, kwh, g, sensor, m, n)
  BY <1>1, <1>2, <1>3, <1>4, <1>5 DEF Bokholdt
<1>7. Postert(b2, kwh, g, sensor, m, n)
  BY <1>6, PostertSamme
<1>8. Grunntime(b2) = g
  BY <1>2 DEF Grunntime, SammePostene
<1>. QED
  BY <1>1, <1>3, <1>4, <1>5, <1>7, <1>8 DEF Bokholdt

LEMMA ToppAvSamme ==
  ASSUME NEW c, NEW h, ToppAv(c, h), NEW c2, SammeTopp(c, c2)
  PROVE  ToppAv(c2, h)
BY DEF ToppAv, SammeTopp

\* No hour has been used, and there are no peaks.
LEMMA IngenTopper ==
  ASSUME NEW kwh, NEW m, NEW t, \A h \in DOMAIN kwh : ManedAv[h] # m
  PROVE  ToppMellom(<<>>, kwh, m, t, t)
<1>1. Brukt(kwh, m, t) = {}
  BY DEF Brukt
<1>2. PICK topp : topp = <<>>
  OBVIOUS
<1>3. DOMAIN topp = {}
  BY <1>2
<1>4. Topper(<<>>)
  <2>1. <<>> = [d \in DOMAIN <<>> |-> <<>>[d]]
    OBVIOUS
  <2>. QED
    BY <1>2, <1>3, <2>1 DEF Topper
<1>5. Dekker(topp, kwh, Brukt(kwh, m, t)) /\ Naadd(topp, kwh, Brukt(kwh, m, t))
  BY <1>1, <1>3 DEF Dekker, Naadd
<1>. QED
  BY <1>2, <1>4, <1>5 DEF ToppMellom

\* The end of a poll leaves posts and peaks.
LEMMA FerdigTopp ==
  ASSUME NEW b, NEW c, NEW timer, NEW skitten, Ferdig(b, c, timer, skitten),
         TellbarBok(b), FelterOK(c)
  PROVE  SammePostene(b, bok') /\ SammeTopp(c, k')
<1>1. PICK o : o = Oppdater(b)
  OBVIOUS
<1>2. PICK b2 : b2 = Bygd(o)
  OBVIOUS
<1>3. SammePostene(b, b2)
  <2>1. SammeManeder(b, o) /\ SammePostene(b, o)
    BY <1>1, OppdaterManeder, OppdaterPostene
  <2>2. SammePostene(o, b2)
    BY <1>2, <2>1, BygdPostene DEF SammeManeder
  <2>. QED
    BY <2>1, <2>2 DEF SammePostene
<1>4. PICK c2 : c2 = Akkumuler(b, c, timer)
  OBVIOUS
<1>5. SammeTopp(c, c2)
  BY <1>4, AkkumulerTopp
<1>6. PICK uker : uker = UtenGamle(c.uke, DatoNaa)
  OBVIOUS
<1>7. PICK c3 : c3 = [c2 EXCEPT !.uke = uker]
  OBVIOUS
<1>8. SammeTopp(c, c3)
  BY <1>5, <1>7 DEF SammeTopp, FelterOK, Minne
<1>9. bok' = b2 /\ k' = c3
  BY <1>1, <1>2, <1>4, <1>6, <1>7 DEF Ferdig
<1>. QED
  BY <1>3, <1>8, <1>9

-----------------------------------------------------------------------------
(***************************************************************************)
(* The steps.                                                              *)
(***************************************************************************)
LEMMA ToppInit == Init => ToppInv
<1> SUFFICES ASSUME Init PROVE ToppInv
  OBVIOUS
<1>1. PICK l : l = lager
  OBVIOUS
<1>2. l \in Startfiler
  BY <1>1 DEF Init
<1>3. PICK sensor : sensor = kilde
  OBVIOUS
<1>4. PICK h : h = hel
  OBVIOUS
<1>5. h.kwh = <<>> /\ h.poll = 0 /\ naa = 0 /\ lagret = h /\ fase = "ledig"
  BY <1>4 DEF Init
<1>6. /\ TellbarBok(LestBok(l, sensor)) /\ FelterOK(l.k)
  BY <1>2, StartManeder, StartfilForm
<1>7. l.k.topp = <<>>
  BY <1>2 DEF Startfiler, Startfil, Minne
<1>8. PICK b : b = LestBok(l, sensor)
  OBVIOUS
<1>9. PICK c : c = l.k
  OBVIOUS
<1>10. PICK x : x = Innlest(l, sensor)
  OBVIOUS
<1>11. SammePostene(b, x.bok) /\ SammeTopp(c, x.k)
  BY <1>6, <1>8, <1>9, <1>10, InnlestTopp
<1>12. Bokholdt(b, c, h)
  <2>1. PICK m : m = c.maned
    OBVIOUS
  <2>2. Postert(b, <<>>, Grunntime(b), sensor, m, 0)
    BY <1>2, <1>8, StartPostert
  <2>. QED
    BY <1>3, <1>5, <2>1, <2>2 DEF Bokholdt
<1>13. ToppAv(c, h)
  <2>1. \A m, t : ToppMellom(<<>>, <<>>, m, t, t)
    BY IngenTopper
  <2>. QED
    BY <1>5, <1>7, <1>9, <2>1 DEF ToppAv
<1>14. PICK b2 : b2 = x.bok
  OBVIOUS
<1>15. PICK c2 : c2 = x.k
  OBVIOUS
<1>16. SammePostene(b, b2) /\ SammeTopp(c, c2) /\ c2.maned = c.maned
  BY <1>11, <1>14, <1>15 DEF SammeTopp
<1>17. Bokholdt(b2, c2, h) /\ ToppAv(c2, h)
  BY <1>12, <1>13, <1>16, BokholdtSamme, ToppAvSamme
<1>18. bok = b2 /\ k = c2
  BY <1>1, <1>3, <1>10, <1>14, <1>15 DEF Init
<1>. QED
  BY <1>1, <1>3, <1>4, <1>5, <1>8, <1>9, <1>12, <1>13, <1>17, <1>18, NullTikk DEF ToppInv

LEMMA ToppKlokke == ToppInv /\ naa \in Tikk /\ Klokke => ToppInv'
<1> SUFFICES ASSUME ToppInv, naa \in Tikk, Klokke PROVE ToppInv'
  OBVIOUS
<1>1. /\ naa' = naa + 1 /\ fase = "ledig"
      /\ UNCHANGED <<bok, k, fase, poll, lager, kilde, hel, lagret>>
  BY DEF Klokke
<1>2. hel.poll <= naa' /\ lagret.poll <= naa' /\ hel.poll \in Tikk /\ lagret.poll \in Tikk
  <2>1. PICK p : p = hel.poll
    OBVIOUS
  <2>2. PICK q : q = lagret.poll
    OBVIOUS
  <2>3. p \in Tikk /\ q \in Tikk /\ p <= naa /\ q <= naa
    BY <2>1, <2>2 DEF ToppInv
  <2>4. p \in Nat /\ q \in Nat /\ naa \in Nat
    BY <2>3, TimeNat
  <2>. QED
    BY <1>1, <2>1, <2>2, <2>3, <2>4
<1>3. /\ Bokholdt(bok, k, hel) /\ Bokholdt(LestBok(lager, kilde), lager.k, lagret)
      /\ ToppAv(k, hel) /\ (~ poll.skiftet => ToppAv(lager.k, lagret))
  BY <1>1 DEF ToppInv
<1>4. /\ Bokholdt(bok, k, hel)' /\ Bokholdt(LestBok(lager, kilde), lager.k, lagret)'
  BY <1>1, <1>3 DEF Bokholdt
<1>5. ToppAv(k, hel)' /\ (~ poll.skiftet => ToppAv(lager.k, lagret))'
  BY <1>1, <1>3 DEF ToppAv
<1>. QED
  BY <1>1, <1>2, <1>4, <1>5 DEF ToppInv

\* The poll up to its first await.
LEMMA ToppPoll ==
  ASSUME ForbrukInv, ToppInv, Poll
  PROVE  ToppInv'
<1>1. PICK prove \in Priser \cup {Ingen}, a \in Avlesninger \cup {Ingen} :
        Lesbar(a) /\ Bokfores(Bokfort(prove, a), prove)
  BY DEF Poll
<1>2. /\ fase = "ledig" /\ naa \in Tikk /\ Holder(bok, k, hel, MndNaa) /\ Viser(k, hel)
      /\ ~ poll.skiftet
  BY DEF ForbrukInv, Poll
<1>3. /\ Bokholdt(bok, k, hel) /\ ToppAv(k, hel) /\ hel.poll \in Tikk /\ hel.poll <= naa
      /\ Bokholdt(LestBok(lager, kilde), lager.k, lagret) /\ ToppAv(lager.k, lagret)
      /\ lagret.poll \in Tikk /\ lagret.poll <= naa
  BY <1>2 DEF ToppInv
<1>4. PICK mnd : mnd = MndNaa
  OBVIOUS
<1>5. PICK m : m = k.maned
  OBVIOUS
<1>6. mnd \in Nat /\ m \in Nat /\ m <= mnd
  <2>1. mnd \in Nat
    BY <1>2, <1>4, MndNaaType
  <2>2. m \in Maneder /\ m <= mnd
    BY <1>2, <1>4, <1>5 DEF Holder, FelterOK
  <2>. QED
    BY <2>1, <2>2, ManederNat
<1>7. \A x \in DOMAIN hel.kwh : ManedAv[x] \in Nat /\ ManedAv[x] <= m
  BY <1>2, <1>5, ManedType DEF Holder, Timesplitt
<1>8. Enige(bok, k, hel.kwh, hel.apning, MndNaa)
  <2>1. \A x \in DOMAIN hel.kwh : ManedAv[x] <= mnd
    BY <1>6, <1>7
  <2>. QED
    BY <1>2, <1>4, <2>1 DEF Enige, Holder, Viser
<1>9. PICK s : s = Bokfort(prove, a)
  OBVIOUS
<1>10. PICK sensor : sensor = kilde
  OBVIOUS
<1>11. PICK n : n = naa
  OBVIOUS
<1>12. PICK g \in Nat :
         /\ DelvisTopp(s, m, hel.apning, hel.kwh, mnd, g, sensor, n)
         /\ (\A x \in DOMAIN s.kwh : ManedAv[x] = m /\ g <= x => x \in DOMAIN s.bok.poster) =>
              ToppMellom(s.k.topp, s.kwh, m, Time(n), Time(n))
  <2>1. m <= mnd /\ k.maned <= MndNaa
    BY <1>4, <1>5, <1>6
  <2>2. \E g \in Nat :
          LET r == Bokfort(prove, a)
          IN  /\ DelvisTopp(r, k.maned, hel.apning, hel.kwh, MndNaa, g, kilde, naa)
              /\ (\A x \in DOMAIN r.kwh : ManedAv[x] = k.maned /\ g <= x => x \in DOMAIN r.bok.poster) =>
                   ToppMellom(r.k.topp, r.kwh, k.maned, Time(naa), Time(naa))
    BY <1>1, <1>2, <1>3, <1>8, <2>1, BokfortTopp
  <2>. QED
    BY <1>4, <1>5, <1>9, <1>10, <1>11, <2>2
<1>13. PICK b : b = s.bok
  OBVIOUS
<1>14. PICK kwh : kwh = s.kwh
  OBVIOUS
<1>15. /\ TellbarBok(b) /\ FelterOK(s.k) /\ s.k.maned = m /\ Timesplitt(kwh)
       /\ \A x \in DOMAIN kwh : ManedAv[x] <= mnd
  BY <1>12, <1>13, <1>14 DEF DelvisTopp, Delvis
<1>16. /\ Postert(b, kwh, g, sensor, mnd, n)
       /\ \A x \in DOMAIN kwh : x \in DOMAIN hel.kwh \/ g <= x
  BY <1>12, <1>13, <1>14 DEF DelvisTopp, Toppvis
<1>17. Postert(b, kwh, Grunntime(b), sensor, mnd, n)
  BY <1>15, <1>16, PostertGrunntime
<1>18. \A x \in DOMAIN kwh : ManedAv[x] = mnd /\ g <= x => x \in DOMAIN b.poster
  <2> SUFFICES ASSUME NEW x \in DOMAIN kwh, ManedAv[x] = mnd, g <= x
               PROVE  x \in DOMAIN b.poster
    OBVIOUS
  <2>1. b.aktiv # Ingen /\ ManedAv[x] <= b.aktiv /\ b.aktiv <= mnd
    BY <1>16 DEF Postert
  <2>2. b.aktiv \in Nat
    BY <1>15, <2>1, ManederNat DEF TellbarBok, BokInv, StrukturOK
  <2>3. b.aktiv = ManedAv[x]
    BY <1>6, <2>1, <2>2
  <2>. QED
    BY <1>16, <2>3 DEF Postert
<1>19. PICK h : h = NyHel(prove, s.kwh, s.k.maned)
  OBVIOUS
<1>20. h.kwh = kwh /\ h.poll = n
  BY <1>2, <1>11, <1>14, <1>19 DEF NyHel, Holder
<1>21. hel' = h /\ UNCHANGED <<naa, lager, kilde, tariff, lagret, omstarter>>
  BY <1>1, <1>9, <1>19 DEF Bokfores
<1>22. /\ hel'.poll \in Tikk /\ hel'.poll <= naa' /\ hel'.poll = naa'
       /\ lagret'.poll \in Tikk /\ lagret'.poll <= naa'
  BY <1>2, <1>3, <1>11, <1>20, <1>21, TimeNat
<1>23. Bokholdt(LestBok(lager, kilde), lager.k, lagret)' /\ ToppAv(lager.k, lagret)'
  <2>1. Bokholdt(LestBok(lager, kilde), lager.k, lagret)'
    BY <1>3, <1>21 DEF Bokholdt
  <2>2. ToppAv(lager.k, lagret)'
    BY <1>3, <1>21 DEF ToppAv
  <2>. QED
    BY <2>1, <2>2
<1>24. CASE s.k.maned = MndNaa /\ Ferdig(s.bok, s.k, s.timer, s.skitten)
  <2>1. PICK c : c = s.k
    OBVIOUS
  <2>2. m = mnd /\ c.maned = mnd
    BY <1>4, <1>15, <1>24, <2>1
  <2>3. Bokholdt(b, c, h)
    BY <1>10, <1>17, <1>20, <2>2 DEF Bokholdt
  <2>4. ToppAv(c, h)
    <3>1. ToppMellom(s.k.topp, s.kwh, m, Time(n), Time(n))
      BY <1>12, <1>13, <1>14, <1>18, <2>2
    <3>. QED
      BY <1>14, <1>20, <2>1, <2>2, <3>1 DEF ToppAv
  <2>5. PICK timer : timer = s.timer
    OBVIOUS
  <2>6. PICK skitten : skitten = s.skitten
    OBVIOUS
  <2>7. Ferdig(b, c, timer, skitten)
    BY <1>13, <1>24, <2>1, <2>5, <2>6
  <2>8. SammePostene(b, bok') /\ SammeTopp(c, k') /\ fase' # "skifte"
    <3>1. SammePostene(b, bok') /\ SammeTopp(c, k')
      BY <1>15, <2>1, <2>7, FerdigTopp
    <3>. QED
      BY <2>7, <3>1 DEF Ferdig
  <2>9. PICK b2 : b2 = bok'
    OBVIOUS
  <2>10. PICK c2 : c2 = k'
    OBVIOUS
  <2>11. Bokholdt(b2, c2, h) /\ ToppAv(c2, h)
    <3>1. SammePostene(b, b2) /\ SammeTopp(c, c2) /\ c2.maned = c.maned
      BY <2>8, <2>9, <2>10 DEF SammeTopp
    <3>. QED
      BY <2>3, <2>4, <3>1, BokholdtSamme, ToppAvSamme
  <2>12. Bokholdt(bok, k, hel)' /\ ToppAv(k, hel)'
    BY <1>21, <2>9, <2>10, <2>11 DEF Bokholdt, ToppAv
  <2>. QED
    BY <1>22, <1>23, <2>8, <2>12 DEF ToppInv
<1>25. CASE s.k.maned # MndNaa /\ fase' = "skifte" /\ bok' = s.bok /\ k' = Rullert(s.k)
  <2>1. PICK c : c = Rullert(s.k)
    OBVIOUS
  <2>2. c.maned = mnd /\ c.topp = <<>>
    BY <1>4, <1>15, <2>1 DEF Rullert, FelterOK, Minne
  <2>3. m < mnd
    BY <1>4, <1>6, <1>15, <1>25
  <2>4. \A x \in DOMAIN kwh : ManedAv[x] = mnd => x \in DOMAIN b.poster
    <3> SUFFICES ASSUME NEW x \in DOMAIN kwh, ManedAv[x] = mnd
                 PROVE  x \in DOMAIN b.poster
      OBVIOUS
    <3>1. x \notin DOMAIN hel.kwh
      BY <1>6, <1>7, <2>3
    <3>. QED
      BY <1>16, <1>18, <3>1
  <2>5. Bokholdt(b, c, h)
    BY <1>10, <1>17, <1>20, <2>2 DEF Bokholdt
  <2>6. Bokholdt(bok, k, hel)'
    BY <1>13, <1>21, <1>25, <2>1, <2>5 DEF Bokholdt
  <2>7. k'.topp = <<>> /\ \A x \in DOMAIN hel'.kwh : ManedAv[x] = k'.maned => x \in DOMAIN bok'.poster
    BY <1>13, <1>20, <1>21, <1>25, <2>1, <2>2, <2>4
  <2>. QED
    BY <1>22, <1>23, <1>25, <2>6, <2>7 DEF ToppInv
<1>. QED
  BY <1>1, <1>9, <1>24, <1>25 DEF Bokfores

\* A month whose peaks are still to be read.
LEMMA UlesteTopper ==
  ASSUME NEW topp, topp = <<>>, NEW kwh, NEW m, NEW g, NEW t, Brukt(kwh, m, g) = {}
  PROVE  ToppMellom(topp, kwh, m, g, t)
<1>1. ToppMellom(topp, <<>>, m, g, g)
  <2>1. PICK f : f = <<>>
    OBVIOUS
  <2>2. \A h \in DOMAIN f : ManedAv[h] # m
    BY <2>1
  <2>3. ToppMellom(<<>>, f, m, g, g)
    BY <2>2, IngenTopper
  <2>. QED
    BY <2>1, <2>3
<1>2. Topper(topp) /\ DOMAIN topp = {}
  BY <1>1 DEF ToppMellom
<1>3. Dekker(topp, kwh, Brukt(kwh, m, g)) /\ Naadd(topp, kwh, Brukt(kwh, m, t))
  BY <1>2 DEF Dekker, Naadd
<1>. QED
  BY <1>2, <1>3 DEF ToppMellom

\* What a write makes of the ledger's counterpart in the Store.
LEMMA FilBokholdt ==
  ASSUME naa \in Tikk, TellbarBok(bok), FelterOK(k), NEW h, Timesplitt(h.kwh), Bokholdt(bok, k, h),
         bok.sist # Ingen => Time(naa) - Time(bok.sist.tid) <= Lagringsvindu
  PROVE  /\ Bokholdt(LestBok(Fil, kilde), Fil.k, h)
         /\ SammeTopp(k, Fil.k)
<1>1. SammeTopp(k, Fil.k)
  BY DEF Fil, SammeTopp, FelterOK, Minne
<1>2. PICK kwh : kwh = h.kwh
  OBVIOUS
<1>3. PICK m : m = k.maned
  OBVIOUS
<1>4. PICK n : n = h.poll
  OBVIOUS
<1>5. Postert(bok, kwh, Grunntime(bok), kilde, m, n)
  BY <1>2, <1>3, <1>4 DEF Bokholdt
<1>6. PICK c : c = LestBok(Fil, kilde)
  OBVIOUS
<1>7. Postert(c, kwh, Grunntime(c), kilde, m, n)
  BY <1>2, <1>5, <1>6, FilPostert
<1>. QED
  BY <1>1, <1>2, <1>3, <1>4, <1>6, <1>7 DEF Bokholdt, SammeTopp

\* The rollover: the peaks of the new month are those of its closed hours, all of
\* which the book keeps.
LEMMA ToppSkifte ==
  ASSUME ForbrukInv, ToppInv, MalerenHores, NEW ok \in BOOLEAN, Skifte(ok)
  PROVE  ToppInv'
<1>1. /\ fase = "skifte" /\ naa \in Tikk /\ Holder(bok, k, hel, MndNaa)
      /\ ~ poll.skiftet /\ k.maned = MndNaa
  BY DEF ForbrukInv, Skifte, Nyapnet
<1>2. /\ Bokholdt(bok, k, hel) /\ hel.poll = naa /\ lagret.poll \in Tikk /\ lagret.poll <= naa
      /\ Bokholdt(LestBok(lager, kilde), lager.k, lagret) /\ ToppAv(lager.k, lagret)
      /\ k.topp = <<>>
      /\ \A x \in DOMAIN hel.kwh : ManedAv[x] = k.maned => x \in DOMAIN bok.poster
  BY <1>1 DEF ToppInv
<1>3. bok.sist # Ingen => Time(naa) - Time(bok.sist.tid) <= Lagringsvindu
  BY <1>1 DEF MalerenHores
<1>4. PICK h : h = hel
  OBVIOUS
<1>5. PICK kwh : kwh = h.kwh
  OBVIOUS
<1>6. PICK b : b = bok
  OBVIOUS
<1>7. PICK m : m = k.maned
  OBVIOUS
<1>8. TellbarBok(b) /\ FelterOK(k) /\ Timesplitt(kwh)
  BY <1>1, <1>4, <1>5, <1>6 DEF Holder
<1>9. PICK c0 : c0 = [k EXCEPT !.forbruk = ForbrukFraBoken(bok, k.maned, Null)]
  OBVIOUS
<1>10. FelterOK(c0) /\ c0.maned = m /\ c0.topp = <<>>
  BY <1>2, <1>7, <1>8, <1>9 DEF FelterOK, Minne
<1>11. PICK c : c = EtterSkifte
  OBVIOUS
<1>12. c = Timesmaks(b, c0)
  BY <1>6, <1>9, <1>11 DEF EtterSkifte
<1>13. FelterOK(c) /\ c.maned = m
  BY <1>10, <1>12, TimesmaksForbruk DEF SammeForbruk
<1>14. Time(naa) \in Int
  BY <1>1, TimeNat
<1>15. ToppAv(c, h)
  <2>1. Brukt(kwh, m, 0) = {}
    <3>1. \A x \in DOMAIN kwh : x \in Nat
      BY <1>8, TidAssumption DEF Timesplitt, Timer
    <3>. QED
      BY <3>1 DEF Brukt
  <2>2. PICK g \in Int : g = 0
    OBVIOUS
  <2>3. PICK t : t = Time(naa)
    OBVIOUS
  <2>4. PICK topp : topp = c0.topp
    OBVIOUS
  <2>5. ToppMellom(topp, kwh, m, g, t)
    BY <1>10, <2>1, <2>2, <2>4, UlesteTopper
  <2>6. \A x \in DOMAIN b.poster : x \in DOMAIN kwh /\ b.poster[x].kwh = kwh[x]
    BY <1>2, <1>4, <1>5, <1>6 DEF Bokholdt, Postert
  <2>7. \A x \in DOMAIN kwh : ManedAv[x] = m => x \in DOMAIN b.poster
    BY <1>2, <1>4, <1>5, <1>6, <1>7
  <2>8. PICK r : r = Timesmaks(b, c0)
    OBVIOUS
  <2>9. ToppMellom(c0.topp, kwh, c0.maned, g, Time(naa))
    BY <1>10, <2>3, <2>4, <2>5
  <2>10. (\A x \in DOMAIN kwh : ManedAv[x] = c0.maned /\ g <= x => x \in DOMAIN b.poster) =>
           ToppMellom(r.topp, kwh, c0.maned, Time(naa), Time(naa))
    BY <1>8, <1>10, <1>14, <2>6, <2>8, <2>9, TimesmaksTopp
  <2>11. ToppMellom(r.topp, kwh, m, Time(naa), Time(naa))
    BY <1>10, <2>7, <2>10
  <2>. QED
    BY <1>2, <1>4, <1>5, <1>12, <1>13, <2>8, <2>11 DEF ToppAv
<1>16. Bokholdt(b, c, h)
  BY <1>2, <1>4, <1>6, <1>7, <1>13 DEF Bokholdt
<1>17. PICK skitten : skitten = (poll.skitten \/ NyeTopper(k, c))
  OBVIOUS
<1>18. PICK timer : timer = poll.timer
  OBVIOUS
<1>19. /\ Ferdig(b, c, timer, skitten)
       /\ poll' = [IngenPoll EXCEPT !.skiftet = ok /\ fase' = "lagrer"]
       /\ UNCHANGED <<naa, kilde, tariff, hel, omstarter>>
       /\ lager' = (IF ok THEN Fil ELSE lager) /\ lagret' = (IF ok THEN hel ELSE lagret)
  BY <1>6, <1>11, <1>17, <1>18 DEF Skifte, Skriv
<1>20. SammePostene(b, bok') /\ SammeTopp(c, k')
  BY <1>8, <1>13, <1>19, FerdigTopp
<1>21. fase' \in {"ledig", "lagrer"} /\ (skitten => fase' = "lagrer")
  BY <1>19 DEF Ferdig
<1>22. Bokholdt(bok, k, hel)' /\ ToppAv(k, hel)'
  <2>1. PICK b2 : b2 = bok'
    OBVIOUS
  <2>2. PICK c2 : c2 = k'
    OBVIOUS
  <2>3. Bokholdt(b2, c2, h) /\ ToppAv(c2, h)
    <3>1. SammePostene(b, b2) /\ SammeTopp(c, c2) /\ c2.maned = c.maned
      BY <1>20, <2>1, <2>2 DEF SammeTopp
    <3>. QED
      BY <1>15, <1>16, <3>1, BokholdtSamme, ToppAvSamme
  <2>. QED
    BY <1>4, <1>19, <2>1, <2>2, <2>3 DEF Bokholdt, ToppAv
<1>23. /\ Bokholdt(LestBok(lager, kilde), lager.k, lagret)'
       /\ (~ poll.skiftet)' => ToppAv(lager.k, lagret)'
       /\ lagret'.poll \in Tikk /\ lagret'.poll <= naa'
  <2>1. CASE ~ ok
    BY <1>2, <1>19, <2>1 DEF Bokholdt, ToppAv
  <2>2. CASE ok
    <3>1. Bokholdt(LestBok(Fil, kilde), Fil.k, h) /\ SammeTopp(k, Fil.k)
      <4>1. TellbarBok(bok) /\ FelterOK(k) /\ Timesplitt(h.kwh) /\ Bokholdt(bok, k, h)
        BY <1>2, <1>4, <1>5, <1>6, <1>8
      <4>. QED
        BY <1>1, <1>3, <4>1, FilBokholdt
    <3>2. lager' = Fil /\ lagret' = h /\ kilde' = kilde /\ naa' = naa
      BY <1>4, <1>19, <2>2
    <3>3. Bokholdt(LestBok(lager, kilde), lager.k, lagret)'
      BY <3>1, <3>2 DEF Bokholdt
    <3>4. ASSUME ~ poll'.skiftet
          PROVE  ToppAv(lager.k, lagret)'
      <4>1. fase' # "lagrer"
        BY <1>19, <2>2, <3>4 DEF IngenPoll
      <4>2. c.topp = k.topp
        BY <1>17, <1>21, <4>1 DEF NyeTopper
      <4>3. PICK c2 : c2 = Fil.k
        OBVIOUS
      <4>4. c2.topp = c.topp /\ c2.maned = c.maned
        BY <1>7, <1>13, <3>1, <4>2, <4>3 DEF SammeTopp
      <4>5. ToppAv(c2, h)
        BY <1>15, <4>4 DEF ToppAv
      <4>. QED
        BY <3>2, <4>3, <4>5 DEF ToppAv
    <3>5. lagret'.poll \in Tikk /\ lagret'.poll <= naa'
      <4>1. h.poll = naa /\ naa \in Nat
        BY <1>1, <1>2, <1>4, TimeNat
      <4>. QED
        BY <1>1, <3>2, <4>1
    <3>. QED
      BY <3>3, <3>4, <3>5
  <2>. QED
    BY <2>1, <2>2
<1>24. hel'.poll \in Tikk /\ hel'.poll = naa' /\ hel'.poll <= naa'
  <2>1. naa \in Nat
    BY <1>1, TimeNat
  <2>. QED
    BY <1>1, <1>2, <1>19, <2>1
<1>25. fase' # "skifte"
  BY <1>21
<1>. QED
  BY <1>22, <1>23, <1>24, <1>25 DEF ToppInv

\* The save at the end of the poll.
LEMMA ToppSlutt ==
  ASSUME ~ FeilIMellom, ForbrukInv, ToppInv, MalerenHores, NEW ok \in BOOLEAN, Slutt(ok)
  PROVE  ToppInv'
<1>1. /\ fase = "lagrer" /\ naa \in Tikk /\ Holder(bok, k, hel, MndNaa)
  BY DEF ForbrukInv, Slutt
<1>2. /\ Bokholdt(bok, k, hel) /\ hel.poll = naa /\ lagret.poll \in Tikk /\ lagret.poll <= naa
      /\ Bokholdt(LestBok(lager, kilde), lager.k, lagret) /\ ToppAv(k, hel)
      /\ ~ poll.skiftet => ToppAv(lager.k, lagret)
  BY <1>1 DEF ToppInv
<1>3. bok.sist # Ingen => Time(naa) - Time(bok.sist.tid) <= Lagringsvindu
  BY <1>1 DEF MalerenHores
<1>4. /\ ok \/ ~ poll.skiftet
      /\ lager' = (IF ok THEN Fil ELSE lager) /\ lagret' = (IF ok THEN hel ELSE lagret)
      /\ bok' = Oppdater(bok) /\ fase' = "ledig" /\ poll' = IngenPoll
      /\ UNCHANGED <<naa, k, kilde, tariff, hel, omstarter>>
  BY DEF Slutt, Skriv
<1>5. PICK h : h = hel
  OBVIOUS
<1>6. TellbarBok(bok) /\ FelterOK(k) /\ Timesplitt(h.kwh) /\ Bokholdt(bok, k, h) /\ ToppAv(k, h)
  BY <1>1, <1>2, <1>5 DEF Holder
<1>7. Bokholdt(bok, k, hel)' /\ ToppAv(k, hel)'
  <2>1. PICK b : b = bok
    OBVIOUS
  <2>2. PICK b2 : b2 = Oppdater(b)
    OBVIOUS
  <2>3. PICK c : c = k
    OBVIOUS
  <2>4. SammePostene(b, b2)
    BY <1>6, <2>1, <2>2, OppdaterPostene
  <2>5. Bokholdt(b2, c, h)
    BY <1>6, <2>1, <2>3, <2>4, BokholdtSamme
  <2>. QED
    BY <1>4, <1>5, <1>6, <2>1, <2>2, <2>3, <2>5 DEF Bokholdt, ToppAv
<1>8. /\ Bokholdt(LestBok(lager, kilde), lager.k, lagret)' /\ ToppAv(lager.k, lagret)'
      /\ lagret'.poll \in Tikk /\ lagret'.poll <= naa'
  <2>1. CASE ~ ok
    BY <1>2, <1>4, <2>1 DEF Bokholdt, ToppAv
  <2>2. CASE ok
    <3>1. Bokholdt(LestBok(Fil, kilde), Fil.k, h) /\ SammeTopp(k, Fil.k)
      BY <1>1, <1>3, <1>6, FilBokholdt
    <3>2. lager' = Fil /\ lagret' = h /\ kilde' = kilde /\ naa' = naa
      BY <1>4, <1>5, <2>2
    <3>3. ToppAv(Fil.k, h)
      BY <1>6, <3>1, ToppAvSamme
    <3>4. h.poll = naa /\ naa \in Nat
      BY <1>1, <1>2, <1>5, TimeNat
    <3>. QED
      BY <1>1, <3>1, <3>2, <3>3, <3>4 DEF Bokholdt, ToppAv
  <2>. QED
    BY <2>1, <2>2
<1>9. hel'.poll \in Tikk /\ hel'.poll <= naa'
  <2>1. naa \in Nat
    BY <1>1, TimeNat
  <2>. QED
    BY <1>1, <1>2, <1>4, <2>1
<1>. QED
  BY <1>4, <1>7, <1>8, <1>9 DEF ToppInv

\* A restart.
LEMMA ToppKrasj ==
  ASSUME ~ FeilIMellom, ForbrukInv, ToppInv, Krasj
  PROVE  ToppInv'
<1>1. PICK l : l = lager
  OBVIOUS
<1>2. PICK h : h = lagret
  OBVIOUS
<1>3. PICK sensor : sensor = kilde
  OBVIOUS
<1>4. PICK x : x = Innlest(l, sensor)
  OBVIOUS
<1>5. PICK b : b = LestBok(l, sensor)
  OBVIOUS
<1>6. PICK c : c = l.k
  OBVIOUS
<1>7. /\ TellbarBok(b) /\ FelterOK(c) /\ ~ poll.skiftet
  BY <1>1, <1>3, <1>5, <1>6 DEF ForbrukInv, Krasj, Holder
<1>8. Bokholdt(b, c, h) /\ ToppAv(c, h) /\ h.poll \in Tikk /\ h.poll <= naa
  BY <1>1, <1>2, <1>3, <1>5, <1>6, <1>7 DEF ToppInv
<1>9. /\ bok' = x.bok /\ k' = x.k /\ fase' = "ledig" /\ poll' = IngenPoll /\ hel' = h
      /\ UNCHANGED <<naa, lager, kilde, lagret>>
  BY <1>1, <1>2, <1>3, <1>4 DEF Krasj
<1>10. PICK b2 : b2 = x.bok
  OBVIOUS
<1>11. PICK c2 : c2 = x.k
  OBVIOUS
<1>12. SammePostene(b, b2) /\ SammeTopp(c, c2) /\ c2.maned = c.maned
  <2>1. TellbarBok(LestBok(l, sensor)) /\ FelterOK(l.k)
    BY <1>5, <1>6, <1>7
  <2>2. SammePostene(b, x.bok) /\ SammeTopp(c, x.k)
    BY <1>4, <1>5, <1>6, <2>1, InnlestTopp
  <2>. QED
    BY <1>10, <1>11, <2>2 DEF SammeTopp
<1>13. Bokholdt(b2, c2, h) /\ ToppAv(c2, h)
  BY <1>8, <1>12, BokholdtSamme, ToppAvSamme
<1>14. Bokholdt(bok, k, hel)' /\ ToppAv(k, hel)'
  BY <1>9, <1>10, <1>11, <1>13 DEF Bokholdt, ToppAv
<1>15. Bokholdt(LestBok(lager, kilde), lager.k, lagret)' /\ ToppAv(lager.k, lagret)'
  BY <1>1, <1>2, <1>3, <1>5, <1>6, <1>8, <1>9 DEF Bokholdt, ToppAv
<1>. QED
  BY <1>2, <1>8, <1>9, <1>14, <1>15 DEF ToppInv

LEMMA ToppSteg ==
  ASSUME ~ FeilIMellom
  PROVE  ForbrukInv /\ ToppInv /\ MalerenHores /\ [Next]_vars => ToppInv'
<1> SUFFICES ASSUME ForbrukInv, ToppInv, MalerenHores, [Next]_vars PROVE ToppInv'
  OBVIOUS
<1>1. CASE Klokke
  BY <1>1, ToppKlokke DEF ForbrukInv
<1>2. CASE Poll
  BY <1>2, ToppPoll
<1>3. ASSUME NEW ok \in BOOLEAN, Skifte(ok) PROVE ToppInv'
  BY <1>3, ToppSkifte
<1>4. ASSUME NEW ok \in BOOLEAN, Slutt(ok) PROVE ToppInv'
  BY <1>4, ToppSlutt
<1>5. CASE Krasj
  BY <1>5, ToppKrasj
<1>6. CASE UNCHANGED vars
  BY <1>6 DEF vars, ToppInv, Bokholdt, ToppAv
<1>. QED
  BY <1>1, <1>2, <1>3, <1>4, <1>5, <1>6 DEF Next

\* The peaks of the month are those of its own closed hours, each with all the
\* energy it got, after every poll, whatever the readings, the month boundaries,
\* the failed writes and the restarts, as long as the two writes of a poll that
\* turns the month stand or fall together and nothing is written after the meter
\* has been silent for longer than the window a write keeps.
THEOREM ToppeneFolgerTimene ==
  ASSUME ~ FeilIMellom
  PROVE  Spec /\ []MalerenHores => []ToppeneErManedens
<1>1. Init => ForbrukInv /\ ToppInv
  BY ForbrukInit, ToppInit
<1>2. ForbrukInv /\ ToppInv /\ MalerenHores /\ [Next]_vars => ForbrukInv' /\ ToppInv'
  BY ForbrukSteg, ToppSteg
<1>3. ForbrukInv /\ ToppInv => ToppeneErManedens
  <2> SUFFICES ASSUME ForbrukInv, ToppInv, Ledig
               PROVE  k.topp = FasitTopp({h \in TimerI(k.maned) : h < Time(hel.poll)})
    BY DEF ToppeneErManedens
  <2>1. PICK kwh : kwh = hel.kwh
    OBVIOUS
  <2>2. PICK topp : topp = k.topp
    OBVIOUS
  <2>3. PICK T : T = Brukt(kwh, k.maned, Time(hel.poll))
    OBVIOUS
  <2>4. Timesplitt(kwh) /\ Topper(topp) /\ Dekker(topp, kwh, T) /\ Naadd(topp, kwh, T)
    BY <2>1, <2>2, <2>3 DEF ForbrukInv, Holder, ToppInv, ToppAv, ToppMellom, Ledig
  <2>5. T \subseteq DOMAIN kwh
    BY <2>3 DEF Brukt
  <2>6. topp = MedTopper(<<>>, [h \in T |-> kwh[h]])
    BY <2>4, <2>5, TopperEntydig
  <2>7. T = Brukte({h \in TimerI(k.maned) : h < Time(hel.poll)})
    BY <2>1, <2>3 DEF Brukt, Brukte, TimerI
  <2>. QED
    BY <2>1, <2>2, <2>6, <2>7 DEF FasitTopp
<1>. QED
  BY <1>1, <1>2, <1>3, PTL DEF Spec


-----------------------------------------------------------------------------
(***************************************************************************)
(* The kroner of an interval.                                              *)
(***************************************************************************)

\* A price is a finite number of samples.
Prisform(pris) == IsFiniteSet(DOMAIN pris) /\ \A r \in DOMAIN pris : pris[r] \in Int

LEMMA SnittType ==
  ASSUME NEW pris, Prisform(pris), DOMAIN pris # {}
  PROVE  Sum(pris, DOMAIN pris) \div Cardinality(DOMAIN pris) \in Int
<1>1. PICK s : s = Sum(pris, DOMAIN pris)
  OBVIOUS
<1>2. PICK n : n = Cardinality(DOMAIN pris)
  OBVIOUS
<1>3. s \in Int
  <2>1. s = SumFunctionOnSet(pris, DOMAIN pris)
    BY <1>1, MapTilSum DEF Sum
  <2>. QED
    BY <2>1, SumType DEF Prisform
<1>4. n \in Nat /\ n # 0
  BY <1>2, FS_CardinalityType, FS_EmptySet DEF Prisform
<1>5. s \div n \in Int
  BY <1>3, <1>4
<1>. QED
  BY <1>1, <1>2, <1>5

\* The kroner of an interval are a number, and no energy costs nothing.
LEMMA KrType ==
  ASSUME NEW kwh \in Int, NEW pris, Prisform(pris), NEW foran \in Int
  PROVE  /\ Kr(kwh, pris, foran) \in Int
         /\ kwh = 0 => Kr(kwh, pris, foran) = 0
<1>1. PICK p : p = Sum(pris, DOMAIN pris) \div Cardinality(DOMAIN pris)
  OBVIOUS
<1>2. PICK u : u = MinstAv(kwh, StorstAv(0, Tak - foran))
  OBVIOUS
<1>3. u \in Int /\ (kwh = 0 => u = 0)
  <2>1. Tak - foran \in Int
    BY PengeAssumption
  <2>. QED
    BY <1>2, <2>1 DEF MinstAv, StorstAv
<1>4. Kr(kwh, pris, foran) = kwh * Nett + (IF DOMAIN pris = {} THEN 0 ELSE kwh * p - Stotte * u)
  BY <1>1, <1>2 DEF Kr
<1>5. kwh * Nett \in Int /\ Stotte * u \in Int
  BY <1>3, PengeAssumption
<1>6. CASE DOMAIN pris = {}
  BY <1>4, <1>5, <1>6, PengeAssumption
<1>7. CASE DOMAIN pris # {}
  <2>1. p \in Int
    BY <1>1, <1>7, SnittType
  <2>2. kwh * p \in Int
    BY <2>1
  <2>3. kwh = 0 => kwh * Nett = 0 /\ kwh * p = 0 /\ Stotte * u = 0
    BY <1>3, <2>1, PengeAssumption
  <2>. QED
    BY <1>4, <1>5, <1>7, <2>2, <2>3
<1>. QED
  BY <1>6, <1>7

\* The samples of a book, or of the ledger.
RuterOK(ruter) == DOMAIN ruter \subseteq Ruter /\ \A r \in DOMAIN ruter : ruter[r].verdi \in Int

LEMMA PrisformAv ==
  ASSUME NEW ruter, RuterOK(ruter), NEW h
  PROVE  Prisform(Prisintervall(ruter, h))
<1>1. IsFiniteSet(Ruter)
  <2>1. (SisteTime + 1) * RuterPerTime - 1 \in Int
    BY TidAssumption
  <2>. QED
    BY <2>1, FS_Interval DEF Ruter
<1>2. DOMAIN Prisintervall(ruter, h) \subseteq Ruter
  BY DEF Prisintervall, RuterOK
<1>3. \A r \in DOMAIN Prisintervall(ruter, h) : Prisintervall(ruter, h)[r] \in Int
  BY DEF Prisintervall, RuterOK
<1>. QED
  BY <1>1, <1>2, <1>3, FS_Subset DEF Prisform

\* The energy of the month before an hour, and what the hour costs.
Foran(kwh, m, f0, x) == f0 + SumFunctionOnSet(kwh, {g \in IManed(kwh, m) : g < x})

Verd(kwh, ruter, m, f0, x) == Kr(kwh[x], Prisintervall(ruter, x), Foran(kwh, m, f0, x))

\* The hours of a month in a ledger.
LEMMA IManedType ==
  ASSUME NEW kwh, Timesplitt(kwh), NEW m
  PROVE  /\ IsFiniteSet(IManed(kwh, m)) /\ IManed(kwh, m) \subseteq Timer
         /\ \A x \in IManed(kwh, m) : x \in Int /\ x \in DOMAIN kwh /\ kwh[x] \in Nat /\ kwh[x] \in Int
                                      /\ ManedAv[x] = m
<1>1. IsFiniteSet(IManed(kwh, m))
  BY ManedsdelType
<1>2. \A x \in Timer : x \in Int
  BY TidAssumption DEF Timer
<1>3. \A x \in IManed(kwh, m) : x \in DOMAIN kwh /\ kwh[x] \in Nat /\ ManedAv[x] = m /\ x \in Timer
  BY DEF IManed, Gruppe, Timesplitt
<1>. QED
  BY <1>1, <1>2, <1>3

LEMMA VerdType ==
  ASSUME NEW kwh, Timesplitt(kwh), NEW ruter, RuterOK(ruter), NEW m, NEW f0 \in Nat,
         NEW x \in IManed(kwh, m)
  PROVE  /\ Foran(kwh, m, f0, x) \in Nat /\ Verd(kwh, ruter, m, f0, x) \in Int
         /\ kwh[x] = 0 => Verd(kwh, ruter, m, f0, x) = 0
<1>1. PICK S : S = {g \in IManed(kwh, m) : g < x}
  OBVIOUS
<1>2. SumFunctionOnSet(kwh, S) \in Nat
  <2>1. IsFiniteSet(S) /\ \A g \in S : kwh[g] \in Nat
    BY <1>1, IManedType, FS_Subset
  <2>. QED
    BY <2>1, SumNat
<1>3. PICK n : n = Foran(kwh, m, f0, x)
  OBVIOUS
<1>4. n \in Nat
  BY <1>1, <1>2, <1>3 DEF Foran
<1>5. PICK p : p = Prisintervall(ruter, x)
  OBVIOUS
<1>6. Prisform(p)
  BY <1>5, PrisformAv
<1>7. PICK e : e = kwh[x]
  OBVIOUS
<1>8. e \in Int /\ n \in Int
  BY <1>4, <1>7, IManedType
<1>9. Kr(e, p, n) \in Int /\ (e = 0 => Kr(e, p, n) = 0)
  BY <1>6, <1>8, KrType
<1>. QED
  BY <1>3, <1>4, <1>5, <1>7, <1>9 DEF Verd

-----------------------------------------------------------------------------
(***************************************************************************)
(* Pricing again.                                                          *)
(***************************************************************************)

\* What an hour has given already, and what each hour of the month adds to the
\* month's kroner: what it has given if it lies in the book, else what it costs.
Gitt(c, x) == IF x \in DOMAIN c.kr THEN c.kr[x] ELSE 0

Regnet(P, c, kwh, ruter, f0) ==
  [x \in IManed(kwh, c.maned) |->
     IF x \in P THEN Gitt(c, x) ELSE Verd(kwh, ruter, c.maned, f0, x)]

IDag(kwh, m, d) == {x \in IManed(kwh, m) : Dogn[x] = d}

\* The kroner follow the energy but for the posts in S, which may have changed
\* since they were priced.
Delkroner(P, c, kwh, ruter, f0, S) ==
  /\ \A x \in DOMAIN c.kr : x \in IManed(kwh, c.maned) /\ c.kr[x] \in Int
  /\ \A x \in IManed(kwh, c.maned) \cap P :
       x \notin S => x \in DOMAIN c.kr /\ c.kr[x] = Verd(kwh, ruter, c.maned, f0, x)
  /\ c.kroner = SumFunctionOnSet(Regnet(P, c, kwh, ruter, f0), IManed(kwh, c.maned))
  /\ c.dagskost = SumFunctionOnSet(Regnet(P, c, kwh, ruter, f0), IDag(kwh, c.maned, c.dato))

\* The posts are the upper hours of their month in the ledger, priced as there.
Kjenner(b, kwh, ruter) ==
  /\ \A h \in DOMAIN b.poster :
       /\ h \in DOMAIN kwh /\ b.poster[h].kwh = kwh[h]
       /\ Prisintervall(b.ruter, h) = Prisintervall(ruter, h)
  /\ \A h \in DOMAIN b.poster, g \in DOMAIN kwh :
       h <= g /\ ManedAv[g] = b.aktiv => g \in DOMAIN b.poster

LEMMA PosterIManed ==
  ASSUME NEW b, TellbarBok(b), NEW kwh, NEW ruter, Kjenner(b, kwh, ruter)
  PROVE  /\ DOMAIN b.poster \subseteq IManed(kwh, b.aktiv)
         /\ b.aktiv = Ingen => DOMAIN b.poster = {}
<1>1. \A h \in DOMAIN b.poster : ManedAv[h] = b.aktiv /\ h \in Timer
  BY DEF TellbarBok, BokInv, StrukturOK
<1>2. \A h \in DOMAIN b.poster : ManedAv[h] # Ingen
  BY <1>1, ManedType
<1>. QED
  BY <1>1, <1>2 DEF Kjenner, IManed, Gruppe

\* The energy of the month from a post on is the book's, and before it the rest.
KwhFra(b, h) == MapThenSumSet(LAMBDA g : b.poster[g].kwh, {g \in DOMAIN b.poster : g >= h})

LEMMA FraOgFor ==
  ASSUME NEW b, TellbarBok(b), NEW kwh, Timesplitt(kwh), NEW ruter, Kjenner(b, kwh, ruter),
         NEW h \in DOMAIN b.poster
  PROVE  SumFunctionOnSet(kwh, IManed(kwh, b.aktiv)) - KwhFra(b, h)
           = SumFunctionOnSet(kwh, {g \in IManed(kwh, b.aktiv) : g < h})
         /\ SumFunctionOnSet(kwh, {g \in IManed(kwh, b.aktiv) : g < h}) \in Nat
         /\ SumFunctionOnSet(kwh, IManed(kwh, b.aktiv)) \in Int /\ KwhFra(b, h) \in Int
<1>1. PICK T : T = IManed(kwh, b.aktiv)
  OBVIOUS
<1>2. PICK S : S = {g \in DOMAIN b.poster : g >= h}
  OBVIOUS
<1>3. IsFiniteSet(T) /\ h \in Int /\ \A x \in T : x \in Int /\ kwh[x] \in Nat /\ kwh[x] \in Int
  BY <1>1, IManedType, PosterIManed
<1>4. S \in SUBSET T /\ \A g \in S : b.poster[g].kwh = kwh[g]
  BY <1>1, <1>2, PosterIManed DEF Kjenner
<1>5. S = {g \in T : g >= h}
  BY <1>1, <1>2, <1>4 DEF Kjenner, IManed, Gruppe
<1>6. T \ S = {g \in T : g < h}
  BY <1>3, <1>5
<1>7. IsFiniteSet(S) /\ IsFiniteSet(T \ S)
  BY <1>3, <1>4, FS_Subset
<1>8. KwhFra(b, h) = SumFunctionOnSet(kwh, S)
  <2>1. PICK w : w = [g \in S |-> b.poster[g].kwh]
    OBVIOUS
  <2>2. KwhFra(b, h) = SumFunctionOnSet(w, S)
    BY <1>2, <1>7, <2>1, KwhTilSum DEF KwhFra
  <2>3. \A g \in S : kwh[g] \in Int /\ w[g] = kwh[g]
    BY <1>3, <1>4, <2>1
  <2>. QED
    BY <1>7, <2>2, <2>3, SumLik
<1>9. /\ SumFunctionOnSet(kwh, T \ S) = SumFunctionOnSet(kwh, T) - SumFunctionOnSet(kwh, S)
      /\ SumFunctionOnSet(kwh, S) \in Int /\ SumFunctionOnSet(kwh, T) \in Int
  BY <1>3, <1>4, SumDifferens
<1>10. SumFunctionOnSet(kwh, T \ S) \in Nat
  BY <1>3, <1>7, SumNat
<1>. QED
  BY <1>1, <1>6, <1>8, <1>9, <1>10

\* What _omregn_kroner makes of an hour of the book is what the hour costs.
NyKr(b, c, h) ==
  Kr(b.poster[h].kwh, Bygg(b, h).pris, StorstAv(0, SumKwh(c.forbruk) - KwhFra(b, h)))

LEMMA NyKrVerdi ==
  ASSUME NEW b, TellbarBok(b), NEW kwh, Timesplitt(kwh), NEW ruter, Kjenner(b, kwh, ruter),
         NEW f0 \in Nat, NEW c,
         SumKwh(c.forbruk) = f0 + SumFunctionOnSet(kwh, IManed(kwh, b.aktiv)),
         NEW h \in DOMAIN b.poster
  PROVE  NyKr(b, c, h) = Verd(kwh, ruter, b.aktiv, f0, h)
<1>1. PICK t : t = SumFunctionOnSet(kwh, IManed(kwh, b.aktiv))
  OBVIOUS
<1>2. PICK e : e = KwhFra(b, h)
  OBVIOUS
<1>3. PICK n : n = SumFunctionOnSet(kwh, {g \in IManed(kwh, b.aktiv) : g < h})
  OBVIOUS
<1>4. t - e = n /\ n \in Nat /\ t \in Int /\ e \in Int
  BY <1>1, <1>2, <1>3, FraOgFor
<1>5. StorstAv(0, SumKwh(c.forbruk) - e) = f0 + n
  <2>1. (f0 + t) - e = f0 + n /\ f0 + n \in Nat
    BY <1>4
  <2>. QED
    BY <1>1, <2>1 DEF StorstAv
<1>6. Bygg(b, h).pris = Prisintervall(ruter, h)
  <2>1. Bygg(b, h) = NyttIntervall(b, h)
    BY DEF Bygg, TellbarBok, BokInv, CacheFersk
  <2>. QED
    BY <2>1 DEF NyttIntervall, Kjenner
<1>. QED
  BY <1>2, <1>3, <1>5, <1>6 DEF NyKr, Verd, Foran, Kjenner

\* The form of _omregn_kroner.
Endring(b, c, S) == MapThenSumSet(LAMBDA h : NyKr(b, c, h) - Gitt(c, h), S)

Berort(b, c, timer) == {h \in timer \cap DOMAIN b.poster : ManedAv[h] = c.maned}

LEMMA EndringSum ==
  ASSUME NEW b, NEW c, NEW S, IsFiniteSet(S)
  PROVE  Endring(b, c, S) = SumFunctionOnSet([h \in S |-> NyKr(b, c, h) - Gitt(c, h)], S)
<1> DEFINE v == [h \in S |-> NyKr(b, c, h) - Gitt(c, h)]
           P(q) == q = [s \in SUBSET S |-> IF s = {} THEN 0
                          ELSE NyKr(b, c, CHOOSE x \in s : TRUE) - Gitt(c, CHOOSE x \in s : TRUE)
                               + q[s \ {CHOOSE x \in s : TRUE}]]
<1>1. PICK g : ErSum(g, v, S)
  BY SumFinnes
<1>2. \A s \in SUBSET S : s # {} => (CHOOSE x \in s : TRUE) \in S
  OBVIOUS
<1>3. \A q : P(q) <=> ErSum(q, v, S)
  BY <1>2 DEF ErSum, Valgt
<1>4. Endring(b, c, S) = (CHOOSE q : P(q))[S]
  BY DEF Endring, MapThenSumSet, MapThenFoldSet
<1> HIDE DEF P, v
<1>5. ErSum(CHOOSE q : P(q), v, S)
  BY <1>1, <1>3
<1>. QED
  BY <1>4, <1>5, SumVerdi DEF v

LEMMA OmregnForm ==
  ASSUME NEW b, NEW c, FelterOK(c), NEW timer
  PROVE  LET r == Omregn(b, c, timer)
             B == Berort(b, c, timer)
         IN  /\ FelterOK(r) /\ r.maned = c.maned /\ r.dato = c.dato /\ r.forbruk = c.forbruk
             /\ r.kroner = c.kroner + Endring(b, c, B)
             /\ r.dagskost = c.dagskost + Endring(b, c, {h \in B : Dogn[h] = c.dato})
             /\ DOMAIN r.kr = DOMAIN c.kr \cup B
             /\ \A h \in B : r.kr[h] = NyKr(b, c, h)
             /\ \A h \in DOMAIN c.kr \ B : r.kr[h] = c.kr[h]
<1>1. PICK r : r = Omregn(b, c, timer)
  OBVIOUS
<1>2. FelterOK(r) /\ r.maned = c.maned /\ r.dato = c.dato /\ r.forbruk = c.forbruk
  BY <1>1 DEF Omregn, FelterOK, Minne
<1>3. r.kroner = c.kroner + Endring(b, c, Berort(b, c, timer))
  BY <1>1 DEF Omregn, FelterOK, Minne, Berort, Endring, NyKr, KwhFra, Gitt,
              MapThenSumSet, MapThenFoldSet
<1>4. r.dagskost = c.dagskost + Endring(b, c, {h \in Berort(b, c, timer) : Dogn[h] = c.dato})
  BY <1>1 DEF Omregn, FelterOK, Minne, Berort, Endring, NyKr, KwhFra, Gitt,
              MapThenSumSet, MapThenFoldSet
<1>5. r.kr = [h \in DOMAIN c.kr \cup Berort(b, c, timer) |->
                IF h \in Berort(b, c, timer) THEN NyKr(b, c, h) ELSE c.kr[h]]
  BY <1>1 DEF Omregn, FelterOK, Minne, Berort, NyKr, KwhFra
<1>. QED
  BY <1>1, <1>2, <1>3, <1>4, <1>5

\* Types of what the month's kroner are added up of.
LEMMA RegnetType ==
  ASSUME NEW P, NEW c, NEW kwh, Timesplitt(kwh), NEW ruter, RuterOK(ruter), NEW f0 \in Nat,
         \A x \in DOMAIN c.kr : c.kr[x] \in Int
  PROVE  /\ \A x \in IManed(kwh, c.maned) :
              Regnet(P, c, kwh, ruter, f0)[x] \in Int /\ Verd(kwh, ruter, c.maned, f0, x) \in Int
         /\ \A x : Gitt(c, x) \in Int
         /\ DOMAIN Regnet(P, c, kwh, ruter, f0) = IManed(kwh, c.maned)
<1>1. \A x : Gitt(c, x) \in Int
  BY DEF Gitt
<1>2. \A x \in IManed(kwh, c.maned) : Verd(kwh, ruter, c.maned, f0, x) \in Int
  BY VerdType
<1>. QED
  BY <1>1, <1>2 DEF Regnet

LEMMA IDagType ==
  ASSUME NEW kwh, Timesplitt(kwh), NEW m, NEW d
  PROVE  IDag(kwh, m, d) \in SUBSET IManed(kwh, m) /\ IsFiniteSet(IDag(kwh, m, d))
<1>1. IDag(kwh, m, d) \in SUBSET IManed(kwh, m)
  BY DEF IDag
<1>. QED
  BY <1>1, IManedType, FS_Subset

\* The hours that are priced again add the difference, to the month and to the
\* day, and are no longer behind.
LEMMA OmregnKroner ==
  ASSUME NEW b, TellbarBok(b), NEW c, FelterOK(c), NEW kwh, Timesplitt(kwh),
         NEW ruter, RuterOK(ruter), Kjenner(b, kwh, ruter), NEW f0 \in Nat,
         ForesAvBoken(b, c.maned),
         SumKwh(c.forbruk) = f0 + SumFunctionOnSet(kwh, IManed(kwh, c.maned)),
         NEW timer, NEW S, Delkroner(DOMAIN b.poster, c, kwh, ruter, f0, S)
  PROVE  Delkroner(DOMAIN b.poster, Omregn(b, c, timer), kwh, ruter, f0, S \ timer)
<1>1. PICK r : r = Omregn(b, c, timer)
  OBVIOUS
<1>2. PICK m : m = c.maned
  OBVIOUS
<1>3. PICK P : P = DOMAIN b.poster
  OBVIOUS
<1>4. PICK T : T = IManed(kwh, m)
  OBVIOUS
<1>5. PICK B : B = Berort(b, c, timer)
  OBVIOUS
<1>6. PICK w : w = Regnet(P, c, kwh, ruter, f0)
  OBVIOUS
<1>7. PICK u : u = Regnet(P, r, kwh, ruter, f0)
  OBVIOUS
<1>8. /\ FelterOK(r) /\ r.maned = m /\ r.dato = c.dato
      /\ r.kroner = c.kroner + Endring(b, c, B)
      /\ r.dagskost = c.dagskost + Endring(b, c, {h \in B : Dogn[h] = c.dato})
      /\ DOMAIN r.kr = DOMAIN c.kr \cup B
      /\ \A h \in B : r.kr[h] = NyKr(b, c, h)
      /\ \A h \in DOMAIN c.kr \ B : r.kr[h] = c.kr[h]
  <2>1. LET q == Omregn(b, c, timer)
            D == Berort(b, c, timer)
        IN  /\ FelterOK(q) /\ q.maned = c.maned /\ q.dato = c.dato
            /\ q.kroner = c.kroner + Endring(b, c, D)
            /\ q.dagskost = c.dagskost + Endring(b, c, {h \in D : Dogn[h] = c.dato})
            /\ DOMAIN q.kr = DOMAIN c.kr \cup D
            /\ \A h \in D : q.kr[h] = NyKr(b, c, h)
            /\ \A h \in DOMAIN c.kr \ D : q.kr[h] = c.kr[h]
    BY OmregnForm
  <2>. QED
    BY <1>1, <1>2, <1>5, <2>1
<1>9. /\ B = timer \cap P /\ B \subseteq T /\ P \subseteq T
      /\ \A h \in B : NyKr(b, c, h) = Verd(kwh, ruter, m, f0, h)
  <2>1. P \subseteq IManed(kwh, b.aktiv) /\ (b.aktiv = Ingen => P = {})
    BY <1>3, PosterIManed
  <2>2. P = {} \/ b.aktiv = m
    BY <1>2, <2>1 DEF ForesAvBoken
  <2>3. P \subseteq T
    BY <1>4, <2>1, <2>2
  <2>4. B = timer \cap P
    BY <1>2, <1>3, <1>4, <1>5, <2>3 DEF Berort, IManed, Gruppe
  <2>5. \A h \in P : NyKr(b, c, h) = Verd(kwh, ruter, m, f0, h)
    <3>1. CASE P = {}
      BY <3>1
    <3>2. CASE b.aktiv = m
      <4>1. SumKwh(c.forbruk) = f0 + SumFunctionOnSet(kwh, IManed(kwh, b.aktiv))
        BY <1>2, <3>2
      <4>2. \A h \in DOMAIN b.poster : NyKr(b, c, h) = Verd(kwh, ruter, b.aktiv, f0, h)
        BY <4>1, NyKrVerdi
      <4>. QED
        BY <1>3, <3>2, <4>2
    <3>. QED
      BY <2>2, <3>1, <3>2
  <2>. QED
    BY <2>3, <2>4, <2>5
<1>10. /\ \A x \in DOMAIN c.kr : x \in T /\ c.kr[x] \in Int
       /\ \A x \in T \cap P : x \notin S => x \in DOMAIN c.kr /\ c.kr[x] = Verd(kwh, ruter, m, f0, x)
       /\ c.kroner = SumFunctionOnSet(w, T)
       /\ c.dagskost = SumFunctionOnSet(w, IDag(kwh, m, c.dato))
  BY <1>2, <1>3, <1>4, <1>6 DEF Delkroner
<1>11. /\ IsFiniteSet(T) /\ \A x \in T : w[x] \in Int /\ Verd(kwh, ruter, m, f0, x) \in Int
       /\ \A x : Gitt(c, x) \in Int
  BY <1>2, <1>4, <1>6, <1>10, IManedType, RegnetType
<1>12. \A x \in DOMAIN r.kr : x \in T /\ r.kr[x] \in Int
  BY <1>8, <1>9, <1>10, <1>11
<1>13. \A x \in T \cap P : x \notin S \ timer =>
         x \in DOMAIN r.kr /\ r.kr[x] = Verd(kwh, ruter, m, f0, x)
  BY <1>8, <1>9, <1>10
<1>14. PICK d : d = [x \in T |-> IF x \in B THEN Verd(kwh, ruter, m, f0, x) - Gitt(c, x) ELSE 0]
  OBVIOUS
<1>15. \A x \in T : d[x] \in Int /\ u[x] = w[x] + d[x]
  <2>1. \A x \in T : d[x] \in Int
    BY <1>11, <1>14
  <2>2. \A x \in T : /\ w[x] = IF x \in P THEN Gitt(c, x) ELSE Verd(kwh, ruter, m, f0, x)
                     /\ u[x] = IF x \in P THEN Gitt(r, x) ELSE Verd(kwh, ruter, m, f0, x)
    BY <1>2, <1>4, <1>6, <1>7, <1>8 DEF Regnet
  <2>3. \A x \in P : Gitt(r, x) = IF x \in B THEN Verd(kwh, ruter, m, f0, x) ELSE Gitt(c, x)
    BY <1>8, <1>9 DEF Gitt
  <2>4. ASSUME NEW x \in T PROVE u[x] = w[x] + d[x]
    <3>1. d[x] = IF x \in B THEN Verd(kwh, ruter, m, f0, x) - Gitt(c, x) ELSE 0
      BY <1>14
    <3>2. Verd(kwh, ruter, m, f0, x) \in Int /\ Gitt(c, x) \in Int
      BY <1>11
    <3>3. CASE x \in B
      BY <1>9, <2>2, <2>3, <3>1, <3>2, <3>3
    <3>4. CASE x \notin B
      BY <2>2, <2>3, <3>1, <3>2, <3>4
    <3>. QED
      BY <3>3, <3>4
  <2>. QED
    BY <2>1, <2>4
<1>16. ASSUME NEW U \in SUBSET T
       PROVE  SumFunctionOnSet(u, U) = SumFunctionOnSet(w, U) + Endring(b, c, B \cap U)
  <2>1. IsFiniteSet(U) /\ IsFiniteSet(B \cap U) /\ B \cap U \in SUBSET U
    BY <1>11, FS_Subset
  <2>2. SumFunctionOnSet(u, U) = SumFunctionOnSet(w, U) + SumFunctionOnSet(d, U)
    BY <1>11, <1>15, <2>1, SumPluss
  <2>3. PICK e : e = [h \in B \cap U |-> NyKr(b, c, h) - Gitt(c, h)]
    OBVIOUS
  <2>4. Endring(b, c, B \cap U) = SumFunctionOnSet(e, B \cap U)
    BY <2>1, <2>3, EndringSum
  <2>5. \A x \in B \cap U : e[x] \in Int
    BY <1>9, <1>11, <2>3
  <2>6. \A x \in U : d[x] = IF x \in B \cap U THEN e[x] ELSE 0
    BY <1>9, <1>14, <2>3
  <2>7. SumFunctionOnSet(e, B \cap U) = SumFunctionOnSet(d, U)
    BY <2>1, <2>5, <2>6, SumFilter
  <2>. QED
    BY <2>2, <2>4, <2>7
<1>17. r.kroner = SumFunctionOnSet(u, T)
  <2>1. B \cap T = B
    BY <1>9
  <2>. QED
    BY <1>8, <1>10, <1>16, <2>1
<1>18. r.dagskost = SumFunctionOnSet(u, IDag(kwh, m, c.dato))
  <2>1. IDag(kwh, m, c.dato) \in SUBSET T
    BY <1>4 DEF IDag
  <2>2. B \cap IDag(kwh, m, c.dato) = {h \in B : Dogn[h] = c.dato}
    BY <1>4, <1>9 DEF IDag
  <2>. QED
    BY <1>8, <1>10, <1>16, <2>1, <2>2
<1>. QED
  BY <1>1, <1>3, <1>4, <1>7, <1>8, <1>12, <1>13, <1>17, <1>18 DEF Delkroner

-----------------------------------------------------------------------------
(***************************************************************************)
(* The kroner while the ledger grows, and when a sample is taken.          *)
(***************************************************************************)

\* New energy comes after all there is, but for the hour it begins in, and lands
\* in the book: those hours are behind, and no other is touched.
Etterpaa(P, Q, kwh, f, m) ==
  /\ \A x \in IManed(kwh, m), g \in IManed(f, m) : x \in IManed(f, m) \/ x < g
  /\ IManed(f, m) \subseteq Q
  /\ IManed(f, m) \cap IManed(kwh, m) \subseteq P
  /\ \A x \in IManed(kwh, m) \ IManed(f, m) : x \in Q <=> x \in P

LEMMA VerdEtterpaa ==
  ASSUME NEW kwh, Timesplitt(kwh), NEW f, Timesplitt(f), NEW m, NEW P, NEW Q,
         Etterpaa(P, Q, kwh, f, m), NEW ruter, NEW f0
  PROVE  /\ IManed(Lagt(kwh, f), m) = IManed(kwh, m) \cup IManed(f, m)
         /\ \A x \in IManed(kwh, m) \ IManed(f, m) :
              Verd(Lagt(kwh, f), ruter, m, f0, x) = Verd(kwh, ruter, m, f0, x)
<1>1. PICK l : l = Lagt(kwh, f)
  OBVIOUS
<1>2. PICK T : T = IManed(kwh, m)
  OBVIOUS
<1>3. PICK F : F = IManed(f, m)
  OBVIOUS
<1>4. IManed(l, m) = T \cup F
  BY <1>1, <1>2, <1>3 DEF Lagt, IManed, Gruppe
<1>5. /\ \A x \in T : x \in Int /\ kwh[x] \in Int /\ ManedAv[x] = m /\ x \in DOMAIN kwh
      /\ \A x \in F : x \in Int
      /\ IsFiniteSet(T)
  BY <1>2, <1>3, IManedType
<1>6. \A x \in T \ F : x \notin DOMAIN f
  BY <1>3, <1>5 DEF IManed, Gruppe
<1>7. \A x \in T \ F : l[x] = kwh[x]
  <2>1. ASSUME NEW x \in T \ F PROVE l[x] = kwh[x]
    <3>1. l[x] = kwh[x] + 0
      BY <1>1, <1>5, <1>6 DEF Lagt
    <3>. QED
      BY <1>5, <3>1
  <2>. QED
    BY <2>1
<1>8. ASSUME NEW x \in T \ F
      PROVE  Verd(l, ruter, m, f0, x) = Verd(kwh, ruter, m, f0, x)
  <2>1. PICK S : S = {g \in T : g < x}
    OBVIOUS
  <2>2. \A g \in F : x < g
    BY <1>2, <1>3 DEF Etterpaa
  <2>3. {g \in T \cup F : g < x} = S /\ S \subseteq T \ F
    BY <1>5, <2>1, <2>2
  <2>4. SumFunctionOnSet(l, S) = SumFunctionOnSet(kwh, S)
    <3>1. IsFiniteSet(S)
      BY <1>5, <2>1, FS_Subset
    <3>2. \A g \in S : kwh[g] \in Int /\ l[g] = kwh[g]
      BY <1>5, <1>7, <2>3
    <3>. QED
      BY <3>1, <3>2, SumLik
  <2>5. Foran(l, m, f0, x) = Foran(kwh, m, f0, x)
    BY <1>2, <1>4, <2>1, <2>3, <2>4 DEF Foran
  <2>. QED
    BY <1>7, <2>5 DEF Verd
<1>. QED
  BY <1>1, <1>2, <1>3, <1>4, <1>8

LEMMA DelkronerVokst ==
  ASSUME NEW kwh, Timesplitt(kwh), NEW f, Timesplitt(f), NEW c, NEW P, NEW Q,
         Etterpaa(P, Q, kwh, f, c.maned), NEW ruter, RuterOK(ruter), NEW f0 \in Nat,
         NEW S, Delkroner(P, c, kwh, ruter, f0, S)
  PROVE  Delkroner(Q, c, Lagt(kwh, f), ruter, f0, S \cup DOMAIN f)
<1>1. PICK l : l = Lagt(kwh, f)
  OBVIOUS
<1>2. PICK m : m = c.maned
  OBVIOUS
<1>3. PICK T : T = IManed(kwh, m)
  OBVIOUS
<1>4. PICK F : F = IManed(f, m)
  OBVIOUS
<1>5. PICK R : R = IManed(l, m)
  OBVIOUS
<1>6. PICK w : w = Regnet(P, c, kwh, ruter, f0)
  OBVIOUS
<1>7. PICK u : u = Regnet(Q, c, l, ruter, f0)
  OBVIOUS
<1>8. /\ R = T \cup F
      /\ \A x \in T \ F : Verd(l, ruter, m, f0, x) = Verd(kwh, ruter, m, f0, x)
      /\ F \subseteq Q /\ F \cap T \subseteq P
      /\ \A x \in T \ F : x \in Q <=> x \in P
      /\ F \subseteq DOMAIN f
  <2>1. Etterpaa(P, Q, kwh, f, m)
    BY <1>2
  <2>2. /\ IManed(Lagt(kwh, f), m) = IManed(kwh, m) \cup IManed(f, m)
        /\ \A x \in IManed(kwh, m) \ IManed(f, m) :
             Verd(Lagt(kwh, f), ruter, m, f0, x) = Verd(kwh, ruter, m, f0, x)
    BY <2>1, VerdEtterpaa
  <2>. QED
    BY <1>1, <1>3, <1>4, <1>5, <2>1, <2>2 DEF Etterpaa, IManed, Gruppe
<1>9. /\ \A x \in DOMAIN c.kr : x \in T /\ c.kr[x] \in Int
      /\ \A x \in T \cap P : x \notin S => x \in DOMAIN c.kr /\ c.kr[x] = Verd(kwh, ruter, m, f0, x)
      /\ c.kroner = SumFunctionOnSet(w, T)
      /\ c.dagskost = SumFunctionOnSet(w, IDag(kwh, m, c.dato))
  BY <1>2, <1>3, <1>6 DEF Delkroner
<1>10. Timesplitt(l) /\ IsFiniteSet(R)
  BY <1>1, <1>5, LagtManed, IManedType
<1>11. \A x \in T : w[x] \in Int
  BY <1>2, <1>3, <1>6, <1>9, RegnetType
<1>12. \A x \in R : u[x] = IF x \in T THEN w[x] ELSE 0
  <2>1. /\ \A x \in T : w[x] = IF x \in P THEN Gitt(c, x) ELSE Verd(kwh, ruter, m, f0, x)
        /\ \A x \in R : u[x] = IF x \in Q THEN Gitt(c, x) ELSE Verd(l, ruter, m, f0, x)
    BY <1>2, <1>3, <1>5, <1>6, <1>7 DEF Regnet
  <2>2. \A x : x \notin T => Gitt(c, x) = 0
    BY <1>9 DEF Gitt
  <2>. QED
    BY <1>8, <2>1, <2>2
<1>13. ASSUME NEW U \in SUBSET R
       PROVE  SumFunctionOnSet(u, U) = SumFunctionOnSet(w, U \cap T)
  <2>1. IsFiniteSet(U) /\ U \cap T \in SUBSET U
    BY <1>10, FS_Subset
  <2>2. \A x \in U \cap T : w[x] \in Int
    BY <1>11
  <2>3. \A x \in U : u[x] = IF x \in U \cap T THEN w[x] ELSE 0
    BY <1>12
  <2>. QED
    BY <2>1, <2>2, <2>3, SumFilter
<1>14. c.kroner = SumFunctionOnSet(u, R)
  <2>1. R \cap T = T
    BY <1>8
  <2>. QED
    BY <1>9, <1>13, <2>1
<1>15. c.dagskost = SumFunctionOnSet(u, IDag(l, m, c.dato))
  <2>1. IDag(l, m, c.dato) \in SUBSET R /\ IDag(l, m, c.dato) \cap T = IDag(kwh, m, c.dato)
    BY <1>3, <1>5, <1>8 DEF IDag
  <2>. QED
    BY <1>9, <1>13, <2>1
<1>16. \A x \in R \cap Q : x \notin S \cup DOMAIN f =>
         x \in DOMAIN c.kr /\ c.kr[x] = Verd(l, ruter, m, f0, x)
  BY <1>8, <1>9
<1>. QED
  BY <1>1, <1>2, <1>5, <1>7, <1>8, <1>9, <1>14, <1>15, <1>16 DEF Delkroner

\* A sample changes the price of its own hour alone, which is then behind.
LEMMA DelkronerPris ==
  ASSUME NEW kwh, Timesplitt(kwh), NEW c, NEW P, NEW ruter, RuterOK(ruter), NEW nye, RuterOK(nye),
         NEW h, \A x : x # h => Prisintervall(nye, x) = Prisintervall(ruter, x),
         h \in IManed(kwh, c.maned) => h \in P,
         NEW f0 \in Nat, Delkroner(P, c, kwh, ruter, f0, {})
  PROVE  Delkroner(P, c, kwh, nye, f0, {h})
<1>1. \A x : x # h => Verd(kwh, nye, c.maned, f0, x) = Verd(kwh, ruter, c.maned, f0, x)
  BY DEF Verd
<1>2. Regnet(P, c, kwh, nye, f0) = Regnet(P, c, kwh, ruter, f0)
  <2>1. \A x \in IManed(kwh, c.maned) :
          (IF x \in P THEN Gitt(c, x) ELSE Verd(kwh, nye, c.maned, f0, x))
            = (IF x \in P THEN Gitt(c, x) ELSE Verd(kwh, ruter, c.maned, f0, x))
    BY <1>1
  <2>. QED
    BY <2>1 DEF Regnet
<1>. QED
  BY <1>1, <1>2 DEF Delkroner

\* What the kroner depend on.
SammeKroner(c, d) ==
  FelterOK(d) /\ d.maned = c.maned /\ d.dato = c.dato /\ d.kr = c.kr
  /\ d.kroner = c.kroner /\ d.dagskost = c.dagskost

LEMMA DelkronerSamme ==
  ASSUME NEW P, NEW c, NEW d, SammeKroner(c, d), NEW kwh, NEW ruter, NEW f0,
         NEW S, NEW R, S \subseteq R, Delkroner(P, c, kwh, ruter, f0, S)
  PROVE  Delkroner(P, d, kwh, ruter, f0, R)
<1>1. Regnet(P, d, kwh, ruter, f0) = Regnet(P, c, kwh, ruter, f0)
  BY DEF Regnet, SammeKroner, Gitt
<1>. QED
  BY <1>1 DEF Delkroner, SammeKroner

\* A month without energy costs nothing.
LEMMA DelkronerTom ==
  ASSUME NEW P, NEW c, NEW kwh, NEW ruter, NEW f0, NEW S, c.maned # Ingen,
         IManed(kwh, c.maned) = {}, DOMAIN c.kr = {}, c.kroner = 0, c.dagskost = 0
  PROVE  Delkroner(P, c, kwh, ruter, f0, S)
<1>1. IDag(kwh, c.maned, c.dato) = {}
  BY DEF IDag
<1>. QED
  BY <1>1, SumTom DEF Delkroner

\* When no post is behind, what the hours have given is what they cost: another
\* choice of posts, all of them priced, has the same kroner.
LEMMA DelkronerBytt ==
  ASSUME NEW P, NEW c, NEW kwh, NEW ruter, NEW f0, Delkroner(P, c, kwh, ruter, f0, {}),
         NEW d, d.maned = c.maned, d.dato = c.dato, d.kroner = c.kroner, d.dagskost = c.dagskost,
         \A x \in DOMAIN d.kr : x \in IManed(kwh, c.maned) /\ d.kr[x] \in Int,
         NEW Q, \A x \in IManed(kwh, c.maned) \cap Q :
                  x \in DOMAIN d.kr /\ d.kr[x] = Verd(kwh, ruter, c.maned, f0, x)
  PROVE  Delkroner(Q, d, kwh, ruter, f0, {})
<1>1. \A x \in IManed(kwh, c.maned) :
        (IF x \in Q THEN Gitt(d, x) ELSE Verd(kwh, ruter, c.maned, f0, x))
          = (IF x \in P THEN Gitt(c, x) ELSE Verd(kwh, ruter, c.maned, f0, x))
  BY DEF Gitt, Delkroner
<1>2. Regnet(Q, d, kwh, ruter, f0) = Regnet(P, c, kwh, ruter, f0)
  BY <1>1 DEF Regnet
<1>. QED
  BY <1>2 DEF Delkroner

-----------------------------------------------------------------------------
(***************************************************************************)
(* What booking a reading does to the posts, the routes and the baseline.  *)
(***************************************************************************)
SammeRute(p, q, r) == (r \in DOMAIN p <=> r \in DOMAIN q) /\ (r \in DOMAIN p => p[r] = q[r])

Skritt(b, a, c, f) ==
  /\ b.aktiv # Ingen => c.aktiv # Ingen /\ b.aktiv <= c.aktiv
  /\ DOMAIN c.poster = (IF c.aktiv = b.aktiv THEN DOMAIN b.poster ELSE {}) \cup IManed(f, c.aktiv)
  /\ \A r \in Ruter : (c.aktiv # Ingen => c.aktiv <= ManedAv[TimeForRute(r)]) =>
                        SammeRute(c.ruter, b.ruter, r)
  /\ \/ c.sist = b.sist /\ b.sist # Ingen /\ b.sist.kilde = a.kilde
     \/ c.sist = a /\ (b.sist # Ingen /\ b.sist.kilde = a.kilde => b.sist.tid <= a.tid)
  /\ DOMAIN f # {} => /\ b.sist # Ingen /\ b.sist.kilde = a.kilde /\ b.sist.tid < a.tid /\ c.sist = a
                      /\ DOMAIN f \subseteq Time(b.sist.tid) .. Time(a.tid - 1)

LEMMA FordelSkritt ==
  ASSUME NEW b, TellbarBok(b), b.sist # Ingen, NEW a, a.tid \in Tikk, b.sist.tid < a.tid,
         b.sist.kilde = a.kilde, NEW delta \in Nat
  PROVE  LET s == Fordel(b, a, delta) IN Skritt(b, a, s.bok, s.fordeling)
<1>1. PICK f : f = FordelDelta(b.sist.tid, a.tid, delta)
  OBVIOUS
<1>2. PICK est : est = (a.kilde \in Estimerte)
  OBVIOUS
<1>3. PICK ny : ny = ManedAv[Time(a.tid - 1)]
  OBVIOUS
<1>4. PICK b0 : b0 = Apnet(b)
  OBVIOUS
<1>5. PICK s : s = Fordel(b, a, delta)
  OBVIOUS
<1>6. PICK c : c = s.bok
  OBVIOUS
<1>7. b.sist.tid \in Tikk /\ b.sist.tid \in Nat /\ a.tid \in Nat /\ BokInv(b) /\ HelBok(b)
  BY TikkHel DEF BokInv, StrukturOK, TellbarBok
<1>8. /\ ny \in Maneder /\ ny \in Nat
      /\ \A h \in DOMAIN f : ManedAv[h] \in Nat /\ ManedAv[h] <= ny
      /\ DOMAIN f \subseteq Timer /\ DOMAIN f = Time(b.sist.tid) .. Time(a.tid - 1)
      /\ ManedAv[Time(b.sist.tid)] <= ny
  <2>1. /\ ny \in Maneder /\ ny \in Nat /\ (\A h \in DOMAIN f : ManedAv[h] <= ny)
        /\ DOMAIN f \subseteq Timer /\ ManedAv[Time(b.sist.tid)] <= ny
    BY <1>1, <1>3, <1>7, VinduManed
  <2>2. DOMAIN f = Time(b.sist.tid) .. Time(a.tid - 1)
    BY <1>1, <1>7, VinduType
  <2>. QED
    BY <2>1, <2>2, ManedType
<1>9. EtterFordeling(b, c, b0, f, est, ny)
  BY <1>1, <1>2, <1>3, <1>4, <1>5, <1>6, <1>7, FordelForm
<1>10. /\ BokInv(b0) /\ b0.aktiv \in Nat /\ b0.aktiv \in Maneder /\ b0.aktiv # Ingen
       /\ b0.poster = b.poster /\ b0.ruter = b.ruter
       /\ b.aktiv # Ingen => b0.aktiv = b.aktiv
       /\ b.aktiv = Ingen => DOMAIN b.poster = {} /\ b0.aktiv <= ny
       /\ Bokform(b0)
  <2>1. /\ BokInv(b0) /\ b0.aktiv \in Nat /\ b0.aktiv \in Maneder /\ b0.aktiv # Ingen
        /\ b0.poster = b.poster /\ b0.ruter = b.ruter
        /\ b.aktiv # Ingen => b0 = b
        /\ b.aktiv = Ingen => DOMAIN b.poster = {} /\ b0.aktiv = ManedAv[Time(b.sist.tid)]
    BY <1>4, <1>7, ApnetInv
  <2>. QED
    BY <1>8, <2>1 DEF BokInv, StrukturOK, Bokform
<1>11. PICK land : land = Landet(b0, f)
  OBVIOUS
<1>12. PICK l : l = s.fordeling
  OBVIOUS
<1>13. DOMAIN l = land
  <2> DEFINE bak == {h \in DOMAIN f : ManedAv[h] < b0.aktiv}
  <2>1. l = Restrict(f, DOMAIN f \ bak)
    BY <1>1, <1>4, <1>5, <1>12 DEF Fordel, Svar, Apnet
  <2>2. DOMAIN f \ bak = land
    BY <1>11 DEF Landet
  <2>. QED
    BY <2>1, <2>2 DEF Restrict
<1>14. PICK akt \in Nat : akt = b0.aktiv
  BY <1>10
<1>15. land = {h \in DOMAIN f : ~ (ManedAv[h] < akt)}
  BY <1>11, <1>14 DEF Landet
<1>16. c.sist = a
  BY <1>5, <1>6, <1>7, FordelInv
<1>17. CASE ny < akt
  <2>1. c.poster = b0.poster /\ c.aktiv = b0.aktiv /\ c.ruter = b0.ruter
    BY <1>9, <1>14, <1>17 DEF EtterFordeling
  <2>2. land = {}
    BY <1>8, <1>15, <1>17
  <2>3. b.aktiv # Ingen /\ c.aktiv = b.aktiv
    BY <1>8, <1>10, <1>14, <1>17, <2>1
  <2>4. IManed(l, c.aktiv) = {}
    BY <1>13, <2>2 DEF IManed, Gruppe
  <2>5. b.aktiv <= c.aktiv
    BY <1>10, <1>14, <2>1, <2>3
  <2>6. \A r : SammeRute(c.ruter, b.ruter, r)
    BY <1>10, <2>1 DEF SammeRute
  <2>. QED
    BY <1>5, <1>6, <1>7, <1>10, <1>12, <1>13, <1>16, <2>1, <2>2, <2>3, <2>4, <2>5, <2>6 DEF Skritt
<1>18. CASE ~ (ny < akt)
  <2>1. akt <= ny
    BY <1>8, <1>18
  <2>2. PICK d : d = ForManed(b0, ny, f, est)
    OBVIOUS
  <2>3. c.poster = d.poster /\ c.aktiv = d.aktiv /\ c.ruter = d.ruter
    BY <1>9, <1>14, <1>18, <2>2 DEF EtterFordeling
  <2>4. /\ d.aktiv = ny
        /\ DOMAIN d.poster = (IF ny = b0.aktiv THEN DOMAIN b0.poster ELSE {}) \cup IManed(f, ny)
    BY <1>10, <2>2, ForManedPoster
  <2>5. /\ ny = b0.aktiv => d.ruter = b0.ruter
        /\ ny # b0.aktiv => d.ruter = GlemFor(b0.ruter, ny)
    <3>1. b0.aktiv <= ny
      BY <1>14, <2>1
    <3>2. DOMAIN f \subseteq Timer /\ ny \in Maneder /\ BokInv(b0) /\ b0.aktiv \in Maneder
      BY <1>8, <1>10
    <3>3. LET e == ForManed(b0, ny, f, est)
          IN  /\ BokInv(e)
              /\ e.arkiv = b0.arkiv /\ e.aktiv = ny
              /\ ny = b0.aktiv => e.ruter = b0.ruter
              /\ ny # b0.aktiv => e.ruter = GlemFor(b0.ruter, ny)
      BY <3>1, <3>2, ForManedInv
    <3>. QED
      BY <2>2, <3>3
  <2>6. IManed(f, ny) = IManed(l, ny)
    BY <1>8, <1>13, <1>15, <2>1 DEF IManed, Gruppe
  <2>7. ny # Ingen
    BY <1>8, ManederNat
  <2>8. DOMAIN c.poster = (IF c.aktiv = b.aktiv THEN DOMAIN b.poster ELSE {}) \cup IManed(l, c.aktiv)
    BY <1>10, <2>3, <2>4, <2>6, <2>7
  <2>9. \A r \in Ruter : ny <= ManedAv[TimeForRute(r)] => SammeRute(c.ruter, b.ruter, r)
    <3>1. CASE ny = b0.aktiv
      BY <1>10, <2>3, <2>5, <3>1 DEF SammeRute
    <3>2. CASE ny # b0.aktiv
      <4>1. c.ruter = GlemFor(b.ruter, ny)
        BY <1>10, <2>3, <2>5, <3>2
      <4>2. ASSUME NEW r \in Ruter, ny <= ManedAv[TimeForRute(r)]
            PROVE  SammeRute(c.ruter, b.ruter, r)
        <5>1. ManedAv[TimeForRute(r)] \in Nat
          BY TimeForRuteType, ManedType
        <5>2. ManedAv[TimeForRute(r)] >= ny
          BY <1>8, <4>2, <5>1
        <5>3. DOMAIN c.ruter = {q \in DOMAIN b.ruter : ManedAv[TimeForRute(q)] >= ny}
              /\ \A q \in DOMAIN c.ruter : c.ruter[q] = b.ruter[q]
          BY <4>1 DEF GlemFor, Restrict
        <5>. QED
          BY <5>2, <5>3 DEF SammeRute
      <4>. QED
        BY <4>2
    <3>. QED
      BY <3>1, <3>2
  <2>10. b.aktiv # Ingen => c.aktiv # Ingen /\ b.aktiv <= c.aktiv
    BY <1>10, <1>14, <2>1, <2>3, <2>4, <2>7
  <2>11. b.sist.tid <= a.tid /\ DOMAIN l \subseteq Time(b.sist.tid) .. Time(a.tid - 1)
    BY <1>7, <1>8, <1>13, <1>15
  <2>. QED
    BY <1>5, <1>6, <1>12, <1>16, <2>3, <2>4, <2>7, <2>8, <2>9, <2>10, <2>11 DEF Skritt
<1>. QED
  BY <1>17, <1>18

LEMMA BokforSkritt ==
  ASSUME NEW b, TellbarBok(b), NEW a, a # Ingen, a.tid \in Tikk, a.verdi \in Int
  PROVE  LET s == Bokfor(b, a) IN Skritt(b, a, s.bok, s.fordeling)
<1>1. PICK s : s = Bokfor(b, a)
  OBVIOUS
<1> DEFINE flyttet == [b EXCEPT !.sist = a]
           sprang(d) == [flyttet EXCEPT !.avvist = @ + d]
           Maalet == Skritt(b, a, s.bok, s.fordeling)
<1>2. Bokform(b) /\ BokInv(b)
  BY DEF TellbarBok, BokInv, StrukturOK, Bokform
<1>3. /\ flyttet.poster = b.poster /\ flyttet.aktiv = b.aktiv /\ flyttet.sist = a
      /\ flyttet.ruter = b.ruter
      /\ \A d : /\ sprang(d).poster = b.poster /\ sprang(d).aktiv = b.aktiv
                /\ sprang(d).sist = a /\ sprang(d).ruter = b.ruter
  BY <1>2 DEF Bokform, TomBok
<1>4. b.aktiv # Ingen => b.aktiv <= b.aktiv
  <2>1. b.aktiv # Ingen => b.aktiv \in Nat
    BY <1>2, ManederNat DEF BokInv, StrukturOK
  <2>. QED
    BY <2>1
<1>5. ASSUME s.bok.poster = b.poster, s.bok.aktiv = b.aktiv, s.bok.ruter = b.ruter,
             s.fordeling = <<>>,
             \/ s.bok.sist = b.sist /\ b.sist # Ingen /\ b.sist.kilde = a.kilde
             \/ s.bok.sist = a /\ (b.sist # Ingen /\ b.sist.kilde = a.kilde => b.sist.tid <= a.tid)
      PROVE  Maalet
  <2>1. \A m : IManed(s.fordeling, m) = {}
    BY <1>5 DEF IManed, Gruppe
  <2>2. \A r : SammeRute(s.bok.ruter, b.ruter, r)
    BY <1>5 DEF SammeRute
  <2>3. DOMAIN s.fordeling = {}
    BY <1>5
  <2>. QED
    BY <1>4, <1>5, <2>1, <2>2, <2>3 DEF Skritt
<1>6. CASE b.sist = Ingen \/ b.sist.kilde # a.kilde
  <2>1. s.fordeling = <<>> /\ s.bok = flyttet
    BY <1>1, <1>6 DEF Bokfor, UtenEnergi, Svar
  <2> HIDE DEF flyttet, sprang
  <2>. QED
    BY <1>1, <1>3, <1>5, <1>6, <2>1
<1>7. CASE /\ ~ (b.sist = Ingen \/ b.sist.kilde # a.kilde)
           /\ b.sist = a \/ a.tid < b.sist.tid \/ a.tid = b.sist.tid
  <2>1. s.fordeling = <<>> /\ s.bok = b
    BY <1>1, <1>7 DEF Bokfor, UtenEnergi, Svar
  <2> HIDE DEF flyttet, sprang
  <2>. QED
    BY <1>1, <1>5, <1>7, <2>1
<1>8. CASE ~ (b.sist = Ingen \/ b.sist.kilde # a.kilde \/ b.sist = a \/ a.tid < b.sist.tid
              \/ a.tid = b.sist.tid)
  <2>1. b.sist # Ingen /\ b.sist.verdi \in Int /\ b.sist.tid \in Tikk /\ b.sist.tid \in Nat
        /\ a.tid \in Nat
    BY <1>8, TikkHel DEF TellbarBok, BokInv, StrukturOK
  <2>2. b.sist.tid < a.tid /\ b.sist.tid <= a.tid /\ b.sist.kilde = a.kilde
    BY <1>8, <2>1
  <2>3. ASSUME s.bok \in {flyttet} \cup {sprang(d) : d \in Nat}, s.fordeling = <<>>
        PROVE  Maalet
    <3>1. s.bok.poster = b.poster /\ s.bok.aktiv = b.aktiv /\ s.bok.sist = a /\ s.bok.ruter = b.ruter
      <4> HIDE DEF flyttet, sprang
      <4>. QED
        BY <1>3, <2>3
    <3> HIDE DEF flyttet, sprang
    <3>. QED
      BY <1>5, <2>2, <2>3, <3>1
  <2>4. CASE a.kilde \in Estimerte /\ a.tid - b.sist.tid > MaksEstimertVindu
    <3>1. s.fordeling = <<>> /\ s.bok = flyttet
      BY <1>1, <1>8, <2>4 DEF Bokfor, BokforEstimert, UtenEnergi, Svar
    <3>. QED
      BY <1>1, <2>3, <3>1
  <2>5. CASE ~ (a.kilde \in Estimerte /\ a.tid - b.sist.tid > MaksEstimertVindu)
    <3>1. s = BokforDelta(b, a, Maalt(b, a))
      BY <1>1, <1>8, <2>5 DEF Bokfor, BokforEstimert, BokforTeller, Maalt
    <3>2. PICK d \in Int : d = Maalt(b, a)
      BY <2>1 DEF Maalt
    <3>3. CASE d < 0
      <4>1. s.fordeling = <<>> /\ s.bok = flyttet
        <5>1. ~ (d > MaksDelta)
          BY <3>2, <3>3, GrenseAssumption
        <5>. QED
          BY <3>1, <3>2, <3>3, <5>1 DEF BokforDelta, UtenEnergi, Svar
      <4>. QED
        BY <1>1, <2>3, <4>1
    <3>4. CASE ~ (d < 0) /\ d > MaksDelta
      <4>1. s.fordeling = <<>> /\ s.bok = sprang(d)
        BY <3>1, <3>2, <3>4 DEF BokforDelta, Svar
      <4>2. d \in Nat
        BY <3>2, <3>4
      <4> HIDE DEF sprang, flyttet
      <4>. QED
        BY <1>1, <2>3, <4>1, <4>2
    <3>5. CASE ~ (d < 0) /\ ~ (d > MaksDelta)
      <4>1. s = Fordel(b, a, d)
        BY <3>1, <3>2, <3>5 DEF BokforDelta
      <4>2. d \in Nat
        BY <3>2, <3>5
      <4>3. LET q == Fordel(b, a, d) IN Skritt(b, a, q.bok, q.fordeling)
        BY <2>1, <2>2, <4>2, FordelSkritt
      <4>. QED
        BY <1>1, <4>1, <4>3
    <3>. QED
      BY <3>2, <3>3, <3>4, <3>5
  <2>. QED
    BY <2>4, <2>5
<1>. QED
  BY <1>6, <1>7, <1>8

-----------------------------------------------------------------------------
(***************************************************************************)
(* The trail of the book in the ledger: the routes of every hour that can  *)
(* still get energy are those of the ledger, the posts are the upper hours *)
(* of the month, and no hour lies after the baseline.                      *)
(***************************************************************************)
Apent(b, kwh, nedre, x) ==
  \/ x \in DOMAIN b.poster
  \/ b.sist # Ingen /\ Time(b.sist.tid) <= x
  \/ DOMAIN kwh = {} /\ nedre <= x

IkkeLukket(b, x) == b.aktiv # Ingen => b.aktiv <= ManedAv[x]

Sporet(b, kwh, ruter, nedre) ==
  /\ \A r \in Ruter : Apent(b, kwh, nedre, TimeForRute(r)) /\ IkkeLukket(b, TimeForRute(r)) =>
                        SammeRute(b.ruter, ruter, r)
  /\ \A h \in DOMAIN b.poster, y \in DOMAIN kwh :
       h <= y /\ ManedAv[y] = b.aktiv => y \in DOMAIN b.poster
  /\ \A y \in DOMAIN kwh : b.sist # Ingen /\ y <= Time(b.sist.tid)

LEMMA SporetKjenner ==
  ASSUME NEW b, TellbarBok(b), NEW kwh, NEW ruter, RuterOK(ruter), NEW nedre,
         Sporet(b, kwh, ruter, nedre),
         \A h \in DOMAIN b.poster : h \in DOMAIN kwh /\ b.poster[h].kwh = kwh[h]
  PROVE  Kjenner(b, kwh, ruter)
<1>1. ASSUME NEW h \in DOMAIN b.poster
      PROVE  Prisintervall(b.ruter, h) = Prisintervall(ruter, h)
  <2>1. ManedAv[h] = b.aktiv /\ h \in Timer /\ DOMAIN b.ruter \subseteq Ruter /\ DOMAIN ruter \subseteq Ruter
    BY DEF TellbarBok, BokInv, StrukturOK, RuterOK
  <2>2. ManedAv[h] <= ManedAv[h]
    BY <2>1, ManedType
  <2>3. \A r \in Ruter : TimeForRute(r) = h => SammeRute(b.ruter, ruter, r)
    BY <2>1, <2>2 DEF Sporet, Apent, IkkeLukket
  <2>4. {r \in DOMAIN b.ruter : TimeForRute(r) = h} = {r \in DOMAIN ruter : TimeForRute(r) = h}
    BY <2>1, <2>3 DEF SammeRute
  <2>5. \A r \in DOMAIN b.ruter : TimeForRute(r) = h => b.ruter[r] = ruter[r]
    BY <2>1, <2>3 DEF SammeRute
  <2>. QED
    BY <2>4, <2>5 DEF Prisintervall
<1>. QED
  BY <1>1 DEF Kjenner, Sporet

\* The baseline that the next delta is measured from is the meter's own, or the
\* reading is no older than the routes that are kept.
Kjent(b, a, nedre) == (b.sist # Ingen /\ b.sist.kilde = a.kilde) \/ nedre <= Time(a.tid)

LEMMA SporetVokst ==
  ASSUME NEW b, TellbarBok(b), NEW c, TellbarBok(c), NEW kwh, Timesplitt(kwh), NEW f, Timesplitt(f),
         NEW a, a # Ingen, a.tid \in Tikk, NEW nedre \in Int, NEW ruter,
         Skritt(b, a, c, f), Sporet(b, kwh, ruter, nedre), Kjent(b, a, nedre),
         \A h \in DOMAIN kwh : b.aktiv # Ingen /\ ManedAv[h] <= b.aktiv,
         DOMAIN kwh # {} => b.sist.kilde = a.kilde
  PROVE  Sporet(c, Lagt(kwh, f), ruter, nedre)
<1>1. PICK l : l = Lagt(kwh, f)
  OBVIOUS
<1>2. DOMAIN l = DOMAIN kwh \cup DOMAIN f
  BY <1>1 DEF Lagt
<1>3. /\ b.aktiv # Ingen => b.aktiv \in Nat
      /\ c.aktiv # Ingen => c.aktiv \in Nat
      /\ \A h \in Timer : ManedAv[h] \in Nat /\ h \in Int
      /\ DOMAIN kwh \subseteq Timer /\ DOMAIN f \subseteq Timer
      /\ b.sist # Ingen => b.sist.tid \in Tikk
  <2>1. \A h \in Timer : h \in Int
    BY TidAssumption DEF Timer
  <2>. QED
    BY <2>1, ManederNat, ManedType DEF TellbarBok, BokInv, StrukturOK, Timesplitt
<1>4. PICK ta \in Nat : ta = Time(a.tid)
  BY TimeNat
<1>5. PICK tb \in Int : b.sist # Ingen => tb = Time(b.sist.tid)
  <2>1. CASE b.sist # Ingen
    BY <1>3, <2>1, TimeNat
  <2>2. CASE b.sist = Ingen
    <3>1. 0 \in Int
      OBVIOUS
    <3>. QED
      BY <2>2, <3>1
  <2>. QED
    BY <2>1, <2>2
<1>6. DOMAIN f # {} => /\ b.sist # Ingen /\ b.sist.kilde = a.kilde /\ c.sist = a
                       /\ \A h \in DOMAIN f : tb <= h /\ h <= ta
  <2> SUFFICES ASSUME DOMAIN f # {}
               PROVE  /\ b.sist # Ingen /\ b.sist.kilde = a.kilde /\ c.sist = a
                      /\ \A h \in DOMAIN f : tb <= h /\ h <= ta
    OBVIOUS
  <2>1. /\ b.sist # Ingen /\ b.sist.kilde = a.kilde /\ b.sist.tid < a.tid /\ c.sist = a
        /\ DOMAIN f \subseteq Time(b.sist.tid) .. Time(a.tid - 1)
    BY DEF Skritt
  <2>a. b.sist.tid \in Tikk /\ b.sist.tid < a.tid
    BY <1>3, <2>1
  <2>b. a.tid - 1 \in Tikk
    BY <2>a, VinduType
  <2>c. b.sist.tid \in Nat /\ a.tid \in Nat
    BY <2>a, TikkHel
  <2>2. a.tid - 1 \in Tikk /\ a.tid - 1 <= a.tid
    BY <2>b, <2>c
  <2>3. Time(a.tid - 1) <= Time(a.tid) /\ Time(a.tid - 1) \in Nat
    BY <2>2, TimeStiger
  <2>4. PICK te \in Nat : te = Time(a.tid - 1)
    BY <2>3
  <2>5. te <= ta /\ DOMAIN f \subseteq tb .. te
    BY <1>4, <1>5, <2>1, <2>3, <2>4
  <2>. QED
    BY <2>1, <2>5
<1>7. \/ c.sist = b.sist /\ b.sist # Ingen /\ b.sist.kilde = a.kilde
      \/ c.sist = a /\ b.sist # Ingen /\ b.sist.kilde = a.kilde /\ tb <= ta
      \/ c.sist = a /\ DOMAIN kwh = {} /\ nedre <= ta
  <2>1. CASE c.sist = b.sist /\ b.sist # Ingen /\ b.sist.kilde = a.kilde
    BY <2>1
  <2>2. CASE c.sist = a /\ b.sist # Ingen /\ b.sist.kilde = a.kilde
    <3>1. b.sist.tid <= a.tid \/ a = b.sist
      BY <2>2 DEF Skritt
    <3>2. Time(b.sist.tid) <= Time(a.tid)
      <4>1. CASE a = b.sist
        BY <1>4, <4>1
      <4>2. CASE b.sist.tid <= a.tid
        BY <1>3, <2>2, <4>2, TimeStiger
      <4>. QED
        BY <3>1, <4>1, <4>2
    <3>. QED
      BY <1>4, <1>5, <2>2, <3>2
  <2>3. CASE c.sist = a /\ ~ (b.sist # Ingen /\ b.sist.kilde = a.kilde)
    BY <1>4, <2>3 DEF Kjent, Sporet
  <2>. QED
    BY <2>1, <2>2, <2>3 DEF Skritt
<1>8. ASSUME NEW r \in Ruter, Apent(c, l, nedre, TimeForRute(r)), IkkeLukket(c, TimeForRute(r))
      PROVE  SammeRute(c.ruter, ruter, r)
  <2>1. PICK x : x = TimeForRute(r)
    OBVIOUS
  <2>2. x \in Int /\ ManedAv[x] \in Nat
    BY <1>3, <2>1, TimeForRuteType
  <2>3. SammeRute(c.ruter, b.ruter, r)
    BY <1>8 DEF Skritt, IkkeLukket
  <2>4. IkkeLukket(b, x)
    <3>1. b.aktiv # Ingen => c.aktiv # Ingen /\ b.aktiv <= c.aktiv /\ c.aktiv <= ManedAv[x]
      BY <1>8, <2>1 DEF Skritt, IkkeLukket
    <3>. QED
      BY <1>3, <2>2, <3>1 DEF IkkeLukket
  <2>5. Apent(b, kwh, nedre, x)
    <3>1. CASE x \in DOMAIN c.poster
      <4>1. x \in DOMAIN b.poster \/ x \in DOMAIN f
        BY <3>1 DEF Skritt, IManed, Gruppe
      <4>2. x \in DOMAIN f => b.sist # Ingen /\ Time(b.sist.tid) <= x
        BY <1>5, <1>6
      <4>. QED
        BY <4>1, <4>2 DEF Apent
    <3>2. CASE c.sist # Ingen /\ Time(c.sist.tid) <= x
      <4>1. CASE c.sist = b.sist
        BY <3>2, <4>1 DEF Apent
      <4>2. CASE c.sist = a /\ b.sist # Ingen /\ b.sist.kilde = a.kilde /\ tb <= ta
        <5>1. ta <= x
          BY <1>4, <3>2, <4>2
        <5>2. tb <= x
          BY <2>2, <4>2, <5>1
        <5>. QED
          BY <1>5, <4>2, <5>2 DEF Apent
      <4>3. CASE c.sist = a /\ DOMAIN kwh = {} /\ nedre <= ta
        <5>1. ta <= x
          BY <1>4, <3>2, <4>3
        <5>2. nedre <= x
          BY <2>2, <4>3, <5>1
        <5>. QED
          BY <4>3, <5>2 DEF Apent
      <4>. QED
        BY <1>7, <4>1, <4>2, <4>3
    <3>3. CASE DOMAIN l = {} /\ nedre <= x
      BY <1>2, <3>3 DEF Apent
    <3>. QED
      BY <1>8, <2>1, <3>1, <3>2, <3>3 DEF Apent
  <2>6. SammeRute(b.ruter, ruter, r)
    BY <2>1, <2>4, <2>5 DEF Sporet
  <2>. QED
    BY <2>3, <2>6 DEF SammeRute
<1>9. ASSUME NEW h \in DOMAIN c.poster, NEW y \in DOMAIN l, h <= y, ManedAv[y] = c.aktiv
      PROVE  y \in DOMAIN c.poster
  <2>1. y \in Timer /\ h \in Timer
    BY <1>2, <1>3 DEF TellbarBok, BokInv, StrukturOK
  <2>2. CASE y \in DOMAIN f
    BY <1>9, <2>2 DEF Skritt, IManed, Gruppe
  <2>3. CASE y \in DOMAIN kwh
    <3>1. b.aktiv # Ingen /\ ManedAv[y] <= b.aktiv /\ b.sist # Ingen /\ y <= tb
      BY <1>5, <2>3 DEF Sporet
    <3>2. b.aktiv = c.aktiv
      <4>1. c.aktiv # Ingen /\ b.aktiv <= c.aktiv
        BY <3>1 DEF Skritt
      <4>. QED
        BY <1>3, <1>9, <2>1, <3>1, <4>1
    <3>3. h \in DOMAIN b.poster \/ h \in DOMAIN f
      BY DEF Skritt, IManed, Gruppe
    <3>4. CASE h \in DOMAIN b.poster
      <4>1. y \in DOMAIN b.poster
        BY <1>9, <2>3, <3>2, <3>4 DEF Sporet
      <4>. QED
        BY <3>2, <4>1 DEF Skritt
    <3>5. CASE h \in DOMAIN f
      <4>1. tb <= h
        BY <1>6, <3>5
      <4>2. y = h
        BY <1>3, <1>9, <2>1, <3>1, <4>1
      <4>. QED
        BY <4>2
    <3>. QED
      BY <3>3, <3>4, <3>5
  <2>. QED
    BY <1>2, <2>2, <2>3
<1>10. ASSUME NEW y \in DOMAIN l
       PROVE  c.sist # Ingen /\ y <= Time(c.sist.tid)
  <2>0. y \in Int
    BY <1>2, <1>3
  <2>1. CASE y \in DOMAIN f
    <3>1. c.sist = a /\ y <= ta
      BY <1>6, <2>1
    <3>. QED
      BY <1>4, <2>0, <3>1
  <2>2. CASE y \in DOMAIN kwh
    <3>1. b.sist # Ingen /\ y <= tb
      BY <1>5, <2>2 DEF Sporet
    <3>2. c.sist = b.sist \/ (c.sist = a /\ tb <= ta)
      BY <1>7, <2>2
    <3>3. CASE c.sist = b.sist
      BY <1>5, <3>1, <3>3
    <3>4. CASE c.sist = a /\ tb <= ta
      <4>1. y <= ta
        BY <2>0, <3>1, <3>4
      <4>. QED
        BY <1>4, <2>0, <3>4, <4>1
    <3>. QED
      BY <3>2, <3>3, <3>4
  <2>. QED
    BY <1>2, <2>1, <2>2
<1>. QED
  BY <1>1, <1>8, <1>9, <1>10 DEF Sporet

\* New energy comes after all there is in the month of the clock.
LEMMA SkrittEtterpaa ==
  ASSUME NEW b, TellbarBok(b), NEW c, TellbarBok(c), NEW kwh, Timesplitt(kwh), NEW f, Timesplitt(f),
         NEW a, a.tid \in Tikk, NEW nedre, NEW ruter, NEW g \in Int, NEW m \in Nat, NEW n,
         Skritt(b, a, c, f), Sporet(b, kwh, ruter, nedre),
         Postert(b, kwh, g, a.kilde, m, n), Postert(c, Lagt(kwh, f), g, a.kilde, m, n)
  PROVE  Etterpaa(DOMAIN b.poster, DOMAIN c.poster, kwh, f, m)
<1>1. PICK T : T = IManed(kwh, m)
  OBVIOUS
<1>2. PICK F : F = IManed(f, m)
  OBVIOUS
<1>3. /\ b.aktiv # Ingen => b.aktiv \in Nat /\ b.aktiv <= m
      /\ c.aktiv # Ingen => c.aktiv \in Nat /\ c.aktiv <= m
      /\ b.sist # Ingen => b.sist.tid \in Tikk
  BY ManederNat DEF TellbarBok, BokInv, StrukturOK, Postert
<1>4. /\ \A x \in T : x \in Int /\ x \in DOMAIN kwh /\ ManedAv[x] = m
      /\ \A x \in F : x \in Int /\ x \in DOMAIN f /\ ManedAv[x] = m
      /\ F \subseteq DOMAIN f
  BY <1>1, <1>2, IManedType
<1>5. T # {} => b.aktiv = m
  <2>1. \A x \in T : b.aktiv # Ingen /\ m <= b.aktiv
    BY <1>4 DEF Postert
  <2>. QED
    BY <1>3, <2>1
<1>6. F # {} \/ T # {} => c.aktiv = m
  <2>1. \A x \in T \cup F : x \in DOMAIN Lagt(kwh, f)
    BY <1>4 DEF Lagt
  <2>2. \A x \in T \cup F : c.aktiv # Ingen /\ m <= c.aktiv
    BY <1>4, <2>1 DEF Postert
  <2>. QED
    BY <1>3, <2>2
<1>7. ASSUME NEW x \in F
      PROVE  b.sist # Ingen /\ Time(b.sist.tid) \in Nat /\ Time(b.sist.tid) <= x
  <2>1. b.sist # Ingen /\ b.sist.tid < a.tid /\ DOMAIN f \subseteq Time(b.sist.tid) .. Time(a.tid - 1)
    BY <1>4 DEF Skritt
  <2>2. b.sist.tid \in Tikk /\ a.tid \in Nat /\ b.sist.tid \in Nat /\ a.tid - 1 \in Tikk
    BY <1>3, <2>1, TikkHel, VinduType
  <2>3. PICK tb \in Nat : tb = Time(b.sist.tid)
    BY <2>2, TimeNat
  <2>4. PICK te \in Nat : te = Time(a.tid - 1)
    BY <2>2, TimeNat
  <2>5. x \in tb .. te
    BY <1>4, <2>1, <2>3, <2>4
  <2>. QED
    BY <2>1, <2>3, <2>5
<1>8. ASSUME NEW x \in T, NEW y \in F PROVE x \in F \/ x < y
  <2>1. x <= Time(b.sist.tid)
    BY <1>4 DEF Sporet
  <2>2. PICK tb \in Nat : tb = Time(b.sist.tid)
    BY <1>7
  <2>3. x <= tb /\ tb <= y
    BY <1>7, <2>1, <2>2
  <2>4. x = y \/ x < y
    BY <1>4, <2>3
  <2>. QED
    BY <2>4
<1>9. ASSUME NEW x \in F \cap T PROVE x \in DOMAIN b.poster
  <2>1. b.aktiv = m /\ b.sist # Ingen
    BY <1>5, <1>7
  <2>2. g <= Time(b.sist.tid)
    BY <2>1 DEF Postert
  <2>3. PICK tb \in Nat : tb = Time(b.sist.tid)
    BY <1>7
  <2>4. tb <= x /\ g <= tb
    BY <1>7, <2>2, <2>3
  <2>5. g <= x
    BY <1>4, <2>4
  <2>. QED
    BY <1>4, <2>1, <2>5 DEF Postert
<1>10. F \subseteq DOMAIN c.poster
  BY <1>2, <1>6 DEF Skritt
<1>11. ASSUME NEW x \in T \ F PROVE x \in DOMAIN c.poster <=> x \in DOMAIN b.poster
  BY <1>2, <1>5, <1>6 DEF Skritt
<1>. QED
  BY <1>1, <1>2, <1>8, <1>9, <1>10, <1>11 DEF Etterpaa

-----------------------------------------------------------------------------
(***************************************************************************)
(* Reading the book leaves the trail; a price sample moves both sides.     *)
(***************************************************************************)

\* The hour of the route an instant falls in is the hour of the instant.
LEMMA RutensEgenTime ==
  ASSUME NEW t \in Tikk
  PROVE  TimeForRute(Rute(t)) = Time(t)
<1>1. t \in Nat /\ TikkPerRute \in Nat \ {0} /\ RuterPerTime \in Nat \ {0}
  BY TikkHel, TidAssumption
<1>2. PICK q \in Nat : q = Rute(t)
  <2>1. Rute(t) \in Ruter
    BY RuteType
  <2>2. (SisteTime + 1) * RuterPerTime \in Nat
    BY TidAssumption
  <2>. QED
    BY <2>1, <2>2 DEF Ruter
<1>3. PICK h \in Nat : h = TimeForRute(q)
  <2>1. q \in Ruter
    BY <1>2, RuteType
  <2>. QED
    BY <2>1, TimeForRuteType, TidAssumption DEF Timer
<1>4. PICK x \in Nat : x = Time(t)
  BY TimeType, TidAssumption DEF Timer
<1>5. PICK d \in Nat \ {0} : d = TikkPerTime /\ d = TikkPerRute * RuterPerTime
  BY <1>1 DEF TikkPerTime
<1>6. x * d <= t /\ t < (x + 1) * d
  BY <1>1, <1>4, <1>5 DEF Time
<1>7. q * TikkPerRute <= t /\ t < (q + 1) * TikkPerRute
  BY <1>1, <1>2 DEF Rute
<1>8. h * RuterPerTime <= q /\ q + 1 <= (h + 1) * RuterPerTime
  BY <1>1, <1>3 DEF TimeForRute
<1>9. h * d <= t
  <2>1. (h * RuterPerTime) * TikkPerRute <= q * TikkPerRute
    BY <1>1, <1>8
  <2>2. (h * RuterPerTime) * TikkPerRute = h * d
    BY <1>1, <1>5
  <2>3. h * d \in Nat /\ q * TikkPerRute \in Nat
    BY <1>1, <1>5
  <2>. QED
    BY <1>1, <1>7, <2>1, <2>2, <2>3
<1>10. t < (h + 1) * d
  <2>1. (q + 1) * TikkPerRute <= ((h + 1) * RuterPerTime) * TikkPerRute
    BY <1>1, <1>8
  <2>2. ((h + 1) * RuterPerTime) * TikkPerRute = (h + 1) * d
    BY <1>1, <1>5
  <2>3. (h + 1) * d \in Nat /\ (q + 1) * TikkPerRute \in Nat
    BY <1>1, <1>5
  <2>. QED
    BY <1>1, <1>7, <2>1, <2>2, <2>3
<1>11. h < x + 1
  <2> SUFFICES ASSUME x + 1 <= h PROVE FALSE
    OBVIOUS
  <2>1. (x + 1) * d <= h * d
    BY <1>5
  <2>2. (x + 1) * d \in Nat /\ h * d \in Nat
    BY <1>5
  <2>. QED
    BY <1>1, <1>6, <1>9, <2>1, <2>2
<1>12. x < h + 1
  <2> SUFFICES ASSUME h + 1 <= x PROVE FALSE
    OBVIOUS
  <2>1. (h + 1) * d <= x * d
    BY <1>5
  <2>2. (h + 1) * d \in Nat /\ x * d \in Nat
    BY <1>5
  <2>. QED
    BY <1>1, <1>6, <1>10, <2>1, <2>2
<1>. QED
  BY <1>2, <1>3, <1>4, <1>11, <1>12

\* The same posts, baseline and routes.
SammeBok(b, c) == SammePostene(b, c) /\ c.ruter = b.ruter

LEMMA OppdaterBok ==
  ASSUME NEW b, TellbarBok(b)
  PROVE  SammeBok(b, Oppdater(b))
BY OppdaterPostene, OppdaterFelt DEF SammeBok, TellbarBok, BokInv

LEMMA BygdBok ==
  ASSUME NEW b, TellbarBok(b)
  PROVE  SammeBok(b, Bygd(b))
<1>1. SammePostene(b, Bygd(b))
  BY BygdPostene
<1>2. Bygd(b).ruter = b.ruter
  BY DEF Bygd, TellbarBok, BokInv, StrukturOK, TomBok
<1>. QED
  BY <1>1, <1>2 DEF SammeBok

LEMMA LestSammeBok ==
  ASSUME NEW b, TellbarBok(b), NEW m
  PROVE  SammeBok(b, Lest(b, m))
<1>1. CASE b.aktiv = m
  <2>1. PICK o : o = Oppdater(b)
    OBVIOUS
  <2>2. TellbarBok(o) /\ SammeBok(b, o)
    BY <2>1, OppdaterManeder, OppdaterBok DEF SammeManeder
  <2>3. SammeBok(o, Bygd(o))
    BY <2>2, BygdBok
  <2>4. Lest(b, m) = Bygd(o)
    BY <1>1, <2>1 DEF Lest
  <2>. QED
    BY <2>2, <2>3, <2>4 DEF SammeBok, SammePostene
<1>2. CASE b.aktiv # m
  BY <1>2, BygdBok DEF Lest
<1>. QED
  BY <1>1, <1>2

LEMMA SporetSamme ==
  ASSUME NEW b, NEW c, SammeBok(b, c), NEW kwh, NEW ruter, NEW nedre, Sporet(b, kwh, ruter, nedre)
  PROVE  Sporet(c, kwh, ruter, nedre)
BY DEF SammeBok, SammePostene, Sporet, Apent, IkkeLukket

\* Fewer hours are open when the window moves on.
LEMMA SporetSenere ==
  ASSUME NEW b, NEW kwh, NEW ruter, NEW nedre \in Int, NEW n \in Int, nedre <= n,
         Sporet(b, kwh, ruter, nedre)
  PROVE  Sporet(b, kwh, ruter, n)
<1>1. ASSUME NEW r \in Ruter, Apent(b, kwh, n, TimeForRute(r))
      PROVE  Apent(b, kwh, nedre, TimeForRute(r))
  <2>1. PICK x \in Int : x = TimeForRute(r)
    BY TimeForRuteType, TidAssumption DEF Timer
  <2>2. n <= x => nedre <= x
    BY <2>1
  <2>. QED
    BY <1>1, <2>1, <2>2 DEF Apent
<1>. QED
  BY <1>1 DEF Sporet

\* The ledger's routes after the sample.
NyeRuter(prove, ruter) ==
  IF prove = Ingen \/ ~ Godtas(naa) THEN ruter
  ELSE Registrer(ruter, [polltid |-> naa, verdi |-> prove])

LEMMA RegistrerSamme ==
  ASSUME NEW p, NEW q, NEW x, NEW r, SammeRute(p, q, r)
  PROVE  SammeRute(Registrer(p, x), Registrer(q, x), r)
BY DEF SammeRute, Registrer

LEMMA ProvetRuter ==
  ASSUME NEW b, TellbarBok(b), NEW prove
  PROVE  ProvetBok(prove, b).ruter = NyeRuter(prove, b.ruter)
BY DEF ProvetBok, NyeRuter, RegistrerPrisprove, TellbarBok, BokInv, StrukturOK, TomBok

LEMMA ProvetSporet ==
  ASSUME NEW b, TellbarBok(b), NEW prove, NEW kwh, NEW ruter, NEW nedre,
         Sporet(b, kwh, ruter, nedre)
  PROVE  Sporet(ProvetBok(prove, b), kwh, NyeRuter(prove, ruter), nedre)
<1>1. PICK c : c = ProvetBok(prove, b)
  OBVIOUS
<1>2. SammePostene(b, c)
  BY <1>1, PrisprovePostene DEF ProvetBok, SammePostene
<1>3. c.ruter = NyeRuter(prove, b.ruter)
  BY <1>1, ProvetRuter
<1>4. \A r : SammeRute(b.ruter, ruter, r) => SammeRute(c.ruter, NyeRuter(prove, ruter), r)
  BY <1>3, RegistrerSamme DEF NyeRuter
<1>. QED
  BY <1>1, <1>2, <1>4 DEF SammePostene, Sporet, Apent, IkkeLukket

LEMMA NyeRuterOK ==
  ASSUME naa \in Tikk, NEW prove \in Priser \cup {Ingen}, NEW ruter, RuterOK(ruter)
  PROVE  /\ RuterOK(NyeRuter(prove, ruter))
         /\ \A x : x # Time(naa) => Prisintervall(NyeRuter(prove, ruter), x) = Prisintervall(ruter, x)
<1>1. CASE prove = Ingen \/ ~ Godtas(naa)
  BY <1>1 DEF NyeRuter
<1>2. CASE ~ (prove = Ingen \/ ~ Godtas(naa))
  <2>1. PICK p : p = [polltid |-> naa, verdi |-> prove]
    OBVIOUS
  <2>2. p.polltid = naa /\ p.verdi \in Int /\ NyeRuter(prove, ruter) = Registrer(ruter, p)
    BY <1>2, <2>1, PengeAssumption DEF NyeRuter
  <2>3. Rute(p.polltid) \in Ruter /\ TimeForRute(Rute(p.polltid)) = Time(naa)
    BY <2>2, RuteType, RutensEgenTime
  <2>4. RuterOK(Registrer(ruter, p))
    BY <2>2, <2>3 DEF RuterOK, Registrer
  <2>5. \A x : x # Time(naa) => Prisintervall(Registrer(ruter, p), x) = Prisintervall(ruter, x)
    BY <2>3, RegistrerAndreTimer
  <2>. QED
    BY <2>2, <2>4, <2>5
<1>. QED
  BY <1>1, <1>2

-----------------------------------------------------------------------------
(***************************************************************************)
(* The steps of a poll on the kroner.                                      *)
(***************************************************************************)
LEMMA TimesmaksKroner ==
  ASSUME NEW b, NEW c, FelterOK(c)
  PROVE  SammeKroner(c, Timesmaks(b, c))
BY DEF Timesmaks, SammeKroner, FelterOK, Minne

LEMMA EtterbokforKroner ==
  ASSUME NEW b, NEW c, FelterOK(c), NEW fordeling
  PROVE  SammeKroner(c, Etterbokfor(b, c, fordeling))
BY DEF Etterbokfor, MedHale, SammeKroner, FelterOK, Minne

LEMMA ForbrukKroner ==
  ASSUME NEW c, FelterOK(c), NEW x
  PROVE  SammeKroner(c, [c EXCEPT !.forbruk = x]) /\ [c EXCEPT !.forbruk = x].forbruk = x
BY DEF SammeKroner, FelterOK, Minne

LEMMA SammeKronerKjede ==
  ASSUME NEW b, NEW c, NEW d, SammeKroner(b, c), SammeKroner(c, d)
  PROVE  SammeKroner(b, d)
BY DEF SammeKroner

\* Without energy in the month it is of no account which hours are left out.
LEMMA DelkronerUten ==
  ASSUME NEW P, NEW c, NEW kwh, NEW ruter, NEW f0, NEW S, Delkroner(P, c, kwh, ruter, f0, S),
         IManed(kwh, c.maned) = {}, NEW R
  PROVE  Delkroner(P, c, kwh, ruter, f0, R)
BY DEF Delkroner

\* If the book keeps another month than the one that is shown, that one has no
\* energy yet.
LEMMA IkkeFores ==
  ASSUME NEW b, b.aktiv \in Maneder \cup {Ingen}, NEW m \in Maneder, ~ ForesAvBoken(b, m),
         NEW kwh, \A h \in DOMAIN kwh : b.aktiv # Ingen /\ ManedAv[h] <= b.aktiv,
         b.aktiv # Ingen => b.aktiv <= m
  PROVE  IManed(kwh, m) = {}
<1> SUFFICES ASSUME NEW h \in IManed(kwh, m) PROVE FALSE
  OBVIOUS
<1>1. h \in DOMAIN kwh /\ ManedAv[h] = m
  BY DEF IManed, Gruppe
<1>2. b.aktiv # Ingen /\ m <= b.aktiv /\ b.aktiv <= m /\ b.aktiv # m
  BY <1>1 DEF ForesAvBoken
<1>3. b.aktiv \in Nat /\ m \in Nat
  BY <1>2, ManederNat
<1>. QED
  BY <1>2, <1>3

\* _akkumuler_kroner prices the hours it is given, and the clock's.
LEMMA AkkumulerKroner ==
  ASSUME NEW b, TellbarBok(b), NEW c, FelterOK(c), NEW kwh, Timesplitt(kwh),
         NEW ruter, RuterOK(ruter), Kjenner(b, kwh, ruter), NEW f0 \in Nat,
         SumKwh(c.forbruk) = f0 + SumFunctionOnSet(kwh, IManed(kwh, c.maned)),
         \A h \in DOMAIN kwh : b.aktiv # Ingen /\ ManedAv[h] <= b.aktiv,
         b.aktiv # Ingen => b.aktiv <= c.maned,
         NEW timer, NEW S, Delkroner(DOMAIN b.poster, c, kwh, ruter, f0, S)
  PROVE  LET r == Akkumuler(b, c, timer)
         IN  /\ FelterOK(r) /\ r.maned = c.maned /\ r.dato = c.dato /\ r.forbruk = c.forbruk
             /\ Delkroner(DOMAIN b.poster, r, kwh, ruter, f0, S \ (timer \cup {Time(naa)}))
<1>1. CASE ForesAvBoken(b, c.maned)
  <2>1. PICK T : T = timer \cup {Time(naa)}
    OBVIOUS
  <2>2. Akkumuler(b, c, timer) = Omregn(b, c, T)
    BY <1>1, <2>1 DEF Akkumuler
  <2>3. Delkroner(DOMAIN b.poster, Omregn(b, c, T), kwh, ruter, f0, S \ T)
    BY <1>1, OmregnKroner
  <2>4. LET r == Omregn(b, c, T)
            B == Berort(b, c, T)
        IN  /\ FelterOK(r) /\ r.maned = c.maned /\ r.dato = c.dato /\ r.forbruk = c.forbruk
            /\ r.kroner = c.kroner + Endring(b, c, B)
            /\ r.dagskost = c.dagskost + Endring(b, c, {h \in B : Dogn[h] = c.dato})
            /\ DOMAIN r.kr = DOMAIN c.kr \cup B
            /\ \A h \in B : r.kr[h] = NyKr(b, c, h)
            /\ \A h \in DOMAIN c.kr \ B : r.kr[h] = c.kr[h]
    BY OmregnForm
  <2>. QED
    BY <2>1, <2>2, <2>3, <2>4
<1>2. CASE ~ ForesAvBoken(b, c.maned)
  <2>1. Akkumuler(b, c, timer) = c
    BY <1>2 DEF Akkumuler
  <2>2. b.aktiv \in Maneder \cup {Ingen} /\ c.maned \in Maneder
    BY DEF TellbarBok, BokInv, StrukturOK, FelterOK
  <2>3. IManed(kwh, c.maned) = {}
    BY <1>2, <2>2, IkkeFores
  <2>4. Delkroner(DOMAIN b.poster, c, kwh, ruter, f0, S \ (timer \cup {Time(naa)}))
    BY <2>3, DelkronerUten
  <2>. QED
    BY <2>1, <2>4
<1>. QED
  BY <1>1, <1>2

\* Nothing of a month that is over is part of the cost of today.
LEMMA AkkumulerDagen ==
  ASSUME naa \in Tikk, NEW b, TellbarBok(b), NEW c, FelterOK(c), NEW timer,
         c.dato = Dogn[Time(naa)], c.maned # ManedAv[Time(naa)], c.dagskost = 0
  PROVE  LET r == Akkumuler(b, c, timer)
         IN  FelterOK(r) /\ r.maned = c.maned /\ r.dato = c.dato /\ r.dagskost = 0
<1>1. CASE ForesAvBoken(b, c.maned)
  <2>1. PICK T : T = timer \cup {Time(naa)}
    OBVIOUS
  <2>2. Akkumuler(b, c, timer) = Omregn(b, c, T)
    BY <1>1, <2>1 DEF Akkumuler
  <2>3. PICK B : B = Berort(b, c, T)
    OBVIOUS
  <2>4. LET r == Omregn(b, c, T)
            A == Berort(b, c, T)
        IN  /\ FelterOK(r) /\ r.maned = c.maned /\ r.dato = c.dato /\ r.forbruk = c.forbruk
            /\ r.kroner = c.kroner + Endring(b, c, A)
            /\ r.dagskost = c.dagskost + Endring(b, c, {h \in A : Dogn[h] = c.dato})
            /\ DOMAIN r.kr = DOMAIN c.kr \cup A
            /\ \A h \in A : r.kr[h] = NyKr(b, c, h)
            /\ \A h \in DOMAIN c.kr \ A : r.kr[h] = c.kr[h]
    BY OmregnForm
  <2>5. {h \in B : Dogn[h] = c.dato} = {}
    <3>1. \A h \in B : h \in Timer /\ ManedAv[h] = c.maned
      BY <2>3 DEF Berort, TellbarBok, BokInv, StrukturOK
    <3>2. Time(naa) \in Timer
      BY TimeType
    <3>. QED
      BY <3>1, <3>2, DatoAssumption
  <2>6. PICK E : E = {h \in B : Dogn[h] = c.dato}
    OBVIOUS
  <2>7. Endring(b, c, E) = 0
    <3>1. IsFiniteSet(E)
      BY <2>5, <2>6, FS_EmptySet
    <3>2. Endring(b, c, E) = SumFunctionOnSet([h \in E |-> NyKr(b, c, h) - Gitt(c, h)], E)
      BY <3>1, EndringSum
    <3>. QED
      BY <2>5, <2>6, <3>2, SumTom
  <2>. QED
    BY <2>2, <2>3, <2>4, <2>6, <2>7
<1>2. CASE ~ ForesAvBoken(b, c.maned)
  BY <1>2 DEF Akkumuler
<1>. QED
  BY <1>1, <1>2

-----------------------------------------------------------------------------
(***************************************************************************)
(* The loop over the parts of a reading.                                   *)
(***************************************************************************)
LEMMA FasitSum ==
  ASSUME NEW kwh, Timesplitt(kwh), NEW apning \in [dag : Int, natt : Int], NEW m
  PROVE  SumKwh(Fasit(m, kwh, apning))
           = SumKwh(Balanse(m, apning)) + SumFunctionOnSet(kwh, IManed(kwh, m))
<1>1. PICK T : T = IManed(kwh, m)
  OBVIOUS
<1>2. IsFiniteSet(T) /\ \A h \in T : kwh[h] \in Nat
  BY <1>1, IManedType
<1>3. /\ Fordelt("dag", kwh, T) + Fordelt("natt", kwh, T) = SumFunctionOnSet(kwh, T)
      /\ SumFunctionOnSet(kwh, T) \in Nat
  <2>1. /\ Fordelt("total", kwh, T) = SumFunctionOnSet(kwh, T)
        /\ Fordelt("dag", kwh, T) + Fordelt("natt", kwh, T) = SumFunctionOnSet(kwh, T)
        /\ SumFunctionOnSet(kwh, T) \in Nat
    BY <1>2, FordeltDeler
  <2>. QED
    BY <2>1
<1>4. PICK D \in Nat : D = Manedsdel("dag", kwh, m)
  BY ManedsdelType
<1>5. PICK N \in Nat : N = Manedsdel("natt", kwh, m)
  BY ManedsdelType
<1>6. PICK d \in Int : d = Balanse(m, apning).dag
  BY BalanseType
<1>7. PICK n \in Int : n = Balanse(m, apning).natt
  BY BalanseType
<1>8. D + N = SumFunctionOnSet(kwh, T)
  BY <1>1, <1>3, <1>4, <1>5 DEF Manedsdel
<1>9. Fasit(m, kwh, apning) = [dag |-> d + D, natt |-> n + N]
  BY <1>4, <1>5, <1>6, <1>7 DEF Fasit, Balanse
<1>10. SumKwh(Fasit(m, kwh, apning)) = (d + D) + (n + N) /\ SumKwh(Balanse(m, apning)) = d + n
  BY <1>6, <1>7, <1>9 DEF SumKwh
<1>11. PICK v \in Nat : v = SumFunctionOnSet(kwh, T)
  BY <1>3
<1>. QED
  BY <1>1, <1>8, <1>10, <1>11

\* What the poll's variables are to satisfy between two parts, beside DelvisTopp:
\* the trail, and every interval of the month priced but perhaps the clock's.  A
\* part may be a new baseline only if it is no older than the window (D holds the
\* instants of the parts).
Kronevis(s, maned, kwh0, mnd, sensor, n, ruter, f0, D) ==
  /\ Sporet(s.bok, s.kwh, ruter, Time(n) - Lagringsvindu)
  /\ s.k.dato = Dogn[Time(n)]
  /\ \A h \in DOMAIN s.kwh : h \in DOMAIN kwh0 \/ h \in s.timer
  /\ maned = mnd => Delkroner(DOMAIN s.bok.poster, s.k, s.kwh, ruter, f0, {Time(n)})
  /\ maned # mnd => s.k.dagskost = 0
  /\ \/ s.bok.sist # Ingen /\ s.bok.sist.kilde = sensor
     \/ \A t \in D : Time(n) - Lagringsvindu <= Time(t)

DelvisKroner(s, maned, apning, kwh0, mnd, g, sensor, n, ruter, f0, D) ==
  /\ DelvisTopp(s, maned, apning, kwh0, mnd, g, sensor, n)
  /\ Kronevis(s, maned, kwh0, mnd, sensor, n, ruter, f0, D)

LEMMA EnDelKroner ==
  ASSUME naa \in Tikk, NEW s, NEW maned, NEW apning \in [dag : Int, natt : Int],
         NEW kwh0, Timesplitt(kwh0), NEW mnd \in Nat, mnd = ManedAv[Time(naa)], NEW g \in Int,
         NEW sensor, NEW ruter, RuterOK(ruter),
         NEW f0 \in Nat, f0 = SumKwh(Balanse(maned, apning)), NEW D,
         DelvisKroner(s, maned, apning, kwh0, mnd, g, sensor, naa, ruter, f0, D),
         NEW a, a # Ingen, a.tid \in D, a.tid \in Tikk, a.tid <= naa, a.verdi \in Int,
         a.kilde = sensor,
         NEW balanse, balanse.dag = Balanse(maned, apning).dag,
         balanse.natt = Balanse(maned, apning).natt
  PROVE  DelvisKroner(EnDel(s, a, balanse), maned, apning, kwh0, mnd, g, sensor, naa, ruter, f0, D)
<1>1. /\ DelvisTopp(s, maned, apning, kwh0, mnd, g, sensor, naa)
      /\ Delvis(s, maned, apning, kwh0, mnd) /\ TellbarBok(s.bok) /\ Timesplitt(s.kwh)
      /\ Folger(s.bok, s.kwh)
      /\ FelterOK(s.k) /\ s.k.maned = maned /\ maned \in Maneder
      /\ Toppvis(s, maned, kwh0, g, sensor, mnd, naa)
      /\ Kronevis(s, maned, kwh0, mnd, sensor, naa, ruter, f0, D)
  BY DEF DelvisKroner, DelvisTopp, Delvis, FelterOK
<1>2. PICK r : r = EnDel(s, a, balanse)
  OBVIOUS
<1>3. DelvisTopp(r, maned, apning, kwh0, mnd, g, sensor, naa)
  <2>1. ManedAv[Time(naa)] <= mnd
    OBVIOUS
  <2>. QED
    BY <1>1, <1>2, <2>1, EnDelTopp
<1>4. PICK b : b = s.bok
  OBVIOUS
<1>5. PICK kwh : kwh = s.kwh
  OBVIOUS
<1>6. PICK k0 : k0 = s.k
  OBVIOUS
<1>7. PICK svar : svar = Bokfor(b, a)
  OBVIOUS
<1>8. PICK f : f = svar.fordeling
  OBVIOUS
<1>9. PICK ny : ny = Lagt(kwh, f)
  OBVIOUS
<1>10. PICK e : e = svar.bok
  OBVIOUS
<1>11. /\ TellbarBok(b) /\ Timesplitt(kwh) /\ FelterOK(k0) /\ k0.maned = maned
       /\ Folger(b, kwh)
  BY <1>1, <1>4, <1>5, <1>6
<1>12. TellbarBok(e) /\ Timesplitt(f) /\ Timesplitt(ny) /\ Folger(e, ny)
  <2>1. GodtSvar(b, Bokfor(b, a), a.tid)
    BY <1>11, BokforSvar
  <2>2. TellbarBok(e) /\ Timesplitt(f) /\ Vokst(b, e, f)
    BY <1>7, <1>8, <1>10, <2>1 DEF GodtSvar
  <2>. QED
    BY <1>9, <1>11, <2>2, FolgerVokst
<1>13. Skritt(b, a, e, f)
  <2>1. LET u == Bokfor(b, a) IN Skritt(b, a, u.bok, u.fordeling)
    BY <1>11, BokforSkritt
  <2>. QED
    BY <1>7, <1>8, <1>10, <2>1
<1>14. PICK c : c = Foring(s, svar, balanse)
  OBVIOUS
<1>15. PICK l : l = Lest(e, c.maned)
  OBVIOUS
<1>16. /\ r.bok = l /\ r.k = c /\ r.kwh = ny
       /\ r.timer = s.timer \cup DOMAIN f
  <2>1. r = MedDel(s, svar, c)
    BY <1>2, <1>4, <1>7, <1>14 DEF EnDel, MedSvar
  <2>. QED
    BY <1>5, <1>8, <1>9, <1>10, <1>15, <2>1 DEF MedDel, Lagt
<1>17. SammeBok(e, l) /\ SammePostene(e, l)
  BY <1>12, <1>15, LestSammeBok DEF SammeBok
<1>18. Postert(b, kwh, g, sensor, mnd, naa) /\ Postert(e, ny, g, sensor, mnd, naa)
  <2>1. Postert(l, ny, g, sensor, mnd, naa)
    BY <1>3, <1>16 DEF DelvisTopp, Toppvis
  <2>2. SammePostene(l, e)
    BY <1>17 DEF SammePostene
  <2>3. PICK n : n = naa
    OBVIOUS
  <2>4. Postert(e, ny, g, sensor, mnd, n)
    BY <2>1, <2>2, <2>3, PostertSamme
  <2>. QED
    BY <1>1, <1>4, <1>5, <2>3, <2>4 DEF Toppvis
<1>19. PICK tn \in Nat : tn = Time(naa)
  BY TimeNat
<1>20. PICK nedre \in Int : nedre = tn - Lagringsvindu
  BY TidAssumption
<1>21. /\ Sporet(b, kwh, ruter, nedre) /\ k0.dato = Dogn[tn]
       /\ \A h \in DOMAIN kwh : h \in DOMAIN kwh0 \/ h \in s.timer
       /\ maned = mnd => Delkroner(DOMAIN b.poster, k0, kwh, ruter, f0, {tn})
       /\ maned # mnd => k0.dagskost = 0
       /\ \/ b.sist # Ingen /\ b.sist.kilde = sensor
          \/ \A t \in D : nedre <= Time(t)
  BY <1>1, <1>4, <1>5, <1>6, <1>19, <1>20 DEF Kronevis
<1>22. Sporet(e, ny, ruter, nedre)
  <2>1. Kjent(b, a, nedre)
    BY <1>21 DEF Kjent
  <2>2. /\ \A h \in DOMAIN kwh : b.aktiv # Ingen /\ ManedAv[h] <= b.aktiv
        /\ DOMAIN kwh # {} => b.sist.kilde = a.kilde
    BY <1>18 DEF Postert
  <2>3. Sporet(e, Lagt(kwh, f), ruter, nedre)
    BY <1>11, <1>12, <1>13, <1>21, <2>1, <2>2, SporetVokst
  <2>. QED
    BY <1>9, <2>3
<1>23. Kjenner(e, ny, ruter)
  <2>1. \A h \in DOMAIN e.poster : h \in DOMAIN ny /\ e.poster[h].kwh = ny[h]
    BY <1>18 DEF Postert
  <2>. QED
    BY <1>12, <1>22, <2>1, SporetKjenner
<1>24. e.sist # Ingen /\ e.sist.kilde = sensor
  BY <1>13 DEF Skritt
<1>25. DOMAIN ny = DOMAIN kwh \cup DOMAIN f
  BY <1>9 DEF Lagt
<1>26. PICK c1 : c1 = Etterbokfor(e, k0, f)
  OBVIOUS
<1>27. SammeKroner(k0, c1) /\ FelterOK(c1)
  <2>1. SammeKroner(k0, c1)
    BY <1>11, <1>26, EtterbokforKroner
  <2>. QED
    BY <2>1 DEF SammeKroner
<1>28. PICK fb : fb = ForbrukFraBoken(e, maned, balanse)
  OBVIOUS
<1>29. PICK c2 : c2 = [c1 EXCEPT !.forbruk = fb]
  OBVIOUS
<1>30. SammeKroner(k0, c2) /\ FelterOK(c2) /\ c2.forbruk = fb /\ c2.maned = maned /\ c2.dato = Dogn[tn]
  <2>1. SammeKroner(c1, c2) /\ c2.forbruk = fb
    BY <1>27, <1>29, ForbrukKroner
  <2>2. SammeKroner(k0, c2)
    BY <1>27, <2>1, SammeKronerKjede
  <2>. QED
    BY <1>11, <1>21, <2>1, <2>2 DEF SammeKroner
<1>31. PICK c3 : c3 = Akkumuler(e, c2, DOMAIN f)
  OBVIOUS
<1>32. c = Timesmaks(e, c3)
  BY <1>6, <1>8, <1>10, <1>11, <1>14, <1>26, <1>28, <1>29, <1>31 DEF Foring
<1>33. CASE maned = mnd
  <2>1. Etterpaa(DOMAIN b.poster, DOMAIN e.poster, kwh, f, maned)
    <3>1. Postert(e, Lagt(kwh, f), g, a.kilde, mnd, naa) /\ Postert(b, kwh, g, a.kilde, mnd, naa)
      BY <1>9, <1>18
    <3>2. PICK n : n = naa
      OBVIOUS
    <3>3. Postert(e, Lagt(kwh, f), g, a.kilde, mnd, n) /\ Postert(b, kwh, g, a.kilde, mnd, n)
      BY <3>1, <3>2
    <3>4. Etterpaa(DOMAIN b.poster, DOMAIN e.poster, kwh, f, mnd)
      BY <1>11, <1>12, <1>13, <1>21, <3>3, SkrittEtterpaa
    <3>. QED
      BY <1>33, <3>4
  <2>2. Delkroner(DOMAIN e.poster, k0, ny, ruter, f0, {tn} \cup DOMAIN f)
    <3>1. PICK S : S = {tn}
      OBVIOUS
    <3>2. PICK P : P = DOMAIN b.poster
      OBVIOUS
    <3>3. PICK Q : Q = DOMAIN e.poster
      OBVIOUS
    <3>4. Delkroner(P, k0, kwh, ruter, f0, S) /\ Etterpaa(P, Q, kwh, f, k0.maned)
      BY <1>11, <1>21, <1>33, <2>1, <3>1, <3>2, <3>3
    <3>5. Delkroner(Q, k0, Lagt(kwh, f), ruter, f0, S \cup DOMAIN f)
      BY <1>11, <1>12, <3>4, DelkronerVokst
    <3>. QED
      BY <1>9, <3>1, <3>3, <3>5
  <2>3. PICK S : S = {tn} \cup DOMAIN f
    OBVIOUS
  <2>4. PICK P : P = DOMAIN e.poster
    OBVIOUS
  <2>5. Delkroner(P, c2, ny, ruter, f0, S)
    <3>1. Delkroner(P, k0, ny, ruter, f0, S) /\ S \subseteq S
      BY <2>2, <2>3, <2>4
    <3>. QED
      BY <1>30, <3>1, DelkronerSamme
  <2>6. SumKwh(c2.forbruk) = f0 + SumFunctionOnSet(ny, IManed(ny, c2.maned))
    <3>1. fb = Fasit(maned, ny, apning)
      BY <1>1, <1>12, <1>28, ForbrukVerdi
    <3>2. SumKwh(Fasit(maned, ny, apning))
            = SumKwh(Balanse(maned, apning)) + SumFunctionOnSet(ny, IManed(ny, maned))
      BY <1>12, FasitSum
    <3>. QED
      BY <1>30, <3>1, <3>2
  <2>7. PICK F : F = DOMAIN f
    OBVIOUS
  <2>8. LET q == Akkumuler(e, c2, F)
        IN  /\ FelterOK(q) /\ q.maned = c2.maned /\ q.dato = c2.dato /\ q.forbruk = c2.forbruk
            /\ Delkroner(DOMAIN e.poster, q, ny, ruter, f0, S \ (F \cup {Time(naa)}))
    <3>1. \A h \in DOMAIN ny : e.aktiv # Ingen /\ ManedAv[h] <= e.aktiv
      BY <1>18 DEF Postert
    <3>2. e.aktiv # Ingen => e.aktiv <= c2.maned
      BY <1>18, <1>30, <1>33 DEF Postert
    <3>3. Delkroner(DOMAIN e.poster, c2, ny, ruter, f0, S)
      BY <2>4, <2>5
    <3>4. TellbarBok(e)
      BY <1>12
    <3>5. FelterOK(c2)
      BY <1>30
    <3>6. Timesplitt(ny)
      BY <1>12
    <3>7. Kjenner(e, ny, ruter)
      BY <1>23
    <3>. QED
      BY ONLY <2>6, <3>1, <3>2, <3>3, <3>4, <3>5, <3>6, <3>7, AkkumulerKroner,
              RuterOK(ruter), f0 \in Nat
  <2>9. /\ FelterOK(c3) /\ c3.maned = maned /\ c3.dato = Dogn[tn]
        /\ Delkroner(P, c3, ny, ruter, f0, S \ (F \cup {tn}))
    BY <1>19, <1>30, <1>31, <2>4, <2>7, <2>8
  <2>10. SammeKroner(c3, c)
    BY <1>32, <2>9, TimesmaksKroner
  <2>11. PICK R : R = S \ (F \cup {tn})
    OBVIOUS
  <2>12. R \subseteq {tn}
    BY <2>3, <2>7, <2>11
  <2>13. PICK V : V = {tn}
    OBVIOUS
  <2>14. Delkroner(P, c, ny, ruter, f0, V)
    <3>1. R \subseteq V /\ Delkroner(P, c3, ny, ruter, f0, R)
      BY <2>9, <2>11, <2>12, <2>13
    <3>. QED
      BY <2>10, <3>1, DelkronerSamme
  <2>15. c.dato = Dogn[tn]
    BY <2>9, <2>10 DEF SammeKroner
  <2>16. Kronevis(r, maned, kwh0, mnd, sensor, naa, ruter, f0, D)
    <3>1. Sporet(l, ny, ruter, nedre)
      BY <1>17, <1>22, SporetSamme
    <3>2. DOMAIN l.poster = P /\ l.sist # Ingen /\ l.sist.kilde = sensor
      BY <1>17, <1>24, <2>4 DEF SammePostene
    <3>3. \A h \in DOMAIN ny : h \in DOMAIN kwh0 \/ h \in r.timer
      BY <1>16, <1>21, <1>25
    <3>. QED
      BY <1>16, <1>19, <1>20, <1>33, <2>13, <2>14, <2>15, <3>1, <3>2, <3>3 DEF Kronevis
  <2>. QED
    BY <1>2, <1>3, <2>16 DEF DelvisKroner
<1>34. CASE maned # mnd
  <2>1. c2.dagskost = 0 /\ c2.dato = Dogn[Time(naa)] /\ c2.maned # ManedAv[Time(naa)]
    BY <1>19, <1>21, <1>30, <1>34 DEF SammeKroner
  <2>2. PICK F : F = DOMAIN f
    OBVIOUS
  <2>3. LET q == Akkumuler(e, c2, F)
        IN  FelterOK(q) /\ q.maned = c2.maned /\ q.dato = c2.dato /\ q.dagskost = 0
    BY <1>12, <1>30, <2>1, AkkumulerDagen
  <2>4. FelterOK(c3) /\ c3.dato = Dogn[tn] /\ c3.dagskost = 0
    BY <1>30, <1>31, <2>2, <2>3
  <2>5. SammeKroner(c3, c)
    BY <1>32, <2>4, TimesmaksKroner
  <2>6. c.dato = Dogn[tn] /\ c.dagskost = 0
    BY <2>4, <2>5 DEF SammeKroner
  <2>7. Kronevis(r, maned, kwh0, mnd, sensor, naa, ruter, f0, D)
    <3>1. Sporet(l, ny, ruter, nedre)
      BY <1>17, <1>22, SporetSamme
    <3>2. l.sist # Ingen /\ l.sist.kilde = sensor
      BY <1>17, <1>24 DEF SammePostene
    <3>3. \A h \in DOMAIN ny : h \in DOMAIN kwh0 \/ h \in r.timer
      BY <1>16, <1>21, <1>25
    <3>. QED
      BY <1>16, <1>19, <1>20, <1>34, <2>6, <3>1, <3>2, <3>3 DEF Kronevis
  <2>. QED
    BY <1>2, <1>3, <2>7 DEF DelvisKroner
<1>. QED
  BY <1>33, <1>34

LEMMA LopBevarerKroner ==
  ASSUME NEW S, Heltall(S), NEW deler, NEW balanse, NEW start,
         NEW maned, NEW apning, NEW kwh0, NEW mnd, NEW g, NEW sensor, NEW n,
         NEW ruter, NEW f0, NEW D,
         DelvisKroner(start, maned, apning, kwh0, mnd, g, sensor, n, ruter, f0, D),
         \A t \in S : \A s : DelvisKroner(s, maned, apning, kwh0, mnd, g, sensor, n, ruter, f0, D) =>
           DelvisKroner(EnDel(s, deler[t], balanse), maned, apning, kwh0, mnd, g, sensor, n, ruter, f0, D)
  PROVE  DelvisKroner(Lopet(deler, balanse, start, S), maned, apning, kwh0, mnd, g, sensor, n, ruter, f0, D)
<1>1. PICK e : ErLop(e, deler, balanse, start, S) /\ Lopet(deler, balanse, start, S) = e[S]
  BY LopVerdi
<1> DEFINE G == {T \in SUBSET S :
                   DelvisKroner(e[T], maned, apning, kwh0, mnd, g, sensor, n, ruter, f0, D)}
<1>2. ASSUME NEW T \in SUBSET S, \A U \in SUBSET T : U # T => U \in G
      PROVE  T \in G
  <2>1. CASE T = {}
    BY <1>1, <2>1 DEF ErLop
  <2>2. CASE T # {}
    <3>1. Max(T) \in T
      BY <2>2, HeltallDel
    <3>2. T \ {Max(T)} \in G
      BY <1>2, <3>1
    <3>3. e[T] = EnDel(e[T \ {Max(T)}], deler[Max(T)], balanse)
      BY <1>1, <2>2 DEF ErLop
    <3>. QED
      BY <3>1, <3>2, <3>3
  <2>. QED
    BY <2>1, <2>2
<1>3. S \in G
  <2>1. IsFiniteSet(S)
    BY DEF Heltall
  <2> HIDE DEF G
  <2>. QED
    BY <1>2, <2>1, DelmengdeInduksjon
<1>. QED
  BY <1>1, <1>3

LEMMA AvsluttetKroner ==
  ASSUME naa \in Tikk, NEW s, NEW maned, NEW apning, NEW kwh0, NEW mnd, NEW g \in Int, NEW sensor,
         NEW ruter, NEW f0, NEW D,
         DelvisKroner(s, maned, apning, kwh0, mnd, g, sensor, naa, ruter, f0, D)
  PROVE  DelvisKroner(Avsluttet(s), maned, apning, kwh0, mnd, g, sensor, naa, ruter, f0, D)
<1>1. /\ DelvisTopp(s, maned, apning, kwh0, mnd, g, sensor, naa)
      /\ Kronevis(s, maned, kwh0, mnd, sensor, naa, ruter, f0, D)
      /\ FelterOK(s.k) /\ DOMAIN s = {"bok", "k", "timer", "skitten", "kwh"}
  BY DEF DelvisKroner, DelvisTopp, Delvis
<1>2. PICK r : r = Avsluttet(s)
  OBVIOUS
<1>3. DelvisTopp(r, maned, apning, kwh0, mnd, g, sensor, naa)
  <2>1. LET u == Avsluttet(s)
        IN  /\ DelvisTopp(u, maned, apning, kwh0, mnd, g, sensor, naa)
            /\ (\A h \in DOMAIN u.kwh : ManedAv[h] = maned /\ g <= h => h \in DOMAIN u.bok.poster) =>
                 ToppMellom(u.k.topp, u.kwh, maned, Time(naa), Time(naa))
    BY <1>1, AvsluttetTopp
  <2>. QED
    BY <1>2, <2>1
<1>4. PICK k0 : k0 = s.k
  OBVIOUS
<1>5. PICK c : c = Timesmaks(s.bok, k0)
  OBVIOUS
<1>6. r.bok = s.bok /\ r.k = c /\ r.kwh = s.kwh /\ r.timer = s.timer
  BY <1>1, <1>2, <1>4, <1>5 DEF Avsluttet, MedTimesmaks
<1>7. SammeKroner(k0, c)
  BY <1>1, <1>4, <1>5, TimesmaksKroner
<1>8. PICK P : P = DOMAIN s.bok.poster
  OBVIOUS
<1>9. PICK kwh : kwh = s.kwh
  OBVIOUS
<1>10. PICK S : S = {Time(naa)}
  OBVIOUS
<1>11. maned = mnd => Delkroner(P, c, kwh, ruter, f0, S)
  <2>1. maned = mnd => Delkroner(P, k0, kwh, ruter, f0, S)
    BY <1>1, <1>4, <1>8, <1>9, <1>10 DEF Kronevis
  <2>2. S \subseteq S
    OBVIOUS
  <2>. QED
    BY <1>7, <2>1, <2>2, DelkronerSamme
<1>12. c.dato = k0.dato /\ c.dagskost = k0.dagskost
  BY <1>7 DEF SammeKroner
<1>13. Kronevis(r, maned, kwh0, mnd, sensor, naa, ruter, f0, D)
  BY <1>1, <1>4, <1>6, <1>8, <1>9, <1>10, <1>11, <1>12 DEF Kronevis
<1>. QED
  BY <1>2, <1>3, <1>13 DEF DelvisKroner

-----------------------------------------------------------------------------
(***************************************************************************)
(* The poll up to the question of a month rollover.                        *)
(***************************************************************************)

\* A reading that is polled lies in an hour the window keeps.
Ferskt == Etterslep \in Nat /\ Etterslep <= Lagringsvindu * TikkPerTime

LEMMA VinduetRekker ==
  ASSUME NEW t \in Tikk, NEW n \in Tikk, n - t <= Lagringsvindu * TikkPerTime
  PROVE  Time(n) - Lagringsvindu <= Time(t)
<1>1. PICK d \in Nat \ {0} : d = TikkPerTime
  BY TidAssumption DEF TikkPerTime
<1>2. PICK x \in Nat : x = Time(t)
  BY TimeNat
<1>3. PICK y \in Nat : y = Time(n)
  BY TimeNat
<1>4. t \in Nat /\ n \in Nat /\ Lagringsvindu \in Nat
  BY TikkHel, TidAssumption
<1>5. t < (x + 1) * d
  BY <1>1, <1>2, <1>4 DEF Time
<1>6. y * d <= n
  BY <1>1, <1>3, <1>4 DEF Time
<1>7. PICK l \in Nat : l = Lagringsvindu
  BY <1>4
<1>8. n - t <= l * d
  BY <1>1, <1>7
<1>9. y - l < x + 1
  <2> SUFFICES ASSUME x + 1 + l <= y PROVE FALSE
    OBVIOUS
  <2>1. (x + 1 + l) * d <= y * d
    BY <1>1
  <2>2. (x + 1 + l) * d = (x + 1) * d + l * d
    BY <1>1
  <2>3. (x + 1) * d \in Nat /\ l * d \in Nat /\ y * d \in Nat
    BY <1>1
  <2>. QED
    BY <1>4, <1>5, <1>6, <1>8, <2>1, <2>2, <2>3
<1>. QED
  BY <1>2, <1>3, <1>7, <1>9

LEMMA DelerFerske ==
  ASSUME Ferskt, naa \in Tikk, NEW b, b.sist = bok.sist, NEW a \in Avlesninger \cup {Ingen}, Lesbar(a)
  PROVE  \/ b.sist # Ingen /\ b.sist.kilde = kilde
         \/ \A t \in DOMAIN Deler(b, a) : Time(naa) - Lagringsvindu <= Time(t)
<1>1. CASE a = Ingen
  BY <1>1 DEF Deler
<1>2. CASE a # Ingen
  <2>1. a.tid \in Tikk /\ a.kilde = kilde /\ naa - a.tid <= IF a.kilde \in Estimerte THEN 0 ELSE Etterslep
    BY <1>2 DEF Lesbar, Avlesninger
  <2>2. CASE b.sist # Ingen /\ b.sist.kilde = kilde
    BY <2>2
  <2>3. CASE ~ (b.sist # Ingen /\ b.sist.kilde = kilde)
    <3>1. DOMAIN Deler(b, a) = {a.tid}
      BY <1>2, <2>1, <2>3 DEF Deler
    <3>2. naa - a.tid <= Lagringsvindu * TikkPerTime
      <4>1. naa \in Nat /\ a.tid \in Nat
        BY <2>1, TikkHel
      <4>2. PICK v \in Int : v = Lagringsvindu * TikkPerTime
        BY TidAssumption DEF TikkPerTime
      <4>3. Etterslep \in Nat /\ Etterslep <= v
        BY <4>2 DEF Ferskt
      <4>4. naa - a.tid <= 0 \/ naa - a.tid <= Etterslep
        BY <2>1
      <4>. QED
        BY <4>1, <4>2, <4>3, <4>4
    <3>3. PICK t \in Tikk : t = a.tid
      BY <2>1
    <3>4. PICK n \in Tikk : n = naa
      OBVIOUS
    <3>5. Time(n) - Lagringsvindu <= Time(t)
      BY <3>2, <3>3, <3>4, VinduetRekker
    <3>. QED
      BY <3>1, <3>3, <3>4, <3>5
  <2>. QED
    BY <2>2, <2>3
<1>. QED
  BY <1>1, <1>2

\* The cost of the day starts over when the date of the clock is another.
LEMMA DagensForm ==
  ASSUME NEW c, FelterOK(c)
  PROVE  LET r == DagensFelter(c)
         IN  /\ FelterOK(r) /\ r.maned = c.maned /\ r.dato = DatoNaa /\ r.kr = c.kr
             /\ r.kroner = c.kroner
             /\ r.dagskost = IF c.dato = DatoNaa THEN c.dagskost ELSE 0
BY DEF DagensFelter, FelterOK, Minne

LEMMA NyDagKroner ==
  ASSUME naa \in Tikk, NEW n0 \in Tikk, n0 <= naa, NEW c, FelterOK(c), c.dato = Dogn[Time(n0)],
         NEW kwh, Timesplitt(kwh), \A y \in DOMAIN kwh : y <= Time(n0),
         NEW P, NEW ruter, NEW f0, NEW S, Delkroner(P, c, kwh, ruter, f0, S)
  PROVE  Delkroner(P, DagensFelter(c), kwh, ruter, f0, S)
<1>1. PICK r : r = DagensFelter(c)
  OBVIOUS
<1>2. /\ FelterOK(r) /\ r.maned = c.maned /\ r.dato = DatoNaa /\ r.kr = c.kr
      /\ r.kroner = c.kroner
      /\ r.dagskost = IF c.dato = DatoNaa THEN c.dagskost ELSE 0
  <2>1. LET u == DagensFelter(c)
        IN  /\ FelterOK(u) /\ u.maned = c.maned /\ u.dato = DatoNaa /\ u.kr = c.kr
            /\ u.kroner = c.kroner
            /\ u.dagskost = IF c.dato = DatoNaa THEN c.dagskost ELSE 0
    BY DagensForm
  <2>. QED
    BY <1>1, <2>1
<1>3. Regnet(P, r, kwh, ruter, f0) = Regnet(P, c, kwh, ruter, f0)
  BY <1>2 DEF Regnet, Gitt
<1>4. CASE c.dato = DatoNaa
  BY <1>1, <1>2, <1>3, <1>4 DEF Delkroner
<1>5. CASE c.dato # DatoNaa
  <2>1. IDag(kwh, c.maned, DatoNaa) = {}
    <3> SUFFICES ASSUME NEW y \in IDag(kwh, c.maned, DatoNaa) PROVE FALSE
      OBVIOUS
    <3>1. y \in DOMAIN kwh /\ Dogn[y] = DatoNaa /\ y \in Timer
      BY IManedType DEF IDag
    <3>2. Time(n0) \in Timer /\ Time(naa) \in Timer
      BY TimeType
    <3>3. Time(n0) <= Time(naa)
      BY TimeStiger
    <3>4. PICK g \in Timer : g = Time(n0)
      BY <3>2
    <3>5. PICK h \in Timer : h = Time(naa)
      BY <3>2
    <3>6. Dogn[y] <= Dogn[g] /\ Dogn[g] <= Dogn[h]
      BY <3>1, <3>3, <3>4, <3>5, DatoAssumption
    <3>7. Dogn[y] \in Nat /\ Dogn[g] \in Nat /\ Dogn[h] \in Nat
      BY <3>1, DatoAssumption
    <3>8. Dogn[y] = Dogn[h] /\ Dogn[g] # Dogn[h]
      BY <1>5, <3>1, <3>4, <3>5 DEF DatoNaa
    <3>. QED
      BY <3>6, <3>7, <3>8
  <2>2. SumFunctionOnSet(Regnet(P, r, kwh, ruter, f0), IDag(kwh, r.maned, r.dato)) = 0
    BY <1>2, <2>1, SumTom
  <2>3. r.dagskost = 0
    BY <1>2, <1>5
  <2>. QED
    BY <1>1, <1>2, <1>3, <2>2, <2>3 DEF Delkroner
<1>. QED
  BY <1>4, <1>5

\* A sample of the hour of the clock leaves that hour behind, if it has energy.
LEMMA ProveKroner ==
  ASSUME naa \in Tikk, NEW b, TellbarBok(b), NEW c, NEW kwh, Timesplitt(kwh),
         NEW n0 \in Tikk, n0 <= naa, NEW sensor,
         Postert(b, kwh, Grunntime(b), sensor, c.maned, n0), c.maned \in Nat,
         NEW prove \in Priser \cup {Ingen}, NEW ruter, RuterOK(ruter), NEW f0 \in Nat,
         Delkroner(DOMAIN b.poster, c, kwh, ruter, f0, {})
  PROVE  Delkroner(DOMAIN b.poster, c, kwh, NyeRuter(prove, ruter), f0, {Time(naa)})
<1>1. PICK h : h = Time(naa)
  OBVIOUS
<1>2. PICK nye : nye = NyeRuter(prove, ruter)
  OBVIOUS
<1>3. RuterOK(nye) /\ \A x : x # h => Prisintervall(nye, x) = Prisintervall(ruter, x)
  BY <1>1, <1>2, NyeRuterOK
<1>4. PICK P : P = DOMAIN b.poster
  OBVIOUS
<1>5. ASSUME h \in IManed(kwh, c.maned) PROVE h \in P
  <2>1. h \in DOMAIN kwh /\ ManedAv[h] = c.maned
    BY <1>5, IManedType
  <2>2. b.aktiv # Ingen /\ ManedAv[h] <= b.aktiv /\ b.aktiv <= c.maned
    BY <2>1 DEF Postert
  <2>3. b.aktiv = c.maned
    <3>1. b.aktiv \in Nat
      BY <2>2, ManederNat DEF TellbarBok, BokInv, StrukturOK
    <3>. QED
      BY <2>1, <2>2, <3>1
  <2>4. b.sist # Ingen /\ b.sist.tid <= n0
    BY <2>1 DEF Postert
  <2>5. b.sist.tid \in Tikk
    BY <2>4 DEF TellbarBok, BokInv, StrukturOK
  <2>6. PICK u \in Tikk : u = b.sist.tid
    BY <2>5
  <2>7. Time(u) <= Time(n0) /\ Time(n0) <= Time(naa) /\ Time(u) \in Nat /\ Time(n0) \in Nat
        /\ Time(naa) \in Nat
    <3>1. u <= n0
      BY <2>4, <2>6
    <3>2. Time(u) <= Time(n0)
      BY <3>1, TimeStiger
    <3>3. Time(n0) <= Time(naa)
      BY TimeStiger
    <3>. QED
      BY <3>2, <3>3, TimeNat
  <2>8. Grunntime(b) <= h
    <3>1. Grunntime(b) = Time(u)
      BY <2>4, <2>6 DEF Grunntime
    <3>. QED
      BY <1>1, <2>7, <3>1
  <2>. QED
    BY <1>4, <2>1, <2>3, <2>8 DEF Postert
<1>6. Delkroner(P, c, kwh, ruter, f0, {})
  BY <1>4
<1>7. Delkroner(P, c, kwh, nye, f0, {h})
  BY <1>3, <1>5, <1>6, DelkronerPris
<1>. QED
  BY <1>1, <1>2, <1>4, <1>7

\* The book beside the ledger h, as to the prices, and the dates of the fields.
Prisholdt(b, c, h) ==
  /\ Sporet(b, h.kwh, h.ruter, Time(h.poll) - Lagringsvindu)
  /\ RuterOK(h.ruter) /\ h.apning \in [dag : Nat, natt : Nat]
  /\ c.maned = ManedAv[Time(h.poll)] /\ c.dato = Dogn[Time(h.poll)]

\* The energy the month opened with, and the kroner of the fields in the ledger.
Startsum(m, h) == SumKwh(Balanse(m, h.apning))

KronerAv(P, c, h) == Delkroner(P, c, h.kwh, h.ruter, Startsum(c.maned, h), {})

LEMMA StartsumNat ==
  ASSUME NEW m, NEW h, h.apning \in [dag : Nat, natt : Nat]
  PROVE  /\ Startsum(m, h) \in Nat /\ h.apning \in [dag : Int, natt : Int]
BY DEF Startsum, SumKwh, Balanse, Null

\* No hour of the ledger is later than the poll that booked it.
LEMMA TimerForPoll ==
  ASSUME NEW b, TellbarBok(b), NEW kwh, NEW ruter, NEW nedre, Sporet(b, kwh, ruter, nedre),
         NEW n \in Tikk, NEW g, NEW sensor, NEW m, Postert(b, kwh, g, sensor, m, n),
         Timesplitt(kwh)
  PROVE  \A y \in DOMAIN kwh : y <= Time(n)
<1> SUFFICES ASSUME NEW y \in DOMAIN kwh PROVE y <= Time(n)
  OBVIOUS
<1>1. b.sist # Ingen /\ y <= Time(b.sist.tid) /\ b.sist.tid <= n
  BY DEF Sporet, Postert
<1>2. PICK u \in Tikk : u = b.sist.tid
  BY <1>1 DEF TellbarBok, BokInv, StrukturOK
<1>3. Time(u) <= Time(n) /\ Time(u) \in Nat /\ Time(n) \in Nat
  <2>1. u <= n
    BY <1>1, <1>2
  <2>. QED
    BY <2>1, TimeStiger
<1>4. y \in Int
  BY TidAssumption DEF Timesplitt, Timer
<1>. QED
  BY <1>1, <1>2, <1>3, <1>4

\* The stand the loop of the poll starts from.
LEMMA StartKroner ==
  ASSUME naa \in Tikk, Ferskt, TellbarBok(bok), FelterOK(k), Timesplitt(hel.kwh),
         Bokholdt(bok, k, hel), hel.poll \in Tikk, hel.poll <= naa,
         Prisholdt(bok, k, hel), KronerAv(DOMAIN bok.poster, k, hel),
         NEW prove \in Priser \cup {Ingen}, NEW a \in Avlesninger \cup {Ingen}, Lesbar(a)
  PROVE  LET b == ProvetBok(prove, bok)
         IN  TellbarBok(b) /\ SammePostene(bok, b) =>
               Kronevis(Startstilling(b, DagensFelter(k)), k.maned, hel.kwh, MndNaa, kilde, naa,
                        NyeRuter(prove, hel.ruter), Startsum(k.maned, hel), DOMAIN Deler(b, a))
<1>1. PICK b : b = ProvetBok(prove, bok)
  OBVIOUS
<1> SUFFICES ASSUME TellbarBok(b), SammePostene(bok, b)
             PROVE  Kronevis(Startstilling(b, DagensFelter(k)), k.maned, hel.kwh, MndNaa, kilde, naa,
                        NyeRuter(prove, hel.ruter), Startsum(k.maned, hel), DOMAIN Deler(b, a))
  BY <1>1
<1>2. PICK c : c = DagensFelter(k)
  OBVIOUS
<1>3. PICK kwh : kwh = hel.kwh
  OBVIOUS
<1>4. PICK n0 \in Tikk : n0 = hel.poll
  OBVIOUS
<1>5. PICK ruter : ruter = hel.ruter
  OBVIOUS
<1>6. PICK nye : nye = NyeRuter(prove, ruter)
  OBVIOUS
<1>7. PICK f0 : f0 = Startsum(k.maned, hel)
  OBVIOUS
<1>8. PICK o : o = Lest(b, c.maned)
  OBVIOUS
<1>9. /\ Sporet(bok, kwh, ruter, Time(n0) - Lagringsvindu) /\ RuterOK(ruter) /\ f0 \in Nat
      /\ k.maned = ManedAv[Time(n0)] /\ k.dato = Dogn[Time(n0)] /\ Timesplitt(kwh)
      /\ Delkroner(DOMAIN bok.poster, k, kwh, ruter, f0, {})
      /\ Postert(bok, kwh, Grunntime(bok), kilde, k.maned, n0) /\ n0 <= naa
  BY <1>3, <1>4, <1>5, <1>7, StartsumNat DEF Prisholdt, KronerAv, Bokholdt
<1>10. Time(n0) <= Time(naa) /\ Time(n0) \in Nat /\ Time(naa) \in Nat /\ Lagringsvindu \in Nat
  BY <1>9, TimeStiger, TidAssumption
<1>11. Sporet(o, kwh, nye, Time(naa) - Lagringsvindu) /\ o.poster = bok.poster /\ o.sist = bok.sist
  <2>1. PICK u \in Int : u = Time(n0) - Lagringsvindu
    BY <1>10
  <2>2. PICK v \in Int : v = Time(naa) - Lagringsvindu
    BY <1>10
  <2>3. u <= v
    BY <1>10, <2>1, <2>2
  <2>4. Sporet(bok, kwh, ruter, u)
    BY <1>9, <2>1
  <2>5. Sporet(bok, kwh, ruter, v)
    BY <2>3, <2>4, SporetSenere
  <2>6. Sporet(b, kwh, nye, v)
    BY <1>1, <1>6, <2>5, ProvetSporet
  <2>7. SammeBok(b, o)
    BY <1>8, LestSammeBok
  <2>8. Sporet(o, kwh, nye, v)
    BY <2>6, <2>7, SporetSamme
  <2>. QED
    BY <2>2, <2>7, <2>8 DEF SammeBok, SammePostene
<1>12. /\ c.maned = k.maned /\ c.dato = Dogn[Time(naa)]
       /\ c.dagskost = IF k.dato = DatoNaa THEN k.dagskost ELSE 0
  <2>1. LET r == DagensFelter(k)
        IN  /\ FelterOK(r) /\ r.maned = k.maned /\ r.dato = DatoNaa /\ r.kr = k.kr
            /\ r.kroner = k.kroner
            /\ r.dagskost = IF k.dato = DatoNaa THEN k.dagskost ELSE 0
    BY DagensForm
  <2>. QED
    BY <1>2, <2>1 DEF DatoNaa
<1>13. Delkroner(DOMAIN o.poster, c, kwh, nye, f0, {Time(naa)})
  <2>1. k.maned \in Nat
    BY ManederNat DEF FelterOK
  <2>2. Delkroner(DOMAIN bok.poster, k, kwh, nye, f0, {Time(naa)})
    BY <1>6, <1>9, <2>1, ProveKroner
  <2>3. \A y \in DOMAIN kwh : y <= Time(n0)
    BY <1>9, TimerForPoll
  <2>4. PICK P : P = DOMAIN bok.poster
    OBVIOUS
  <2>5. PICK S : S = {Time(naa)}
    OBVIOUS
  <2>6. Delkroner(P, DagensFelter(k), kwh, nye, f0, S)
    BY <1>9, <2>2, <2>3, <2>4, <2>5, NyDagKroner
  <2>. QED
    BY <1>2, <1>11, <2>4, <2>5, <2>6
<1>14. k.maned # MndNaa => c.dagskost = 0
  <2>1. Time(n0) \in Timer /\ Time(naa) \in Timer
    BY TimeType
  <2>2. k.maned # MndNaa => k.dato # DatoNaa
    BY <1>9, <2>1, DatoAssumption DEF MndNaa, DatoNaa
  <2>. QED
    BY <1>12, <2>2
<1>15. \/ o.sist # Ingen /\ o.sist.kilde = kilde
       \/ \A t \in DOMAIN Deler(b, a) : Time(naa) - Lagringsvindu <= Time(t)
  <2>1. b.sist = bok.sist
    BY DEF SammePostene
  <2>2. \/ b.sist # Ingen /\ b.sist.kilde = kilde
        \/ \A t \in DOMAIN Deler(b, a) : Time(naa) - Lagringsvindu <= Time(t)
    BY <2>1, DelerFerske
  <2>. QED
    BY <1>11, <2>1, <2>2
<1>16. PICK s : s = Startstilling(b, c)
  OBVIOUS
<1>17. s.bok = o /\ s.k = c /\ s.kwh = kwh
  BY <1>3, <1>8, <1>16 DEF Startstilling
<1>18. Kronevis(s, k.maned, kwh, MndNaa, kilde, naa, nye, f0, DOMAIN Deler(b, a))
  BY <1>11, <1>12, <1>13, <1>14, <1>15, <1>17 DEF Kronevis
<1>. QED
  BY <1>2, <1>3, <1>5, <1>6, <1>7, <1>16, <1>18

\* The poll up to the question of a month rollover.
LEMMA BokfortKroner ==
  ASSUME naa \in Tikk, Ferskt, Enige(bok, k, hel.kwh, hel.apning, MndNaa),
         Bokholdt(bok, k, hel), ToppAv(k, hel), hel.poll \in Tikk, hel.poll <= naa,
         k.maned <= MndNaa,
         Prisholdt(bok, k, hel), KronerAv(DOMAIN bok.poster, k, hel),
         NEW prove \in Priser \cup {Ingen}, NEW a \in Avlesninger \cup {Ingen}, Lesbar(a)
  PROVE  \E g \in Nat : \E D :
           DelvisKroner(Bokfort(prove, a), k.maned, hel.apning, hel.kwh, MndNaa, g, kilde, naa,
                        NyeRuter(prove, hel.ruter), Startsum(k.maned, hel), D)
<1>1. PICK b : b = ProvetBok(prove, bok)
  OBVIOUS
<1>2. PICK c : c = DagensFelter(k)
  OBVIOUS
<1>3. PICK deler : deler = Deler(b, a)
  OBVIOUS
<1>4. PICK start : start = Startstilling(b, c)
  OBVIOUS
<1>5. PICK g, balanse :
        /\ g \in Nat /\ Bokfort(prove, a) = Avsluttet(Lopet(deler, balanse, start, DOMAIN deler))
        /\ DelvisTopp(start, k.maned, hel.apning, hel.kwh, MndNaa, g, kilde, naa)
        /\ TellbarBok(b) /\ SammePostene(bok, b)
        /\ balanse.dag = Balanse(k.maned, hel.apning).dag
        /\ balanse.natt = Balanse(k.maned, hel.apning).natt
        /\ Heltall(DOMAIN deler)
        /\ \A t \in DOMAIN deler : Lesbardel(deler[t], t)
  BY <1>1, <1>2, <1>3, <1>4, BokfortStart
<1>6. PICK apning : apning = hel.apning
  OBVIOUS
<1>7. PICK kwh : kwh = hel.kwh
  OBVIOUS
<1>8. PICK maned : maned = k.maned
  OBVIOUS
<1>9. PICK mnd : mnd = MndNaa
  OBVIOUS
<1>10. PICK sensor : sensor = kilde
  OBVIOUS
<1>11. PICK n \in Tikk : n = naa
  OBVIOUS
<1>12. /\ mnd \in Nat /\ mnd = ManedAv[Time(naa)] /\ Timesplitt(kwh) /\ g \in Int
       /\ apning \in [dag : Int, natt : Int]
  BY <1>5, <1>6, <1>7, <1>9, MndNaaType DEF MndNaa, Enige
<1>13. PICK ruter : ruter = NyeRuter(prove, hel.ruter)
  OBVIOUS
<1>14. PICK f0 : f0 = Startsum(k.maned, hel)
  OBVIOUS
<1>15. PICK D : D = DOMAIN deler
  OBVIOUS
<1>16. /\ f0 \in Nat /\ f0 = SumKwh(Balanse(maned, apning)) /\ RuterOK(ruter)
  <2>1. f0 \in Nat
    BY <1>14, StartsumNat DEF Prisholdt
  <2>2. f0 = SumKwh(Balanse(maned, apning))
    BY <1>6, <1>8, <1>14 DEF Startsum
  <2>3. PICK r : r = hel.ruter
    OBVIOUS
  <2>4. RuterOK(r)
    BY <2>3 DEF Prisholdt
  <2>5. RuterOK(NyeRuter(prove, r))
    BY <2>4, NyeRuterOK
  <2>. QED
    BY <1>13, <2>1, <2>2, <2>3, <2>5
<1>17. DelvisKroner(start, maned, apning, kwh, mnd, g, sensor, n, ruter, f0, D)
  <2>1. TellbarBok(bok) /\ FelterOK(k) /\ Timesplitt(hel.kwh)
    BY DEF Enige
  <2>2. LET e == ProvetBok(prove, bok)
        IN  TellbarBok(e) /\ SammePostene(bok, e) =>
              Kronevis(Startstilling(e, DagensFelter(k)), k.maned, hel.kwh, MndNaa, kilde, naa,
                       NyeRuter(prove, hel.ruter), Startsum(k.maned, hel), DOMAIN Deler(e, a))
    BY <2>1, StartKroner
  <2>3. Kronevis(start, maned, kwh, mnd, sensor, n, ruter, f0, D)
    BY <1>1, <1>2, <1>3, <1>4, <1>5, <1>7, <1>8, <1>9, <1>10, <1>11, <1>13, <1>14, <1>15, <2>2
  <2>. QED
    BY <1>5, <1>6, <1>7, <1>8, <1>9, <1>10, <1>11, <2>3 DEF DelvisKroner
<1>18. \A t \in D : \A s :
          DelvisKroner(s, maned, apning, kwh, mnd, g, sensor, n, ruter, f0, D) =>
          DelvisKroner(EnDel(s, deler[t], balanse), maned, apning, kwh, mnd, g, sensor, n, ruter, f0, D)
  <2> SUFFICES ASSUME NEW t \in D, NEW s,
                      DelvisKroner(s, maned, apning, kwh, mnd, g, sensor, n, ruter, f0, D)
               PROVE  DelvisKroner(EnDel(s, deler[t], balanse), maned, apning, kwh, mnd, g, sensor, n,
                                   ruter, f0, D)
    OBVIOUS
  <2>1. PICK p : p = deler[t]
    OBVIOUS
  <2>2. /\ p # Ingen /\ p.tid \in D /\ p.tid \in Tikk /\ p.tid <= naa /\ p.verdi \in Int
        /\ p.kilde = sensor
    BY <1>5, <1>10, <1>15, <2>1 DEF Lesbardel
  <2>3. DelvisKroner(s, maned, apning, kwh, mnd, g, sensor, naa, ruter, f0, D)
    BY <1>11
  <2>4. balanse.dag = Balanse(maned, apning).dag /\ balanse.natt = Balanse(maned, apning).natt
    BY <1>5, <1>6, <1>8
  <2>5. DelvisKroner(EnDel(s, p, balanse), maned, apning, kwh, mnd, g, sensor, naa, ruter, f0, D)
    BY <1>12, <1>16, <2>2, <2>3, <2>4, EnDelKroner
  <2>. QED
    BY <1>11, <2>1, <2>5
<1>19. PICK r : r = Lopet(deler, balanse, start, D)
  OBVIOUS
<1>20. DelvisKroner(r, maned, apning, kwh, mnd, g, sensor, n, ruter, f0, D)
  <2>1. Heltall(D)
    BY <1>5, <1>15
  <2>2. DelvisKroner(Lopet(deler, balanse, start, D), maned, apning, kwh, mnd, g, sensor, n, ruter, f0, D)
    BY <1>17, <1>18, <2>1, LopBevarerKroner
  <2>. QED
    BY <1>19, <2>2
<1>21. DelvisKroner(Avsluttet(r), maned, apning, kwh, mnd, g, sensor, naa, ruter, f0, D)
  <2>1. DelvisKroner(r, maned, apning, kwh, mnd, g, sensor, naa, ruter, f0, D)
    BY <1>11, <1>20
  <2>. QED
    BY <1>12, <2>1, AvsluttetKroner
<1>22. Bokfort(prove, a) = Avsluttet(r)
  BY <1>5, <1>15, <1>19
<1>. QED
  BY <1>5, <1>6, <1>7, <1>8, <1>9, <1>10, <1>13, <1>14, <1>21, <1>22

-----------------------------------------------------------------------------
(***************************************************************************)
(* The end of a poll, and the rollover before it.                          *)
(***************************************************************************)
LEMMA PrisholdtSamme ==
  ASSUME NEW b, NEW c, NEW h, Prisholdt(b, c, h), NEW b2, SammeBok(b, b2),
         NEW c2, c2.maned = c.maned, c2.dato = c.dato
  PROVE  Prisholdt(b2, c2, h)
<1>1. PICK u : u = Time(h.poll) - Lagringsvindu
  OBVIOUS
<1>2. Sporet(b, h.kwh, h.ruter, u)
  BY <1>1 DEF Prisholdt
<1>3. PICK kwh : kwh = h.kwh
  OBVIOUS
<1>4. PICK ruter : ruter = h.ruter
  OBVIOUS
<1>5. Sporet(b2, kwh, ruter, u)
  BY <1>2, <1>3, <1>4, SporetSamme
<1>. QED
  BY <1>1, <1>3, <1>4, <1>5 DEF Prisholdt

LEMMA FerdigKroner ==
  ASSUME NEW b, TellbarBok(b), NEW c, FelterOK(c), NEW timer, NEW skitten,
         Ferdig(b, c, timer, skitten), NEW h, Timesplitt(h.kwh),
         Prisholdt(b, c, h), Bokholdt(b, c, h), Viser(c, h), NEW S, S \subseteq timer \cup {Time(naa)},
         Delkroner(DOMAIN b.poster, c, h.kwh, h.ruter, Startsum(c.maned, h), S)
  PROVE  Prisholdt(bok', k', h) /\ KronerAv(DOMAIN bok'.poster, k', h)
<1>1. PICK o : o = Oppdater(b)
  OBVIOUS
<1>2. PICK b2 : b2 = Bygd(o)
  OBVIOUS
<1>3. SammeBok(b, b2)
  <2>1. SammeManeder(b, o) /\ SammeBok(b, o)
    BY <1>1, OppdaterManeder, OppdaterBok
  <2>2. SammeBok(o, b2)
    BY <1>2, <2>1, BygdBok DEF SammeManeder
  <2>. QED
    BY <2>1, <2>2 DEF SammeBok, SammePostene
<1>4. PICK kwh : kwh = h.kwh
  OBVIOUS
<1>5. PICK ruter : ruter = h.ruter
  OBVIOUS
<1>6. PICK apning : apning = h.apning
  OBVIOUS
<1>7. PICK f0 : f0 = Startsum(c.maned, h)
  OBVIOUS
<1>8. /\ Timesplitt(kwh) /\ RuterOK(ruter) /\ f0 \in Nat /\ apning \in [dag : Int, natt : Int]
      /\ Delkroner(DOMAIN b.poster, c, kwh, ruter, f0, S)
      /\ Postert(b, kwh, Grunntime(b), kilde, c.maned, h.poll)
      /\ f0 = SumKwh(Balanse(c.maned, apning)) /\ c.forbruk = Fasit(c.maned, kwh, apning)
  BY <1>4, <1>5, <1>6, <1>7, StartsumNat DEF Prisholdt, Bokholdt, Viser, Startsum
<1>9. Kjenner(b, kwh, ruter)
  <2>1. PICK u : u = Time(h.poll) - Lagringsvindu
    OBVIOUS
  <2>2. Sporet(b, kwh, ruter, u)
    BY <1>4, <1>5, <2>1 DEF Prisholdt
  <2>3. \A x \in DOMAIN b.poster : x \in DOMAIN kwh /\ b.poster[x].kwh = kwh[x]
    BY <1>8 DEF Postert
  <2>. QED
    BY <1>8, <2>2, <2>3, SporetKjenner
<1>10. SumKwh(c.forbruk) = f0 + SumFunctionOnSet(kwh, IManed(kwh, c.maned))
  BY <1>8, FasitSum
<1>11. /\ \A x \in DOMAIN kwh : b.aktiv # Ingen /\ ManedAv[x] <= b.aktiv
       /\ b.aktiv # Ingen => b.aktiv <= c.maned
  BY <1>8 DEF Postert
<1>12. PICK c2 : c2 = Akkumuler(b, c, timer)
  OBVIOUS
<1>13. /\ FelterOK(c2) /\ c2.maned = c.maned /\ c2.dato = c.dato
       /\ Delkroner(DOMAIN b.poster, c2, kwh, ruter, f0, S \ (timer \cup {Time(naa)}))
  <2>1. LET r == Akkumuler(b, c, timer)
        IN  /\ FelterOK(r) /\ r.maned = c.maned /\ r.dato = c.dato /\ r.forbruk = c.forbruk
            /\ Delkroner(DOMAIN b.poster, r, kwh, ruter, f0, S \ (timer \cup {Time(naa)}))
    BY <1>8, <1>9, <1>10, <1>11, AkkumulerKroner, SMTT(60)
  <2>. QED
    BY <1>12, <2>1
<1>14. PICK R : R = S \ (timer \cup {Time(naa)})
  OBVIOUS
<1>15. R \subseteq {}
  BY <1>14
<1>16. PICK uker : uker = UtenGamle(c.uke, DatoNaa)
  OBVIOUS
<1>17. PICK c3 : c3 = [c2 EXCEPT !.uke = uker]
  OBVIOUS
<1>18. SammeKroner(c2, c3)
  BY <1>13, <1>17 DEF SammeKroner, FelterOK, Minne
<1>19. bok' = b2 /\ k' = c3
  BY <1>1, <1>2, <1>12, <1>16, <1>17 DEF Ferdig
<1>20. Prisholdt(b2, c3, h)
  <2>1. c3.maned = c.maned /\ c3.dato = c.dato
    BY <1>13, <1>18 DEF SammeKroner
  <2>. QED
    BY <1>3, <2>1, PrisholdtSamme
<1>21. Delkroner(DOMAIN b2.poster, c3, kwh, ruter, f0, {})
  <2>1. PICK P : P = DOMAIN b.poster
    OBVIOUS
  <2>2. Delkroner(P, c2, kwh, ruter, f0, R)
    BY <1>13, <1>14, <2>1
  <2>3. Delkroner(P, c3, kwh, ruter, f0, {})
    BY <1>15, <1>18, <2>2, DelkronerSamme
  <2>. QED
    BY <1>3, <2>1, <2>3 DEF SammeBok, SammePostene
<1>22. f0 = Startsum(c3.maned, h)
  BY <1>7, <1>13, <1>18 DEF SammeKroner
<1>. QED
  BY <1>4, <1>5, <1>19, <1>20, <1>21, <1>22 DEF KronerAv

\* A month that has just been opened: all of it is still to be priced.
Ulest(P, c, kwh, timer) ==
  /\ c.kroner = 0 /\ c.dagskost = 0 /\ DOMAIN c.kr = {}
  /\ IManed(kwh, c.maned) \subseteq timer \cap P

LEMMA UlestKroner ==
  ASSUME NEW P, NEW c, NEW kwh, Timesplitt(kwh), NEW ruter, NEW f0, NEW timer, Ulest(P, c, kwh, timer)
  PROVE  Delkroner(P, c, kwh, ruter, f0, timer)
<1>1. PICK m : m = c.maned
  OBVIOUS
<1>2. PICK T : T = IManed(kwh, m)
  OBVIOUS
<1>3. PICK D : D = IDag(kwh, m, c.dato)
  OBVIOUS
<1>4. PICK w : w = Regnet(P, c, kwh, ruter, f0)
  OBVIOUS
<1>5. IsFiniteSet(T) /\ D \in SUBSET T /\ IsFiniteSet(D)
  BY <1>2, <1>3, IManedType, IDagType
<1>6. \A x \in T : w[x] = 0
  BY <1>1, <1>2, <1>4 DEF Regnet, Gitt, Ulest
<1>7. SumFunctionOnSet(w, T) = 0 /\ SumFunctionOnSet(w, D) = 0
  BY <1>5, <1>6, SumNull
<1>. QED
  BY <1>1, <1>2, <1>3, <1>4, <1>7 DEF Delkroner, Ulest

-----------------------------------------------------------------------------
(***************************************************************************)
(* The prices through the Store.                                           *)
(***************************************************************************)

\* The routes a write keeps: those of the window.
LEMMA LagretRuter ==
  ASSUME NEW b, TellbarBok(b), NEW t \in Tikk
  PROVE  LET c == FraLagring(TilLagring(b, t))
         IN  \A r : TimeForRute(r) >= Time(t) - Lagringsvindu => SammeRute(c.ruter, b.ruter, r)
<1>1. PICK l : l = TilLagring(b, t)
  OBVIOUS
<1>2. LagerOK(l) /\ l.skjema = 3
  BY <1>1, TilLagringInv DEF TellbarBok
<1>3. PICK fra : fra = Time(t) - Lagringsvindu
  OBVIOUS
<1>4. l.ruter = RuterFra(b.ruter, fra)
  BY <1>1, <1>3 DEF TilLagring
<1>5. PICK c : c = FraLagring(l)
  OBVIOUS
<1>6. c.ruter = l.ruter
  <2>1. l # TomtLager /\ l # GammeltLager
    BY <1>2 DEF TomtLager, GammeltLager
  <2>. QED
    BY <1>5, <2>1 DEF FraLagring, TomBok
<1>7. \A r : TimeForRute(r) >= fra => SammeRute(c.ruter, b.ruter, r)
  BY <1>4, <1>6 DEF SammeRute, RuterFra, Restrict
<1>. QED
  BY <1>1, <1>3, <1>5, <1>7

\* No baseline while the ledger is empty.
LEMMA GrunnlinjeSporet ==
  ASSUME NEW b, TellbarBok(b), NEW kwh, DOMAIN kwh = {}, NEW ruter, NEW nedre,
         Sporet(b, kwh, ruter, nedre)
  PROVE  Sporet([b EXCEPT !.sist = Ingen], kwh, ruter, nedre)
<1>1. PICK c : c = [b EXCEPT !.sist = Ingen]
  OBVIOUS
<1>2. c.poster = b.poster /\ c.aktiv = b.aktiv /\ c.sist = Ingen /\ c.ruter = b.ruter
  BY <1>1 DEF TellbarBok, BokInv, StrukturOK, TomBok
<1>3. Sporet(c, kwh, ruter, nedre)
  BY <1>2 DEF Sporet, Apent, IkkeLukket
<1>. QED
  BY <1>1, <1>3

LEMMA FilSporet ==
  ASSUME naa \in Tikk, TellbarBok(bok), NEW kwh, Timesplitt(kwh), NEW ruter, NEW mnd, NEW n,
         Postert(bok, kwh, Grunntime(bok), kilde, mnd, n),
         Sporet(bok, kwh, ruter, Time(naa) - Lagringsvindu),
         bok.sist # Ingen => Time(naa) - Time(bok.sist.tid) <= Lagringsvindu
  PROVE  Sporet(LestBok(Fil, kilde), kwh, ruter, Time(naa) - Lagringsvindu)
<1>1. PICK b : b = bok
  OBVIOUS
<1>2. PICK sensor : sensor = kilde
  OBVIOUS
<1>3. PICK t \in Tikk : t = naa
  OBVIOUS
<1>4. PICK l : l = Fil
  OBVIOUS
<1>5. /\ l.bok = TilLagring(b, t)
      /\ l.baseline = IF b.sist # Ingen /\ b.sist.kilde \notin Estimerte THEN b.sist ELSE Ingen
  BY <1>1, <1>3, <1>4 DEF Fil
<1>6. PICK d : d = FraLagring(l.bok)
  OBVIOUS
<1>7. PICK fra \in Int : fra = Time(t) - Lagringsvindu
  BY TimeNat, TidAssumption
<1>8. /\ TellbarBok(b) /\ Postert(b, kwh, Grunntime(b), sensor, mnd, n) /\ Sporet(b, kwh, ruter, fra)
      /\ b.sist # Ingen => Time(t) - Time(b.sist.tid) <= Lagringsvindu
  BY <1>1, <1>2, <1>3, <1>7
<1>9. /\ TellbarBok(d) /\ d.aktiv = b.aktiv /\ d.sist = b.sist
      /\ DOMAIN d.poster = {h \in DOMAIN b.poster : h >= fra}
      /\ \A h \in DOMAIN d.poster : d.poster[h] = b.poster[h]
  BY <1>5, <1>6, <1>7, <1>8, LagretPoster
<1>10. \A r : TimeForRute(r) >= fra => SammeRute(d.ruter, b.ruter, r)
  BY <1>5, <1>6, <1>7, <1>8, LagretRuter
<1>11. b.sist # Ingen => Time(b.sist.tid) >= fra /\ Time(b.sist.tid) \in Int
  <2> SUFFICES ASSUME b.sist # Ingen PROVE Time(b.sist.tid) >= fra /\ Time(b.sist.tid) \in Int
    OBVIOUS
  <2>1. PICK u \in Tikk : u = b.sist.tid
    BY <1>8 DEF TellbarBok, BokInv, StrukturOK
  <2>2. Time(u) \in Nat /\ Time(t) \in Nat /\ Lagringsvindu \in Nat
    BY TimeNat, TidAssumption
  <2>. QED
    BY <1>7, <1>8, <2>1, <2>2
<1>12. \A r \in Ruter : TimeForRute(r) \in Int
  BY TidAssumption DEF Ruter, TimeForRute
<1>13. Sporet(d, kwh, ruter, fra)
  <2>1. ASSUME NEW r \in Ruter, Apent(d, kwh, fra, TimeForRute(r)), IkkeLukket(d, TimeForRute(r))
        PROVE  SammeRute(d.ruter, ruter, r)
    <3>1. PICK x \in Int : x = TimeForRute(r)
      BY <1>12
    <3>2. Apent(b, kwh, fra, x) /\ IkkeLukket(b, x)
      BY <1>9, <2>1, <3>1 DEF Apent, IkkeLukket
    <3>3. x >= fra
      <4>1. CASE x \in DOMAIN d.poster
        BY <1>9, <4>1
      <4>2. CASE d.sist # Ingen /\ Time(d.sist.tid) <= x
        BY <1>9, <1>11, <3>1, <4>2
      <4>3. CASE fra <= x
        BY <4>3
      <4>. QED
        BY <2>1, <3>1, <4>1, <4>2, <4>3 DEF Apent
    <3>4. SammeRute(d.ruter, b.ruter, r)
      BY <1>10, <3>1, <3>3
    <3>5. SammeRute(b.ruter, ruter, r)
      BY <1>8, <3>1, <3>2 DEF Sporet
    <3>. QED
      BY <3>4, <3>5 DEF SammeRute
  <2>2. ASSUME NEW h \in DOMAIN d.poster, NEW y \in DOMAIN kwh, h <= y, ManedAv[y] = d.aktiv
        PROVE  y \in DOMAIN d.poster
    <3>1. h \in DOMAIN b.poster /\ h >= fra /\ y \in DOMAIN b.poster
      BY <1>8, <1>9, <2>2 DEF Sporet
    <3>2. h \in Int /\ y \in Int
      BY <1>8, <3>1, TidAssumption DEF Timesplitt, Timer, Postert
    <3>3. y >= fra
      BY <2>2, <3>1, <3>2
    <3>. QED
      BY <1>9, <3>1, <3>3
  <2>3. \A y \in DOMAIN kwh : d.sist # Ingen /\ y <= Time(d.sist.tid)
    BY <1>8, <1>9 DEF Sporet
  <2>. QED
    BY <2>1, <2>2, <2>3 DEF Sporet
<1>14. PICK c : c = LestBok(l, sensor)
  OBVIOUS
<1>15. c = d \/ (c = [d EXCEPT !.sist = Ingen] /\ DOMAIN kwh = {})
  <2>1. CASE l.baseline # Ingen /\ sensor \in Estimerte
    <3>1. c = [d EXCEPT !.sist = Ingen]
      BY <1>6, <1>14, <2>1 DEF LestBok
    <3>2. DOMAIN kwh = {}
      BY <1>5, <1>8, <2>1 DEF Postert
    <3>. QED
      BY <3>1, <3>2
  <2>2. CASE ~ (l.baseline # Ingen /\ sensor \in Estimerte) /\ d.sist = Ingen /\ sensor \notin Estimerte
    <3>1. c = [d EXCEPT !.sist = Ingen]
      BY <1>5, <1>6, <1>9, <1>14, <2>2 DEF LestBok
    <3>2. DOMAIN kwh = {}
      BY <1>13, <2>2 DEF Sporet
    <3>. QED
      BY <3>1, <3>2
  <2>3. CASE ~ (l.baseline # Ingen /\ sensor \in Estimerte) /\ ~ (d.sist = Ingen /\ sensor \notin Estimerte)
    BY <1>6, <1>14, <2>3 DEF LestBok
  <2>. QED
    BY <2>1, <2>2, <2>3
<1>16. Sporet(c, kwh, ruter, fra)
  BY <1>9, <1>13, <1>15, GrunnlinjeSporet
<1>. QED
  BY <1>2, <1>3, <1>4, <1>7, <1>14, <1>16

\* What a write makes of the ledger's counterpart in the Store.
LEMMA FilPrisholdt ==
  ASSUME naa \in Tikk, TellbarBok(bok), FelterOK(k), NEW h, Timesplitt(h.kwh), h.poll = naa,
         Bokholdt(bok, k, h), Prisholdt(bok, k, h),
         bok.sist # Ingen => Time(naa) - Time(bok.sist.tid) <= Lagringsvindu
  PROVE  Prisholdt(LestBok(Fil, kilde), Fil.k, h)
<1>1. PICK kwh : kwh = h.kwh
  OBVIOUS
<1>2. PICK ruter : ruter = h.ruter
  OBVIOUS
<1>3. PICK m : m = k.maned
  OBVIOUS
<1>4. PICK n : n = h.poll
  OBVIOUS
<1>5. PICK b : b = LestBok(Fil, kilde)
  OBVIOUS
<1>6. /\ Timesplitt(kwh) /\ Postert(bok, kwh, Grunntime(bok), kilde, m, n)
      /\ Sporet(bok, kwh, ruter, Time(naa) - Lagringsvindu)
  BY <1>1, <1>2, <1>3, <1>4 DEF Bokholdt, Prisholdt
<1>7. Sporet(LestBok(Fil, kilde), kwh, ruter, Time(naa) - Lagringsvindu)
  BY <1>6, FilSporet
<1>8. Fil.k.maned = k.maned /\ Fil.k.dato = k.dato
  BY DEF Fil, FelterOK, Minne
<1>. QED
  BY <1>1, <1>2, <1>5, <1>7, <1>8 DEF Prisholdt

\* The kroner that are written are those of the ledger, what each hour has given
\* left out.
LEMMA FilKroner ==
  ASSUME NEW c, FelterOK(c), NEW P, NEW kwh, NEW ruter, NEW f0, Delkroner(P, c, kwh, ruter, f0, {})
  PROVE  LET r == [c EXCEPT !.kr = <<>>]
         IN  r.maned = c.maned /\ Delkroner({}, r, kwh, ruter, f0, {})
<1>1. PICK r : r = [c EXCEPT !.kr = <<>>]
  OBVIOUS
<1>2. /\ r.maned = c.maned /\ r.dato = c.dato /\ r.kroner = c.kroner /\ r.dagskost = c.dagskost
      /\ r.kr = <<>>
  BY <1>1 DEF FelterOK, Minne
<1>3. DOMAIN r.kr = {}
  BY <1>2
<1>4. PICK Q : Q = {}
  OBVIOUS
<1>5. /\ \A x \in DOMAIN r.kr : x \in IManed(kwh, c.maned) /\ r.kr[x] \in Int
      /\ \A x \in IManed(kwh, c.maned) \cap Q :
           x \in DOMAIN r.kr /\ r.kr[x] = Verd(kwh, ruter, c.maned, f0, x)
  BY <1>3, <1>4
<1>6. Delkroner(Q, r, kwh, ruter, f0, {})
  BY <1>2, <1>5, DelkronerBytt
<1>. QED
  BY <1>1, <1>2, <1>4, <1>6

\* What _bygg_kronebokforing says of an hour of the book is what the hour costs.
KwhI(b, S) == MapThenSumSet(LAMBDA h : b.poster[h].kwh, S)

LEMMA KwhISum ==
  ASSUME NEW b, NEW kwh, NEW S, IsFiniteSet(S),
         \A h \in S : b.poster[h].kwh = kwh[h] /\ kwh[h] \in Int
  PROVE  KwhI(b, S) = SumFunctionOnSet(kwh, S)
<1>1. PICK w : w = [g \in S |-> b.poster[g].kwh]
  OBVIOUS
<1>2. KwhI(b, S) = SumFunctionOnSet(w, S)
  BY <1>1, KwhTilSum DEF KwhI
<1>3. \A g \in S : kwh[g] \in Int /\ w[g] = kwh[g]
  BY <1>1
<1>. QED
  BY <1>2, <1>3, SumLik

LEMMA KronebokforingVerdi ==
  ASSUME NEW b, TellbarBok(b), NEW kwh, Timesplitt(kwh), NEW ruter, Kjenner(b, kwh, ruter),
         NEW f0 \in Nat, NEW c, ForesAvBoken(b, c.maned),
         SumKwh(c.forbruk) = f0 + SumFunctionOnSet(kwh, IManed(kwh, b.aktiv))
  PROVE  LET kr == Kronebokforing(b, c)
         IN  DOMAIN kr = DOMAIN b.poster
             /\ \A h \in DOMAIN b.poster : kr[h] = Verd(kwh, ruter, b.aktiv, f0, h)
<1>1. PICK T : T = IManed(kwh, b.aktiv)
  OBVIOUS
<1>2. PICK P : P = DOMAIN b.poster
  OBVIOUS
<1>3. IsFiniteSet(T) /\ \A x \in T : x \in Int /\ kwh[x] \in Nat /\ kwh[x] \in Int
  BY <1>1, IManedType
<1>4. P \in SUBSET T /\ IsFiniteSet(P) /\ \A g \in P : b.poster[g].kwh = kwh[g]
  <2>1. P \in SUBSET T /\ \A g \in P : b.poster[g].kwh = kwh[g]
    BY <1>1, <1>2, PosterIManed DEF Kjenner
  <2>. QED
    BY <1>3, <2>1, FS_Subset
<1>5. PICK o : o = SumFunctionOnSet(kwh, T \ P)
  OBVIOUS
<1>6. PICK t : t = SumFunctionOnSet(kwh, T)
  OBVIOUS
<1>7. PICK p : p = KwhI(b, P)
  OBVIOUS
<1>8. o = t - p /\ o \in Nat /\ t \in Int /\ p \in Int
  <2>1. /\ SumFunctionOnSet(kwh, T \ P) = SumFunctionOnSet(kwh, T) - SumFunctionOnSet(kwh, P)
        /\ SumFunctionOnSet(kwh, P) \in Int /\ SumFunctionOnSet(kwh, T) \in Int
    BY <1>3, <1>4, SumDifferens
  <2>2. \A h \in P : b.poster[h].kwh = kwh[h] /\ kwh[h] \in Int
    BY <1>3, <1>4
  <2>3. p = SumFunctionOnSet(kwh, P)
    BY <1>4, <1>7, <2>2, KwhISum
  <2>4. SumFunctionOnSet(kwh, T \ P) \in Nat
    <3>1. IsFiniteSet(T \ P) /\ \A x \in T \ P : kwh[x] \in Nat
      BY <1>3, FS_Subset
    <3>. QED
      BY <3>1, SumNat
  <2>. QED
    BY <1>5, <1>6, <2>1, <2>3, <2>4
<1>9. StorstAv(0, SumKwh(c.forbruk) - p) = f0 + o
  <2>1. (f0 + t) - p = f0 + o /\ f0 + o \in Nat
    BY <1>8
  <2>. QED
    BY <1>1, <1>6, <2>1 DEF StorstAv
<1>10. Kronebokforing(b, c) =
         [h \in P |-> Kr(b.poster[h].kwh, Bygg(b, h).pris, (f0 + o) + KwhI(b, {g \in P : g < h}))]
  <2>1. Kronebokforing(b, c) =
          [h \in DOMAIN b.poster |->
             Kr(b.poster[h].kwh, Bygg(b, h).pris,
                StorstAv(0, SumKwh(c.forbruk) - KwhI(b, DOMAIN b.poster))
                  + KwhI(b, {g \in DOMAIN b.poster : g < h}))]
    BY DEF Kronebokforing, KwhI, MapThenSumSet, MapThenFoldSet
  <2>2. StorstAv(0, SumKwh(c.forbruk) - KwhI(b, DOMAIN b.poster)) = f0 + o
    BY <1>2, <1>7, <1>9
  <2>. QED
    BY <1>2, <2>1, <2>2
<1>11. ASSUME NEW h \in P
       PROVE  Kr(b.poster[h].kwh, Bygg(b, h).pris, (f0 + o) + KwhI(b, {g \in P : g < h}))
                = Verd(kwh, ruter, b.aktiv, f0, h)
  <2>1. PICK S : S = {g \in P : g < h}
    OBVIOUS
  <2>2. PICK s : s = KwhI(b, S)
    OBVIOUS
  <2>3. IsFiniteSet(S) /\ S \subseteq P
    BY <1>4, <2>1, FS_Subset
  <2>4. s = SumFunctionOnSet(kwh, S) /\ s \in Int
    <3>1. \A x \in S : b.poster[x].kwh = kwh[x] /\ kwh[x] \in Int
      BY <1>3, <1>4, <2>3
    <3>. QED
      BY <2>2, <2>3, <3>1, KwhISum, SumType
  <2>5. {g \in T : g < h} = (T \ P) \cup S
    <3>1. \A g \in T : h <= g => g \in P
      BY <1>1, <1>2 DEF Kjenner, IManed, Gruppe
    <3>2. h \in Int /\ \A g \in T : g \in Int
      BY <1>3, <1>4
    <3>3. \A g \in T : g < h <=> ~ (h <= g)
      BY <3>2
    <3>4. \A g \in T : g < h => g \in T \ P \/ g \in S
      BY <2>1
    <3>5. \A g \in (T \ P) \cup S : g \in T /\ g < h
      BY <1>4, <2>1, <3>1, <3>3
    <3>. QED
      BY <3>4, <3>5
  <2>6. SumFunctionOnSet(kwh, (T \ P) \cup S) = o + s
    <3>1. PICK O : O = T \ P
      OBVIOUS
    <3>2. IsFiniteSet(O) /\ O \cap S = {} /\ \A x \in O \cup S : kwh[x] \in Int
      BY <1>3, <1>4, <2>3, <3>1, FS_Subset
    <3>3. SumFunctionOnSet(kwh, O \cup S) = SumFunctionOnSet(kwh, O) + SumFunctionOnSet(kwh, S)
      BY <2>3, <3>2, SumUnion
    <3>. QED
      BY <1>5, <2>4, <3>1, <3>3
  <2>7. Foran(kwh, b.aktiv, f0, h) = (f0 + o) + s
    <3>1. Foran(kwh, b.aktiv, f0, h) = f0 + (o + s)
      BY <1>1, <2>5, <2>6 DEF Foran
    <3>. QED
      BY <1>8, <2>4, <3>1
  <2>8. Bygg(b, h).pris = Prisintervall(ruter, h)
    <3>1. Bygg(b, h) = NyttIntervall(b, h)
      BY <1>2 DEF Bygg, TellbarBok, BokInv, CacheFersk
    <3>. QED
      BY <1>2, <3>1 DEF NyttIntervall, Kjenner
  <2>. QED
    BY <1>4, <2>1, <2>2, <2>7, <2>8 DEF Verd
<1>. QED
  BY <1>2, <1>10, <1>11

\* What a start makes of the Store.
LEMMA InnlestKroner ==
  ASSUME NEW l, NEW sensor, TellbarBok(LestBok(l, sensor)), FelterOK(l.k), NEW h, Timesplitt(h.kwh),
         Prisholdt(LestBok(l, sensor), l.k, h), Viser(l.k, h),
         NEW g, NEW maler, NEW n, Postert(LestBok(l, sensor), h.kwh, g, maler, l.k.maned, n),
         KronerAv({}, l.k, h)
  PROVE  LET x == Innlest(l, sensor)
         IN  Prisholdt(x.bok, x.k, h) /\ KronerAv(DOMAIN x.bok.poster, x.k, h)
<1>1. PICK b : b = LestBok(l, sensor)
  OBVIOUS
<1>2. PICK c : c = l.k
  OBVIOUS
<1>3. PICK felter : felter = [l.k EXCEPT !.forrige = LestForrige(@)]
  OBVIOUS
<1>4. PICK x : x = Innlest(l, sensor)
  OBVIOUS
<1>5. PICK kr : kr = Kronebokforing(b, felter)
  OBVIOUS
<1>6. x.bok = (IF ForesAvBoken(b, felter.maned) THEN Bygd(b) ELSE b)
      /\ x.k = [felter EXCEPT !.kr = kr]
  BY <1>1, <1>3, <1>4, <1>5 DEF Innlest, MedKroner
<1>7. PICK k1 : k1 = x.k
  OBVIOUS
<1>8. PICK b1 : b1 = x.bok
  OBVIOUS
<1>9. /\ k1.maned = c.maned /\ k1.dato = c.dato /\ k1.kroner = c.kroner /\ k1.dagskost = c.dagskost
      /\ k1.kr = kr /\ felter.maned = c.maned /\ felter.forbruk = c.forbruk
  BY <1>2, <1>3, <1>6, <1>7 DEF FelterOK, Minne
<1>10. SammeBok(b, b1)
  <2>1. TellbarBok(b)
    BY <1>1
  <2>2. SammeBok(b, Bygd(b))
    BY <2>1, BygdBok
  <2>3. SammeBok(b, b)
    BY DEF SammeBok, SammePostene
  <2>. QED
    BY <1>6, <1>8, <2>2, <2>3
<1>11. Prisholdt(b, c, h)
  BY <1>1, <1>2
<1>12. Prisholdt(b1, k1, h)
  BY <1>9, <1>10, <1>11, PrisholdtSamme
<1>13. PICK kwh : kwh = h.kwh
  OBVIOUS
<1>14. PICK ruter : ruter = h.ruter
  OBVIOUS
<1>15. PICK apning : apning = h.apning
  OBVIOUS
<1>16. PICK f0 : f0 = Startsum(c.maned, h)
  OBVIOUS
<1>17. /\ TellbarBok(b) /\ Timesplitt(kwh) /\ RuterOK(ruter) /\ f0 \in Nat
       /\ apning \in [dag : Int, natt : Int]
       /\ Delkroner({}, c, kwh, ruter, f0, {}) /\ c.maned \in Maneder
       /\ Postert(b, kwh, g, maler, c.maned, n)
       /\ f0 = SumKwh(Balanse(c.maned, apning)) /\ c.forbruk = Fasit(c.maned, kwh, apning)
  BY <1>1, <1>2, <1>11, <1>13, <1>14, <1>15, <1>16, StartsumNat
     DEF Prisholdt, KronerAv, Viser, Startsum, FelterOK
<1>18. Kjenner(b, kwh, ruter)
  <2>1. PICK u : u = Time(h.poll) - Lagringsvindu
    OBVIOUS
  <2>2. Sporet(b, kwh, ruter, u)
    BY <1>11, <1>13, <1>14, <2>1 DEF Prisholdt
  <2>3. \A y \in DOMAIN b.poster : y \in DOMAIN kwh /\ b.poster[y].kwh = kwh[y]
    BY <1>17 DEF Postert
  <2>. QED
    BY <1>17, <2>2, <2>3, SporetKjenner
<1>19. SumKwh(felter.forbruk) = f0 + SumFunctionOnSet(kwh, IManed(kwh, c.maned))
  BY <1>9, <1>17, FasitSum
<1>20. PICK Q : Q = DOMAIN b.poster
  OBVIOUS
<1>21. /\ \A y \in DOMAIN kr : y \in IManed(kwh, c.maned) /\ kr[y] \in Int
       /\ \A y \in IManed(kwh, c.maned) \cap Q :
            y \in DOMAIN kr /\ kr[y] = Verd(kwh, ruter, c.maned, f0, y)
  <2>1. CASE ~ ForesAvBoken(b, c.maned)
    <3>1. kr = <<>>
      BY <1>5, <1>9, <2>1 DEF Kronebokforing
    <3>2. b.aktiv \in Maneder \cup {Ingen}
      BY <1>17 DEF TellbarBok, BokInv, StrukturOK
    <3>3. /\ \A y \in DOMAIN kwh : b.aktiv # Ingen /\ ManedAv[y] <= b.aktiv
          /\ b.aktiv # Ingen => b.aktiv <= c.maned
      BY <1>17 DEF Postert
    <3>4. IManed(kwh, c.maned) = {}
      BY <1>17, <2>1, <3>2, <3>3, IkkeFores
    <3>5. DOMAIN kr = {}
      BY <3>1
    <3>. QED
      BY <3>4, <3>5
  <2>2. CASE b.aktiv = c.maned
    <3>1. SumKwh(felter.forbruk) = f0 + SumFunctionOnSet(kwh, IManed(kwh, b.aktiv))
      BY <1>19, <2>2
    <3>2. ForesAvBoken(b, felter.maned)
      BY <1>9, <2>2 DEF ForesAvBoken
    <3>3. LET q == Kronebokforing(b, felter)
          IN  DOMAIN q = DOMAIN b.poster
              /\ \A y \in DOMAIN b.poster : q[y] = Verd(kwh, ruter, b.aktiv, f0, y)
      BY <1>17, <1>18, <3>1, <3>2, KronebokforingVerdi
    <3>4. DOMAIN kr = Q /\ \A y \in Q : kr[y] = Verd(kwh, ruter, c.maned, f0, y)
      BY <1>5, <1>20, <2>2, <3>3
    <3>5. Q \subseteq IManed(kwh, c.maned)
      BY <1>17, <1>18, <1>20, <2>2, PosterIManed
    <3>6. \A y \in IManed(kwh, c.maned) : Verd(kwh, ruter, c.maned, f0, y) \in Int
      BY <1>17, VerdType
    <3>. QED
      BY <3>4, <3>5, <3>6
  <2>3. CASE b.aktiv = Ingen
    <3>1. Q = {}
      BY <1>17, <1>18, <1>20, <2>3, PosterIManed
    <3>2. IManed(kwh, c.maned) = {}
      BY <1>17, <2>3 DEF Postert, IManed, Gruppe
    <3>3. kr = [y \in Q |-> kr[y]]
      BY <1>5, <1>9, <1>20, <2>3 DEF Kronebokforing, ForesAvBoken
    <3>. QED
      BY <3>1, <3>2, <3>3
  <2>. QED
    BY <2>1, <2>2, <2>3 DEF ForesAvBoken
<1>22. Delkroner(Q, k1, kwh, ruter, f0, {})
  <2>1. PICK P : P = {}
    OBVIOUS
  <2>2. Delkroner(P, c, kwh, ruter, f0, {})
    BY <1>17, <2>1
  <2>3. /\ \A y \in DOMAIN k1.kr : y \in IManed(kwh, c.maned) /\ k1.kr[y] \in Int
        /\ \A y \in IManed(kwh, c.maned) \cap Q :
             y \in DOMAIN k1.kr /\ k1.kr[y] = Verd(kwh, ruter, c.maned, f0, y)
    BY <1>9, <1>21
  <2>. QED
    BY <1>9, <2>2, <2>3, DelkronerBytt
<1>23. f0 = Startsum(k1.maned, h) /\ Q = DOMAIN b1.poster
  BY <1>9, <1>10, <1>16, <1>20 DEF SammeBok, SammePostene
<1>. QED
  BY <1>4, <1>7, <1>8, <1>12, <1>13, <1>14, <1>22, <1>23 DEF KronerAv

-----------------------------------------------------------------------------
(***************************************************************************)
(* The invariant behind the kroner.  The book and what the Store would     *)
(* give back know the prices of every hour they can still get energy or a  *)
(* sample for, and the kroner of the fields are those of the ledger, the   *)
(* kept hours each at what it costs now.  During a rollover nothing of the *)
(* new month is priced, and all its hours are among those the poll         *)
(* touched.                                                                *)
(***************************************************************************)
KronInv ==
  /\ Prisholdt(bok, k, hel)
  /\ Prisholdt(LestBok(lager, kilde), lager.k, lagret)
  /\ fase = "skifte" => Ulest(DOMAIN bok.poster, k, hel.kwh, poll.timer)
  /\ fase # "skifte" => KronerAv(DOMAIN bok.poster, k, hel)
  /\ ~ poll.skiftet => KronerAv({}, lager.k, lagret)

\* A start from a Store that holds no book.
LEMMA StartPrisholdt ==
  ASSUME NEW l \in Startfiler, NEW sensor, NEW h, h.kwh = <<>>, h.ruter = <<>>, h.poll = 0,
         h.apning = l.k.forbruk
  PROVE  Prisholdt(LestBok(l, sensor), l.k, h) /\ KronerAv({}, l.k, h)
<1>1. PICK kwh : kwh = h.kwh
  OBVIOUS
<1>2. PICK ruter : ruter = h.ruter
  OBVIOUS
<1>3. DOMAIN kwh = {} /\ DOMAIN ruter = {} /\ Timesplitt(kwh)
  BY <1>1, <1>2 DEF Timesplitt
<1>4. PICK c : c = l.k
  OBVIOUS
<1>5. /\ l.bok = TomtLager \/ l.bok = GammeltLager
      /\ \E f, u : c = Minne(ManedAv[0], Dogn[0], f, u) /\ f \in [dag : Nat, natt : Nat]
  <2>1. \A x \in Apninger : [dag |-> x, natt |-> 0] \in [dag : Nat, natt : Nat]
    BY EnhetAssumption
  <2>2. Null \in [dag : Nat, natt : Nat]
    BY DEF Null
  <2>3. CASE \E u \in GamleUker : l = Startfil(TomtLager, Ingen, Null, u)
    <3>1. PICK u : l = Startfil(TomtLager, Ingen, Null, u)
      BY <2>3
    <3>2. l.bok = TomtLager /\ c = Minne(ManedAv[0], Dogn[0], Null, u)
      BY <1>4, <3>1 DEF Startfil
    <3>. QED
      BY <2>2, <3>2
  <2>4. CASE \E x \in Apninger, u \in GamleUker, a \in {Ingen} \cup GamleGrunnlinjer :
               l = Startfil(GammeltLager, a, [dag |-> x, natt |-> 0], u)
    <3>1. PICK x \in Apninger, u \in GamleUker, a \in {Ingen} \cup GamleGrunnlinjer :
            l = Startfil(GammeltLager, a, [dag |-> x, natt |-> 0], u)
      BY <2>4
    <3>2. PICK f : f = [dag |-> x, natt |-> 0]
      OBVIOUS
    <3>3. l.bok = GammeltLager /\ c = Minne(ManedAv[0], Dogn[0], f, u)
      BY <1>4, <3>1, <3>2 DEF Startfil
    <3>4. f \in [dag : Nat, natt : Nat]
      BY <2>1, <3>2
    <3>. QED
      BY <3>3, <3>4
  <2>. QED
    BY <2>3, <2>4 DEF Startfiler
<1>6. /\ c.maned = ManedAv[0] /\ c.dato = Dogn[0] /\ c.kroner = 0 /\ c.dagskost = 0 /\ c.kr = <<>>
      /\ c.forbruk \in [dag : Nat, natt : Nat]
  BY <1>5 DEF Minne
<1>7. PICK b : b = FraLagring(l.bok)
  OBVIOUS
<1>8. \E u : b = TomBok(u)
  <2>1. TomtLager.skjema = 0 /\ GammeltLager.skjema = 2
    BY DEF TomtLager, GammeltLager
  <2>2. TomtLager # GammeltLager
    BY <2>1
  <2>3. l.bok = TomtLager => b = TomBok(FALSE)
    BY <1>7, <2>2 DEF FraLagring
  <2>4. l.bok = GammeltLager => b = TomBok(TRUE)
    BY <1>7, <2>2 DEF FraLagring
  <2>. QED
    BY <1>5, <2>3, <2>4
<1>9. PICK d : d = LestBok(l, sensor)
  OBVIOUS
<1>10. d.ruter = <<>> /\ d.poster = <<>>
  <2>1. d = b \/ d = [b EXCEPT !.sist = Ingen] \/ d = [b EXCEPT !.sist = l.baseline]
    BY <1>7, <1>9 DEF LestBok
  <2>. QED
    BY <1>8, <2>1 DEF TomBok
<1>11. DOMAIN d.ruter = {} /\ DOMAIN d.poster = {}
  BY <1>10
<1>12. PICK fra : fra = Time(h.poll) - Lagringsvindu
  OBVIOUS
<1>13. Sporet(d, kwh, ruter, fra)
  <2>1. \A r : SammeRute(d.ruter, ruter, r)
    BY <1>3, <1>11 DEF SammeRute
  <2>. QED
    BY <1>3, <1>11, <2>1 DEF Sporet
<1>14. RuterOK(ruter)
  BY <1>3 DEF RuterOK
<1>15. Time(h.poll) = 0
  BY TidAssumption DEF Time, TikkPerTime
<1>16. Prisholdt(d, c, h)
  BY <1>1, <1>2, <1>4, <1>6, <1>12, <1>13, <1>14, <1>15 DEF Prisholdt
<1>17. KronerAv({}, c, h)
  <2>1. c.maned # Ingen
    BY <1>4, StartfilForm, ManederNat DEF FelterOK
  <2>2. IManed(kwh, c.maned) = {} /\ DOMAIN c.kr = {}
    BY <1>3, <1>6 DEF IManed, Gruppe
  <2>3. PICK P : P = {}
    OBVIOUS
  <2>4. PICK f0 : f0 = Startsum(c.maned, h)
    OBVIOUS
  <2>5. Delkroner(P, c, kwh, ruter, f0, P)
    BY <1>6, <2>1, <2>2, DelkronerTom
  <2>. QED
    BY <1>1, <1>2, <2>3, <2>4, <2>5 DEF KronerAv
<1>. QED
  BY <1>4, <1>9, <1>16, <1>17

LEMMA KronInit == Init => KronInv
<1> SUFFICES ASSUME Init PROVE KronInv
  OBVIOUS
<1>1. ForbrukInv /\ ToppInv
  BY ForbrukInit, ToppInit
<1>2. PICK l : l = lager
  OBVIOUS
<1>3. PICK sensor : sensor = kilde
  OBVIOUS
<1>4. PICK h : h = hel
  OBVIOUS
<1>5. /\ l \in Startfiler /\ h.kwh = <<>> /\ h.ruter = <<>> /\ h.poll = 0 /\ h.apning = l.k.forbruk
      /\ lagret = h /\ fase = "ledig" /\ ~ poll.skiftet
      /\ bok = Innlest(l, sensor).bok /\ k = Innlest(l, sensor).k
  BY <1>2, <1>3, <1>4 DEF Init, IngenPoll
<1>6. Prisholdt(LestBok(l, sensor), l.k, h) /\ KronerAv({}, l.k, h)
  BY <1>5, StartPrisholdt
<1>7. /\ TellbarBok(LestBok(l, sensor)) /\ FelterOK(l.k) /\ Timesplitt(h.kwh) /\ Viser(l.k, h)
      /\ Bokholdt(LestBok(l, sensor), l.k, h)
  BY <1>1, <1>2, <1>3, <1>5 DEF ForbrukInv, Holder, ToppInv
<1>8. PICK g : g = Grunntime(LestBok(l, sensor))
  OBVIOUS
<1>9. PICK n : n = h.poll
  OBVIOUS
<1>10. Postert(LestBok(l, sensor), h.kwh, g, sensor, l.k.maned, n)
  BY <1>3, <1>7, <1>8, <1>9 DEF Bokholdt
<1>11. LET x == Innlest(l, sensor)
       IN  Prisholdt(x.bok, x.k, h) /\ KronerAv(DOMAIN x.bok.poster, x.k, h)
  BY <1>6, <1>7, <1>10, InnlestKroner
<1>. QED
  BY <1>2, <1>3, <1>4, <1>5, <1>6, <1>11 DEF KronInv

LEMMA KronKlokke == KronInv /\ Klokke => KronInv'
BY DEF KronInv, Klokke, Prisholdt, KronerAv

\* A poll.
LEMMA KronPoll ==
  ASSUME Ferskt, ForbrukInv, ToppInv, KronInv, Poll
  PROVE  KronInv'
<1>1. PICK prove \in Priser \cup {Ingen}, a \in Avlesninger \cup {Ingen} :
        Lesbar(a) /\ Bokfores(Bokfort(prove, a), prove)
  BY DEF Poll
<1>2. /\ fase = "ledig" /\ naa \in Tikk /\ Holder(bok, k, hel, MndNaa) /\ Viser(k, hel)
      /\ ~ poll.skiftet
  BY DEF ForbrukInv, Poll
<1>3. /\ Bokholdt(bok, k, hel) /\ ToppAv(k, hel) /\ hel.poll \in Tikk /\ hel.poll <= naa
      /\ Prisholdt(bok, k, hel) /\ KronerAv(DOMAIN bok.poster, k, hel)
      /\ Prisholdt(LestBok(lager, kilde), lager.k, lagret) /\ KronerAv({}, lager.k, lagret)
  BY <1>2 DEF ToppInv, KronInv
<1>4. PICK mnd : mnd = MndNaa
  OBVIOUS
<1>5. PICK m : m = k.maned
  OBVIOUS
<1>6. mnd \in Nat /\ m \in Nat /\ m <= mnd
  <2>1. mnd \in Nat
    BY <1>2, <1>4, MndNaaType
  <2>2. m \in Maneder /\ m <= mnd
    BY <1>2, <1>4, <1>5 DEF Holder, FelterOK
  <2>. QED
    BY <2>1, <2>2, ManederNat
<1>7. \A x \in DOMAIN hel.kwh : ManedAv[x] \in Nat /\ ManedAv[x] <= m
  BY <1>2, <1>5, ManedType DEF Holder, Timesplitt
<1>8. Enige(bok, k, hel.kwh, hel.apning, MndNaa)
  <2>1. \A x \in DOMAIN hel.kwh : ManedAv[x] <= mnd
    BY <1>6, <1>7
  <2>. QED
    BY <1>2, <1>4, <2>1 DEF Enige, Holder, Viser
<1>9. PICK s : s = Bokfort(prove, a)
  OBVIOUS
<1>10. PICK sensor : sensor = kilde
  OBVIOUS
<1>11. PICK n \in Tikk : n = naa
  BY <1>2
<1>12. PICK ruter : ruter = NyeRuter(prove, hel.ruter)
  OBVIOUS
<1>13. PICK f0 : f0 = Startsum(k.maned, hel)
  OBVIOUS
<1>14. PICK apning : apning = hel.apning
  OBVIOUS
<1>15. PICK kwh0 : kwh0 = hel.kwh
  OBVIOUS
<1>16. PICK g \in Nat : \E D : DelvisKroner(s, m, apning, kwh0, mnd, g, sensor, n, ruter, f0, D)
  <2>1. k.maned <= MndNaa
    BY <1>4, <1>5, <1>6
  <2>2. \E g \in Nat : \E D :
          DelvisKroner(Bokfort(prove, a), k.maned, hel.apning, hel.kwh, MndNaa, g, kilde, naa,
                       NyeRuter(prove, hel.ruter), Startsum(k.maned, hel), D)
    BY <1>1, <1>2, <1>3, <1>8, <2>1, BokfortKroner
  <2>. QED
    BY <1>4, <1>5, <1>9, <1>10, <1>11, <1>12, <1>13, <1>14, <1>15, <2>2
<1>17. PICK b : b = s.bok
  OBVIOUS
<1>18. PICK kwh : kwh = s.kwh
  OBVIOUS
<1>19. PICK c : c = s.k
  OBVIOUS
<1>20. /\ TellbarBok(b) /\ FelterOK(c) /\ c.maned = m /\ Timesplitt(kwh)
       /\ c.forbruk = Fasit(m, kwh, apning) /\ Postert(b, kwh, g, sensor, mnd, n)
  BY <1>16, <1>17, <1>18, <1>19 DEF DelvisKroner, DelvisTopp, Delvis, Toppvis
<1>21. Postert(b, kwh, Grunntime(b), sensor, mnd, n)
  BY <1>20, PostertGrunntime
<1>22. /\ Sporet(b, kwh, ruter, Time(n) - Lagringsvindu) /\ c.dato = Dogn[Time(n)]
       /\ \A h \in DOMAIN kwh : h \in DOMAIN kwh0 \/ h \in s.timer
       /\ m = mnd => Delkroner(DOMAIN b.poster, c, kwh, ruter, f0, {Time(n)})
       /\ m # mnd => c.dagskost = 0
  BY <1>16, <1>17, <1>18, <1>19 DEF DelvisKroner, Kronevis
<1>23. RuterOK(ruter) /\ apning \in [dag : Nat, natt : Nat]
  <2>1. PICK r : r = hel.ruter
    OBVIOUS
  <2>2. RuterOK(r) /\ apning \in [dag : Nat, natt : Nat]
    BY <1>3, <1>14, <2>1 DEF Prisholdt
  <2>3. RuterOK(NyeRuter(prove, r))
    BY <1>2, <2>2, NyeRuterOK
  <2>. QED
    BY <1>12, <2>1, <2>2, <2>3
<1>24. PICK h : h = NyHel(prove, s.kwh, s.k.maned)
  OBVIOUS
<1>25. h.kwh = kwh /\ h.poll = n /\ h.ruter = ruter /\ h.apning = apning
  BY <1>2, <1>11, <1>12, <1>14, <1>18, <1>24 DEF NyHel, Holder, NyeRuter
<1>26. hel' = h /\ UNCHANGED <<naa, lager, kilde, tariff, lagret, omstarter>>
  BY <1>1, <1>9, <1>24 DEF Bokfores
<1>27. Prisholdt(LestBok(lager, kilde), lager.k, lagret)' /\ KronerAv({}, lager.k, lagret)'
  BY <1>3, <1>26 DEF Prisholdt, KronerAv
<1>28. mnd = ManedAv[Time(n)]
  BY <1>4, <1>11 DEF MndNaa
<1>29. CASE s.k.maned = MndNaa /\ Ferdig(s.bok, s.k, s.timer, s.skitten)
  <2>1. m = mnd /\ c.maned = mnd
    BY <1>4, <1>19, <1>20, <1>29
  <2>2. Bokholdt(b, c, h)
    BY <1>10, <1>21, <1>25, <2>1 DEF Bokholdt
  <2>3. Prisholdt(b, c, h)
    BY <1>22, <1>23, <1>25, <1>28, <2>1 DEF Prisholdt
  <2>4. Viser(c, h)
    BY <1>20, <1>25 DEF Viser
  <2>5. f0 = Startsum(c.maned, h)
    BY <1>5, <1>13, <1>14, <1>20, <1>25 DEF Startsum
  <2>6. PICK timer : timer = s.timer
    OBVIOUS
  <2>7. PICK skitten : skitten = s.skitten
    OBVIOUS
  <2>8. Ferdig(b, c, timer, skitten)
    BY <1>17, <1>19, <1>29, <2>6, <2>7
  <2>9. PICK S : S = {Time(n)}
    OBVIOUS
  <2>10. S \subseteq timer \cup {Time(naa)}
    BY <1>11, <2>9
  <2>11. Delkroner(DOMAIN b.poster, c, h.kwh, h.ruter, Startsum(c.maned, h), S)
    BY <1>22, <1>25, <2>1, <2>5, <2>9
  <2>12. Timesplitt(h.kwh)
    BY <1>20, <1>25
  <2>13. Prisholdt(bok', k', h) /\ KronerAv(DOMAIN bok'.poster, k', h)
    BY <1>20, <2>2, <2>3, <2>4, <2>8, <2>10, <2>11, <2>12, FerdigKroner
  <2>14. Prisholdt(bok, k, hel)' /\ KronerAv(DOMAIN bok.poster, k, hel)'
    BY <1>26, <2>13 DEF Prisholdt, KronerAv
  <2>15. fase' # "skifte"
    BY <2>8 DEF Ferdig
  <2>. QED
    BY <1>27, <2>14, <2>15 DEF KronInv
<1>30. CASE /\ s.k.maned # MndNaa /\ fase' = "skifte" /\ bok' = s.bok /\ k' = Rullert(s.k)
            /\ poll' = [timer |-> s.timer, skitten |-> s.skitten, skiftet |-> FALSE]
  <2>1. PICK r : r = Rullert(c)
    OBVIOUS
  <2>2. /\ r.maned = mnd /\ r.dato = c.dato /\ r.kroner = 0 /\ r.dagskost = c.dagskost
        /\ r.kr = <<>>
    BY <1>4, <1>20, <2>1 DEF Rullert, FelterOK, Minne
  <2>3. m # mnd /\ m < mnd
    BY <1>4, <1>6, <1>19, <1>20, <1>30
  <2>4. Prisholdt(b, r, h)
    BY <1>22, <1>23, <1>25, <1>28, <2>2 DEF Prisholdt
  <2>5. bok' = b /\ k' = r /\ poll'.timer = s.timer
    BY <1>17, <1>19, <1>30, <2>1
  <2>6. Prisholdt(bok, k, hel)'
    BY <1>26, <2>4, <2>5 DEF Prisholdt
  <2>7. IManed(kwh, mnd) \subseteq s.timer
    <3> SUFFICES ASSUME NEW x \in IManed(kwh, mnd) PROVE x \in s.timer
      OBVIOUS
    <3>1. x \in DOMAIN kwh /\ ManedAv[x] = mnd
      BY DEF IManed, Gruppe
    <3>2. x \notin DOMAIN kwh0
      BY <1>6, <1>7, <1>15, <2>3, <3>1
    <3>. QED
      BY <1>22, <3>1, <3>2
  <2>8. IManed(kwh, mnd) \subseteq DOMAIN b.poster
    <3>1. ToppInv'
      BY ToppPoll
    <3>2. \A x \in DOMAIN hel'.kwh : ManedAv[x] = k'.maned => x \in DOMAIN bok'.poster
      BY <1>30, <3>1 DEF ToppInv
    <3>. QED
      BY <1>25, <1>26, <2>2, <2>5, <3>2 DEF IManed, Gruppe
  <2>9. Ulest(DOMAIN b.poster, r, kwh, s.timer)
    <3>1. DOMAIN r.kr = {}
      BY <2>2
    <3>. QED
      BY <1>22, <2>2, <2>3, <2>7, <2>8, <3>1 DEF Ulest
  <2>10. Ulest(DOMAIN bok'.poster, k', hel'.kwh, poll'.timer)
    BY <1>25, <1>26, <2>5, <2>9
  <2>. QED
    BY <1>27, <1>30, <2>6, <2>10 DEF KronInv
<1>. QED
  BY <1>1, <1>9, <1>29, <1>30 DEF Bokfores

\* A month nothing has been booked in costs nothing.
LEMMA UtenEnergiKroner ==
  ASSUME NEW c, NEW kwh, Timesplitt(kwh), NEW ruter, RuterOK(ruter), NEW f0 \in Nat,
         c.kroner = 0, c.dagskost = 0, DOMAIN c.kr = {},
         \A x \in Energifelt : Manedsdel(x, kwh, c.maned) = 0
  PROVE  Delkroner({}, c, kwh, ruter, f0, {})
<1>1. PICK m : m = c.maned
  OBVIOUS
<1>2. PICK T : T = IManed(kwh, m)
  OBVIOUS
<1>3. IsFiniteSet(T) /\ \A x \in T : kwh[x] \in Nat /\ kwh[x] \in Int
  BY <1>2, IManedType
<1>4. SumFunctionOnSet(kwh, T) = 0
  <2>1. /\ Fordelt("total", kwh, T) = SumFunctionOnSet(kwh, T)
        /\ Fordelt("dag", kwh, T) + Fordelt("natt", kwh, T) = SumFunctionOnSet(kwh, T)
        /\ SumFunctionOnSet(kwh, T) \in Nat
    BY <1>3, FordeltDeler
  <2>2. Fordelt("dag", kwh, T) = 0 /\ Fordelt("natt", kwh, T) = 0
    BY <1>1, <1>2, EnergifeltFelt DEF Manedsdel
  <2>. QED
    BY <2>1, <2>2
<1>5. ASSUME NEW x \in T PROVE kwh[x] = 0
  <2>1. PICK R : R = T \ {x}
    OBVIOUS
  <2>2. IsFiniteSet(R) /\ \A y \in R : kwh[y] \in Nat
    BY <1>3, <2>1, FS_Subset
  <2>3. SumFunctionOnSet(kwh, R) \in Nat
    BY <2>2, SumNat
  <2>4. SumFunctionOnSet(kwh, T) = kwh[x] + SumFunctionOnSet(kwh, R)
    BY <1>3, <2>1, SumUten
  <2>. QED
    BY <1>3, <1>4, <2>3, <2>4
<1>6. PICK w : w = Regnet({}, c, kwh, ruter, f0)
  OBVIOUS
<1>7. \A x \in T : w[x] = 0
  <2>1. \A x \in T : Verd(kwh, ruter, m, f0, x) = 0
    BY <1>2, <1>5, VerdType
  <2>. QED
    BY <1>1, <1>2, <1>6, <2>1 DEF Regnet
<1>8. PICK D : D = IDag(kwh, m, c.dato)
  OBVIOUS
<1>9. D \in SUBSET T /\ IsFiniteSet(D)
  BY <1>2, <1>8, IDagType
<1>10. SumFunctionOnSet(w, T) = 0 /\ SumFunctionOnSet(w, D) = 0
  BY <1>3, <1>7, <1>9, SumNull
<1>. QED
  BY <1>1, <1>2, <1>6, <1>8, <1>10 DEF Delkroner

\* The rollover: the hours of the new month are priced, all of them touched by
\* the poll.
LEMMA KronSkifte ==
  ASSUME ForbrukInv, ToppInv, KronInv, MalerenHores, NEW ok \in BOOLEAN, Skifte(ok)
  PROVE  KronInv'
<1>1. /\ fase = "skifte" /\ naa \in Tikk /\ Holder(bok, k, hel, MndNaa)
      /\ Nyapnet(k, hel, MndNaa, poll.skitten) /\ ~ poll.skiftet
  BY DEF ForbrukInv, Skifte
<1>2. /\ Bokholdt(bok, k, hel) /\ hel.poll = naa /\ Prisholdt(bok, k, hel)
      /\ Prisholdt(LestBok(lager, kilde), lager.k, lagret) /\ KronerAv({}, lager.k, lagret)
      /\ Ulest(DOMAIN bok.poster, k, hel.kwh, poll.timer)
  BY <1>1 DEF ToppInv, KronInv
<1>3. bok.sist # Ingen => Time(naa) - Time(bok.sist.tid) <= Lagringsvindu
  BY <1>1 DEF MalerenHores
<1>4. PICK h : h = hel
  OBVIOUS
<1>5. PICK b : b = bok
  OBVIOUS
<1>6. PICK c : c = EtterSkifte
  OBVIOUS
<1>7. PICK skitten : skitten = (poll.skitten \/ NyeTopper(k, c))
  OBVIOUS
<1>8. PICK timer : timer = poll.timer
  OBVIOUS
<1>9. /\ Ferdig(b, c, timer, skitten)
      /\ poll' = [IngenPoll EXCEPT !.skiftet = ok /\ fase' = "lagrer"]
      /\ UNCHANGED <<naa, kilde, tariff, hel, omstarter>>
      /\ lager' = (IF ok THEN Fil ELSE lager) /\ lagret' = (IF ok THEN hel ELSE lagret)
  BY <1>5, <1>6, <1>7, <1>8 DEF Skifte, Skriv
<1>10. fase' \in {"ledig", "lagrer"} /\ (skitten => fase' = "lagrer")
  BY <1>9 DEF Ferdig
<1>11. TellbarBok(b) /\ FelterOK(k) /\ Timesplitt(h.kwh)
  BY <1>1, <1>4, <1>5 DEF Holder
<1>12. PICK k0 : k0 = k
  OBVIOUS
<1>13. PICK c0 : c0 = [k EXCEPT !.forbruk = ForbrukFraBoken(bok, k.maned, Null)]
  OBVIOUS
<1>14. SammeKroner(k0, c)
  <2>1. PICK x : x = ForbrukFraBoken(bok, k.maned, Null)
    OBVIOUS
  <2>2. c0 = [k0 EXCEPT !.forbruk = x] /\ FelterOK(k0)
    BY <1>11, <1>12, <1>13, <2>1
  <2>3. SammeKroner(k0, c0)
    BY <2>2, ForbrukKroner
  <2>4. c = Timesmaks(b, c0)
    BY <1>5, <1>6, <1>13 DEF EtterSkifte
  <2>5. SammeKroner(c0, c)
    BY <2>3, <2>4, TimesmaksKroner DEF SammeKroner
  <2>. QED
    BY <2>3, <2>5, SammeKronerKjede
<1>15. FelterOK(c) /\ c.maned = k.maned /\ c.dato = k.dato
  BY <1>12, <1>14 DEF SammeKroner
<1>16. Viser(c, h)
  <2>1. ForbrukInv'
    BY SkifteSteg
  <2>2. PICK c2 : c2 = Akkumuler(b, c, timer)
    OBVIOUS
  <2>3. SammeForbruk(c, c2)
    BY <1>15, <2>2, AkkumulerForbruk
  <2>4. PICK uker : uker = UtenGamle(c.uke, DatoNaa)
    OBVIOUS
  <2>5. k' = [c2 EXCEPT !.uke = uker]
    BY <1>9, <2>2, <2>4 DEF Ferdig
  <2>6. k'.maned = c.maned /\ k'.forbruk = c.forbruk
    BY <2>3, <2>5 DEF SammeForbruk, FelterOK, Minne
  <2>7. Viser(k, hel)'
    BY <1>10, <2>1 DEF ForbrukInv
  <2>8. hel' = h
    BY <1>4, <1>9
  <2>. QED
    BY <2>6, <2>7, <2>8 DEF Viser
<1>17. Bokholdt(b, c, h) /\ Prisholdt(b, c, h)
  BY <1>2, <1>4, <1>5, <1>15 DEF Bokholdt, Prisholdt
<1>18. PICK kwh : kwh = h.kwh
  OBVIOUS
<1>19. PICK ruter : ruter = h.ruter
  OBVIOUS
<1>20. PICK f0 : f0 = Startsum(k0.maned, h)
  OBVIOUS
<1>21. Delkroner(DOMAIN b.poster, c, kwh, ruter, f0, timer)
  <2>1. PICK P : P = DOMAIN b.poster
    OBVIOUS
  <2>2. Ulest(P, k0, kwh, timer) /\ Timesplitt(kwh)
    BY <1>2, <1>4, <1>5, <1>8, <1>11, <1>12, <1>18, <2>1
  <2>3. Delkroner(P, k0, kwh, ruter, f0, timer)
    BY <2>2, UlestKroner
  <2>4. Delkroner(P, c, kwh, ruter, f0, timer)
    BY <1>14, <2>3, DelkronerSamme
  <2>. QED
    BY <2>1, <2>4
<1>22. Prisholdt(bok', k', h) /\ KronerAv(DOMAIN bok'.poster, k', h)
  <2>1. timer \subseteq timer \cup {Time(naa)}
    OBVIOUS
  <2>2. Delkroner(DOMAIN b.poster, c, h.kwh, h.ruter, Startsum(c.maned, h), timer)
    BY <1>12, <1>15, <1>18, <1>19, <1>20, <1>21
  <2>. QED
    BY <1>9, <1>11, <1>15, <1>16, <1>17, <2>1, <2>2, FerdigKroner
<1>23. Prisholdt(bok, k, hel)' /\ KronerAv(DOMAIN bok.poster, k, hel)'
  BY <1>4, <1>9, <1>22 DEF Prisholdt, KronerAv
<1>24. CASE ~ ok
  <2>1. lager' = lager /\ lagret' = lagret /\ kilde' = kilde
    BY <1>9, <1>24
  <2>2. Prisholdt(LestBok(lager, kilde), lager.k, lagret)' /\ KronerAv({}, lager.k, lagret)'
    BY <1>2, <2>1 DEF Prisholdt, KronerAv
  <2>. QED
    BY <1>10, <1>23, <2>2 DEF KronInv
<1>25. CASE ok
  <2>1. lager' = Fil /\ lagret' = h /\ kilde' = kilde /\ naa' = naa
    BY <1>4, <1>9, <1>25
  <2>2. Prisholdt(LestBok(Fil, kilde), Fil.k, h)
    <3>1. TellbarBok(bok) /\ h.poll = naa /\ Bokholdt(bok, k, h) /\ Prisholdt(bok, k, h)
      BY <1>2, <1>4, <1>5, <1>11
    <3>. QED
      BY <1>1, <1>3, <1>11, <3>1, FilPrisholdt
  <2>3. Prisholdt(LestBok(lager, kilde), lager.k, lagret)'
    <3>1. PICK b2 : b2 = LestBok(Fil, kilde)
      OBVIOUS
    <3>2. PICK c2 : c2 = Fil.k
      OBVIOUS
    <3>3. LestBok(lager', kilde') = b2 /\ lager'.k = c2
      BY <2>1, <3>1, <3>2
    <3>4. Prisholdt(b2, c2, h)
      BY <2>2, <3>1, <3>2
    <3>. QED
      BY <2>1, <3>3, <3>4 DEF Prisholdt
  <2>4. ASSUME ~ poll'.skiftet
        PROVE  KronerAv({}, lager.k, lagret)'
    <3>1. fase' # "lagrer"
      BY <1>9, <1>25, <2>4 DEF IngenPoll
    <3>2. \A x \in Energifelt : Manedsdel(x, kwh, k0.maned) = 0
      BY <1>1, <1>4, <1>7, <1>10, <1>12, <1>18, <3>1 DEF Nyapnet
    <3>3. PICK c2 : c2 = [k0 EXCEPT !.kr = <<>>]
      OBVIOUS
    <3>4. /\ c2.maned = k0.maned /\ c2.kroner = 0 /\ c2.dagskost = 0 /\ c2.kr = <<>>
      BY <1>2, <1>11, <1>12, <3>3 DEF Ulest, FelterOK, Minne
    <3>5. DOMAIN c2.kr = {}
      BY <3>4
    <3>6. f0 \in Nat /\ RuterOK(ruter) /\ Timesplitt(kwh)
      BY <1>11, <1>17, <1>18, <1>19, <1>20, StartsumNat DEF Prisholdt
    <3>7. Delkroner({}, c2, kwh, ruter, f0, {})
      BY <3>2, <3>4, <3>5, <3>6, UtenEnergiKroner
    <3>8. lager'.k = c2
      BY <1>12, <2>1, <3>3 DEF Fil
    <3>. QED
      BY <1>18, <1>19, <1>20, <2>1, <3>4, <3>7, <3>8 DEF KronerAv
  <2>. QED
    BY <1>10, <1>23, <2>3, <2>4 DEF KronInv
<1>. QED
  BY <1>24, <1>25

\* The save at the end of the poll.
LEMMA KronSlutt ==
  ASSUME ~ FeilIMellom, ForbrukInv, ToppInv, KronInv, MalerenHores, NEW ok \in BOOLEAN, Slutt(ok)
  PROVE  KronInv'
<1>1. /\ fase = "lagrer" /\ naa \in Tikk /\ Holder(bok, k, hel, MndNaa)
  BY DEF ForbrukInv, Slutt
<1>2. /\ Bokholdt(bok, k, hel) /\ hel.poll = naa /\ Prisholdt(bok, k, hel)
      /\ Prisholdt(LestBok(lager, kilde), lager.k, lagret)
      /\ KronerAv(DOMAIN bok.poster, k, hel)
      /\ ~ poll.skiftet => KronerAv({}, lager.k, lagret)
  BY <1>1 DEF ToppInv, KronInv
<1>3. bok.sist # Ingen => Time(naa) - Time(bok.sist.tid) <= Lagringsvindu
  BY <1>1 DEF MalerenHores
<1>4. /\ ok \/ ~ poll.skiftet
      /\ lager' = (IF ok THEN Fil ELSE lager) /\ lagret' = (IF ok THEN hel ELSE lagret)
      /\ bok' = Oppdater(bok) /\ fase' = "ledig" /\ poll' = IngenPoll
      /\ UNCHANGED <<naa, k, kilde, tariff, hel, omstarter>>
  BY DEF Slutt, Skriv
<1>5. PICK h : h = hel
  OBVIOUS
<1>6. TellbarBok(bok) /\ FelterOK(k) /\ Timesplitt(h.kwh)
  BY <1>1, <1>5 DEF Holder
<1>7. Prisholdt(bok, k, hel)' /\ KronerAv(DOMAIN bok.poster, k, hel)'
  <2>1. PICK b : b = bok
    OBVIOUS
  <2>2. PICK b2 : b2 = Oppdater(b)
    OBVIOUS
  <2>3. PICK c : c = k
    OBVIOUS
  <2>4. SammeBok(b, b2)
    BY <1>6, <2>1, <2>2, OppdaterBok
  <2>5. Prisholdt(b, c, h) /\ KronerAv(DOMAIN b.poster, c, h)
    BY <1>2, <1>5, <2>1, <2>3
  <2>6. Prisholdt(b2, c, h)
    BY <2>4, <2>5, PrisholdtSamme
  <2>7. KronerAv(DOMAIN b2.poster, c, h)
    BY <2>4, <2>5 DEF SammeBok, SammePostene
  <2>8. bok' = b2 /\ k' = c /\ hel' = h
    BY <1>4, <1>5, <2>1, <2>2, <2>3
  <2>. QED
    BY <2>6, <2>7, <2>8 DEF Prisholdt, KronerAv
<1>8. Prisholdt(LestBok(lager, kilde), lager.k, lagret)' /\ KronerAv({}, lager.k, lagret)'
  <2>1. CASE ~ ok
    BY <1>2, <1>4, <2>1 DEF Prisholdt, KronerAv
  <2>2. CASE ok
    <3>1. lager' = Fil /\ lagret' = h /\ kilde' = kilde /\ naa' = naa
      BY <1>4, <1>5, <2>2
    <3>2. Prisholdt(LestBok(Fil, kilde), Fil.k, h)
      <4>1. TellbarBok(bok) /\ h.poll = naa /\ Bokholdt(bok, k, h) /\ Prisholdt(bok, k, h)
        BY <1>2, <1>5, <1>6
      <4>. QED
        BY <1>1, <1>3, <1>6, <4>1, FilPrisholdt
    <3>3. PICK b2 : b2 = LestBok(Fil, kilde)
      OBVIOUS
    <3>4. PICK c2 : c2 = Fil.k
      OBVIOUS
    <3>5. Prisholdt(b2, c2, h) /\ LestBok(lager', kilde') = b2 /\ lager'.k = c2
      BY <3>1, <3>2, <3>3, <3>4
    <3>6. KronerAv({}, c2, h)
      <4>1. PICK c : c = k
        OBVIOUS
      <4>2. PICK P : P = DOMAIN bok.poster
        OBVIOUS
      <4>3. PICK kwh : kwh = h.kwh
        OBVIOUS
      <4>4. PICK ruter : ruter = h.ruter
        OBVIOUS
      <4>5. PICK f0 : f0 = Startsum(c.maned, h)
        OBVIOUS
      <4>6. FelterOK(c) /\ Delkroner(P, c, kwh, ruter, f0, {})
        BY <1>2, <1>5, <1>6, <4>1, <4>2, <4>3, <4>4, <4>5 DEF KronerAv
      <4>7. LET r == [c EXCEPT !.kr = <<>>]
            IN  r.maned = c.maned /\ Delkroner({}, r, kwh, ruter, f0, {})
        BY <4>6, FilKroner
      <4>8. c2 = [c EXCEPT !.kr = <<>>]
        BY <3>4, <4>1 DEF Fil
      <4>. QED
        BY <4>3, <4>4, <4>5, <4>7, <4>8 DEF KronerAv
    <3>. QED
      BY <3>1, <3>5, <3>6 DEF Prisholdt, KronerAv
  <2>. QED
    BY <2>1, <2>2
<1>. QED
  BY <1>4, <1>7, <1>8 DEF KronInv

\* A restart.
LEMMA KronKrasj ==
  ASSUME ~ FeilIMellom, ForbrukInv, ToppInv, KronInv, Krasj
  PROVE  KronInv'
<1>1. PICK l : l = lager
  OBVIOUS
<1>2. PICK h : h = lagret
  OBVIOUS
<1>3. PICK sensor : sensor = kilde
  OBVIOUS
<1>4. PICK x : x = Innlest(l, sensor)
  OBVIOUS
<1>5. PICK b : b = LestBok(l, sensor)
  OBVIOUS
<1>6. PICK c : c = l.k
  OBVIOUS
<1>7. ~ poll.skiftet
  BY DEF Krasj
<1>8. /\ TellbarBok(b) /\ FelterOK(c) /\ Timesplitt(h.kwh) /\ Viser(c, h)
      /\ Bokholdt(b, c, h) /\ Prisholdt(b, c, h) /\ KronerAv({}, c, h)
  BY <1>1, <1>2, <1>3, <1>5, <1>6, <1>7 DEF ForbrukInv, Holder, ToppInv, KronInv
<1>9. /\ bok' = x.bok /\ k' = x.k /\ fase' = "ledig" /\ poll' = IngenPoll /\ hel' = h
      /\ UNCHANGED <<naa, lager, kilde, lagret>>
  BY <1>1, <1>2, <1>3, <1>4 DEF Krasj
<1>10. PICK g : g = Grunntime(b)
  OBVIOUS
<1>11. PICK n : n = h.poll
  OBVIOUS
<1>12. Postert(b, h.kwh, g, sensor, c.maned, n)
  BY <1>3, <1>8, <1>10, <1>11 DEF Bokholdt
<1>13. Prisholdt(x.bok, x.k, h) /\ KronerAv(DOMAIN x.bok.poster, x.k, h)
  <2>1. /\ TellbarBok(LestBok(l, sensor)) /\ FelterOK(l.k) /\ Prisholdt(LestBok(l, sensor), l.k, h)
        /\ Viser(l.k, h) /\ Postert(LestBok(l, sensor), h.kwh, g, sensor, l.k.maned, n)
        /\ KronerAv({}, l.k, h)
    BY <1>5, <1>6, <1>8, <1>12
  <2>2. LET y == Innlest(l, sensor)
        IN  Prisholdt(y.bok, y.k, h) /\ KronerAv(DOMAIN y.bok.poster, y.k, h)
    BY <1>8, <2>1, InnlestKroner
  <2>. QED
    BY <1>4, <2>2
<1>14. PICK b2 : b2 = x.bok
  OBVIOUS
<1>15. PICK c2 : c2 = x.k
  OBVIOUS
<1>16. Prisholdt(bok, k, hel)' /\ KronerAv(DOMAIN bok.poster, k, hel)'
  BY <1>9, <1>13, <1>14, <1>15 DEF Prisholdt, KronerAv
<1>17. Prisholdt(LestBok(lager, kilde), lager.k, lagret)' /\ KronerAv({}, lager.k, lagret)'
  BY <1>1, <1>2, <1>3, <1>5, <1>6, <1>8, <1>9 DEF Prisholdt, KronerAv
<1>. QED
  BY <1>9, <1>16, <1>17 DEF KronInv

LEMMA KronSteg ==
  ASSUME ~ FeilIMellom, Ferskt
  PROVE  ForbrukInv /\ ToppInv /\ KronInv /\ MalerenHores /\ [Next]_vars => KronInv'
<1> SUFFICES ASSUME ForbrukInv, ToppInv, KronInv, MalerenHores, [Next]_vars PROVE KronInv'
  OBVIOUS
<1>1. CASE Klokke
  BY <1>1, KronKlokke
<1>2. CASE Poll
  BY <1>2, KronPoll
<1>3. ASSUME NEW ok \in BOOLEAN, Skifte(ok) PROVE KronInv'
  BY <1>3, KronSkifte
<1>4. ASSUME NEW ok \in BOOLEAN, Slutt(ok) PROVE KronInv'
  BY <1>4, KronSlutt
<1>5. CASE Krasj
  BY <1>5, KronKrasj
<1>6. CASE UNCHANGED vars
  BY <1>6 DEF vars, KronInv, Prisholdt, KronerAv
<1>. QED
  BY <1>1, <1>2, <1>3, <1>4, <1>5, <1>6 DEF Next

\* The sums of the properties.
LEMMA FasitKronerSum ==
  ASSUME NEW m, NEW S, IsFiniteSet(S)
  PROVE  FasitKroner(m, S)
           = SumFunctionOnSet([x \in S |-> Verd(hel.kwh, hel.ruter, m, Startsum(m, hel), x)], S)
<1> DEFINE E(x) == Kr(hel.kwh[x], Prisintervall(hel.ruter, x),
                      SumKwh(Apning(m)) + Sum(hel.kwh, {g \in TimerI(m) : g < x}))
           v == [x \in S |-> E(x)]
           P(q) == q = [s \in SUBSET S |-> IF s = {} THEN 0
                          ELSE E(CHOOSE x \in s : TRUE) + q[s \ {CHOOSE x \in s : TRUE}]]
<1>1. PICK g : ErSum(g, v, S)
  BY SumFinnes
<1>2. \A s \in SUBSET S : s # {} => (CHOOSE x \in s : TRUE) \in S
  OBVIOUS
<1>3. \A q : P(q) <=> ErSum(q, v, S)
  <2> HIDE DEF E
  <2>. QED
    BY <1>2 DEF ErSum, Valgt
<1>4. FasitKroner(m, S) = (CHOOSE q : P(q))[S]
  BY DEF FasitKroner, MapThenSumSet, MapThenFoldSet
<1>5. \A x \in S : E(x) = Verd(hel.kwh, hel.ruter, m, Startsum(m, hel), x)
  <2> SUFFICES ASSUME NEW x \in S PROVE E(x) = Verd(hel.kwh, hel.ruter, m, Startsum(m, hel), x)
    OBVIOUS
  <2>1. PICK U : U = {y \in TimerI(m) : y < x}
    OBVIOUS
  <2>2. U = {y \in IManed(hel.kwh, m) : y < x}
    BY <2>1 DEF TimerI, IManed, Gruppe
  <2>3. Sum(hel.kwh, U) = SumFunctionOnSet(hel.kwh, U)
    BY MapTilSum DEF Sum
  <2>4. Startsum(m, hel) = SumKwh(Apning(m))
    BY DEF Startsum, Apning, Balanse
  <2>. QED
    BY <2>1, <2>2, <2>3, <2>4 DEF Verd, Foran
<1> HIDE DEF P, E
<1>6. ErSum(CHOOSE q : P(q), v, S)
  BY <1>1, <1>3
<1>7. FasitKroner(m, S) = SumFunctionOnSet(v, S)
  BY <1>4, <1>6, SumVerdi
<1>8. v = [x \in S |-> Verd(hel.kwh, hel.ruter, m, Startsum(m, hel), x)]
  BY <1>5
<1>. QED
  BY <1>7, <1>8

LEMMA KronerFasit ==
  ASSUME NEW P, NEW c, NEW kwh, Timesplitt(kwh), NEW ruter, RuterOK(ruter), NEW f0 \in Nat,
         Delkroner(P, c, kwh, ruter, f0, {})
  PROVE  LET m == c.maned
             T == IManed(kwh, m)
             D == IDag(kwh, m, c.dato)
         IN  /\ c.kroner = SumFunctionOnSet([x \in T |-> Verd(kwh, ruter, m, f0, x)], T)
             /\ c.dagskost = SumFunctionOnSet([x \in D |-> Verd(kwh, ruter, m, f0, x)], D)
<1>1. PICK m : m = c.maned
  OBVIOUS
<1>2. PICK T : T = IManed(kwh, m)
  OBVIOUS
<1>3. PICK D : D = IDag(kwh, m, c.dato)
  OBVIOUS
<1>4. PICK w : w = Regnet(P, c, kwh, ruter, f0)
  OBVIOUS
<1>5. PICK v : v = [x \in T |-> Verd(kwh, ruter, m, f0, x)]
  OBVIOUS
<1>6. PICK u : u = [x \in D |-> Verd(kwh, ruter, m, f0, x)]
  OBVIOUS
<1>7. IsFiniteSet(T) /\ IsFiniteSet(D) /\ D \in SUBSET T
  BY <1>2, <1>3, IManedType, IDagType
<1>8. c.kroner = SumFunctionOnSet(w, T) /\ c.dagskost = SumFunctionOnSet(w, D)
  BY <1>1, <1>2, <1>3, <1>4 DEF Delkroner
<1>9. \A x \in T : w[x] = Verd(kwh, ruter, m, f0, x)
  BY <1>1, <1>2, <1>4 DEF Delkroner, Regnet, Gitt
<1>10. \A x \in T : Verd(kwh, ruter, m, f0, x) \in Int
  BY <1>2, VerdType
<1>11. \A x \in T : w[x] \in Int /\ v[x] = w[x]
  BY <1>5, <1>9, <1>10
<1>12. \A x \in D : w[x] \in Int /\ u[x] = w[x]
  BY <1>6, <1>7, <1>9, <1>10
<1>13. SumFunctionOnSet(v, T) = SumFunctionOnSet(w, T)
  BY <1>7, <1>11, SumLik
<1>14. SumFunctionOnSet(u, D) = SumFunctionOnSet(w, D)
  BY <1>7, <1>12, SumLik
<1>. QED
  BY <1>1, <1>2, <1>3, <1>5, <1>6, <1>8, <1>13, <1>14

LEMMA KronerLedig ==
  ASSUME ForbrukInv, KronInv, Ledig
  PROVE  /\ k.kroner = FasitKroner(k.maned, TimerI(k.maned))
         /\ k.dagskost = FasitKroner(k.maned, {h \in TimerI(k.maned) : Dogn[h] = k.dato})
<1>1. PICK h : h = hel
  OBVIOUS
<1>2. PICK c : c = k
  OBVIOUS
<1>3. PICK P : P = DOMAIN bok.poster
  OBVIOUS
<1>4. PICK kwh : kwh = h.kwh
  OBVIOUS
<1>5. PICK ruter : ruter = h.ruter
  OBVIOUS
<1>6. PICK f0 : f0 = Startsum(c.maned, h)
  OBVIOUS
<1>7. /\ Timesplitt(kwh) /\ RuterOK(ruter) /\ f0 \in Nat
      /\ Delkroner(P, c, kwh, ruter, f0, {})
  <2>1. Prisholdt(bok, c, h) /\ KronerAv(P, c, h) /\ Timesplitt(kwh)
    BY <1>1, <1>2, <1>3, <1>4 DEF ForbrukInv, Holder, KronInv, Ledig
  <2>. QED
    BY <1>4, <1>5, <1>6, <2>1, StartsumNat DEF Prisholdt, KronerAv
<1>8. PICK m : m = c.maned
  OBVIOUS
<1>9. PICK T : T = TimerI(m)
  OBVIOUS
<1>10. PICK D : D = {x \in TimerI(m) : Dogn[x] = c.dato}
  OBVIOUS
<1>11. T = IManed(kwh, m) /\ D = IDag(kwh, m, c.dato)
  BY <1>1, <1>4, <1>9, <1>10 DEF TimerI, IManed, Gruppe, IDag
<1>12. IsFiniteSet(T) /\ IsFiniteSet(D)
  BY <1>7, <1>11, IManedType, IDagType
<1>13. LET n == c.maned
           U == IManed(kwh, n)
           E == IDag(kwh, n, c.dato)
       IN  /\ c.kroner = SumFunctionOnSet([x \in U |-> Verd(kwh, ruter, n, f0, x)], U)
           /\ c.dagskost = SumFunctionOnSet([x \in E |-> Verd(kwh, ruter, n, f0, x)], E)
  BY <1>7, KronerFasit
<1>14. /\ FasitKroner(m, T) = SumFunctionOnSet([x \in T |-> Verd(hel.kwh, hel.ruter, m, Startsum(m, hel), x)], T)
       /\ FasitKroner(m, D) = SumFunctionOnSet([x \in D |-> Verd(hel.kwh, hel.ruter, m, Startsum(m, hel), x)], D)
  BY <1>12, FasitKronerSum
<1>. QED
  BY <1>1, <1>2, <1>4, <1>5, <1>6, <1>8, <1>9, <1>10, <1>11, <1>13, <1>14

\* The kroner of the month are those of its energy, each interval once, at the
\* price of its own hour and at its own place under the support cap, after every
\* poll, whatever the readings and the samples, the month boundaries, the failed
\* writes and the restarts: as long as the two writes of a poll that turns the
\* month stand or fall together, nothing is written after the meter has been
\* silent for longer than the window a write keeps, and a reading that is polled
\* is no older than that window.
THEOREM KroneneFolgerEnergien ==
  ASSUME ~ FeilIMellom, Ferskt
  PROVE  Spec /\ []MalerenHores => []KronerFolgerEnergien
<1>1. Init => ForbrukInv /\ ToppInv /\ KronInv
  BY ForbrukInit, ToppInit, KronInit
<1>2. ForbrukInv /\ ToppInv /\ KronInv /\ MalerenHores /\ [Next]_vars =>
        ForbrukInv' /\ ToppInv' /\ KronInv'
  BY ForbrukSteg, ToppSteg, KronSteg
<1>3. ForbrukInv /\ KronInv => KronerFolgerEnergien
  BY KronerLedig DEF KronerFolgerEnergien
<1>. QED
  BY <1>1, <1>2, <1>3, PTL DEF Spec

\* The cost of the day is that of the day's own intervals, under the same
\* conditions.
THEOREM DagskostenFolgerDagen ==
  ASSUME ~ FeilIMellom, Ferskt
  PROVE  Spec /\ []MalerenHores => []DagskostForDagen
<1>1. Init => ForbrukInv /\ ToppInv /\ KronInv
  BY ForbrukInit, ToppInit, KronInit
<1>2. ForbrukInv /\ ToppInv /\ KronInv /\ MalerenHores /\ [Next]_vars =>
        ForbrukInv' /\ ToppInv' /\ KronInv'
  BY ForbrukSteg, ToppSteg, KronSteg
<1>3. ForbrukInv /\ KronInv => DagskostForDagen
  BY KronerLedig DEF DagskostForDagen
<1>. QED
  BY <1>1, <1>2, <1>3, PTL DEF Spec

-----------------------------------------------------------------------------
(***************************************************************************)
(* The book's caches.                                                      *)
(***************************************************************************)

\* No poll, write or restart leaves a cached interval or a running sum behind that
\* a rebuild would give otherwise, whatever the clock, the month boundaries, the
\* samples and the late readings, as long as the two writes of a poll that turns
\* the month stand or fall together.
THEOREM CachenHolderSegFersk ==
  ASSUME ~ FeilIMellom
  PROVE  Spec => []CacheErFersk
<1>1. Init => ForbrukInv
  BY ForbrukInit
<1>2. ForbrukInv /\ [Next]_vars => ForbrukInv'
  BY ForbrukSteg
<1>3. ForbrukInv => CacheErFersk
  BY DEF ForbrukInv, Holder, TellbarBok, BokInv, CacheErFersk
<1>. QED
  BY <1>1, <1>2, <1>3, PTL DEF Spec

-----------------------------------------------------------------------------
(***************************************************************************)
(* The price of an hour that is over.                                      *)
(***************************************************************************)

\* The routes of the month that c keeps, and of later ones, are those of b.
RuterStaar(b, c) ==
  \A r \in Ruter : (c.aktiv # Ingen => c.aktiv <= ManedAv[TimeForRute(r)]) =>
                     SammeRute(c.ruter, b.ruter, r)

\* The poll's variables between two parts, after b took the sample.
Uroert(s, b) ==
  DOMAIN s = {"bok", "k", "timer", "skitten", "kwh"} /\ TellbarBok(s.bok) /\ RuterStaar(b, s.bok)

\* A kept hour has the price it has in b.
SammePriser(b, c) ==
  \A h \in DOMAIN c.poster : Prisintervall(c.ruter, h) = Prisintervall(b.ruter, h)

LEMMA EnDelUroert ==
  ASSUME NEW s, NEW b, Uroert(s, b), NEW a, a # Ingen, a.tid \in Tikk, a.verdi \in Int,
         NEW balanse
  PROVE  Uroert(EnDel(s, a, balanse), b)
<1>1. PICK e0 : e0 = s.bok
  OBVIOUS
<1>2. TellbarBok(e0) /\ RuterStaar(b, e0)
  BY <1>1 DEF Uroert
<1>3. PICK svar : svar = Bokfor(e0, a)
  OBVIOUS
<1>4. PICK e : e = svar.bok
  OBVIOUS
<1>5. TellbarBok(e)
  <2>1. GodtSvar(e0, Bokfor(e0, a), a.tid)
    BY <1>2, BokforSvar
  <2>. QED
    BY <1>3, <1>4, <2>1 DEF GodtSvar
<1>6. Skritt(e0, a, e, svar.fordeling)
  <2>1. LET u == Bokfor(e0, a) IN Skritt(e0, a, u.bok, u.fordeling)
    BY <1>2, BokforSkritt
  <2>. QED
    BY <1>3, <1>4, <2>1
<1>7. PICK c : c = Foring(s, svar, balanse)
  OBVIOUS
<1>8. PICK l : l = Lest(e, c.maned)
  OBVIOUS
<1>9. TellbarBok(l) /\ l.aktiv = e.aktiv /\ l.ruter = e.ruter
  <2>1. SammeManeder(e, Lest(e, c.maned)) /\ SammeBok(e, Lest(e, c.maned))
    BY <1>5, LestManeder, LestSammeBok
  <2>. QED
    BY <1>8, <2>1 DEF SammeManeder, SammeBok, SammePostene
<1>10. PICK r : r = EnDel(s, a, balanse)
  OBVIOUS
<1>11. DOMAIN r = {"bok", "k", "timer", "skitten", "kwh"} /\ r.bok = l
  <2>1. r = MedDel(s, svar, c)
    BY <1>1, <1>3, <1>7, <1>10 DEF EnDel, MedSvar
  <2>. QED
    BY <1>4, <1>8, <2>1 DEF MedDel
<1>12. ASSUME NEW x \in Ruter, e.aktiv # Ingen => e.aktiv <= ManedAv[TimeForRute(x)]
       PROVE  SammeRute(e.ruter, b.ruter, x)
  <2>1. SammeRute(e.ruter, e0.ruter, x)
    BY <1>6, <1>12 DEF Skritt
  <2>2. e0.aktiv # Ingen => e0.aktiv <= ManedAv[TimeForRute(x)]
    <3> SUFFICES ASSUME e0.aktiv # Ingen PROVE e0.aktiv <= ManedAv[TimeForRute(x)]
      OBVIOUS
    <3>1. e.aktiv # Ingen /\ e0.aktiv <= e.aktiv
      BY <1>6 DEF Skritt
    <3>2. e0.aktiv \in Nat /\ e.aktiv \in Nat
      BY <1>2, <1>5, <3>1, ManederNat DEF TellbarBok, BokInv, StrukturOK
    <3>3. ManedAv[TimeForRute(x)] \in Nat
      BY TimeForRuteType, ManedType
    <3>. QED
      BY <1>12, <3>1, <3>2, <3>3
  <2>3. SammeRute(e0.ruter, b.ruter, x)
    BY <1>2, <2>2 DEF RuterStaar
  <2>. QED
    BY <2>1, <2>3 DEF SammeRute
<1>13. RuterStaar(b, l)
  BY <1>9, <1>12 DEF RuterStaar
<1>. QED
  BY <1>9, <1>10, <1>11, <1>13 DEF Uroert

LEMMA LopUroert ==
  ASSUME NEW S, Heltall(S), NEW deler, NEW balanse, NEW start, NEW b, Uroert(start, b),
         \A t \in S : \A s : Uroert(s, b) => Uroert(EnDel(s, deler[t], balanse), b)
  PROVE  Uroert(Lopet(deler, balanse, start, S), b)
<1>1. PICK e : ErLop(e, deler, balanse, start, S) /\ Lopet(deler, balanse, start, S) = e[S]
  BY LopVerdi
<1> DEFINE G == {T \in SUBSET S : Uroert(e[T], b)}
<1>2. ASSUME NEW T \in SUBSET S, \A U \in SUBSET T : U # T => U \in G
      PROVE  T \in G
  <2>1. CASE T = {}
    BY <1>1, <2>1 DEF ErLop
  <2>2. CASE T # {}
    <3>1. Max(T) \in T
      BY <2>2, HeltallDel
    <3>2. T \ {Max(T)} \in G
      BY <1>2, <3>1
    <3>3. e[T] = EnDel(e[T \ {Max(T)}], deler[Max(T)], balanse)
      BY <1>1, <2>2 DEF ErLop
    <3>. QED
      BY <3>1, <3>2, <3>3
  <2>. QED
    BY <2>1, <2>2
<1>3. S \in G
  <2>1. IsFiniteSet(S)
    BY DEF Heltall
  <2> HIDE DEF G
  <2>. QED
    BY <1>2, <2>1, DelmengdeInduksjon
<1>. QED
  BY <1>1, <1>3

\* Unmoved routes give a kept hour its price.
LEMMA UroertPris ==
  ASSUME NEW b, DOMAIN b.ruter \subseteq Ruter, NEW c, TellbarBok(c), RuterStaar(b, c)
  PROVE  SammePriser(b, c)
<1>1. ASSUME NEW h \in DOMAIN c.poster
      PROVE  Prisintervall(c.ruter, h) = Prisintervall(b.ruter, h)
  <2>1. ManedAv[h] = c.aktiv /\ h \in Timer /\ DOMAIN c.ruter \subseteq Ruter
    BY DEF TellbarBok, BokInv, StrukturOK
  <2>2. ManedAv[h] <= ManedAv[h]
    BY <2>1, ManedType
  <2>3. \A r \in Ruter : TimeForRute(r) = h => SammeRute(c.ruter, b.ruter, r)
    BY <2>1, <2>2 DEF RuterStaar
  <2>4. {r \in DOMAIN c.ruter : TimeForRute(r) = h} = {r \in DOMAIN b.ruter : TimeForRute(r) = h}
    BY <2>1, <2>3 DEF SammeRute
  <2>5. \A r \in DOMAIN c.ruter : TimeForRute(r) = h => c.ruter[r] = b.ruter[r]
    BY <2>1, <2>3 DEF SammeRute
  <2>. QED
    BY <2>4, <2>5 DEF Prisintervall
<1>. QED
  BY <1>1 DEF SammePriser

\* An hour that is over is not the hour of the clock.
LEMMA OverErIkkeNaa ==
  ASSUME NEW t \in Tikk, NEW h, (h + 1) * TikkPerTime <= t
  PROVE  h # Time(t)
<1>1. PICK x \in Nat : x = Time(t)
  BY TimeType, TidAssumption DEF Timer
<1>2. PICK d \in Nat \ {0} : d = TikkPerTime
  BY TidAssumption DEF TikkPerTime
<1>3. t \in Nat
  BY TikkHel
<1>4. t < (x + 1) * d
  BY <1>1, <1>2, <1>3 DEF Time
<1>5. ASSUME h = x PROVE FALSE
  <2>1. (x + 1) * d <= t
    BY <1>2, <1>5
  <2>2. (x + 1) * d \in Nat
    BY <1>2
  <2>. QED
    BY <1>3, <1>4, <2>1, <2>2
<1>. QED
  BY <1>1, <1>5

\* The sample of a poll leaves the price of every other hour alone.
LEMMA ProvePris ==
  ASSUME naa \in Tikk, NEW b, TellbarBok(b), NEW prove
  PROVE  LET c == ProvetBok(prove, b)
         IN  /\ TellbarBok(c) /\ DOMAIN c.ruter \subseteq Ruter
             /\ \A h : h # Time(naa) => Prisintervall(c.ruter, h) = Prisintervall(b.ruter, h)
<1>1. PICK c : c = ProvetBok(prove, b)
  OBVIOUS
<1>2. PICK p : p = [polltid |-> naa, verdi |-> prove]
  OBVIOUS
<1>3. TellbarBok(c)
  <2>1. p.polltid \in Tikk
    BY <1>2
  <2>2. TellbarBok(RegistrerPrisprove(b, p))
    BY <2>1, PrisproveManeder DEF SammeManeder
  <2>. QED
    BY <1>1, <1>2, <2>2 DEF ProvetBok
<1>4. c.ruter = NyeRuter(prove, b.ruter)
  BY <1>1, ProvetRuter
<1>5. TimeForRute(Rute(p.polltid)) = Time(naa)
  BY <1>2, RutensEgenTime
<1>6. \A h : h # Time(naa) => Prisintervall(Registrer(b.ruter, p), h) = Prisintervall(b.ruter, h)
  BY <1>5, RegistrerAndreTimer
<1>7. DOMAIN c.ruter \subseteq Ruter
  BY <1>3 DEF TellbarBok, BokInv, StrukturOK
<1>8. \A h : h # Time(naa) => Prisintervall(c.ruter, h) = Prisintervall(b.ruter, h)
  BY <1>2, <1>4, <1>6 DEF NyeRuter
<1>. QED
  BY <1>1, <1>3, <1>7, <1>8

LEMMA BokfortUroert ==
  ASSUME naa \in Tikk, TellbarBok(bok), NEW prove, NEW a \in Avlesninger \cup {Ingen}
  PROVE  Uroert(Bokfort(prove, a), ProvetBok(prove, bok))
<1>1. PICK b : b = ProvetBok(prove, bok)
  OBVIOUS
<1>2. TellbarBok(b)
  <2>1. LET u == ProvetBok(prove, bok) IN TellbarBok(u)
    BY ProvePris
  <2>. QED
    BY <1>1, <2>1
<1>3. PICK c : c = DagensFelter(k)
  OBVIOUS
<1>4. PICK balanse : balanse = Aapningsbalanse(b, c)
  OBVIOUS
<1>5. PICK deler : deler = Deler(b, a)
  OBVIOUS
<1>6. /\ Heltall(DOMAIN deler)
      /\ \A t \in DOMAIN deler : /\ deler[t] # Ingen /\ deler[t].tid = t /\ t \in Tikk
                                 /\ deler[t].verdi \in Int
  <2>1. b.sist # Ingen => b.sist.tid \in Tikk /\ b.sist.verdi \in Int
    BY <1>2 DEF TellbarBok, BokInv, StrukturOK
  <2>2. /\ Heltall(DOMAIN Deler(b, a))
        /\ \A t \in DOMAIN Deler(b, a) :
              /\ a # Ingen /\ t \in Tikk /\ t <= a.tid
              /\ Deler(b, a)[t].tid = t /\ Deler(b, a)[t].verdi \in Int
    BY <2>1, DelerType
  <2>3. ASSUME NEW t \in DOMAIN Deler(b, a)
        PROVE  Deler(b, a)[t] # Ingen
    <3>1. a \in Avlesninger
      BY <2>2
    <3>2. LET p == Deler(b, a)[t]
          IN  p.kilde = a.kilde /\ (p.tid \in Int /\ p.verdi \in Int => p # Ingen)
      BY <3>1, DelerKilde
    <3>3. PICK p : p = Deler(b, a)[t]
      OBVIOUS
    <3>4. t \in Tikk /\ p.tid = t /\ p.verdi \in Int
      BY <2>2, <3>3
    <3>5. p.tid \in Int
      BY <3>4, TikkHel
    <3>. QED
      BY <3>2, <3>3, <3>4, <3>5
  <2>. QED
    BY <1>5, <2>2, <2>3
<1>7. PICK start : start = [bok |-> Lest(b, c.maned), k |-> c, timer |-> {},
                            skitten |-> FALSE, kwh |-> hel.kwh]
  OBVIOUS
<1>8. Uroert(start, b)
  <2>1. PICK l : l = Lest(b, c.maned)
    OBVIOUS
  <2>2. SammeManeder(b, Lest(b, c.maned)) /\ SammeBok(b, Lest(b, c.maned))
    BY <1>2, LestManeder, LestSammeBok
  <2>3. TellbarBok(l) /\ l.ruter = b.ruter
    BY <2>1, <2>2 DEF SammeManeder, SammeBok
  <2>4. start.bok = l /\ DOMAIN start = {"bok", "k", "timer", "skitten", "kwh"}
    BY <1>7, <2>1
  <2>. QED
    BY <2>3, <2>4 DEF Uroert, RuterStaar, SammeRute
<1>9. \A t \in DOMAIN deler : \A s : Uroert(s, b) => Uroert(EnDel(s, deler[t], balanse), b)
  <2> SUFFICES ASSUME NEW t \in DOMAIN deler, NEW s, Uroert(s, b)
               PROVE  Uroert(EnDel(s, deler[t], balanse), b)
    OBVIOUS
  <2>1. deler[t] # Ingen /\ deler[t].tid \in Tikk /\ deler[t].verdi \in Int
    BY <1>6
  <2>. QED
    BY <2>1, EnDelUroert
<1>10. PICK s : s = Lopet(deler, balanse, start, DOMAIN deler)
  OBVIOUS
<1>11. Uroert(s, b)
  <2>1. PICK S : S = DOMAIN deler
    OBVIOUS
  <2>2. Uroert(Lopet(deler, balanse, start, S), b)
    BY <1>6, <1>8, <1>9, <2>1, LopUroert
  <2>. QED
    BY <1>10, <2>1, <2>2
<1>12. PICK r : r = Avsluttet(s)
  OBVIOUS
<1>13. DOMAIN r = DOMAIN s /\ r.bok = s.bok
  BY <1>11, <1>12 DEF Avsluttet, MedTimesmaks, Uroert
<1>14. Bokfort(prove, a) = r
  <2>1. Bokfort(prove, a) = AlleDeler(b, c, deler, balanse)
    BY <1>1, <1>3, <1>4, <1>5 DEF Bokfort, ProvetBok, DagensFelter
  <2>. QED
    BY <1>7, <1>10, <1>12, <2>1, AlleDelerUtfoldet
<1>. QED
  BY <1>1, <1>11, <1>13, <1>14 DEF Uroert

\* The hours that are over at an instant have in c the price they have in b.
PrisStaar(b, c, t) ==
  \A h \in DOMAIN b.poster \cap DOMAIN c.poster :
    (h + 1) * TikkPerTime <= t => Prisintervall(c.ruter, h) = Prisintervall(b.ruter, h)

\* A poll.
LEMMA PollPris ==
  ASSUME ForbrukInv, Poll
  PROVE  PrisStaar(bok, bok', naa)
<1>1. PICK prove \in Priser \cup {Ingen}, a \in Avlesninger \cup {Ingen} :
        Lesbar(a) /\ Bokfores(Bokfort(prove, a), prove)
  BY DEF Poll
<1>2. naa \in Tikk /\ TellbarBok(bok)
  BY DEF ForbrukInv, Holder
<1>3. PICK s : s = Bokfort(prove, a)
  OBVIOUS
<1>4. PICK b : b = ProvetBok(prove, bok)
  OBVIOUS
<1>5. /\ DOMAIN b.ruter \subseteq Ruter
      /\ \A h : h # Time(naa) => Prisintervall(b.ruter, h) = Prisintervall(bok.ruter, h)
  <2>1. PICK b0 : b0 = bok
    OBVIOUS
  <2>2. LET c == ProvetBok(prove, b0)
        IN  /\ TellbarBok(c) /\ DOMAIN c.ruter \subseteq Ruter
            /\ \A h : h # Time(naa) => Prisintervall(c.ruter, h) = Prisintervall(b0.ruter, h)
    BY <1>2, <2>1, ProvePris
  <2>. QED
    BY <1>4, <2>1, <2>2
<1>6. Uroert(s, b)
  BY <1>2, <1>3, <1>4, BokfortUroert
<1>7. PICK e : e = s.bok
  OBVIOUS
<1>8. TellbarBok(e) /\ SammePriser(b, e)
  BY <1>5, <1>6, <1>7, UroertPris DEF Uroert
<1>9. bok'.poster = e.poster /\ bok'.ruter = e.ruter
  <2>1. bok' = e \/ bok' = Bygd(Oppdater(e))
    BY <1>1, <1>3, <1>7 DEF Bokfores, Ferdig
  <2>2. SammeBok(e, Oppdater(e)) /\ TellbarBok(Oppdater(e))
    BY <1>8, OppdaterBok, OppdaterManeder DEF SammeManeder
  <2>3. PICK o : o = Oppdater(e)
    OBVIOUS
  <2>4. SammeBok(o, Bygd(o))
    BY <2>2, <2>3, BygdBok
  <2>. QED
    BY <2>1, <2>2, <2>3, <2>4 DEF SammeBok, SammePostene
<1>10. ASSUME NEW h \in DOMAIN bok'.poster, (h + 1) * TikkPerTime <= naa
       PROVE  Prisintervall(bok'.ruter, h) = Prisintervall(bok.ruter, h)
  <2>1. Prisintervall(e.ruter, h) = Prisintervall(b.ruter, h)
    BY <1>8, <1>9, <1>10 DEF SammePriser
  <2>2. h # Time(naa)
    BY <1>2, <1>10, OverErIkkeNaa
  <2>. QED
    BY <1>5, <1>9, <2>1, <2>2
<1>. QED
  BY <1>10 DEF PrisStaar

\* Every other step that is not a restart leaves the routes alone.
LEMMA StillePris ==
  ASSUME ForbrukInv,
         Klokke \/ (\E ok \in BOOLEAN : Skifte(ok) \/ Slutt(ok)) \/ UNCHANGED vars
  PROVE  PrisStaar(bok, bok', naa)
<1>1. PICK b : b = bok
  OBVIOUS
<1>2. PICK o : o = Oppdater(b)
  OBVIOUS
<1>3. bok' \in {b, o, Bygd(o)}
  BY <1>1, <1>2 DEF Klokke, Skifte, Slutt, Ferdig, vars
<1>4. TellbarBok(b)
  BY <1>1 DEF ForbrukInv, Holder
<1>5. TellbarBok(o) /\ SammeBok(b, o)
  BY <1>2, <1>4, OppdaterBok, OppdaterManeder DEF SammeManeder
<1>6. SammeBok(o, Bygd(o))
  BY <1>5, BygdBok
<1>7. bok'.ruter = bok.ruter
  BY <1>1, <1>3, <1>5, <1>6 DEF SammeBok
<1>. QED
  BY <1>7 DEF PrisStaar

PrisInv == ForbrukInv /\ omstarter \in Nat

LEMMA PrisSteg ==
  ASSUME ~ FeilIMellom
  PROVE  PrisInv /\ [Next]_vars =>
           PrisInv' /\ (omstarter' = omstarter => PrisStaar(bok, bok', naa))
<1> SUFFICES ASSUME PrisInv, [Next]_vars
             PROVE  PrisInv' /\ (omstarter' = omstarter => PrisStaar(bok, bok', naa))
  OBVIOUS
<1>1. ForbrukInv /\ omstarter \in Nat
  BY DEF PrisInv
<1>2. ForbrukInv'
  BY <1>1, ForbrukSteg
<1>3. omstarter' \in Nat
  BY <1>1 DEF Next, vars, Klokke, Poll, Bokfores, Skifte, Slutt, Krasj
<1>4. ASSUME omstarter' = omstarter PROVE PrisStaar(bok, bok', naa)
  <2>1. ~ Krasj
    BY <1>1, <1>4 DEF Krasj
  <2>. QED
    BY <1>1, <2>1, PollPris, StillePris DEF Next
<1>. QED
  BY <1>2, <1>3, <1>4 DEF PrisInv

\* The price of an hour that is over is fixed while the program runs: whatever is
\* sampled and booked after its end, and however the reading that brings its last
\* energy is cut at a month boundary, the hour is settled at the samples it had.
THEOREM PrisenHolderSegFast ==
  ASSUME ~ FeilIMellom
  PROVE  Spec => PrisStaarFast
<1>1. Init => PrisInv
  BY ForbrukInit DEF Init, PrisInv
<1>2. PrisInv /\ [Next]_vars => PrisInv' /\ (omstarter' = omstarter => PrisStaar(bok, bok', naa))
  BY PrisSteg
<1>3. (omstarter' = omstarter => PrisStaar(bok, bok', naa)) =>
        (omstarter' = omstarter =>
           \A h \in DOMAIN bok.poster \cap DOMAIN bok'.poster :
             (h + 1) * TikkPerTime <= naa =>
               Prisintervall(bok'.ruter, h) = Prisintervall(bok.ruter, h))
  BY DEF PrisStaar
<1>. QED
  BY <1>1, <1>2, <1>3, PTL DEF Spec, PrisStaarFast

=============================================================================

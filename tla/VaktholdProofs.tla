--------------------------- MODULE VaktholdProofs ---------------------------
(***************************************************************************)
(* The safety of the watchdog for any inputs, limits, poll intervals and   *)
(* restarts.  The three properties follow from one inductive invariant,    *)
(* IInv: the clocks the code keeps never run ahead of the hours a process  *)
(* was up, in memory and in the file, and the memory of the issues is      *)
(* either empty and unsynchronised or what the registry shows.             *)
(***************************************************************************)
EXTENDS Vakthold, TLAPS

\* The frozen clock counts hours some process was up.
KlokkenErVaaket ==
  /\ okning # Ingen => okning <= vaaket
  /\ lager # Ingen => (lager.observert # Ingen => lager.observert <= lager.vaaket)

\* The registry is what the memory says, from the first poll of a process.
MinnetErRegisteret ==
  /\ problemer # Ingen => synket /\ varsler = problemer /\ register = problemer
  /\ problemer = Ingen => ~ synket /\ varsler = IngenVarsler

\* No input has been without a number for longer than this process has run.
FristenErOppe ==
  /\ problemer = Ingen => sistGyldig = [r \in Rolle |-> Ingen]
  /\ problemer # Ingen => \A r \in Rolle : sistGyldig[r] # Ingen /\ sistGyldig[r] <= oppe

IInv ==
  TypeOK /\ KlokkenErVaaket /\ MinnetErRegisteret /\ FristenErOppe
    /\ IngenFalskFrossen /\ IngenAlarmVedOppstart

USE VaktholdAssumption

\* A clock that has run stays within its limit and in its order.
LEMMA EldreType ==
  ASSUME NEW a, NEW d \in Nat, NEW g \in Nat, a \in (0 .. g) \cup {Ingen}
  PROVE  Eldre(a, d, g) \in (0 .. g) \cup {Ingen} /\ (a # Ingen => Eldre(a, d, g) \in 0 .. g)
BY DEF Eldre

LEMMA EldreFolger ==
  ASSUME NEW g \in Nat, NEW a \in 0 .. g, NEW b \in 0 .. g, NEW d \in Nat, a <= b
  PROVE  Eldre(a, d, g) <= Eldre(b, d, g)
<1>1. a # Ingen /\ b # Ingen
  OBVIOUS
<1> QED BY <1>1 DEF Eldre

\* Init gives the invariant.
LEMMA StartOK == Init => IInv
<1> SUFFICES ASSUME Init PROVE IInv
  OBVIOUS
<1>1. TypeOK
  <2>1. verden \in Verdener
    BY DEF Init, Verdener, Svar, Feil
  <2>2. varsler \in [Sort -> SUBSET Rolle] /\ register \in [Sort -> SUBSET Rolle]
    BY DEF Init, IngenVarsler
  <2>3. vaaket \in Telleralder /\ oppe \in Fristalder /\ slag \in 0 .. 1
    BY DEF Init, Telleralder, Fristalder
  <2> QED BY <2>1, <2>2, <2>3 DEF Init, TypeOK
<1>2. KlokkenErVaaket
  BY DEF Init, KlokkenErVaaket
<1>3. MinnetErRegisteret
  BY DEF Init, MinnetErRegisteret
<1>4. FristenErOppe
  BY DEF Init, FristenErOppe
<1>5. IngenFalskFrossen /\ IngenAlarmVedOppstart
  BY DEF Init, IngenFalskFrossen, IngenAlarmVedOppstart
<1> QED BY <1>1, <1>2, <1>3, <1>4, <1>5 DEF IInv

\* The rows of a poll are inputs, sort by sort.
LEMMA ProblemerType ==
  ASSUME NEW d PROVE Problemer(d) \in [Sort -> SUBSET Rolle]
<1>1. IUtfall \subseteq Rolle
  BY DEF IUtfall
<1> DEFINE u == IUtfall \ (IF SpotErUtlopt THEN {Spotpris} ELSE {})
           f == IF ErFrossen(d) THEN {Energi} ELSE {}
           s == IF SpotErUtlopt THEN {Spotpris} ELSE {}
           e == {r \in Rolle : verden'[r] = "enhet"}
<1>2. u \in SUBSET Rolle
  BY <1>1
<1>3. f \in SUBSET Rolle
  OBVIOUS
<1>4. s \in SUBSET Rolle
  OBVIOUS
<1>5. e \in SUBSET Rolle
  OBVIOUS
<1>6. Problemer(d) = [utfall |-> u, frossen |-> f, spot_utlopt |-> s, enhet |-> e]
  BY DEF Problemer
<1> HIDE DEF u, f, s, e
<1>7. [utfall |-> u, frossen |-> f, spot_utlopt |-> s, enhet |-> e] \in [Sort -> SUBSET Rolle]
  BY <1>2, <1>3, <1>4, <1>5 DEF Sort
<1> QED BY <1>6, <1>7

\* A poll keeps the types.
LEMMA PollType ==
  ASSUME IInv, NEW d \in Opphold, Poll(d) PROVE TypeOK'
<1>d. d \in Nat
  OBVIOUS
<1> USE DEF IInv, TypeOK
<1>1. sistGyldig' \in [Rolle -> Fristalder \cup {Ingen}]
  <2> SUFFICES ASSUME NEW r \in Rolle PROVE SistGyldig(d, r) \in Fristalder \cup {Ingen}
    BY DEF Poll
  <2>1. sistGyldig[r] \in (0 .. Grace + 1) \cup {Ingen} /\ Grace + 1 \in Nat
    BY DEF Fristalder
  <2>2. Eldre(sistGyldig[r], d, Grace + 1) \in (0 .. Grace + 1) \cup {Ingen}
    BY <1>d, <2>1, EldreType
  <2>3. 0 \in Fristalder
    BY DEF Fristalder
  <2> QED BY <2>2, <2>3 DEF SistGyldig, Fristalder
<1>2. spotpris' \in Prisalder \cup {Ingen}
  <2>1. Cache \in Nat /\ spotpris \in (0 .. Cache) \cup {Ingen}
    BY DEF Prisalder
  <2>2. Eldre(spotpris, d, Cache) \in (0 .. Cache) \cup {Ingen}
    BY <1>d, <2>1, EldreType
  <2> QED BY <2>2 DEF Poll, Prisalder
<1>3. OkningBokfort(d) \in Telleralder \cup {Ingen}
  <2>1. Terskel + 1 \in Nat /\ okning \in (0 .. Terskel + 1) \cup {Ingen}
    BY DEF Telleralder
  <2>2. Eldre(okning, d, Terskel + 1) \in (0 .. Terskel + 1) \cup {Ingen}
    BY <1>d, <2>1, EldreType
  <2>3. 0 \in Telleralder
    BY DEF Telleralder
  <2> QED BY <2>2, <2>3 DEF OkningBokfort, Telleralder
<1>4. okning' \in Telleralder \cup {Ingen}
  BY <1>3 DEF Poll, OkningEtter, OkningVurdert, Telleralder
<1>5. vaaket' \in Telleralder
  <2>1. Terskel + 1 \in Nat /\ vaaket \in 0 .. Terskel + 1 /\ vaaket # Ingen
    BY DEF Telleralder
  <2>2. Eldre(vaaket, d, Terskel + 1) \in 0 .. Terskel + 1
    BY <1>d, <2>1, EldreType
  <2>3. 0 \in Telleralder
    BY DEF Telleralder
  <2> QED BY <2>2, <2>3 DEF Poll, Telleralder
<1>6. oppe' \in Fristalder
  <2>1. Grace + 1 \in Nat /\ oppe \in 0 .. Grace + 1 /\ oppe # Ingen
    BY DEF Fristalder
  <2>2. Eldre(oppe, d, Grace + 1) \in 0 .. Grace + 1
    BY <1>d, <2>1, EldreType
  <2>3. 0 \in Fristalder
    BY DEF Fristalder
  <2> QED BY <2>2, <2>3 DEF Poll, Fristalder
<1>7. utfallAktiv' \subseteq Rolle
  BY DEF Poll, IUtfall
<1>8. verden' \in Verdener /\ baseline' \in BOOLEAN /\ synket' \in BOOLEAN /\ slag' \in 0 .. 1
  BY DEF Poll
<1>9. problemer' \in [Sort -> SUBSET Rolle] /\ varsler' \in [Sort -> SUBSET Rolle]
  BY ProblemerType DEF Poll
<1>10. register' \in [Sort -> SUBSET Rolle]
  <2>1. register' = Register(problemer')
    BY DEF Poll
  <2> QED BY <1>9, <2>1 DEF Register
<1>11. lager' \in [observert : Telleralder \cup {Ingen}, baseline : BOOLEAN,
                   vaaket : Telleralder] \cup {Ingen}
  <2>1. lager' \in {lager, SomLagret(OkningBokfort(d)), SomLagret(okning')}
    BY DEF Poll
  <2> QED BY <1>3, <1>4, <1>5, <1>8, <2>1 DEF SomLagret
<1> QED BY <1>1, <1>2, <1>4, <1>5, <1>6, <1>7, <1>8, <1>9, <1>10, <1>11

\* A poll keeps the clock behind the hours the process was up, and calls the
\* meter frozen by that clock.
LEMMA PollKlokke ==
  ASSUME IInv, NEW d \in Opphold, Poll(d)
  PROVE  KlokkenErVaaket' /\ IngenFalskFrossen'
<1>d. d \in Nat
  OBVIOUS
<1>t. TypeOK /\ TypeOK' /\ KlokkenErVaaket
  BY PollType DEF IInv
<1>1. ASSUME OkningBokfort(d) # Ingen PROVE OkningBokfort(d) <= vaaket'
  <2>1. CASE Bokfort
    BY <2>1 DEF Poll, OkningBokfort
  <2>2. CASE ~ Bokfort
    <3>1. okning # Ingen
      BY <1>1, <2>2 DEF OkningBokfort, Eldre
    <3>2. Terskel + 1 \in Nat /\ okning \in 0 .. Terskel + 1 /\ vaaket \in 0 .. Terskel + 1
          /\ okning <= vaaket
      BY <1>t, <3>1 DEF TypeOK, Telleralder, KlokkenErVaaket
    <3>3. Eldre(okning, d, Terskel + 1) <= Eldre(vaaket, d, Terskel + 1)
      BY <1>d, <3>2, EldreFolger
    <3> QED BY <2>2, <3>3 DEF Poll, OkningBokfort
  <2> QED BY <2>1, <2>2
<1>2. vaaket' \in Nat
  BY <1>t DEF TypeOK, Telleralder
<1>3. ASSUME OkningVurdert(d) # Ingen PROVE OkningVurdert(d) <= vaaket'
  BY <1>1, <1>2, <1>3 DEF OkningVurdert
<1>4. okning' # Ingen => okning' <= vaaket'
  BY <1>2, <1>3 DEF Poll, OkningEtter
<1>5. lager' # Ingen => (lager'.observert # Ingen => lager'.observert <= lager'.vaaket)
  <2>1. lager' \in {lager, SomLagret(OkningBokfort(d)), SomLagret(okning')}
    BY DEF Poll
  <2>2. CASE lager' = lager
    BY <1>t, <2>2 DEF KlokkenErVaaket
  <2>3. CASE lager' = SomLagret(OkningBokfort(d))
    BY <1>1, <2>3 DEF SomLagret
  <2>4. CASE lager' = SomLagret(okning')
    BY <1>4, <2>4 DEF SomLagret
  <2> QED BY <2>1, <2>2, <2>3, <2>4
<1>6. ErFrossen(d) => vaaket' > Terskel
  <2> SUFFICES ASSUME ErFrossen(d) PROVE vaaket' > Terskel
    OBVIOUS
  <2>1. OkningVurdert(d) # Ingen /\ OkningVurdert(d) > Terskel
    BY DEF ErFrossen
  <2>2. OkningVurdert(d) <= vaaket'
    BY <1>3, <2>1
  <2>3. OkningVurdert(d) \in Nat
    BY <1>d, <1>t, <2>1 DEF TypeOK, Telleralder, OkningVurdert, OkningBokfort, Eldre
  <2> QED BY <1>2, <2>1, <2>2, <2>3
<1>7. problemer'.frossen # {} => ErFrossen(d)
  BY DEF Poll, Problemer
<1> QED BY <1>4, <1>5, <1>6, <1>7 DEF KlokkenErVaaket, IngenFalskFrossen

\* A poll measures the grace of each input from its own process.
LEMMA PollFrist ==
  ASSUME IInv, NEW d \in Opphold, Poll(d)
  PROVE  FristenErOppe' /\ IngenAlarmVedOppstart'
<1>d. d \in Nat
  OBVIOUS
<1>t. TypeOK /\ TypeOK' /\ FristenErOppe
  BY PollType DEF IInv
<1>p. problemer' = Problemer(d) /\ problemer' # Ingen
  <2>1. problemer' = Problemer(d)
    BY DEF Poll
  <2> QED BY <2>1, ProblemerType
<1>o. oppe' \in Nat
  BY <1>t DEF TypeOK, Fristalder
<1>1. ASSUME NEW r \in Rolle PROVE sistGyldig'[r] # Ingen /\ sistGyldig'[r] <= oppe'
  <2>1. sistGyldig'[r] = SistGyldig(d, r)
    BY DEF Poll
  <2>2. CASE Gyldig(verden', r) \/ sistGyldig[r] = Ingen
    BY <1>o, <2>1, <2>2 DEF SistGyldig
  <2>3. CASE ~ (Gyldig(verden', r) \/ sistGyldig[r] = Ingen)
    <3>1. problemer # Ingen
      BY <1>t, <2>3 DEF FristenErOppe
    <3>2. Grace + 1 \in Nat /\ sistGyldig[r] \in 0 .. Grace + 1 /\ oppe \in 0 .. Grace + 1
          /\ sistGyldig[r] <= oppe
      BY <1>t, <2>3, <3>1 DEF TypeOK, Fristalder, FristenErOppe
    <3>3. Eldre(sistGyldig[r], d, Grace + 1) <= Eldre(oppe, d, Grace + 1)
      BY <1>d, <3>2, EldreFolger
    <3>4. Eldre(sistGyldig[r], d, Grace + 1) \in 0 .. Grace + 1
      BY <1>d, <2>3, <3>2, EldreType
    <3> QED BY <2>1, <2>3, <3>1, <3>3, <3>4 DEF SistGyldig, Poll
  <2> QED BY <2>2, <2>3
<1>2. ASSUME oppe' <= Grace, NEW r \in Rolle PROVE ~ (sistGyldig'[r] > Grace)
  <2>1. sistGyldig'[r] \in Nat
    BY <1>t, <1>1 DEF TypeOK, Fristalder
  <2> QED BY <1>o, <1>1, <1>2, <2>1
<1>3. ASSUME oppe' <= Grace PROVE IUtfall = {} /\ ~ SpotErUtlopt
  BY <1>2, <1>3 DEF IUtfall, SpotErUtlopt
<1>4. ASSUME oppe' <= Grace PROVE problemer'.utfall = {} /\ problemer'.spot_utlopt = {}
  BY <1>3, <1>4, <1>p DEF Problemer
<1> QED BY <1>1, <1>4, <1>p DEF FristenErOppe, IngenAlarmVedOppstart

\* A poll leaves the memory of the issues and the registry alike.
LEMMA PollRegister ==
  ASSUME IInv, NEW d \in Opphold, Poll(d) PROVE MinnetErRegisteret'
<1>1. problemer' = Problemer(d) /\ varsler' = problemer' /\ synket' = TRUE
      /\ register' = Register(problemer')
  BY DEF Poll
<1>2. problemer' # Ingen
  BY <1>1, ProblemerType
<1>3. problemer' \in [Sort -> SUBSET Rolle]
  BY <1>1, ProblemerType
<1>4. ASSUME NEW s \in Sort PROVE Register(problemer')[s] = problemer'[s]
  <2>1. CASE problemer = Ingen
    BY <2>1 DEF IInv, MinnetErRegisteret, IngenVarsler, Register
  <2>2. CASE problemer # Ingen
    BY <2>2 DEF IInv, MinnetErRegisteret, Register
  <2> QED BY <2>1, <2>2
<1>5. Register(problemer') = problemer'
  <2>1. Register(problemer') = [s \in Sort |-> Register(problemer')[s]]
    BY DEF Register
  <2> QED BY <1>3, <1>4, <2>1
<1> QED BY <1>1, <1>2, <1>5 DEF MinnetErRegisteret

\* A restart or reload keeps the invariant, however long the process was down.
LEMMA OmstartOK ==
  ASSUME IInv, NEW nede, Omstart(nede) PROVE IInv'
<1> USE DEF IInv
<1>1. TypeOK'
  <2>1. okning' \in Telleralder \cup {Ingen} /\ vaaket' \in Telleralder /\ baseline' \in BOOLEAN
    <3>1. 0 \in Telleralder
      BY DEF Telleralder
    <3>2. CASE lager = Ingen
      BY <3>1, <3>2 DEF Omstart, Gjenopptatt
    <3>3. CASE lager # Ingen
      BY <3>3 DEF Omstart, Gjenopptatt, TypeOK
    <3> QED BY <3>2, <3>3
  <2>2. register' \in [Sort -> SUBSET Rolle] /\ varsler' \in [Sort -> SUBSET Rolle]
    BY DEF Omstart, TypeOK, IngenVarsler
  <2> QED BY <2>1, <2>2 DEF Omstart, TypeOK
<1>2. KlokkenErVaaket'
  BY DEF KlokkenErVaaket, Omstart, Gjenopptatt
<1>3. MinnetErRegisteret'
  BY DEF MinnetErRegisteret, Omstart
<1>4. FristenErOppe'
  BY DEF FristenErOppe, Omstart
<1>5. IngenFalskFrossen' /\ IngenAlarmVedOppstart'
  BY DEF IngenFalskFrossen, IngenAlarmVedOppstart, Omstart
<1> QED BY <1>1, <1>2, <1>3, <1>4, <1>5

\* A step that changes nothing keeps it.
LEMMA StilleOK == IInv /\ UNCHANGED vars => IInv'
BY DEF IInv, vars, minne, TypeOK, KlokkenErVaaket, MinnetErRegisteret, FristenErOppe,
       IngenFalskFrossen, IngenAlarmVedOppstart

\* The invariant is inductive.
THEOREM IInvAlltid == Spec => []IInv
<1>1. IInv /\ [Next]_vars => IInv'
  <2> SUFFICES ASSUME IInv, [Next]_vars PROVE IInv'
    OBVIOUS
  <2>1. ASSUME NEW d \in Opphold, Poll(d) PROVE IInv'
    BY <2>1, PollType, PollKlokke, PollFrist, PollRegister DEF IInv
  <2>2. ASSUME NEW nede \in 0 .. MaksNede, Omstart(nede) PROVE IInv'
    BY <2>2, OmstartOK
  <2> QED BY <2>1, <2>2, StilleOK DEF Next
<1> QED BY StartOK, <1>1, PTL DEF Spec

\* Type correctness of the watchdog.
THEOREM VaktholdTypeOK == Spec => []TypeOK
<1>1. IInv => TypeOK
  BY DEF IInv
<1> QED BY <1>1, IInvAlltid, PTL

\* No false frozen meter, in whatever order polls, saves, failed writes and
\* restarts come and however long the process was down (_load_stored_data).
THEOREM FrossenErIkkeFalsk == Spec => []IngenFalskFrossen
<1>1. IInv => IngenFalskFrossen
  BY DEF IInv
<1> QED BY <1>1, IInvAlltid, PTL

\* The registry shows the problems of the last poll (_oppdater_vakthold_issues).
THEOREM RegisteretStemmer == Spec => []VarselStemmer
<1>1. IInv => VarselStemmer
  BY DEF IInv, MinnetErRegisteret, VarselStemmer
<1> QED BY <1>1, IInvAlltid, PTL

\* A start reports nothing that only needs time (_oppdater_vakthold's grace).
THEOREM OppstartErStille == Spec => []IngenAlarmVedOppstart
<1>1. IInv => IngenAlarmVedOppstart
  BY DEF IInv
<1> QED BY <1>1, IInvAlltid, PTL

=============================================================================

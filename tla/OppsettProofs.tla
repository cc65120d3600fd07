---------------------------- MODULE OppsettProofs ----------------------------
(***************************************************************************)
(* The safety of the setup for any entries, companies, mergers and years.  *)
(* The inductive invariant says, of every entry in memory and on disk,     *)
(* that its rate is its company's and that a merged company's entry lost   *)
(* its rate when it was migrated; and of every calendar issue, that it was *)
(* due in the year it was made.                                            *)
(***************************************************************************)
EXTENDS Oppsett, TLAPS

\* A rate is never another company's, and gone before a merger is carried out.
Ordnet(d) ==
  d # Ingen =>
    /\ d.sats \in {Ingen, d.dso}
    /\ d.versjon = 5 /\ d.dso \in Fusjonerte => d.sats = Ingen

DataOrdnet == \A e \in Anlegg : Ordnet(data[e]) /\ Ordnet(disk[e])

\* An entry that is being set up exists; one that is being moved is migrated.
FaseStemmer ==
  \A e \in Anlegg :
    /\ fase[e] # "ute" => data[e] # Ingen
    /\ fase[e] \in {"flytter", "flyttet"} => data[e].versjon = 5 /\ data[e].dso \in Fusjonerte

\* No calendar issue was made before its time.
VarselBegrunnet ==
  \A i \in Varsel : register[i] # Ingen =>
    IF i = Satser THEN register[i].aar > SatserGjelderAar
    ELSE i \in HarNorgespris /\ register[i].aar > NorgesprisSluttAar

IInv == TypeOK /\ DataOrdnet /\ FaseStemmer /\ VarselBegrunnet /\ SatsvaktFolgerLastet

USE OppsettAssumption

\* Init gives the invariant.
LEMMA StartOK == Init => IInv
<1> SUFFICES ASSUME Init PROVE IInv
  OBVIOUS
<1>1. data \in [Anlegg -> Oppforing] /\ \A e \in Anlegg : Oppgradert(data[e])
  BY UtgangspunktAssumption DEF Init
<1>2. fil \in [Nokkel -> Historikk \cup {Ingen}]
  BY DEF Init, Historikk
<1>3. TypeOK
  BY <1>1, <1>2 DEF Init, TypeOK, Fase
<1>4. DataOrdnet
  BY <1>1 DEF Init, DataOrdnet, Ordnet, Oppgradert
<1>5. FaseStemmer /\ VarselBegrunnet
  BY DEF Init, FaseStemmer, VarselBegrunnet
<1>6. SatsvaktFolgerLastet
  BY DEF Init, SatsvaktFolgerLastet, Lastet
<1> QED BY <1>3, <1>4, <1>5, <1>6 DEF IInv

\* A migrated entry is one of schema 5 whose rate is in order.
LEMMA MigrertOrdnet ==
  ASSUME NEW d \in Oppforing, Ordnet(d), d # Ingen, NEW m \in Migrert(d)
  PROVE  m \in Oppforing /\ m.versjon = 5 /\ m.dso = d.dso /\ Ordnet(m)
<1>1. CASE d.versjon = 5
  BY <1>1 DEF Migrert
<1>2. CASE d.versjon # 5
  <2>1. PICK o \in AvledetModus(d) :
          m = [d EXCEPT !.versjon = 5, !.modus = o, !.sats = IF o = "catalog" THEN Ingen ELSE @]
    BY <1>2 DEF Migrert
  <2>2. o \in Modus /\ (d.dso \in Fusjonerte => o = "catalog")
    BY DEF AvledetModus, Modus, Oppforing, Selskap
  <2>3. m \in Oppforing
    BY <2>1, <2>2 DEF Oppforing
  <2>4. m.versjon = 5 /\ m.dso = d.dso /\ m.sats = IF o = "catalog" THEN Ingen ELSE d.sats
    BY <2>1 DEF Oppforing
  <2> QED BY <2>2, <2>3, <2>4 DEF Ordnet
<1> QED BY <1>1, <1>2

\* A check of the calendar leaves only issues that are due.
LEMMA SjekketType ==
  ASSUME TypeOK, VarselBegrunnet
  PROVE  /\ Sjekket \in [Varsel -> Issue \cup {Ingen}]
         /\ \A i \in Varsel : Sjekket[i] # Ingen =>
              IF i = Satser THEN Sjekket[i].aar > SatserGjelderAar
              ELSE i \in HarNorgespris /\ Sjekket[i].aar > NorgesprisSluttAar
<1> SUFFICES ASSUME NEW i \in Varsel
             PROVE  /\ Sjekket[i] \in Issue \cup {Ingen}
                    /\ Sjekket[i] # Ingen =>
                         IF i = Satser THEN Sjekket[i].aar > SatserGjelderAar
                         ELSE i \in HarNorgespris /\ Sjekket[i].aar > NorgesprisSluttAar
  BY DEF Sjekket
<1>1. register[i] \in Issue \cup {Ingen}
  BY DEF TypeOK
<1>2. Reist(register[i]) \in Issue /\ Reist(register[i]).aar = aar
  BY <1>1 DEF Reist, Issue, TypeOK
<1>3. CASE i # Satser /\ i \notin Paa
  BY <1>1, <1>3 DEF Sjekket, VarselBegrunnet
<1>4. CASE ~ (i # Satser /\ i \notin Paa) /\ Gjelder(i)
  BY <1>2, <1>4 DEF Sjekket, Gjelder
<1>5. CASE ~ (i # Satser /\ i \notin Paa) /\ ~ Gjelder(i)
  BY <1>5 DEF Sjekket
<1> QED BY <1>3, <1>4, <1>5

\* What a phase change of one entry to another phase than the loaded ones does.
LEMMA FaseIkkeLastet ==
  ASSUME TypeOK, NEW e \in Anlegg, NEW f \in Fase, f \notin {"lastet", "lukker"},
         fase[e] \notin {"lastet", "lukker"}, fase' = [fase EXCEPT ![e] = f]
  PROVE  fase' \in [Anlegg -> Fase] /\ Lastet' = Lastet
BY DEF TypeOK, Lastet

\* Every step keeps the invariant.
LEMMA StegOK == IInv /\ [Next]_vars => IInv'
<1> SUFFICES ASSUME IInv, [Next]_vars PROVE IInv'
  OBVIOUS
<1> USE DEF IInv
<1>1. ASSUME NEW e \in Anlegg, Start(e) PROVE IInv'
  <2>1. data[e] \in Oppforing /\ data[e] # Ingen /\ Ordnet(data[e])
    BY <1>1 DEF Start, Paa, Finnes, TypeOK, DataOrdnet
  <2>2. PICK d \in Migrert(data[e]) :
          /\ data' = [data EXCEPT ![e] = d]
          /\ fase' = [fase EXCEPT ![e] = IF d.dso \in Fusjonerte THEN "flytter" ELSE "leser"]
    BY <1>1 DEF Start
  <2>3. d \in Oppforing /\ d.versjon = 5 /\ Ordnet(d)
    BY <2>1, MigrertOrdnet
  <2>4. fase' \in [Anlegg -> Fase] /\ Lastet' = Lastet
    BY <1>1, <2>2, FaseIkkeLastet DEF Start, Fase
  <2>5. register' \in [Varsel -> Issue \cup {Ingen}]
    BY <1>1 DEF Start, TypeOK
  <2>6. data' \in [Anlegg -> Oppforing \cup {Ingen}]
    BY <2>2, <2>3 DEF TypeOK
  <2>7. TypeOK'
    BY <1>1, <2>4, <2>5, <2>6 DEF Start, TypeOK
  <2>8. DataOrdnet'
    BY <1>1, <2>2, <2>3 DEF Start, DataOrdnet, Ordnet, TypeOK
  <2>9. d # Ingen
    BY <2>3, UtgangspunktAssumption
  <2>10. FaseStemmer'
    BY <2>2, <2>3, <2>9 DEF FaseStemmer, TypeOK
  <2>11. VarselBegrunnet'
    BY <1>1 DEF Start, VarselBegrunnet
  <2>12. SatsvaktFolgerLastet'
    BY <1>1, <2>4 DEF Start, SatsvaktFolgerLastet
  <2> QED BY <2>7, <2>8, <2>10, <2>11, <2>12
<1>2. ASSUME NEW e \in Anlegg, FlyttFil(e) PROVE IInv'
  <2>1. fase' \in [Anlegg -> Fase] /\ Lastet' = Lastet
    BY <1>2, FaseIkkeLastet DEF FlyttFil, Fase
  <2>2. data[e].dso \in Fusjonerte /\ data[e] # Ingen
    BY <1>2 DEF FlyttFil, FaseStemmer
  <2>3. data[e].dso \in Nokkel /\ Fusjon[data[e].dso] \in Nokkel
    BY <2>2 DEF Nokkel, Selskap
  <2>4. fil' \in [Nokkel -> Historikk \cup {Ingen}]
    BY <1>2, <2>3 DEF FlyttFil, Omdopt, TypeOK
  <2>5. TypeOK'
    BY <1>2, <2>1, <2>4 DEF FlyttFil, TypeOK
  <2>6. DataOrdnet' /\ VarselBegrunnet'
    BY <1>2 DEF FlyttFil, DataOrdnet, Ordnet, VarselBegrunnet
  <2>7. FaseStemmer'
    BY <1>2 DEF FlyttFil, FaseStemmer, TypeOK
  <2>8. SatsvaktFolgerLastet'
    BY <1>2, <2>1 DEF FlyttFil, SatsvaktFolgerLastet
  <2> QED BY <2>5, <2>6, <2>7, <2>8
<1>3. ASSUME NEW e \in Anlegg, Fusjoner(e) PROVE IInv'
  <2>1. fase' \in [Anlegg -> Fase] /\ Lastet' = Lastet
    BY <1>3, FaseIkkeLastet DEF Fusjoner, Fase
  <2>2. data[e] \in Oppforing /\ data[e].versjon = 5 /\ data[e].dso \in Fusjonerte
    BY <1>3 DEF Fusjoner, FaseStemmer, TypeOK
  <2>3. data[e].sats = Ingen
    BY <2>2, UtgangspunktAssumption DEF DataOrdnet, Ordnet
  <2> DEFINE d == [data[e] EXCEPT !.dso = Fusjon[@]]
  <2>4. Fusjon[data[e].dso] \in Katalog
    BY <2>2
  <2>5. d \in Oppforing /\ d.sats = Ingen
    BY <2>2, <2>3, <2>4 DEF Oppforing, Selskap
  <2>6. data' = [data EXCEPT ![e] = d]
    BY <1>3 DEF Fusjoner
  <2> HIDE DEF d
  <2>7. TypeOK'
    BY <1>3, <2>1, <2>5, <2>6 DEF Fusjoner, TypeOK
  <2>8. DataOrdnet'
    BY <1>3, <2>5, <2>6 DEF Fusjoner, DataOrdnet, Ordnet, TypeOK
  <2>9. FaseStemmer'
    BY <1>3, <2>5, <2>6, UtgangspunktAssumption DEF Fusjoner, FaseStemmer, TypeOK
  <2>10. VarselBegrunnet' /\ SatsvaktFolgerLastet'
    BY <1>3, <2>1 DEF Fusjoner, VarselBegrunnet, SatsvaktFolgerLastet
  <2> QED BY <2>7, <2>8, <2>9, <2>10
<1>4. ASSUME NEW e \in Anlegg, Les(e) PROVE IInv'
  <2>1. PICK f \in {"plattform", "leser_gammel"} : fase' = [fase EXCEPT ![e] = f]
    BY <1>4 DEF Les
  <2>2. fase' \in [Anlegg -> Fase] /\ Lastet' = Lastet
    BY <1>4, <2>1, FaseIkkeLastet DEF Les, Fase
  <2>3. fil[e] \in Historikk \cup {Ingen}
    BY DEF TypeOK, Nokkel
  <2>4. TypeOK'
    BY <1>4, <2>2, <2>3 DEF Les, TypeOK
  <2>5. DataOrdnet' /\ VarselBegrunnet'
    BY <1>4 DEF Les, DataOrdnet, Ordnet, VarselBegrunnet
  <2>6. FaseStemmer'
    BY <1>4, <2>1 DEF Les, FaseStemmer, TypeOK
  <2>7. SatsvaktFolgerLastet'
    BY <1>4, <2>2 DEF Les, SatsvaktFolgerLastet
  <2> QED BY <2>4, <2>5, <2>6, <2>7
<1>5. ASSUME NEW e \in Anlegg, LesGammel(e) PROVE IInv'
  <2>1. PICK f \in {"plattform", "lagrer"} : fase' = [fase EXCEPT ![e] = f]
    BY <1>5 DEF LesGammel
  <2>2. fase' \in [Anlegg -> Fase] /\ Lastet' = Lastet
    BY <1>5, <2>1, FaseIkkeLastet DEF LesGammel, Fase
  <2>3. data[e] \in Oppforing
    BY <1>5 DEF LesGammel, FaseStemmer, TypeOK
  <2>4. fil[data[e].dso] \in Historikk \cup {Ingen}
    BY <2>3 DEF TypeOK, Nokkel, Oppforing
  <2>5. hentet' \in [Anlegg -> Historikk \cup {Ingen}]
    BY <1>5, <2>4 DEF LesGammel, TypeOK, Historikk
  <2>6. TypeOK'
    BY <1>5, <2>2, <2>5 DEF LesGammel, TypeOK
  <2>7. DataOrdnet' /\ VarselBegrunnet'
    BY <1>5 DEF LesGammel, DataOrdnet, Ordnet, VarselBegrunnet
  <2>8. FaseStemmer'
    BY <1>5, <2>1 DEF LesGammel, FaseStemmer, TypeOK
  <2>9. SatsvaktFolgerLastet'
    BY <1>5, <2>2 DEF LesGammel, SatsvaktFolgerLastet
  <2> QED BY <2>6, <2>7, <2>8, <2>9
<1>6. ASSUME NEW e \in Anlegg, Lagre(e) \/ Slett(e) PROVE IInv'
  <2>1. PICK f \in {"plattform", "sletter"} : fase' = [fase EXCEPT ![e] = f]
    BY <1>6 DEF Lagre, Slett
  <2>2. fase' \in [Anlegg -> Fase] /\ Lastet' = Lastet
    BY <1>6, <2>1, FaseIkkeLastet DEF Lagre, Slett, Fase
  <2>3. fil' \in [Nokkel -> Historikk \cup {Ingen}]
    BY <1>6 DEF Lagre, Slett, TypeOK
  <2>4. TypeOK'
    BY <1>6, <2>2, <2>3 DEF Lagre, Slett, TypeOK
  <2>5. DataOrdnet' /\ VarselBegrunnet'
    BY <1>6 DEF Lagre, Slett, DataOrdnet, Ordnet, VarselBegrunnet
  <2>6. FaseStemmer'
    BY <1>6, <2>1 DEF Lagre, Slett, FaseStemmer, TypeOK
  <2>7. SatsvaktFolgerLastet'
    BY <1>6, <2>2 DEF Lagre, Slett, SatsvaktFolgerLastet
  <2> QED BY <2>4, <2>5, <2>6, <2>7
<1>7. ASSUME NEW e \in Anlegg, PollLagrer(e) PROVE IInv'
  <2>1. TypeOK'
    BY <1>7 DEF PollLagrer, TypeOK
  <2> QED BY <1>7, <2>1
        DEF PollLagrer, DataOrdnet, Ordnet, FaseStemmer, VarselBegrunnet, SatsvaktFolgerLastet, Lastet
<1>8. ASSUME NEW e \in Anlegg, Ferdig(e) PROVE IInv'
  <2>1. TypeOK'
    BY <1>8, SjekketType DEF Ferdig, TypeOK, Fase
  <2>2. VarselBegrunnet'
    BY <1>8, SjekketType DEF Ferdig, VarselBegrunnet
  <2>3. DataOrdnet' /\ FaseStemmer'
    BY <1>8 DEF Ferdig, DataOrdnet, Ordnet, FaseStemmer, TypeOK
  <2>4. e \in Lastet'
    BY <1>8 DEF Ferdig, Lastet, TypeOK
  <2>5. SatsvaktFolgerLastet'
    BY <1>8, <2>4 DEF Ferdig, SatsvaktFolgerLastet
  <2> QED BY <2>1, <2>2, <2>3, <2>5
<1>9. ASSUME NEW e \in Anlegg, Avslutt(e) PROVE IInv'
  <2>1. TypeOK'
    BY <1>9 DEF Avslutt, TypeOK, Fase
  <2>2. Lastet' = Lastet
    BY <1>9 DEF Avslutt, Lastet, TypeOK
  <2>3. DataOrdnet' /\ FaseStemmer' /\ VarselBegrunnet'
    BY <1>9 DEF Avslutt, DataOrdnet, Ordnet, FaseStemmer, VarselBegrunnet, TypeOK
  <2>4. SatsvaktFolgerLastet'
    BY <1>9, <2>2 DEF Avslutt, SatsvaktFolgerLastet
  <2> QED BY <2>1, <2>3, <2>4
<1>10. ASSUME NEW e \in Anlegg, Lukket(e) PROVE IInv'
  <2>1. vakt' = (Lastet \ {e} # {})
    BY <1>10 DEF Lukket, VaktEtter, SatsvaktFolgerLastet, Lastet, TypeOK
  <2>2. Lastet' = Lastet \ {e}
    BY <1>10 DEF Lukket, Lastet, TypeOK
  <2>3. TypeOK'
    BY <1>10, <2>1 DEF Lukket, TypeOK, Fase
  <2>4. DataOrdnet' /\ FaseStemmer' /\ VarselBegrunnet'
    BY <1>10 DEF Lukket, DataOrdnet, Ordnet, FaseStemmer, VarselBegrunnet, TypeOK
  <2>5. SatsvaktFolgerLastet'
    BY <2>1, <2>2 DEF SatsvaktFolgerLastet
  <2> QED BY <2>3, <2>4, <2>5
<1>11. ASSUME NEW e \in Anlegg, Fjern(e) PROVE IInv'
  <2>1. TypeOK'
    BY <1>11 DEF Fjern, TypeOK
  <2>2. DataOrdnet' /\ FaseStemmer'
    BY <1>11 DEF Fjern, DataOrdnet, Ordnet, FaseStemmer, TypeOK
  <2>3. VarselBegrunnet'
    BY <1>11 DEF Fjern, VarselBegrunnet, TypeOK
  <2>4. SatsvaktFolgerLastet'
    BY <1>11 DEF Fjern, SatsvaktFolgerLastet, Lastet
  <2> QED BY <2>1, <2>2, <2>3, <2>4
<1>12. ASSUME NEW e \in Anlegg, SlaaAvEllerPaa(e) PROVE IInv'
  <2>1. data[e] \in Oppforing /\ data[e] # Ingen
    BY <1>12 DEF SlaaAvEllerPaa, Finnes, TypeOK
  <2> DEFINE d == [data[e] EXCEPT !.paa = ~ @]
  <2>2. d \in Oppforing /\ d.versjon = data[e].versjon /\ d.dso = data[e].dso /\ d.sats = data[e].sats
    BY <2>1 DEF Oppforing
  <2>3. data' = [data EXCEPT ![e] = d]
    BY <1>12 DEF SlaaAvEllerPaa
  <2> HIDE DEF d
  <2>4. TypeOK'
    BY <1>12, <2>2, <2>3 DEF SlaaAvEllerPaa, TypeOK
  <2>5. DataOrdnet'
    BY <1>12, <2>1, <2>2, <2>3 DEF SlaaAvEllerPaa, DataOrdnet, Ordnet, TypeOK
  <2>6. FaseStemmer'
    BY <1>12, <2>2, <2>3, UtgangspunktAssumption DEF SlaaAvEllerPaa, FaseStemmer, TypeOK
  <2>7. VarselBegrunnet' /\ SatsvaktFolgerLastet'
    BY <1>12 DEF SlaaAvEllerPaa, VarselBegrunnet, SatsvaktFolgerLastet, Lastet
  <2> QED BY <2>4, <2>5, <2>6, <2>7
<1>13. ASSUME NEW i \in Varsel, Dempe(i) PROVE IInv'
  <2>1. register[i] \in Issue
    BY <1>13 DEF Dempe, TypeOK
  <2>2. [register[i] EXCEPT !.dempet = TRUE] \in Issue
        /\ [register[i] EXCEPT !.dempet = TRUE].aar = register[i].aar
    BY <2>1 DEF Issue
  <2>3. TypeOK'
    BY <1>13, <2>2 DEF Dempe, TypeOK
  <2>4. VarselBegrunnet'
    BY <1>13, <2>2 DEF Dempe, VarselBegrunnet, TypeOK
  <2>5. DataOrdnet' /\ FaseStemmer' /\ SatsvaktFolgerLastet'
    BY <1>13 DEF Dempe, DataOrdnet, Ordnet, FaseStemmer, SatsvaktFolgerLastet, Lastet
  <2> QED BY <2>3, <2>4, <2>5
<1>14. ASSUME Skriv PROVE IInv'
  <2>1. TypeOK' /\ DataOrdnet'
    BY <1>14 DEF Skriv, TypeOK, DataOrdnet, Ordnet
  <2> QED BY <1>14, <2>1
        DEF Skriv, FaseStemmer, VarselBegrunnet, SatsvaktFolgerLastet, Lastet
<1>15. ASSUME Omstart PROVE IInv'
  <2>1. \A i \in Varsel : register[i] # Ingen =>
          [register[i] EXCEPT !.aktiv = FALSE] \in Issue
          /\ [register[i] EXCEPT !.aktiv = FALSE].aar = register[i].aar
    BY ZenonT(60) DEF TypeOK, Issue
  <2>2. TypeOK'
    BY <1>15, <2>1 DEF Omstart, TypeOK, Fase
  <2>3. VarselBegrunnet'
    BY <1>15, <2>1 DEF Omstart, VarselBegrunnet
  <2>4. DataOrdnet'
    BY <1>15 DEF Omstart, DataOrdnet, Ordnet
  <2>5. FaseStemmer' /\ SatsvaktFolgerLastet'
    BY <1>15 DEF Omstart, FaseStemmer, SatsvaktFolgerLastet, Lastet
  <2> QED BY <2>2, <2>3, <2>4, <2>5
<1>16. ASSUME NyttAar PROVE IInv'
  <2>1. TypeOK'
    BY <1>16 DEF NyttAar, TypeOK
  <2> QED BY <1>16, <2>1
        DEF NyttAar, DataOrdnet, Ordnet, FaseStemmer, VarselBegrunnet, SatsvaktFolgerLastet, Lastet
<1>17. ASSUME Tikk PROVE IInv'
  <2>1. TypeOK' /\ VarselBegrunnet'
    BY <1>17, SjekketType DEF Tikk, TypeOK, VarselBegrunnet
  <2> QED BY <1>17, <2>1
        DEF Tikk, DataOrdnet, Ordnet, FaseStemmer, SatsvaktFolgerLastet, Lastet
<1>18. ASSUME NEW e \in Anlegg, Mislykkes(e) PROVE IInv'
  <2>1. fase' = [fase EXCEPT ![e] = "ute"] /\ fase[e] \notin {"lastet", "lukker"}
    BY <1>18 DEF Mislykkes
  <2>2. fase' \in [Anlegg -> Fase] /\ Lastet' = Lastet
    BY <2>1, FaseIkkeLastet DEF Fase
  <2>3. TypeOK'
    BY <1>18, <2>2 DEF Mislykkes, TypeOK
  <2>4. DataOrdnet' /\ FaseStemmer' /\ VarselBegrunnet'
    BY <1>18 DEF Mislykkes, DataOrdnet, Ordnet, FaseStemmer, VarselBegrunnet, TypeOK
  <2>5. SatsvaktFolgerLastet'
    BY <1>18, <2>2 DEF Mislykkes, SatsvaktFolgerLastet
  <2> QED BY <2>3, <2>4, <2>5
<1>19. ASSUME UNCHANGED vars PROVE IInv'
  BY <1>19 DEF vars, TypeOK, DataOrdnet, Ordnet, FaseStemmer, VarselBegrunnet,
       SatsvaktFolgerLastet, Lastet
<1> QED BY <1>1, <1>2, <1>3, <1>4, <1>5, <1>6, <1>7, <1>8, <1>9, <1>10, <1>11, <1>12, <1>13,
     <1>14, <1>15, <1>16, <1>17, <1>18, <1>19 DEF Next

\* The invariant holds throughout.
LEMMA IInvAlltid == Spec => []IInv
BY StartOK, StegOK, PTL DEF Spec

\* Every variable is of its kind.
THEOREM OppsettTypeOK == Spec => []TypeOK
BY IInvAlltid, PTL DEF IInv

\* The watch runs exactly while an entry is loaded, however many there are.
THEOREM VaktenFolgerAnleggene == Spec => []SatsvaktFolgerLastet
BY IInvAlltid, PTL DEF IInv

\* No loaded entry is charged with another company's rate.
THEOREM SatsenErSelskapets == Spec => []SatsHorerTilSelskapet
<1>1. IInv => SatsHorerTilSelskapet
  BY DEF IInv, DataOrdnet, Ordnet, FaseStemmer, SatsHorerTilSelskapet, Lastet
<1> QED BY <1>1, IInvAlltid, PTL

\* What the user has ignored stays ignored for the year.
THEOREM DempingenVarer == Spec => DempingVarerAaret
<1> DEFINE Demp(i) == register[i] # Ingen /\ register[i].dempet /\ register[i].aar = aar
           Vilkaar(i) == Paa # {} /\ (i # Satser => i \in Finnes /\ i \in Finnes')
           Etter(i) == register'[i] # Ingen /\ register'[i].dempet
           A == \A i \in Varsel :
                  /\ register[i] # Ingen /\ register[i].dempet /\ register[i].aar = aar
                  /\ Paa # {} /\ (i # Satser => i \in Finnes /\ i \in Finnes')
                  => register'[i] # Ingen /\ register'[i].dempet
<1>1. IInv /\ [Next]_vars => [A]_vars
  <2> SUFFICES ASSUME IInv, Next, NEW i \in Varsel, Demp(i), Vilkaar(i) PROVE Etter(i)
    OBVIOUS
  <2>1. register[i] \in Issue
    BY DEF IInv, TypeOK
  <2>2. CASE register' = Sjekket
    <3>1. Gjelder(i) \/ (i # Satser /\ i \notin Paa)
      BY DEF IInv, VarselBegrunnet, Gjelder
    <3>2. Sjekket[i] \in {register[i], Reist(register[i])}
      BY <3>1 DEF Sjekket
    <3>3. Reist(register[i]) = [register[i] EXCEPT !.aktiv = TRUE]
      BY DEF Reist
    <3>4. Reist(register[i]) \in Issue /\ Reist(register[i]).dempet
      BY <2>1, <3>3 DEF Issue
    <3> QED BY <2>2, <3>2, <3>4
  <2>3. CASE \E e \in Anlegg : Start(e)
    BY <2>3 DEF Start, Varsel
  <2>4. CASE \E e \in Anlegg : Fjern(e)
    BY <2>4 DEF Fjern, Finnes, IInv, TypeOK, Varsel
  <2>5. CASE \E j \in Varsel : Dempe(j)
    BY <2>1, <2>5 DEF Dempe, IInv, TypeOK, Issue
  <2>6. CASE Omstart
    <3>1. [register[i] EXCEPT !.aktiv = FALSE] \in Issue
          /\ [register[i] EXCEPT !.aktiv = FALSE].dempet
      BY <2>1 DEF Issue
    <3>2. register'[i] = [register[i] EXCEPT !.aktiv = FALSE]
      BY <2>6 DEF Omstart
    <3> QED BY <3>1, <3>2
  <2>7. CASE UNCHANGED register
    BY <2>7
  <2> QED BY <2>2, <2>3, <2>4, <2>5, <2>6, <2>7
        DEF Next, FlyttFil, Fusjoner, Les, LesGammel, Lagre, Slett, Mislykkes, PollLagrer, Ferdig,
            Avslutt, Lukket, SlaaAvEllerPaa, Skriv, NyttAar, Tikk
<1> QED BY <1>1, IInvAlltid, PTL DEF Spec, DempingVarerAaret

=============================================================================

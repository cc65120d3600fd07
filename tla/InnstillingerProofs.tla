-------------------------- MODULE InnstillingerProofs --------------------------
(***************************************************************************)
(* The safety of the settings, for any companies, entries, sensors and     *)
(* number of dialogs.  The inductive invariant says of an entry under      *)
(* setup what is wanted of a running one: its coordinator was built from   *)
(* the data it has, and the issue of the price unit is what the coordinator *)
(* remembers, less what the user has confirmed.                            *)
(***************************************************************************)
EXTENDS Innstillinger, TLAPS

\* A coordinator under setup, or in use with no reload to come, has the data.
GjelderInv ==
  \A e \in Finnes \ glipp :
    \/ tilstand[e] \in {"starter", "plattformer"}
    \/ tilstand[e] = "lastet" /\ ~ reload[e]
    => gjelder[e] = Gjeldende(data[e])

VarselInv ==
  \A e \in Finnes :
    /\ tilstand[e] = "lastet" /\ ~ reload[e] => varsel[e] = Sjekket(data[e])
    /\ tilstand[e] = "starter" => spurt[e] = Ukjent
    /\ tilstand[e] \in {"plattformer", "lastet"} /\ e \notin foreldet
         => roller[e] = spurt[e].roller \ data[e].bekreftet

IInv == TypeOK /\ OppforingeneStemmer /\ GjelderInv /\ VarselInv

USE KatalogAssumption

-----------------------------------------------------------------------------
(***************************************************************************)
(* What a save, an answer and a new entry leave.                           *)
(***************************************************************************)
\* The rows of a company are rows, and Egendefinert has none.
LEMMA RaderType ==
  /\ \A c \in Selskap : Rader(c) \subseteq Rad
  /\ Rader(Egendefinert) = {}
BY DEF Rader, Rad, Selskap

\* What a form can be sent with.
LEMMA UtfyltType ==
  ASSUME NEW s \in Oppforing, NEW i \in Utfylt(s)
  PROVE  /\ i.dso \in Selskap /\ i.sats \in Sats \cup {Ingen} /\ i.sikring \in Rad \cup {Ingen}
         /\ i.sikring # Ingen => i.sikring \in Rader(s.dso)
         /\ i.trinn \in {"ingen", "lesbar", "ulesbar"}
         /\ s.dso # Egendefinert => i.trinn = "ingen"
         /\ i.effekt \in Effektsensorer /\ i.lev \in BOOLEAN
         /\ i.sats \in Skjemasats(s) \cup {Tastet(i.dso)}
<1>1. s.dso \in Selskap /\ s.sats \in Sats \cup {Ingen}
  BY DEF Oppforing
<1>2. i \in [dso : Stottet \cup {Egendefinert},
             sats : Skjemasats(s) \cup {Tastet(c) : c \in Selskap},
             sikring : IF Rader(s.dso) = {} THEN {Ingen} ELSE Rader(s.dso),
             trinn : IF s.dso = Egendefinert THEN {"ingen", "lesbar", "ulesbar"} ELSE {"ingen"},
             effekt : Effektsensorer, lev : BOOLEAN]
      /\ i.sats \in Skjemasats(s) \cup {Tastet(i.dso)}
  BY DEF Utfylt
<1>3. i.dso \in Selskap
  BY <1>2 DEF Selskap
<1>4. Skjemasats(s) \subseteq Sats \cup {Ingen}
  BY <1>1 DEF Skjemasats, Sats, Listen, Selskap
<1>5. \A c \in Selskap : Tastet(c) \in Sats
  BY DEF Tastet, Sats
<1>6. i.sats \in Sats \cup {Ingen}
  BY <1>2, <1>3, <1>4, <1>5
<1>7. i.sikring \in Rad \cup {Ingen} /\ (i.sikring # Ingen => i.sikring \in Rader(s.dso))
  BY <1>1, <1>2, RaderType
<1> QED BY <1>2, <1>3, <1>6, <1>7

\* A save leaves an entry, and neither confirmations nor the power sensor
\* change but as the form says.
LEMMA NyDataType ==
  ASSUME NEW s \in Oppforing, NEW d \in Oppforing, NEW i \in Utfylt(s)
  PROVE  /\ NyData(i, d) \in Oppforing
         /\ NyData(i, d).bekreftet = d.bekreftet /\ NyData(i, d).effekt = i.effekt
<1> DEFINE a == Avledet(i, d)
           t == Tariff(a, d)
<1>1. /\ a.dso = i.dso /\ a.effekt = i.effekt /\ a.lev = i.lev
      /\ a.sats \in Sats \cup {Ingen} /\ a.sikring \in Rad \cup {Ingen}
      /\ a.trinn \in {"ingen", "lesbar", "ulesbar"}
  <2>1. d.dso \in Selskap /\ d.sats \in Sats \cup {Ingen}
    BY DEF Oppforing
  <2>2. Listen(d.dso) \in Sats
    BY <2>1 DEF Listen, Sats
  <2>3. CASE i.dso = d.dso
    BY <2>3, UtfyltType DEF Avledet
  <2>4. CASE i.dso # d.dso
    BY <2>1, <2>2, <2>4, UtfyltType DEF Avledet, Utfylt
  <2> QED BY <2>3, <2>4
<1>2. /\ t.modus \in {"catalog", "manual", "legacy_unconfirmed"}
      /\ t.sats \in Sats \cup {Ingen}
  BY <1>1 DEF Tariff, Oppforing
<1> HIDE DEF a, t
<1>3. NyData(i, d) = [d EXCEPT !.dso = a.dso, !.modus = t.modus, !.sats = t.sats,
                !.sikring = IF a.dso = d.dso /\ a.sikring = Ingen THEN @ ELSE a.sikring,
                !.trinn = a.trinn, !.effekt = a.effekt, !.lev = a.lev,
                !.sjekket = @ \/ (a.dso # d.dso /\ a.dso = Egendefinert)]
  BY DEF NyData, a, t
<1>4. i.dso \in Selskap /\ i.effekt \in Effektsensorer /\ i.lev \in BOOLEAN
  BY UtfyltType
<1> QED BY <1>1, <1>2, <1>3, <1>4 DEF Oppforing

\* A form drawn from the data it is saved on leaves them in order.
LEMMA NyDataOrdnet ==
  ASSUME NEW d \in Oppforing, Ordnet(d), NEW i \in Utfylt(d)
  PROVE  Ordnet(NyData(i, d))
<1> DEFINE a == Avledet(i, d)
           t == Tariff(a, d)
           n == NyData(i, d)
<1>1. n.dso = a.dso /\ n.modus = t.modus /\ n.sats = t.sats /\ n.trinn = a.trinn
      /\ n.sikring = IF a.dso = d.dso /\ a.sikring = Ingen THEN d.sikring ELSE a.sikring
  BY DEF NyData, Oppforing
<1>2. CASE i.dso = d.dso /\ d.dso = Egendefinert
  <2>1. a = i
    BY <1>2 DEF Avledet
  <2>2. i.sats # Ingen
    BY <1>2, UtfyltType DEF Skjemasats, Tastet, Listen, Sats, Selskap
  <2>3. i.sikring = Ingen
    BY <1>2, UtfyltType, RaderType
  <2> QED BY <1>1, <1>2, <2>1, <2>2, <2>3 DEF Ordnet, Tariff
<1>3. CASE i.dso = d.dso /\ d.dso # Egendefinert
  <2>1. a = i
    BY <1>3 DEF Avledet
  <2>2. i.sats # Ingen => i.sats.av = d.dso /\ i.sats.slag # "katalog"
    BY <1>3, UtfyltType DEF Skjemasats, Tastet, Ordnet
  <2>3. IF i.sats = Ingen THEN t.modus = "catalog" /\ t.sats = Ingen
        ELSE t.modus = "manual" /\ t.sats = i.sats
    BY <1>3, <2>1 DEF Tariff
  <2>4. i.sikring \in Rader(d.dso) \cup {Ingen} /\ i.trinn = "ingen"
    BY <1>3, UtfyltType
  <2> QED BY <1>1, <1>3, <2>1, <2>2, <2>3, <2>4 DEF Ordnet
<1>4. CASE i.dso # d.dso /\ i.dso = Egendefinert
  <2>1. a.dso = Egendefinert /\ a.sikring = Ingen
    BY <1>4, RaderType, UtfyltType DEF Avledet, Utfylt
  <2>2. a.sats # Ingen
    BY <1>4 DEF Avledet, Utfylt, Listen, Sats, Selskap, Oppforing
  <2> QED BY <1>1, <1>4, <2>1, <2>2 DEF Ordnet, Tariff
<1>5. CASE i.dso # d.dso /\ i.dso # Egendefinert
  <2>1. a.dso = i.dso /\ a.sikring \in Rader(i.dso) \cup {Ingen} /\ a.trinn = "ingen"
    BY <1>5 DEF Avledet, Utfylt
  <2>2. t.modus = "catalog" /\ t.sats = Ingen
    BY <1>5, <2>1 DEF Tariff
  <2> QED BY <1>1, <1>5, <2>1, <2>2 DEF Ordnet
<1> QED BY <1>2, <1>3, <1>4, <1>5

\* What each answer writes, and what it leaves.
LEMMA SvartType ==
  ASSUME NEW d \in Oppforing, NEW q \in Sporsmal, NEW n \in Svart(d, q)
  PROVE  /\ n \in Oppforing /\ n.effekt = d.effekt
         /\ n.dso = d.dso /\ n.sikring = d.sikring /\ n.trinn = d.trinn
         /\ q.hva = "tariff" =>
              (n.modus = "catalog" /\ n.sats = Ingen) \/ (n.modus = "manual" /\ n.sats = d.sats)
         /\ q.hva # "tariff" => n.modus = d.modus /\ n.sats = d.sats
         /\ q.hva = "egensats" => n.sjekket = TRUE
<1>1. CASE q.hva = "tariff"
  <2>1. \/ n = [d EXCEPT !.modus = "catalog", !.sats = Ingen]
        \/ n = [d EXCEPT !.modus = "manual"]
    <3>1. Svart(d, q) = {[d EXCEPT !.modus = "catalog", !.sats = Ingen], [d EXCEPT !.modus = "manual"]}
      BY <1>1 DEF Svart
    <3> QED BY <3>1, Zenon
  <2>2. CASE n = [d EXCEPT !.modus = "catalog", !.sats = Ingen]
    BY <1>1, <2>2 DEF Oppforing
  <2>3. CASE n = [d EXCEPT !.modus = "manual"]
    BY <1>1, <2>3 DEF Oppforing
  <2> QED BY <2>1, <2>2, <2>3
<1>2. CASE q.hva = "egensats"
  <2>1. n = [d EXCEPT !.sjekket = TRUE]
    <3>1. Svart(d, q) = {[d EXCEPT !.sjekket = TRUE]}
      BY <1>2 DEF Svart
    <3> QED BY <3>1, Zenon
  <2> QED BY <1>2, <2>1 DEF Oppforing
<1>3. CASE q.hva = "prisenhet"
  <2>1. n = [d EXCEPT !.bekreftet = @ \cup q.roller]
    <3>1. Svart(d, q) = {[d EXCEPT !.bekreftet = @ \cup q.roller]}
      BY <1>3 DEF Svart
    <3> QED BY <3>1, Zenon
  <2>2. d.bekreftet \cup q.roller \in SUBSET Prisroller
    BY DEF Oppforing, Sporsmal
  <2> QED BY <1>3, <2>1, <2>2 DEF Oppforing
<1> QED BY <1>1, <1>2, <1>3 DEF Sporsmal

\* No answer changes the power sensor.
LEMMA SvartEffekt ==
  \A d \in Oppforing, q \in Sporsmal : \A n \in Svart(d, q) : n \in Oppforing /\ n.effekt = d.effekt
BY SvartType, Zenon

\* Only the answer about the price unit adds to what is confirmed.
LEMMA SvartBekreftet ==
  ASSUME NEW d \in Oppforing, NEW q \in Sporsmal, NEW n \in Svart(d, q)
  PROVE  /\ q.hva = "prisenhet" => n.bekreftet = d.bekreftet \cup q.roller
         /\ q.hva # "prisenhet" => n.bekreftet = d.bekreftet
<1>1. CASE q.hva = "prisenhet"
  BY <1>1 DEF Svart, Oppforing
<1>2. CASE q.hva = "tariff"
  BY <1>2 DEF Svart, Oppforing
<1>3. CASE q.hva = "egensats"
  BY <1>3 DEF Svart, Oppforing
<1> QED BY <1>1, <1>2, <1>3 DEF Sporsmal

\* The answer to a question the data ask leaves them in order.
LEMMA SvartOrdnet ==
  ASSUME NEW d \in Oppforing, Ordnet(d), NEW q \in Sporsmal, NEW n \in Svart(d, q),
         q.hva = "tariff" => Bes(d, "tariff")
  PROVE  Ordnet(n)
<1>1. CASE q.hva = "tariff"
  <2>1. d.dso # Egendefinert /\ d.modus = "legacy_unconfirmed"
    BY <1>1 DEF Bes, Ordnet
  <2>2. /\ n.dso = d.dso /\ n.sikring = d.sikring /\ n.trinn = d.trinn
        /\ (n.modus = "catalog" /\ n.sats = Ingen) \/ (n.modus = "manual" /\ n.sats = d.sats)
    BY <1>1, SvartType, ZenonT(60)
  <2> QED BY <2>1, <2>2 DEF Ordnet
<1>2. CASE q.hva # "tariff"
  <2>1. /\ n.dso = d.dso /\ n.sikring = d.sikring /\ n.trinn = d.trinn
        /\ n.modus = d.modus /\ n.sats = d.sats
    BY <1>2, SvartType, ZenonT(60)
  <2> QED BY <2>1 DEF Ordnet
<1> QED BY <1>1, <1>2

\* An answer that changes nothing was to a question the data do not ask.
LEMMA SvartUendret ==
  ASSUME NEW d \in Oppforing, NEW q \in Sporsmal, d \in Svart(d, q)
  PROVE  q.hva \notin Sjekket(d)
<1>1. CASE q.hva = "tariff"
  <2>1. d.modus = "catalog" \/ d.modus = "manual"
    BY <1>1, SvartType, Zenon
  <2> QED BY <1>1, <2>1 DEF Sjekket, Bes
<1>2. CASE q.hva = "egensats"
  <2>1. d.sjekket = TRUE
    BY <1>2, SvartType
  <2> QED BY <1>2, <2>1 DEF Sjekket, Bes
<1>3. CASE q.hva = "prisenhet"
  BY <1>3 DEF Sjekket, Varsel
<1> QED BY <1>1, <1>2, <1>3 DEF Sporsmal

\* A new entry is in order.
LEMMA NyOppforing ==
  ASSUME TypeOK, NEW e \in Anlegg, NEW n \in Flyt,
         NEW sats \in Sats \cup {Ingen}, NEW rad \in Rader(n.dso) \cup {Ingen},
         NEW trinn \in {"ingen", "lesbar"}, Opprett(e, n, sats, rad, trinn),
         IF n.dso = Egendefinert THEN sats # Ingen ELSE sats = Ingen /\ trinn = "ingen"
  PROVE  /\ data[e] = Ingen /\ tilstand[e] = "ute"
         /\ data' \in [Anlegg -> Oppforing \cup {Ingen}]
         /\ \A f \in Anlegg : f # e => data'[f] = data[f]
         /\ data'[e] \in Oppforing /\ Ordnet(data'[e]) /\ data'[e].effekt = n.effekt
<1> DEFINE d == [dso |-> n.dso, modus |-> IF n.dso = Egendefinert THEN "manual" ELSE "catalog",
        sats |-> sats, sikring |-> rad, trinn |-> trinn, effekt |-> n.effekt, lev |-> n.lev,
        sjekket |-> n.dso = Egendefinert, bekreftet |-> {}]
<1>1. n.dso \in Selskap /\ n.effekt \in Effektsensorer /\ n.lev \in BOOLEAN
  BY DEF Flyt, Selskap
<1>2. rad \in Rad \cup {Ingen} /\ (n.dso = Egendefinert => rad = Ingen)
  BY <1>1, RaderType
<1>3. d \in Oppforing
  BY <1>1, <1>2 DEF Oppforing
<1>4. Ordnet(d)
  BY <1>2 DEF Ordnet
<1>5. data' = [data EXCEPT ![e] = d] /\ data[e] = Ingen /\ tilstand[e] = "ute"
  BY DEF Opprett
<1>6. data \in [Anlegg -> Oppforing \cup {Ingen}]
  BY DEF TypeOK
<1> HIDE DEF d
<1>7. d.effekt = n.effekt
  BY DEF d
<1> QED BY <1>3, <1>4, <1>5, <1>6, <1>7

\* The last step of the flow of a new entry creates one that is in order.
LEMMA FullfortOK ==
  ASSUME TypeOK, NEW e \in Anlegg, Fullfor(e)
  PROVE  /\ data[e] = Ingen /\ tilstand[e] = "ute"
         /\ data' \in [Anlegg -> Oppforing \cup {Ingen}]
         /\ \A f \in Anlegg : f # e => data'[f] = data[f]
         /\ data'[e] \in Oppforing /\ Ordnet(data'[e]) /\ data'[e].effekt = ny.effekt
<1>1. ny \in Flyt
  BY DEF Fullfor, TypeOK
<1>2. CASE ny.dso = Egendefinert
  <2>1. PICK sats \in {Tastet(Egendefinert), Listen(Egendefinert)}, trinn \in {"ingen", "lesbar"} :
          Opprett(e, ny, sats, Ingen, trinn)
    BY <1>2 DEF Fullfor
  <2>2. sats \in Sats
    BY DEF Tastet, Listen, Sats, Selskap
  <2>3. sats \in Sats \cup {Ingen} /\ sats # Ingen
    BY <2>2
  <2> QED BY <1>1, <1>2, <2>1, <2>3, NyOppforing
<1>3. CASE ny.dso # Egendefinert
  <2>1. PICK rad \in Rader(ny.dso) : Opprett(e, ny, Ingen, rad, "ingen")
    BY <1>3 DEF Fullfor
  <2> QED BY <1>1, <1>3, <2>1, NyOppforing
<1> QED BY <1>2, <1>3

-----------------------------------------------------------------------------
(***************************************************************************)
(* Every step preserves the invariant.                                     *)
(***************************************************************************)
\* What a save that is accepted does to the entries.
LEMMA LagretType ==
  ASSUME TypeOK, NEW e \in Anlegg, NEW d \in Oppforing, NEW f \in BOOLEAN, Lagre(e, d, f)
  PROVE  /\ data' \in [Anlegg -> Oppforing \cup {Ingen}] /\ data'[e] = d
         /\ \A g \in Anlegg : g # e => data'[g] = data[g] /\ reload'[g] = reload[g]
         /\ reload' \in [Anlegg -> BOOLEAN]
         /\ reload[e] => reload'[e]
         /\ tilstand[e] = "lastet" /\ d # data[e] => reload'[e]
         /\ glipp' \subseteq Anlegg /\ glipp \subseteq glipp' /\ glipp' \subseteq glipp \cup {e}
         /\ tilstand[e] \in {"starter", "plattformer"} /\ d # data[e] => e \in glipp'
<1>1. Reload(e, d, f) \in BOOLEAN
  BY DEF Reload
<1>2. tilstand[e] = "lastet" /\ d # data[e] => Reload(e, d, f)
  BY DEF Reload
<1>3. reload \in [Anlegg -> BOOLEAN] /\ glipp \subseteq Anlegg
      /\ data \in [Anlegg -> Oppforing \cup {Ingen}]
  BY DEF TypeOK
<1> QED BY <1>1, <1>2, <1>3 DEF Lagre

\* Every step leaves every variable of its kind.
LEMMA TypeSteg ==
  ASSUME TypeOK, [Next]_vars
  PROVE  TypeOK'
<1> USE DEF TypeOK
<1>1. \A e \in Anlegg : data[e] # Ingen => data[e] \in Oppforing /\ Gjeldende(data[e]) \in {Gjeldende(d) : d \in Oppforing}
  OBVIOUS
<1>2. Ukjent \in [roller : SUBSET Prisroller, synket : BOOLEAN]
  BY DEF Ukjent
<1>3. ASSUME NEW e \in Anlegg, e \in Finnes, Bygg(e), reload' \in [Anlegg -> BOOLEAN] PROVE TypeOK'
  BY <1>1, <1>2, <1>3 DEF Bygg, Finnes, dialog
<1>4. ASSUME NEW e \in Anlegg, Start(e) PROVE TypeOK'
  BY <1>3, <1>4 DEF Start
<1>5. ASSUME NEW e \in Anlegg, Last(e) PROVE TypeOK'
  <2>1. CASE tilstand[e] = "lastet"
    BY <1>5, <2>1 DEF Last, dialog
  <2>2. CASE tilstand[e] # "lastet"
    BY <1>3, <1>5, <2>2 DEF Last, Finnes
  <2> QED BY <2>1, <2>2
<1>6. ASSUME NEW e \in Anlegg, Feiler(e) PROVE TypeOK'
  BY <1>2, <1>6 DEF Feiler, dialog
<1>7. ASSUME NEW e \in Anlegg, LesPriser(e)
      PROVE  /\ roller' \in [Anlegg -> SUBSET Prisroller]
             /\ spurt' \in [Anlegg -> [roller : SUBSET Prisroller, synket : BOOLEAN]]
  <2>1. PICK uten \in SUBSET Prisroller :
          LET u == uten \ data[e].bekreftet
          IN  /\ roller' = [roller EXCEPT ![e] = Meldt(spurt[e], @, u)]
              /\ spurt' = [spurt EXCEPT ![e] = [roller |-> u, synket |-> TRUE]]
    BY <1>7 DEF LesPriser, Prisroller
  <2>2. uten \ data[e].bekreftet \in SUBSET Prisroller
    OBVIOUS
  <2>3. Meldt(spurt[e], roller[e], uten \ data[e].bekreftet) \in SUBSET Prisroller
    BY <2>2 DEF Meldt
  <2> QED BY <2>1, <2>2, <2>3
<1>8. ASSUME NEW e \in Anlegg, ForstePoll(e) \/ Poll(e) PROVE TypeOK'
  BY <1>7, <1>8 DEF ForstePoll, Poll, dialog
<1>9. ASSUME NEW e \in Anlegg, Ferdig(e) PROVE TypeOK'
  BY <1>9 DEF Ferdig, Sjekket, dialog
<1>10. ASSUME NEW e \in Anlegg, Fjern(e) PROVE TypeOK'
  BY <1>2, <1>10 DEF Fjern
<1>11. ASSUME Omstart PROVE TypeOK'
  BY <1>2, <1>11 DEF Omstart
<1>12. ASSUME NEW e \in Anlegg, ApneSkjema(e) \/ LukkSkjema(e) PROVE TypeOK'
  BY <1>12 DEF ApneSkjema, LukkSkjema, Apne, oppsett
<1>13. ASSUME NEW e \in Anlegg, LagreSkjema(e) PROVE TypeOK'
  <2>1. PICK i \in Utfylt(skjema[e]) :
          IF Godtatt(e, i)
          THEN /\ Lagre(e, NyData(i, data[e]), TRUE)
               /\ foreldet' = IF skjema[e] = data[e] THEN foreldet ELSE foreldet \cup {e}
               /\ skjema' = [skjema EXCEPT ![e] = Ingen]
          ELSE /\ skjema' = [skjema EXCEPT ![e] = data[e]]
               /\ UNCHANGED <<data, reload, glipp, foreldet>>
    BY <1>13 DEF LagreSkjema
  <2>2. skjema[e] \in Oppforing
    BY <1>13 DEF LagreSkjema
  <2>3. CASE Godtatt(e, i)
    <3>1. data[e] \in Oppforing
      BY <1>13 DEF LagreSkjema, Finnes
    <3>2. NyData(i, data[e]) \in Oppforing
      BY <2>2, <3>1, NyDataType
    <3>3. Lagre(e, NyData(i, data[e]), TRUE)
      BY <2>1, <2>3
    <3>4. /\ data' \in [Anlegg -> Oppforing \cup {Ingen}]
          /\ reload' \in [Anlegg -> BOOLEAN] /\ glipp' \subseteq Anlegg
      BY <3>2, <3>3, LagretType
    <3>5. foreldet' \subseteq Anlegg /\ skjema' \in [Anlegg -> Oppforing \cup {Ingen}]
      BY <2>1, <2>3
    <3> QED BY <1>13, <3>4, <3>5 DEF LagreSkjema, oppsett
  <2>4. CASE ~ Godtatt(e, i)
    BY <1>13, <2>1, <2>4 DEF LagreSkjema, oppsett
  <2> QED BY <2>3, <2>4
<1>14. ASSUME NEW e \in Anlegg, ApneVarsel(e) PROVE TypeOK'
  <2>1. sporsmal' \in Sporsmal
    BY <1>14 DEF ApneVarsel, Sporsmal
  <2> QED BY <1>14, <2>1 DEF ApneVarsel, Apne, oppsett
<1>15. ASSUME NEW e \in Anlegg, Svar(e) PROVE TypeOK'
  <2>1. data[e] \in Oppforing /\ sporsmal \in Sporsmal
    BY <1>15 DEF Svar, Finnes
  <2>2. PICK d \in Svart(data[e], sporsmal) : Lagre(e, d, FALSE)
    BY <1>15 DEF Svar
  <2>3. d \in Oppforing
    BY <2>1, <2>2, SvartType, Zenon
  <2>4. /\ data' \in [Anlegg -> Oppforing \cup {Ingen}]
        /\ reload' \in [Anlegg -> BOOLEAN] /\ glipp' \subseteq Anlegg
    BY <2>2, <2>3, LagretType
  <2> QED BY <1>15, <2>4 DEF Svar, oppsett
<1>16. ASSUME LukkVarsel \/ Forkast PROVE TypeOK'
  BY <1>16 DEF LukkVarsel, Forkast, oppsett
<1>17. ASSUME VelgSensorer PROVE TypeOK'
  <2>1. PICK n \in Flyt :
          \/ ny' = n /\ UNCHANGED data
          \/ /\ n.dso # Egendefinert /\ ny' = Ingen
             /\ \E e \in Anlegg : Opprett(e, n, Ingen, Ingen, "ingen")
    BY <1>17 DEF VelgSensorer
  <2>2. data' \in [Anlegg -> Oppforing \cup {Ingen}]
    BY <2>1, NyOppforing
  <2>3. ny' \in Flyt \cup {Ingen}
    BY <2>1
  <2> QED BY <1>17, <2>2, <2>3 DEF VelgSensorer, Apne, oppsett
<1>18. ASSUME NEW e \in Anlegg, Fullfor(e) PROVE TypeOK'
  <2>1. ny \in Flyt
    BY <1>18 DEF Fullfor
  <2>2. data' \in [Anlegg -> Oppforing \cup {Ingen}]
    BY <1>18, <2>1, FullfortOK
  <2> QED BY <1>18, <2>2 DEF Fullfor, oppsett
<1>19. CASE UNCHANGED vars
  BY <1>19 DEF vars, oppsett, dialog
<1> QED
  BY <1>4, <1>5, <1>6, <1>8, <1>9, <1>10, <1>11, <1>12, <1>13, <1>14, <1>15, <1>16, <1>17, <1>18, <1>19 DEF Next

\* What is wanted of the settings holds at the start.
LEMMA StartOK == Init => IInv
<1> SUFFICES ASSUME Init PROVE IInv
  OBVIOUS
<1>1. data \in [Anlegg -> Oppforing \cup {Ingen}] /\ OppforingeneStemmer
  BY UtgangspunktAssumption DEF Init, OppforingeneStemmer, Finnes
<1>2. Ukjent \in [roller : SUBSET Prisroller, synket : BOOLEAN]
  BY DEF Ukjent
<1>3. TypeOK
  BY <1>1, <1>2 DEF Init, TypeOK
<1>4. \A e \in Finnes : e \in Anlegg /\ tilstand[e] = "ute"
  BY DEF Init, Finnes
<1>5. GjelderInv /\ VarselInv
  BY <1>4 DEF GjelderInv, VarselInv
<1> QED BY <1>1, <1>3, <1>5 DEF IInv

\* Entries stay in order when one of them is changed, if what it becomes is.
LEMMA EttEndret ==
  ASSUME TypeOK, OppforingeneStemmer, NEW e \in Anlegg,
         data' \in [Anlegg -> Oppforing \cup {Ingen}],
         \A f \in Anlegg : f # e => data'[f] = data[f],
         foreldet \subseteq foreldet', foreldet' \subseteq foreldet \cup {e},
         \/ e \in foreldet' \/ data'[e] = Ingen
         \/ /\ Ordnet(data'[e])
            /\ \A f \in Finnes \ foreldet : f # e => data[f].effekt # data'[e].effekt
  PROVE  OppforingeneStemmer'
<1> SUFFICES ASSUME NEW g \in Finnes' \ foreldet'
             PROVE  /\ Ordnet(data'[g])
                    /\ \A f \in Finnes' \ foreldet' : g # f => data'[g].effekt # data'[f].effekt
  BY DEF OppforingeneStemmer, Ordnet
<1>1. \A f \in Finnes' \ foreldet' : f # e => f \in Finnes \ foreldet /\ data'[f] = data[f]
  BY DEF Finnes
<1>2. g = e => /\ Ordnet(data'[e])
               /\ \A f \in Finnes \ foreldet : f # e => data[f].effekt # data'[e].effekt
  BY DEF Finnes
<1>3. CASE g = e
  BY <1>1, <1>2, <1>3
<1>4. CASE g # e
  <2>1. g \in Finnes \ foreldet /\ data'[g] = data[g] /\ Ordnet(data[g])
    BY <1>1, <1>4 DEF OppforingeneStemmer
  <2>2. ASSUME NEW f \in Finnes' \ foreldet', g # f PROVE data'[g].effekt # data'[f].effekt
    <3>1. CASE f = e
      <4>1. /\ Ordnet(data'[e])
            /\ \A h \in Finnes \ foreldet : h # e => data[h].effekt # data'[e].effekt
        BY <3>1, <2>2 DEF Finnes
      <4> QED BY <1>4, <2>1, <3>1, <4>1
    <3>2. CASE f # e
      BY <1>1, <2>1, <2>2, <3>2 DEF OppforingeneStemmer
    <3> QED BY <3>1, <3>2
  <2> QED BY <2>1, <2>2
<1> QED BY <1>3, <1>4

\* Every step leaves the entries in order.
LEMMA OppforingSteg ==
  ASSUME TypeOK, OppforingeneStemmer, [Next]_vars
  PROVE  OppforingeneStemmer'
<1>1. data \in [Anlegg -> Oppforing \cup {Ingen}] /\ sporsmal \in Sporsmal \cup {Ingen}
      /\ skjema \in [Anlegg -> Oppforing \cup {Ingen}] /\ ny \in Flyt \cup {Ingen}
  BY DEF TypeOK
<1>2. CASE UNCHANGED <<data, foreldet>>
  BY <1>2 DEF OppforingeneStemmer, Finnes
<1>3. ASSUME NEW e \in Anlegg, LagreSkjema(e) PROVE OppforingeneStemmer'
  <2>1. PICK i \in Utfylt(skjema[e]) :
          IF Godtatt(e, i)
          THEN /\ Lagre(e, NyData(i, data[e]), TRUE)
               /\ foreldet' = IF skjema[e] = data[e] THEN foreldet ELSE foreldet \cup {e}
               /\ skjema' = [skjema EXCEPT ![e] = Ingen]
          ELSE /\ skjema' = [skjema EXCEPT ![e] = data[e]]
               /\ UNCHANGED <<data, reload, glipp, foreldet>>
    BY <1>3 DEF LagreSkjema
  <2>2. CASE ~ Godtatt(e, i)
    BY <1>2, <2>1, <2>2
  <2>3. CASE Godtatt(e, i)
    <3>1. skjema[e] \in Oppforing /\ data[e] \in Oppforing /\ e \in Finnes
      BY <1>1, <1>3 DEF LagreSkjema, Finnes
    <3>2. NyData(i, data[e]) \in Oppforing /\ NyData(i, data[e]).effekt = i.effekt
      BY <3>1, NyDataType
    <3>3. /\ data' \in [Anlegg -> Oppforing \cup {Ingen}] /\ data'[e] = NyData(i, data[e])
          /\ \A g \in Anlegg : g # e => data'[g] = data[g]
      BY <2>1, <2>3, <3>2, LagretType
    <3>4. CASE e \in foreldet'
      BY <2>1, <2>3, <3>3, <3>4, EttEndret
    <3>5. CASE e \notin foreldet'
      <4>1. skjema[e] = data[e] /\ foreldet' = foreldet
        BY <2>1, <2>3, <3>5
      <4>2. Ordnet(data[e])
           /\ \A f \in Finnes \ foreldet : f # e => data[f].effekt # data[e].effekt
        BY <3>1, <3>5, <4>1 DEF OppforingeneStemmer
      <4>3. Ordnet(data'[e])
        BY <2>1, <3>1, <3>3, <4>1, <4>2, NyDataOrdnet
      <4>4. \A f \in Finnes \ foreldet : f # e => data[f].effekt # data'[e].effekt
        BY <2>3, <3>2, <3>3, <4>2 DEF Godtatt
      <4> QED BY <3>3, <4>1, <4>3, <4>4, EttEndret
    <3> QED BY <3>4, <3>5
  <2> QED BY <2>2, <2>3
<1>4. ASSUME NEW e \in Anlegg, Svar(e) PROVE OppforingeneStemmer'
  <2>1. data[e] \in Oppforing /\ sporsmal \in Sporsmal /\ e = sporsmal.anlegg /\ e \in Finnes
    BY <1>1, <1>4 DEF Svar, Finnes
  <2>2. PICK d \in Svart(data[e], sporsmal) : Lagre(e, d, FALSE)
    BY <1>4 DEF Svar
  <2>3. d \in Oppforing /\ d.effekt = data[e].effekt
    <3>1. d \in Oppforing
      BY <2>1, <2>2, SvartType, Zenon
    <3>2. d.effekt = data[e].effekt
      BY <2>1, <2>2, SvartEffekt
    <3> QED BY <3>1, <3>2
  <2>4. /\ data' \in [Anlegg -> Oppforing \cup {Ingen}] /\ data'[e] = d
        /\ \A g \in Anlegg : g # e => data'[g] = data[g]
    BY <2>2, <2>3, LagretType
  <2>5. foreldet' = IF Aktuell(sporsmal) THEN foreldet ELSE foreldet \cup {e}
    BY <1>4 DEF Svar
  <2>6. CASE e \in foreldet'
    BY <2>4, <2>5, <2>6, EttEndret
  <2>7. CASE e \notin foreldet'
    <3>1. Aktuell(sporsmal) /\ foreldet' = foreldet
      BY <2>5, <2>7
    <3>2. sporsmal.hva = "tariff" => Bes(data[e], "tariff")
      BY <2>1, <3>1 DEF Aktuell
    <3>3. Ordnet(data[e])
         /\ \A f \in Finnes \ foreldet : f # e => data[f].effekt # data[e].effekt
      BY <2>1, <2>7, <3>1 DEF OppforingeneStemmer
    <3>4. Ordnet(d)
      BY <2>1, <2>2, <3>2, <3>3, SvartOrdnet
    <3> QED BY <2>3, <2>4, <3>1, <3>3, <3>4, EttEndret
  <2> QED BY <2>6, <2>7
<1>5. ASSUME VelgSensorer PROVE OppforingeneStemmer'
  <2>1. PICK n \in Flyt :
          /\ \A f \in Finnes : data[f].effekt # n.effekt
          /\ \/ UNCHANGED data
             \/ /\ n.dso # Egendefinert
                /\ \E e \in Anlegg : Opprett(e, n, Ingen, Ingen, "ingen")
    BY <1>5 DEF VelgSensorer
  <2>2. foreldet' = foreldet
    BY <1>5 DEF VelgSensorer
  <2>3. ASSUME NEW e \in Anlegg, n.dso # Egendefinert, Opprett(e, n, Ingen, Ingen, "ingen")
        PROVE OppforingeneStemmer'
    <3>1. /\ data' \in [Anlegg -> Oppforing \cup {Ingen}]
          /\ \A f \in Anlegg : f # e => data'[f] = data[f]
          /\ Ordnet(data'[e]) /\ data'[e].effekt = n.effekt
      BY <2>3, NyOppforing
    <3> QED BY <2>1, <2>2, <3>1, EttEndret
  <2> QED BY <1>2, <2>1, <2>2, <2>3
<1>6. ASSUME NEW e \in Anlegg, Fullfor(e) PROVE OppforingeneStemmer'
  <2>1. /\ data' \in [Anlegg -> Oppforing \cup {Ingen}]
        /\ \A f \in Anlegg : f # e => data'[f] = data[f]
        /\ Ordnet(data'[e]) /\ data'[e].effekt = ny.effekt
    BY <1>6, FullfortOK
  <2>2. foreldet' = IF \E f \in Finnes : data[f].effekt = ny.effekt THEN foreldet \cup {e} ELSE foreldet
    BY <1>6 DEF Fullfor
  <2> QED BY <2>1, <2>2, EttEndret
<1>7. ASSUME NEW e \in Anlegg, Fjern(e) PROVE OppforingeneStemmer'
  <2>1. data' = [data EXCEPT ![e] = Ingen] /\ foreldet' = foreldet
    BY <1>7 DEF Fjern
  <2> QED BY <1>1, <2>1, EttEndret
<1> QED
  BY <1>2, <1>3, <1>4, <1>5, <1>6, <1>7
  DEF Next, vars, Start, Last, Bygg, Feiler, ForstePoll, Poll, Ferdig, ApneSkjema, LukkSkjema,
      ApneVarsel, Omstart, LukkVarsel, Forkast

\* A save or an answer brings a reload, or is noted as missed.
LEMMA LagretGjelder ==
  ASSUME TypeOK, GjelderInv, NEW e \in Anlegg, e \in Finnes, NEW d \in Oppforing, NEW f \in BOOLEAN,
         Lagre(e, d, f), UNCHANGED <<tilstand, gjelder>>
  PROVE  GjelderInv'
<1>1. /\ data'[e] = d /\ \A g \in Anlegg : g # e => data'[g] = data[g] /\ reload'[g] = reload[g]
      /\ reload[e] => reload'[e]
      /\ tilstand[e] = "lastet" /\ d # data[e] => reload'[e]
      /\ glipp \subseteq glipp'
      /\ tilstand[e] \in {"starter", "plattformer"} /\ d # data[e] => e \in glipp'
  BY LagretType
<1> SUFFICES ASSUME NEW g \in Finnes' \ glipp',
                    \/ tilstand[g] \in {"starter", "plattformer"}
                    \/ tilstand[g] = "lastet" /\ ~ reload'[g]
             PROVE  gjelder[g] = Gjeldende(data'[g])
  BY DEF GjelderInv, Gjeldende, Listen
<1>2. CASE g = e
  <2>1. d = data[e] /\ e \in Finnes \ glipp
        /\ (tilstand[e] \in {"starter", "plattformer"} \/ (tilstand[e] = "lastet" /\ ~ reload[e]))
    BY <1>1, <1>2
  <2> QED BY <1>1, <1>2, <2>1 DEF GjelderInv
<1>3. CASE g # e
  <2>1. g \in Finnes \ glipp /\ data'[g] = data[g] /\ reload'[g] = reload[g]
    BY <1>1, <1>3 DEF Finnes
  <2> QED BY <2>1 DEF GjelderInv
<1> QED BY <1>2, <1>3

\* Every step leaves the coordinators with the data of their entries.
LEMMA GjelderSteg ==
  ASSUME TypeOK, GjelderInv, [Next]_vars
  PROVE  GjelderInv'
<1>1. /\ data \in [Anlegg -> Oppforing \cup {Ingen}] /\ sporsmal \in Sporsmal \cup {Ingen}
      /\ skjema \in [Anlegg -> Oppforing \cup {Ingen}] /\ reload \in [Anlegg -> BOOLEAN]
      /\ DOMAIN tilstand = Anlegg /\ DOMAIN gjelder = Anlegg
  BY DEF TypeOK
<1>2. CASE UNCHANGED <<data, tilstand, reload, gjelder, glipp>>
  BY <1>2 DEF GjelderInv, Finnes, Gjeldende, Listen
<1>3. ASSUME NEW e \in Anlegg, Bygg(e), \A g \in Anlegg : g # e => reload'[g] = reload[g]
      PROVE  GjelderInv'
  BY <1>1, <1>3 DEF Bygg, GjelderInv, Finnes, Gjeldende, Listen
<1>4. ASSUME NEW e \in Anlegg, Start(e) PROVE GjelderInv'
  BY <1>3, <1>4 DEF Start
<1>5. ASSUME NEW e \in Anlegg, Last(e) PROVE GjelderInv'
  <2>1. \A g \in Anlegg : g # e => reload'[g] = reload[g]
    BY <1>1, <1>5 DEF Last
  <2>2. CASE tilstand[e] = "lastet"
    BY <1>1, <1>5, <2>1, <2>2 DEF Last, GjelderInv, Finnes, Gjeldende, Listen
  <2>3. CASE tilstand[e] # "lastet"
    BY <1>3, <1>5, <2>1, <2>3 DEF Last
  <2> QED BY <2>2, <2>3
<1>6. ASSUME NEW e \in Anlegg, Feiler(e) PROVE GjelderInv'
  BY <1>1, <1>6 DEF Feiler, GjelderInv, Finnes, Gjeldende, Listen
<1>7. ASSUME NEW e \in Anlegg, ForstePoll(e) \/ Ferdig(e) PROVE GjelderInv'
  BY <1>1, <1>7 DEF ForstePoll, Ferdig, GjelderInv, Finnes, Gjeldende, Listen
<1>8. ASSUME NEW e \in Anlegg, Fjern(e) PROVE GjelderInv'
  BY <1>1, <1>8 DEF Fjern, GjelderInv, Finnes, Gjeldende, Listen
<1>9. CASE Omstart
  BY <1>9 DEF Omstart, GjelderInv, Finnes
<1>10. ASSUME NEW e \in Anlegg, LagreSkjema(e) PROVE GjelderInv'
  <2>1. PICK i \in Utfylt(skjema[e]) :
          IF Godtatt(e, i) THEN Lagre(e, NyData(i, data[e]), TRUE)
          ELSE UNCHANGED <<data, reload, glipp>>
    BY <1>10 DEF LagreSkjema
  <2>2. UNCHANGED <<tilstand, gjelder>> /\ e \in Finnes
    BY <1>10 DEF LagreSkjema, oppsett
  <2>3. CASE Godtatt(e, i)
    <3>1. NyData(i, data[e]) \in Oppforing
      BY <1>1, <1>10, NyDataType DEF LagreSkjema, Finnes
    <3> QED BY <2>1, <2>2, <2>3, <3>1, LagretGjelder
  <2>4. CASE ~ Godtatt(e, i)
    BY <1>2, <2>1, <2>2, <2>4
  <2> QED BY <2>3, <2>4
<1>11. ASSUME NEW e \in Anlegg, Svar(e) PROVE GjelderInv'
  <2>1. data[e] \in Oppforing /\ sporsmal \in Sporsmal /\ e \in Finnes
    BY <1>1, <1>11 DEF Svar, Finnes
  <2>2. PICK d \in Svart(data[e], sporsmal) : Lagre(e, d, FALSE)
    BY <1>11 DEF Svar
  <2>3. d \in Oppforing
    BY <2>1, <2>2, SvartEffekt
  <2>4. UNCHANGED <<tilstand, gjelder>>
    BY <1>11 DEF Svar, oppsett
  <2> QED BY <2>1, <2>2, <2>3, <2>4, LagretGjelder
<1>12. ASSUME NEW e \in Anlegg, data[e] = Ingen, tilstand[e] = "ute",
              \A f \in Anlegg : f # e => data'[f] = data[f],
              UNCHANGED <<tilstand, reload, gjelder, glipp>>
       PROVE  GjelderInv'
  BY <1>12 DEF GjelderInv, Finnes, Gjeldende, Listen
<1>13. CASE VelgSensorer
  <2>1. PICK n \in Flyt :
          \/ UNCHANGED data
          \/ n.dso # Egendefinert /\ \E e \in Anlegg : Opprett(e, n, Ingen, Ingen, "ingen")
    BY <1>13 DEF VelgSensorer
  <2>2. UNCHANGED <<tilstand, reload, gjelder, glipp>>
    BY <1>13 DEF VelgSensorer, oppsett
  <2> QED BY <1>2, <1>12, <2>1, <2>2, NyOppforing
<1>14. ASSUME NEW e \in Anlegg, Fullfor(e) PROVE GjelderInv'
  <2>1. UNCHANGED <<tilstand, reload, gjelder, glipp>>
    BY <1>14 DEF Fullfor, oppsett
  <2> QED BY <1>12, <1>14, <2>1, FullfortOK
<1> QED
  BY <1>2, <1>4, <1>5, <1>6, <1>7, <1>8, <1>9, <1>10, <1>11, <1>13, <1>14
  DEF Next, vars, oppsett, Poll, ApneSkjema, LukkSkjema, ApneVarsel, LukkVarsel, Forkast

\* What VarselInv says of an entry.
VarselFor(e) ==
  /\ tilstand[e] = "lastet" /\ ~ reload[e] => varsel[e] = Sjekket(data[e])
  /\ tilstand[e] = "starter" => spurt[e] = Ukjent
  /\ tilstand[e] \in {"plattformer", "lastet"} /\ e \notin foreldet
       => roller[e] = spurt[e].roller \ data[e].bekreftet

\* The issues of one entry do not depend on the others.
LEMMA VarselEtt ==
  ASSUME VarselInv, NEW e \in Anlegg,
         \A g \in Anlegg : g # e =>
           /\ data'[g] = data[g] /\ tilstand'[g] = tilstand[g] /\ reload'[g] = reload[g]
           /\ varsel'[g] = varsel[g] /\ roller'[g] = roller[g] /\ spurt'[g] = spurt[g],
         foreldet \subseteq foreldet', e \in Finnes' => VarselFor(e)'
  PROVE  VarselInv'
<1> SUFFICES ASSUME NEW g \in Finnes'
             PROVE  /\ tilstand'[g] = "lastet" /\ ~ reload'[g] => varsel'[g] = Sjekket(data'[g])
                    /\ tilstand'[g] = "starter" => spurt'[g] = Ukjent
                    /\ tilstand'[g] \in {"plattformer", "lastet"} /\ g \notin foreldet'
                         => roller'[g] = spurt'[g].roller \ data'[g].bekreftet
  BY DEF VarselInv, Sjekket, Bes, Varsel, Rader, Ukjent
<1>1. CASE g = e
  BY <1>1 DEF VarselFor, Sjekket, Bes, Varsel, Rader, Ukjent
<1>2. CASE g # e
  BY <1>2 DEF VarselInv, Finnes
<1> QED BY <1>1, <1>2

\* What a poll makes of the issue of the price unit.
LEMMA PollVarsel ==
  ASSUME TypeOK, NEW e \in Anlegg, e \in Finnes, LesPriser(e),
         \/ spurt[e] = Ukjent
         \/ e \notin foreldet => roller[e] = spurt[e].roller \ data[e].bekreftet
  PROVE  /\ \A g \in Anlegg : g # e => roller'[g] = roller[g] /\ spurt'[g] = spurt[g]
         /\ e \notin foreldet => roller'[e] = spurt'[e].roller \ data[e].bekreftet
<1>1. PICK uten \in SUBSET Prisroller :
        LET u == uten \ data[e].bekreftet
        IN  /\ roller' = [roller EXCEPT ![e] = Meldt(spurt[e], @, u)]
            /\ spurt' = [spurt EXCEPT ![e] = [roller |-> u, synket |-> TRUE]]
  BY DEF LesPriser, Prisroller
<1> DEFINE u == uten \ data[e].bekreftet
<1>2. /\ DOMAIN roller = Anlegg /\ DOMAIN spurt = Anlegg
      /\ roller \in [Anlegg -> SUBSET Prisroller]
      /\ spurt \in [Anlegg -> [roller : SUBSET Prisroller, synket : BOOLEAN]]
  BY DEF TypeOK
<1>3. spurt'[e].roller = u /\ roller'[e] = Meldt(spurt[e], roller[e], u)
  BY <1>1, <1>2
<1>4. \A g \in Anlegg : g # e => roller'[g] = roller[g] /\ spurt'[g] = spurt[g]
  BY <1>1, <1>2
<1>5. u \ data[e].bekreftet = u
  OBVIOUS
<1> HIDE DEF u
<1>6. CASE spurt[e] = Ukjent
  BY <1>3, <1>4, <1>5, <1>6 DEF Meldt, Ukjent
<1>7. CASE spurt[e] # Ukjent
  BY <1>3, <1>4, <1>5, <1>7 DEF Meldt
<1> QED BY <1>6, <1>7

\* Every step leaves the running entries with the issues they call for.
LEMMA VarselSteg ==
  ASSUME TypeOK, VarselInv, [Next]_vars
  PROVE  VarselInv'
<1>1. /\ data \in [Anlegg -> Oppforing \cup {Ingen}] /\ sporsmal \in Sporsmal \cup {Ingen}
      /\ skjema \in [Anlegg -> Oppforing \cup {Ingen}] /\ reload \in [Anlegg -> BOOLEAN]
      /\ DOMAIN tilstand = Anlegg /\ DOMAIN spurt = Anlegg /\ DOMAIN varsel = Anlegg
      /\ DOMAIN roller = Anlegg
  BY DEF TypeOK
<1>2. CASE UNCHANGED <<data, tilstand, reload, varsel, roller, spurt, foreldet>>
  <2> SUFFICES ASSUME NEW g \in Finnes'
               PROVE  /\ tilstand'[g] = "lastet" /\ ~ reload'[g] => varsel'[g] = Sjekket(data'[g])
                      /\ tilstand'[g] = "starter" => spurt'[g] = Ukjent
                      /\ tilstand'[g] \in {"plattformer", "lastet"} /\ g \notin foreldet'
                           => roller'[g] = spurt'[g].roller \ data'[g].bekreftet
    BY DEF VarselInv, Sjekket, Bes, Varsel, Rader, Ukjent
  <2> QED BY <1>2 DEF VarselInv, Finnes
<1>3. ASSUME NEW e \in Anlegg, Bygg(e), \A g \in Anlegg : g # e => reload'[g] = reload[g]
      PROVE  VarselInv'
  <2>1. VarselFor(e)'
    BY <1>1, <1>3 DEF Bygg, VarselFor, Ukjent
  <2> QED BY <1>1, <1>3, <2>1, VarselEtt DEF Bygg
<1>4. ASSUME NEW e \in Anlegg, Start(e) PROVE VarselInv'
  BY <1>3, <1>4 DEF Start
<1>5. ASSUME NEW e \in Anlegg, Last(e) PROVE VarselInv'
  <2>1. \A g \in Anlegg : g # e => reload'[g] = reload[g]
    BY <1>1, <1>5 DEF Last
  <2>2. CASE tilstand[e] = "lastet"
    <3>1. UNCHANGED <<data, varsel, roller, spurt, foreldet>>
          /\ tilstand' = [tilstand EXCEPT ![e] = "lukker"]
      BY <1>5, <2>2 DEF Last
    <3>2. VarselFor(e)'
      BY <1>1, <3>1 DEF VarselFor
    <3> QED BY <1>1, <2>1, <3>1, <3>2, VarselEtt
  <2>3. CASE tilstand[e] # "lastet"
    BY <1>3, <1>5, <2>1, <2>3 DEF Last
  <2> QED BY <2>2, <2>3
<1>6. ASSUME NEW e \in Anlegg, Feiler(e) PROVE VarselInv'
  <2>1. VarselFor(e)'
    BY <1>1, <1>6 DEF Feiler, VarselFor
  <2> QED BY <1>1, <1>6, <2>1, VarselEtt DEF Feiler
<1>7. ASSUME NEW e \in Anlegg, ForstePoll(e) PROVE VarselInv'
  <2>0. CASE e \notin Finnes
    BY <1>1, <1>7, <2>0, VarselEtt DEF ForstePoll, LesPriser, Finnes
  <2>1. CASE e \in Finnes
    <3>1. spurt[e] = Ukjent
      BY <1>7, <2>1 DEF ForstePoll, VarselInv
    <3>2. /\ \A g \in Anlegg : g # e => roller'[g] = roller[g] /\ spurt'[g] = spurt[g]
          /\ e \notin foreldet => roller'[e] = spurt'[e].roller \ data[e].bekreftet
      BY <1>7, <2>1, <3>1, PollVarsel DEF ForstePoll
    <3>3. UNCHANGED <<data, reload, varsel, foreldet>>
          /\ tilstand' = [tilstand EXCEPT ![e] = "plattformer"]
      BY <1>7 DEF ForstePoll
    <3>4. VarselFor(e)'
      BY <1>1, <3>2, <3>3 DEF VarselFor
    <3> QED BY <1>1, <3>2, <3>3, <3>4, VarselEtt
  <2> QED BY <2>0, <2>1
<1>8. ASSUME NEW e \in Anlegg, Poll(e) PROVE VarselInv'
  <2>1. UNCHANGED <<data, tilstand, reload, varsel, foreldet>>
    BY <1>8 DEF Poll
  <2>2. CASE e \notin Finnes
    BY <1>1, <1>8, <2>1, <2>2, VarselEtt DEF Poll, LesPriser, Finnes
  <2>3. CASE e \in Finnes
    <3>1. CASE tilstand[e] \in {"plattformer", "lastet"}
      <4>1. e \notin foreldet => roller[e] = spurt[e].roller \ data[e].bekreftet
        BY <2>3, <3>1 DEF VarselInv
      <4>2. /\ \A g \in Anlegg : g # e => roller'[g] = roller[g] /\ spurt'[g] = spurt[g]
            /\ e \notin foreldet => roller'[e] = spurt'[e].roller \ data[e].bekreftet
        BY <1>8, <2>3, <4>1, PollVarsel DEF Poll
      <4>3. VarselFor(e)'
        BY <2>1, <2>3, <3>1, <4>2 DEF VarselFor, VarselInv, Sjekket, Bes, Varsel, Rader, Ukjent
      <4> QED BY <2>1, <4>2, <4>3, VarselEtt
    <3>2. CASE tilstand[e] \notin {"plattformer", "lastet"}
      <4>1. \A g \in Anlegg : g # e => roller'[g] = roller[g] /\ spurt'[g] = spurt[g]
        BY <1>1, <1>8 DEF Poll, LesPriser
      <4>2. VarselFor(e)'
        BY <1>8, <2>1, <3>2 DEF VarselFor, Poll
      <4> QED BY <2>1, <4>1, <4>2, VarselEtt
    <3> QED BY <3>1, <3>2
  <2> QED BY <2>2, <2>3
<1>9. ASSUME NEW e \in Anlegg, Ferdig(e) PROVE VarselInv'
  <2>1. UNCHANGED <<data, reload, roller, spurt, foreldet>> /\ tilstand[e] = "plattformer"
        /\ tilstand' = [tilstand EXCEPT ![e] = "lastet"]
        /\ varsel' = [varsel EXCEPT ![e] = Sjekket(data[e])]
    BY <1>9 DEF Ferdig
  <2>2. e \in Finnes => VarselFor(e)'
    BY <1>1, <2>1 DEF VarselFor, VarselInv, Sjekket, Bes, Varsel, Rader, Ukjent
  <2>3. Finnes' = Finnes
    BY <2>1 DEF Finnes
  <2> QED BY <1>1, <2>1, <2>2, <2>3, VarselEtt
<1>10. ASSUME NEW e \in Anlegg, Fjern(e) PROVE VarselInv'
  <2>1. e \notin Finnes'
    BY <1>1, <1>10 DEF Fjern, Finnes
  <2> QED BY <1>1, <1>10, <2>1, VarselEtt DEF Fjern
<1>11. CASE Omstart
  <2>1. \A e \in Anlegg : tilstand'[e] \in {"ute", "fjernet"}
    BY <1>11 DEF Omstart
  <2> QED BY <2>1 DEF VarselInv, Finnes
<1>12. ASSUME NEW e \in Anlegg, LagreSkjema(e) PROVE VarselInv'
  <2>1. PICK i \in Utfylt(skjema[e]) :
          IF Godtatt(e, i)
          THEN /\ Lagre(e, NyData(i, data[e]), TRUE)
               /\ foreldet' = IF skjema[e] = data[e] THEN foreldet ELSE foreldet \cup {e}
          ELSE UNCHANGED <<data, reload, foreldet>>
    BY <1>12 DEF LagreSkjema
  <2>2. UNCHANGED <<tilstand, varsel, roller, spurt>> /\ e \in Finnes
    BY <1>12 DEF LagreSkjema, oppsett
  <2>3. CASE Godtatt(e, i)
    <3> DEFINE n == NyData(i, data[e])
    <3>1. n \in Oppforing /\ n.bekreftet = data[e].bekreftet
      BY <1>1, <1>12, NyDataType DEF LagreSkjema, Finnes
    <3>2. Lagre(e, n, TRUE) /\ foreldet \subseteq foreldet'
      BY <2>1, <2>3
    <3> HIDE DEF n
    <3>3. /\ data'[e] = n /\ \A g \in Anlegg : g # e => data'[g] = data[g] /\ reload'[g] = reload[g]
          /\ reload[e] => reload'[e]
          /\ tilstand[e] = "lastet" /\ n # data[e] => reload'[e]
      BY <3>1, <3>2, LagretType
    <3>4. VarselFor(e)'
      <4>1. tilstand[e] = "lastet" /\ ~ reload'[e] => varsel[e] = Sjekket(data'[e])
        BY <2>2, <3>3 DEF VarselInv
      <4>2. tilstand[e] = "starter" => spurt[e] = Ukjent
        BY <2>2 DEF VarselInv
      <4>3. tilstand[e] \in {"plattformer", "lastet"} /\ e \notin foreldet'
              => roller[e] = spurt[e].roller \ data'[e].bekreftet
        BY <2>2, <3>1, <3>2, <3>3 DEF VarselInv
      <4> QED BY <2>2, <4>1, <4>2, <4>3 DEF VarselFor, Sjekket, Bes, Varsel, Rader, Ukjent
    <3> QED BY <2>2, <3>2, <3>3, <3>4, VarselEtt
  <2>4. CASE ~ Godtatt(e, i)
    BY <1>2, <2>1, <2>2, <2>4
  <2> QED BY <2>3, <2>4
<1>13. ASSUME NEW e \in Anlegg, Svar(e) PROVE VarselInv'
  <2>1. data[e] \in Oppforing /\ sporsmal \in Sporsmal /\ e = sporsmal.anlegg /\ e \in Finnes
    BY <1>1, <1>13 DEF Svar, Finnes
  <2>2. PICK d \in Svart(data[e], sporsmal) : Lagre(e, d, FALSE)
    BY <1>13 DEF Svar
  <2>3. /\ UNCHANGED <<tilstand, spurt>>
        /\ varsel' = [varsel EXCEPT ![e] = @ \ {sporsmal.hva}]
        /\ roller' = IF sporsmal.hva = "prisenhet" THEN [roller EXCEPT ![e] = {}] ELSE roller
        /\ foreldet' = IF Aktuell(sporsmal) THEN foreldet ELSE foreldet \cup {e}
    BY <1>13 DEF Svar, oppsett
  <2>4. d \in Oppforing
    BY <2>1, <2>2, SvartEffekt
  <2>5. sporsmal.hva = "prisenhet" => d.bekreftet = data[e].bekreftet \cup sporsmal.roller
    BY <2>1, <2>2, SvartBekreftet
  <2>6. sporsmal.hva # "prisenhet" => d.bekreftet = data[e].bekreftet
    BY <2>1, <2>2, SvartBekreftet
  <2>7. /\ data'[e] = d /\ \A g \in Anlegg : g # e => data'[g] = data[g] /\ reload'[g] = reload[g]
        /\ reload[e] => reload'[e]
        /\ tilstand[e] = "lastet" /\ d # data[e] => reload'[e]
    BY <2>2, <2>4, LagretType
  <2>8. VarselFor(e)'
    <3>1. tilstand[e] = "lastet" /\ ~ reload'[e] => varsel'[e] = Sjekket(data'[e])
      <4> SUFFICES ASSUME tilstand[e] = "lastet", ~ reload'[e] PROVE varsel'[e] = Sjekket(data'[e])
        OBVIOUS
      <4>1. d = data[e] /\ varsel[e] = Sjekket(data[e])
        BY <2>1, <2>7 DEF VarselInv
      <4>2. sporsmal.hva \notin Sjekket(data[e])
        BY <2>1, <2>2, <4>1, SvartUendret
      <4>3. varsel'[e] = varsel[e] \ {sporsmal.hva}
        BY <1>1, <2>3
      <4> QED BY <2>7, <4>1, <4>2, <4>3
    <3>2. tilstand[e] = "starter" => spurt[e] = Ukjent
      BY <2>1 DEF VarselInv
    <3>3. tilstand[e] \in {"plattformer", "lastet"} /\ e \notin foreldet'
            => roller'[e] = spurt[e].roller \ data'[e].bekreftet
      <4> SUFFICES ASSUME tilstand[e] \in {"plattformer", "lastet"}, e \notin foreldet'
                   PROVE  roller'[e] = spurt[e].roller \ d.bekreftet
        BY <2>7
      <4>1. Aktuell(sporsmal) /\ roller[e] = spurt[e].roller \ data[e].bekreftet
        BY <2>1, <2>3 DEF VarselInv
      <4>2. CASE sporsmal.hva = "prisenhet"
        <5>1. sporsmal.roller = roller[e] /\ roller'[e] = {}
          BY <1>1, <2>1, <2>3, <4>1, <4>2 DEF Aktuell
        <5> QED BY <2>5, <4>1, <4>2, <5>1
      <4>3. CASE sporsmal.hva # "prisenhet"
        BY <2>3, <2>6, <4>1, <4>3
      <4> QED BY <4>2, <4>3
    <3> QED BY <2>3, <3>1, <3>2, <3>3 DEF VarselFor, Sjekket, Bes, Varsel, Rader, Ukjent
  <2> QED BY <1>1, <2>3, <2>7, <2>8, VarselEtt
<1>14. ASSUME NEW e \in Anlegg, tilstand[e] = "ute",
              \A f \in Anlegg : f # e => data'[f] = data[f],
              UNCHANGED <<tilstand, reload, varsel, roller, spurt>>, foreldet \subseteq foreldet'
       PROVE  VarselInv'
  <2>1. VarselFor(e)'
    BY <1>14 DEF VarselFor
  <2> QED BY <1>14, <2>1, VarselEtt
<1>15. CASE VelgSensorer
  <2>1. PICK n \in Flyt :
          \/ UNCHANGED data
          \/ n.dso # Egendefinert /\ \E e \in Anlegg : Opprett(e, n, Ingen, Ingen, "ingen")
    BY <1>15 DEF VelgSensorer
  <2>2. UNCHANGED <<tilstand, reload, varsel, roller, spurt, foreldet>>
    BY <1>15 DEF VelgSensorer, oppsett
  <2>3. ASSUME NEW e \in Anlegg, n.dso # Egendefinert, Opprett(e, n, Ingen, Ingen, "ingen")
        PROVE  VarselInv'
    BY <1>14, <2>2, <2>3, NyOppforing
  <2> QED BY <1>2, <2>1, <2>2, <2>3
<1>16. ASSUME NEW e \in Anlegg, Fullfor(e) PROVE VarselInv'
  <2>1. UNCHANGED <<tilstand, reload, varsel, roller, spurt>> /\ foreldet \subseteq foreldet'
    BY <1>16 DEF Fullfor, oppsett
  <2> QED BY <1>14, <1>16, <2>1, FullfortOK
<1> QED
  BY <1>2, <1>4, <1>5, <1>6, <1>7, <1>8, <1>9, <1>10, <1>11, <1>12, <1>13, <1>15, <1>16
  DEF Next, vars, oppsett, ApneSkjema, LukkSkjema, ApneVarsel, LukkVarsel, Forkast

-----------------------------------------------------------------------------
(***************************************************************************)
(* The theorems.                                                           *)
(***************************************************************************)
\* The inductive invariant holds in every state of every behaviour.
LEMMA Induktiv == Spec => []IInv
<1>1. IInv /\ [Next]_vars => IInv'
  BY TypeSteg, OppforingSteg, GjelderSteg, VarselSteg DEF IInv
<1> QED BY <1>1, StartOK, PTL DEF Spec

\* Every variable is of its kind, whatever dialogs are opened.
THEOREM TypeTheorem == Spec => []TypeOK
<1>1. IInv => TypeOK
  BY DEF IInv
<1> QED BY <1>1, Induktiv, PTL

\* The stored choices of an entry belong to its company and no two entries
\* count the same power sensor, whatever the user is asked and answers.
THEOREM OppforingTheorem == Spec => []OppforingeneStemmer
<1>1. IInv => OppforingeneStemmer
  BY DEF IInv
<1> QED BY <1>1, Induktiv, PTL

\* A running entry calculates with what its data say, or waits for a reload.
THEOREM GjelderTheorem == Spec => []InnstillingeneGjelder
<1>1. IInv => InnstillingeneGjelder
  BY DEF IInv, GjelderInv, InnstillingeneGjelder
<1> QED BY <1>1, Induktiv, PTL

\* A running entry has the issues its data and prices call for, or waits for
\* a reload.
THEOREM VarselTheorem == Spec => []VarsleneStemmer
<1>1. IInv => VarsleneStemmer
  BY DEF IInv, VarselInv, VarsleneStemmer
<1> QED BY <1>1, Induktiv, PTL

=============================================================================

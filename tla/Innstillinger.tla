---------------------------- MODULE Innstillinger ----------------------------
(***************************************************************************)
(* What a user decides about an installation, and when it takes effect:    *)
(* the dialogs of config_flow.py and repairs.py, the repair issues that    *)
(* __init__.py and the poll raise from an entry's own data, and the        *)
(* reloads that bring a change into the coordinator.  Dialogs, setups and  *)
(* polls interleave; a step ends where the code awaits or the user thinks. *)
(*                                                                         *)
(* Abstractions.  A rate stands for the two numbers of day and night.  It  *)
(* is known by whose it is: a number the user typed for a company, one     *)
(* stored before schema 5, or the company's list.  Tax zone, kind of home, *)
(* Norgespris, VAT of the spot price, limits and the optional energy and   *)
(* export sensors are copied like the supplier's price sensor, and left    *)
(* out.  A form whose sensors are refused is like one not sent.  Config    *)
(* entries are on disk at once; the issues of a restarted Home Assistant   *)
(* are inactive until raised again.  Mergers and migration are in Oppsett. *)
(***************************************************************************)
EXTENDS Integers

CONSTANTS
  Anlegg,          \* the config entries there may be
  Katalog,         \* DSO_LIST without Egendefinert
  Stottet,         \* those with supported, which can be chosen
  Sesong,          \* those with energiledd_perioder
  Delt,            \* those with delt_i
  Avvikende,       \* those whose list today is not the rate of old entries
  Sikringstrinn,   \* fastledd_sikringstrinn of each, none if the fee is by peaks
  Egendefinert,    \* DSO_EGENDEFINERT
  Effektsensorer,
  Utgangspunkt,    \* the entries the installation may start with
  MaksDialoger,    \* bound: the dialogs opened
  Ingen

VARIABLES
  data,      \* the config entries, Ingen where there is none
  tilstand,  \* the state of each entry
  reload,    \* whether a reload of the entry waits for its setup lock
  gjelder,   \* what the entry's coordinator was built with
  spurt,     \* _prisenhet_issue_roller and _synket of the coordinator
  varsel,    \* the issues of the entry's own data in the registry
  roller,    \* the roles prisenhet_ubekreftet asks about, none if it is not there
  skjema,    \* the data an open settings form was drawn from
  sporsmal,  \* the open repair dialog
  ny,        \* the flow of a new entry, once past its sensors
  dialoger,  \* the dialogs opened
  glipp,     \* history: entries changed while they were being set up
  foreldet   \* history: entries with an answer to what was no longer so

oppsett == <<tilstand, gjelder, spurt>>
dialog == <<skjema, sporsmal, ny, dialoger>>
vars == <<data, reload, varsel, roller, glipp, foreldet, oppsett, dialog>>

Selskap == Katalog \cup {Egendefinert}
Prisroller == {"spotpris", "leverandorpris"}

\* The rows to choose from where _bruker_sikringstrinn.
Rader(c) == IF c \in Katalog THEN Sikringstrinn[c] ELSE {}
Rad == UNION {Rader(c) : c \in Katalog}

Sats == [av : Selskap, slag : {"tastet", "gammel", "katalog"}]
Tastet(c) == [av |-> c, slag |-> "tastet"]
Listen(c) == [av |-> c, slag |-> "katalog"]

Oppforing ==
  [dso : Selskap, modus : {"catalog", "manual", "legacy_unconfirmed"},
   sats : Sats \cup {Ingen},                \* energiledd_dag, energiledd_natt
   sikring : Rad \cup {Ingen},              \* sikringstrinn
   trinn : {"ingen", "lesbar", "ulesbar"},  \* egendefinert_kapasitetstrinn
   effekt : Effektsensorer, lev : BOOLEAN,  \* power sensor; whether a supplier's price
   sjekket : BOOLEAN,                       \* egendefinert_satser_bekreftet
   bekreftet : SUBSET Prisroller]           \* prisenhet_bekreftet

Varsel == {"tariff", "egensats", "egentrinn", "sikring", "delt"}

\* An open repair dialog; a flow of a new entry.
Sporsmal == [anlegg : Anlegg, hva : {"tariff", "egensats", "prisenhet"}, roller : SUBSET Prisroller]
Flyt == [dso : Stottet \cup {Egendefinert}, effekt : Effektsensorer, lev : BOOLEAN]

ASSUME KatalogAssumption ==
  /\ Egendefinert \notin Katalog
  /\ Stottet \subseteq Katalog /\ Sesong \subseteq Katalog
  /\ Delt \subseteq Katalog /\ Avvikende \subseteq Katalog
  /\ DOMAIN Sikringstrinn = Katalog
  /\ \A c, d \in Katalog : c # d => Sikringstrinn[c] \cap Sikringstrinn[d] = {}
  /\ MaksDialoger \in Nat
  /\ Ingen \notin Sats \cup Rad \cup Oppforing \cup Sporsmal \cup Flyt

Finnes == {e \in Anlegg : data[e] # Ingen}

-----------------------------------------------------------------------------
(***************************************************************************)
(* What the data of an entry mean.                                         *)
(***************************************************************************)
\* Each stored choice belongs to the company of the entry.
Ordnet(d) ==
  IF d.dso = Egendefinert
  THEN d.modus = "manual" /\ d.sats # Ingen /\ d.sikring = Ingen
  ELSE /\ IF d.modus = "catalog" THEN d.sats = Ingen
          ELSE d.sats # Ingen /\ d.sats.av = d.dso /\ d.sats.slag # "katalog"
       /\ d.sikring \in Rader(d.dso) \cup {Ingen}
       /\ d.trinn = "ingen"

ASSUME UtgangspunktAssumption ==
  \A ds \in Utgangspunkt :
    /\ ds \in [Anlegg -> Oppforing \cup {Ingen}]
    /\ \A e \in Anlegg : ds[e] # Ingen => Ordnet(ds[e])
    /\ \A e, f \in Anlegg : ds[e] # Ingen /\ ds[f] # Ingen /\ e # f => ds[e].effekt # ds[f].effekt

\* What NettleieCoordinator takes from its entry.
Gjeldende(d) ==
  [dso |-> d.dso, effekt |-> d.effekt, lev |-> d.lev, sikring |-> d.sikring, trinn |-> d.trinn,
   sats |-> IF d.modus = "manual" /\ d.dso \notin Sesong /\ d.sats # Ingen THEN d.sats
            ELSE Listen(d.dso)]

\* The conditions of _check_tariffmodus, _check_egendefinerte_satser,
\* _check_egendefinert_fastledd, _check_sikringstrinn and _check_delt_dso.
Bes(d, v) ==
  CASE v = "tariff" -> /\ d.modus = "legacy_unconfirmed" /\ d.dso \notin Sesong
                       /\ d.sats # Ingen /\ d.dso \in Avvikende
    [] v = "egensats" -> d.dso = Egendefinert /\ ~ d.sjekket
    [] v = "egentrinn" -> d.dso = Egendefinert /\ d.trinn # "lesbar"
    [] v = "sikring" -> Rader(d.dso) # {} /\ d.sikring \notin Rader(d.dso)
    [] v = "delt" -> d.dso \in Delt
Sjekket(d) == {v \in Varsel : Bes(d, v)}

-----------------------------------------------------------------------------
(***************************************************************************)
(* A save: what the form holds, made into the data of the entry.           *)
(***************************************************************************)
\* What a form drawn from s can be sent with.  The rate stands in it where the
\* user typed one, and must stand in it for Egendefinert; the row where the
\* company has rows; the steps for Egendefinert.
Skjemasats(s) ==
  IF s.dso = Egendefinert THEN {IF s.sats = Ingen THEN Listen(Egendefinert) ELSE s.sats}
  ELSE {Ingen} \cup (IF s.modus = "manual" THEN {s.sats} ELSE {})
Utfylt(s) ==
  {i \in [dso : Stottet \cup {Egendefinert},
          sats : Skjemasats(s) \cup {Tastet(c) : c \in Selskap},
          sikring : IF Rader(s.dso) = {} THEN {Ingen} ELSE Rader(s.dso),
          trinn : IF s.dso = Egendefinert THEN {"ingen", "lesbar", "ulesbar"} ELSE {"ingen"},
          effekt : Effektsensorer, lev : BOOLEAN] :
     i.sats \in Skjemasats(s) \cup {Tastet(i.dso)}}

\* _validate_options_input: the steps can be read, and a new power sensor is
\* not that of another installation.
Godtatt(e, i) ==
  /\ i.trinn # "ulesbar"
  /\ i.effekt # data[e].effekt => \A f \in Finnes \ {e} : data[f].effekt # i.effekt

\* _apply_dso_derivation
Avledet(i, d) ==
  IF i.dso = d.dso THEN i
  ELSE [i EXCEPT !.sats = IF i.dso = Egendefinert /\ @ = Ingen
                          THEN IF d.sats # Ingen THEN d.sats ELSE Listen(d.dso)
                          ELSE @,
                 !.sikring = IF @ \in Rader(i.dso) THEN @ ELSE Ingen,
                 !.trinn = IF i.dso = Egendefinert THEN @ ELSE "ingen"]

\* Mutant of Tariff: a rate in the form survives a change of company.
TariffUansett(i, d) ==
  IF i.dso = Egendefinert
  THEN [modus |-> "manual", sats |-> IF i.sats = Ingen THEN d.sats ELSE i.sats]
  ELSE [modus |-> IF i.sats = Ingen THEN "catalog" ELSE "manual", sats |-> i.sats]

\* _sett_tariffmodus
Tariff(i, d) ==
  IF i.dso = Egendefinert
  THEN [modus |-> "manual", sats |-> IF i.sats = Ingen THEN d.sats ELSE i.sats]
  ELSE IF i.dso # d.dso \/ i.sats = Ingen THEN [modus |-> "catalog", sats |-> Ingen]
  ELSE [modus |-> "manual", sats |-> i.sats]

\* _ny_entry_data on what _apply_dso_derivation left; a row that was not in the
\* form stays as it was, unless the company changed.
NyData(i, d) ==
  LET a == Avledet(i, d)
      t == Tariff(a, d)
  IN  [d EXCEPT !.dso = a.dso, !.modus = t.modus, !.sats = t.sats,
                !.sikring = IF a.dso = d.dso /\ a.sikring = Ingen THEN @ ELSE a.sikring,
                !.trinn = a.trinn, !.effekt = a.effekt, !.lev = a.lev,
                !.sjekket = @ \/ (a.dso # d.dso /\ a.dso = Egendefinert)]

\* Mutant of Reload: only a change of company is taken for a change.
ReloadVedBytte(e, d, fraSkjema) ==
  \/ d.dso # data[e].dso /\ tilstand[e] \in {"lastet", "lukker"}
  \/ fraSkjema /\ tilstand[e] \in {"ute", "venter"}

\* The update listener, which an entry has from the end of its setup until it is
\* unloaded, and _lagre_entry_data for one that is not running.
Reload(e, d, fraSkjema) ==
  \/ d # data[e] /\ tilstand[e] \in {"lastet", "lukker"}
  \/ fraSkjema /\ tilstand[e] \in {"ute", "venter"}

Lagre(e, d, fraSkjema) ==
  /\ data' = [data EXCEPT ![e] = d]
  /\ reload' = [reload EXCEPT ![e] = @ \/ Reload(e, d, fraSkjema)]
  /\ glipp' = IF d # data[e] /\ tilstand[e] \in {"starter", "plattformer"}
              THEN glipp \cup {e} ELSE glipp

-----------------------------------------------------------------------------
(***************************************************************************)
(* The life of an entry.                                                   *)
(***************************************************************************)
\* What a new coordinator remembers of the issue.
Ukjent == [roller |-> {}, synket |-> FALSE]

\* async_setup_entry until it awaits the coordinator it has built.
Bygg(e) ==
  /\ tilstand' = [tilstand EXCEPT ![e] = "starter"]
  /\ gjelder' = [gjelder EXCEPT ![e] = Gjeldende(data[e])]
  /\ spurt' = [spurt EXCEPT ![e] = Ukjent]
  /\ glipp' = glipp \ {e}
  /\ UNCHANGED <<data, varsel, roller, foreldet, dialog>>

\* A new or restarted entry, a retry, or the second half of a reload.
Start(e) ==
  /\ e \in Finnes /\ tilstand[e] \in {"ute", "venter", "lukker"}
  /\ Bygg(e)
  /\ UNCHANGED reload

\* async_reload, when the entry's lock is free.
Last(e) ==
  /\ e \in Finnes /\ reload[e]
  /\ reload' = [reload EXCEPT ![e] = FALSE]
  /\ \/ /\ tilstand[e] = "lastet"
        /\ tilstand' = [tilstand EXCEPT ![e] = "lukker"]
        /\ UNCHANGED <<data, varsel, roller, gjelder, spurt, glipp, foreldet, dialog>>
     \/ tilstand[e] \in {"ute", "venter"} /\ Bygg(e)

Feiler(e) ==
  /\ tilstand[e] \in {"starter", "plattformer"}
  /\ tilstand' = [tilstand EXCEPT ![e] = "venter"]
  /\ gjelder' = [gjelder EXCEPT ![e] = Ingen]
  /\ spurt' = [spurt EXCEPT ![e] = Ukjent]
  /\ UNCHANGED <<data, reload, varsel, roller, glipp, foreldet, dialog>>

\* Mutant of Meldt: the first poll trusts its empty memory.
MeldtUtenSynk(s, i, u) == IF u = s.roller THEN i ELSE u

\* _meld_prisenhet_ubekreftet: the issue i after a poll with u unconfirmed,
\* when the coordinator remembers s.  It is touched when it is not as remembered.
Meldt(s, i, u) == IF u = s.roller /\ (u # {} \/ s.synket) THEN i ELSE u

LesPriser(e) ==
  \E uten \in SUBSET IF gjelder[e].lev THEN Prisroller ELSE {"spotpris"} :
    LET u == uten \ data[e].bekreftet
    IN  /\ roller' = [roller EXCEPT ![e] = Meldt(spurt[e], @, u)]
        /\ spurt' = [spurt EXCEPT ![e] = [roller |-> u, synket |-> TRUE]]

ForstePoll(e) ==
  /\ tilstand[e] = "starter"
  /\ tilstand' = [tilstand EXCEPT ![e] = "plattformer"]
  /\ LesPriser(e)
  /\ UNCHANGED <<data, reload, gjelder, varsel, glipp, foreldet, dialog>>

Poll(e) ==
  /\ tilstand[e] \in {"plattformer", "lastet", "lukker"}
  /\ LesPriser(e)
  /\ UNCHANGED <<data, reload, tilstand, gjelder, varsel, glipp, foreldet, dialog>>

\* The rest of async_setup_entry: the listener and the checks.
Ferdig(e) ==
  /\ tilstand[e] = "plattformer"
  /\ tilstand' = [tilstand EXCEPT ![e] = "lastet"]
  /\ varsel' = [varsel EXCEPT ![e] = Sjekket(data[e])]
  /\ UNCHANGED <<data, reload, roller, gjelder, spurt, glipp, foreldet, dialog>>

\* The entry is unloaded and removed; async_remove_entry clears its issues.
Fjern(e) ==
  /\ e \in Finnes /\ tilstand[e] \in {"ute", "venter", "lastet"}
  /\ data' = [data EXCEPT ![e] = Ingen]
  /\ tilstand' = [tilstand EXCEPT ![e] = "fjernet"]
  /\ reload' = [reload EXCEPT ![e] = FALSE]
  /\ varsel' = [varsel EXCEPT ![e] = {}]
  /\ roller' = [roller EXCEPT ![e] = {}]
  /\ gjelder' = [gjelder EXCEPT ![e] = Ingen]
  /\ spurt' = [spurt EXCEPT ![e] = Ukjent]
  /\ skjema' = [skjema EXCEPT ![e] = Ingen]
  /\ UNCHANGED <<sporsmal, ny, dialoger, glipp, foreldet>>

\* Home Assistant starts again.
Omstart ==
  /\ tilstand' = [e \in Anlegg |-> IF tilstand[e] = "fjernet" THEN "fjernet" ELSE "ute"]
  /\ reload' = [e \in Anlegg |-> FALSE]
  /\ gjelder' = [e \in Anlegg |-> Ingen]
  /\ spurt' = [e \in Anlegg |-> Ukjent]
  /\ varsel' = [e \in Anlegg |-> {}]
  /\ roller' = [e \in Anlegg |-> {}]
  /\ skjema' = [e \in Anlegg |-> Ingen]
  /\ sporsmal' = Ingen
  /\ ny' = Ingen
  /\ UNCHANGED <<data, dialoger, glipp, foreldet>>

-----------------------------------------------------------------------------
(***************************************************************************)
(* The dialogs.                                                            *)
(***************************************************************************)
Apne ==
  /\ dialoger < MaksDialoger
  /\ dialoger' = dialoger + 1

\* Options or reconfigure, drawn from the data of the moment.
ApneSkjema(e) ==
  /\ e \in Finnes /\ skjema[e] = Ingen
  /\ Apne
  /\ skjema' = [skjema EXCEPT ![e] = data[e]]
  /\ UNCHANGED <<data, reload, varsel, roller, glipp, foreldet, oppsett, sporsmal, ny>>

\* A form that is refused is drawn again.
LagreSkjema(e) ==
  /\ e \in Finnes /\ skjema[e] # Ingen
  /\ \E i \in Utfylt(skjema[e]) :
       IF Godtatt(e, i)
       THEN /\ Lagre(e, NyData(i, data[e]), TRUE)
            /\ foreldet' = IF skjema[e] = data[e] THEN foreldet ELSE foreldet \cup {e}
            /\ skjema' = [skjema EXCEPT ![e] = Ingen]
       ELSE /\ skjema' = [skjema EXCEPT ![e] = data[e]]
            /\ UNCHANGED <<data, reload, glipp, foreldet>>
  /\ UNCHANGED <<varsel, roller, oppsett, sporsmal, ny, dialoger>>

LukkSkjema(e) ==
  /\ skjema[e] # Ingen
  /\ skjema' = [skjema EXCEPT ![e] = Ingen]
  /\ UNCHANGED <<data, reload, varsel, roller, glipp, foreldet, oppsett, sporsmal, ny, dialoger>>

\* async_create_fix_flow: the roles of a question are those of its issue.
ApneVarsel(e) ==
  /\ sporsmal = Ingen
  /\ Apne
  /\ \/ \E v \in varsel[e] \cap {"tariff", "egensats"} :
          sporsmal' = [anlegg |-> e, hva |-> v, roller |-> {}]
     \/ /\ roller[e] # {}
        /\ sporsmal' = [anlegg |-> e, hva |-> "prisenhet", roller |-> roller[e]]
  /\ UNCHANGED <<data, reload, varsel, roller, glipp, foreldet, oppsett, skjema, ny>>

\* The data after an answer: _skriv_modus with one answer or the other, and the
\* two _merk_bekreftet.
Svart(d, q) ==
  CASE q.hva = "tariff" -> {[d EXCEPT !.modus = "catalog", !.sats = Ingen],
                            [d EXCEPT !.modus = "manual"]}
    [] q.hva = "egensats" -> {[d EXCEPT !.sjekket = TRUE]}
    [] q.hva = "prisenhet" -> {[d EXCEPT !.bekreftet = @ \cup q.roller]}

\* Whether the issue of a question still asks it.
Aktuell(q) ==
  IF q.hva = "prisenhet" THEN q.roller = roller[q.anlegg] ELSE Bes(data[q.anlegg], q.hva)

\* The answer to a question about an entry that is there; Home Assistant then
\* deletes the issue, whatever it asks by now.
Svar(e) ==
  /\ sporsmal # Ingen /\ e = sporsmal.anlegg /\ e \in Finnes
  /\ \E d \in Svart(data[e], sporsmal) : Lagre(e, d, FALSE)
  /\ foreldet' = IF Aktuell(sporsmal) THEN foreldet ELSE foreldet \cup {e}
  /\ varsel' = [varsel EXCEPT ![e] = @ \ {sporsmal.hva}]
  /\ roller' = IF sporsmal.hva = "prisenhet" THEN [roller EXCEPT ![e] = {}] ELSE roller
  /\ sporsmal' = Ingen
  /\ UNCHANGED <<oppsett, skjema, ny, dialoger>>

\* Closed, or answered when its entry is gone.
LukkVarsel ==
  /\ sporsmal # Ingen
  /\ sporsmal' = Ingen
  /\ UNCHANGED <<data, reload, varsel, roller, glipp, foreldet, oppsett, skjema, ny, dialoger>>

\* _create_entry, with what the flow has gathered.
Opprett(e, n, sats, rad, trinn) ==
  /\ data[e] = Ingen /\ tilstand[e] = "ute"
  /\ data' = [data EXCEPT ![e] =
       [dso |-> n.dso, modus |-> IF n.dso = Egendefinert THEN "manual" ELSE "catalog",
        sats |-> sats, sikring |-> rad, trinn |-> trinn, effekt |-> n.effekt, lev |-> n.lev,
        sjekket |-> n.dso = Egendefinert, bekreftet |-> {}]]

\* async_step_user and async_step_sensors: no entry has the power sensor.  A
\* company with a list and without rows needs no more.
VelgSensorer ==
  /\ ny = Ingen
  /\ Apne
  /\ \E n \in {m \in Flyt : \A f \in Finnes : data[f].effekt # m.effekt} :
       IF n.dso = Egendefinert \/ Rader(n.dso) # {}
       THEN ny' = n /\ UNCHANGED data
       ELSE ny' = Ingen /\ \E e \in Anlegg : Opprett(e, n, Ingen, Ingen, "ingen")
  /\ UNCHANGED <<reload, varsel, roller, glipp, foreldet, oppsett, skjema, sporsmal>>

\* async_step_pricing or async_step_sikring.  The power sensor is not looked
\* at again.
Fullfor(e) ==
  /\ ny # Ingen
  /\ IF ny.dso = Egendefinert
     THEN \E sats \in {Tastet(Egendefinert), Listen(Egendefinert)}, trinn \in {"ingen", "lesbar"} :
            Opprett(e, ny, sats, Ingen, trinn)
     ELSE \E rad \in Rader(ny.dso) : Opprett(e, ny, Ingen, rad, "ingen")
  /\ ny' = Ingen
  /\ foreldet' = IF \E f \in Finnes : data[f].effekt = ny.effekt THEN foreldet \cup {e} ELSE foreldet
  /\ UNCHANGED <<reload, varsel, roller, glipp, oppsett, skjema, sporsmal, dialoger>>

Forkast ==
  /\ ny # Ingen
  /\ ny' = Ingen
  /\ UNCHANGED <<data, reload, varsel, roller, glipp, foreldet, oppsett, skjema, sporsmal, dialoger>>

-----------------------------------------------------------------------------
Init ==
  /\ data \in Utgangspunkt
  /\ tilstand = [e \in Anlegg |-> "ute"]
  /\ reload = [e \in Anlegg |-> FALSE]
  /\ gjelder = [e \in Anlegg |-> Ingen]
  /\ spurt = [e \in Anlegg |-> Ukjent]
  /\ varsel = [e \in Anlegg |-> {}]
  /\ roller = [e \in Anlegg |-> {}]
  /\ skjema = [e \in Anlegg |-> Ingen]
  /\ sporsmal = Ingen
  /\ ny = Ingen
  /\ dialoger = 0
  /\ glipp = {}
  /\ foreldet = {}

Next ==
  \/ \E e \in Anlegg :
       \/ Start(e) \/ Last(e) \/ Feiler(e) \/ ForstePoll(e) \/ Poll(e) \/ Ferdig(e)
       \/ Fjern(e)
       \/ ApneSkjema(e) \/ LagreSkjema(e) \/ LukkSkjema(e)
       \/ ApneVarsel(e) \/ Svar(e) \/ Fullfor(e)
  \/ Omstart \/ LukkVarsel \/ VelgSensorer \/ Forkast

Spec == Init /\ [][Next]_vars

-----------------------------------------------------------------------------
(***************************************************************************)
(* Properties.                                                             *)
(***************************************************************************)
\* Every variable is of its kind.
TypeOK ==
  /\ data \in [Anlegg -> Oppforing \cup {Ingen}]
  /\ tilstand \in [Anlegg -> {"ute", "starter", "plattformer", "lastet", "lukker", "venter", "fjernet"}]
  /\ reload \in [Anlegg -> BOOLEAN]
  /\ gjelder \in [Anlegg -> {Gjeldende(d) : d \in Oppforing} \cup {Ingen}]
  /\ spurt \in [Anlegg -> [roller : SUBSET Prisroller, synket : BOOLEAN]]
  /\ varsel \in [Anlegg -> SUBSET Varsel]
  /\ roller \in [Anlegg -> SUBSET Prisroller]
  /\ skjema \in [Anlegg -> Oppforing \cup {Ingen}]
  /\ sporsmal \in Sporsmal \cup {Ingen} /\ ny \in Flyt \cup {Ingen}
  /\ dialoger \in Nat
  /\ glipp \subseteq Anlegg /\ foreldet \subseteq Anlegg

\* Whatever dialogs an entry has been through, its rate, mode, row and steps
\* belong to its company and no power sensor is counted in two installations.
\* Only an answer to what was no longer so can break it: a form drawn from
\* other data, a question no longer asked, a sensor taken since it was chosen
\* (_apply_dso_derivation, _sett_tariffmodus, _validate_options_input).
OppforingeneStemmer ==
  \A e \in Finnes \ foreldet :
    /\ Ordnet(data[e])
    /\ \A f \in Finnes \ foreldet : e # f => data[e].effekt # data[f].effekt

\* A running entry that waits for no reload calculates with what its data say,
\* unless they were changed while it was set up, which nothing looks at
\* (_lagre_entry_data, _async_update_options).
InnstillingeneGjelder ==
  \A e \in Finnes \ glipp :
    tilstand[e] = "lastet" /\ ~ reload[e] => gjelder[e] = Gjeldende(data[e])

\* A running entry that waits for no reload has the issues its data call for,
\* and the question of the price unit is about the sensors the last poll read
\* without one and the user has not confirmed; over answers, forms, reloads and
\* failed setups, unless a question was answered that was no longer asked
\* (the _check functions, _meld_prisenhet_ubekreftet, repairs.py).
VarsleneStemmer ==
  \A e \in Finnes :
    tilstand[e] = "lastet" /\ ~ reload[e] =>
      /\ varsel[e] = Sjekket(data[e])
      /\ e \notin foreldet => roller[e] = spurt[e].roller \ data[e].bekreftet

=============================================================================

------------------------------- MODULE Oppsett -------------------------------
(***************************************************************************)
(* The life of the config entries of __init__.py: migration to schema 5,   *)
(* the move from a merged grid company to the one that took it over, the   *)
(* history file brought from the company's name to the entry's, loading    *)
(* and unloading, and the one calendar watch (satsvakt) all entries share. *)
(* Entries are set up concurrently; a step ends where the code awaits.     *)
(*                                                                         *)
(* Abstractions.  A history is a token: the key of the file it was in to   *)
(* begin with.  A rate is the company whose price list it came from;       *)
(* whether it differs from the catalogue is left open.  Entries start at   *)
(* schema 4 or 5.  Home Assistant writes the entries to disk some time     *)
(* after they change, all in one file; its issue registry is taken to be   *)
(* on disk at once.  The notice of a merger, the checks of one entry's own *)
(* data at the end of a setup (fuse size, split company, own rates and     *)
(* steps, tariff mode) and the renamed entities touch nothing modelled.    *)
(* Platforms always unload, and the entry counts as loaded while they do.  *)
(***************************************************************************)
EXTENDS Integers

CONSTANTS
  Anlegg,             \* the config entries
  Katalog,            \* DSO_LIST
  Fusjon,             \* DSO_MIGRATIONS: merged company -> the one that took it over
  Egendefinert,       \* the user's own grid company, without a catalogue
  HarNorgespris,      \* the entries with Norgespris
  Utgangspunkt,       \* the data the entries may start from
  Filer,              \* the keys that have a history file to begin with
  SatserGjelderAar, NorgesprisSluttAar,
  ForsteAar, SisteAar, \* bound: the years seen
  Satser,             \* SATSER_ISSUE_ID; a Norgespris issue is named by its entry
  Tom,                \* the history of a coordinator that found no file
  Ingen

VARIABLES
  fase,     \* where the setup of each entry stands
  data,     \* the entries in memory, Ingen for one that was removed
  disk,     \* the entries as last written
  fil,      \* .storage: the history file under each key
  hentet,   \* the history in the memory of each entry's coordinator
  vakt,     \* whether the daily watch is registered in hass.data
  aar,      \* the local year
  register  \* the calendar issues of the issue registry

vars == <<fase, data, disk, fil, hentet, vakt, aar, register>>

Fusjonerte == DOMAIN Fusjon
Selskap == Katalog \cup Fusjonerte \cup {Egendefinert}
Nokkel == Selskap \cup Anlegg
Historikk == Nokkel \cup {Tom}
Varsel == {Satser} \cup Anlegg
Issue == [aar : Int, dempet : BOOLEAN, aktiv : BOOLEAN]

ASSUME OppsettAssumption ==
  /\ Fusjon \in [Fusjonerte -> Katalog] /\ Fusjonerte \cap Katalog = {}
  /\ Egendefinert \notin Katalog \cup Fusjonerte
  /\ HarNorgespris \subseteq Anlegg /\ Anlegg \cap Selskap = {}
  /\ Satser \notin Anlegg
  /\ ForsteAar \in Int /\ SisteAar \in Int
  /\ SatserGjelderAar \in Int /\ NorgesprisSluttAar \in Int
  /\ Ingen \notin Historikk \cup Issue
  /\ Filer \subseteq Nokkel

-----------------------------------------------------------------------------
(***************************************************************************)
(* Migration of an entry's data.                                           *)
(***************************************************************************)
Modus == {"catalog", "manual", "legacy_unconfirmed"}
Oppforing ==
  [versjon : {4, 5}, dso : Selskap, modus : Modus, sats : Selskap \cup {Ingen}, paa : BOOLEAN]

\* What installations upgrade from: schema 4, or schema 5 with a company of the
\* catalogue; a stored rate is that of the entry's own company.
Oppgradert(d) ==
  /\ d.sats \in {Ingen, d.dso}
  /\ d.paa
  /\ d.versjon = 4 => d.modus = "catalog"
  /\ d.versjon = 5 => d.dso \notin Fusjonerte
  /\ d.versjon = 5 /\ d.dso = Egendefinert => d.modus = "manual"
  /\ d.versjon = 5 /\ d.modus # "catalog" => d.sats = d.dso

ASSUME UtgangspunktAssumption ==
  /\ Ingen \notin Oppforing
  /\ Utgangspunkt \subseteq {d \in [Anlegg -> Oppforing] : \A e \in Anlegg : Oppgradert(d[e])}

\* Mutant of AvledetModus: an unknown company is looked for before a merged one.
UkjentForst(d) ==
  IF d.dso \notin Katalog THEN {"manual"}
  ELSE IF d.sats = Ingen THEN {"catalog"} ELSE {"catalog", "legacy_unconfirmed"}

\* _avled_tariffmodus: the modes a schema 4 entry can get.  Egendefinert and a
\* company that is not in the list have no catalogue to fall back on.
AvledetModus(d) ==
  CASE d.dso \in Fusjonerte -> {"catalog"}
    [] d.dso \notin Katalog \cup Fusjonerte -> {"manual"}
    [] d.dso \in Katalog /\ d.sats = Ingen -> {"catalog"}
    [] OTHER -> {"catalog", "legacy_unconfirmed"}

\* async_migrate_entry from schema 4; the catalogue mode drops the stored rate.
Migrert(d) ==
  IF d.versjon = 5 THEN {d}
  ELSE {[d EXCEPT !.versjon = 5, !.modus = m, !.sats = IF m = "catalog" THEN Ingen ELSE @]
          : m \in AvledetModus(d)}

-----------------------------------------------------------------------------
(***************************************************************************)
(* The calendar issues.                                                    *)
(***************************************************************************)
Finnes == {e \in Anlegg : data[e] # Ingen}
Paa == {e \in Finnes : data[e].paa}
Lastet == {e \in Anlegg : fase[e] \in {"lastet", "lukker"}}

\* Mutants of Reist: the year is read from a field that a restart clears;
\* an issue of an earlier year is only updated.
ReistFraData(v) ==
  IF v = Ingen \/ ~ v.aktiv \/ v.aar # aar
  THEN [aar |-> aar, dempet |-> FALSE, aktiv |-> TRUE]
  ELSE v
ReistEnGang(v) ==
  IF v = Ingen THEN [aar |-> aar, dempet |-> FALSE, aktiv |-> TRUE]
  ELSE [v EXCEPT !.aktiv = TRUE]

\* _reis_med_aarsdemping: an issue of another year is deleted first, and the
\* user's dampening with it.
Reist(v) ==
  IF v = Ingen \/ v.aar # aar
  THEN [aar |-> aar, dempet |-> FALSE, aktiv |-> TRUE]
  ELSE [v EXCEPT !.aktiv = TRUE]

Gjelder(i) ==
  IF i = Satser THEN Paa # {} /\ aar > SatserGjelderAar
  ELSE i \in HarNorgespris /\ aar > NorgesprisSluttAar

\* _sjekk_satsvakt: the issue of the installation, and of each enabled entry.
Sjekket ==
  [i \in Varsel |->
     IF i # Satser /\ i \notin Paa THEN register[i]
     ELSE IF Gjelder(i) THEN Reist(register[i])
     ELSE Ingen]

-----------------------------------------------------------------------------
(***************************************************************************)
(* Setup of one entry.                                                     *)
(***************************************************************************)
\* Migration and the first part of async_setup_entry, which also removes the
\* issues of entries that are gone.
Start(e) ==
  /\ fase[e] = "ute" /\ e \in Paa
  /\ \E d \in Migrert(data[e]) :
       /\ data' = [data EXCEPT ![e] = d]
       /\ fase' = [fase EXCEPT ![e] = IF d.dso \in Fusjonerte THEN "flytter" ELSE "leser"]
  /\ register' = [i \in Varsel |-> IF i \in Anlegg \ Finnes THEN Ingen ELSE register[i]]
  /\ UNCHANGED <<disk, fil, hentet, vakt, aar>>

\* Mutant of Omdopt: the file of the company that took over is not looked for.
OmdoptUansett(fra, til) ==
  IF fil[fra] = Ingen THEN fil ELSE [fil EXCEPT ![til] = fil[fra], ![fra] = Ingen]

\* _migrate_storage_file_sync
Omdopt(fra, til) ==
  IF fil[fra] = Ingen \/ fil[til] # Ingen THEN fil
  ELSE [fil EXCEPT ![til] = fil[fra], ![fra] = Ingen]

\* The rename runs in an executor thread; an OSError is only logged.
FlyttFil(e) ==
  /\ fase[e] = "flytter"
  /\ fase' = [fase EXCEPT ![e] = "flyttet"]
  /\ fil' \in {Omdopt(data[e].dso, Fusjon[data[e].dso]), fil}
  /\ UNCHANGED <<data, disk, hentet, vakt, aar, register>>

Fusjoner(e) ==
  /\ fase[e] = "flyttet"
  /\ fase' = [fase EXCEPT ![e] = "leser"]
  /\ data' = [data EXCEPT ![e].dso = Fusjon[@]]
  /\ UNCHANGED <<disk, fil, hentet, vakt, aar, register>>

\* _load_stored_data: the entry's own file, else the one under the company.
Les(e) ==
  /\ fase[e] = "leser"
  /\ IF fil[e] # Ingen
     THEN /\ hentet' = [hentet EXCEPT ![e] = fil[e]]
          /\ fase' = [fase EXCEPT ![e] = "plattform"]
     ELSE /\ fase' = [fase EXCEPT ![e] = "leser_gammel"]
          /\ UNCHANGED hentet
  /\ UNCHANGED <<data, disk, fil, vakt, aar, register>>

LesGammel(e) ==
  /\ fase[e] = "leser_gammel"
  /\ IF fil[data[e].dso] # Ingen
     THEN /\ hentet' = [hentet EXCEPT ![e] = fil[data[e].dso]]
          /\ fase' = [fase EXCEPT ![e] = "lagrer"]
     ELSE /\ hentet' = [hentet EXCEPT ![e] = Tom]
          /\ fase' = [fase EXCEPT ![e] = "plattform"]
  /\ UNCHANGED <<data, disk, fil, vakt, aar, register>>

\* A save or a removal that fails ends the move; the history is in memory.
Lagre(e) ==
  /\ fase[e] = "lagrer"
  /\ \/ /\ fil' = [fil EXCEPT ![e] = hentet[e]]
        /\ fase' = [fase EXCEPT ![e] = "sletter"]
     \/ /\ fase' = [fase EXCEPT ![e] = "plattform"]
        /\ UNCHANGED fil
  /\ UNCHANGED <<data, disk, hentet, vakt, aar, register>>

Slett(e) ==
  /\ fase[e] = "sletter"
  /\ fase' = [fase EXCEPT ![e] = "plattform"]
  /\ fil' \in {[fil EXCEPT ![data[e].dso] = Ingen], fil}
  /\ UNCHANGED <<data, disk, hentet, vakt, aar, register>>

\* async_config_entry_first_refresh: an exception while the history is read or in
\* the poll ends the setup, which Home Assistant tries again.
Mislykkes(e) ==
  /\ fase[e] \in {"leser", "leser_gammel", "plattform"}
  /\ fase' = [fase EXCEPT ![e] = "ute"]
  /\ hentet' = [hentet EXCEPT ![e] = Ingen]
  /\ UNCHANGED <<data, disk, fil, vakt, aar, register>>

\* A poll of the coordinator writes what it holds to the entry's file.
PollLagrer(e) ==
  /\ fase[e] \in {"plattform", "lastet"}
  /\ fil' = [fil EXCEPT ![e] = hentet[e]]
  /\ UNCHANGED <<fase, data, disk, hentet, vakt, aar, register>>

\* The platforms are set up; the rest of async_setup_entry.
Ferdig(e) ==
  /\ fase[e] = "plattform"
  /\ fase' = [fase EXCEPT ![e] = "lastet"]
  /\ register' = Sjekket
  /\ vakt' = TRUE
  /\ UNCHANGED <<data, disk, fil, hentet, aar>>

-----------------------------------------------------------------------------
(***************************************************************************)
(* Unloading, for a reload, a disabled entry or a removed one.             *)
(***************************************************************************)
Avslutt(e) ==
  /\ fase[e] = "lastet"
  /\ fase' = [fase EXCEPT ![e] = "lukker"]
  /\ UNCHANGED <<data, disk, fil, hentet, vakt, aar, register>>

\* Mutant of VaktEtter: the entry on its way out is counted too.
VaktSelv(e) == vakt /\ Lastet # {}

\* The end of async_unload_entry.
VaktEtter(e) == vakt /\ Lastet \ {e} # {}

Lukket(e) ==
  /\ fase[e] = "lukker"
  /\ fase' = [fase EXCEPT ![e] = "ute"]
  /\ hentet' = [hentet EXCEPT ![e] = Ingen]
  /\ vakt' = VaktEtter(e)
  /\ UNCHANGED <<data, disk, fil, aar, register>>

\* async_remove_entry, after the entry was unloaded.
Fjern(e) ==
  /\ fase[e] = "ute" /\ e \in Finnes
  /\ data' = [data EXCEPT ![e] = Ingen]
  /\ register' = [register EXCEPT ![e] = Ingen]
  /\ UNCHANGED <<fase, disk, fil, hentet, vakt, aar>>

-----------------------------------------------------------------------------
(***************************************************************************)
(* The user, Home Assistant and the calendar.                              *)
(***************************************************************************)
SlaaAvEllerPaa(e) ==
  /\ fase[e] \in {"ute", "lastet"} /\ e \in Finnes
  /\ data' = [data EXCEPT ![e].paa = ~ @]
  /\ UNCHANGED <<fase, disk, fil, hentet, vakt, aar, register>>

\* The user ignores an issue he is shown.
Dempe(i) ==
  /\ register[i] # Ingen /\ register[i].aktiv /\ ~ register[i].dempet
  /\ register' = [register EXCEPT ![i].dempet = TRUE]
  /\ UNCHANGED <<fase, data, disk, fil, hentet, vakt, aar>>

Skriv ==
  /\ disk # data
  /\ disk' = data
  /\ UNCHANGED <<fase, data, fil, hentet, vakt, aar, register>>

\* Home Assistant starts again, on the entries of memory or, after a crash, on
\* those of disk.  Issues are not persistent: what is left of one is when it
\* was made and whether it is ignored.
Omstart ==
  /\ data' \in {data, disk}
  /\ disk' = data'
  /\ fase' = [e \in Anlegg |-> "ute"]
  /\ hentet' = [e \in Anlegg |-> Ingen]
  /\ vakt' = FALSE
  /\ register' =
       [i \in Varsel |-> IF register[i] = Ingen THEN Ingen ELSE [register[i] EXCEPT !.aktiv = FALSE]]
  /\ UNCHANGED <<fil, aar>>

NyttAar ==
  /\ aar < SisteAar
  /\ aar' = aar + 1
  /\ UNCHANGED <<fase, data, disk, fil, hentet, vakt, register>>

\* The daily run of the watch.
Tikk ==
  /\ vakt
  /\ register' = Sjekket
  /\ UNCHANGED <<fase, data, disk, fil, hentet, vakt, aar>>

-----------------------------------------------------------------------------
Init ==
  /\ fase = [e \in Anlegg |-> "ute"]
  /\ data \in Utgangspunkt
  /\ disk = data
  /\ fil = [k \in Nokkel |-> IF k \in Filer THEN k ELSE Ingen]
  /\ hentet = [e \in Anlegg |-> Ingen]
  /\ vakt = FALSE
  /\ aar = ForsteAar
  /\ register = [i \in Varsel |-> Ingen]

Next ==
  \/ \E e \in Anlegg :
       \/ Start(e) \/ FlyttFil(e) \/ Fusjoner(e)
       \/ Les(e) \/ LesGammel(e) \/ Lagre(e) \/ Slett(e) \/ Mislykkes(e)
       \/ PollLagrer(e) \/ Ferdig(e)
       \/ Avslutt(e) \/ Lukket(e) \/ Fjern(e)
       \/ SlaaAvEllerPaa(e)
  \/ \E i \in Varsel : Dempe(i)
  \/ Skriv \/ Omstart \/ NyttAar \/ Tikk

Spec == Init /\ [][Next]_vars

\* The scheduler of Home Assistant runs a registered watch every day.
FairSpec == Spec /\ WF_vars(Tikk)

-----------------------------------------------------------------------------
(***************************************************************************)
(* Properties.                                                             *)
(***************************************************************************)
Fase ==
  {"ute", "flytter", "flyttet", "leser", "leser_gammel", "lagrer", "sletter", "plattform",
   "lastet", "lukker"}

\* Every variable is of its kind.
TypeOK ==
  /\ fase \in [Anlegg -> Fase]
  /\ data \in [Anlegg -> Oppforing \cup {Ingen}] /\ disk \in [Anlegg -> Oppforing \cup {Ingen}]
  /\ fil \in [Nokkel -> Historikk \cup {Ingen}]
  /\ hentet \in [Anlegg -> Historikk \cup {Ingen}]
  /\ vakt \in BOOLEAN
  /\ aar \in Int
  /\ register \in [Varsel -> Issue \cup {Ingen}]

\* The daily watch runs exactly while some entry is loaded, in whatever order
\* entries are loaded, unloaded, reloaded and removed (_start_satsvakt and the
\* end of async_unload_entry).
SatsvaktFolgerLastet == vakt <=> Lastet # {}

\* A loaded entry that does not follow the catalogue has no rate but one of its
\* own company: no crash between migration, rename and merger leaves the rate of
\* the company it came from in force (_avled_tariffmodus, async_setup_entry).
SatsHorerTilSelskapet ==
  \A e \in Lastet : data[e].modus # "catalog" => data[e].sats \in {Ingen, data[e].dso}

\* In an installation of two entries no step takes the last copy of a history off
\* the disk, whichever of the two move their files at the same time and wherever a
\* move is cut off (_migrate_storage_file_sync, _load_stored_data).  Of three that
\* is not so: the file under the company's name is removed long after it was read
\* (coordinator.py:2605), and may by then be what the merger has moved there.
IFil == {fil[k] : k \in Nokkel}
ToAnlegg == \E d, e \in Anlegg : Anlegg = {d, e}
IngenHistorikkTapt == [][ToAnlegg => IFil \ {Tom, Ingen} \subseteq IFil']_vars

\* An issue the user has ignored stays ignored for the rest of its year, over
\* restarts and new setups, while the entry is there and some entry is on
\* (_reis_med_aarsdemping).
DempingVarerAaret ==
  [][\A i \in Varsel :
       /\ register[i] # Ingen /\ register[i].dempet /\ register[i].aar = aar
       /\ Paa # {} /\ (i # Satser => i \in Finnes /\ i \in Finnes')
       => register'[i] # Ingen /\ register'[i].dempet]_vars

\* Once the rates are out of date, an installation with a loaded entry gets
\* the issue of this year, also when nothing restarts at New Year and when
\* last year's was ignored (_start_satsvakt).
ErVarslet == register[Satser] # Ingen /\ register[Satser].aar = aar /\ register[Satser].aktiv
NyttAarVarsles == (Lastet \cap Paa # {} /\ aar > SatserGjelderAar) ~> (ErVarslet \/ Lastet \cap Paa = {})

=============================================================================

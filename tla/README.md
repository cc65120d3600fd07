# Strømkalkulator: a TLA+ development

TLA+ modules, TLC runs and TLAPS proofs for the Home Assistant integration in
`src/custom_components/stromkalkulator`. The integration reads an energy meter
(or a power sensor) and a spot price sensor, settles the energy hour by hour,
and shows what a Norwegian electricity bill will say: the month's day and night
kWh, grid tariff, spot cost, support, capacity step, and the same for the month
that was just closed. The development also covers how a release is made
(`src/scripts/release_publish.py`), since what it publishes can not be taken
back.

- [The system](#the-system)
- [Modules](#modules)
- [Runs](#runs)
- [What the runs show of the code](#what-the-runs-show-of-the-code)
- [Proofs](#proofs)
- [Abstractions and what is not modelled](#abstractions-and-what-is-not-modelled)
- [Observations](#observations)
- [Plan](#plan)

## The system

Everything runs on one event loop. `DataUpdateCoordinator` calls the poll,
`_async_update_data`, about once a minute; a poll is never run by two tasks at
once and gives up control only where it awaits. The environment decides
everything else: when the sensors report and how late, when the clock passes
an hour, a day or a month, when the process stops, and whether a write of the
Store succeeds.

| Component | State | Operations | Interacts with |
|---|---|---|---|
| Price adapter, `avregning.py` `Prisadapter` | the latest accepted sample per price route (15 minutes) | `registrer`, `prisintervall`, `glem_for`, `til_lagring`, `fra_lagring` | owned by the book |
| The book, `avregning.py` `Avregningsbok` | posts per hour of the active month, a cache of built intervals, running sums with their contributions and a dirty set, folded sums, baseline reading, archived months | `bokfor`, `registrer_prisprove`, `intervall(er)`, `maanedssum`, `til_lagring`, `fra_lagring`, `sett_baseline` | called by the poll; written into the Store file with the coordinator's fields |
| Coordinator, `coordinator.py` | the month and day shown, the month's kWh and kroner, `_kr_bokfort` per hour, daily and weekly peaks, the previous month with its fixed fee, the tariff it was closed under and the weekly peaks of that moment | `_async_update_data`, `_handle_month_rollover`, `_etterbokfor_lukket_maned`, `_oppdater_lukkede_topper`, `_lukket_fastledd`, `_akkumuler_kroner`, `_oppdater_timesmaks`, `_prune_ukesmaks`, `_load_stored_data`, `_save_stored_data` | calls the book, the cost functions and the fixed fee; awaits only the Store |
| Cost per interval, `kostnad.py` | none | `kroner_for_intervall` and its parts | called by `_akkumuler_kroner` |
| Fixed fee, `fastledd.py` | none | from a tariff and the peaks to a basis, a capacity step and a fee, or to "unknown"; share of the month | called when the month closes, for a late tail of the closed month, at the load, and for display |
| Export book, `eksport.py` | energy per price route, a price adapter of its own, balances of the months shown | `registrer_pris`, `bokfor`, `avslutt_eldre`, `maaned`, `sett_apning`, `til_lagring`, `fra_lagring` | called by the poll, written in the Store file |
| Input watchdog, `coordinator.py` | last valid time per input, age of the spot price, the frozen meter clock, outages and issues of this process | `_oppdater_vakthold`, `_oppdater_vakthold_issues` | called by the poll; the clock goes into the Store; the issue registry of Home Assistant outlives a reload and not a restart |
| Input adapter, `inputadapter.py` | none | typed results of sensor states | called at the top of the poll |
| Setup and migration, `__init__.py` | config entry data, the Store file's name, one calendar watch (satsvakt) for all entries, calendar issues | `async_migrate_entry`, `async_setup_entry`, the move from a merged company, `_load_stored_data`'s move of the file, `async_unload_entry`, `async_remove_entry`, `_sjekk_satsvakt` | entries are set up at the same time; config entries, files, issue registry |
| Release flow, `scripts/release_publish.py`, `.github/workflows/release.yml` | none of its own: tags, releases, drafts, assets and attestations on GitHub | plan, build, attest, publish (`sikre_tagg`, `sikre_draft`, `sikre_asset`, `sikre_evidence`, publish) | GitHub's API; run again by people after a failure |
| Config and options flow, repair flows, `config_flow.py`, `repairs.py` | what an open form or dialog was drawn from | new entry, options, reconfigure, the three repair dialogs that write an answer | write the entry's data; Home Assistant reloads the entry; answer the issues `__init__.py` and the poll raise |
| Sensors, binary sensors, button, `sensor.py`, `binary_sensor.py`, `button.py` | the signature each sensor last wrote, the state it shows | `native_value`, `extra_state_attributes`, `available`, `last_reset`, `_handle_coordinator_update`, the button's report | read `coordinator.data`, which a poll publishes after its save; the statistics are made of what they write |
| Diagnostics, `diagnostikk.py` | none | `bygg_diagnostikk` | reads `coordinator.data` and the watchdog's memory, at any time |
| Catalogue, other scripts | none of their own | tables | read by the forms and the coordinator |

What is hard here:

- *Two clocks turn the month.* The book turns it when a reading observed in the
  new month is booked, the coordinator when a poll sees the wall clock in it.
  Either may be first, several boundaries may pass between two polls, and energy
  of the old month may arrive after the new one has begun.
- *Caches over moving input.* Intervals are built once and cached, sums are kept
  running and refreshed only for dirty hours, kroner are added as differences.
  Samples and energy for the same hour come in any order.
- *A save that compresses.* The Store holds three hours of intervals and folded
  sums for the rest; a restart must give the same settlement.
- *A save in the middle of the poll.* The rollover writes the Store between
  closing the old month and reading the new month's kWh from the book.
- *A closed month that is still corrected.* Its fixed fee depends on its own peaks, on
  the weekly peaks as they were when it closed, and on the tariff of that time,
  while the running year, the option and the table may have moved on.
- *Readings* repeat, come late, step backwards, jump, or change source.
- *Writes fail*, and the code logs it and goes on.
- *Clocks that a restart clears or moves.* The watchdog measures grace from
  memory, the frozen meter from a saved point in time, and hours of downtime
  must count for neither; issues in the registry live by other rules than the
  memory that raised them.
- *Entries side by side.* Two entries are set up at the same time, may be of the
  same company, read and remove each other's old file, share one daily watch,
  and may be cut off between any two awaits.
- *Forms that grow old.* A form or a repair dialog is drawn from the entry as it was and
  answered when the entry may be another company's; the save lands while the entry
  is being loaded, unloaded or reloaded, and only some of those states bring it
  into the coordinator.
- *Data that is published late.* A poll reads its clock and its inputs, books, awaits
  the save and only then publishes; midnight may fall in between. Most
  notifications write nothing, since a sensor skips those with an unchanged signature,
  and a value and its `last_reset` must still arrive together.
- *An API whose answers get lost.* Each writing call of a release may be done
  though it failed; the job dies and is run again, the main branch moves on with
  the same version, and people tidy up in between.

The properties that make the core correct, in the words of the contract in
`src/docs/kontrakter/avregning.md`: every kWh is booked once or counted as
rejected (C2.1, C5); a price belongs to its own hour and stands when the hour
is over (A2, C6); samples decide by poll time, not by call order (A2.1); an
archived month is immutable (C6); the same events give the same settlement with
or without a restart (C2.7); the shown month is the opening balance and the
book's own intervals (D); the kroner follow the energy, hour by hour (C2.4). A closed
month keeps the tariff it was closed under, late energy reaches its peaks and its
fee, and the weekly peaks are those of the last twelve months. Around the core:
an exported kWh has the price of its own route and the file is never behind what it must be (`eksport.py`); an issue is raised when and only when its
cause has lasted, and goes with it; no history is lost and no foreign rate is
charged over a merger; an ignored issue stays ignored for its year; a stored choice belongs to the entry's
company and reaches the coordinator, and a question is asked while it stands
(`docs/kontrakter/input-og-konfig.md` §4, §6, §8); what is shown is what the
last poll computed, and a number nobody knows is not shown as one (§10); what is
released is one commit in all its parts, and nothing public is touched again.

## Modules

| Module | Contents |
|---|---|
| `Avregning` | The kernel as operators on values, one per method of `Prisadapter` and `Avregningsbok`; a book is a record. No variables, so that the same operators serve the state machines and the proofs. |
| `Avregningsbok` | The book as a state machine: the clock, `Prisprove`, `Avles` (`bokfor`), `LesSummer`, `Lagre`, `Omstart`. |
| `Hovedbok` | What the book promises, without hours, prices, caches or files: one account per month that only grows while open, is closed once, and grows by exactly what is received; `Skriv` and `TaOpp` are the save and the restart. `Avregningsbok` maps its state to it (`ErEnHovedbok`). |
| `Prisadapter` | The price adapter alone: samples in any order, forgetting, saving, reading back. |
| `Eksportbok` | The export book as the poll drives it, on the variables of `Prisadapter`: `Poll` registers a price, books the exported power over the window since the last poll, folds and forgets; then `Skriv` or `Skrivefeil`; `Omstart`; a clock that may be set back. |
| `Fastledd` | The fixed fee as a pure rule on a tariff, daily peaks and weekly peaks: the basis by method, the step, the limit of the source's table, what is unknown. No variables; `Koordinator` extends it. |
| `Koordinator` | The poll around the book. `Poll` is `_async_update_data` up to its first await; `Skifte` is the save in the rollover and the rest of the poll; `Slutt` is the save at the end; `Krasj` is a restart, possible at each await and between polls, perhaps with another tariff. |
| `Vakthold` | The watchdog: `Poll` reads any answer of every input and goes through book, price, watchdog and issues in the code's order, with or without a save; `Omstart` is a restart or a reload. |
| `Oppsett` | The life of the config entries, one action per stretch between two awaits: `Start` (migration and the first part of the setup), `FlyttFil`, `Fusjoner`, `Les`, `LesGammel`, `Lagre`, `Slett`, `Mislykkes`, `PollLagrer`, `Ferdig`, `Avslutt`, `Lukket`, `Fjern`; the user's switch and ignore, `Skriv` (Home Assistant writes the entries), `Omstart`, `NyttAar`, `Tikk`. |
| `Innstillinger` | The dialogs of an entry and the life of the entry around them: see [below](#the-settings). |
| `Utgivelse` | The release job: `Plan`, `Attester`, `Les` (the reads of publish), then one action per writing call with its outcomes (done and answered, not done, done with the answer lost); `Krasj`, `Igjen`, `GiOpp`, pushes, and interventions by hand. |
| `Sensorverdier` | The data of a poll (`_build_data_dict`), and the value, attributes, availability and `last_reset` of every entity, as operators on the settings, the account and what the poll read. No variables. |
| `Sensorer` | From a poll to the display: `Start` (the poll up to its save), `Publiser` (the save, the data and the notification) or `Feil`, `LeggTil` (the platforms add their entities), `Omstart`, `Tikk`. |
| `Diagnostikk` | The dump on the state of `Sensorer`. |
| `AvregningProofs`, `AvregningsbokProofs`, `EksportbokProofs`, `KoordinatorProofs`, `VaktholdProofs`, `OppsettProofs`, `InnstillingerProofs`, `UtgivelseProofs` | Lemmas and theorems. |
| `MCAvregningsbok`, `MCEksportbok`, `MCKoordinator`, `MCVakthold`, `MCOppsett`, `MCInnstillinger`, `MCUtgivelse`, `MCSensorer` | The small calendars and constants the runs use. |

`Avregning` is the kernel that `Avregningsbok`, `Prisadapter` and `Koordinator`
extend, so that the book under the coordinator is the book that is proved about;
`Eksportbok` composes the price adapter with the export's energy and file.
`Sensorer` extends `Sensorverdier`, which extends `Fastledd`: the fee on display is
computed by the rule the coordinator closes a month with.

Names are those of the code where TLA+ allows it. Fields of the book's record
are the attributes of the class without the underscore (`poster`, `bygget`,
`bidrag`, `skitne`, `sum`, ...); the comments in the modules list them.
Operators commented "Mutant of X" are plausible bugs in X: replacing
X by one of them makes the named property fail, which shows that the property
says something about X.

History variables are never read by a guard of the code's actions. `hel` in
`Avregningsbok` is what a book that never folded anything away would hold, and
`regnskap` the energy of the deltas so far. `hel` in `Koordinator` is a ledger
by hour and month, with the weekly peaks it started from, the tariff of the month
closed last and the months a gap dropped; in `Eksportbok` it is every route's energy and sample as if
nothing was folded. These fall back to what they were at the last successful
write (`lagretHel`) on a restart: what is lost since the last write is not what
the properties are about, but that what was written is consistent. In `Vakthold`
`vaaket` counts ticks a process was up since the last increase and `oppe` ticks since
the process's first poll; `slag` turns at each poll, so that a poll that finds
nothing new is still a step for fairness. In `Sensorer`,
`avlest` is the last reading of each price sensor, by whatever process, and
`perioder` what each sensor that starts again last showed of each day or month;
`statistikk` is what Home Assistant makes of the states written. In `Utgivelse`, `kjoringer`,
`feil` and `inngrep` count what is bounded.

### From time to ticks

An instant is a tick, a route is `TikkPerRute` ticks, an hour `RuterPerTime`
routes. UTC hours are consecutive numbers; summer time therefore needs no
special case, as in the code, which anchors intervals in UTC. The local
calendar enters through `ManedAv` (month of an hour), `Dagtimer` (hours with
the day tariff) and `Dogn` (local date of an hour), and for the fixed fee
`Manedsdato` (month of a date), all decided by the start of
the interval, as contract A1 says. Energy is an integer in a unit that makes
every share of a split whole: the guards `Delelig` and `Lesbar` choose only
readings for which it is, so the model says nothing of rounding there; the basis of the fixed fee is
rounded as in the code. A week is `DagerPerUke` dates and the running year of
weekly peaks the last `Vindu` dates. The watchdog
keeps ages instead of points in time, each up to just past the limit that is read
from it, so that restarts and outages need no bound. `Oppsett` and `Utgivelse` have no
clock but the year.

### The settings

`Innstillinger` composes four pieces of code that meet in an entry's data: the
flows of `config_flow.py`, the repair flows of `repairs.py`, the checks at the end
of `async_setup_entry`, and the poll's question about a price without a unit.

- *State.* `data` is each entry's stored choices; `tilstand` its state in Home
  Assistant, with the setup cut where it awaits (`starter` until the first poll is
  done, `plattformer` until the listener is registered and the issues are checked)
  and the unloading half of a reload (`lukker`); `reload` a planned reload that
  waits for the entry's lock; `gjelder` what the coordinator was built with; `spurt` its
  memory of the price unit issue; `varsel` and `roller` the issue registry;
  `skjema`, `sporsmal` and `ny` what is open on the user's screen.
- *A save* is `LagreSkjema`: validation (`Godtatt`), `_apply_dso_derivation`
  (`Avledet`), `_sett_tariffmodus` (`Tariff`) and `_ny_entry_data` (`NyData`) on the data of
  the moment, then `Lagre`, which also says whether a reload follows (`Reload`).
- *An answer* is `Svar`: `Svart` is what each of the three flows writes; Home Assistant
  then deletes the issue.
- *A setup* is `Bygg`, `ForstePoll`, `Ferdig`, with `Feiler` at either await; `Poll` raises
  and deletes the price unit issue from memory (`Meldt`).
- *A new entry* is `VelgSensorer`, then `Fullfor` for a company with rows or for
  Egendefinert.

Two history variables say where a promise ends, and no action reads them: `glipp`
the entries changed while they were being set up, whose listener is not there
yet, and `foreldet` those that got an answer to what was no longer so (a form drawn from
other data than it was saved on, a question the data no longer ask, a power sensor
taken since it was chosen). What happens then is in the
[observations](#observations).

## Runs

All runs use the modules as they are; the cfg files give only constants.
`CHECK_DEADLOCK FALSE` is set where a bound ends the model: the clock of `Tikk`,
the last year of `oppsett`, the last tick of `sensorer`, the last run of `utgivelse`, or no entry left in
`innstillinger`; in `vakthold`, which never stops, it changes nothing.

| Run | Question | Bounds |
|---|---|---|
| `bok_omstart` | With saves at any moment and a restart from any of them: `Restartlikhet`, `EnergiBevart`, `ArkivUforanderlig`; is every step one of the abstract ledger (`ErEnHovedbok`)? | four one-tick hours in three months, the first longer than the window kept; readings one tick late, of 0, 2 and 4, so that a delta can repeat, grow, jump or go backwards; a meter, a power sensor, or a change between them; a Store from before schema 3; the meter silent for at most the window |
| `bok_stille` | `Restartlikhet` when the meter may be silent for longer than the window (violated) | five one-tick hours, silence up to four of them |
| `pris` | Is the sample of a route decided by the poll times alone (`RekkefolgeUavhengig`), does a month show what its routes give though they are folded (`MaanedenStemmer`), and does the file give the same (`FilenErFersk`)? | three hours of one two-tick route in two months, a window of one hour; two prices, one negative, energy with and without price; the clock set back once by one tick; a file without a readable book; writes that fail, one restart |
| `koordinator` | Are the kroner, the day, the previous month and the peaks those of the ledger (`KronerFolgerEnergien`, `DagskostForDagen`, `ForrigeManedStemmer`, `ToppeneErManedens`), and the weekly peaks those of the running year (`UkestoppeneStemmer`)? Does the closed month's fixed fee follow its own peaks and tariff? Is any cached interval or running sum of the book ever stale (`CacheErFersk`), does the price of an ended hour move (`PrisStaarFast`)? | three two-tick hours, a month of one and a month of two; a meter or a power sensor; silence of at most three ticks; readings one tick late, so a tail arrives after the clock has closed the month; the support cap is passed; a tariff of steps, with a limit where their table ends, or of weekly peaks with season factors; weeks of two dates of which one crosses the month boundary, a peak from before that leaves the running year |
| `koord_omstart` | With a restart at any await and failing writes: is the month shown the book's (`ForbrukFolgerBoken`), do its kroner follow the energy (`KronerFolgerEnergien`), and do the closed month and the weekly peaks follow as in `koordinator`? | three months of an hour, so that two boundaries can pass between two polls; one meter, weekly peaks, one restart, after which their tariff has other amounts and no season, so that a closed month must keep its own |
| `koord_skifte` | `ForbrukFolgerBoken`, also between the two writes of a rollover poll (violated) | as `koord_omstart`, with `FeilIMellom` |
| `vakthold` | No frozen meter by downtime (`IngenFalskFrossen`), a registry that shows the last poll (`VarselStemmer`), a quiet start (`IngenAlarmVedOppstart`); issues of a well input go (`VarsletGaar`), a dead input is reported (`DodInputMeldes`) | the energy and the spot price input; limits 1, 2 and 3 ticks in the code's order (grace < price cache < threshold); downtime up to two ticks; any number of polls, saves, failed writes, restarts and reloads |
| `oppsett` | Does the watch run exactly while an entry is loaded (`SatsvaktFolgerLastet`), is no foreign rate charged (`SatsHorerTilSelskapet`), is no history lost (`IngenHistorikkTapt`), does an ignored issue last its year (`DempingVarerAaret`), is New Year noticed (`NyttAarVarsles`)? | two entries, one at schema 4 of the merged company or of the one that took it over, one at schema 5 of the latter with a rate of its own; both companies have a history file; one turn of the year; any number of setups, setups that fail, reloads, removals, crashes |
| `utgivelse` | Is a release one commit in all its parts, and that commit on the main branch (`SlippErBundet`), is nothing public touched (`UteErUte`), does latest never go back (`LatestAldriBakover`), does nothing left behind stop the next attempt (`IngenUnodigStopp`), does a failed run end (`Gjenopptak`)? | four commits: two of version 1, the second on a branch until it is pushed, one of version 2, one of the test version, on a branch too; two evidence sources; two new runs (reruns unbounded), one failure, one intervention by hand |
| `innstillinger` | Does each stored choice belong to the entry's company, and each power sensor to one entry (`OppforingeneStemmer`)? Does a running entry calculate with its data or wait for a reload (`InnstillingeneGjelder`), and has it the issues its data and prices call for (`VarsleneStemmer`)? | two entries, one to be created, the other from before schema 5: of a company that was split, or Egendefinert with steps that cannot be read; besides, a company with rows and one with seasons; two power sensors; two dialogs opened in all, so any two at once; any number of setups, failures, polls, reloads, removals and restarts |
| `sensorer` | Is everything on display what the last poll computed, though most writes are skipped (`VistErFersk`)? Do the statistics of the sensors that start again add up (`StatistikkStemmer`)? Does no number on display or in the report rest on a price nobody knows, or on a fee that is a guess because there is no table or the basis is above its source (`TallUtenGjetning`)? Is a price a fresh reading, and the one the dump shows (`PrisenErSporbar`)? | three days of a tick, a month boundary before the third; a Norgespris customer with a supplier's price, a spot customer without steps, or one charged by fuse size who has chosen none, and a restart may change one into another; price sensors that may have no reading, a price that lasts two ticks; two kWh and one exported per poll, booked to this tick or to the closed month's last, so that both caps of three are passed and a fee leaves the source's table; a save or a failure that comes after the clock has moved; one poll per tick, one restart |
| `sens_sikring` | The same of every unknown fee, with a customer of a company that charges by fuse size who has not chosen one (`TallErKjent`, violated) | as `sensorer`, with that customer alone, one of each value and no restart |

Sizes, in distinct states: `bok_omstart` 329,894, `pris`
763,627, `koordinator` 132,956, `koord_omstart` 215,542, `vakthold` 32,362,
`oppsett` 791,204, `innstillinger` 951,623, `utgivelse` 742,168, `sensorer` 65,110; none takes more than four minutes with
two workers. The violation runs stop within seconds.

Why the bounds are enough to be interesting. Three hours (or four or five of one tick)
give an hour before a boundary, one after, and one the window of the Store has
left behind. Months of unlike length let the book turn the month first, the
coordinator first, or both in one poll, and let one window cross two
boundaries. `Verdier` always holds a value that repeats, one that grows within
`MaksDelta`, and in the book's runs one that jumps or goes backwards. One
restart is enough for the properties to see what a restart loses, since a
restarted book is an ordinary initial state for the next one; two are not
checked there (in `vakthold` and `oppsett` restarts are unbounded). The watchdog
treats every input but energy, spot and supplier price alike, so one of each kind
that differs in an outage is enough; the supplier price is never reported gone.
Two dialogs are the least of which one can make the other old, and the theorems
hold for any number. In `oppsett` two entries are the least that can race for one file, and
`IngenHistorikkTapt` is stated for two, since of three it is not so (see [observations](#observations)); the
second commit of one version in `utgivelse` is what a main branch that moves on
leaves behind. In `sensorer` a day boundary without and one with a month
boundary are what tells a day from a month, and a save over the next tick what tells the
poll's clock from the write's. Each sensor class computes alone, so for what is written and
when, one of each kind (`Entiteter`) is enough: a month's sum with and without the fee, the
closed month, export, the day, a price, and a binary sensor; `TallUtenGjetning` asks about every
entity but today's cost. The bounds, by name: `SisteTime`, `Etterslep` (how late a reading
is), `MaksOmstarter`, `Verdier`, `Priser`, `Innganger`, `Apninger`, `Starttariffer`,
`Tariffer`, `GamleUker`, `Vindu`, `Tilbake`,
`MaksTilbake`, `MaksNede`, `SisteAar`, `MaksKjoringer`, `MaksFeil`,
`MaksInngrep`, `MaksId`, `MaksDialoger`, and in `sensorer` `SisteTikk`, `MaksOmstart`,
`Forbruk`, `Eksport`, `Spotpriser`, `Leverandorpriser`, `Oppsettene`, `Entiteter`. `MaksStillhet`,
`Skrivefeil` and `FeilIMellom` are not bounds but statements about the
environment: what holds only when the meter is never silent for longer than the
Store's window, or only when no failure falls between the two writes of one
rollover poll, is said so, and a violation run shows what happens otherwise.

In `koordinator` nothing restarts, and `koord_omstart` takes only one meter
whose readings are current (`Etterslep` 0): the two questions are checked apart
because their product is out of reach within minutes. Hours are one route in every
run, for the same reason: that a cached interval or the price of an hour is right with
several is what the theorems say. A tail that is late over
a boundary *and* over a restart is therefore covered by neither run. Nor is a
restart after which the tariff is of another method.

### Fairness

The book, the coordinator, the export book and the display state no fairness: their properties
are safety, and `[][Next]_vars` lets the environment and the code stop anywhere.
Three modules state what they need for liveness.

- `Vakthold`: `WF` of a poll that takes time. `DataUpdateCoordinator` polls every
  minute for as long as the entry is loaded. Nothing is assumed of the inputs or
  of restarts: the liveness properties say "if restarts cease and the inputs stay
  so" in the formula itself.
- `Oppsett`: `WF(Tikk)`. Home Assistant's scheduler runs a registered daily watch.
  No setup, write or user action is assumed to happen.
- `Utgivelse`: `WF` of a step of the running job (it goes on or dies, within the
  bound on failures), and `WF` of "a failed run is run again", which `GiOpp` also
  satisfies. Nothing is assumed of pushes, new runs or people's other interventions.

## What the runs show of the code

Three runs end in a violation. Each is a place where a comment or the contract
says more than the code does; the passing run beside it, and of the first two
the theorem of the same property, state the condition under which it holds.

1. `bok_stille`. `til_lagring` keeps three hours and calls the rest "ferdig
   avregnet" (`avregning.py:1045`). An hour is settled only when a reading has
   passed it: if the meter has been silent for longer, the next delta is spread
   over hours whose price routes were not written, and after a restart they
   have no price, and the interval counter counts them again.
2. `koord_skifte`. The rollover writes the Store with the month at zero beside
   a book that already holds the new month's intervals (`coordinator.py:1712`);
   if the write at the end of that poll does not happen, the opening balance
   computed after the restart is negative and the month stays short.
3. `sens_sikring`. Without a fuse size the fee by fuse size is not known, but the flag
   `fastledd_ukjent` leaves the missing choice out (`coordinator.py:1911`): the capacity
   step is `Ukjent`, and the month's sums, its estimate and the prices beside it are
   numbers without a fee and without the flag. The contract says that the flag
   behaves like the missing choice and lists those sums as `Ukjent`
   (`docs/kontrakter/input-og-konfig.md:385-398`); `docs/domain-rules.md:78` says that
   the amount is to be unknown. `TallUtenGjetning` is the part that holds: there is no
   table, or the basis is above where the source of the table ends.

## Proofs

`EksportbokProofs` proves `RekkefolgeUavhengig` of the price adapter for all
constants. The inductive invariant is the property itself with `TypeOK`:
`Registrer` keeps the winner of the samples of a route (`RegistrerAvgjor`), and
forgetting and saving select whole hours (`UtvalgAvgjor`). `SammeProverSammePris`
concludes that the same samples give the same table, whatever the order.

`AvregningsbokProofs` proves eight properties of the book. Five follow from one
inductive invariant,

    BokIInv == TypeOK /\ CacheErFersk /\ LagerInv /\ LagretArkivStaar

- `TypeOK` is needed since a post outside the active month would be archived
  under the wrong one;
- `CacheErFersk` is inductive only with it: a booking drops the cached interval
  of the hours it touches, a new month drops all, and a refresh puts in what is
  built now. The route of a sample must belong to the hour whose cache is
  dropped (`RutensTime`);
- `LagerInv` says that the Store is empty, from before schema 3, or laid out
  like a book that satisfies `StrukturOK`, so that a restart gives such a book
  again;
- `LagretArkivStaar` is the Store's archive against the book's, carried by
  `Fremover`: every operation keeps the archived months and opens only later
  ones.

`AvregningProofs` holds the lemmas about the operators: the hours of a window lie on
the calendar (`VinduType`), an interval depends only on its own post and the routes
of its hour (`IntervallAvhengerAv`), and what each operator of the book
preserves (`OppdaterInv`, `RegistrerPrisproveInv`, `LeggInv`, `NyManedInv`,
`ForManedInv`, `FordelInv`, `BokforInv`, `TilLagringInv`, `FraLagringInv`). The step
lemmas of `AvregningsbokProofs` compose them, one per action.

*Energy, and the book as a ledger.* `EnergiBevart` needs more than it says, since a
restart puts the Store's book in the place of the live one:

    EnergiInv == Saldert(bok, regnskap)
              /\ Saldert(FraLagring(lager), lagret.regnskap)
              /\ hovedbok = HovedbokAv(bok, regnskap)
              /\ lagret.hovedbok = HovedbokAv(FraLagring(lager), lagret.regnskap)

`Saldert(b, r)` says that the book `b` accounts for the energy `r`, by the total and
by day and night each for itself, with every post, contribution and sum a natural
number. One lemma per operator says what it does to the account: a window moves what
it books to the posts of each month (`FordelEnergi`), closing a month moves its posts
to the archive (`ArkivVokser`), and a book that is written and read again holds what
it held (`LagretEnergi`). The same lemmas, read per month instead of in total, give
every step of `Avregningsbok` as a step of `Hovedbok` or a stutter (`MottaAv`), and so
`BokenErEnHovedbok`.

*Restart equality.* `Restartlikhet` compares the book with a history that never
folds anything away. The invariant says it of both books:

    RestartInv == Folger(bok, hel, naa)
               /\ Folger(FraLagring(lager), lagret.hel, naa)

    Folger(b, x, n) == \E g \in Int : Grense(b, g, n) /\ Fulgt(b, x, g)

`Fulgt` says that there is an hour `g` such that the hours before `g` are in the
finished sums at the price the history has for them, and every hour and price route
from `g` on is as the history has it. `Grense` says why that lasts: `g` lies behind the
baseline and `Lagringsvindu` behind the clock, so no window and no sample can reach a
folded hour. A sample changes routes from `g` on (`FulgtPris`), a window adds energy
from `g` on or opens a month in which nothing is folded (`FulgtFordel`), and a save moves
`g` to the start of the window it keeps (`FulgtLagret`). That the two agree on every
sum is then `FulgtLikhet`.

The theorem assumes `MaksStillhet <= Lagringsvindu * TikkPerTime` and the same of
`Etterslep`: the meter is not silent, and no reading late, for longer than the three
hours `til_lagring` keeps. The code enforces neither. `bok_stille` shows what a longer
silence does.

*Sums.* What `MapThenSumSet` computes is a fact by induction, and the library's
induction theorems take the predicate as an operator parameter. `AvregningProofs`
goes round that with a *set* of subsets in the place of the predicate: the strict
subset order on a finite set is well founded (`DelmengdeInduksjon`), so a set of
subsets that holds the empty one and is closed under adding an element holds them all
(`EndeligInduksjon`). From it come the few facts the proofs use: a sum is an integer,
equal terms give equal sums, a sum over two disjoint sets is the sum of the two
(`SumType`, `SumLik`, `SumUnion`), and a sum may be taken group by group (`SumGruppert`).

*The export book.* `RekkefolgeUavhengig` carries over to the state machine of the
export book: each of its actions either leaves the price adapter alone, samples and
forgets whole routes, or writes or reads back the whole table. `MaanedenStemmer` and
`FilenErFersk` follow from

    KontoInv == ... /\ \E M : Klokketopp(M) /\ BokFoert(the memory, M)
                                            /\ BokFoert(the file, M)
                   /\ (~ skriver /\ ~ feilet => Lik(hel, lagretHel))

`BokFoert` says that there is a bound `g` such that the routes before `g` are in the
month's balance, each at the last price its history has for it, and the routes
from `g` on are kept as the history has them (`Foert`); `g` lies behind the last
booking and `Lagringsvindu` behind the latest the clock has been, `M`. So no window
and no sample reaches a folded route (`MedEnergiNyere`, `ProvdNyere`), and folding
moves the bound and nothing else (`FoertFolder`). A poll that has nothing to write
left every route's energy and price as they were (`MedEnergiUendret`,
`ProvdUendret`), so the histories of memory and file differ at most in when a price
was read (`Lik`), which no month shows.

Both theorems assume `MaksTilbake * Tilbake <= Lagringsvindu * TikkPerTime`: all the
steps back of the clock together stay within the hours that are kept (three in
the code). The assumption is needed and the code does not enforce it: after a
longer step back a poll would book energy and register prices in routes that were
folded, at another price than the rest. A host whose time is synchronised
steps back by seconds.

*The month's kWh of the coordinator.* `KoordinatorProofs` proves that the month shown
is its opening balance and everything booked in it (`ForbrukFolgerBoken`) from

    ForbrukInv == ... /\ Holder(bok, k, hel, MndNaa)
                      /\ Holder(what the Store gives back, lager.k, lagret, MndNaa)
                      /\ fase = "skifte" => Nyapnet(k, hel, MndNaa, poll.skitten)
                      /\ fase # "skifte" => Viser(k, hel)
                      /\ poll.skiftet => fase = "lagrer"
                      /\ ~ poll.skiftet => Viser(lager.k, lagret)

`Holder` says that the book has, for every month up to the clock's, exactly the energy
the ledger `hel` has in the hours of the month (`Folger`), in memory and in the book a
restart would read from the Store; `Viser` that the month shown agrees with the
ledger (`Fasit`). Between the two saves of a poll that turned the month it need not: the new
month is shown with nothing in it while the poll's own energy is booked already
(`Nyapnet`), and until the last save the Store holds just that. This is why the
theorem assumes `~ FeilIMellom`, that the two writes stand or fall together. The code does not
see to it, and `koord_skifte` shows that a restart or a failed write between them loses
the first interval of the month.

The steps rest on what one call of the book gives the months: `FordelManed` and
`BokforSvar` say that a window adds its hours to the months they belong to, and that
the answer of `bokfor` names every month it added to. A poll over a month boundary books
in parts, the book's clock going through the settled instants (`AlleDeler`); that the
parts together keep the coordinator and the book in step is `LopBevarer`, a fold over
a finite set of instants taken by the same induction over a set of subsets.

*The peaks of the month.* That the peaks are those of the month's own closed hours
(`ToppeneErManedens`) needs, beside `ForbrukInv`,

    ToppInv == ... /\ Bokholdt(bok, k, hel)
                   /\ Bokholdt(what the Store gives back, lager.k, lagret)
                   /\ fase = "skifte" => no peaks, and a post for every hour of the month
                   /\ fase # "skifte" => ToppAv(k, hel)
                   /\ ~ poll.skiftet => ToppAv(lager.k, lagret)

A peak is a maximum over hours the book no longer keeps, so it cannot be read off the
book again. `Bokholdt` says which posts the argument needs: a post holds all the energy
its hour got (`Postert`), and every hour of the active month from the hour of the baseline
on has its post; no later window reaches further back. `ToppAv` squeezes the peaks
between two bounds: every hour of the month that used something is covered
(`Dekker`), and what a date shows one of its hours reached (`Naadd`); together they
leave one function (`TopperEntydig`). Within a poll the two bounds stand at different
hours: hours from `g` on may still grow, and only the closed ones may show
(`ToppMellom`). `TimesmaksTopp` says that one call of `_oppdater_timesmaks` closes the
gap where the book has the posts, and `LopBevarerTopp` that the parts of a reading keep it.

The theorem assumes, beside `~ FeilIMellom`, `[]MalerenHores`: nothing is written when the
meter has been silent for longer than the window a write keeps. Without it the
invariant is not inductive and the property is false: `TilLagring` folds the hour
the meter stopped in, a restart loses its post, and the rest of the hour's energy starts
a fresh post when the meter comes back (see [observations](#observations)). TLC
reaches it with `Lagringsvindu = 0`; the runs keep every hour they have and meet the
assumption in all their states.

*The kroner of the month.* An interval costs its energy at the price of its own hour, at its
own place under the support cap (`KronerFolgerEnergien`); the day counts its own
intervals (`DagskostForDagen`). The coordinator never adds the month up again: it keeps two
running amounts and the last amount of each interval the book still holds, and a poll posts
the differences. What the amounts of folded hours rest on, the samples and the energy
before them, is no longer anywhere. Beside `ForbrukInv` and `ToppInv` the proof needs

    KronInv == /\ Prisholdt(bok, k, hel)
               /\ Prisholdt(what the Store gives back, lager.k, lagret)
               /\ fase = "skifte" => Ulest(the posts, k, hel.kwh, poll.timer)
               /\ fase # "skifte" => KronerAv(the posts, k, hel)
               /\ ~ poll.skiftet => KronerAv({}, lager.k, lagret)

`Prisholdt` is about what can still change: the book has all samples of every hour that may yet
get energy or a sample (`Sporet`), in memory and in the file. `KronerAv` is the bookkeeping:
the two amounts are sums over the month's hours of what each of them is worth in the
ledger, and for the hours with a post that is also the amount the coordinator remembers
having posted (`Delkroner`). Within a poll the hours touched so far are excepted: they have
new energy or a new sample and are not posted yet. A late hour raises the place under the cap of
every later hour, so all of these must still have a post (`Kjenner`), which is what the book's
own order of hours gives. Across a rollover the new month stands at nothing, and every hour of
it with energy is among those the poll will post next (`Ulest`).

Both theorems assume what `ToppeneFolgerTimene` does and, beside it, `Ferskt`: a reading that is polled
is no older than the window a write keeps (three hours in the code). An older one would
put energy into an hour whose samples a write may have forgotten. The code does
not enforce it; the runs meet it. The properties ask only about a month the
book carries (`ForesAvBoken`); the proof does without that condition.

*The book under the coordinator.* That no cached interval or running sum is stale
(`CachenHolderSegFersk`) is a part of `ForbrukInv`. That the price of an ended hour stands
(`PrisenHolderSegFast`) needs no more of the state: a sample is taken in the route of
now, a late reading cut at a month boundary brings energy and no sample to hours that
are over (`LopUroert`, `UroertPris`), and the file is read only by a restart, which the
property leaves out.

`VaktholdProofs` proves the three invariants of the watchdog from

    IInv == TypeOK /\ KlokkenErVaaket /\ MinnetErRegisteret /\ FristenErOppe
              /\ IngenFalskFrossen /\ IngenAlarmVedOppstart

where the frozen clock is never ahead of the hours a process was up, in memory
and in the file (`KlokkenErVaaket`); from the first poll of a process its list of
issues is what the registry shows (`MinnetErRegisteret`); and no input has been
without a number for longer than the process has been up (`FristenErOppe`).

`OppsettProofs` proves three properties of the setup from

    IInv == TypeOK /\ DataOrdnet /\ FaseStemmer /\ VarselBegrunnet
              /\ SatsvaktFolgerLastet

`DataOrdnet` says what an entry's data can be at either schema version, in memory
and on disk (a rate is the company's own, and an entry of a merged company has no
rate once it is migrated); `FaseStemmer` relates the phase of a setup to the data
it works on; `VarselBegrunnet` says that no issue was made before its time, so
that an issue of this year still applies and no check takes it away.

`InnstillingerProofs` proves the three properties of the settings from

    IInv == TypeOK /\ OppforingeneStemmer /\ GjelderInv /\ VarselInv

where `OppforingeneStemmer` is inductive with `TypeOK`: a save drawn from the data it
lands on keeps them in order (`NyDataOrdnet`), so does an answer to a question that
still stands (`SvartOrdnet`), and a new entry is in order (`NyOppforing`). `GjelderInv` and
`VarselInv` extend the two others to an entry under setup, whose coordinator is
built before the first poll and whose issues are checked after it; an answer that
changes nothing, and so brings no reload, was to an issue that is not called for
(`SvartUendret`).

`UtgivelseProofs` proves the release flow from `Underveis` itself, which is
inductive: what publish read at its start is kept by every step of every other
actor until its last call (`PushInv`, `LesInv`, `TaggInv`, `DraftInv`, `ZipInv`,
`BevisInv`, `PubliserInv`, `ForhandInv`). `SlippErBundet`, `UteErUte` and `LatestAldriBakover` are then facts
about one step from a state that satisfies it.

| Theorem | States |
|---|---|
| `TypeRiktig` | `Spec => []TypeOK` |
| `CachenErFersk` | `Spec => []CacheErFersk` of the book alone |
| `LagretArkivGjelder` | `Spec => []LagretArkivStaar` |
| `ArkivetErUforanderlig` | `Spec => ArkivUforanderlig` |
| `PrisenStaarFast` | `Spec => PrisStaarFast` of the book alone |
| `EnergienErBevart` | `Spec => []EnergiBevart` |
| `BokenErEnHovedbok` | `Spec => ErEnHovedbok`, the refinement of `Hovedbok` |
| `RestartenErLik` | `Spec => []Restartlikhet`, silence and delay within the hours that are kept |
| `PrisenErRekkefolgeUavhengig` | `Spec => []RekkefolgeUavhengig` |
| `SammeProverSammePris` | two tables decided by the same samples are equal |
| `EksportprisenErRekkefolgeUavhengig` | `EksportSpec => []RekkefolgeUavhengig` |
| `MaanedeneStemmer` | `EksportSpec => []MaanedenStemmer`, the clock set back by no more than is kept |
| `FilenErAlltidFersk` | `EksportSpec => []FilenErFersk`, under the same condition |
| `ForbruketFolgerBoken` | `Spec => []ForbrukFolgerBoken`, the two writes of a turning month together |
| `ToppeneFolgerTimene` | `Spec /\ []MalerenHores => []ToppeneErManedens`, the two writes together |
| `KroneneFolgerEnergien` | `Spec /\ []MalerenHores => []KronerFolgerEnergien`, the two writes together, no reading older than the window |
| `DagskostenFolgerDagen` | `Spec /\ []MalerenHores => []DagskostForDagen`, under the same conditions |
| `CachenHolderSegFersk` | `Spec => []CacheErFersk` of the coordinator, the two writes of a turning month together |
| `PrisenHolderSegFast` | `Spec => PrisStaarFast` of the coordinator, under the same condition |
| `FrossenErIkkeFalsk` | `Spec => []IngenFalskFrossen` |
| `RegisteretStemmer` | `Spec => []VarselStemmer` |
| `OppstartErStille` | `Spec => []IngenAlarmVedOppstart` |
| `VaktenFolgerAnleggene` | `Spec => []SatsvaktFolgerLastet` |
| `SatsenErSelskapets` | `Spec => []SatsHorerTilSelskapet` |
| `DempingenVarer` | `Spec => DempingVarerAaret` |
| `OppforingTheorem` | `Spec => []OppforingeneStemmer` |
| `GjelderTheorem` | `Spec => []InnstillingeneGjelder` |
| `VarselTheorem` | `Spec => []VarsleneStemmer` |
| `UnderveisHolder` | `Spec => []Underveis` |
| `SlippErBundetHolder` | `Spec => SlippErBundet` |
| `UteErUteHolder` | `Spec => UteErUte` |
| `LatestHolder` | `Spec => LatestAldriBakover` |

Assumptions: `TidAssumption` and `GrenseAssumption` (sizes are natural numbers,
routes and hours not empty), `KalenderAssumption` (months do not decrease with
the hours, and `Ingen` is not a month), `KildeAssumption`, `StartAssumption`
(the Store starts empty or from before schema 3, and the bounds are natural
numbers), `VerdiAssumption` and `PrisAssumption` (readings are whole numbers of the
energy unit, prices integers of which only the order matters). TLC evaluates them in every run that
extends the module. `Koordinator` adds `EnhetAssumption` (readings are whole numbers of the
energy unit, opening totals are not negative, which `_validate_consumption` sees to, and no reading is
`Ingen`), `PengeAssumption` (prices are integers, rates and the cap natural numbers),
`DatoAssumption` (dates come in the order of the hours, each in one month: the local
calendar), and `UkeAssumption` and `ToppAssumption`, which no
theorem uses. But for `RestartenErLik`, `ToppeneFolgerTimene` and the two about kroner, which
say so, nothing is assumed about how late or how silent a meter is. `TypeOK` and `LagretArkivStaar` of the book, the month's kWh in `koordinator`, its
peaks in `koord_omstart` and `Underveis` are no part of the runs: the theorems state them for all constants. The guard `Delelig` of a reading is not about the meter:
it chooses the unit so small that every share of a split is whole.
`EksportAssumption` says that bounds, powers and opening balances are natural numbers
and `VaktholdAssumption` that limits are, and both that the absent value is none of the
others (the order grace < cache < threshold is not needed). `OppsettAssumption` says that
a merger leads from a company that is no longer in the catalogue to one that is
(the catalogue's own test asks the same) and that names do not collide;
`UtgangspunktAssumption` what an installation may upgrade from, with a stored rate
of the entry's own company. `KatalogAssumption` says that Egendefinert
is not in the list and that no two companies share a row, and the `UtgangspunktAssumption` of `Innstillinger`
that the entries at the start are in order and have a power sensor each. `KandidatAssumption` says that versions are numbers
and that absent, damaged and "a branch" are values of their own. The theorems of
`Utgivelse` hold for any number of commits, runs, failures and interventions.

Model-checked only:

- the closed month and the weekly peaks of `Koordinator` (`ForrigeManedStemmer`,
  `UkestoppeneStemmer`): a month that is closed keeps taking late energy with the
  fee's snapshot of its own, and a weekly peak outlives its month, so each needs an
  invariant like the ones of the month that runs, for the month before it and for the weeks
  of a year;
- `IngenHistorikkTapt`: it is stated for two entries and is not so of three (see
  [observations](#observations)); for two it has no invariant yet that says which file
  the other may still read;
- `IngenUnodigStopp`: it would need an account of everything earlier attempts can
  leave behind, beyond what `Underveis` says;
- the display (`Sensorer`, `Diagnostikk`): no theorem is stated of it. What it shows is
  decided by operators on one poll's result, most of them sums, and what can go wrong is
  in the order of a few steps, which the run enumerates;
- the liveness properties (`VarsletGaar`, `DodInputMeldes`, `NyttAarVarsles`,
  `Gjenopptak`): the prover handles neither `ENABLED` nor fairness.

## Abstractions and what is not modelled

- *The kernel.* Metadata of the price adapter (area, source, revision) and the
  diagnostic fields are left out. The price of an hour is kept as its samples, of
  which the code shows the mean. In `_fordel` the months of one window are taken
  as sets instead of a loop over sorted hours; months archived on the way have
  the sums of their own hours, as in the loop.
- *The coordinator.* `Kr` stands for `kroner_for_intervall`: one amount per
  interval with a grid tariff, the spot price where one is known, and a support per kWh
  up to a monthly cap, which is what makes the order of hours matter. The
  seven components, Norgespris and taxes are not told apart. Of the fixed fee the
  amount and whether it is known are kept, for the month that closes and after a
  late tail; the step's number and text and the share of the fee shown while the
  month runs are left out, and so are the fields for display (see `Sensorverdier`), texts, export, files from
  before the fee's snapshot, and what loading does with a damaged file. How many
  peaks count and how long the running year is are constants, small in the runs:
  the year never ends inside a month that is being closed. `UkestoppeneStemmer`
  does not ask about a week that touches a month a gap of several months dropped. A poll takes less than a tick; the load, which is
  part of the first poll in the code, happens with the restart in the model.
- *The export book.* Exported power is constant over a poll's window and a unit
  makes every share whole; the consumption's own reasons to write the Store are
  left out, which only makes writes rarer. A file that holds no readable book
  gives the two opening balances and nothing else.
- *The watchdog.* An input answers with a number, with nothing, or with a unit
  that cannot be used. The text of an issue is the set of inputs it names; hours
  in the text are left out; the question about a price without a unit
  (`_meld_prisenhet_ubekreftet`) is in `Innstillinger`. Which polls save is decided by the rest of the
  coordinator: any poll may.
- *The setup.* A history is a token and a rate is the company whose list it came
  from. Entries start at schema 4 or 5. Home Assistant's issue registry is taken to
  be on disk at once; platforms always unload, and the entry counts as loaded
  while they do, as the comment at `__init__.py:890` says. A setup that
  fails (`Mislykkes`: reading the history or the first poll raised) may be tried again at
  once; that a merger's target is missing from the list (`__init__.py:390`) is excluded by
  `OppsettAssumption`. The merger's notice and the renaming of
  entities are left out; the checks of one entry's own data at the end of a setup
  are in `Innstillinger`.
- *The settings.* A rate stands for the numbers of day and night, and is known by
  whose it is. Tax zone, kind of home, Norgespris, VAT of the spot price, limits
  and the optional energy and export sensors are copied like the supplier's price
  sensor and left out; a form whose sensors are refused is like one not sent. Which
  prices lack a unit is any answer of the sensors, poll by poll. No merger and no
  migration happens here.
- *The display.* What a kWh is booked with in kroner is a constant per component, and a
  poll books one amount of energy to one tick: how energy and kroner are booked is
  `Koordinator`'s matter. The rollover's save and the poll's are one, and there
  is at most one poll per tick. Prices include VAT, amounts are whole and not rounded;
  a day's peak is its largest tick. Tariffs of weekly peaks, energy exported without a price,
  names, units, notes and icons are left out; an
  attribute computed from fields of the data stands for these. Home Assistant's
  notification, its recorder and its statistics are modelled from how the code uses them.
  Of the dump, only where the values come from.
- *The release flow.* A ZIP is the component tree it holds, a report what it was
  made from; texts are left out. GitHub's answers to reads are current. Nobody
  edits a release by hand while publish writes. Every commit carries
  `scripts/release_evidence.py`; a public release from before it, without evidence,
  would not stop the run (`release_publish.py:767`). A public asset that is no ZIP at all
  ends the run in an exception, exit 1 instead of 2; both are a stop here.

Not modelled, and why:

- *The exact components of* `kostnad.py` and Norgespris: pure functions of numbers,
  which unit tests reach by the table. The part that depends on order (the
  support cap) is in `Koordinator`.
- *A user's own capacity steps*: parsing of a text into the table `Fastledd` takes as given.
- *Schemas 1 to 3 and the price zone* in `async_migrate_entry`: conversions of one
  entry's numbers, in one step without an await.
- *Unit conversion* in `inputadapter.py`: arithmetic on strings and floats.
- *The rest of the dump*: aliases, cleaning of text, versions, baseline, tariff
  table and repairs; reading and formatting of what other modules describe.
- *The catalogue* `dso.py`: a table.
- *The other scripts, the end-to-end driver and the tests*: not part of what
  runs.

## Observations

Seen while modelling; no run shows them, because the situation lies outside a
run's bounds or because nothing in the repository says what should happen.

- Three entries of one company set up at the same time, all with their file from
  v0.54 or older, can lose a history: the file under the company's name is
  removed long after it was read (`coordinator.py:2605`). With `Anlegg` of three
  entries `IngenHistorikkTapt` without `ToAnlegg` is violated in 12 steps: two have read
  and saved the company's file, one removes it, the merger renames its own file to that name,
  and the other removes that. With two entries of any schema, company and rate it holds.
- If the merged entry is set up first it may take over the file that belongs to an
  entry of the other company; a crash between the save and the removal of the old
  file leaves a copy that a second entry of the company can load.
- A rename that fails or is skipped strands the old file (`__init__.py:149`), and
  a disabled entry can lose its old file to a new entry of the same company.
- A tariff dialog opened before a change of company is answered after it, and the
  mode is written on whatever the entry is by then (`repairs.py:201`). "Follow the
  catalogue" after a change to Egendefinert leaves Egendefinert in `catalog`, which
  `const.py:325` says never happens, and removes its rate; "keep mine" after a
  change to a listed company leaves it `manual` without a rate.
- Two settings forms open at once: if the entry became company B since the form was
  drawn for A, a form that is sent with B keeps A's rate, row and steps, because
  the derivation compares with the data of the save (`config_flow.py:532`).
- Settings saved, or a repair answered, while the entry is being set up reach nobody: the
  listener is not registered yet and the state is not recoverable
  (`config_flow.py:488`), so the coordinator keeps the old settings until the next
  reload.
- The power sensor is compared with other entries only at the step of the sensors; the
  steps after it create the entry without looking again, so two flows at the
  same time can both pass. Options saved while the rename is awaited are overwritten by
  the merger and cause no reload. The issue of a disabled entry stays until a
  restart.
- A change to Egendefinert without a number takes over the stored rate also of an entry
  in `legacy_unconfirmed`, or a manual one at a company with seasons, which was
  settled by the company's list; `_apply_dso_derivation` says "Vi starter der
  anlegget faktisk lå" (`config_flow.py:547`).
- A price unit dialog answered when its roles are confirmed already deletes an issue
  that has come to ask about another role, while the coordinator remembers it as
  raised; it comes back only when the roles change or at the next reload.
- `_fordel` says that energy behind an archived month does not occur in practice
  since windows are contiguous (`avregning.py:832`). They are per source: after a
  reconfiguration the first reading of the new source is the baseline whatever
  its observation time, and a meter last read before the month boundary opens a
  window that reaches behind it.
- An entry at schema 5 with its own rate would keep that rate over a merger of its
  company; no such merger exists today (`UtgangspunktAssumption`).
- The question about spot VAT at the step from schema 2 to 3 is skipped for
  entries of NO3 with a wrong zone.
- The frozen clock is started again after an outage that was reported, not after
  a unit error or an outage over a restart; and when restarts come more often than
  saves, the hours since the last save are not counted. A spot price with a
  unit that cannot be used is reported both as such and as expired.
- A lost upload of the evidence stops the release run (exit 2), a lost upload of
  the ZIP fails it (exit 1); both are resumed the same way.
- An accepted sample does not make the poll dirty, and unloading writes nothing
  (`coordinator.py:2045`, `__init__.py:888`): a sample taken since the last booking is lost
  over a reload, and a complete interval comes back with part of its price. The contract says
  that the routes of an open interval lie in the book and are read back with it
  (`docs/kontrakter/avregning.md:471`).
- The month's estimate divides the booked kroner by the day of the clock at the write
  (`sensor.py:1606`). A poll of the last minute of a month that is saved after midnight is
  shown as if its whole month were one day.
- The price difference is what the other agreement would cost, less one's own
  (`coordinator.py:2009`); for a spot customer `docs/sensorer.md:101` says the opposite sign.
- The watchdog's section of the dump reads its memory as it is now (`diagnostikk.py:974`), the
  rest the data of the last completed poll. While a poll awaits its save the dump mixes the two,
  which the contract says never happens (`docs/kontrakter/input-og-konfig.md:412`).
- A late hour with no energy counts as a peak of zero in the closed month
  (`coordinator.py:1232`), while an hour in time without energy never becomes a
  peak: the mean of three days may fall, and a month archived without peaks gets
  the fee of the lowest step.
- The tariff and weekly peaks that the rollover keeps are taken before
  `_prune_ukesmaks` (`coordinator.py:1896`): after an outage over the end of a month,
  weekly peaks that expired within the month still count in its fee.
- A write more than three hours after the meter's last reading folds the hour the
  meter stopped in (`LAGRINGSVINDU`, `avregning.py:75`). After a restart the rest of that
  hour's energy starts a post of its own, so the hour's peak may come out too low.
  The contract says that what falls outside the window "er ferdig avregnet"
  (`docs/kontrakter/avregning.md:469`); a delta that spans the silence still reaches
  into it. This is what `MalerenHores` excludes.
- The peaks of months that a gap of several months dropped are lost from the
  weekly table as well.
- Today's cost includes a share of the month's fee; when the fee is not known it is a
  number without it, neither `Ukjent` nor flagged. `TallUtenGjetning` and `TallErKjent`
  leave `daily_cost` out for that reason. The month's net cost is `Ukjent` without a table of steps, though the contract's table
  calls the export sensors untouched (`docs/kontrakter/input-og-konfig.md:400`).
- The export sensors stay available when an update fails (`sensor.py:1892`), unlike all
  others. The kWh counters are `TOTAL_INCREASING` and have no `last_reset`.
- A tail of the old month that is booked in the poll that turns it reaches the
  previous month's sensors and never the statistics of the running month's.
- The "Avtale" line in the button's report is the entry's setting now, also when the
  closed month was settled under another.
- `_previous_month_fastledd_grunnlag_bekreftet` is only ever cleared by a tail
  (`coordinator.py:1261`): a later tail that brings the mean back within the source's
  table leaves the fee shown as unknown.

## Plan

Done, in this order: `Avregning`, `Avregningsbok`, `Prisadapter` with their
proofs, `Koordinator`, `Utgivelse`, `Hovedbok`, `Eksportbok`, `Vakthold`,
`Oppsett` with proofs, `Fastledd` in `Koordinator`, and `Innstillinger` with its
proofs; then the energy of the book, its refinement of `Hovedbok`, restart equality,
the sums of the export book, and the month's kWh, peaks and kroner of the coordinator and
the caches and prices of its book as theorems;
last `Sensorverdier`, `Sensorer` and `Diagnostikk`, model-checked.

What is left, in order of worth:

1. The third entry in `Oppsett`, and its mergers side by side with the dialogs of
   `Innstillinger`, once it is decided what an entry is promised (see the
   observations).
2. `Kostnad` as a pure function against a reference definition over bounded inputs.
3. The closed month and the weekly peaks of `Koordinator` as theorems, on top of `ForbrukInv`,
   `ToppInv` and `KronInv`.

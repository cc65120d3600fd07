------------------------------ MODULE Vakthold ------------------------------
(***************************************************************************)
(* The input watchdog of coordinator.py: what a poll decides about each    *)
(* input from how long it has been without a number, the clock of the      *)
(* frozen meter, the repair issues it keeps, and what of it a restart or   *)
(* a reload forgets.                                                       *)
(*                                                                         *)
(* The code keeps points in time; here each is an age in ticks, which a    *)
(* poll makes older before it looks.  An age past every limit stays where  *)
(* it is, so restarts and outages need no bound.                           *)
(*                                                                         *)
(* Abstractions.  les_input gives a number, nothing ("borte": no entity,   *)
(* unavailable, not a number) or a unit that cannot be used ("enhet").  A  *)
(* number is "gyldig"; the energy input's says what the poll can tell of   *)
(* the meter: it moved by an amount the book accepts ("oker"), or not, or  *)
(* not while valid import is 0 W and valid export is above it ("sol").     *)
(* The text of an issue is the set of its inputs; its hours are left out.  *)
(* Which polls save is decided by the rest of the coordinator, so a poll   *)
(* may save, and a save may fail, at any time.                             *)
(***************************************************************************)
EXTENDS Integers

CONSTANTS
  Rolle,           \* the configured inputs
  Energi, Spotpris, Leverandorpris,
  Grace,           \* INPUT_UTFALL_GRACE_MINUTTER, in ticks
  Terskel,         \* energi_frossen_terskel_timer, in ticks
  Cache,           \* _SPOT_CACHE_MAX_AGE, in ticks
  Opphold,         \* the ticks that can pass between two polls
  MaksNede,        \* bound: how long one restart may take, in ticks
  Ingen

VARIABLES
  verden,      \* environment: what each input answered to the last poll
  sistGyldig,  \* _input_sist_gyldig, as ages
  spotpris,    \* the age of _last_spot_price
  okning,      \* _last_energy_increase, as an age
  utfallAktiv, \* _input_utfall_aktiv
  varsler,     \* _vakthold_issues
  synket,      \* _vakthold_issues_synket
  baseline,    \* whether the book has an observation
  problemer,   \* data["input_problemer"]: the inputs of each kind of problem
  register,    \* Home Assistant's issue registry
  lager,       \* what the Store file says of the frozen clock
  vaaket,      \* history: ticks the process was up since the last increase
  oppe,        \* history: ticks since this process's first poll
  slag         \* turns at every poll, so that a poll that finds nothing new is a step

minne == <<sistGyldig, spotpris, okning, utfallAktiv, varsler, synket, baseline, problemer>>
vars == <<verden, minne, register, lager, vaaket, oppe, slag>>

Feil == {"borte", "enhet"}
Svar(r) == Feil \cup (IF r = Energi THEN {"oker", "staar", "sol"} ELSE {"gyldig"})
Verdener == {v \in [Rolle -> UNION {Svar(r) : r \in Rolle}] : \A r \in Rolle : v[r] \in Svar(r)}
Sort == {"utfall", "frossen", "spot_utlopt", "enhet"}
IngenVarsler == [s \in Sort |-> {}]

ASSUME VaktholdAssumption ==
  /\ {Energi, Spotpris} \subseteq Rolle
  /\ Grace \in Nat /\ Terskel \in Nat /\ Cache \in Nat /\ MaksNede \in Nat
  /\ Opphold \subseteq Nat
  /\ Ingen \notin Nat
  /\ Ingen \notin [Sort -> SUBSET Rolle]

-----------------------------------------------------------------------------
(***************************************************************************)
(* Ages.                                                                   *)
(***************************************************************************)
Fristalder == 0 .. Grace + 1
Prisalder == 0 .. Cache
Telleralder == 0 .. Terskel + 1

\* d ticks later, for a clock nobody reads past the limit grense.
Eldre(a, d, grense) == IF a = Ingen THEN Ingen ELSE IF a + d > grense THEN grense ELSE a + d

Gyldig(v, r) == v[r] \notin Feil

-----------------------------------------------------------------------------
(***************************************************************************)
(* One poll, d ticks after the one before, in the order of the code: the   *)
(* book, the price, the watchdog, its issues.  A primed name is what the   *)
(* poll has already read or set.                                           *)
(***************************************************************************)
\* _bokfor: an accepted increase starts the clock; a first reading is only a
\* baseline.
Bokfort == verden'[Energi] = "oker" /\ baseline
OkningBokfort(d) == IF Bokfort THEN 0 ELSE Eldre(okning, d, Terskel + 1)

SpotGyldig == spotpris' # Ingen /\ spotpris' < Cache

\* Mutant of SistGyldig: an input that does not answer starts its time anew.
SistGyldigAlltid(d, r) == 0

SistGyldig(d, r) ==
  IF Gyldig(verden', r) \/ sistGyldig[r] = Ingen THEN 0
  ELSE Eldre(sistGyldig[r], d, Grace + 1)

\* Mutant of IUtfall: an outage once reported is never taken off the list.
IUtfallVarig ==
  utfallAktiv \cup {r \in Rolle : verden'[r] = "borte" /\ sistGyldig'[r] > Grace}

IUtfall ==
  {r \in Rolle \ {Leverandorpris} : verden'[r] = "borte" /\ sistGyldig'[r] > Grace}

\* The clock when the frozen meter is judged: an outage that was reported and
\* is over starts it again.
OkningVurdert(d) ==
  IF Energi \in utfallAktiv /\ Gyldig(verden', Energi) THEN 0 ELSE OkningBokfort(d)

\* The clock the poll leaves behind.
OkningEtter(d) ==
  IF verden'[Energi] = "sol" \/ (Gyldig(verden', Energi) /\ OkningVurdert(d) = Ingen) THEN 0
  ELSE OkningVurdert(d)

ErFrossen(d) ==
  /\ Gyldig(verden', Energi) /\ verden'[Energi] # "sol"
  /\ OkningVurdert(d) # Ingen /\ OkningVurdert(d) > Terskel

\* Mutant of SpotErUtlopt: no grace, so every start without a price reports it.
SpotErUtloptStraks == ~ SpotGyldig

SpotErUtlopt == ~ SpotGyldig /\ sistGyldig'[Spotpris] > Grace

\* _oppdater_vakthold: the rows of each kind.
Problemer(d) ==
  [utfall |-> IUtfall \ (IF SpotErUtlopt THEN {Spotpris} ELSE {}),
   frossen |-> IF ErFrossen(d) THEN {Energi} ELSE {},
   spot_utlopt |-> IF SpotErUtlopt THEN {Spotpris} ELSE {},
   enhet |-> {r \in Rolle : verden'[r] = "enhet"}]

\* Mutant of Register: the first poll does not clear what outlived a restart.
RegisterUtenSynk(p) ==
  [s \in Sort |-> IF p[s] = varsler[s] THEN register[s] ELSE p[s]]

\* _oppdater_vakthold_issues: an issue that says what it said is left alone;
\* one without rows is deleted if this process raised it, or at the first poll.
Register(p) ==
  [s \in Sort |-> IF p[s] = varsler[s] /\ (p[s] # {} \/ synket) THEN register[s] ELSE p[s]]

\* The file, written when the clock's age is a; with the history of its hours.
SomLagret(a) == [observert |-> a, baseline |-> baseline', vaaket |-> vaaket']

Poll(d) ==
  /\ verden' \in Verdener
  /\ sistGyldig' = [r \in Rolle |-> SistGyldig(d, r)]
  /\ spotpris' = IF Gyldig(verden', Spotpris) THEN 0 ELSE Eldre(spotpris, d, Cache)
  /\ okning' = OkningEtter(d)
  /\ utfallAktiv' = {r \in utfallAktiv : ~ Gyldig(verden', r)} \cup IUtfall
  /\ baseline' = (baseline \/ Gyldig(verden', Energi))
  /\ problemer' = Problemer(d)
  /\ register' = Register(problemer')
  /\ varsler' = problemer'
  /\ synket' = TRUE
  /\ vaaket' = IF Bokfort THEN 0 ELSE Eldre(vaaket, d, Terskel + 1)
  /\ oppe' = IF problemer = Ingen THEN 0 ELSE Eldre(oppe, d, Grace + 1)
  /\ slag' = 1 - slag
  \* Not saved, saved by the rollover before the watchdog, or at the end.
  /\ lager' \in {lager, SomLagret(OkningBokfort(d)), SomLagret(okning')}

-----------------------------------------------------------------------------
(***************************************************************************)
(* Restart and reload.                                                     *)
(***************************************************************************)
\* Mutant of Gjenopptatt: the time the process was down counts.
GjenopptattMedNedetid(nede) ==
  IF lager = Ingen \/ ~ lager.baseline THEN Ingen ELSE Eldre(lager.observert, nede, Terskel + 1)

\* _load_stored_data: the age at the last save, whatever the process was down;
\* without a baseline nobody knows what the meter did.
Gjenopptatt(nede) ==
  IF lager = Ingen \/ ~ lager.baseline THEN Ingen ELSE lager.observert

\* The process ends at any time, or the entry is reloaded.  The registry keeps
\* the issues over a reload and drops them when Home Assistant starts.
Omstart(nede) ==
  /\ sistGyldig' = [r \in Rolle |-> Ingen]
  /\ spotpris' = Ingen
  /\ okning' = Gjenopptatt(nede)
  /\ utfallAktiv' = {}
  /\ varsler' = IngenVarsler
  /\ synket' = FALSE
  /\ baseline' = (lager # Ingen /\ lager.baseline)
  /\ problemer' = Ingen
  /\ register' \in {register, IngenVarsler}
  /\ vaaket' = IF lager = Ingen THEN 0 ELSE lager.vaaket
  /\ UNCHANGED <<verden, lager, oppe, slag>>

Init ==
  /\ verden = [r \in Rolle |-> "borte"]
  /\ sistGyldig = [r \in Rolle |-> Ingen]
  /\ spotpris = Ingen /\ okning = Ingen
  /\ utfallAktiv = {} /\ varsler = IngenVarsler /\ synket = FALSE
  /\ baseline = FALSE /\ problemer = Ingen
  /\ register = IngenVarsler
  /\ lager = Ingen
  /\ vaaket = 0 /\ oppe = 0 /\ slag = 0

Next ==
  \/ \E d \in Opphold : Poll(d)
  \/ \E nede \in 0 .. MaksNede : Omstart(nede)

Spec == Init /\ [][Next]_vars

\* The coordinator polls every minute for as long as it is loaded.
FairSpec == Spec /\ WF_vars(\E d \in Opphold \ {0} : Poll(d))

-----------------------------------------------------------------------------
(***************************************************************************)
(* Properties.                                                             *)
(***************************************************************************)
TypeOK ==
  /\ verden \in Verdener
  /\ sistGyldig \in [Rolle -> Fristalder \cup {Ingen}]
  /\ spotpris \in Prisalder \cup {Ingen}
  /\ okning \in Telleralder \cup {Ingen}
  /\ utfallAktiv \subseteq Rolle
  /\ varsler \in [Sort -> SUBSET Rolle]
  /\ synket \in BOOLEAN /\ baseline \in BOOLEAN
  /\ problemer \in [Sort -> SUBSET Rolle] \cup {Ingen}
  /\ register \in [Sort -> SUBSET Rolle]
  /\ lager \in [observert : Telleralder \cup {Ingen}, baseline : BOOLEAN, vaaket : Telleralder] \cup {Ingen}
  /\ vaaket \in Telleralder /\ oppe \in Fristalder /\ slag \in 0 .. 1

\* A meter is called frozen only when polls have run for longer than the
\* threshold since the last increase booked (or, after a restart, saved): hours
\* Home Assistant was off never count, in whatever order polls, saves, failed
\* writes, crashes and restarts came.
IngenFalskFrossen ==
  problemer # Ingen => (problemer.frossen # {} => vaaket > Terskel)

\* From the first poll of a process the registry shows exactly the problems of
\* the last poll: an issue that outlived a restart goes with its cause, one
\* that Home Assistant dropped comes back, and none is left over.
VarselStemmer == problemer # Ingen => register = problemer

\* Nothing that only needs time to start is reported: until a process has been
\* up for the grace period it calls no input dead and no price too old.
IngenAlarmVedOppstart ==
  problemer # Ingen /\ oppe <= Grace =>
    problemer.utfall = {} /\ problemer.spot_utlopt = {}

Frisk == \A r \in Rolle : Gyldig(verden, r)

\* Once restarts have ceased: if every input is well and the meter moves from
\* some time on, no issue is left; an input that is gone for good is reported
\* for good, as is a meter that stands still while nothing is exported.
Driftsro == <>[](problemer # Ingen)
VarsletGaar ==
  Driftsro /\ <>[](Frisk /\ verden[Energi] = "oker") => <>[](register = IngenVarsler)
DodInputMeldes ==
  Driftsro =>
    /\ \A r \in Rolle \ {Leverandorpris} :
         <>[](verden[r] = "borte") => <>[](r \in register.utfall \cup register.spot_utlopt)
    /\ <>[](verden[Energi] = "staar") => <>[](register.frossen = {Energi})

=============================================================================

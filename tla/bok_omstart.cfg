\* Hours of one tick, month boundaries, late readings, a restart with or without a new meter.
SPECIFICATION Spec
CONSTANTS
  SisteTime = 3
  TikkPerRute = 1
  RuterPerTime = 1
  SettleTikk = 0
  Lagringsvindu = 1
  MaksDelta = 2
  MaksEstimertVindu = 1
  ManedAv <- MCTreManeder
  Dagtimer <- MCDagtimer
  Kilder = {m1, p1}
  Estimerte = {p1}
  Ingen = Ingen
  Priser = {1}
  Verdier = {0, 2, 4}
  Etterslep = 1
  MaksStillhet = 1
  MaksOmstarter = 1
  Startlager <- MCMigrert
INVARIANTS
  Restartlikhet
  EnergiBevart
PROPERTIES
  ArkivUforanderlig
  ErEnHovedbok
CHECK_DEADLOCK FALSE

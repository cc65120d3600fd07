\* As bok_omstart, but the meter may be silent for longer than LAGRINGSVINDU.
SPECIFICATION Spec
CONSTANTS
  SisteTime = 4
  TikkPerRute = 1
  RuterPerTime = 1
  SettleTikk = 0
  Lagringsvindu = 1
  MaksDelta = 4
  MaksEstimertVindu = 2
  ManedAv <- MCLangManed
  Dagtimer <- MCDagtimer
  Kilder = {m1}
  Estimerte = {}
  Ingen = Ingen
  Priser = {1}
  Verdier = {0, 2, 3}
  Etterslep = 0
  MaksStillhet = 4
  MaksOmstarter = 1
  Startlager <- MCFersk
INVARIANTS
  Restartlikhet
CHECK_DEADLOCK FALSE

\* A restart or a failed write between the two saves of a rollover poll.
SPECIFICATION Spec
CONSTANTS
  SisteTime = 2
  TikkPerRute = 2
  RuterPerTime = 1
  SettleTikk = 1
  Lagringsvindu = 2
  MaksDelta = 4
  MaksEstimertVindu = 4
  ManedAv <- MCTreManeder
  Dagtimer <- MCDagtimer
  Kilder = {m1}
  Estimerte = {}
  Ingen = Ingen
  Dogn <- MCDogn
  Priser = {2}
  Verdier = {2, 4}
  Apninger = {1}
  Nett = 1
  Stotte = 1
  Tak = 2
  Starttariffer <- MCEnTariff
  Tariffer <- MCEnTariff
  GamleUker <- MCIngenUker
  Vindu = 3
  DagerPerUke = 2
  Manedsdato <- MCManedsdato
  Doegntopper = 3
  Uketopper = 2
  Etterslep = 0
  MaksStillhet = 3
  MaksOmstarter = 1
  Skrivefeil = TRUE
  FeilIMellom = TRUE
INVARIANTS
  ForbrukFolgerBoken
CHECK_DEADLOCK FALSE

\* Three months of an hour, one restart, writes that fail.
SPECIFICATION Spec
CONSTANTS
  SisteTime = 2
  TikkPerRute = 2
  RuterPerTime = 1
  SettleTikk = 1
  Lagringsvindu = 2
  MaksDelta = 4
  MaksEstimertVindu = 4
  ManedAv <- MCTreManeder
  Dagtimer <- MCDagtimer
  Kilder = {m1}
  Estimerte = {}
  Ingen = Ingen
  Dogn <- MCDogn
  Priser = {2}
  Verdier = {2, 4}
  Apninger = {1}
  Nett = 1
  Stotte = 1
  Tak = 2
  Starttariffer <- MCBareArstopp
  Tariffer <- MCNyArstopp
  GamleUker <- MCGamleUker
  Vindu = 3
  DagerPerUke = 2
  Manedsdato <- MCManedsdato
  Doegntopper = 3
  Uketopper = 2
  Etterslep = 0
  MaksStillhet = 3
  MaksOmstarter = 1
  Skrivefeil = TRUE
  FeilIMellom = FALSE
INVARIANTS
  KronerFolgerEnergien
  ForbrukFolgerBoken
  ForrigeManedStemmer
  UkestoppeneStemmer
CHECK_DEADLOCK FALSE

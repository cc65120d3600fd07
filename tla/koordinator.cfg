\* Hours of two ticks, a meter or a power sensor, readings that arrive late.
SPECIFICATION Spec
CONSTANTS
  SisteTime = 2
  TikkPerRute = 2
  RuterPerTime = 1
  SettleTikk = 1
  Lagringsvindu = 2
  MaksDelta = 2
  MaksEstimertVindu = 4
  ManedAv <- MCManedAv
  Dagtimer <- MCDagtimer
  Kilder = {m1, p1}
  Estimerte = {p1}
  Ingen = Ingen
  Dogn <- MCDogn
  Priser = {2}
  Verdier = {0, 2, 4}
  Apninger = {1}
  Nett = 1
  Stotte = 1
  Tak = 2
  Starttariffer <- MCTariffer
  Tariffer <- MCBareArstopp
  GamleUker <- MCGamleUker
  Vindu = 3
  DagerPerUke = 2
  Manedsdato <- MCManedsdato
  Doegntopper = 3
  Uketopper = 2
  Etterslep = 1
  MaksStillhet = 3
  MaksOmstarter = 0
  Skrivefeil = FALSE
  FeilIMellom = FALSE
INVARIANTS
  KronerFolgerEnergien
  DagskostForDagen
  ForrigeManedStemmer
  ToppeneErManedens
  UkestoppeneStemmer
  CacheErFersk
PROPERTIES
  PrisStaarFast
CHECK_DEADLOCK FALSE

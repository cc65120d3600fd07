\* The price adapter as the export book uses it: samples in and out of order, folding, forgetting, saving and restarting.
SPECIFICATION EksportSpec
CONSTANTS
  SisteTime = 2
  TikkPerRute = 2
  RuterPerTime = 1
  SettleTikk = 0
  Lagringsvindu = 1
  MaksDelta = 1
  MaksEstimertVindu = 2
  ManedAv <- MCManedAv
  Dagtimer <- MCDagtimer
  Kilder = {m1}
  Estimerte = {}
  Ingen = Ingen
  Priser <- MCPriser
  Innganger <- MCInnganger
  Apninger <- MCApninger
  Tilbake = 1
  MaksTilbake = 1
  MaksOmstarter = 1
INVARIANTS
  RekkefolgeUavhengig
  MaanedenStemmer
  FilenErFersk
CHECK_DEADLOCK FALSE

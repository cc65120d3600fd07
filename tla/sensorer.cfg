\* Two months of two days, three kinds of customer, prices that come and go, saves that overlap the clock, a restart.
SPECIFICATION Spec
CONSTANTS
  DagerPerUke = 2
  Manedsdato <- MCManedsdato
  Doegntopper = 2
  Uketopper = 2
  TikkPerDogn = 1
  Dagtikk = {0, 2}
  Dagsats = 5
  Nattsats = 4
  Forbruksavgift = 2
  Enova = 1
  Norgespris = 3
  Terskel = 4
  StotteMaks <- MCStotteMaks
  NorgesprisMaks <- MCNorgesprisMaks
  Kraft = 3
  Stotte = 1
  Komp = 2
  Diff = 1
  Eksportpris = 2
  CacheTid = 2
  SisteTikk = 2
  Oppsettene <- MCOppsettene
  Spotpriser = {14}
  Leverandorpriser = {6}
  Forbruk = {2}
  Eksport = {1}
  MaksOmstart = 1
  Grace = 1
  Entiteter = {"maanedlig_avgifter", "maanedlig_total", "forrige_maaned_nettleie", "maanedlig_nettokostnad", "daily_cost", "maaledata_problem", "total_pris_etter_stotte"}
INVARIANTS
  VistErFersk
  StatistikkStemmer
  TallUtenGjetning
  PrisenErSporbar
CHECK_DEADLOCK FALSE

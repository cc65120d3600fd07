\* The limits in their order: grace below the price cache below the threshold.
SPECIFICATION FairSpec
CONSTANTS
  Rolle = {energi, spot}
  Energi = energi
  Spotpris = spot
  Leverandorpris = leverandor
  Grace = 1
  Cache = 2
  Terskel = 3
  Opphold = {1}
  MaksNede = 2
  Ingen = Ingen
INVARIANTS
  IngenFalskFrossen
  VarselStemmer
  IngenAlarmVedOppstart
PROPERTIES
  VarsletGaar
  DodInputMeldes
CHECK_DEADLOCK FALSE

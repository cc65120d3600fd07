\* The rates are out of date from the first year, Norgespris from the second.
SPECIFICATION FairSpec
CONSTANTS
  Anlegg = {e1, e2}
  e1 = e1
  e2 = e2
  gammel = gammel
  ny = ny
  Katalog = {ny}
  Fusjon <- MCFusjon
  Egendefinert = egen
  HarNorgespris = {e2}
  Utgangspunkt <- MCUtgangspunkt
  Filer = {gammel, ny}
  SatserGjelderAar = 0
  NorgesprisSluttAar = 1
  ForsteAar = 1
  SisteAar = 2
  Satser = satser
  Tom = Tom
  Ingen = Ingen
INVARIANTS
  SatsvaktFolgerLastet
  SatsHorerTilSelskapet
PROPERTIES
  IngenHistorikkTapt
  DempingVarerAaret
  NyttAarVarsles
CHECK_DEADLOCK FALSE

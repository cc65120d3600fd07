\* Two entries, one of them created on the way.
SPECIFICATION Spec
CONSTANTS
  Anlegg = {e1, e2}
  e1 = e1
  e2 = e2
  alut = alut
  sesong = sesong
  delt = delt
  r1 = r1
  r2 = r2
  p1 = p1
  p2 = p2
  Katalog = {alut, sesong, delt}
  Stottet = {alut, sesong}
  Sesong = {sesong}
  Delt = {delt}
  Avvikende = {alut, delt}
  Sikringstrinn <- MCSikringstrinn
  Egendefinert = egen
  Effektsensorer = {p1, p2}
  Utgangspunkt <- MCUtgangspunkt
  MaksDialoger = 2
  Ingen = Ingen
INVARIANTS
  OppforingeneStemmer
  InnstillingeneGjelder
  VarsleneStemmer
CHECK_DEADLOCK FALSE

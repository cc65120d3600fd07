\* One failure and one intervention by hand.
SPECIFICATION Spec
CONSTANTS
  c1 = c1
  c2 = c2
  c3 = c3
  p1 = p1
  Commits = {c1, c2, c3, p1}
  VersjonAv <- MCVersjonAv
  Innhold <- MCInnhold
  Startgren = {c1, c3}
  Grunnlag = {g1, g2}
  Ingen = Ingen
  Gren = Gren
  Skadet = Skadet
  MaksKjoringer = 2
  MaksFeil = 1
  MaksInngrep = 1
  MaksId = 3
PROPERTIES
  IngenUnodigStopp
  SlippErBundet
  UteErUte
  LatestAldriBakover
  Gjenopptak
CHECK_DEADLOCK FALSE

--------------------------- MODULE UtgivelseProofs ---------------------------
(***************************************************************************)
(* Proofs about the release flow: what publish has read stays true while   *)
(* it writes (Underveis), and from that the three action properties.       *)
(***************************************************************************)
EXTENDS Utgivelse, TLAPS

USE KandidatAssumption

\* The id GitHub gives a new release is not in use.
LEMMA FriId ==
  ASSUME LedigeId # {}
  PROVE  NesteId \in 1 .. MaksId /\ \A r \in releaser : r.id # NesteId
BY DEF LedigeId, NesteId

\* The version of a candidate is one of the versions, and a number.
LEMMA VersjonType ==
  ASSUME kj.sha \in Commits
  PROVE  v \in Versjoner /\ v \in Nat /\ Innhold[kj.sha] \in Innholdene
BY DEF v, Versjoner, Innholdene

LEMMA VersjonerErTall == Versjoner \subseteq Nat
BY DEF Versjoner

\* An idle run is a run, and it stays one when its phase changes or it gets a
\* candidate.
LEMMA LopType ==
  /\ IngenKjoring \in Lop /\ IngenKjoring.fase = "ledig"
  /\ \A f \in Faser, k \in Lop : [k EXCEPT !.fase = f] \in Lop
  /\ \A c \in Commits, p \in BOOLEAN, b \in Bevis :
       /\ NyKjoring(c, p, b) \in Lop
       /\ NyKjoring(c, p, b).fase = "plan"
       /\ NyKjoring(c, p, b).sha = c
       /\ NyKjoring(c, p, b).bevis = b
<1>1. IngenKjoring \in Lop /\ IngenKjoring.fase = "ledig"
  BY DEF Lop, IngenKjoring, Faser, Skriver
<1>2. ASSUME NEW f \in Faser, NEW k \in Lop PROVE [k EXCEPT !.fase = f] \in Lop
  BY DEF Lop
<1>3. ASSUME NEW c \in Commits, NEW p \in BOOLEAN, NEW b \in Bevis
      PROVE  /\ NyKjoring(c, p, b) \in Lop
             /\ NyKjoring(c, p, b).fase = "plan"
             /\ NyKjoring(c, p, b).sha = c
             /\ NyKjoring(c, p, b).bevis = b
  BY DEF Lop, NyKjoring, Faser, Skriver
<1> QED BY <1>1, <1>2, <1>3

\* Initially nothing is there and no run is in progress.
LEMMA UnderveisInit == Init => Underveis
<1> SUFFICES ASSUME Init PROVE Underveis
  OBVIOUS
<1>1. TypeOK
  BY LopType DEF Init, TypeOK
<1>2. kj.fase \notin Skriver
  BY LopType DEF Init, Skriver
<1> QED BY <1>1, <1>2 DEF Underveis, Init

-----------------------------------------------------------------------------
(***************************************************************************)
(* Every step preserves Underveis, one lemma per group of actions.         *)
(***************************************************************************)

\* A commit on the main branch disturbs nothing.
LEMMA PushInv == \A c \in Commits : Underveis /\ Push(c) => Underveis'
<1> SUFFICES ASSUME NEW c \in Commits, Underveis, Push(c) PROVE Underveis'
  OBVIOUS
<1> USE DEF Underveis, Push
<1>1. TypeOK'
  BY DEF TypeOK
<1>2. ASSUME kj.fase \in Skriver PROVE Skriveklar'
  <2>1. Skriveklar
    BY <1>2
  <2> QED BY <2>1 DEF Skriveklar, v, SkalVaereLatest
<1> QED BY <1>1, <1>2

\* A step that touches only the run, and leaves it before or after publish.
LEMMA UtenforPubliser ==
  ASSUME Underveis, UNCHANGED <<hovedgren, tagg, releaser, latest>>,
         attest' \subseteq Innholdene \X Commits,
         kjoringer' \in Nat, feil' \in Nat, inngrep' \in Nat,
         kj' \in Lop, kj'.fase \notin Skriver,
         kj'.fase # "ledig" => kj'.sha \in Commits /\ kj'.bevis \in Bevis
  PROVE  Underveis'
BY DEF Underveis, TypeOK

\* The same when only the run's phase changes.
LEMMA NyFase ==
  ASSUME Underveis, UNCHANGED <<hovedgren, tagg, releaser, latest, kjoringer, inngrep>>,
         attest' \subseteq Innholdene \X Commits, feil' \in Nat,
         kj.fase # "ledig", NEW f \in Faser \ Skriver, Med(f)
  PROVE  Underveis'
<1>1. kj \in Lop /\ kj.sha \in Commits /\ kj.bevis \in Bevis
  BY DEF Underveis, TypeOK
<1>2. kj' \in Lop /\ kj'.fase = f /\ kj'.sha = kj.sha /\ kj'.bevis = kj.bevis
  BY <1>1, LopType DEF Med, Lop
<1>3. kjoringer' \in Nat /\ inngrep' \in Nat
  BY DEF Underveis, TypeOK
<1> QED BY <1>1, <1>2, <1>3, UtenforPubliser

\* And when the run is over.
LEMMA Ferdig ==
  ASSUME Underveis, UNCHANGED <<hovedgren, tagg, releaser, latest, attest, kjoringer, feil, inngrep>>,
         kj' = IngenKjoring
  PROVE  Underveis'
BY LopType, UtenforPubliser DEF Underveis, TypeOK, Skriver

\* Avvist ends the run.
LEMMA AvvistInv ==
  ASSUME Underveis, Avvist, kj.fase # "ledig",
         UNCHANGED <<hovedgren, tagg, releaser, latest, attest, kjoringer, feil, inngrep>>
  PROVE  Underveis'
<1>1. CASE kj' = IngenKjoring
  BY <1>1, Ferdig
<1>2. CASE Med("stopp")
  BY <1>2, NyFase DEF Underveis, TypeOK, Faser, Skriver
<1> QED BY <1>1, <1>2 DEF Avvist

\* The steps of the workflow before publish has read, and those after a failure.
LEMMA ForbereddInv ==
  Underveis
  /\ (\/ \E c \in Commits, prove \in BOOLEAN, b \in Bevis : Start(c, prove, b)
      \/ Plan \/ Attester \/ Torrkjor \/ Krasj
      \/ \E b \in Bevis : Igjen(b)
      \/ GiOpp)
  => Underveis'
<1> SUFFICES ASSUME Underveis,
       (\/ \E c \in Commits, prove \in BOOLEAN, b \in Bevis : Start(c, prove, b)
        \/ Plan \/ Attester \/ Torrkjor \/ Krasj
        \/ \E b \in Bevis : Igjen(b)
        \/ GiOpp)
     PROVE Underveis'
  OBVIOUS
<1>0. TypeOK
  BY DEF Underveis
<1>1. CASE \E c \in Commits, prove \in BOOLEAN, b \in Bevis : Start(c, prove, b)
  <2>1. PICK c \in Commits, prove \in BOOLEAN, b \in Bevis : Start(c, prove, b)
    BY <1>1
  <2>2. kj' = NyKjoring(c, prove, b)
    BY <2>1 DEF Start
  <2>3. kj' \in Lop /\ kj'.fase \notin Skriver /\ kj'.sha \in Commits /\ kj'.bevis \in Bevis
    BY <2>2, LopType DEF Skriver
  <2> QED BY <1>0, <2>1, <2>3, UtenforPubliser DEF Start, TypeOK
<1>2. CASE Plan
  <2>1. CASE Med("klar")
    BY <1>0, <1>2, <2>1, NyFase DEF Plan, TypeOK, Faser, Skriver
  <2>2. CASE Med("stopp")
    BY <1>0, <1>2, <2>2, NyFase DEF Plan, TypeOK, Faser, Skriver
  <2>3. CASE Avvist
    BY <1>2, <2>3, AvvistInv DEF Plan
  <2> QED BY <1>2, <2>1, <2>2, <2>3 DEF Plan
<1>3. CASE Attester
  <2>1. kj.sha \in Commits
    BY <1>0, <1>3 DEF Attester, TypeOK
  <2>2. attest' \subseteq Innholdene \X Commits
    BY <1>0, <1>3, <2>1, VersjonType DEF Attester, TypeOK
  <2> QED BY <1>0, <1>3, <2>2, NyFase DEF Attester, TypeOK, Faser, Skriver
<1>4. CASE Torrkjor
  BY <1>4, Ferdig DEF Torrkjor
<1>5. CASE Krasj
  BY <1>0, <1>5, NyFase DEF Krasj, Feiler, TypeOK, Faser, Skriver
<1>6. CASE \E b \in Bevis : Igjen(b)
  <2>1. PICK b \in Bevis : Igjen(b)
    BY <1>6
  <2>2. kj.sha \in Commits /\ kj.prove \in BOOLEAN
    BY <1>0, <2>1 DEF Igjen, TypeOK, Lop
  <2>3. kj' = NyKjoring(kj.sha, kj.prove, b)
    BY <2>1 DEF Igjen
  <2>4. kj' \in Lop /\ kj'.fase \notin Skriver /\ kj'.sha \in Commits /\ kj'.bevis \in Bevis
    BY <2>2, <2>3, LopType DEF Skriver
  <2> QED BY <1>0, <2>1, <2>4, UtenforPubliser DEF Igjen, TypeOK
<1>7. CASE GiOpp
  BY <1>7, Ferdig DEF GiOpp
<1> QED BY <1>1, <1>2, <1>3, <1>4, <1>5, <1>6, <1>7

-----------------------------------------------------------------------------
(***************************************************************************)
(* publish: what it reads, and one lemma per writing call.                 *)
(***************************************************************************)

\* What changing one field of a release gives.
LEMMA ReleaseType ==
  /\ \A r \in Releaser, x \in Innholdene \cup {Ingen, Skadet} :
       LET s == [r EXCEPT !.zip = x]
       IN  s \in Releaser /\ s.zip = x /\ s.id = r.id /\ s.v = r.v
           /\ s.draft = r.draft /\ s.mal = r.mal /\ s.bevis = r.bevis
  /\ \A r \in Releaser, x \in Bevis \cup {Ingen, Skadet} :
       LET s == [r EXCEPT !.bevis = x]
       IN  s \in Releaser /\ s.bevis = x /\ s.id = r.id /\ s.v = r.v
           /\ s.draft = r.draft /\ s.mal = r.mal /\ s.zip = r.zip
  /\ \A r \in Releaser :
       LET s == [r EXCEPT !.draft = FALSE]
       IN  s \in Releaser /\ s.draft = FALSE /\ s.id = r.id /\ s.v = r.v
           /\ s.mal = r.mal /\ s.zip = r.zip /\ s.bevis = r.bevis
<1>1. ASSUME NEW r \in Releaser, NEW x \in Innholdene \cup {Ingen, Skadet}
      PROVE  LET s == [r EXCEPT !.zip = x]
             IN  s \in Releaser /\ s.zip = x /\ s.id = r.id /\ s.v = r.v
                 /\ s.draft = r.draft /\ s.mal = r.mal /\ s.bevis = r.bevis
  BY DEF Releaser
<1>2. ASSUME NEW r \in Releaser, NEW x \in Bevis \cup {Ingen, Skadet}
      PROVE  LET s == [r EXCEPT !.bevis = x]
             IN  s \in Releaser /\ s.bevis = x /\ s.id = r.id /\ s.v = r.v
                 /\ s.draft = r.draft /\ s.mal = r.mal /\ s.zip = r.zip
  BY DEF Releaser
<1>3. ASSUME NEW r \in Releaser
      PROVE  LET s == [r EXCEPT !.draft = FALSE]
             IN  s \in Releaser /\ s.draft = FALSE /\ s.id = r.id /\ s.v = r.v
                 /\ s.mal = r.mal /\ s.zip = r.zip /\ s.bevis = r.bevis
  BY DEF Releaser
<1> QED BY <1>1, <1>2, <1>3

\* What publish reads is the one release of the version, or nothing.
LEMMA LestType ==
  ASSUME Underveis, kj.sha \in Commits, Entydig
  PROVE  /\ Lest.id \in 0 .. MaksId
         /\ Lest.zip \in Innholdene \cup {Ingen, Skadet}
         /\ Lest.bevis \in Bevis \cup {Ingen, Skadet}
         /\ Lest.id = 0 => Lest.zip = Ingen /\ Lest.bevis = Ingen
         /\ Lest.id # 0 => \E r \in releaser : r.id = Lest.id
         /\ \A r \in releaser : r.v = v <=> r.id = Lest.id
         /\ \A r \in releaser : r.v = v => r.zip = Lest.zip /\ r.bevis = Lest.bevis
<1>0. releaser \subseteq Releaser /\ \A r, s \in releaser : r.id = s.id => r = s
  BY DEF Underveis, TypeOK
<1>1. CASE Treff = {}
  BY <1>0, <1>1 DEF Lest, Treff, Releaser
<1>2. CASE Treff # {}
  <2>1. PICK r \in Treff : Lest = r
    BY <1>2 DEF Lest
  <2>2. r \in Releaser /\ r \in releaser /\ r.v = v
    BY <1>0, <2>1 DEF Treff
  <2>3. r.id \in 1 .. MaksId /\ r.zip \in Innholdene \cup {Ingen, Skadet}
        /\ r.bevis \in Bevis \cup {Ingen, Skadet}
    BY <2>2 DEF Releaser
  <2>4. \A s \in releaser : s.v = v => s = r
    BY <2>1 DEF Entydig, Treff
  <2> QED BY <1>0, <2>1, <2>2, <2>3, <2>4
<1> QED BY <1>1, <1>2

\* publish reads: what it requires is what Skriveklar says.
LEMMA LesInv == Underveis /\ Les => Underveis'
<1> SUFFICES ASSUME Underveis, Les PROVE Underveis'
  OBVIOUS
<1>0. TypeOK /\ kj.sha \in Commits /\ kj.bevis \in Bevis /\ kj \in Lop
  BY DEF Underveis, TypeOK, Les
<1>1. CASE Avvist
  BY <1>1, AvvistInv DEF Les
<1>2. CASE ~ Avvist
  <2>1. /\ Klar
        /\ <<Innhold[kj.sha], kj.sha>> \in attest
        /\ kj' = [kj EXCEPT !.fase = "tagg", !.id = Lest.id, !.zip = Lest.zip,
                            !.evidens = Lest.bevis, !.nyest = SkalVaereLatest]
        /\ UNCHANGED <<hovedgren, tagg, releaser, latest, attest, feil, kjoringer, inngrep>>
    BY <1>2 DEF Les
  <2>2. Entydig
    BY <2>1 DEF Klar
  <2>3. SkalVaereLatest \in BOOLEAN
    BY DEF SkalVaereLatest
  <2>4. /\ kj' \in Lop /\ kj'.fase = "tagg" /\ kj'.sha = kj.sha /\ kj'.bevis = kj.bevis
        /\ kj'.id = Lest.id /\ kj'.zip = Lest.zip /\ kj'.evidens = Lest.bevis
        /\ kj'.nyest = SkalVaereLatest
    BY <1>0, <2>1, <2>2, <2>3, LestType DEF Lop, Faser, Skriver
  <2>5. v' = v /\ SkalVaereLatest' = SkalVaereLatest
    BY <2>1, <2>4 DEF v, SkalVaereLatest
  <2>6. TypeOK'
    BY <1>0, <2>1, <2>4 DEF TypeOK
  <2>7. kj.sha \in hovedgren \/ v = Proveversjon
    BY <2>1 DEF Klar, Hovedgrenkrav
  <2>8. Gyldig(kj.bevis, kj.sha)
    BY <2>1 DEF Klar
  <2>9. \A r \in releaser : r.v = v => r.draft /\ r.mal \in {Gren, kj.sha}
    BY <2>1 DEF Klar, Publisert, Treff, Draftkrav
  <2>10. Skriveklar'
    BY <1>0, <2>1, <2>2, <2>4, <2>5, <2>7, <2>8, <2>9, LestType DEF Skriveklar, Gyldig
  <2> QED BY <2>1, <2>6, <2>10 DEF Underveis
<1> QED BY <1>1, <1>2

\* What holds while publish writes.
LEMMA Skrivende ==
  ASSUME Underveis, kj.fase \in Skriver
  PROVE  /\ TypeOK /\ Skriveklar
         /\ kj \in Lop /\ kj.sha \in Commits /\ kj.bevis \in Bevis
         /\ v \in Versjoner /\ Innhold[kj.sha] \in Innholdene
         /\ kj.fase # "ledig" /\ kj.fase \in Faser
         /\ \A r, s \in releaser : r.id = s.id => r = s
BY VersjonType DEF Underveis, TypeOK, Skriver, Faser

\* What a change of phase does to the run.
LEMMA FaseType ==
  ASSUME kj \in Lop, NEW f \in Faser, Med(f)
  PROVE  /\ kj' \in Lop /\ kj'.fase = f /\ v' = v
         /\ kj'.sha = kj.sha /\ kj'.bevis = kj.bevis /\ kj'.id = kj.id
         /\ kj'.zip = kj.zip /\ kj'.evidens = kj.evidens /\ kj'.nyest = kj.nyest
BY LopType DEF Med, Lop, v

\* The tag is made, or is there.
LEMMA TaggInv == \A svar \in Svar : Underveis /\ SikreTagg(svar) => Underveis'
<1> SUFFICES ASSUME NEW svar \in Svar, Underveis, SikreTagg(svar) PROVE Underveis'
  OBVIOUS
<1>0. kj.fase = "tagg" /\ kj.fase \in Skriver
  BY DEF SikreTagg, Skriver
<1>1. PICK f \in {"draft", "feilet", "stopp"} : Med(f) /\ (f = "draft" => svar = "ok")
  BY DEF SikreTagg, Videre
<1>2. f \in Faser /\ (f \in Skriver => f = "draft") /\ feil' \in Nat
  BY <1>0, Skrivende DEF Faser, Skriver, SikreTagg, Videre, Feiler, TypeOK
<1>3. tagg' \in [Versjoner -> Commits \cup {Ingen}]
      /\ (f = "draft" => tagg'[v] = kj.sha)
  <2>1. CASE tagg[v] = Ingen
    BY <1>0, <1>1, <2>1, Skrivende DEF SikreTagg, TypeOK, Svar
  <2>2. CASE tagg[v] # Ingen
    BY <1>0, <1>1, <2>2, Skrivende, FaseType, <1>2 DEF SikreTagg, TypeOK, Taggkrav, Faser, Skriver
  <2> QED BY <2>1, <2>2
<1>4. /\ kj' \in Lop /\ kj'.fase = f /\ v' = v
      /\ kj'.sha = kj.sha /\ kj'.bevis = kj.bevis /\ kj'.id = kj.id
      /\ kj'.zip = kj.zip /\ kj'.evidens = kj.evidens /\ kj'.nyest = kj.nyest
  BY <1>0, <1>1, <1>2, Skrivende, FaseType
<1>5. TypeOK'
  BY <1>0, <1>2, <1>3, <1>4, Skrivende DEF TypeOK, SikreTagg
<1>6. ASSUME f = "draft" PROVE Skriveklar'
  BY <1>0, <1>3, <1>4, <1>6, Skrivende DEF Skriveklar, SikreTagg, SkalVaereLatest
<1> QED BY <1>0, <1>2, <1>4, <1>5, <1>6, Skrivende DEF Underveis, SikreTagg

\* A draft is used again, or a new one is made for the run's own commit.
LEMMA DraftInv == \A svar \in Svar : Underveis /\ SikreDraft(svar) => Underveis'
<1> SUFFICES ASSUME NEW svar \in Svar, Underveis, SikreDraft(svar) PROVE Underveis'
  OBVIOUS
<1>0. kj.fase = "draft" /\ kj.fase \in Skriver
  BY DEF SikreDraft, Skriver
<1>1. CASE kj.id # 0
  <2>1. /\ kj' \in Lop /\ kj'.fase = "zip" /\ v' = v
        /\ kj'.sha = kj.sha /\ kj'.bevis = kj.bevis /\ kj'.id = kj.id
        /\ kj'.zip = kj.zip /\ kj'.evidens = kj.evidens /\ kj'.nyest = kj.nyest
    BY <1>0, <1>1, Skrivende, FaseType DEF SikreDraft, Faser, Skriver
  <2>2. TypeOK'
    BY <1>0, <1>1, <2>1, Skrivende DEF TypeOK, SikreDraft
  <2>3. Skriveklar'
    BY <1>0, <1>1, <2>1, Skrivende DEF Skriveklar, SikreDraft, SkalVaereLatest
  <2> QED BY <1>0, <1>1, <2>2, <2>3, Skrivende DEF Underveis, SikreDraft
<1>2. CASE kj.id = 0
  <2> DEFINE ny == [id |-> NesteId, v |-> v, draft |-> TRUE, mal |-> kj.sha,
                    zip |-> Ingen, bevis |-> Ingen]
  <2>1. NesteId \in 1 .. MaksId /\ \A r \in releaser : r.id # NesteId
    BY <1>2, FriId DEF SikreDraft
  <2>2. ny \in Releaser
    BY <1>0, <2>1, Skrivende DEF Releaser
  <2>3. releaser' \in {releaser, releaser \cup {ny}} /\ (svar = "ok" => releaser' = releaser \cup {ny})
    BY <1>2 DEF SikreDraft
  <2>4. releaser' \subseteq Releaser /\ \A r, s \in releaser' : r.id = s.id => r = s
    <3>1. releaser \subseteq Releaser /\ \A r, s \in releaser : r.id = s.id => r = s
      BY <1>0, Skrivende DEF TypeOK
    <3>2. ny.id = NesteId
      OBVIOUS
    <3> HIDE DEF ny
    <3> QED BY <2>1, <2>2, <2>3, <3>1, <3>2
  <2>5. CASE svar = "ok"
    <3>1. kj' = [kj EXCEPT !.fase = "zip", !.id = NesteId] /\ feil' = feil
      BY <1>2, <2>5 DEF SikreDraft
    <3>2. /\ kj' \in Lop /\ kj'.fase = "zip" /\ v' = v
          /\ kj'.sha = kj.sha /\ kj'.bevis = kj.bevis /\ kj'.id = NesteId
          /\ kj'.zip = kj.zip /\ kj'.evidens = kj.evidens /\ kj'.nyest = kj.nyest
      <4>1. kj \in Lop /\ NesteId \in 0 .. MaksId /\ "zip" \in Faser
        BY <1>0, <2>1, Skrivende DEF Faser, Skriver
      <4>2. kj' \in Lop
        BY <3>1, <4>1 DEF Lop
      <4> QED BY <3>1, <4>1, <4>2 DEF Lop, v
    <3>3. TypeOK'
      BY <1>0, <2>4, <3>1, <3>2, Skrivende DEF TypeOK, SikreDraft
    <3>4. \A r \in releaser : r.v # v
      BY <1>0, <1>2, Skrivende DEF Skriveklar, TypeOK, Releaser
    <3>5. \A r \in releaser' : r.v = v => r = ny
      BY <2>3, <2>5, <3>4
    <3>6. \A r \in releaser' : r.v = v <=> r.id = NesteId
      BY <2>1, <2>3, <2>5, <3>4
    <3>7. kj.zip = Ingen /\ kj.evidens = Ingen /\ NesteId # 0
      BY <1>0, <1>2, <2>1, Skrivende DEF Skriveklar
    <3>8. ny \in releaser' /\ ny.id = NesteId
      BY <2>3, <2>5
    <3>9. Skriveklar'
      BY <1>0, <3>2, <3>5, <3>6, <3>7, <3>8, Skrivende DEF Skriveklar, SikreDraft, SkalVaereLatest
    <3> QED BY <2>4, <3>3, <3>9 DEF Underveis
  <2>6. CASE svar # "ok"
    <3>1. Med("feilet") /\ feil' \in Nat
      BY <1>0, <1>2, <2>6, Skrivende DEF SikreDraft, Feiler, TypeOK
    <3>2. kj' \in Lop /\ kj'.fase = "feilet" /\ kj'.sha = kj.sha /\ kj'.bevis = kj.bevis
      BY <1>0, <3>1, Skrivende, FaseType DEF Faser
    <3>3. TypeOK'
      BY <1>0, <2>4, <3>1, <3>2, Skrivende DEF TypeOK, SikreDraft
    <3> QED BY <2>4, <3>2, <3>3 DEF Underveis, Skriver
  <2> QED BY <2>5, <2>6
<1> QED BY <1>1, <1>2, <1>0, Skrivende DEF TypeOK, Lop

\* An upload changes at most the one asset of the one release.
LEMMA MedZipType ==
  ASSUME releaser \subseteq Releaser, \A r, s \in releaser : r.id = s.id => r = s,
         NEW i, NEW x \in Innholdene \cup {Ingen, Skadet}
  PROVE  /\ MedZip(i, x) \subseteq Releaser
         /\ \A r, s \in MedZip(i, x) : r.id = s.id => r = s
         /\ \A s \in MedZip(i, x) : \E r \in releaser :
              /\ s.id = r.id /\ s.v = r.v /\ s.draft = r.draft /\ s.mal = r.mal
              /\ s.bevis = r.bevis
              /\ s.zip = IF r.id = i /\ r.zip = Ingen THEN x ELSE r.zip
              /\ r.id # i => s = r
         /\ \A r \in releaser : \E s \in MedZip(i, x) : s.id = r.id /\ s.draft = r.draft
         /\ \A r \in releaser : r.id # i => r \in MedZip(i, x)
<1> DEFINE G(r) == IF r.id = i /\ r.zip = Ingen THEN [r EXCEPT !.zip = x] ELSE r
<1>1. ASSUME NEW r \in releaser
      PROVE  /\ G(r) \in Releaser /\ G(r).id = r.id /\ G(r).v = r.v
             /\ G(r).draft = r.draft /\ G(r).mal = r.mal /\ G(r).bevis = r.bevis
             /\ G(r).zip = IF r.id = i /\ r.zip = Ingen THEN x ELSE r.zip
             /\ r.id # i => G(r) = r
  <2>1. r \in Releaser
    OBVIOUS
  <2> QED BY <2>1, ReleaseType
<1>2. MedZip(i, x) = {G(r) : r \in releaser}
  BY DEF MedZip
<1> HIDE DEF G
<1>3. MedZip(i, x) \subseteq Releaser
  BY <1>1, <1>2
<1>4. ASSUME NEW r \in MedZip(i, x), NEW s \in MedZip(i, x), r.id = s.id PROVE r = s
  <2>1. PICK q \in releaser, p \in releaser : r = G(q) /\ s = G(p)
    BY <1>2
  <2>2. q.id = p.id
    BY <1>1, <1>4, <2>1
  <2> QED BY <2>1, <2>2
<1>5. ASSUME NEW s \in MedZip(i, x)
      PROVE  \E r \in releaser :
              /\ s.id = r.id /\ s.v = r.v /\ s.draft = r.draft /\ s.mal = r.mal
              /\ s.bevis = r.bevis
              /\ s.zip = IF r.id = i /\ r.zip = Ingen THEN x ELSE r.zip
              /\ r.id # i => s = r
  <2>1. PICK r \in releaser : s = G(r)
    BY <1>2
  <2> QED BY <1>1, <2>1
<1>6. ASSUME NEW r \in releaser
      PROVE  (\E s \in MedZip(i, x) : s.id = r.id /\ s.draft = r.draft)
             /\ (r.id # i => r \in MedZip(i, x))
  <2>1. G(r) \in MedZip(i, x)
    BY <1>2
  <2> QED BY <1>1, <2>1
<1> QED BY <1>3, <1>4, <1>5, <1>6

\* An upload changes at most the one asset of the one release.
LEMMA MedBevisType ==
  ASSUME releaser \subseteq Releaser, \A r, s \in releaser : r.id = s.id => r = s,
         NEW i, NEW x \in Bevis \cup {Ingen, Skadet}
  PROVE  /\ MedBevis(i, x) \subseteq Releaser
         /\ \A r, s \in MedBevis(i, x) : r.id = s.id => r = s
         /\ \A s \in MedBevis(i, x) : \E r \in releaser :
              /\ s.id = r.id /\ s.v = r.v /\ s.draft = r.draft /\ s.mal = r.mal
              /\ s.zip = r.zip
              /\ s.bevis = IF r.id = i /\ r.bevis = Ingen THEN x ELSE r.bevis
              /\ r.id # i => s = r
         /\ \A r \in releaser : \E s \in MedBevis(i, x) : s.id = r.id /\ s.draft = r.draft
         /\ \A r \in releaser : r.id # i => r \in MedBevis(i, x)
<1> DEFINE G(r) == IF r.id = i /\ r.bevis = Ingen THEN [r EXCEPT !.bevis = x] ELSE r
<1>1. ASSUME NEW r \in releaser
      PROVE  /\ G(r) \in Releaser /\ G(r).id = r.id /\ G(r).v = r.v
             /\ G(r).draft = r.draft /\ G(r).mal = r.mal /\ G(r).zip = r.zip
             /\ G(r).bevis = IF r.id = i /\ r.bevis = Ingen THEN x ELSE r.bevis
             /\ r.id # i => G(r) = r
  <2>1. r \in Releaser
    OBVIOUS
  <2> QED BY <2>1, ReleaseType
<1>2. MedBevis(i, x) = {G(r) : r \in releaser}
  BY DEF MedBevis
<1> HIDE DEF G
<1>3. MedBevis(i, x) \subseteq Releaser
  BY <1>1, <1>2
<1>4. ASSUME NEW r \in MedBevis(i, x), NEW s \in MedBevis(i, x), r.id = s.id PROVE r = s
  <2>1. PICK q \in releaser, p \in releaser : r = G(q) /\ s = G(p)
    BY <1>2
  <2>2. q.id = p.id
    BY <1>1, <1>4, <2>1
  <2> QED BY <2>1, <2>2
<1>5. ASSUME NEW s \in MedBevis(i, x)
      PROVE  \E r \in releaser :
              /\ s.id = r.id /\ s.v = r.v /\ s.draft = r.draft /\ s.mal = r.mal
              /\ s.zip = r.zip
              /\ s.bevis = IF r.id = i /\ r.bevis = Ingen THEN x ELSE r.bevis
              /\ r.id # i => s = r
  <2>1. PICK r \in releaser : s = G(r)
    BY <1>2
  <2> QED BY <1>1, <2>1
<1>6. ASSUME NEW r \in releaser
      PROVE  (\E s \in MedBevis(i, x) : s.id = r.id /\ s.draft = r.draft)
             /\ (r.id # i => r \in MedBevis(i, x))
  <2>1. G(r) \in MedBevis(i, x)
    BY <1>2
  <2> QED BY <1>1, <2>1
<1> QED BY <1>3, <1>4, <1>5, <1>6

\* The ZIP is there with the candidate's content, or the run ends.
LEMMA ZipInv ==
  \A x \in Innholdene \cup {Ingen, Skadet} : Underveis /\ SikreZip(x) => Underveis'
<1> SUFFICES ASSUME NEW x \in Innholdene \cup {Ingen, Skadet}, Underveis, SikreZip(x)
             PROVE Underveis'
  OBVIOUS
<1>0. kj.fase = "zip" /\ kj.fase \in Skriver
  BY DEF SikreZip, Skriver
<1>1. PICK f \in {"bevis", "feilet", "stopp"} :
        /\ Med(f)
        /\ f = "bevis" => x = Innhold[kj.sha] /\ (kj.zip # Ingen => kj.zip = Innhold[kj.sha])
  BY DEF SikreZip, EtterLesing
<1>2. f \in Faser /\ (f \in Skriver => f = "bevis") /\ feil' \in Nat
  BY <1>0, Skrivende DEF Faser, Skriver, SikreZip, EtterLesing, Feiler, TypeOK
<1>3. /\ kj' \in Lop /\ kj'.fase = f /\ v' = v
      /\ kj'.sha = kj.sha /\ kj'.bevis = kj.bevis /\ kj'.id = kj.id
      /\ kj'.zip = kj.zip /\ kj'.evidens = kj.evidens /\ kj'.nyest = kj.nyest
  BY <1>0, <1>1, <1>2, Skrivende, FaseType
<1>4. releaser \subseteq Releaser /\ \A r, s \in releaser : r.id = s.id => r = s
  BY <1>0, Skrivende DEF TypeOK
<1>5. CASE kj.zip # Ingen
  <2>1. TypeOK'
    BY <1>0, <1>2, <1>3, <1>5, Skrivende DEF TypeOK, SikreZip
  <2>2. ASSUME f = "bevis" PROVE Skriveklar'
    BY <1>0, <1>1, <1>3, <1>5, <2>2, Skrivende DEF Skriveklar, SikreZip, SkalVaereLatest
  <2> QED BY <1>2, <1>3, <1>4, <1>5, <2>1, <2>2 DEF Underveis, SikreZip
<1>6. CASE kj.zip = Ingen
  <2>1. releaser' = MedZip(kj.id, x)
    BY <1>6 DEF SikreZip
  <2>2. TypeOK'
    BY <1>0, <1>2, <1>3, <1>4, <2>1, MedZipType, Skrivende DEF TypeOK, SikreZip
  <2>3. ASSUME f = "bevis" PROVE Skriveklar'
    <3>1. \A s \in releaser' : \E r \in releaser :
            /\ s.id = r.id /\ s.v = r.v /\ s.draft = r.draft /\ s.mal = r.mal
            /\ s.bevis = r.bevis
            /\ s.zip = IF r.id = kj.id /\ r.zip = Ingen THEN Innhold[kj.sha] ELSE r.zip
      BY <1>1, <1>4, <2>1, <2>3, MedZipType
    <3>2. \A r \in releaser : \E s \in releaser' : s.id = r.id
      BY <1>4, <2>1, MedZipType
    <3>3. \A r \in releaser : r.v = v => r.zip = Ingen /\ r.id = kj.id
      BY <1>0, <1>6, Skrivende DEF Skriveklar
    <3>4. \A s \in releaser' : s.v = v => s.zip = Innhold[kj.sha]
      BY <3>1, <3>3
    <3> QED BY <1>0, <1>3, <2>3, <3>1, <3>2, <3>4, Skrivende DEF Skriveklar, SikreZip, SkalVaereLatest
  <2>4. \A r, s \in releaser' : r.id = s.id => r = s
    BY <1>4, <2>1, MedZipType
  <2> QED BY <1>2, <1>3, <2>2, <2>3, <2>4 DEF Underveis
<1> QED BY <1>5, <1>6

\* The report is there and is of the same commit and sources, or the run ends.
LEMMA BevisInv ==
  \A x \in Bevis \cup {Ingen, Skadet} : Underveis /\ SikreBevis(x) => Underveis'
<1> SUFFICES ASSUME NEW x \in Bevis \cup {Ingen, Skadet}, Underveis, SikreBevis(x)
             PROVE Underveis'
  OBVIOUS
<1>0. kj.fase = "bevis" /\ kj.fase \in Skriver
  BY DEF SikreBevis, Skriver
<1>1. PICK f \in {"publiser", "feilet", "stopp"} :
        /\ Med(f)
        /\ f = "publiser" =>
             IF kj.evidens # Ingen THEN Gyldig(kj.evidens, kj.sha) ELSE x = kj.bevis
  BY DEF SikreBevis, EtterLesing
<1>2. f \in Faser /\ (f \in Skriver => f = "publiser") /\ feil' \in Nat
  BY <1>0, Skrivende DEF Faser, Skriver, SikreBevis, EtterLesing, Feiler, TypeOK
<1>3. /\ kj' \in Lop /\ kj'.fase = f /\ v' = v
      /\ kj'.sha = kj.sha /\ kj'.bevis = kj.bevis /\ kj'.id = kj.id
      /\ kj'.zip = kj.zip /\ kj'.evidens = kj.evidens /\ kj'.nyest = kj.nyest
  BY <1>0, <1>1, <1>2, Skrivende, FaseType
<1>4. releaser \subseteq Releaser /\ \A r, s \in releaser : r.id = s.id => r = s
  BY <1>0, Skrivende DEF TypeOK
<1>5. CASE kj.evidens # Ingen
  <2>1. TypeOK'
    BY <1>0, <1>2, <1>3, <1>5, Skrivende DEF TypeOK, SikreBevis
  <2>2. ASSUME f = "publiser" PROVE Skriveklar'
    BY <1>0, <1>1, <1>3, <1>5, <2>2, Skrivende DEF Skriveklar, SikreBevis, SkalVaereLatest
  <2> QED BY <1>2, <1>3, <1>4, <1>5, <2>1, <2>2 DEF Underveis, SikreBevis
<1>6. CASE kj.evidens = Ingen
  <2>1. releaser' = MedBevis(kj.id, x)
    BY <1>6 DEF SikreBevis
  <2>2. TypeOK'
    BY <1>0, <1>2, <1>3, <1>4, <2>1, MedBevisType, Skrivende DEF TypeOK, SikreBevis
  <2>3. ASSUME f = "publiser" PROVE Skriveklar'
    <3>1. \A s \in releaser' : \E r \in releaser :
            /\ s.id = r.id /\ s.v = r.v /\ s.draft = r.draft /\ s.mal = r.mal
            /\ s.zip = r.zip
            /\ s.bevis = IF r.id = kj.id /\ r.bevis = Ingen THEN kj.bevis ELSE r.bevis
      BY <1>1, <1>4, <1>6, <2>1, <2>3, MedBevisType
    <3>2. \A r \in releaser : \E s \in releaser' : s.id = r.id
      BY <1>4, <2>1, MedBevisType
    <3>3. \A r \in releaser : r.v = v => r.bevis = Ingen /\ r.id = kj.id
      BY <1>0, <1>6, Skrivende DEF Skriveklar
    <3>4. \A s \in releaser' : s.v = v => s.bevis = kj.bevis
      BY <3>1, <3>3
    <3> QED BY <1>0, <1>3, <2>3, <3>1, <3>2, <3>4, Skrivende DEF Skriveklar, SikreBevis, SkalVaereLatest
  <2>4. \A r, s \in releaser' : r.id = s.id => r = s
    BY <1>4, <2>1, MedBevisType
  <2> QED BY <1>2, <1>3, <2>2, <2>3, <2>4 DEF Underveis
<1> QED BY <1>5, <1>6

\* What making one release public does to the others and to it.
LEMMA UteType ==
  ASSUME releaser \subseteq Releaser, \A r, s \in releaser : r.id = s.id => r = s,
         releaser' = {IF r.id = kj.id THEN [r EXCEPT !.draft = FALSE] ELSE r : r \in releaser}
                     \/ releaser' = releaser
  PROVE  /\ releaser' \subseteq Releaser
         /\ \A r, s \in releaser' : r.id = s.id => r = s
         /\ \A s \in releaser' : \E r \in releaser :
              /\ s.id = r.id /\ s.v = r.v /\ s.mal = r.mal
              /\ s.zip = r.zip /\ s.bevis = r.bevis
              /\ r.id # kj.id => s = r
         /\ \A r \in releaser : r.id # kj.id => r \in releaser'
<1> DEFINE G(r) == IF r.id = kj.id THEN [r EXCEPT !.draft = FALSE] ELSE r
<1>1. ASSUME NEW r \in releaser
      PROVE  /\ G(r) \in Releaser /\ G(r).id = r.id /\ G(r).v = r.v /\ G(r).mal = r.mal
             /\ G(r).zip = r.zip /\ G(r).bevis = r.bevis
             /\ r.id # kj.id => G(r) = r
  <2>1. r \in Releaser
    OBVIOUS
  <2> QED BY <2>1, ReleaseType
<1>2. CASE releaser' = {G(r) : r \in releaser}
  <2> HIDE DEF G
  <2>1. releaser' \subseteq Releaser
    BY <1>1, <1>2
  <2>2. ASSUME NEW r \in releaser', NEW s \in releaser', r.id = s.id PROVE r = s
    <3>1. PICK q \in releaser, p \in releaser : r = G(q) /\ s = G(p)
      BY <1>2
    <3>2. q.id = p.id
      BY <1>1, <2>2, <3>1
    <3> QED BY <3>1, <3>2
  <2>3. ASSUME NEW s \in releaser'
        PROVE  \E r \in releaser :
                 /\ s.id = r.id /\ s.v = r.v /\ s.mal = r.mal
                 /\ s.zip = r.zip /\ s.bevis = r.bevis
                 /\ r.id # kj.id => s = r
    <3>1. PICK r \in releaser : s = G(r)
      BY <1>2
    <3> QED BY <1>1, <3>1
  <2>4. ASSUME NEW r \in releaser, r.id # kj.id PROVE r \in releaser'
    <3>1. G(r) \in releaser'
      BY <1>2
    <3> QED BY <1>1, <2>4, <3>1
  <2> QED BY <2>1, <2>2, <2>3, <2>4
<1>3. CASE releaser' = releaser
  BY <1>3
<1> QED BY <1>2, <1>3

\* The last call makes the run's own release public, and the run is over.
LEMMA PubliserInv == \A svar \in Svar : Underveis /\ Publiser(svar) => Underveis'
<1> SUFFICES ASSUME NEW svar \in Svar, Underveis, Publiser(svar) PROVE Underveis'
  OBVIOUS
<1>0. kj.fase = "publiser" /\ kj.fase \in Skriver
  BY DEF Publiser, Skriver
<1>1. releaser \subseteq Releaser /\ \A r, s \in releaser : r.id = s.id => r = s
  BY <1>0, Skrivende DEF TypeOK
<1>2. releaser' \subseteq Releaser /\ \A r, s \in releaser' : r.id = s.id => r = s
  BY <1>1, UteType DEF Publiser
<1>3. latest' \in Versjoner \cup {Ingen}
  BY <1>0, Skrivende DEF Publiser, TypeOK
<1>4. kj' \in Lop /\ kj'.fase \in {"ledig", "feilet"} /\ feil' \in Nat
      /\ (kj'.fase # "ledig" => kj'.sha \in Commits /\ kj'.bevis \in Bevis)
  <2>1. CASE svar = "ok"
    BY <1>0, <2>1, LopType, Skrivende DEF Publiser, TypeOK
  <2>2. CASE svar # "ok"
    <3>1. Med("feilet") /\ feil' \in Nat
      BY <1>0, <2>2, Skrivende DEF Publiser, Feiler, TypeOK
    <3> QED BY <1>0, <3>1, FaseType, Skrivende DEF Faser
  <2> QED BY <2>1, <2>2
<1>5. TypeOK'
  BY <1>0, <1>2, <1>3, <1>4, Skrivende DEF TypeOK, Publiser
<1> QED BY <1>2, <1>4, <1>5 DEF Underveis, Skriver

\* What is done by hand keeps the releases apart, and makes none of them public.
LEMMA ForhandType ==
  ASSUME Underveis, Forhand
  PROVE  /\ releaser' \subseteq Releaser
         /\ \A r, s \in releaser' : r.id = s.id => r = s
         /\ \A r \in releaser, s \in releaser' : r.id = s.id => r.draft = s.draft
         /\ tagg' \in [Versjoner -> Commits \cup {Ingen}]
         /\ kj.fase \notin Skriver
         /\ inngrep' = inngrep + 1
         /\ UNCHANGED <<hovedgren, latest, attest, kj, kjoringer, feil>>
<1>1. /\ TypeOK /\ releaser \subseteq Releaser /\ \A r, s \in releaser : r.id = s.id => r = s
      /\ tagg \in [Versjoner -> Commits \cup {Ingen}]
  BY DEF Underveis, TypeOK
<1>2. Inngrep
  BY DEF Forhand, TaggForHand, DraftForHand, SlettDraft, BevisForHand, ZipForHand
<1>3. CASE \E w \in Versjoner, c \in Commits \cup {Ingen} : TaggForHand(w, c)
  BY <1>1, <1>2, <1>3 DEF TaggForHand, Inngrep
<1>4. CASE \E w \in Versjoner : DraftForHand(w)
  <2>1. PICK w \in Versjoner : DraftForHand(w)
    BY <1>4
  <2> DEFINE ny == [id |-> NesteId, v |-> w, draft |-> TRUE, mal |-> Gren,
                    zip |-> Ingen, bevis |-> Ingen]
  <2>2. NesteId \in 1 .. MaksId /\ \A r \in releaser : r.id # NesteId
    BY <2>1, FriId DEF DraftForHand
  <2>3. ny \in Releaser /\ ny.id = NesteId
    BY <2>2 DEF Releaser
  <2>4. releaser' = releaser \cup {ny} /\ tagg' = tagg
    BY <2>1 DEF DraftForHand
  <2> HIDE DEF ny
  <2> QED BY <1>1, <1>2, <2>2, <2>3, <2>4 DEF Inngrep
<1>5. CASE \E r \in releaser : SlettDraft(r)
  BY <1>1, <1>2, <1>5 DEF SlettDraft, Inngrep
<1>6. CASE \E r \in releaser : BevisForHand(r)
  <2>1. PICK r \in releaser : BevisForHand(r)
    BY <1>6
  <2> DEFINE s == [r EXCEPT !.bevis = Ingen]
  <2>2. s \in Releaser /\ s.id = r.id /\ s.draft = r.draft
    BY <1>1, ReleaseType
  <2>3. releaser' = (releaser \ {r}) \cup {s} /\ tagg' = tagg
    BY <2>1 DEF BevisForHand
  <2> HIDE DEF s
  <2> QED BY <1>1, <1>2, <2>2, <2>3 DEF Inngrep
<1>7. CASE \E r \in releaser, x \in Innholdene \cup {Ingen} : ZipForHand(r, x)
  <2>1. PICK r \in releaser, x \in Innholdene \cup {Ingen} : ZipForHand(r, x)
    BY <1>7
  <2> DEFINE s == [r EXCEPT !.zip = x]
  <2>2. s \in Releaser /\ s.id = r.id /\ s.draft = r.draft
    BY <1>1, ReleaseType
  <2>3. releaser' = (releaser \ {r}) \cup {s} /\ tagg' = tagg
    BY <2>1 DEF ZipForHand
  <2> HIDE DEF s
  <2> QED BY <1>1, <1>2, <2>2, <2>3 DEF Inngrep
<1> QED BY <1>3, <1>4, <1>5, <1>6, <1>7 DEF Forhand

LEMMA ForhandInv == Underveis /\ Forhand => Underveis'
<1> SUFFICES ASSUME Underveis, Forhand PROVE Underveis'
  OBVIOUS
<1>1. TypeOK'
  BY ForhandType DEF Underveis, TypeOK
<1> QED BY <1>1, ForhandType DEF Underveis

-----------------------------------------------------------------------------
(***************************************************************************)
(* The invariant, and what follows from it about every step.               *)
(***************************************************************************)

\* Every step of the release flow preserves Underveis.
LEMMA UnderveisSteg == Underveis /\ [Next]_vars => Underveis'
<1> SUFFICES ASSUME Underveis, [Next]_vars PROVE Underveis'
  OBVIOUS
<1>1. CASE \E c \in Commits : Push(c)
  BY <1>1, PushInv
<1>2. CASE (\E c \in Commits, prove \in BOOLEAN, b \in Bevis : Start(c, prove, b))
           \/ Plan \/ Attester \/ Torrkjor \/ Krasj \/ (\E b \in Bevis : Igjen(b)) \/ GiOpp
  BY <1>2, ForbereddInv
<1>3. CASE Les
  BY <1>3, LesInv
<1>4. CASE Publiseringssteg
  BY <1>4, TaggInv, DraftInv, PubliserInv, ZipInv, BevisInv DEF Publiseringssteg
<1>5. CASE Forhand
  BY <1>5, ForhandInv
<1>6. CASE UNCHANGED vars
  BY <1>6 DEF vars, Underveis, TypeOK, Skriveklar, v, SkalVaereLatest
<1> QED BY <1>1, <1>2, <1>3, <1>4, <1>5, <1>6 DEF Next, Kjoringssteg

\* What publish has read and made sure of stays true until its last call: the
\* release it works on is the only one of its version, and is bound to the commit
\* of the run in every part it has passed.
THEOREM UnderveisHolder == Spec => []Underveis
<1>1. Init => Underveis
  BY UnderveisInit
<1>2. Underveis /\ [Next]_vars => Underveis'
  BY UnderveisSteg
<1> QED BY <1>1, <1>2, PTL DEF Spec

\* Every step but publish's last call leaves drafts drafts and latest as it is;
\* every step but those by hand keeps what is public and the tags that are there.
LEMMA Stegene ==
  ASSUME Underveis, [Next]_vars
  PROVE  /\ \/ \E svar \in Svar : Publiser(svar)
            \/ /\ \A r \in releaser, s \in releaser' : r.id = s.id => r.draft = s.draft
               /\ latest' = latest
         /\ inngrep' = inngrep =>
              /\ \A w \in Versjoner : tagg[w] # Ingen => tagg'[w] = tagg[w]
              /\ \A r \in releaser : ~ r.draft => r \in releaser'
<1>0. /\ TypeOK /\ releaser \subseteq Releaser /\ \A r, s \in releaser : r.id = s.id => r = s
      /\ inngrep \in Nat /\ tagg \in [Versjoner -> Commits \cup {Ingen}]
  BY DEF Underveis, TypeOK
<1>1. CASE \E svar \in Svar : Publiser(svar)
  <2>1. PICK svar \in Svar : Publiser(svar)
    BY <1>1
  <2>2. kj.fase \in Skriver /\ tagg' = tagg
    BY <2>1 DEF Publiser, Skriver
  <2>3. \A r \in releaser : ~ r.draft => r.id # kj.id
    BY <2>2, Skrivende DEF Skriveklar
  <2>4. \A r \in releaser : r.id # kj.id => r \in releaser'
    BY <1>0, <2>1, UteType DEF Publiser
  <2> QED BY <1>1, <2>2, <2>3, <2>4
<1>2. CASE \E svar \in Svar : SikreTagg(svar)
  <2>1. PICK svar \in Svar : SikreTagg(svar)
    BY <1>2
  <2>2. kj.fase \in Skriver /\ releaser' = releaser /\ latest' = latest
    BY <2>1 DEF SikreTagg, Skriver
  <2>3. v \in Versjoner
    BY <2>2, Skrivende
  <2>4. \A w \in Versjoner : tagg[w] # Ingen => tagg'[w] = tagg[w]
    BY <1>0, <2>1, <2>3 DEF SikreTagg
  <2> QED BY <1>0, <2>2, <2>4
<1>3. CASE \E svar \in Svar : SikreDraft(svar)
  <2>1. PICK svar \in Svar : SikreDraft(svar)
    BY <1>3
  <2> DEFINE ny == [id |-> NesteId, v |-> v, draft |-> TRUE, mal |-> kj.sha,
                    zip |-> Ingen, bevis |-> Ingen]
  <2>2. releaser' = releaser \/ (LedigeId # {} /\ releaser' = releaser \cup {ny})
    BY <2>1 DEF SikreDraft
  <2>3. ny.id = NesteId
    OBVIOUS
  <2>4. latest' = latest /\ tagg' = tagg
    BY <2>1 DEF SikreDraft
  <2> HIDE DEF ny
  <2> QED BY <1>0, <2>2, <2>3, <2>4, FriId
<1>4. CASE \E x \in Innholdene \cup {Ingen, Skadet} : SikreZip(x)
  <2>1. PICK x \in Innholdene \cup {Ingen, Skadet} : SikreZip(x)
    BY <1>4
  <2>2. kj.fase \in Skriver /\ tagg' = tagg /\ latest' = latest
    BY <2>1 DEF SikreZip, Skriver
  <2>3. releaser' = releaser \/ releaser' = MedZip(kj.id, x)
    BY <2>1 DEF SikreZip
  <2>4. \A r \in releaser : ~ r.draft => r.id # kj.id
    BY <2>2, Skrivende DEF Skriveklar
  <2> QED BY <1>0, <2>2, <2>3, <2>4, MedZipType
<1>5. CASE \E x \in Bevis \cup {Ingen, Skadet} : SikreBevis(x)
  <2>1. PICK x \in Bevis \cup {Ingen, Skadet} : SikreBevis(x)
    BY <1>5
  <2>2. kj.fase \in Skriver /\ tagg' = tagg /\ latest' = latest
    BY <2>1 DEF SikreBevis, Skriver
  <2>3. releaser' = releaser \/ releaser' = MedBevis(kj.id, x)
    BY <2>1 DEF SikreBevis
  <2>4. \A r \in releaser : ~ r.draft => r.id # kj.id
    BY <2>2, Skrivende DEF Skriveklar
  <2> QED BY <1>0, <2>2, <2>3, <2>4, MedBevisType
<1>6. CASE Forhand
  BY <1>0, <1>6, ForhandType
<1>7. CASE UNCHANGED <<tagg, releaser, latest>>
  BY <1>0, <1>7
<1>8. ASSUME ~ Forhand, ~ Publiseringssteg PROVE UNCHANGED <<tagg, releaser, latest>>
  BY <1>8 DEF Next, vars, Kjoringssteg, Push, Start, Plan, Attester, Les, Torrkjor, Krasj, Igjen, GiOpp
<1> QED BY <1>1, <1>2, <1>3, <1>4, <1>5, <1>6, <1>7, <1>8 DEF Publiseringssteg

\* Whatever earlier attempts, failures and people left behind, a release that
\* becomes public has a tag, and its ZIP, attestation, evidence and draft belong
\* to the commit of that tag, which is on the main branch unless it is 0.0.0.
THEOREM SlippErBundetHolder == Spec => SlippErBundet
<1>1. ASSUME Underveis, Underveis', [Next]_vars
      PROVE  \A r \in releaser, s \in releaser' :
               r.id = s.id /\ r.draft /\ ~ s.draft => Bundet(s, tagg[s.v])'
  <2> SUFFICES ASSUME NEW r \in releaser, NEW s \in releaser', r.id = s.id, r.draft, ~ s.draft
               PROVE  Bundet(s, tagg[s.v])'
    OBVIOUS
  <2>1. PICK svar \in Svar : Publiser(svar)
    BY <1>1, Stegene
  <2>2. kj.fase = "publiser" /\ kj.fase \in Skriver
    BY <2>1 DEF Publiser, Skriver
  <2>3. releaser \subseteq Releaser /\ \A p, q \in releaser : p.id = q.id => p = q
    BY <1>1, <2>2, Skrivende DEF TypeOK
  <2>4. /\ s.id = r.id /\ s.v = r.v /\ s.mal = r.mal /\ s.zip = r.zip /\ s.bevis = r.bevis
        /\ r.id # kj.id => s = r
    BY <2>1, <2>3, UteType DEF Publiser
  <2>5. r.id = kj.id /\ r.v = v
    BY <1>1, <2>2, <2>4, Skrivende DEF Skriveklar
  <2>6. UNCHANGED <<tagg, hovedgren, attest>>
    BY <2>1 DEF Publiser
  <2>7. /\ kj.sha \in hovedgren \/ v = Proveversjon
        /\ <<Innhold[kj.sha], kj.sha>> \in attest
        /\ tagg[v] = kj.sha /\ kj.sha \in Commits
        /\ r.mal \in {Gren, kj.sha} /\ r.zip = Innhold[kj.sha] /\ Gyldig(r.bevis, kj.sha)
    BY <1>1, <2>2, <2>5, Skrivende DEF Skriveklar
  <2> QED BY <2>4, <2>5, <2>6, <2>7 DEF Bundet, v
<1>2. Spec => []Underveis
  BY UnderveisHolder
<1> QED BY <1>1, <1>2, PTL DEF Spec, SlippErBundet

\* A tag is never moved and what is public is never written again, by any number
\* of runs on any commits, except by hand.
THEOREM UteErUteHolder == Spec => UteErUte
<1>1. ASSUME Underveis, [Next]_vars
      PROVE  inngrep' = inngrep =>
               /\ \A w \in Versjoner : tagg[w] # Ingen => tagg'[w] = tagg[w]
               /\ \A r \in releaser : ~ r.draft => r \in releaser'
  BY <1>1, Stegene
<1>2. Spec => []Underveis
  BY UnderveisHolder
<1> QED BY <1>1, <1>2, PTL DEF Spec, UteErUte

\* What users are offered as the latest release never goes back to an older
\* version, and is never the test version, whatever was pushed and published
\* between the choice and its use.
THEOREM LatestHolder == Spec => LatestAldriBakover
<1> DEFINE Aldri == latest # Proveversjon
<1>1. ASSUME Underveis, Aldri, [Next]_vars
      PROVE  /\ latest # Ingen => latest' # Ingen /\ latest' >= latest
             /\ latest' # Proveversjon
  <2>1. latest \in Versjoner \cup {Ingen} /\ Versjoner \subseteq Nat /\ Ingen \notin Nat
    BY <1>1, VersjonerErTall DEF Underveis, TypeOK
  <2>2. CASE latest' = latest
    BY <1>1, <2>1, <2>2
  <2>3. CASE \E svar \in Svar : Publiser(svar)
    <3>1. PICK svar \in Svar : Publiser(svar)
      BY <2>3
    <3>2. kj.fase \in Skriver
      BY <3>1 DEF Publiser, Skriver
    <3>3. latest' \in {latest, v} /\ (latest' # latest => kj.nyest)
      BY <3>1 DEF Publiser
    <3>4. kj.nyest => SkalVaereLatest
      BY <1>1, <3>2, Skrivende DEF Skriveklar
    <3>5. v \in Nat
      BY <1>1, <2>1, <3>2, Skrivende
    <3>6. CASE latest' # latest
      BY <2>1, <3>3, <3>4, <3>5, <3>6 DEF SkalVaereLatest
    <3> QED BY <2>2, <3>6
  <2> QED BY <1>1, <2>2, <2>3, Stegene
<1>2. Init => Aldri
  BY DEF Init, Proveversjon
<1>3. ASSUME Underveis, Aldri, [Next]_vars PROVE Aldri'
  BY <1>1, <1>3
<1>4. Spec => []Underveis
  BY UnderveisHolder
<1> HIDE DEF Aldri
<1> QED BY <1>1, <1>2, <1>3, <1>4, PTL DEF Spec, LatestAldriBakover

=============================================================================

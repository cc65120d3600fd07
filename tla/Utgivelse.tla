------------------------------ MODULE Utgivelse ------------------------------
(***************************************************************************)
(* The release flow of scripts/release_publish.py, run by the workflow     *)
(* .github/workflows/release.yml: plan, build, attest, publish.  A run has *)
(* one candidate (a full commit SHA and the version its manifest holds).   *)
(* It reads GitHub, stops if something contradicts the candidate, makes    *)
(* the tag, a draft and its two assets, and makes the draft public last.   *)
(*                                                                         *)
(* The workflow's concurrency group lets one run at a time through.  Each  *)
(* call of the API that writes is a step of its own: it may succeed, not   *)
(* reach GitHub, or be done with its answer lost; the job may die before   *)
(* any step, and is then run again on the same SHA or given up.  Between   *)
(* the runs, and before publish reads, a human may tidy up by hand         *)
(* (Inngrep).  The environment never edits a release while publish is      *)
(* writing it.                                                             *)
(*                                                                         *)
(* A ZIP is represented by the component tree it holds: bygg_zip gives the *)
(* same bytes for the same tree.  Texts (the body from the changelog) are  *)
(* left out; a missing release note is an error before anything is written *)
(* and is one with the job dying there.                                    *)
(***************************************************************************)
EXTENDS Integers

CONSTANTS
  Commits,     \* the commits that can be candidates
  VersjonAv,   \* the manifest version of each, a number; 0 is 0.0.0
  Innhold,     \* the component tree of each
  Startgren,   \* the commits on the main branch at the start
  Grunnlag,    \* what an evidence report can be made from (same_source)
  Ingen,       \* absent: a tag, an asset, a release
  Gren,        \* target_commitish of a draft made by hand: a branch
  Skadet,      \* the content of an asset that was damaged on its way
  MaksKjoringer, \* bound on new runs (running one again is not counted)
  MaksFeil,    \* bound on failing calls and dying jobs
  MaksInngrep, \* bound on interventions by hand
  MaksId       \* bound on releases that are ever made

ASSUME KandidatAssumption ==
  /\ VersjonAv \in [Commits -> Nat]
  /\ Startgren \subseteq Commits
  /\ Ingen \notin Commits /\ Gren \notin Commits /\ Ingen # Gren
  /\ \A c \in Commits : Innhold[c] \notin {Ingen, Skadet}
  /\ Ingen # Skadet /\ Ingen \notin Nat
  /\ MaksKjoringer \in Nat /\ MaksFeil \in Nat /\ MaksInngrep \in Nat /\ MaksId \in Nat

VARIABLES
  hovedgren,   \* the commits on GitHub's default branch
  tagg,        \* the commit of each version's tag, or Ingen
  releaser,    \* the releases and drafts
  latest,      \* the version marked as latest, or Ingen
  attest,      \* attestations: <<content, source commit>>
  kj,          \* the run in progress
  kjoringer,   \* new runs so far, bounded by MaksKjoringer
  feil,        \* failures so far, bounded by MaksFeil
  inngrep      \* interventions so far, bounded by MaksInngrep

vars == <<hovedgren, tagg, releaser, latest, attest, kj, kjoringer, feil, inngrep>>

Versjoner == {VersjonAv[c] : c \in Commits}
Proveversjon == 0
Innholdene == {Innhold[c] : c \in Commits}
Bevis == [sha : Commits, grunnlag : Grunnlag, bestatt : BOOLEAN]

Releaser ==
  [id : 1 .. MaksId, v : Versjoner, draft : BOOLEAN, mal : Commits \cup {Gren},
   zip : Innholdene \cup {Ingen, Skadet}, bevis : Bevis \cup {Ingen, Skadet}]

\* Where a run is.  "plan", "klar", "attestert": the workflow's steps before
\* publish.  From "tagg" on publish has read GitHub and writes; the phase is the
\* next thing it makes sure of.  "feilet" is exit 1 or a dead job, "stopp" exit 2.
Skriver == {"tagg", "draft", "zip", "bevis", "publiser"}
Faser == {"ledig", "plan", "klar", "attestert", "feilet", "stopp"} \cup Skriver

\* sha, prove, bevis: the candidate, the test release box and the report of its
\* CI run.  id, zip, evidens: the release and its assets as publish read them.
\* nyest: what make_latest is to be.
IngenKjoring ==
  [fase |-> "ledig", sha |-> Ingen, prove |-> FALSE, bevis |-> Ingen,
   id |-> 0, zip |-> Ingen, evidens |-> Ingen, nyest |-> FALSE]

NyKjoring(c, prove, b) ==
  [fase |-> "plan", sha |-> c, prove |-> prove, bevis |-> b,
   id |-> 0, zip |-> Ingen, evidens |-> Ingen, nyest |-> FALSE]

Lop ==
  [fase : Faser, sha : Commits \cup {Ingen}, prove : BOOLEAN, bevis : Bevis \cup {Ingen},
   id : 0 .. MaksId, zip : Innholdene \cup {Ingen, Skadet},
   evidens : Bevis \cup {Ingen, Skadet}, nyest : BOOLEAN]

v == VersjonAv[kj.sha]

-----------------------------------------------------------------------------
(***************************************************************************)
(* What a run reads and requires.                                          *)
(***************************************************************************)

\* finn_release: the releases with the candidate's tag, drafts too.
Treff == {r \in releaser : r.v = v}
Entydig == \A r, s \in Treff : r = s
Publisert == \E r \in Treff : ~ r.draft

\* release_evidence.validate, same_source.
Gyldig(b, sha) == b \notin {Ingen, Skadet} /\ b.sha = sha /\ b.bestatt
SammeKilde(b, c) == b.sha = c.sha /\ b.grunnlag = c.grunnlag

\* krev_hovedgren: on the main branch, or a test release of version 0.0.0.
Hovedgrenkrav ==
  IF kj.prove THEN v = Proveversjon ELSE kj.sha \in hovedgren

\* Mutant of Draftkrav: any draft with the tag is reused.
AlleDrafter(r) == TRUE

\* krev_draft_pa_kandidaten: a draft made for another commit is not reused.
Draftkrav(r) == r.mal \in {Gren, kj.sha}

\* sikre_tagg before it writes: the tag is absent or on the candidate.
Taggkrav == tagg[v] \in {Ingen, kj.sha}

\* What kjor goes through before it looks at the tag.
Klar ==
  /\ Entydig
  /\ ~ Publisert
  /\ Hovedgrenkrav
  /\ \A r \in Treff : Draftkrav(r)
  /\ Gyldig(kj.bevis, kj.sha)

\* Mutant of SkalVaereLatest: GitHub's default, the one published last.
SisteErLatest == v # Proveversjon

\* skal_vaere_latest: only a version above the one that is latest now.
SkalVaereLatest == v # Proveversjon /\ (latest = Ingen \/ v > latest)

\* sjekk_publisert, the checks that block: a release that is out has a ZIP with
\* the tree of its tag, and valid evidence for that commit.  Without a tag there
\* is nothing to check against, and that does not block.  Every commit here
\* carries scripts/release_evidence.py; of an older one missing evidence would
\* not block.  An asset that is no ZIP at all ends the run in an exception of
\* _pakk_ut: another message, the same stop.
Henger(r) ==
  tagg[v] # Ingen => r.zip = Innhold[tagg[v]] /\ Gyldig(r.bevis, tagg[v])

Med(fase) == kj' = [kj EXCEPT !.fase = fase]

\* A failing step is a step of the environment.
Feiler == feil < MaksFeil /\ feil' = feil + 1

-----------------------------------------------------------------------------
(***************************************************************************)
(* The workflow up to publish.                                             *)
(***************************************************************************)
Init ==
  /\ hovedgren = Startgren
  /\ tagg = [w \in Versjoner |-> Ingen]
  /\ releaser = {}
  /\ latest = Ingen
  /\ attest = {}
  /\ kj = IngenKjoring
  /\ kjoringer = 0
  /\ feil = 0
  /\ inngrep = 0

\* A commit lands on the main branch, whatever the release job is doing.
Push(c) ==
  /\ c \notin hovedgren
  /\ hovedgren' = hovedgren \cup {c}
  /\ UNCHANGED <<tagg, releaser, latest, attest, kj, feil, kjoringer, inngrep>>

\* A push to main, or a dispatch on a tag or (prove) on any branch, with the
\* report of its own CI run.
Start(c, prove, b) ==
  /\ kj.fase = "ledig"
  /\ kjoringer < MaksKjoringer
  /\ kjoringer' = kjoringer + 1
  /\ prove \/ c \in hovedgren \/ tagg[VersjonAv[c]] = c
  /\ b.sha = c
  /\ kj' = NyKjoring(c, prove, b)
  /\ UNCHANGED <<hovedgren, tagg, releaser, latest, attest, feil, inngrep>>

\* What contradicts the candidate stops the run.  A version that is out is
\* checked against its own tag, and there is nothing more to do.
Avvist ==
  /\ ~ Klar
  /\ IF Entydig /\ Publisert /\ \A r \in Treff : Henger(r)
     THEN kj' = IngenKjoring
     ELSE Med("stopp")

\* plan: the same reads as publish, and nothing is written.
Plan ==
  /\ kj.fase = "plan"
  /\ (Klar /\ Med(IF Taggkrav THEN "klar" ELSE "stopp")) \/ Avvist
  /\ UNCHANGED <<hovedgren, tagg, releaser, latest, attest, feil, kjoringer, inngrep>>

\* The workflow builds the ZIP from the SHA and attests it.
Attester ==
  /\ kj.fase = "klar"
  /\ attest' = attest \cup {<<Innhold[kj.sha], kj.sha>>}
  /\ Med("attestert")
  /\ UNCHANGED <<hovedgren, tagg, releaser, latest, feil, kjoringer, inngrep>>

\* The release publish will work on, as it reads it now: id 0 when there is none.
Lest ==
  IF Treff = {} THEN [id |-> 0, zip |-> Ingen, bevis |-> Ingen]
  ELSE CHOOSE r \in Treff : TRUE

\* publish reads everything once more, and the attestation.
Les ==
  /\ kj.fase = "attestert"
  /\ \/ /\ Klar
        /\ <<Innhold[kj.sha], kj.sha>> \in attest
        /\ kj' = [kj EXCEPT !.fase = "tagg", !.id = Lest.id, !.zip = Lest.zip,
                            !.evidens = Lest.bevis, !.nyest = SkalVaereLatest]
     \/ Avvist
  /\ UNCHANGED <<hovedgren, tagg, releaser, latest, attest, feil, kjoringer, inngrep>>

\* dry_run: publish with every check and no writing.
Torrkjor ==
  /\ kj.fase = "attestert"
  /\ Klar
  /\ Taggkrav
  /\ kj' = IngenKjoring
  /\ UNCHANGED <<hovedgren, tagg, releaser, latest, attest, feil, kjoringer, inngrep>>

-----------------------------------------------------------------------------
(***************************************************************************)
(* publish, one writing call at a time.  svar is what becomes of the call: *)
(* "ok", "borte" (it never reached GitHub), or "tapt" (done, but the       *)
(* answer is lost).                                                        *)
(***************************************************************************)
Svar == {"ok", "borte", "tapt"}

\* A call without a read-back: any error ends the run.
Videre(svar, neste) ==
  IF svar = "ok" THEN Med(neste) /\ UNCHANGED feil ELSE Med("feilet") /\ Feiler

\* Mutant of SikreTagg: a tag on another commit is moved.
FlyttTagg(svar) ==
  /\ kj.fase = "tagg"
  /\ tagg' = IF svar = "borte" THEN tagg ELSE [tagg EXCEPT ![v] = kj.sha]
  /\ Videre(svar, "draft")
  /\ UNCHANGED <<hovedgren, releaser, latest, attest, kjoringer, inngrep>>

\* sikre_tagg: the tag is there already, is made on the SHA, or stops the run.
SikreTagg(svar) ==
  /\ kj.fase = "tagg"
  /\ \/ /\ tagg[v] = Ingen
        /\ tagg' = IF svar = "borte" THEN tagg ELSE [tagg EXCEPT ![v] = kj.sha]
        /\ Videre(svar, "draft")
     \/ /\ tagg[v] # Ingen
        /\ svar = "ok"
        /\ Med(IF Taggkrav THEN "draft" ELSE "stopp")
        /\ UNCHANGED <<tagg, feil>>
  /\ UNCHANGED <<hovedgren, releaser, latest, attest, kjoringer, inngrep>>

\* GitHub gives a new release an id that no other has.
LedigeId == {i \in 1 .. MaksId : \A r \in releaser : r.id # i}
NesteId == CHOOSE i \in LedigeId : TRUE

\* Mutant of SikreDraft: a draft is always made.
SikreDraftAlltid(svar) ==
  /\ kj.fase = "draft"
  /\ LedigeId # {}
  /\ LET ny == [id |-> NesteId, v |-> v, draft |-> TRUE, mal |-> kj.sha,
                zip |-> Ingen, bevis |-> Ingen]
     IN  releaser' = IF svar = "borte" THEN releaser ELSE releaser \cup {ny}
  /\ IF svar = "ok"
     THEN kj' = [kj EXCEPT !.fase = "zip", !.id = NesteId, !.zip = Ingen, !.evidens = Ingen]
          /\ UNCHANGED feil
     ELSE Med("feilet") /\ Feiler
  /\ UNCHANGED <<hovedgren, tagg, latest, attest, kjoringer, inngrep>>

\* sikre_draft: the draft that was read is used again, or one is made.
SikreDraft(svar) ==
  /\ kj.fase = "draft"
  /\ IF kj.id # 0
     THEN svar = "ok" /\ Med("zip") /\ UNCHANGED <<releaser, feil>>
     ELSE /\ LedigeId # {}
          /\ LET ny == [id |-> NesteId, v |-> v, draft |-> TRUE, mal |-> kj.sha,
                        zip |-> Ingen, bevis |-> Ingen]
             IN  releaser' = IF svar = "borte" THEN releaser ELSE releaser \cup {ny}
          /\ IF svar = "ok"
             THEN kj' = [kj EXCEPT !.fase = "zip", !.id = NesteId] /\ UNCHANGED feil
             ELSE Med("feilet") /\ Feiler
  /\ UNCHANGED <<hovedgren, tagg, latest, attest, kjoringer, inngrep>>

\* The release with id i with one field changed; GitHub refuses a second asset
\* of the same name.
MedZip(i, x) ==
  {IF r.id = i /\ r.zip = Ingen THEN [r EXCEPT !.zip = x] ELSE r : r \in releaser}
MedBevis(i, x) ==
  {IF r.id = i /\ r.bevis = Ingen THEN [r EXCEPT !.bevis = x] ELSE r : r \in releaser}

\* What an upload of x leaves on the release, and the run's next phase after the
\* read-back: the right content goes on, nothing there ends it (an error for the
\* ZIP, a stop for the report), and other content stops.  An error on the upload
\* itself decides nothing.
EtterLesing(lagret, x, neste, borte) ==
  CASE lagret = x -> Med(neste) /\ UNCHANGED feil
    [] lagret = Ingen -> Med(borte) /\ Feiler
    [] OTHER -> Med("stopp") /\ Feiler

\* Mutant of SikreZip: an asset that is there is uploaded once more.
SikreZipAlltid(lagret) ==
  /\ kj.fase = "zip"
  /\ lagret \in {Innhold[kj.sha], Ingen, Skadet}
  /\ releaser' = MedZip(kj.id, lagret)
  /\ IF kj.zip = Ingen THEN EtterLesing(lagret, Innhold[kj.sha], "bevis", "feilet")
     ELSE Med("feilet") /\ UNCHANGED feil
  /\ UNCHANGED <<hovedgren, tagg, latest, attest, kjoringer, inngrep>>

\* sikre_asset: the asset that was there has the right digest, or it is
\* uploaded and read back.
SikreZip(lagret) ==
  /\ kj.fase = "zip"
  /\ IF kj.zip # Ingen
     THEN /\ lagret = kj.zip
          /\ IF kj.zip = Innhold[kj.sha] THEN Med("bevis") ELSE Med("stopp")
          /\ UNCHANGED <<releaser, feil>>
     ELSE /\ lagret \in {Innhold[kj.sha], Ingen, Skadet}
          /\ releaser' = MedZip(kj.id, lagret)
          /\ EtterLesing(lagret, Innhold[kj.sha], "bevis", "feilet")
  /\ UNCHANGED <<hovedgren, tagg, latest, attest, kjoringer, inngrep>>

\* sikre_evidence: the same for the report, which may be of an earlier CI run of
\* the same commit and sources.
SikreBevis(lagret) ==
  /\ kj.fase = "bevis"
  /\ IF kj.evidens # Ingen
     THEN /\ lagret = kj.evidens
          /\ IF Gyldig(kj.evidens, kj.sha) /\ SammeKilde(kj.bevis, kj.evidens)
             THEN Med("publiser") ELSE Med("stopp")
          /\ UNCHANGED <<releaser, feil>>
     ELSE /\ lagret \in {kj.bevis, Ingen, Skadet}
          /\ releaser' = MedBevis(kj.id, lagret)
          /\ EtterLesing(lagret, kj.bevis, "publiser", "stopp")
  /\ UNCHANGED <<hovedgren, tagg, latest, attest, kjoringer, inngrep>>

\* The last call: draft = false, with make_latest as decided when it was read.
Publiser(svar) ==
  /\ kj.fase = "publiser"
  /\ IF svar = "borte" THEN UNCHANGED <<releaser, latest>>
     ELSE /\ releaser' = {IF r.id = kj.id THEN [r EXCEPT !.draft = FALSE] ELSE r : r \in releaser}
          /\ latest' = IF kj.nyest THEN v ELSE latest
  /\ IF svar = "ok" THEN kj' = IngenKjoring /\ UNCHANGED feil ELSE Med("feilet") /\ Feiler
  /\ UNCHANGED <<hovedgren, tagg, attest, kjoringer, inngrep>>

-----------------------------------------------------------------------------
(***************************************************************************)
(* What goes on around the calls.                                          *)
(***************************************************************************)

\* The job dies, times out, or a reading call fails.
Krasj ==
  /\ kj.fase \notin {"ledig", "feilet", "stopp"}
  /\ Feiler
  /\ Med("feilet")
  /\ UNCHANGED <<hovedgren, tagg, releaser, latest, attest, kjoringer, inngrep>>

\* "Re-run failed jobs" keeps the SHA and the report; running CI again too gives
\* a new report of the same commit.  A run that stopped can be run again too.
Igjen(b) ==
  /\ kj.fase \in {"feilet", "stopp"}
  /\ Gyldig(b, kj.sha)
  /\ kj' = NyKjoring(kj.sha, kj.prove, b)
  /\ UNCHANGED <<hovedgren, tagg, releaser, latest, attest, feil, kjoringer, inngrep>>

\* Nobody runs it again.
GiOpp ==
  /\ kj.fase \in {"feilet", "stopp"}
  /\ kj' = IngenKjoring
  /\ UNCHANGED <<hovedgren, tagg, releaser, latest, attest, feil, kjoringer, inngrep>>

\* By hand, while nothing is being written.
Inngrep ==
  /\ kj.fase \notin Skriver
  /\ inngrep < MaksInngrep
  /\ inngrep' = inngrep + 1
  /\ UNCHANGED <<hovedgren, latest, attest, kj, kjoringer, feil>>

\* A tag of a version that is not out is deleted, or made on some commit.
TaggForHand(w, c) ==
  /\ Inngrep
  /\ \A r \in releaser : r.v = w => r.draft
  /\ tagg' = [tagg EXCEPT ![w] = c]
  /\ tagg[w] # c
  /\ UNCHANGED releaser

\* A draft is deleted.
SlettDraft(r) ==
  /\ Inngrep
  /\ r.draft
  /\ releaser' = releaser \ {r}
  /\ UNCHANGED tagg

\* A draft is made in the browser: it points at a branch and has no assets.
DraftForHand(w) ==
  /\ Inngrep
  /\ LedigeId # {}
  /\ releaser' = releaser \cup
       {[id |-> NesteId, v |-> w, draft |-> TRUE, mal |-> Gren, zip |-> Ingen, bevis |-> Ingen]}
  /\ UNCHANGED tagg

\* An asset is deleted, or another ZIP is put on the release.
ZipForHand(r, x) ==
  /\ Inngrep
  /\ r.zip # x
  /\ releaser' = (releaser \ {r}) \cup {[r EXCEPT !.zip = x]}
  /\ UNCHANGED tagg

BevisForHand(r) ==
  /\ Inngrep
  /\ r.bevis # Ingen
  /\ releaser' = (releaser \ {r}) \cup {[r EXCEPT !.bevis = Ingen]}
  /\ UNCHANGED tagg

Publiseringssteg ==
  \/ \E svar \in Svar : SikreTagg(svar) \/ SikreDraft(svar) \/ Publiser(svar)
  \/ \E x \in Innholdene \cup {Ingen, Skadet} : SikreZip(x)
  \/ \E x \in Bevis \cup {Ingen, Skadet} : SikreBevis(x)

Kjoringssteg == Plan \/ Attester \/ Les \/ Publiseringssteg

Forhand ==
  \/ \E w \in Versjoner, c \in Commits \cup {Ingen} : TaggForHand(w, c)
  \/ \E w \in Versjoner : DraftForHand(w)
  \/ \E r \in releaser : SlettDraft(r) \/ BevisForHand(r)
  \/ \E r \in releaser, x \in Innholdene \cup {Ingen} : ZipForHand(r, x)

Next ==
  \/ \E c \in Commits : Push(c)
  \/ \E c \in Commits, prove \in BOOLEAN, b \in Bevis : Start(c, prove, b)
  \/ Kjoringssteg
  \/ Torrkjor
  \/ Krasj
  \/ \E b \in Bevis : Igjen(b)
  \/ GiOpp
  \/ Forhand

\* A job that runs goes on, and a run that failed is run again or given up; one
\* that stopped waits for a decision.
\* Nothing is assumed of people, of pushes, or of new runs.
Fairness ==
  /\ WF_vars(Kjoringssteg)
  /\ WF_vars(kj.fase = "feilet" /\ \E b \in Bevis : Igjen(b))

Spec == Init /\ [][Next]_vars /\ Fairness

-----------------------------------------------------------------------------
(***************************************************************************)
(* Properties.                                                             *)
(***************************************************************************)
TypeOK ==
  /\ hovedgren \subseteq Commits
  /\ tagg \in [Versjoner -> Commits \cup {Ingen}]
  /\ releaser \subseteq Releaser
  /\ latest \in Versjoner \cup {Ingen}
  /\ attest \subseteq Innholdene \X Commits
  /\ kj \in Lop
  /\ kj.fase # "ledig" => kj.sha \in Commits /\ kj.bevis \in Bevis
  /\ kjoringer \in Nat /\ feil \in Nat /\ inngrep \in Nat

\* The release's ZIP, attestation, evidence and draft belong to the commit of its
\* tag, and that commit is on the main branch (or the version is 0.0.0).
Bundet(r, c) ==
  /\ c \in Commits /\ VersjonAv[c] = r.v
  /\ r.mal \in {Gren, c}
  /\ r.zip = Innhold[c]
  /\ <<r.zip, c>> \in attest
  /\ Gyldig(r.bevis, c)
  /\ c \in hovedgren \/ r.v = Proveversjon

\* What publish has made sure of when it is at kj.fase: it works on the only
\* release of the version, a draft of its own commit or one made by hand, and
\* everything it has passed is in place.
Skriveklar ==
  /\ kj.sha \in hovedgren \/ v = Proveversjon
  /\ <<Innhold[kj.sha], kj.sha>> \in attest
  /\ Gyldig(kj.bevis, kj.sha)
  /\ kj.fase # "tagg" => tagg[v] = kj.sha
  /\ kj.nyest => SkalVaereLatest
  /\ \A r \in releaser : r.v = v <=> r.id = kj.id
  /\ \A r \in releaser : r.v = v =>
       /\ r.draft /\ r.mal \in {Gren, kj.sha}
       /\ r.zip = IF kj.fase \in {"bevis", "publiser"} THEN Innhold[kj.sha] ELSE kj.zip
       /\ IF kj.fase = "publiser" THEN Gyldig(r.bevis, kj.sha) ELSE r.bevis = kj.evidens
  /\ kj.id # 0 => \E r \in releaser : r.id = kj.id
  /\ kj.id = 0 => kj.fase \in {"tagg", "draft"} /\ kj.zip = Ingen /\ kj.evidens = Ingen

\* What publish read at its start stays true until its last call, whatever is
\* pushed meanwhile and whatever earlier attempts left behind.
Underveis ==
  /\ TypeOK
  /\ \A r, s \in releaser : r.id = s.id => r = s
  /\ kj.fase \in Skriver => Skriveklar

\* The module docstring's promise: repo, commit and version are one candidate.
\* Whatever earlier attempts, failures and people left behind, a release that
\* becomes public is bound to the commit of its tag in all its parts.
SlippErBundet ==
  [][\A r \in releaser, s \in releaser' :
       r.id = s.id /\ r.draft /\ ~ s.draft => Bundet(s, tagg[s.v])']_vars

\* A tag is never moved and what is public is never written again, by any number
\* of runs on any commits, except by hand.
UteErUte ==
  [][inngrep' = inngrep =>
       /\ \A w \in Versjoner : tagg[w] # Ingen => tagg'[w] = tagg[w]
       /\ \A r \in releaser : ~ r.draft => r \in releaser']_vars

\* skal_vaere_latest: what users are offered never goes back to an older version,
\* and is never the test version; the choice is made long before it is used.
LatestAldriBakover ==
  [][/\ latest # Ingen => latest' # Ingen /\ latest' >= latest
     /\ latest' # Proveversjon]_vars

\* "Each step is idempotent": without anything done by hand, no crash and no lost
\* answer leaves behind something that stops the next attempt on the same commit.
\* What may stop it is a candidate that is not allowed, a tag on another commit,
\* an asset damaged on its way, or a report made from other sources (or that did
\* not arrive, but that leaves nothing behind).
IngenUnodigStopp ==
  [][kj.fase # "stopp" /\ kj'.fase = "stopp" /\ inngrep = 0 =>
       \/ ~ Hovedgrenkrav
       \/ ~ Gyldig(kj.bevis, kj.sha)
       \/ ~ Taggkrav
       \/ kj.fase = "bevis" /\ feil' > feil
       \/ \E r \in releaser' :
            /\ r.v = v
            /\ \/ Skadet \in {r.zip, r.bevis}
               \/ r.bevis # Ingen /\ ~ SammeKilde(r.bevis, kj.bevis)]_vars

\* A failed run does not fail forever: run again on the same commit it ends, with
\* the version out, with a stop that says why, or given up.
Gjenopptak == kj.fase = "feilet" ~> kj.fase \in {"ledig", "stopp"}

=============================================================================

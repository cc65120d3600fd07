------------------------------- MODULE Hovedbok -------------------------------
(***************************************************************************)
(* What the settlement kernel promises, without hours, prices, caches or   *)
(* files: a ledger with one account per billing month.  Energy is received *)
(* into the open account or rejected in it, an account that is passed is   *)
(* closed for good, and the whole ledger can be written down and taken up  *)
(* again as it was written.  Module Avregningsbok is shown to implement it.*)
(***************************************************************************)
EXTENDS Integers, FiniteSetsExt

CONSTANTS
  Maneder,   \* the billing months, numbers in calendar order
  Ingen      \* no month has been opened yet

VARIABLES
  hovedbok,  \* the ledger: the open month, its account, the closed accounts
             \* and all energy that was ever received
  avskrift   \* the copy that was last written

vars == <<hovedbok, avskrift>>

TomKonto == [dag |-> 0, natt |-> 0, avvist |-> 0]

TomHovedbok ==
  [aktiv |-> Ingen, aapen |-> TomKonto, lukket |-> <<>>, mottatt |-> 0]

\* Account b is account a with more in it.
Voks(a, b) == a.dag <= b.dag /\ a.natt <= b.natt /\ a.avvist <= b.avvist

Belop(konto) == konto.dag + konto.natt + konto.avvist

\* Everything that stands on an account.
Saldo(l) ==
  Belop(l.aapen) + MapThenSumSet(LAMBDA m : Belop(l.lukket[m]), DOMAIN l.lukket)

-----------------------------------------------------------------------------
Init == hovedbok = TomHovedbok /\ avskrift = TomHovedbok

\* From ledger l to ledger k inside a month: only the open account grows.
IManeden(l, k) ==
  /\ k.aktiv = l.aktiv
  /\ k.lukket = l.lukket
  /\ Voks(l.aapen, k.aapen)

\* From l to k over one or more month boundaries: the account that was open is
\* closed as the first of the new ones, later months are closed on the way,
\* and the accounts that were closed before stay as they are.
OverManedsskifte(l, k) ==
  LET nye == DOMAIN k.lukket \ DOMAIN l.lukket
      forste == Min(nye \cup {k.aktiv})
      Konto(m) == IF m = k.aktiv THEN k.aapen ELSE k.lukket[m]
  IN  /\ k.aktiv \in Maneder \ {l.aktiv}
      /\ l.aktiv # Ingen => l.aktiv = forste
      /\ \A m \in DOMAIN l.lukket :
           m \in DOMAIN k.lukket /\ k.lukket[m] = l.lukket[m]
      /\ \A m \in nye : m \in Maneder /\ m < k.aktiv
      /\ Voks(l.aapen, Konto(forste))
      /\ \A m \in nye \cup {k.aktiv} : Voks(TomKonto, Konto(m))

\* Energy is received, and the accounts grow by exactly what came in.  (The two
\* ledgers are bound, so that they are computed once where they are mapped.)
Motta ==
  /\ \E l \in {hovedbok} : \E k \in {hovedbok'} :
       /\ IManeden(l, k) \/ OverManedsskifte(l, k)
       /\ Saldo(k) - Saldo(l) = k.mottatt - l.mottatt
  /\ UNCHANGED avskrift

Skriv == avskrift' = hovedbok /\ UNCHANGED hovedbok

TaOpp == hovedbok' = avskrift /\ UNCHANGED avskrift

Next == Motta \/ Skriv \/ TaOpp

Spec == Init /\ [][Next]_vars

=============================================================================

--------------------------- MODULE AvregningProofs ---------------------------
(***************************************************************************)
(* Lemmas about the operators of Avregning: ticks, hours and routes stay   *)
(* on the calendar, and every call on a book preserves BokInv, whatever    *)
(* the calendar, the resolution and the thresholds are.  The last section  *)
(* counts the energy of a book through every call.                         *)
(***************************************************************************)
EXTENDS Avregning, FiniteSetTheorems, WellFoundedInduction, TLAPS

BokInv(b) == StrukturOK(b) /\ CacheFersk(b) /\ BidragFersk(b)

-----------------------------------------------------------------------------
(***************************************************************************)
(* Ticks, hours and routes.                                                *)
(***************************************************************************)

\* The quotient of a number below n * d is below n.
LEMMA DivisjonUnder ==
  ASSUME NEW d \in Nat \ {0}, NEW n \in Nat, NEW t \in 0 .. n * d - 1
  PROVE  t \div d \in 0 .. n - 1
<1> DEFINE q == t \div d
<1>1. q \in Int /\ t = d * q + (t % d) /\ 0 <= t % d
  OBVIOUS
<1>2. q >= 0
  OBVIOUS
<1>3. d * q < n * d
  BY <1>1
<1>4. q < n
  <2>1. SUFFICES ASSUME q >= n PROVE FALSE
    BY <1>1
  <2>2. d * q >= d * n
    BY <1>1, <2>1
  <2>. QED
    BY <1>1, <1>3, <2>2
<1>. QED
  BY <1>1, <1>2, <1>4

LEMMA TikkHel == Tikk \subseteq Nat
<1>1. (SisteTime + 1) * TikkPerTime \in Nat
  BY TidAssumption DEF TikkPerTime
<1>. QED
  BY <1>1 DEF Tikk

LEMMA RuteType ==
  ASSUME NEW t \in Tikk
  PROVE  Rute(t) \in Ruter
<1>1. (SisteTime + 1) * RuterPerTime \in Nat
  BY TidAssumption
<1>2. (SisteTime + 1) * (TikkPerRute * RuterPerTime)
         = ((SisteTime + 1) * RuterPerTime) * TikkPerRute
  BY TidAssumption
<1>. QED
  BY <1>1, <1>2, TidAssumption, DivisjonUnder DEF Tikk, Rute, Ruter, TikkPerTime

LEMMA TimeType ==
  ASSUME NEW t \in Tikk
  PROVE  Time(t) \in Timer
<1>1. TikkPerTime \in Nat \ {0} /\ SisteTime + 1 \in Nat
  BY TidAssumption DEF TikkPerTime
<1>2. Time(t) \in 0 .. (SisteTime + 1) - 1
  BY <1>1, DivisjonUnder DEF Tikk, Time
<1>. QED
  BY <1>2, TidAssumption DEF Timer

LEMMA TimeForRuteType ==
  ASSUME NEW r \in Ruter
  PROVE  TimeForRute(r) \in Timer
<1>1. TimeForRute(r) \in 0 .. (SisteTime + 1) - 1
  BY TidAssumption, DivisjonUnder DEF Ruter, TimeForRute
<1>. QED
  BY <1>1, TidAssumption DEF Timer

LEMMA ManedType ==
  ASSUME NEW h \in Timer
  PROVE  ManedAv[h] \in Maneder /\ ManedAv[h] \in Nat /\ ManedAv[h] # Ingen
BY KalenderAssumption DEF Maneder

LEMMA ManederNat == \A m \in Maneder : m \in Nat /\ m # Ingen
BY KalenderAssumption DEF Maneder

\* The hours a window touches are hours of the model.
LEMMA VinduType ==
  ASSUME NEW fra \in Tikk, NEW til \in Tikk, fra < til, NEW delta
  PROVE  /\ DOMAIN FordelDelta(fra, til, delta) = Time(fra) .. Time(til - 1)
         /\ DOMAIN FordelDelta(fra, til, delta) \subseteq Timer
         /\ Time(fra) \in Timer /\ Time(til - 1) \in Timer
         /\ til - 1 \in Tikk
<1>1. til - 1 \in Tikk
  BY TidAssumption DEF Tikk, TikkPerTime
<1>2. Time(fra) \in Timer /\ Time(til - 1) \in Timer
  BY <1>1, TimeType
<1>3. Time(fra) .. Time(til - 1) \subseteq Timer
  BY <1>2, TidAssumption DEF Timer
<1>. QED
  BY <1>1, <1>2, <1>3 DEF FordelDelta

-----------------------------------------------------------------------------
(***************************************************************************)
(* Sums over finite sets.  The modules add up with SumFunctionOnSet and    *)
(* MapThenSumSet, which fold in an order CHOOSE decides.  That the order   *)
(* does not matter is proved by induction over the finite set: a set of    *)
(* subsets takes the place of the predicate, and the smallest subset that  *)
(* is not in it cannot exist.                                              *)
(***************************************************************************)

\* A set that holds a subset of S whenever it holds all its proper subsets holds
\* them all: there is no smallest one it does not hold.
LEMMA DelmengdeInduksjon ==
  ASSUME NEW S, IsFiniteSet(S), NEW G,
         \A T \in SUBSET S : (\A U \in SUBSET T : U # T => U \in G) => T \in G
  PROVE  \A T \in SUBSET S : T \in G
<1> DEFINE R == StrictSubsetOrdering(S)
           B == {T \in SUBSET S : T \notin G}
<1>1. SUFFICES ASSUME B # {} PROVE FALSE
  OBVIOUS
<1>2. IsWellFoundedOn(R, SUBSET S)
  BY FS_StrictSubsetOrderingWellFounded, FS_FiniteSubsetsOfFinite
<1>a. B \subseteq SUBSET S
  OBVIOUS
<1> HIDE DEF R, B
<1>3. PICK T \in B : \A U \in B : ~ (<<U, T>> \in R)
  BY <1>a, <1>1, <1>2, WFMin
<1>4. \A U \in SUBSET T : U # T => U \in G
  BY <1>3, <1>a DEF R, B, StrictSubsetOrdering
<1>. QED
  BY <1>3, <1>4 DEF B

\* Induction over a finite set, one element at a time.
LEMMA EndeligInduksjon ==
  ASSUME NEW S, IsFiniteSet(S), NEW G,
         {} \in G,
         \A T \in SUBSET S, x \in S : T \in G /\ x \notin T => T \cup {x} \in G
  PROVE  S \in G
<1>1. ASSUME NEW T \in SUBSET S, \A U \in SUBSET T : U # T => U \in G
      PROVE  T \in G
  <2>1. CASE T = {}
    BY <2>1
  <2>2. ASSUME NEW x \in T PROVE T \in G
    <3>1. (T \ {x}) \cup {x} = T
      OBVIOUS
    <3>. QED
      BY <1>1, <3>1
  <2>. QED
    BY <2>1, <2>2
<1>. QED
  BY <1>1, DelmengdeInduksjon

\* The function the fold of a sum is defined by.
Valgt(s) == CHOOSE x \in s : TRUE

ErSum(g, f, S) ==
  g = [s \in SUBSET S |-> IF s = {} THEN 0 ELSE f[Valgt(s)] + g[s \ {Valgt(s)}]]

Sumfunksjon(f, S) == CHOOSE g : ErSum(g, f, S)

\* The library's fold is this function, taken at the whole set.
LEMMA SumUtfoldet ==
  ASSUME NEW f, NEW S
  PROVE  SumFunctionOnSet(f, S) = Sumfunksjon(f, S)[S]
BY DEF SumFunctionOnSet, FoldFunctionOnSet, MapThenFoldSet, ErSum, Sumfunksjon, Valgt

\* The element chosen is in the set, and leaves a smaller set.
LEMMA ValgtI ==
  ASSUME NEW s, s # {}
  PROVE  Valgt(s) \in s /\ s \ {Valgt(s)} \in SUBSET s /\ s \ {Valgt(s)} # s
BY DEF Valgt

\* There is at most one such function, on a set and on its subsets.
LEMMA SumEntydig ==
  ASSUME NEW S, IsFiniteSet(S), NEW T \in SUBSET S, NEW f,
         NEW g, NEW h, ErSum(g, f, S), ErSum(h, f, T)
  PROVE  \A s \in SUBSET T : g[s] = h[s]
<1> DEFINE G == {s \in SUBSET T : g[s] = h[s]}
<1>1. ASSUME NEW s \in SUBSET T, \A U \in SUBSET s : U # s => U \in G
      PROVE  s \in G
  <2>1. CASE s = {}
    BY <2>1 DEF ErSum
  <2>2. CASE s # {}
    <3>1. s \ {Valgt(s)} \in G
      BY <1>1, <2>2, ValgtI
    <3>2. /\ g[s] = f[Valgt(s)] + g[s \ {Valgt(s)}]
          /\ h[s] = f[Valgt(s)] + h[s \ {Valgt(s)}]
      BY <2>2 DEF ErSum
    <3>. QED
      BY <3>1, <3>2
  <2>. QED
    BY <2>1, <2>2
<1>2. \A s \in SUBSET T : s \in G
  <2>1. IsFiniteSet(T)
    BY FS_Subset
  <2> HIDE DEF G
  <2>. QED
    BY <1>1, <2>1, DelmengdeInduksjon
<1>. QED
  BY <1>2

\* And there is one.
LEMMA SumFinnes ==
  ASSUME NEW S, IsFiniteSet(S), NEW f
  PROVE  \E g : ErSum(g, f, S)
<1> DEFINE G == {T \in SUBSET S : \E g : ErSum(g, f, T)}
<1>1. ASSUME NEW T \in SUBSET S, \A U \in SUBSET T : U # T => U \in G
      PROVE  T \in G
  <2> DEFINE g == [s \in SUBSET T |->
                     IF s = {} THEN 0
                     ELSE f[Valgt(s)] + Sumfunksjon(f, s \ {Valgt(s)})[s \ {Valgt(s)}]]
  <2>1. ASSUME NEW U \in SUBSET T, U # T
        PROVE  ErSum(Sumfunksjon(f, U), f, U)
    BY <1>1, <2>1 DEF Sumfunksjon
  <2>2. ASSUME NEW U \in SUBSET T, U # T
        PROVE  g[U] = Sumfunksjon(f, U)[U]
    <3>1. CASE U = {}
      BY <2>1, <2>2, <3>1 DEF ErSum
    <3>2. CASE U # {}
      <4> DEFINE V == U \ {Valgt(U)}
                 u == Sumfunksjon(f, U)
      <4>1. V \in SUBSET U /\ V # T /\ V \in SUBSET T /\ V \in SUBSET S
        BY <2>2, <3>2, ValgtI
      <4>3. ErSum(u, f, U) /\ ErSum(Sumfunksjon(f, V), f, V)
        BY <2>1, <2>2, <4>1
      <4>5. Sumfunksjon(f, V)[V] = u[V]
        <5>1. IsFiniteSet(U)
          BY FS_Subset
        <5> HIDE DEF u, V
        <5>. QED
          BY <4>1, <4>3, <5>1, SumEntydig
      <4>6. u[U] = f[Valgt(U)] + u[V]
        BY <3>2, <4>3 DEF ErSum
      <4>. QED
        BY <2>2, <3>2, <4>5, <4>6
    <3>. QED
      BY <3>1, <3>2
  <2>3. ErSum(g, f, T)
    BY <2>2, ValgtI DEF ErSum
  <2>. QED
    BY <2>3
<1>2. S \in G
  <2> HIDE DEF G
  <2>. QED
    BY <1>1, DelmengdeInduksjon
<1>. QED
  BY <1>2

\* The value of a sum.
LEMMA SumVerdi ==
  ASSUME NEW S, IsFiniteSet(S), NEW f, NEW g, ErSum(g, f, S)
  PROVE  SumFunctionOnSet(f, S) = g[S]
<1>1. ErSum(Sumfunksjon(f, S), f, S)
  BY DEF Sumfunksjon
<1>. QED
  <2>1. S \in SUBSET S
    OBVIOUS
  <2>2. \A s \in SUBSET S : Sumfunksjon(f, S)[s] = g[s]
    BY <1>1, <2>1, SumEntydig
  <2>. QED
    BY <2>1, <2>2, SumUtfoldet

\* The sum over nothing.
LEMMA SumTom ==
  ASSUME NEW f
  PROVE  SumFunctionOnSet(f, {}) = 0
<1>1. PICK g : ErSum(g, f, {})
  BY FS_EmptySet, SumFinnes
<1>2. g[{}] = 0
  BY <1>1 DEF ErSum
<1>. QED
  BY <1>1, <1>2, FS_EmptySet, SumVerdi

\* Its first step.
LEMMA SumSteg ==
  ASSUME NEW S, IsFiniteSet(S), S # {}, NEW f
  PROVE  SumFunctionOnSet(f, S)
           = f[Valgt(S)] + SumFunctionOnSet(f, S \ {Valgt(S)})
<1> DEFINE T == S \ {Valgt(S)}
<1>1. PICK g : ErSum(g, f, S)
  BY SumFinnes
<1>2. T \in SUBSET S /\ IsFiniteSet(T)
  BY FS_Subset
<1>4. SumFunctionOnSet(f, T) = g[T]
  <2> HIDE DEF T
  <2>1. PICK h : ErSum(h, f, T)
    BY <1>2, SumFinnes
  <2>2. SumFunctionOnSet(f, T) = h[T]
    BY <1>2, <2>1, SumVerdi
  <2>. QED
    BY <1>1, <1>2, <2>1, <2>2, SumEntydig
<1>5. g[S] = f[Valgt(S)] + g[T]
  BY <1>1 DEF ErSum
<1>. QED
  BY <1>1, <1>4, <1>5, SumVerdi

\* A sum of integers is an integer.
LEMMA SumType ==
  ASSUME NEW S, IsFiniteSet(S), NEW f, \A x \in S : f[x] \in Int
  PROVE  SumFunctionOnSet(f, S) \in Int
<1> DEFINE G == {T \in SUBSET S : SumFunctionOnSet(f, T) \in Int}
<1>1. ASSUME NEW T \in SUBSET S, \A U \in SUBSET T : U # T => U \in G
      PROVE  T \in G
  <2>1. CASE T = {}
    BY <2>1, SumTom
  <2>2. CASE T # {}
    <3>1. SumFunctionOnSet(f, T \ {Valgt(T)}) \in Int /\ f[Valgt(T)] \in Int
      BY <1>1, <2>2, ValgtI
    <3>2. SumFunctionOnSet(f, T) = f[Valgt(T)] + SumFunctionOnSet(f, T \ {Valgt(T)})
      BY <2>2, SumSteg, FS_Subset
    <3>. QED
      BY <3>1, <3>2
  <2>. QED
    BY <2>1, <2>2
<1>2. S \in G
  <2> HIDE DEF G
  <2>. QED
    BY <1>1, DelmengdeInduksjon
<1>. QED
  BY <1>2

\* A sum is not in any order: any element can be taken out of it.
LEMMA SumUten ==
  ASSUME NEW S, IsFiniteSet(S), NEW f, \A x \in S : f[x] \in Int, NEW e \in S
  PROVE  SumFunctionOnSet(f, S) = f[e] + SumFunctionOnSet(f, S \ {e})
<1> DEFINE G == {T \in SUBSET S :
                   \A x \in T : SumFunctionOnSet(f, T) = f[x] + SumFunctionOnSet(f, T \ {x})}
<1>1. ASSUME NEW T \in SUBSET S, \A U \in SUBSET T : U # T => U \in G
      PROVE  T \in G
  <2>1. SUFFICES ASSUME NEW x \in T, Valgt(T) # x
                 PROVE  SumFunctionOnSet(f, T) = f[x] + SumFunctionOnSet(f, T \ {x})
    BY SumSteg, FS_Subset
  <2> DEFINE y == Valgt(T)
             V == (T \ {x}) \ {y}
  <2>2. y \in T /\ y # x /\ (T \ {y}) \ {x} = V
    BY <2>1, ValgtI
  <2>3. SumFunctionOnSet(f, T) = f[y] + SumFunctionOnSet(f, T \ {y})
    BY SumSteg, FS_Subset
  <2>4. SumFunctionOnSet(f, T \ {y}) = f[x] + SumFunctionOnSet(f, V)
    BY <1>1, <2>2
  <2>5. SumFunctionOnSet(f, T \ {x}) = f[y] + SumFunctionOnSet(f, V)
    BY <1>1, <2>2
  <2>6. f[x] \in Int /\ f[y] \in Int
    BY <2>2
  <2>7. SumFunctionOnSet(f, V) \in Int
    <3>1. V \in SUBSET S /\ IsFiniteSet(V)
      BY FS_Subset
    <3>. QED
      BY <3>1, SumType
  <2> HIDE DEF y, V
  <2>. QED
    BY <2>3, <2>4, <2>5, <2>6, <2>7
<1>2. S \in G
  <2> HIDE DEF G
  <2>. QED
    BY <1>1, DelmengdeInduksjon
<1>. QED
  BY <1>2

\* Putting an element in.
LEMMA SumMed ==
  ASSUME NEW S, IsFiniteSet(S), NEW f, NEW e, e \notin S,
         \A x \in S \cup {e} : f[x] \in Int
  PROVE  SumFunctionOnSet(f, S \cup {e}) = f[e] + SumFunctionOnSet(f, S)
<1>1. IsFiniteSet(S \cup {e}) /\ (S \cup {e}) \ {e} = S
  BY FS_AddElement
<1>. QED
  BY <1>1, SumUten

\* Functions that agree on a set have the same sum over it.
LEMMA SumLik ==
  ASSUME NEW S, IsFiniteSet(S), NEW f, NEW g,
         \A x \in S : f[x] \in Int /\ g[x] = f[x]
  PROVE  SumFunctionOnSet(g, S) = SumFunctionOnSet(f, S)
<1> DEFINE G == {T \in SUBSET S : SumFunctionOnSet(g, T) = SumFunctionOnSet(f, T)}
<1>1. {} \in G
  BY SumTom
<1>2. ASSUME NEW T \in SUBSET S, NEW x \in S, T \in G, x \notin T
      PROVE  T \cup {x} \in G
  <2>1. IsFiniteSet(T)
    BY FS_Subset
  <2>2. /\ SumFunctionOnSet(f, T \cup {x}) = f[x] + SumFunctionOnSet(f, T)
        /\ SumFunctionOnSet(g, T \cup {x}) = g[x] + SumFunctionOnSet(g, T)
    BY <1>2, <2>1, SumMed
  <2>. QED
    BY <1>2, <2>2
<1>3. S \in G
  <2> HIDE DEF G
  <2>. QED
    BY <1>1, <1>2, EndeligInduksjon
<1>. QED
  BY <1>3

\* The sum over two sets that have nothing in common.
LEMMA SumUnion ==
  ASSUME NEW S, IsFiniteSet(S), NEW T, IsFiniteSet(T), S \cap T = {}, NEW f,
         \A x \in S \cup T : f[x] \in Int
  PROVE  SumFunctionOnSet(f, S \cup T)
           = SumFunctionOnSet(f, S) + SumFunctionOnSet(f, T)
<1> DEFINE G == {U \in SUBSET T : SumFunctionOnSet(f, S \cup U)
                                    = SumFunctionOnSet(f, S) + SumFunctionOnSet(f, U)}
<1>1. {} \in G
  <2>1. S \cup {} = S /\ SumFunctionOnSet(f, S) \in Int
    BY SumType
  <2>. QED
    BY <2>1, SumTom
<1>2. ASSUME NEW U \in SUBSET T, NEW x \in T, U \in G, x \notin U
      PROVE  U \cup {x} \in G
  <2>1. IsFiniteSet(U) /\ IsFiniteSet(S \cup U) /\ x \notin S \cup U
    BY <1>2, FS_Subset, FS_Union
  <2>2. SumFunctionOnSet(f, U \cup {x}) = f[x] + SumFunctionOnSet(f, U)
    BY <1>2, <2>1, SumMed
  <2>3. SumFunctionOnSet(f, (S \cup U) \cup {x}) = f[x] + SumFunctionOnSet(f, S \cup U)
    BY <2>1, SumMed
  <2>4. SumFunctionOnSet(f, S \cup (U \cup {x})) = f[x] + SumFunctionOnSet(f, S \cup U)
    <3>1. (S \cup U) \cup {x} = S \cup (U \cup {x})
      OBVIOUS
    <3>. QED
      BY <2>3, <3>1, Zenon
  <2>5. /\ SumFunctionOnSet(f, S) \in Int /\ SumFunctionOnSet(f, U) \in Int
        /\ f[x] \in Int
    BY <2>1, SumType
  <2>6. SumFunctionOnSet(f, S \cup U) = SumFunctionOnSet(f, S) + SumFunctionOnSet(f, U)
    BY <1>2
  <2>7. SumFunctionOnSet(f, S \cup (U \cup {x}))
          = SumFunctionOnSet(f, S) + SumFunctionOnSet(f, U \cup {x})
    BY <2>2, <2>4, <2>5, <2>6
  <2>. QED
    BY <1>2, <2>7
<1>3. T \in G
  <2> HIDE DEF G
  <2>. QED
    BY <1>1, <1>2, EndeligInduksjon
<1>. QED
  BY <1>3

\* What is left when a part is taken out.
LEMMA SumDifferens ==
  ASSUME NEW S, IsFiniteSet(S), NEW T \in SUBSET S, NEW f, \A x \in S : f[x] \in Int
  PROVE  /\ SumFunctionOnSet(f, S \ T) = SumFunctionOnSet(f, S) - SumFunctionOnSet(f, T)
         /\ SumFunctionOnSet(f, T) \in Int /\ SumFunctionOnSet(f, S) \in Int
<1>1. IsFiniteSet(T) /\ IsFiniteSet(S \ T) /\ (S \ T) \cup T = S /\ (S \ T) \cap T = {}
  BY FS_Subset
<1>2. SumFunctionOnSet(f, S) = SumFunctionOnSet(f, S \ T) + SumFunctionOnSet(f, T)
  BY <1>1, SumUnion
<1>3. /\ SumFunctionOnSet(f, S \ T) \in Int /\ SumFunctionOnSet(f, T) \in Int
      /\ SumFunctionOnSet(f, S) \in Int
  BY <1>1, SumType
<1>. QED
  BY <1>2, <1>3

\* Sums are added element by element.
LEMMA SumPluss ==
  ASSUME NEW S, IsFiniteSet(S), NEW f, NEW g, NEW h,
         \A x \in S : f[x] \in Int /\ g[x] \in Int /\ h[x] = f[x] + g[x]
  PROVE  SumFunctionOnSet(h, S) = SumFunctionOnSet(f, S) + SumFunctionOnSet(g, S)
<1> DEFINE G == {T \in SUBSET S : SumFunctionOnSet(h, T)
                                    = SumFunctionOnSet(f, T) + SumFunctionOnSet(g, T)}
<1>1. {} \in G
  BY SumTom
<1>2. ASSUME NEW T \in SUBSET S, NEW x \in S, T \in G, x \notin T
      PROVE  T \cup {x} \in G
  <2>1. IsFiniteSet(T)
    BY FS_Subset
  <2>2. \A y \in T \cup {x} : f[y] \in Int /\ g[y] \in Int /\ h[y] \in Int
    OBVIOUS
  <2>3. SumFunctionOnSet(f, T \cup {x}) = f[x] + SumFunctionOnSet(f, T)
    BY <1>2, <2>1, <2>2, SumMed
  <2>4. SumFunctionOnSet(g, T \cup {x}) = g[x] + SumFunctionOnSet(g, T)
    BY <1>2, <2>1, <2>2, SumMed
  <2>5. SumFunctionOnSet(h, T \cup {x}) = h[x] + SumFunctionOnSet(h, T)
    BY <1>2, <2>1, <2>2, SumMed
  <2>6. /\ SumFunctionOnSet(f, T) \in Int /\ SumFunctionOnSet(g, T) \in Int
        /\ f[x] \in Int /\ g[x] \in Int /\ h[x] = f[x] + g[x]
    BY <2>1, <2>2, SumType
  <2>7. SumFunctionOnSet(h, T) = SumFunctionOnSet(f, T) + SumFunctionOnSet(g, T)
    BY <1>2
  <2>8. SumFunctionOnSet(h, T \cup {x})
          = SumFunctionOnSet(f, T \cup {x}) + SumFunctionOnSet(g, T \cup {x})
    BY <2>3, <2>4, <2>5, <2>6, <2>7
  <2>. QED
    BY <2>8
<1>3. S \in G
  <2> HIDE DEF G
  <2>. QED
    BY <1>1, <1>2, EndeligInduksjon
<1>. QED
  BY <1>3

\* A sum of parts that are not negative is not negative.
LEMMA SumNat ==
  ASSUME NEW S, IsFiniteSet(S), NEW f, \A x \in S : f[x] \in Nat
  PROVE  SumFunctionOnSet(f, S) \in Nat
<1> DEFINE G == {T \in SUBSET S : SumFunctionOnSet(f, T) \in Nat}
<1>1. {} \in G
  BY SumTom
<1>2. ASSUME NEW T \in SUBSET S, NEW x \in S, T \in G, x \notin T
      PROVE  T \cup {x} \in G
  <2>1. IsFiniteSet(T)
    BY FS_Subset
  <2>2. \A y \in T \cup {x} : f[y] \in Int
    OBVIOUS
  <2>3. SumFunctionOnSet(f, T \cup {x}) = f[x] + SumFunctionOnSet(f, T)
    BY <1>2, <2>1, <2>2, SumMed
  <2>4. f[x] \in Nat /\ SumFunctionOnSet(f, T) \in Nat
    BY <1>2
  <2>. QED
    BY <2>3, <2>4
<1>3. S \in G
  <2> HIDE DEF G
  <2>. QED
    BY <1>1, <1>2, EndeligInduksjon
<1>. QED
  BY <1>3

\* A sum of zeros.
LEMMA SumNull ==
  ASSUME NEW S, IsFiniteSet(S), NEW f, \A x \in S : f[x] = 0
  PROVE  SumFunctionOnSet(f, S) = 0
<1> DEFINE G == {T \in SUBSET S : SumFunctionOnSet(f, T) = 0}
<1>1. {} \in G
  BY SumTom
<1>2. ASSUME NEW T \in SUBSET S, NEW x \in S, T \in G, x \notin T
      PROVE  T \cup {x} \in G
  <2>1. IsFiniteSet(T)
    BY FS_Subset
  <2>2. \A y \in T \cup {x} : f[y] \in Int
    OBVIOUS
  <2>3. SumFunctionOnSet(f, T \cup {x}) = f[x] + SumFunctionOnSet(f, T)
    BY <1>2, <2>1, <2>2, SumMed
  <2>. QED
    BY <1>2, <2>3
<1>3. S \in G
  <2> HIDE DEF G
  <2>. QED
    BY <1>1, <1>2, EndeligInduksjon
<1>. QED
  BY <1>3

\* A sum over a part is the sum over the whole with the rest put to zero.
LEMMA SumFilter ==
  ASSUME NEW S, IsFiniteSet(S), NEW T \in SUBSET S, NEW f, \A x \in T : f[x] \in Int,
         NEW g, \A x \in S : g[x] = IF x \in T THEN f[x] ELSE 0
  PROVE  SumFunctionOnSet(f, T) = SumFunctionOnSet(g, S)
<1>1. IsFiniteSet(T) /\ IsFiniteSet(S \ T)
  BY FS_Subset
<1>2. SumFunctionOnSet(g, T) = SumFunctionOnSet(f, T)
  BY <1>1, SumLik
<1>3. SumFunctionOnSet(g, S \ T) = 0
  <2>1. \A x \in S \ T : g[x] = 0
    OBVIOUS
  <2>. QED
    BY <1>1, <2>1, SumNull
<1>4. \A x \in S : g[x] \in Int
  OBVIOUS
<1>5. /\ SumFunctionOnSet(g, S \ T) = SumFunctionOnSet(g, S) - SumFunctionOnSet(g, T)
      /\ SumFunctionOnSet(g, T) \in Int /\ SumFunctionOnSet(g, S) \in Int
  BY <1>4, SumDifferens
<1>. QED
  BY <1>2, <1>3, <1>5

\* A sum with one part that is not zero.
LEMMA SumEnkelt ==
  ASSUME NEW S, IsFiniteSet(S), NEW e \in S, NEW f, f[e] \in Int,
         \A x \in S \ {e} : f[x] = 0
  PROVE  SumFunctionOnSet(f, S) = f[e]
<1>1. \A x \in S : f[x] \in Int
  OBVIOUS
<1>2. SumFunctionOnSet(f, S) = f[e] + SumFunctionOnSet(f, S \ {e})
  BY <1>1, SumUten
<1>3. SumFunctionOnSet(f, S \ {e}) = 0
  <2>1. IsFiniteSet(S \ {e})
    BY FS_Subset
  <2>. QED
    BY <2>1, SumNull
<1>. QED
  BY <1>2, <1>3

\* A sum can be taken group by group.
LEMMA SumGruppert ==
  ASSUME NEW S, IsFiniteSet(S), NEW M, IsFiniteSet(M),
         NEW k, \A x \in S : k[x] \in M,
         NEW f, \A x \in S : f[x] \in Int
  PROVE  SumFunctionOnSet([m \in M |-> SumFunctionOnSet(f, {x \in S : k[x] = m})], M)
           = SumFunctionOnSet(f, S)
<1> DEFINE gr == [m \in M |-> SumFunctionOnSet(f, {x \in S : k[x] = m})]
           I(N) == {x \in S : k[x] \in N}
           G == {N \in SUBSET M : SumFunctionOnSet(gr, N) = SumFunctionOnSet(f, I(N))}
<1>0. \A m \in M : gr[m] \in Int
  <2> SUFFICES ASSUME NEW m \in M PROVE gr[m] \in Int
    OBVIOUS
  <2>1. IsFiniteSet({x \in S : k[x] = m})
    BY FS_Subset
  <2>. QED
    BY <2>1, SumType
<1>1. {} \in G
  <2>1. I({}) = {}
    OBVIOUS
  <2>2. SumFunctionOnSet(gr, {}) = 0 /\ SumFunctionOnSet(f, {}) = 0
    BY SumTom
  <2>. QED
    BY <2>1, <2>2
<1>2. ASSUME NEW N \in SUBSET M, NEW m \in M, N \in G, m \notin N
      PROVE  N \cup {m} \in G
  <2> DEFINE J == {x \in S : k[x] = m}
  <2>1. IsFiniteSet(N) /\ IsFiniteSet(I(N)) /\ IsFiniteSet(J)
    BY FS_Subset
  <2>2. I(N) \cap J = {} /\ I(N) \cup J = I(N \cup {m})
    BY <1>2
  <2>3. SumFunctionOnSet(f, I(N \cup {m})) = SumFunctionOnSet(f, I(N)) + SumFunctionOnSet(f, J)
    <3>1. \A x \in I(N) \cup J : f[x] \in Int
      OBVIOUS
    <3> HIDE DEF J, I
    <3>2. SumFunctionOnSet(f, I(N) \cup J) = SumFunctionOnSet(f, I(N)) + SumFunctionOnSet(f, J)
      BY <2>1, <2>2, <3>1, SumUnion
    <3>. QED
      BY <2>2, <3>2, Zenon
  <2>4. SumFunctionOnSet(gr, N \cup {m}) = gr[m] + SumFunctionOnSet(gr, N)
    <3>1. \A x \in N \cup {m} : gr[x] \in Int
      BY <1>0
    <3> HIDE DEF gr
    <3>. QED
      BY <1>2, <2>1, <3>1, SumMed
  <2>5. gr[m] = SumFunctionOnSet(f, J)
    OBVIOUS
  <2>6. SumFunctionOnSet(f, I(N)) \in Int /\ SumFunctionOnSet(f, J) \in Int
    BY <2>1, SumType
  <2>7. SumFunctionOnSet(gr, N) = SumFunctionOnSet(f, I(N))
    BY <1>2
  <2>8. SumFunctionOnSet(gr, N \cup {m}) = SumFunctionOnSet(f, I(N \cup {m}))
    <3> HIDE DEF gr, I, J
    <3>. QED
      BY <2>3, <2>4, <2>5, <2>6, <2>7
  <2>. QED
    BY <2>8
<1>3. M \in G
  <2> HIDE DEF G
  <2>. QED
    BY <1>1, <1>2, EndeligInduksjon
<1>4. I(M) = S
  OBVIOUS
<1>. QED
  BY <1>3, <1>4

\* The forms in which the modules write their sums.
LEMMA MapTilSum ==
  ASSUME NEW f, NEW S
  PROVE  MapThenSumSet(LAMBDA x : f[x], S) = SumFunctionOnSet(f, S)
BY DEF MapThenSumSet, SumFunctionOnSet, FoldFunctionOnSet, MapThenFoldSet

LEMMA KwhTilSum ==
  ASSUME NEW f, NEW S, IsFiniteSet(S)
  PROVE  MapThenSumSet(LAMBDA x : f[x].kwh, S) = SumFunctionOnSet([x \in S |-> f[x].kwh], S)
<1> DEFINE v == [x \in S |-> f[x].kwh]
           P(k) == k = [s \in SUBSET S |-> IF s = {} THEN 0
                          ELSE f[CHOOSE x \in s : TRUE].kwh + k[s \ {CHOOSE x \in s : TRUE}]]
<1>1. PICK g : ErSum(g, v, S)
  BY SumFinnes
<1>2. \A s \in SUBSET S : s # {} => (CHOOSE x \in s : TRUE) \in S
  OBVIOUS
<1>3. \A k : P(k) <=> ErSum(k, v, S)
  BY <1>2 DEF ErSum, Valgt
<1>4. MapThenSumSet(LAMBDA x : f[x].kwh, S) = (CHOOSE k : P(k))[S]
  BY DEF MapThenSumSet, MapThenFoldSet
<1> HIDE DEF P, v
<1>5. ErSum(CHOOSE k : P(k), v, S)
  BY <1>1, <1>3
<1>. QED
  BY <1>4, <1>5, SumVerdi DEF v

-----------------------------------------------------------------------------
(***************************************************************************)
(* Reading the sums and registering a price sample.                        *)
(***************************************************************************)

\* An interval is built from the post, the routes and the flag alone.
LEMMA IntervallAvhengerAv ==
  ASSUME NEW b, NEW c, NEW h,
         c.poster[h] = b.poster[h], c.ufullstendig = b.ufullstendig,
         Prisintervall(c.ruter, h) = Prisintervall(b.ruter, h)
  PROVE  NyttIntervall(c, h) = NyttIntervall(b, h)
BY DEF NyttIntervall

LEMMA OppdaterFelt ==
  ASSUME NEW b, StrukturOK(b)
  PROVE  LET o == Oppdater(b)
         IN  /\ StrukturOK(o)
             /\ o.poster = b.poster /\ o.ruter = b.ruter /\ o.sist = b.sist
             /\ o.aktiv = b.aktiv /\ o.arkiv = b.arkiv /\ o.avvist = b.avvist
             /\ o.ufullstendig = b.ufullstendig /\ o.skitne = {}
BY DEF Oppdater, StrukturOK, TomBok

\* maanedssum leaves nothing dirty and nothing stale.
LEMMA OppdaterInv ==
  ASSUME NEW b, BokInv(b)
  PROVE  BokInv(Oppdater(b))
<1> DEFINE o == Oppdater(b)
           gamle == b.skitne \cap DOMAIN b.bidrag
           nye == b.skitne \cap DOMAIN b.poster
<1>1. /\ StrukturOK(o) /\ o.poster = b.poster /\ o.ruter = b.ruter
      /\ o.ufullstendig = b.ufullstendig /\ o.skitne = {}
  BY OppdaterFelt DEF BokInv
<1>2. \A h : NyttIntervall(o, h) = NyttIntervall(b, h)
  BY <1>1 DEF NyttIntervall
<1>3. /\ o.bygget = [h \in DOMAIN b.bygget \cup nye |-> Bygg(b, h)]
      /\ o.bidrag = [h \in (DOMAIN b.bidrag \ gamle) \cup nye |->
                       IF h \in nye THEN [x \in nye |-> BidragAv(Bygg(b, x))][h]
                                    ELSE b.bidrag[h]]
  BY DEF Oppdater, BokInv, StrukturOK, TomBok
<1>4. \A h \in DOMAIN b.bygget \cup nye : Bygg(b, h) = NyttIntervall(b, h)
  BY DEF BokInv, CacheFersk, Bygg
<1>5. CacheFersk(o)
  BY <1>1, <1>2, <1>3, <1>4 DEF CacheFersk, BokInv
<1>6. BidragFersk(o)
  <2>1. DOMAIN o.bidrag \subseteq DOMAIN o.poster
    BY <1>1, <1>3 DEF BokInv, BidragFersk
  <2>2. ASSUME NEW h \in DOMAIN b.poster
        PROVE  h \in DOMAIN o.bidrag /\ o.bidrag[h] = BidragAv(NyttIntervall(b, h))
    <3>1. CASE h \in b.skitne
      BY <1>3, <1>4, <3>1
    <3>2. CASE h \notin b.skitne
      BY <1>3, <3>2 DEF BokInv, BidragFersk
    <3>. QED
      BY <3>1, <3>2
  <2>. QED
    BY <1>1, <1>2, <2>1, <2>2 DEF BidragFersk
<1>. QED
  BY <1>1, <1>5, <1>6 DEF BokInv

\* A sample changes the price of its own hour and of no other.
LEMMA RegistrerAndreTimer ==
  ASSUME NEW ruter, NEW p, NEW h, h # TimeForRute(Rute(p.polltid))
  PROVE  Prisintervall(Registrer(ruter, p), h) = Prisintervall(ruter, h)
BY DEF Registrer, Prisintervall

LEMMA RegistrerPrisproveInv ==
  ASSUME NEW b, BokInv(b), NEW p, p.polltid \in Tikk
  PROVE  LET c == RegistrerPrisprove(b, p)
         IN  /\ BokInv(c)
             /\ c.arkiv = b.arkiv /\ c.aktiv = b.aktiv /\ c.sist = b.sist
             /\ c.poster = b.poster
<1> DEFINE c == RegistrerPrisprove(b, p)
           t == TimeForRute(Rute(p.polltid))
<1>1. CASE ~ Godtas(p.polltid)
  BY <1>1 DEF RegistrerPrisprove
<1>2. CASE Godtas(p.polltid)
  <2>1. /\ c.poster = b.poster /\ c.ufullstendig = b.ufullstendig
        /\ c.bidrag = b.bidrag /\ c.arkiv = b.arkiv /\ c.aktiv = b.aktiv
        /\ c.sist = b.sist /\ c.ruter = Registrer(b.ruter, p)
        /\ c.bygget = Restrict(b.bygget, DOMAIN b.bygget \ {t})
        /\ c.skitne = b.skitne \cup ({t} \cap DOMAIN b.poster)
        /\ DOMAIN c = DOMAIN b
    BY <1>2 DEF RegistrerPrisprove, BokInv, StrukturOK, TomBok
  <2>2. DOMAIN c.ruter \subseteq Ruter
    BY <2>1, RuteType DEF Registrer, BokInv, StrukturOK
  <2>3. StrukturOK(c)
    BY <2>1, <2>2 DEF BokInv, StrukturOK
  <2>4. \A h : h # t => NyttIntervall(c, h) = NyttIntervall(b, h)
    BY <2>1, RegistrerAndreTimer DEF NyttIntervall
  <2>5. CacheFersk(c)
    BY <2>1, <2>4 DEF BokInv, CacheFersk, Restrict
  <2>6. BidragFersk(c)
    BY <2>1, <2>4 DEF BokInv, BidragFersk
  <2>. QED
    BY <2>1, <2>3, <2>5, <2>6 DEF BokInv
<1>. QED
  BY <1>1, <1>2

-----------------------------------------------------------------------------
(***************************************************************************)
(* Booking a reading.                                                      *)
(***************************************************************************)

\* Two books that agree on what they hold agree on being fresh.
LEMMA SammeInnhold ==
  ASSUME NEW b, NEW c,
         c.poster = b.poster, c.ruter = b.ruter, c.bygget = b.bygget,
         c.bidrag = b.bidrag, c.skitne = b.skitne,
         c.ufullstendig = b.ufullstendig, CacheFersk(b), BidragFersk(b)
  PROVE  CacheFersk(c) /\ BidragFersk(c)
BY DEF CacheFersk, BidragFersk, NyttIntervall

\* Energy put in hours of the active month: the cached intervals of those
\* hours go and their contributions become dirty.
LEMMA LeggInv ==
  ASSUME NEW b, BokInv(b), NEW del, NEW estimert,
         DOMAIN del \subseteq Timer,
         \A h \in DOMAIN del : ManedAv[h] = b.aktiv
  PROVE  LET c == Legg(b, del, estimert)
         IN  /\ BokInv(c)
             /\ c.arkiv = b.arkiv /\ c.aktiv = b.aktiv /\ c.ruter = b.ruter
<1> DEFINE c == Legg(b, del, estimert)
<1>1. /\ c.ufullstendig = b.ufullstendig /\ c.bidrag = b.bidrag
      /\ c.arkiv = b.arkiv /\ c.aktiv = b.aktiv /\ c.sist = b.sist
      /\ c.ruter = b.ruter /\ c.skitne = b.skitne \cup DOMAIN del
      /\ c.bygget = Restrict(b.bygget, DOMAIN b.bygget \ DOMAIN del)
      /\ DOMAIN c = DOMAIN b
  BY DEF Legg, BokInv, StrukturOK, TomBok
<1>2. /\ DOMAIN c.poster = DOMAIN b.poster \cup DOMAIN del
      /\ \A h \in DOMAIN b.poster \ DOMAIN del : c.poster[h] = b.poster[h]
  BY DEF Legg, BokInv, StrukturOK, TomBok
<1>3. StrukturOK(c)
  BY <1>1, <1>2 DEF BokInv, StrukturOK
<1>4. \A h \in DOMAIN b.poster \ DOMAIN del : NyttIntervall(c, h) = NyttIntervall(b, h)
  BY <1>1, <1>2 DEF NyttIntervall
<1>5. CacheFersk(c)
  BY <1>1, <1>2, <1>4 DEF BokInv, CacheFersk, Restrict
<1>6. BidragFersk(c)
  BY <1>1, <1>2, <1>4 DEF BokInv, BidragFersk
<1>. QED
  BY <1>1, <1>3, <1>5, <1>6 DEF BokInv

\* The month turned over in the book: nothing is left of the old one but its
\* entry in the archive, which the caller writes.
LEMMA NyManedInv ==
  ASSUME NEW b, BokInv(b), NEW m \in Maneder,
         b.aktiv # Ingen => b.aktiv <= m
  PROVE  LET c == NyManed(b, m)
         IN  BokInv(c) /\ c.arkiv = b.arkiv /\ c.aktiv = m
<1> DEFINE c == NyManed(b, m)
<1>1. /\ c.poster = <<>> /\ c.bygget = <<>> /\ c.bidrag = <<>>
      /\ c.arkiv = b.arkiv /\ c.aktiv = m /\ c.sist = b.sist
      /\ c.ruter = GlemFor(b.ruter, m) /\ DOMAIN c = DOMAIN b
  BY DEF NyManed, BokInv, StrukturOK, TomBok
<1>2. DOMAIN c.ruter \subseteq Ruter
  BY <1>1 DEF GlemFor, Restrict, BokInv, StrukturOK
<1>3. ASSUME NEW k \in DOMAIN b.arkiv
      PROVE  k \in Maneder /\ k < m
  <2>1. k \in Maneder /\ b.aktiv \in Maneder /\ k < b.aktiv /\ b.aktiv <= m
    BY DEF BokInv, StrukturOK
  <2>2. k \in Nat /\ b.aktiv \in Nat /\ m \in Nat
    BY <2>1, ManederNat
  <2>. QED
    BY <2>1, <2>2
<1>4. StrukturOK(c)
  <2>1. DOMAIN c.poster = {}
    BY <1>1
  <2>2. c.sist # Ingen => c.sist.tid \in Tikk
    BY <1>1 DEF BokInv, StrukturOK
  <2>3. DOMAIN c = DOMAIN TomBok(FALSE)
    BY <1>1 DEF BokInv, StrukturOK
  <2>4. c.aktiv \in Maneder /\ c.aktiv # Ingen
    BY <1>1, ManederNat
  <2>5. \A k \in DOMAIN c.arkiv : k \in Maneder /\ k < c.aktiv
    BY <1>1, <1>3
  <2>. HIDE DEF c
  <2>. QED
    BY <1>2, <2>1, <2>2, <2>3, <2>4, <2>5 DEF StrukturOK
<1>5. CacheFersk(c) /\ BidragFersk(c)
  BY <1>1 DEF CacheFersk, BidragFersk
<1>. QED
  BY <1>1, <1>4, <1>5 DEF BokInv

LEMMA ForManedInv ==
  ASSUME NEW b, BokInv(b), NEW m \in Maneder, b.aktiv \in Maneder, b.aktiv <= m,
         NEW fordeling, DOMAIN fordeling \subseteq Timer, NEW estimert
  PROVE  LET c == ForManed(b, m, fordeling, estimert)
         IN  /\ BokInv(c)
             /\ c.arkiv = b.arkiv /\ c.aktiv = m
             /\ m = b.aktiv => c.ruter = b.ruter
             /\ m # b.aktiv => c.ruter = GlemFor(b.ruter, m)
<1> DEFINE apen == IF m = b.aktiv THEN b ELSE NyManed(b, m)
           del == Restrict(fordeling, {h \in DOMAIN fordeling : ManedAv[h] = m})
<1>1. BokInv(apen) /\ apen.arkiv = b.arkiv /\ apen.aktiv = m
  BY NyManedInv
<1>2. /\ m = b.aktiv => apen.ruter = b.ruter
      /\ m # b.aktiv => apen.ruter = GlemFor(b.ruter, m)
  BY DEF NyManed, BokInv, StrukturOK, TomBok
<1>3. DOMAIN del \subseteq Timer /\ \A h \in DOMAIN del : ManedAv[h] = apen.aktiv
  BY <1>1 DEF Restrict
<1>4. /\ BokInv(Legg(apen, del, estimert))
      /\ Legg(apen, del, estimert).arkiv = apen.arkiv
      /\ Legg(apen, del, estimert).aktiv = apen.aktiv
      /\ Legg(apen, del, estimert).ruter = apen.ruter
  BY <1>1, <1>3, LeggInv
<1>. QED
  BY <1>1, <1>2, <1>4 DEF ForManed

\* What a call on the book may do to its past: the month never goes back, an
\* archived month keeps its sums, and a price route is dropped only when a
\* later month is opened, with every route before that month.
Fremover(b, c) ==
  /\ b.aktiv # Ingen => c.aktiv # Ingen /\ b.aktiv <= c.aktiv
  /\ \A m \in DOMAIN b.arkiv : m \in DOMAIN c.arkiv /\ c.arkiv[m] = b.arkiv[m]
  /\ \A h \in DOMAIN b.poster \cap DOMAIN c.poster :
       Prisintervall(c.ruter, h) = Prisintervall(b.ruter, h)

\* Dropping the routes before a month leaves the prices of the month alone.
LEMMA GlemForPris ==
  ASSUME NEW ruter, DOMAIN ruter \subseteq Ruter,
         NEW h \in Timer, NEW m \in Maneder, ManedAv[h] = m
  PROVE  Prisintervall(GlemFor(ruter, m), h) = Prisintervall(ruter, h)
<1> DEFINE g == GlemFor(ruter, m)
<1>1. \A r \in DOMAIN ruter : TimeForRute(r) = h => ManedAv[TimeForRute(r)] >= m
  BY ManederNat
<1>2. {x \in DOMAIN g : TimeForRute(x) = h} = {x \in DOMAIN ruter : TimeForRute(x) = h}
  BY <1>1 DEF GlemFor, Restrict
<1>3. \A r \in DOMAIN g : g[r] = ruter[r]
  BY DEF GlemFor, Restrict
<1>. QED
  BY <1>2, <1>3 DEF Prisintervall

\* _fordel: the book stays well formed and fresh, and its past stands.
LEMMA FordelInv ==
  ASSUME NEW b, BokInv(b), b.sist # Ingen,
         NEW a, a.tid \in Tikk, b.sist.tid < a.tid, NEW delta
  PROVE  LET c == Fordel(b, a, delta).bok
         IN  BokInv(c) /\ Fremover(b, c) /\ c.sist = a
<1> DEFINE f == FordelDelta(b.sist.tid, a.tid, delta)
           est == a.kilde \in Estimerte
           b0 == IF b.aktiv = Ingen
                 THEN [b EXCEPT !.aktiv = ManedAv[Time(b.sist.tid)]] ELSE b
           ny == ManedAv[Time(a.tid - 1)]
           bak == {h \in DOMAIN f : ManedAv[h] < b0.aktiv}
           landet == Restrict(f, DOMAIN f \ bak)
           avvist == MapThenSumSet(LAMBDA h : f[h], bak)
           lukkes == LukkesVed(b0.aktiv, {ManedAv[h] : h \in DOMAIN landet}, ny)
           siste == IF ny < b0.aktiv THEN b0 ELSE ForManed(b0, ny, f, est)
           arkiv == [m \in DOMAIN b.arkiv \cup lukkes |->
                       IF m \in lukkes THEN Maanedssum(ForManed(b0, m, f, est))
                       ELSE b.arkiv[m]]
           c == [siste EXCEPT !.arkiv = arkiv, !.sist = a, !.avvist = @ + avvist]
<1>1. Fordel(b, a, delta).bok = c
  BY DEF Fordel, Svar
<1>2. /\ DOMAIN f \subseteq Timer /\ Time(b.sist.tid) \in Timer
      /\ ny \in Maneder /\ ny \in Nat /\ ny # Ingen
  <2>1. b.sist.tid \in Tikk
    BY DEF BokInv, StrukturOK
  <2>2. /\ DOMAIN f \subseteq Timer /\ Time(b.sist.tid) \in Timer
        /\ Time(a.tid - 1) \in Timer
    BY <2>1, VinduType
  <2>. QED
    BY <2>2, ManedType
<1>3. /\ BokInv(b0) /\ b0.aktiv \in Maneder
      /\ b0.arkiv = b.arkiv /\ b0.ruter = b.ruter /\ b0.poster = b.poster
      /\ b.aktiv # Ingen => b0 = b
      /\ b.aktiv = Ingen => DOMAIN b.poster = {} /\ DOMAIN b.arkiv = {}
  <2>1. CASE b.aktiv # Ingen
    BY <2>1 DEF BokInv, StrukturOK
  <2>2. CASE b.aktiv = Ingen
    <3>1. DOMAIN b.poster = {} /\ DOMAIN b.arkiv = {}
      BY <2>2, ManedType DEF BokInv, StrukturOK
    <3>2. /\ b0.poster = b.poster /\ b0.ruter = b.ruter /\ b0.bygget = b.bygget
          /\ b0.bidrag = b.bidrag /\ b0.skitne = b.skitne /\ b0.arkiv = b.arkiv
          /\ b0.ufullstendig = b.ufullstendig /\ b0.sist = b.sist
          /\ b0.aktiv = ManedAv[Time(b.sist.tid)] /\ DOMAIN b0 = DOMAIN b
      BY <2>2 DEF BokInv, StrukturOK, TomBok
    <3>3. CacheFersk(b0) /\ BidragFersk(b0)
      BY <3>2, SammeInnhold DEF BokInv
    <3>4. b0.aktiv \in Maneder
      BY <3>2, <1>2, ManedType
    <3>5. StrukturOK(b0)
      BY <3>1, <3>2, <3>4 DEF BokInv, StrukturOK
    <3>. QED
      BY <2>2, <3>1, <3>2, <3>3, <3>4, <3>5 DEF BokInv
  <2>. QED
    BY <2>1, <2>2
<1>4. b0.aktiv \in Nat /\ b0.aktiv # Ingen
  BY <1>3, ManederNat
<1>5. \A m \in lukkes : m \in Maneder /\ m \in Nat /\ b0.aktiv <= m /\ m < ny
  <2>1. \A h \in DOMAIN landet : /\ ManedAv[h] \in Maneder /\ ManedAv[h] \in Nat
                                 /\ ~ (ManedAv[h] < b0.aktiv)
    BY <1>2, ManedType DEF Restrict
  <2> HIDE DEF landet, b0, ny
  <2>. QED
    BY <1>2, <1>3, <1>4, <2>1 DEF LukkesVed
<1>6. \A m \in DOMAIN b.arkiv : m \in Maneder /\ m \in Nat /\ m < b0.aktiv
  BY <1>3, ManederNat DEF BokInv, StrukturOK
<1>7. /\ BokInv(siste) /\ siste.aktiv \in Maneder
      /\ b0.aktiv <= siste.aktiv /\ ny <= siste.aktiv
      /\ siste.ruter = b.ruter \/ siste.ruter = GlemFor(b.ruter, siste.aktiv)
  <2>1. CASE ny < b0.aktiv
    BY <2>1, <1>2, <1>3, <1>4
  <2>2. CASE ~ (ny < b0.aktiv)
    <3>1. b0.aktiv <= ny
      BY <2>2, <1>2, <1>4
    <3> HIDE DEF b0, ny, f, est
    <3>2. LET d == ForManed(b0, ny, f, est)
          IN  /\ BokInv(d) /\ d.aktiv = ny
              /\ ny = b0.aktiv => d.ruter = b0.ruter
              /\ ny # b0.aktiv => d.ruter = GlemFor(b0.ruter, ny)
      BY <3>1, <1>2, <1>3, ForManedInv
    <3>. QED
      BY <2>2, <3>1, <3>2, <1>2, <1>3
  <2>. QED
    BY <2>1, <2>2
<1> HIDE DEF f, siste, lukkes, avvist, b0, ny
<1>8. /\ c.poster = siste.poster /\ c.ruter = siste.ruter
      /\ c.bygget = siste.bygget /\ c.bidrag = siste.bidrag
      /\ c.skitne = siste.skitne /\ c.ufullstendig = siste.ufullstendig
      /\ c.aktiv = siste.aktiv /\ c.arkiv = arkiv /\ c.sist = a
      /\ DOMAIN c = DOMAIN siste
  BY <1>7 DEF BokInv, StrukturOK, TomBok
<1>9. /\ DOMAIN arkiv = DOMAIN b.arkiv \cup lukkes
      /\ \A m \in DOMAIN b.arkiv : arkiv[m] = b.arkiv[m]
  BY <1>4, <1>5, <1>6
<1>10. \A m \in DOMAIN arkiv : m \in Maneder /\ m < siste.aktiv
  <2>1. siste.aktiv \in Nat
    BY <1>7, ManederNat
  <2> HIDE DEF arkiv
  <2>. QED
    BY <2>1, <1>2, <1>4, <1>5, <1>6, <1>7, <1>9
<1> HIDE DEF c, arkiv
<1>11. StrukturOK(c)
  BY <1>7, <1>8, <1>10, ManederNat DEF BokInv, StrukturOK
<1>12. CacheFersk(c) /\ BidragFersk(c)
  BY <1>7, <1>8, SammeInnhold DEF BokInv
<1>13. Fremover(b, c)
  <2>1. b.aktiv # Ingen => c.aktiv # Ingen /\ b.aktiv <= c.aktiv
    BY <1>3, <1>7, <1>8, ManederNat
  <2>2. ASSUME NEW h \in DOMAIN b.poster \cap DOMAIN c.poster
        PROVE  Prisintervall(c.ruter, h) = Prisintervall(b.ruter, h)
    <3>1. h \in Timer /\ ManedAv[h] = c.aktiv /\ c.aktiv \in Maneder
      BY <1>7, <1>8, <1>11 DEF StrukturOK
    <3>2. DOMAIN b.ruter \subseteq Ruter
      BY DEF BokInv, StrukturOK
    <3>. QED
      BY <3>1, <3>2, <1>7, <1>8, GlemForPris
  <2>. QED
    BY <2>1, <2>2, <1>8, <1>9 DEF Fremover
<1>. QED
  BY <1>1, <1>8, <1>11, <1>12, <1>13 DEF BokInv

LEMMA FremoverSelv ==
  ASSUME NEW b, BokInv(b), NEW c, c.aktiv = b.aktiv, c.arkiv = b.arkiv,
         \A h \in DOMAIN b.poster : Prisintervall(c.ruter, h) = Prisintervall(b.ruter, h)
  PROVE  Fremover(b, c)
<1>1. b.aktiv # Ingen => b.aktiv \in Nat
  BY ManederNat DEF BokInv, StrukturOK
<1>2. b.aktiv # Ingen => b.aktiv <= b.aktiv
  BY <1>1
<1>. QED
  BY <1>2 DEF Fremover

\* A step that only moves the baseline and counts rejected energy.
BareFlyttet(b, c, a) ==
  /\ c.poster = b.poster /\ c.ruter = b.ruter /\ c.bygget = b.bygget
  /\ c.bidrag = b.bidrag /\ c.skitne = b.skitne /\ c.arkiv = b.arkiv
  /\ c.ufullstendig = b.ufullstendig /\ c.sist = a /\ c.aktiv = b.aktiv
  /\ DOMAIN c = DOMAIN b

LEMMA FlyttInv ==
  ASSUME NEW b, BokInv(b), NEW a, a.tid \in Tikk, NEW c, BareFlyttet(b, c, a)
  PROVE  BokInv(c) /\ Fremover(b, c) /\ c.sist = a
<1>1. StrukturOK(c)
  BY DEF BareFlyttet, BokInv, StrukturOK
<1>2. CacheFersk(c) /\ BidragFersk(c)
  BY SammeInnhold DEF BokInv, BareFlyttet
<1>. QED
  BY <1>1, <1>2, FremoverSelv DEF BokInv, BareFlyttet

LEMMA BokforDeltaInv ==
  ASSUME NEW b, BokInv(b), b.sist # Ingen,
         NEW a, a.tid \in Tikk, b.sist.tid < a.tid, NEW delta
  PROVE  LET c == BokforDelta(b, a, delta).bok
         IN  BokInv(c) /\ Fremover(b, c) /\ c.sist = a
<1> DEFINE flyttet == [b EXCEPT !.sist = a]
           sprang == [flyttet EXCEPT !.avvist = @ + delta]
           c == BokforDelta(b, a, delta).bok
<1>1. c = flyttet \/ c = sprang \/ c = Fordel(b, a, delta).bok
  BY DEF BokforDelta, UtenEnergi, Svar
<1>2. BareFlyttet(b, flyttet, a) /\ BareFlyttet(b, sprang, a)
  BY DEF BareFlyttet, BokInv, StrukturOK, TomBok
<1>3. BokInv(flyttet) /\ Fremover(b, flyttet) /\ flyttet.sist = a
  BY <1>2, FlyttInv
<1>4. BokInv(sprang) /\ Fremover(b, sprang) /\ sprang.sist = a
  <2> HIDE DEF sprang
  <2>. QED
    BY <1>2, FlyttInv
<1>5. LET d == Fordel(b, a, delta).bok
      IN  BokInv(d) /\ Fremover(b, d) /\ d.sist = a
  BY FordelInv
<1> HIDE DEF c, sprang, flyttet
<1>6. BokInv(c) /\ Fremover(b, c) /\ c.sist = a
  BY <1>1, <1>3, <1>4, <1>5
<1>. QED
  BY <1>6 DEF c

\* bokfor: whatever the reading, the book stays well formed and fresh, its
\* past stands, and its baseline is the reading or what it was.
LEMMA BokforInv ==
  ASSUME NEW b, BokInv(b), NEW a, a.tid \in Tikk
  PROVE  LET c == Bokfor(b, a).bok
         IN  BokInv(c) /\ Fremover(b, c) /\ c.sist \in {a, b.sist}
<1> DEFINE c == Bokfor(b, a).bok
           flyttet == [b EXCEPT !.sist = a]
<1>1. BokInv(flyttet) /\ Fremover(b, flyttet) /\ flyttet.sist = a
  <2>1. BareFlyttet(b, flyttet, a)
    BY DEF BareFlyttet, BokInv, StrukturOK, TomBok
  <2>. QED
    BY <2>1, FlyttInv
<1>2. Fremover(b, b)
  BY FremoverSelv
<1>3. CASE c = b \/ c = flyttet
  BY <1>1, <1>2, <1>3
<1>4. CASE ~ (c = b \/ c = flyttet)
  <2>1. /\ b.sist # Ingen /\ ~ (a.tid < b.sist.tid) /\ a.tid # b.sist.tid
        /\ c \in {BokforEstimert(b, a).bok, BokforTeller(b, a).bok}
    BY <1>4 DEF Bokfor, UtenEnergi, Svar
  <2>2. b.sist.tid < a.tid
    <3>1. b.sist.tid \in Tikk
      BY <2>1 DEF BokInv, StrukturOK
    <3>2. a.tid \in Nat /\ b.sist.tid \in Nat
      BY <3>1, TikkHel
    <3>. QED
      BY <2>1, <3>2
  <2>3. \E delta : c = BokforDelta(b, a, delta).bok
    BY <1>4, <2>1 DEF BokforEstimert, BokforTeller, UtenEnergi, Svar
  <2>. QED
    BY <2>1, <2>2, <2>3, BokforDeltaInv
<1>. QED
  BY <1>3, <1>4

-----------------------------------------------------------------------------
(***************************************************************************)
(* Saving and loading.                                                     *)
(***************************************************************************)

\* What a Store of the current schema says of the months.
LagerOK(l) ==
  /\ DOMAIN l.poster \subseteq Timer
  /\ DOMAIN l.ruter \subseteq Ruter
  /\ l.sist # Ingen => l.sist.tid \in Tikk
  /\ l.aktiv \in Maneder \cup {Ingen}
  /\ \A h \in DOMAIN l.poster : ManedAv[h] = l.aktiv
  /\ \A m \in DOMAIN l.arkiv : m \in Maneder /\ l.aktiv # Ingen /\ m < l.aktiv

LEMMA TilLagringInv ==
  ASSUME NEW b, BokInv(b), NEW naa
  PROVE  LET l == TilLagring(b, naa)
         IN  /\ LagerOK(l) /\ l.skjema = 3
             /\ l.sist = b.sist /\ l.arkiv = b.arkiv /\ l.aktiv = b.aktiv
BY DEF TilLagring, RuterFra, Restrict, LagerOK, BokInv, StrukturOK

LEMMA TomBokInv ==
  ASSUME NEW u
  PROVE  BokInv(TomBok(u)) /\ TomBok(u).sist = Ingen /\ DOMAIN TomBok(u).arkiv = {}
BY DEF TomBok, BokInv, StrukturOK, CacheFersk, BidragFersk

\* A book read from a Store of the current schema has every post dirty and
\* nothing in the caches.
LEMMA FraLagringInv ==
  ASSUME NEW l, LagerOK(l), l.skjema = 3
  PROVE  LET b == FraLagring(l)
         IN  /\ BokInv(b)
             /\ b.sist = l.sist /\ b.arkiv = l.arkiv /\ b.aktiv = l.aktiv
<1> DEFINE b == FraLagring(l)
<1>1. l # TomtLager /\ l # GammeltLager
  BY DEF TomtLager, GammeltLager
<1>2. /\ b.poster = l.poster /\ b.ruter = l.ruter /\ b.skitne = DOMAIN l.poster
      /\ b.sist = l.sist /\ b.arkiv = l.arkiv /\ b.aktiv = l.aktiv
      /\ b.bygget = <<>> /\ b.bidrag = <<>> /\ DOMAIN b = DOMAIN TomBok(FALSE)
  BY <1>1 DEF FraLagring, TomBok
<1> HIDE DEF b
<1>3. StrukturOK(b)
  BY <1>2 DEF StrukturOK, LagerOK
<1>4. CacheFersk(b) /\ BidragFersk(b)
  BY <1>2 DEF CacheFersk, BidragFersk
<1>. QED
  BY <1>2, <1>3, <1>4 DEF BokInv, b

-----------------------------------------------------------------------------
(***************************************************************************)
(* The energy of a book, field by field of its sums.                       *)
(***************************************************************************)
Felt == {"total", "dag", "natt", "uten", "delvis"}

\* The fields an hour's energy is counted in whatever its price.
Energifelt == {"total", "dag", "natt"}

TellesI(x, h) ==
  x = "total" \/ (x = "dag" /\ h \in Dagtimer) \/ (x = "natt" /\ h \notin Dagtimer)

\* What the contribution c of hour h adds to field x.
Vekt(x, h, c) ==
  IF \/ TellesI(x, h)
     \/ x = "uten" /\ c.kvalitet = "uten_pris"
     \/ x = "delvis" /\ c.kvalitet = "delvis_pris"
  THEN c.kwh ELSE 0

\* What a function from hours to contributions adds to field x.
SumI(x, bidrag) ==
  SumFunctionOnSet([h \in DOMAIN bidrag |-> Vekt(x, h, bidrag[h])], DOMAIN bidrag)

\* Contributions that can be added up.
Tellbar(bidrag) ==
  IsFiniteSet(DOMAIN bidrag) /\ \A h \in DOMAIN bidrag : bidrag[h].kwh \in Nat

\* An hour adds a whole number of units, its energy or nothing, to each field.
LEMMA VektType ==
  ASSUME NEW x, NEW h, NEW c, c.kwh \in Nat
  PROVE  Vekt(x, h, c) \in Nat
BY DEF Vekt

\* The hours of a book add up to a number, a natural one when every post is.
LEMMA SumIType ==
  ASSUME NEW x, NEW bidrag, Tellbar(bidrag)
  PROVE  SumI(x, bidrag) \in Nat
BY VektType, SumNat DEF Tellbar, SumI

\* The contributions field x counts, added up over the hours T it counts.
LEMMA KwhFelt ==
  ASSUME NEW bidrag, Tellbar(bidrag), NEW x, NEW T \in SUBSET DOMAIN bidrag,
         \A h \in DOMAIN bidrag : Vekt(x, h, bidrag[h]) = IF h \in T THEN bidrag[h].kwh ELSE 0
  PROVE  MapThenSumSet(LAMBDA h : bidrag[h].kwh, T) = SumI(x, bidrag)
<1> DEFINE S == DOMAIN bidrag
           v == [h \in T |-> bidrag[h].kwh]
           w == [h \in S |-> Vekt(x, h, bidrag[h])]
<1>1. IsFiniteSet(S) /\ IsFiniteSet(T)
  BY FS_Subset DEF Tellbar
<1>2. MapThenSumSet(LAMBDA h : bidrag[h].kwh, T) = SumFunctionOnSet(v, T)
  BY <1>1, KwhTilSum
<1>3. SumFunctionOnSet(v, T) = SumFunctionOnSet(w, S)
  <2>1. \A h \in T : v[h] \in Int
    BY DEF Tellbar
  <2>2. \A h \in S : w[h] = IF h \in T THEN v[h] ELSE 0
    OBVIOUS
  <2>3. T \in SUBSET S
    OBVIOUS
  <2> HIDE DEF S, v, w
  <2>. QED
    BY <1>1, <2>1, <2>2, <2>3, SumFilter
<1>. QED
  BY <1>2, <1>3 DEF SumI

\* SumAv adds up field by field.
LEMMA SumAvFelt ==
  ASSUME NEW bidrag, Tellbar(bidrag)
  PROVE  \A x \in Felt : SumAv(bidrag)[x] = SumI(x, bidrag)
<1> DEFINE alle == DOMAIN bidrag
<1> USE DEF Vekt, TellesI
<1>1. SumAv(bidrag).total = SumI("total", bidrag)
  BY KwhFelt DEF SumAv
<1>2. SumAv(bidrag).dag = SumI("dag", bidrag)
  <2>1. alle \cap Dagtimer \in SUBSET alle
    OBVIOUS
  <2>. QED
    BY <2>1, KwhFelt DEF SumAv
<1>3. SumAv(bidrag).natt = SumI("natt", bidrag)
  <2>1. alle \ Dagtimer \in SUBSET alle
    OBVIOUS
  <2>. QED
    BY <2>1, KwhFelt DEF SumAv
<1>4. SumAv(bidrag).uten = SumI("uten", bidrag)
  <2>1. {h \in alle : bidrag[h].kvalitet = "uten_pris"} \in SUBSET alle
    OBVIOUS
  <2>. QED
    BY <2>1, KwhFelt DEF SumAv
<1>5. SumAv(bidrag).delvis = SumI("delvis", bidrag)
  <2>1. {h \in alle : bidrag[h].kvalitet = "delvis_pris"} \in SUBSET alle
    OBVIOUS
  <2>. QED
    BY <2>1, KwhFelt DEF SumAv
<1>. QED
  BY <1>1, <1>2, <1>3, <1>4, <1>5 DEF Felt

\* Pluss adds field by field.
LEMMA PlussFelt ==
  ASSUME NEW s, NEW t, NEW x \in Felt
  PROVE  Pluss(s, t)[x] = s[x] + t[x] /\ Minus(s, t)[x] = s[x] - t[x]
BY DEF Pluss, Minus, Felt

\* Contributions over two sets of hours that have nothing in common.
LEMMA SumISplitt ==
  ASSUME NEW x, NEW bidrag, Tellbar(bidrag), NEW S \in SUBSET DOMAIN bidrag
  PROVE  SumI(x, bidrag)
           = SumI(x, Restrict(bidrag, S)) + SumI(x, Restrict(bidrag, DOMAIN bidrag \ S))
<1> DEFINE D == DOMAIN bidrag
           w == [h \in D |-> Vekt(x, h, bidrag[h])]
<1>1. \A h \in D : w[h] \in Nat
  BY VektType DEF Tellbar
<1>2. ASSUME NEW T \in SUBSET D
      PROVE  SumI(x, Restrict(bidrag, T)) = SumFunctionOnSet(w, T)
  <2> DEFINE u == [h \in T |-> Vekt(x, h, bidrag[h])]
  <2>1. SumI(x, Restrict(bidrag, T)) = SumFunctionOnSet(u, T)
    BY DEF SumI, Restrict
  <2>2. \A h \in T : w[h] \in Int /\ u[h] = w[h]
    BY <1>1
  <2>3. IsFiniteSet(T)
    BY FS_Subset DEF Tellbar
  <2> HIDE DEF u, w
  <2>. QED
    BY <2>1, <2>2, <2>3, SumLik
<1>3. SumFunctionOnSet(w, D \ S) = SumFunctionOnSet(w, D) - SumFunctionOnSet(w, S)
      /\ SumFunctionOnSet(w, S) \in Int /\ SumFunctionOnSet(w, D) \in Int
  <2>1. IsFiniteSet(D) /\ S \in SUBSET D /\ \A h \in D : w[h] \in Int
    BY <1>1 DEF Tellbar
  <2> HIDE DEF w, D
  <2>. QED
    BY <2>1, SumDifferens
<1>4. SumI(x, bidrag) = SumFunctionOnSet(w, D)
  BY DEF SumI
<1>. QED
  BY <1>2, <1>3, <1>4

\* The same contributions for the same hours.
LEMMA SumILik ==
  ASSUME NEW x, NEW bidrag, NEW andre, DOMAIN andre = DOMAIN bidrag,
         \A h \in DOMAIN bidrag : Vekt(x, h, andre[h]) = Vekt(x, h, bidrag[h])
  PROVE  SumI(x, andre) = SumI(x, bidrag)
<1>1. [h \in DOMAIN andre |-> Vekt(x, h, andre[h])]
        = [h \in DOMAIN bidrag |-> Vekt(x, h, bidrag[h])]
  OBVIOUS
<1>. QED
  BY <1>1 DEF SumI

-----------------------------------------------------------------------------
\* What every post contributes now, and what the sums hold besides what the
\* hours of the book have contributed.
Innhold(b) == [h \in DOMAIN b.poster |-> BidragAv(NyttIntervall(b, h))]

Rest(b, x) == b.sum[x] - SumI(x, b.bidrag)

\* The sums maanedssum gives.
Sumfelt(b, x) == Rest(b, x) + SumI(x, Innhold(b))

\* Energy is counted in whole units and is never negative: in the posts, the
\* contributions, the rejected kWh, the archive and the part of the sums that
\* is folded away.
HelBok(b) ==
  /\ \A h \in DOMAIN b.poster : b.poster[h].kwh \in Nat
  /\ \A h \in DOMAIN b.bidrag : b.bidrag[h].kwh \in Nat
  /\ \A x \in Felt : b.sum[x] \in Int /\ Rest(b, x) \in Nat
  /\ b.avvist \in Nat
  /\ \A m \in DOMAIN b.arkiv :
       b.arkiv[m].avvist \in Nat /\ \A x \in Felt : b.arkiv[m].sum[x] \in Nat

\* A calendar has finitely many hours and months.
LEMMA TimerEndelig == IsFiniteSet(Timer) /\ IsFiniteSet(Maneder)
<1>1. IsFiniteSet(Timer)
  BY TidAssumption, FS_Interval DEF Timer
<1>2. ManedAv \in Surjection(Timer, Maneder)
  BY KalenderAssumption DEF Maneder, Surjection
<1>. QED
  BY <1>1, <1>2, FS_Surjection

\* The contributions of a book can be added up.
LEMMA TellbareBidrag ==
  ASSUME NEW b, BokInv(b), HelBok(b)
  PROVE  Tellbar(b.poster) /\ Tellbar(b.bidrag) /\ Tellbar(Innhold(b))
<1>1. IsFiniteSet(DOMAIN b.poster) /\ IsFiniteSet(DOMAIN b.bidrag)
  <2>1. DOMAIN b.poster \subseteq Timer /\ DOMAIN b.bidrag \subseteq Timer
    BY DEF BokInv, StrukturOK, BidragFersk
  <2>. QED
    BY <2>1, TimerEndelig, FS_Subset
<1>. QED
  BY <1>1 DEF Tellbar, HelBok, Innhold, BidragAv, NyttIntervall

\* maanedssum: the sums come out as what was folded away and what every post
\* contributes now, and reading them leaves both as they were.
LEMMA OppdaterSum ==
  ASSUME NEW b, BokInv(b), HelBok(b)
  PROVE  LET o == Oppdater(b)
         IN  /\ HelBok(o)
             /\ o.bidrag = Innhold(b) /\ Innhold(o) = Innhold(b)
             /\ \A x \in Felt : Rest(o, x) = Rest(b, x) /\ o.sum[x] = Sumfelt(b, x)
<1> DEFINE o == Oppdater(b)
           gamle == b.skitne \cap DOMAIN b.bidrag
           nye == b.skitne \cap DOMAIN b.poster
           nytt == [h \in nye |-> BidragAv(Bygg(b, h))]
           P == DOMAIN b.poster
           D == DOMAIN b.bidrag
           inn == Innhold(b)
<1>1. /\ o.poster = b.poster /\ o.ruter = b.ruter /\ o.avvist = b.avvist
      /\ o.arkiv = b.arkiv /\ o.ufullstendig = b.ufullstendig
      /\ StrukturOK(o)
  BY OppdaterFelt DEF BokInv
<1>2. /\ o.bidrag = [h \in (D \ gamle) \cup nye |-> IF h \in nye THEN nytt[h] ELSE b.bidrag[h]]
      /\ o.sum = Pluss(Minus(b.sum, SumAv(Restrict(b.bidrag, gamle))), SumAv(nytt))
  BY DEF Oppdater, BokInv, StrukturOK, TomBok
<1>3. /\ D \subseteq P /\ P \ nye = D \ gamle
      /\ \A h \in D \ gamle : b.bidrag[h] = inn[h]
  BY DEF BokInv, BidragFersk, Innhold
<1>4. \A h \in nye : nytt[h] = inn[h]
  BY DEF BokInv, CacheFersk, Bygg, Innhold
<1>5. o.bidrag = inn
  <2>1. (D \ gamle) \cup nye = P
    BY <1>3
  <2>2. \A h \in P : o.bidrag[h] = inn[h]
    BY <1>2, <1>3, <1>4, <2>1
  <2>. QED
    BY <1>2, <2>1, <2>2 DEF Innhold
<1>6. Innhold(o) = inn
  BY <1>1 DEF Innhold, NyttIntervall
<1>7. /\ Tellbar(b.bidrag) /\ Tellbar(inn)
      /\ Tellbar(Restrict(b.bidrag, gamle)) /\ Tellbar(nytt)
      /\ Tellbar(Restrict(inn, P \ nye))
      /\ nytt = Restrict(inn, nye)
      /\ Restrict(b.bidrag, D \ gamle) = Restrict(inn, P \ nye)
  <2>1. Tellbar(b.bidrag) /\ Tellbar(inn)
    BY TellbareBidrag
  <2>2. nytt = Restrict(inn, nye)
    BY <1>4 DEF Restrict
  <2>3. \A S, T : Tellbar(S) /\ T \in SUBSET DOMAIN S => Tellbar(Restrict(S, T))
    BY FS_Subset DEF Tellbar, Restrict
  <2>4. nye \in SUBSET DOMAIN inn /\ gamle \in SUBSET D
    BY DEF Innhold
  <2>5. Restrict(b.bidrag, D \ gamle) = Restrict(inn, P \ nye)
    BY <1>3 DEF Restrict
  <2>6. Tellbar(Restrict(b.bidrag, gamle))
    BY <2>1, <2>3
  <2> HIDE DEF inn, nytt, nye, gamle
  <2>7. Tellbar(nytt) /\ Tellbar(Restrict(inn, P \ nye))
    <3>1. DOMAIN inn = P
      BY DEF inn, Innhold
    <3>. QED
      BY <2>1, <2>2, <2>3, <2>4, <3>1
  <2>. QED
    BY <2>1, <2>2, <2>5, <2>6, <2>7
<1>8. ASSUME NEW x \in Felt
      PROVE  Rest(o, x) = Rest(b, x) /\ o.sum[x] = Sumfelt(b, x) /\ o.sum[x] \in Int
  <2>1. SumI(x, b.bidrag) = SumI(x, Restrict(b.bidrag, gamle)) + SumI(x, Restrict(b.bidrag, D \ gamle))
    BY <1>7, SumISplitt
  <2>2. SumI(x, inn) = SumI(x, nytt) + SumI(x, Restrict(inn, P \ nye))
    <3>1. DOMAIN inn = P /\ nye \in SUBSET P
      BY DEF Innhold
    <3> HIDE DEF inn, nytt, nye, P
    <3>. QED
      BY <1>7, <3>1, SumISplitt
  <2>3. o.sum[x] = b.sum[x] - SumI(x, Restrict(b.bidrag, gamle)) + SumI(x, nytt)
    <3> HIDE DEF nytt, gamle
    <3>. QED
      BY <1>2, <1>7, PlussFelt, SumAvFelt
  <2>4. /\ SumI(x, b.bidrag) \in Int /\ SumI(x, inn) \in Int /\ SumI(x, nytt) \in Int
        /\ SumI(x, Restrict(b.bidrag, gamle)) \in Int
        /\ SumI(x, Restrict(inn, P \ nye)) \in Int /\ b.sum[x] \in Int
    <3> HIDE DEF inn, nytt, gamle, P, nye
    <3>. QED
      BY <1>7, SumIType DEF HelBok
  <2>5. SumI(x, o.bidrag) = SumI(x, inn)
    BY <1>5
  <2>6. SumI(x, Restrict(b.bidrag, D \ gamle)) = SumI(x, Restrict(inn, P \ nye))
    BY <1>7
  <2> HIDE DEF o, inn, nytt, gamle, nye, P, D
  <2>7. o.sum[x] - SumI(x, inn) = b.sum[x] - SumI(x, b.bidrag) /\ o.sum[x] \in Int
    BY <2>1, <2>2, <2>3, <2>4, <2>6
  <2>8. o.sum[x] = (b.sum[x] - SumI(x, b.bidrag)) + SumI(x, inn)
    BY <2>4, <2>7
  <2>. QED
    BY <2>5, <2>7, <2>8 DEF Rest, Sumfelt, inn
<1>9. HelBok(o)
  <2>1. \A h \in DOMAIN o.bidrag : o.bidrag[h].kwh \in Nat
    BY <1>5, <1>7 DEF Tellbar
  <2> HIDE DEF o, inn
  <2>. QED
    BY <1>1, <1>8, <2>1 DEF HelBok
<1>. QED
  BY <1>5, <1>6, <1>8, <1>9

\* What maanedssum answers.
LEMMA MaanedssumFelt ==
  ASSUME NEW b, BokInv(b), HelBok(b), NEW x \in Felt
  PROVE  Maanedssum(b).sum[x] = Sumfelt(b, x) /\ Sumfelt(b, x) \in Nat
<1>1. Maanedssum(b).sum[x] = Sumfelt(b, x)
  BY OppdaterSum DEF Maanedssum
<1>2. Rest(b, x) \in Nat /\ SumI(x, Innhold(b)) \in Nat
  BY TellbareBidrag, SumIType DEF HelBok
<1>. QED
  BY <1>1, <1>2 DEF Sumfelt

\* The sums of energy are those of the posts, whatever the book says of prices.
LEMMA SammeSum ==
  ASSUME NEW b, NEW c, c.poster = b.poster, c.bidrag = b.bidrag, c.sum = b.sum
  PROVE  /\ \A x \in Energifelt : Sumfelt(c, x) = Sumfelt(b, x)
         /\ \A x \in Felt : Rest(c, x) = Rest(b, x)
<1>1. ASSUME NEW x \in Energifelt
      PROVE  Sumfelt(c, x) = Sumfelt(b, x)
  <2>1. \A h \in DOMAIN b.poster : Vekt(x, h, Innhold(c)[h]) = Vekt(x, h, Innhold(b)[h])
    BY <1>1 DEF Vekt, Energifelt, TellesI, Innhold, BidragAv, NyttIntervall
  <2>2. SumI(x, Innhold(c)) = SumI(x, Innhold(b))
    <3>1. DOMAIN Innhold(c) = DOMAIN b.poster /\ DOMAIN Innhold(b) = DOMAIN b.poster
      BY DEF Innhold
    <3>. QED
      BY <2>1, <3>1, SumILik
  <2>. QED
    BY <2>2 DEF Sumfelt, Rest
<1>. QED
  BY <1>1 DEF Rest

\* A book that has the same posts, contributions, sums, rejected energy and
\* archive holds the same energy, whatever it says of prices.
LEMMA SammeEnergi ==
  ASSUME NEW b, HelBok(b), NEW c, c.poster = b.poster, c.bidrag = b.bidrag,
         c.sum = b.sum, c.avvist = b.avvist, c.arkiv = b.arkiv
  PROVE  HelBok(c) /\ \A x \in Energifelt : Sumfelt(c, x) = Sumfelt(b, x)
BY SammeSum DEF HelBok

\* A price sample moves no energy.
LEMMA PrisproveEnergi ==
  ASSUME NEW b, BokInv(b), HelBok(b), NEW p, p.polltid \in Tikk
  PROVE  LET c == RegistrerPrisprove(b, p)
         IN  HelBok(c) /\ \A x \in Energifelt : Sumfelt(c, x) = Sumfelt(b, x)
<1> DEFINE c == RegistrerPrisprove(b, p)
<1>1. /\ c.poster = b.poster /\ c.bidrag = b.bidrag /\ c.sum = b.sum
      /\ c.avvist = b.avvist /\ c.arkiv = b.arkiv
  BY DEF RegistrerPrisprove, BokInv, StrukturOK, TomBok
<1> HIDE DEF c
<1>. QED
  BY <1>1, SammeEnergi DEF c

\* What the hours S of a split add to field x.
Fordelt(x, f, S) == SumFunctionOnSet([h \in S |-> IF TellesI(x, h) THEN f[h] ELSE 0], S)

\* What a split adds to a field is a natural number.
LEMMA FordeltType ==
  ASSUME NEW x, NEW S, IsFiniteSet(S), NEW f, \A h \in S : f[h] \in Nat
  PROVE  Fordelt(x, f, S) \in Nat
<1> DEFINE w == [h \in S |-> IF TellesI(x, h) THEN f[h] ELSE 0]
<1>1. \A h \in S : w[h] \in Nat
  OBVIOUS
<1> HIDE DEF w
<1>2. SumFunctionOnSet(w, S) \in Nat
  BY <1>1, SumNat
<1>. QED
  BY <1>2 DEF w, Fordelt

\* The loop of _fordel puts the energy of the split in the sums, in the fields
\* the hours belong to, and nowhere else.
LEMMA LeggEnergi ==
  ASSUME NEW b, BokInv(b), HelBok(b), NEW del, NEW estimert,
         DOMAIN del \subseteq Timer, \A h \in DOMAIN del : del[h] \in Nat
  PROVE  LET c == Legg(b, del, estimert)
         IN  /\ HelBok(c) /\ c.avvist = b.avvist
             /\ \A x \in Energifelt :
                  Sumfelt(c, x) = Sumfelt(b, x) + Fordelt(x, del, DOMAIN del)
<1> DEFINE c == Legg(b, del, estimert)
           P == DOMAIN b.poster
           D == DOMAIN del
<1>1. /\ c.bidrag = b.bidrag /\ c.sum = b.sum /\ c.avvist = b.avvist
      /\ c.arkiv = b.arkiv /\ DOMAIN c.poster = P \cup D
      /\ \A h \in P \cup D : c.poster[h].kwh
           = (IF h \in P THEN b.poster[h].kwh ELSE 0) + (IF h \in D THEN del[h] ELSE 0)
  <2>1. /\ c.bidrag = b.bidrag /\ c.sum = b.sum /\ c.avvist = b.avvist
        /\ c.arkiv = b.arkiv /\ DOMAIN c.poster = P \cup D
    BY DEF Legg, BokInv, StrukturOK, TomBok
  <2>2. ASSUME NEW h \in D
        PROVE  c.poster[h].kwh = (IF h \in P THEN b.poster[h].kwh ELSE 0) + del[h]
    BY DEF Legg, BokInv, StrukturOK, TomBok
  <2>3. ASSUME NEW h \in P \ D
        PROVE  c.poster[h] = b.poster[h]
    BY DEF Legg, BokInv, StrukturOK, TomBok
  <2>4. \A h \in P : b.poster[h].kwh \in Nat
    BY DEF HelBok
  <2> HIDE DEF c
  <2>. QED
    BY <2>1, <2>2, <2>3, <2>4
<1>2. HelBok(c)
  <2>1. \A h \in P \cup D : c.poster[h].kwh \in Nat
    BY <1>1 DEF HelBok
  <2> HIDE DEF c
  <2>. QED
    BY <1>1, <2>1 DEF HelBok, Rest
<1>3. IsFiniteSet(P) /\ IsFiniteSet(D) /\ IsFiniteSet(P \cup D)
  <2>1. P \subseteq Timer
    BY DEF BokInv, StrukturOK
  <2>. QED
    BY <2>1, TimerEndelig, FS_Subset, FS_Union
<1>4. ASSUME NEW x \in Energifelt
      PROVE  SumI(x, Innhold(c)) = SumI(x, Innhold(b)) + Fordelt(x, del, D)
  <2> DEFINE A == P \cup D
             wc == [h \in A |-> Vekt(x, h, Innhold(c)[h])]
             wb == [h \in P |-> Vekt(x, h, Innhold(b)[h])]
             wd == [h \in D |-> IF TellesI(x, h) THEN del[h] ELSE 0]
             ub == [h \in A |-> IF h \in P THEN wb[h] ELSE 0]
             ud == [h \in A |-> IF h \in D THEN wd[h] ELSE 0]
  <2>1. \A h \in P : wb[h] = IF TellesI(x, h) THEN b.poster[h].kwh ELSE 0
    BY <1>4 DEF Vekt, Energifelt, TellesI, Innhold, BidragAv, NyttIntervall
  <2>2. \A h \in A : wc[h] = IF TellesI(x, h) THEN c.poster[h].kwh ELSE 0
    BY <1>1, <1>4 DEF Vekt, Energifelt, TellesI, Innhold, BidragAv, NyttIntervall
  <2>3. \A h \in P : wb[h] \in Int
    BY <2>1 DEF HelBok
  <2>4. \A h \in D : wd[h] \in Int
    OBVIOUS
  <2>5. \A h \in A : ub[h] \in Int /\ ud[h] \in Int
    BY <2>3, <2>4
  <2>6. \A h \in A : wc[h] = ub[h] + ud[h]
    <3> SUFFICES ASSUME NEW h \in A PROVE wc[h] = ub[h] + ud[h]
      OBVIOUS
    <3>1. c.poster[h].kwh
            = (IF h \in P THEN b.poster[h].kwh ELSE 0) + (IF h \in D THEN del[h] ELSE 0)
      BY <1>1
    <3>2. wc[h] = IF TellesI(x, h) THEN c.poster[h].kwh ELSE 0
      BY <2>2
    <3>3. ub[h] = IF h \in P /\ TellesI(x, h) THEN b.poster[h].kwh ELSE 0
      BY <2>1
    <3>4. ud[h] = IF h \in D /\ TellesI(x, h) THEN del[h] ELSE 0
      OBVIOUS
    <3>5. (h \in P => b.poster[h].kwh \in Int) /\ (h \in D => del[h] \in Int)
      BY DEF HelBok
    <3> HIDE DEF wc, ub, ud, c
    <3>. QED
      BY <3>1, <3>2, <3>3, <3>4, <3>5
  <2>7. SumFunctionOnSet(wb, P) = SumFunctionOnSet(ub, A)
    <3>1. P \in SUBSET A /\ \A h \in A : ub[h] = IF h \in P THEN wb[h] ELSE 0
      OBVIOUS
    <3> HIDE DEF wb, ub, A, P
    <3>. QED
      BY <3>1, <2>3, <1>3, SumFilter DEF A
  <2>8. SumFunctionOnSet(wd, D) = SumFunctionOnSet(ud, A)
    <3>1. D \in SUBSET A /\ \A h \in A : ud[h] = IF h \in D THEN wd[h] ELSE 0
      OBVIOUS
    <3> HIDE DEF wd, ud, A, D
    <3>. QED
      BY <3>1, <2>4, <1>3, SumFilter DEF A
  <2>9. SumFunctionOnSet(wc, A) = SumFunctionOnSet(ub, A) + SumFunctionOnSet(ud, A)
    <3>1. IsFiniteSet(A)
      BY <1>3
    <3> HIDE DEF wc, ub, ud, A
    <3>. QED
      BY <3>1, <2>5, <2>6, SumPluss
  <2>10. /\ SumI(x, Innhold(c)) = SumFunctionOnSet(wc, A)
         /\ SumI(x, Innhold(b)) = SumFunctionOnSet(wb, P)
    <3>1. DOMAIN Innhold(c) = A /\ DOMAIN Innhold(b) = P
      BY <1>1 DEF Innhold
    <3> HIDE DEF c
    <3>. QED
      BY <3>1 DEF SumI
  <2>. QED
    BY <2>7, <2>8, <2>9, <2>10 DEF Fordelt
<1>5. ASSUME NEW x \in Energifelt
      PROVE  Sumfelt(c, x) = Sumfelt(b, x) + Fordelt(x, del, D)
  <2>1. Rest(c, x) = Rest(b, x) /\ Rest(b, x) \in Nat
    BY <1>1 DEF Rest, HelBok, Felt, Energifelt
  <2>2. SumI(x, Innhold(b)) \in Nat /\ Fordelt(x, del, D) \in Nat
    BY <1>3, TellbareBidrag, SumIType, FordeltType
  <2> HIDE DEF c
  <2>. QED
    BY <2>1, <2>2, <1>4 DEF Sumfelt
<1>. QED
  BY <1>1, <1>2, <1>5

\* A month that has just been opened holds nothing.
LEMMA NyManedEnergi ==
  ASSUME NEW b, BokInv(b), HelBok(b), NEW m
  PROVE  LET c == NyManed(b, m)
         IN  HelBok(c) /\ c.avvist = 0 /\ \A x \in Felt : Sumfelt(c, x) = 0
<1> DEFINE c == NyManed(b, m)
<1>1. /\ DOMAIN c.poster = {} /\ DOMAIN c.bidrag = {} /\ c.sum = NullSum
      /\ c.avvist = 0 /\ c.arkiv = b.arkiv
  BY DEF NyManed, BokInv, StrukturOK, TomBok
<1>2. DOMAIN Innhold(c) = {}
  BY <1>1 DEF Innhold
<1> HIDE DEF c
<1>3. \A x : SumI(x, c.bidrag) = 0 /\ SumI(x, Innhold(c)) = 0
  BY <1>1, <1>2, SumTom DEF SumI
<1>4. \A x \in Felt : c.sum[x] = 0
  BY <1>1 DEF NullSum, Felt
<1>5. \A x \in Felt : Rest(c, x) = 0
  BY <1>3, <1>4 DEF Rest
<1>6. HelBok(c)
  BY <1>1, <1>4, <1>5 DEF HelBok
<1>. QED
  BY <1>1, <1>3, <1>5, <1>6 DEF c, Sumfelt

\* The book of month m after a split: what the month held before, if it was the
\* active one, and the part of the split that falls in it.
LEMMA ForManedEnergi ==
  ASSUME NEW b, BokInv(b), HelBok(b), NEW m \in Maneder, b.aktiv \in Maneder, b.aktiv <= m,
         NEW f, DOMAIN f \subseteq Timer, \A h \in DOMAIN f : f[h] \in Nat, NEW estimert
  PROVE  LET c == ForManed(b, m, f, estimert)
         IN  /\ HelBok(c)
             /\ c.avvist = IF m = b.aktiv THEN b.avvist ELSE 0
             /\ \A x \in Energifelt :
                  Sumfelt(c, x) = (IF m = b.aktiv THEN Sumfelt(b, x) ELSE 0)
                                  + Fordelt(x, f, {h \in DOMAIN f : ManedAv[h] = m})
<1> DEFINE apen == IF m = b.aktiv THEN b ELSE NyManed(b, m)
           S == {h \in DOMAIN f : ManedAv[h] = m}
           del == Restrict(f, S)
           c == Legg(apen, del, estimert)
<1>1. /\ BokInv(apen) /\ HelBok(apen)
      /\ apen.avvist = IF m = b.aktiv THEN b.avvist ELSE 0
      /\ \A x \in Felt : Sumfelt(apen, x) = IF m = b.aktiv THEN Sumfelt(b, x) ELSE 0
  BY NyManedInv, NyManedEnergi
<1>2. DOMAIN del = S /\ S \subseteq Timer /\ \A h \in S : del[h] = f[h] /\ del[h] \in Nat
  BY DEF Restrict
<1>3. \A x : Fordelt(x, del, S) = Fordelt(x, f, S)
  <2> SUFFICES ASSUME NEW x PROVE Fordelt(x, del, S) = Fordelt(x, f, S)
    OBVIOUS
  <2>1. [h \in S |-> IF TellesI(x, h) THEN del[h] ELSE 0]
          = [h \in S |-> IF TellesI(x, h) THEN f[h] ELSE 0]
    BY <1>2
  <2>. QED
    BY <2>1 DEF Fordelt
<1>4. c = ForManed(b, m, f, estimert)
  BY DEF ForManed
<1> HIDE DEF apen, del, S
<1>5. /\ HelBok(c) /\ c.avvist = apen.avvist
      /\ \A x \in Energifelt : Sumfelt(c, x) = Sumfelt(apen, x) + Fordelt(x, del, DOMAIN del)
  BY <1>1, <1>2, LeggEnergi
<1>6. Energifelt \subseteq Felt
  BY DEF Energifelt, Felt
<1> HIDE DEF c
<1>. QED
  BY <1>1, <1>2, <1>3, <1>4, <1>5, <1>6 DEF S

\* Every hour of a window holds a part of it, and the hours up to the n-th hold
\* the part of it that has passed when the hour ends.
LEMMA OverlappType ==
  ASSUME NEW fra \in Nat, NEW til \in Nat, fra < til,
         NEW h \in Time(fra) .. Time(til - 1)
  PROVE  /\ Overlapp(h, fra, til) \in Nat
         /\ Overlapp(h, fra, til) = MinstAv(til, (h + 1) * TikkPerTime)
                                    - (IF h = Time(fra) THEN fra
                                       ELSE MinstAv(til, h * TikkPerTime))
         /\ h = Time(til - 1) => MinstAv(til, (h + 1) * TikkPerTime) = til
         /\ h \in Nat
<1> DEFINE d == TikkPerTime
           p == h * d
           q == (h + 1) * d
<1>1. d \in Nat \ {0} /\ til - 1 \in Nat
  BY TidAssumption DEF TikkPerTime
<1>2. /\ Time(fra) \in Nat /\ Time(til - 1) \in Nat
      /\ Time(fra) * d <= fra /\ fra < (Time(fra) + 1) * d
      /\ Time(til - 1) * d <= til - 1 /\ til - 1 < (Time(til - 1) + 1) * d
  <2> HIDE DEF d
  <2>1. ASSUME NEW t \in Nat
        PROVE  t \div d \in Nat /\ (t \div d) * d <= t /\ t < ((t \div d) + 1) * d
    BY <1>1
  <2>2. \A t : Time(t) = t \div d
    BY DEF Time, d
  <2>. QED
    BY <1>1, <2>1, <2>2
<1>3. h \in Nat /\ p \in Nat /\ q \in Nat /\ q = p + d
  BY <1>1, <1>2
<1>4. p <= til - 1
  <2>1. p <= Time(til - 1) * d
    BY <1>1, <1>2, <1>3
  <2>2. Time(til - 1) * d \in Nat
    BY <1>1, <1>2
  <2> HIDE DEF p, q, d
  <2>. QED
    BY <1>1, <1>2, <1>3, <2>1, <2>2
<1>5. fra < q
  <2>1. (Time(fra) + 1) * d <= q
    BY <1>1, <1>2, <1>3
  <2>2. (Time(fra) + 1) * d \in Nat
    BY <1>1, <1>2
  <2> HIDE DEF p, q, d
  <2>. QED
    BY <1>1, <1>2, <1>3, <2>1, <2>2
<1>6. h = Time(fra) => p <= fra
  BY <1>2
<1>7. h # Time(fra) => fra < p
  <2> SUFFICES ASSUME h # Time(fra) PROVE fra < p
    OBVIOUS
  <2>1. (Time(fra) + 1) * d <= p
    <3>1. Time(fra) + 1 \in Nat /\ Time(fra) + 1 <= h
      BY <1>2
    <3> HIDE DEF d
    <3>2. \A k \in Nat : k <= h => k * d <= h * d
      BY <1>1, <1>3
    <3>. QED
      BY <3>1, <3>2
  <2>2. (Time(fra) + 1) * d \in Nat
    BY <1>1, <1>2
  <2> HIDE DEF p, q, d
  <2>. QED
    BY <1>1, <1>2, <1>3, <2>1, <2>2
<1>8. h = Time(til - 1) => til <= q
  <2> SUFFICES ASSUME h = Time(til - 1) PROVE til <= q
    OBVIOUS
  <2>1. til - 1 < q
    BY <1>2
  <2> HIDE DEF p, q, d
  <2>. QED
    BY <1>3, <2>1
<1>9. /\ Overlapp(h, fra, til) = MinstAv(til, q) - StorstAv(fra, p)
      /\ MinstAv(til, q) = IF til <= q THEN til ELSE q
      /\ StorstAv(fra, p) = IF fra <= p THEN p ELSE fra
      /\ MinstAv(til, p) = IF til <= p THEN til ELSE p
  BY DEF Overlapp, MinstAv, StorstAv
<1> HIDE DEF p, q
<1>10. /\ Overlapp(h, fra, til) \in Nat
       /\ Overlapp(h, fra, til) = MinstAv(til, q) - (IF h = Time(fra) THEN fra ELSE MinstAv(til, p))
       /\ h = Time(til - 1) => MinstAv(til, q) = til
  BY <1>3, <1>4, <1>5, <1>6, <1>7, <1>8, <1>9, <1>1
<1>. QED
  BY <1>3, <1>10 DEF p, q, d

\* The split is exact when every share is whole: the hours of the window get
\* the delta and nothing else.
LEMMA FordelDeltaSum ==
  ASSUME NEW fra \in Tikk, NEW til \in Tikk, fra < til, NEW delta \in Nat,
         \A h \in Time(fra) .. Time(til - 1) :
            (delta * Overlapp(h, fra, til)) % (til - fra) = 0
  PROVE  LET f == FordelDelta(fra, til, delta)
         IN  /\ \A h \in DOMAIN f : f[h] \in Nat
             /\ SumFunctionOnSet(f, DOMAIN f) = delta
<1> DEFINE f == FordelDelta(fra, til, delta)
           lo == Time(fra)
           hi == Time(til - 1)
           L == til - fra
           o(h) == Overlapp(h, fra, til)
           e(n) == MinstAv(til, (n + 1) * TikkPerTime)
           G == {T \in SUBSET (lo .. hi) :
                   \A n \in lo .. hi : T = lo .. n =>
                     L * SumFunctionOnSet(f, T) = delta * (e(n) - fra)}
<1>1. fra \in Nat /\ til \in Nat /\ L \in Nat \ {0}
  BY TikkHel
<1>2. /\ DOMAIN f = lo .. hi /\ lo \in Nat /\ hi \in Nat /\ lo <= hi
  <2>1. DOMAIN f = lo .. hi /\ lo \in Timer /\ hi \in Timer
    BY VinduType
  <2>2. lo \in Nat /\ hi \in Nat
    BY <2>1, TidAssumption DEF Timer
  <2>3. lo <= hi
    <3>1. TikkPerTime \in Nat \ {0}
      BY TidAssumption DEF TikkPerTime
    <3>2. fra <= til - 1 /\ til - 1 \in Nat
      BY <1>1
    <3>. QED
      BY <1>1, <3>1, <3>2 DEF Time
  <2>. QED
    BY <2>1, <2>2, <2>3
<1>3. \A h \in lo .. hi : o(h) \in Nat /\ h \in Nat /\ e(h) \in Int
  <2>1. TikkPerTime \in Nat
    BY TidAssumption DEF TikkPerTime
  <2>. QED
    BY <1>1, <2>1, OverlappType DEF MinstAv
<1>4. \A h \in lo .. hi : f[h] \in Nat /\ L * f[h] = delta * o(h)
  <2> SUFFICES ASSUME NEW h \in lo .. hi PROVE f[h] \in Nat /\ L * f[h] = delta * o(h)
    OBVIOUS
  <2> DEFINE x == delta * o(h)
  <2>1. x \in Nat /\ x % L = 0 /\ f[h] = x \div L
    BY <1>3 DEF FordelDelta
  <2> HIDE DEF x, L, f
  <2>. QED
    BY <1>1, <2>1 DEF x
<1>5. IsFiniteSet(lo .. hi)
  BY <1>2, FS_Interval
<1>6. ASSUME NEW T \in SUBSET (lo .. hi), \A U \in SUBSET T : U # T => U \in G
      PROVE  T \in G
  <2> SUFFICES ASSUME NEW n \in lo .. hi, T = lo .. n
               PROVE  L * SumFunctionOnSet(f, T) = delta * (e(n) - fra)
    OBVIOUS
  <2>1. IsFiniteSet(T) /\ n \in T /\ \A h \in T : f[h] \in Int
    BY <1>2, <1>4, <1>5, FS_Subset
  <2>2. SumFunctionOnSet(f, T) = f[n] + SumFunctionOnSet(f, T \ {n})
    <3> HIDE DEF f
    <3>. QED
      BY <2>1, SumUten
  <2>3. SumFunctionOnSet(f, T \ {n}) \in Int
    <3>1. IsFiniteSet(T \ {n})
      BY <2>1, FS_Subset
    <3> HIDE DEF f
    <3>. QED
      BY <2>1, <3>1, SumType
  <2>4. L * SumFunctionOnSet(f, T) = delta * o(n) + L * SumFunctionOnSet(f, T \ {n})
    <3>1. f[n] \in Int /\ L * f[n] = delta * o(n)
      BY <1>4
    <3> HIDE DEF f, L
    <3>2. L * SumFunctionOnSet(f, T) = L * f[n] + L * SumFunctionOnSet(f, T \ {n})
      BY <1>1, <2>2, <2>3, <3>1
    <3>. QED
      BY <3>1, <3>2
  <2>5. CASE n = lo
    <3>1. T \ {n} = {}
      BY <1>2, <2>5
    <3>2. L * SumFunctionOnSet(f, T \ {n}) = 0
      <4>1. SumFunctionOnSet(f, T \ {n}) = 0
        <5> HIDE DEF f
        <5>. QED
          BY <3>1, SumTom, Zenon
      <4> HIDE DEF f, L
      <4>. QED
        BY <1>1, <4>1
    <3>3. o(n) = e(n) - fra
      BY <1>1, <2>5, OverlappType
    <3>4. o(n) \in Nat
      BY <1>3
    <3> HIDE DEF o, e, L, f
    <3>. QED
      BY <2>4, <3>2, <3>3, <3>4
  <2>6. CASE n # lo
    <3>1. /\ n - 1 \in lo .. hi /\ T \ {n} = lo .. n - 1
          /\ T \ {n} # T /\ T \ {n} \in SUBSET T
      BY <1>2, <2>1, <2>6
    <3>2. L * SumFunctionOnSet(f, T \ {n}) = delta * (e(n - 1) - fra)
      <4>1. T \ {n} \in G
        BY <1>6, <3>1
      <4>. QED
        BY <3>1, <4>1
    <3>3. o(n) = e(n) - e(n - 1)
      <4>1. (n - 1) + 1 = n
        BY <1>3
      <4>. QED
        BY <1>1, <2>6, <4>1, OverlappType
    <3>4. o(n) \in Nat /\ e(n) \in Int /\ e(n - 1) \in Int
      BY <1>3, <3>1
    <3> HIDE DEF o, e, L, f
    <3>5. delta * (e(n) - fra) = delta * (e(n) - e(n - 1)) + delta * (e(n - 1) - fra)
      BY <1>1, <3>4
    <3>. QED
      BY <2>4, <3>2, <3>3, <3>5
  <2>. QED
    BY <2>5, <2>6
<1>7. lo .. hi \in G
  <2> HIDE DEF G
  <2>1. lo .. hi \in SUBSET (lo .. hi)
    OBVIOUS
  <2>2. \A T \in SUBSET (lo .. hi) : T \in G
    <3> DEFINE S == lo .. hi
    <3>1. IsFiniteSet(S) /\ \A T \in SUBSET S : (\A U \in SUBSET T : U # T => U \in G) => T \in G
      BY <1>5, <1>6
    <3> HIDE DEF S
    <3>2. \A T \in SUBSET S : T \in G
      BY <3>1, DelmengdeInduksjon
    <3>. QED
      BY <3>2 DEF S
  <2>. QED
    BY <2>1, <2>2
<1>8. L * SumFunctionOnSet(f, lo .. hi) = delta * L
  <2>1. hi \in lo .. hi
    BY <1>2
  <2>2. e(hi) = til
    BY <1>1, <2>1, OverlappType
  <2>3. L * SumFunctionOnSet(f, lo .. hi) = delta * (e(hi) - fra)
    BY <1>7, <2>1
  <2>. QED
    BY <2>2, <2>3
<1>9. SumFunctionOnSet(f, lo .. hi) \in Nat
  <2>1. \A h \in lo .. hi : f[h] \in Nat
    BY <1>4
  <2> HIDE DEF f
  <2>. QED
    BY <1>5, <2>1, SumNat
<1>10. SumFunctionOnSet(f, lo .. hi) = delta
  <2> DEFINE s == SumFunctionOnSet(f, lo .. hi)
  <2>1. s \in Nat /\ L * s = delta * L
    BY <1>8, <1>9
  <2> HIDE DEF s, L
  <2>2. L * s = L * delta
    BY <1>1, <2>1
  <2>3. s = delta
    BY <1>1, <2>1, <2>2
  <2>. QED
    BY <2>3 DEF s
<1>. QED
  BY <1>2, <1>4, <1>10

\* The hours of S that belong to month m.
Gruppe(S, k, m) == {h \in S : k[h] = m}

\* Months that share the energy of the hours S, one of which held v before.
LEMMA ManedeneSum ==
  ASSUME NEW M, IsFiniteSet(M), NEW e \in M, NEW v \in Int,
         NEW S, IsFiniteSet(S), NEW k, \A h \in S : k[h] \in M,
         NEW w, \A h \in S : w[h] \in Int,
         NEW g, \A m \in M : g[m] = (IF m = e THEN v ELSE 0)
                                    + SumFunctionOnSet(w, Gruppe(S, k, m))
  PROVE  SumFunctionOnSet(g, M) = v + SumFunctionOnSet(w, S)
<1> DEFINE gr == [m \in M |-> SumFunctionOnSet(w, {h \in S : k[h] = m})]
           en == [m \in M |-> IF m = e THEN v ELSE 0]
<1>1. \A m \in M : gr[m] \in Int
  <2> SUFFICES ASSUME NEW m \in M PROVE gr[m] \in Int
    OBVIOUS
  <2>1. IsFiniteSet({h \in S : k[h] = m})
    BY FS_Subset
  <2>. QED
    BY <2>1, SumType
<1>2. \A m \in M : en[m] \in Int
  OBVIOUS
<1>3. \A m \in M : g[m] = en[m] + gr[m]
  BY DEF Gruppe
<1>4. SumFunctionOnSet(gr, M) = SumFunctionOnSet(w, S)
  BY SumGruppert
<1>5. SumFunctionOnSet(en, M) = v
  <2>1. en[e] = v /\ \A m \in M \ {e} : en[m] = 0
    OBVIOUS
  <2> HIDE DEF en
  <2>. QED
    BY <2>1, SumEnkelt
<1> HIDE DEF gr, en
<1>6. SumFunctionOnSet(g, M) = SumFunctionOnSet(en, M) + SumFunctionOnSet(gr, M)
  BY <1>1, <1>2, <1>3, SumPluss
<1>. QED
  BY <1>4, <1>5, <1>6

\* The energy in field x, and the rejected energy, of the active month and the
\* archive together.
Feltsaldo(b, x) ==
  Sumfelt(b, x)
  + SumFunctionOnSet([m \in DOMAIN b.arkiv |-> b.arkiv[m].sum[x]], DOMAIN b.arkiv)

Avvistsaldo(b) ==
  b.avvist + SumFunctionOnSet([m \in DOMAIN b.arkiv |-> b.arkiv[m].avvist], DOMAIN b.arkiv)

\* An archive has finitely many months.
LEMMA ArkivEndelig ==
  ASSUME NEW b, BokInv(b)
  PROVE  IsFiniteSet(DOMAIN b.arkiv)
<1>1. DOMAIN b.arkiv \subseteq Maneder
  BY DEF BokInv, StrukturOK
<1>. QED
  BY <1>1, TimerEndelig, FS_Subset

\* What a book holds over all its months is a number.
LEMMA SaldoType ==
  ASSUME NEW b, BokInv(b), HelBok(b)
  PROVE  Avvistsaldo(b) \in Nat /\ \A x \in Felt : Feltsaldo(b, x) \in Nat
<1>1. SumFunctionOnSet([m \in DOMAIN b.arkiv |-> b.arkiv[m].avvist], DOMAIN b.arkiv) \in Nat
  <2> DEFINE f == [m \in DOMAIN b.arkiv |-> b.arkiv[m].avvist]
  <2>1. \A m \in DOMAIN b.arkiv : f[m] \in Nat
    BY DEF HelBok
  <2> HIDE DEF f
  <2>2. SumFunctionOnSet(f, DOMAIN b.arkiv) \in Nat
    BY <2>1, ArkivEndelig, SumNat
  <2>. QED
    BY <2>2 DEF f
<1>2. ASSUME NEW x \in Felt
      PROVE  SumFunctionOnSet([m \in DOMAIN b.arkiv |-> b.arkiv[m].sum[x]], DOMAIN b.arkiv) \in Nat
  <2> DEFINE f == [m \in DOMAIN b.arkiv |-> b.arkiv[m].sum[x]]
  <2>1. \A m \in DOMAIN b.arkiv : f[m] \in Nat
    BY DEF HelBok
  <2> HIDE DEF f
  <2>2. SumFunctionOnSet(f, DOMAIN b.arkiv) \in Nat
    BY <2>1, ArkivEndelig, SumNat
  <2>. QED
    BY <2>2 DEF f
<1>3. \A x \in Felt : Sumfelt(b, x) \in Nat
  BY MaanedssumFelt
<1>. QED
  BY <1>1, <1>2, <1>3 DEF Feltsaldo, Avvistsaldo, HelBok

\* The book _fordel starts from: its month is that of the baseline if it keeps
\* none yet.
Apnet(b) ==
  IF b.aktiv = Ingen THEN [b EXCEPT !.aktiv = ManedAv[Time(b.sist.tid)]] ELSE b

\* A book opened in its first month is a book.
LEMMA ApnetInv ==
  ASSUME NEW b, BokInv(b), b.sist # Ingen
  PROVE  LET b0 == Apnet(b)
         IN  /\ BokInv(b0) /\ b0.aktiv \in Maneder /\ b0.aktiv \in Nat /\ b0.aktiv # Ingen
             /\ b0.arkiv = b.arkiv /\ b0.ruter = b.ruter /\ b0.poster = b.poster
             /\ b.aktiv # Ingen => b0 = b
             /\ b.aktiv = Ingen => /\ DOMAIN b.poster = {} /\ DOMAIN b.arkiv = {}
                                   /\ b0.aktiv = ManedAv[Time(b.sist.tid)]
             /\ HelBok(b) => /\ HelBok(b0) /\ b0.avvist = b.avvist
                             /\ \A x \in Energifelt : Sumfelt(b0, x) = Sumfelt(b, x)
<1> DEFINE b0 == Apnet(b)
<1>1. CASE b.aktiv # Ingen
  BY <1>1, ManederNat DEF Apnet, BokInv, StrukturOK
<1>2. CASE b.aktiv = Ingen
  <2>1. DOMAIN b.poster = {} /\ DOMAIN b.arkiv = {}
    BY <1>2, ManedType DEF BokInv, StrukturOK
  <2>2. /\ b0.poster = b.poster /\ b0.ruter = b.ruter /\ b0.bygget = b.bygget
        /\ b0.bidrag = b.bidrag /\ b0.skitne = b.skitne /\ b0.arkiv = b.arkiv
        /\ b0.ufullstendig = b.ufullstendig /\ b0.sist = b.sist
        /\ b0.sum = b.sum /\ b0.avvist = b.avvist
        /\ b0.aktiv = ManedAv[Time(b.sist.tid)] /\ DOMAIN b0 = DOMAIN b
    BY <1>2 DEF Apnet, BokInv, StrukturOK, TomBok
  <2>3. CacheFersk(b0) /\ BidragFersk(b0)
    BY <2>2, SammeInnhold DEF BokInv
  <2>4. b0.aktiv \in Maneder /\ b0.aktiv \in Nat /\ b0.aktiv # Ingen
    <3>1. Time(b.sist.tid) \in Timer
      BY TimeType DEF BokInv, StrukturOK
    <3>. QED
      BY <2>2, <3>1, ManedType
  <2>5. StrukturOK(b0)
    BY <2>1, <2>2, <2>4 DEF BokInv, StrukturOK
  <2>6. HelBok(b) => HelBok(b0) /\ \A x \in Energifelt : Sumfelt(b0, x) = Sumfelt(b, x)
    BY <2>2, SammeEnergi
  <2> HIDE DEF b0
  <2>. QED
    BY <1>2, <2>1, <2>2, <2>3, <2>4, <2>5, <2>6 DEF BokInv, b0
<1>. QED
  BY <1>1, <1>2

\* How a book may move while it receives energy.  Inside a month only the sums
\* and the rejected energy of that month grow.
IManeden(b, c) ==
  /\ c.aktiv = b.aktiv
  /\ DOMAIN c.arkiv = DOMAIN b.arkiv /\ \A m \in DOMAIN b.arkiv : c.arkiv[m] = b.arkiv[m]
  /\ b.avvist <= c.avvist
  /\ \A x \in Energifelt : Sumfelt(b, x) <= Sumfelt(c, x)

\* Over one or more boundaries: the first of the months that are archived or
\* opened is the one that was active, and starts from what it held.
OverManedsskifte(b, c) ==
  LET nye == DOMAIN c.arkiv \ DOMAIN b.arkiv
  IN  /\ c.aktiv \in Maneder /\ c.aktiv # b.aktiv
      /\ \A m \in DOMAIN b.arkiv : m \in DOMAIN c.arkiv /\ c.arkiv[m] = b.arkiv[m]
      /\ \E f \in nye \cup {c.aktiv} :
           /\ \A m \in nye \cup {c.aktiv} : f <= m
           /\ b.aktiv # Ingen => b.aktiv = f
           /\ f = c.aktiv => /\ b.avvist <= c.avvist
                             /\ \A x \in Energifelt : Sumfelt(b, x) <= Sumfelt(c, x)
           /\ f # c.aktiv => /\ b.avvist <= c.arkiv[f].avvist
                             /\ \A x \in Energifelt : Sumfelt(b, x) <= c.arkiv[f].sum[x]

\* Hours that come later belong to months that are not earlier.
LEMMA ManedStiger ==
  ASSUME NEW g \in Timer, NEW h \in Timer, g <= h
  PROVE  ManedAv[g] <= ManedAv[h]
BY KalenderAssumption

\* The hours of a split that are not rejected, and the months the split passes:
\* those _fordel archives and the one it ends in.
Landet(b, f) == {h \in DOMAIN f : ~ (ManedAv[h] < b.aktiv)}

Passert(b, f, ny) ==
  LukkesVed(b.aktiv, {ManedAv[h] : h \in Landet(b, f)}, ny) \cup {ny}

\* A split in the months from the active one on: what _fordel archives on the
\* way and the month it ends in share the energy that lands in them.
Deling(b, f, ny, estimert) ==
  LET M == Passert(b, f, ny)
      land == Landet(b, f)
      D(m) == ForManed(b, m, f, estimert)
  IN  /\ M \subseteq Maneder /\ \A m \in M : m \in Nat /\ b.aktiv <= m
      /\ b.aktiv \in M /\ IsFiniteSet(M)
      /\ \A m \in M :
           /\ BokInv(D(m)) /\ HelBok(D(m))
           /\ D(m).avvist = IF m = b.aktiv THEN b.avvist ELSE 0
           /\ D(m).aktiv = m /\ D(m).arkiv = b.arkiv
           /\ m = b.aktiv => \A x \in Energifelt : Sumfelt(b, x) <= Sumfelt(D(m), x)
      /\ \A x \in Energifelt :
           SumFunctionOnSet([m \in M |-> Sumfelt(D(m), x)], M)
             = Sumfelt(b, x) + Fordelt(x, f, land)

\* The months between the active one and the one the split ends in, and that
\* one, share the hours that land.
LEMMA MaanedeneDeler ==
  ASSUME NEW b, BokInv(b), HelBok(b), b.aktiv \in Maneder, NEW ny \in Maneder, b.aktiv <= ny,
         NEW f, DOMAIN f \subseteq Timer, \A h \in DOMAIN f : f[h] \in Nat /\ ManedAv[h] <= ny,
         NEW estimert
  PROVE  Deling(b, f, ny, estimert)
<1> DEFINE M == Passert(b, f, ny)
           land == Landet(b, f)
           D(m) == ForManed(b, m, f, estimert)
           S(m) == Gruppe(land, ManedAv, m)
<1>1. b.aktiv \in Nat /\ ny \in Nat
  BY ManederNat
<1>2. \A h \in land : h \in Timer /\ ManedAv[h] \in Maneder /\ ManedAv[h] \in Nat
                      /\ b.aktiv <= ManedAv[h] /\ ManedAv[h] <= ny
  BY <1>1, ManedType DEF Landet
<1>3. /\ M \subseteq Maneder /\ \A m \in M : m \in Nat /\ b.aktiv <= m
      /\ b.aktiv \in M /\ \A h \in land : ManedAv[h] \in M
  <2>1. \A m \in M : m \in Maneder /\ m \in Nat /\ b.aktiv <= m
    BY <1>1, <1>2 DEF LukkesVed, Passert
  <2>2. b.aktiv \in M
    BY <1>1 DEF LukkesVed, Passert
  <2>3. \A h \in land : ManedAv[h] \in M
    BY <1>1, <1>2 DEF LukkesVed, Passert
  <2>. QED
    BY <2>1, <2>2, <2>3
<1>4. IsFiniteSet(M) /\ IsFiniteSet(land)
  <2>1. land \subseteq Timer
    BY <1>2
  <2>. QED
    BY <1>3, <2>1, TimerEndelig, FS_Subset
<1> HIDE DEF M
<1>5. ASSUME NEW m \in M
      PROVE  /\ BokInv(D(m)) /\ HelBok(D(m))
             /\ D(m).avvist = IF m = b.aktiv THEN b.avvist ELSE 0
             /\ D(m).aktiv = m /\ D(m).arkiv = b.arkiv
             /\ \A x \in Energifelt :
                  Sumfelt(D(m), x) = (IF m = b.aktiv THEN Sumfelt(b, x) ELSE 0)
                                     + Fordelt(x, f, S(m))
  <2>1. m \in Maneder /\ m \in Nat /\ b.aktiv <= m
    BY <1>3
  <2>2. {h \in DOMAIN f : ManedAv[h] = m} = S(m)
    BY <1>1, <2>1 DEF Gruppe, Landet
  <2>3. \A h \in DOMAIN f : f[h] \in Nat
    OBVIOUS
  <2> HIDE DEF S
  <2>4. /\ BokInv(D(m)) /\ D(m).aktiv = m /\ D(m).arkiv = b.arkiv
    BY <2>1, <2>3, ForManedInv
  <2>5. /\ HelBok(D(m))
        /\ D(m).avvist = IF m = b.aktiv THEN b.avvist ELSE 0
        /\ \A x \in Energifelt :
             Sumfelt(D(m), x) = (IF m = b.aktiv THEN Sumfelt(b, x) ELSE 0)
                                + Fordelt(x, f, {h \in DOMAIN f : ManedAv[h] = m})
    BY <2>1, <2>3, ForManedEnergi
  <2> HIDE DEF D
  <2>. QED
    BY <2>2, <2>4, <2>5
<1>6. \A x \in Energifelt : x \in Felt /\ Sumfelt(b, x) \in Nat
  BY MaanedssumFelt DEF Energifelt, Felt
<1>7. ASSUME NEW x \in Energifelt, NEW m \in M, m = b.aktiv
      PROVE  Sumfelt(b, x) <= Sumfelt(D(m), x)
  <2>1. Fordelt(x, f, S(m)) \in Nat
    <3>1. IsFiniteSet(S(m)) /\ \A h \in S(m) : f[h] \in Nat
      BY <1>4, FS_Subset DEF Gruppe, Landet
    <3> HIDE DEF S
    <3>. QED
      BY <3>1, FordeltType
  <2>2. Sumfelt(D(m), x) = Sumfelt(b, x) + Fordelt(x, f, S(m))
    BY <1>5, <1>7
  <2> HIDE DEF D, S
  <2>. QED
    BY <1>6, <2>1, <2>2
<1>8. ASSUME NEW x \in Energifelt
      PROVE  SumFunctionOnSet([m \in M |-> Sumfelt(D(m), x)], M)
               = Sumfelt(b, x) + Fordelt(x, f, land)
  <2> DEFINE g == [m \in M |-> Sumfelt(D(m), x)]
             w == [h \in land |-> IF TellesI(x, h) THEN f[h] ELSE 0]
  <2>1. \A h \in land : w[h] \in Int
    BY DEF Landet
  <2>2. ASSUME NEW m \in M
        PROVE  Fordelt(x, f, S(m)) = SumFunctionOnSet(w, S(m))
    <3> DEFINE u == [h \in S(m) |-> IF TellesI(x, h) THEN f[h] ELSE 0]
    <3>1. \A h \in S(m) : w[h] \in Int /\ u[h] = w[h]
      BY <2>1 DEF Gruppe
    <3>2. IsFiniteSet(S(m))
      BY <1>4, FS_Subset DEF Gruppe
    <3>3. Fordelt(x, f, S(m)) = SumFunctionOnSet(u, S(m))
      BY DEF Fordelt
    <3> HIDE DEF u, w, S
    <3>. QED
      BY <3>1, <3>2, <3>3, SumLik
  <2>3. \A m \in M : g[m] = (IF m = b.aktiv THEN Sumfelt(b, x) ELSE 0)
                            + SumFunctionOnSet(w, Gruppe(land, ManedAv, m))
    <3> HIDE DEF w, D
    <3>. QED
      BY <1>5, <2>2
  <2>4. Sumfelt(b, x) \in Int
    BY <1>6
  <2>5. Fordelt(x, f, land) = SumFunctionOnSet(w, land)
    BY DEF Fordelt
  <2> HIDE DEF g, w, D, S, land
  <2>6. SumFunctionOnSet(g, M) = Sumfelt(b, x) + SumFunctionOnSet(w, land)
    <3> DEFINE v == Sumfelt(b, x)
               e == b.aktiv
               k == ManedAv
    <3>1. /\ IsFiniteSet(M) /\ e \in M /\ v \in Int /\ IsFiniteSet(land)
          /\ \A h \in land : k[h] \in M
      BY <1>3, <1>4, <2>4
    <3>2. \A m \in M : g[m] = (IF m = e THEN v ELSE 0)
                              + SumFunctionOnSet(w, Gruppe(land, k, m))
      BY <2>3
    <3> HIDE DEF v, e, k
    <3>3. SumFunctionOnSet(g, M) = v + SumFunctionOnSet(w, land)
      BY <2>1, <3>1, <3>2, ManedeneSum
    <3>. QED
      BY <3>3 DEF v
  <2>. QED
    BY <2>5, <2>6 DEF g, land
<1> HIDE DEF D, land
<1>. QED
  BY <1>3, <1>4, <1>5, <1>7, <1>8 DEF D, M, land, Deling

\* What a split puts in the sums as a whole, and by day and night.
LEMMA FordeltDeler ==
  ASSUME NEW S, IsFiniteSet(S), NEW f, \A h \in S : f[h] \in Nat
  PROVE  /\ Fordelt("total", f, S) = SumFunctionOnSet(f, S)
         /\ Fordelt("dag", f, S) + Fordelt("natt", f, S) = SumFunctionOnSet(f, S)
         /\ SumFunctionOnSet(f, S) \in Nat
<1> DEFINE w(x) == [h \in S |-> IF TellesI(x, h) THEN f[h] ELSE 0]
<1>1. SumFunctionOnSet(w("total"), S) = SumFunctionOnSet(f, S)
  <2>1. \A h \in S : f[h] \in Int /\ w("total")[h] = f[h]
    BY DEF TellesI
  <2> HIDE DEF w
  <2>. QED
    BY <2>1, SumLik
<1>2. SumFunctionOnSet(f, S) = SumFunctionOnSet(w("dag"), S) + SumFunctionOnSet(w("natt"), S)
  <2>1. \A h \in S : /\ w("dag")[h] \in Int /\ w("natt")[h] \in Int
                     /\ f[h] = w("dag")[h] + w("natt")[h]
    BY DEF TellesI
  <2> HIDE DEF w
  <2>. QED
    BY <2>1, SumPluss
<1>3. SumFunctionOnSet(f, S) \in Nat
  BY SumNat
<1>. QED
  BY <1>1, <1>2, <1>3 DEF Fordelt

\* An archive that has grown: the sum over it is what it was and what is new.
LEMMA ArkivVokser ==
  ASSUME NEW A, IsFiniteSet(A), NEW N, IsFiniteSet(N), A \cap N = {},
         NEW g, NEW k, NEW n, \A m \in A : g[m] \in Int /\ k[m] = g[m],
         \A m \in N : n[m] \in Int /\ k[m] = n[m]
  PROVE  SumFunctionOnSet(k, A \cup N) = SumFunctionOnSet(g, A) + SumFunctionOnSet(n, N)
<1>1. \A m \in A \cup N : k[m] \in Int
  OBVIOUS
<1>2. SumFunctionOnSet(k, A \cup N) = SumFunctionOnSet(k, A) + SumFunctionOnSet(k, N)
  BY <1>1, SumUnion
<1>3. SumFunctionOnSet(k, A) = SumFunctionOnSet(g, A)
  BY SumLik
<1>4. SumFunctionOnSet(k, N) = SumFunctionOnSet(n, N)
  BY SumLik
<1>. QED
  BY <1>2, <1>3, <1>4

\* The hours of the window come in order, so the month it ends in is the last.
LEMMA VinduManed ==
  ASSUME NEW fra \in Tikk, NEW til \in Tikk, fra < til, NEW delta
  PROVE  LET f == FordelDelta(fra, til, delta)
             ny == ManedAv[Time(til - 1)]
         IN  /\ DOMAIN f \subseteq Timer /\ ny \in Maneder /\ ny \in Nat /\ ny # Ingen
             /\ ManedAv[Time(fra)] \in Nat /\ ManedAv[Time(fra)] <= ny
             /\ \A h \in DOMAIN f : ManedAv[h] <= ny
<1> DEFINE f == FordelDelta(fra, til, delta)
           lo == Time(fra)
           hi == Time(til - 1)
<1>1. DOMAIN f = lo .. hi /\ DOMAIN f \subseteq Timer /\ lo \in Timer /\ hi \in Timer
  BY VinduType
<1>2. lo <= hi
  <2>1. TikkPerTime \in Nat \ {0}
    BY TidAssumption DEF TikkPerTime
  <2>2. fra \in Nat /\ til - 1 \in Nat /\ fra <= til - 1
    BY TikkHel
  <2>. QED
    BY <2>1, <2>2 DEF Time
<1>3. \A h \in DOMAIN f : h \in Timer /\ h <= hi
  BY <1>1
<1> HIDE DEF f, lo, hi
<1>4. \A h \in DOMAIN f : ManedAv[h] <= ManedAv[hi]
  BY <1>1, <1>3, ManedStiger
<1>5. ManedAv[lo] <= ManedAv[hi]
  BY <1>1, <1>2, ManedStiger
<1>6. /\ ManedAv[hi] \in Maneder /\ ManedAv[hi] \in Nat /\ ManedAv[hi] # Ingen
      /\ ManedAv[lo] \in Nat
  BY <1>1, ManedType
<1>. QED
  BY <1>1, <1>4, <1>5, <1>6 DEF f, lo, hi

\* The book c that _fordel leaves of b, opened as b0, after the split f that ends
\* in month ny: the last month's posts and sums, the archive with the months
\* that were passed, and the rejected energy.
EtterFordeling(b, c, b0, f, est, ny) ==
  LET land == Landet(b0, f)
      lukkes == LukkesVed(b0.aktiv, {ManedAv[h] : h \in land}, ny)
      siste == IF ny < b0.aktiv THEN b0 ELSE ForManed(b0, ny, f, est)
  IN  /\ c.poster = siste.poster /\ c.bidrag = siste.bidrag /\ c.sum = siste.sum
      /\ c.ruter = siste.ruter /\ c.ferdige = siste.ferdige /\ c.aktiv = siste.aktiv
      /\ c.avvist = siste.avvist + SumFunctionOnSet(f, DOMAIN f \ land)
      /\ DOMAIN c.arkiv = DOMAIN b.arkiv \cup lukkes
      /\ \A m \in lukkes : c.arkiv[m] = Maanedssum(ForManed(b0, m, f, est))
      /\ \A m \in DOMAIN b.arkiv \ lukkes : c.arkiv[m] = b.arkiv[m]

\* _fordel, seen from outside: the book it leaves, month by month.
LEMMA FordelForm ==
  ASSUME NEW b, BokInv(b), b.sist # Ingen,
         NEW a, a.tid \in Tikk, b.sist.tid < a.tid, NEW delta
  PROVE  EtterFordeling(b, Fordel(b, a, delta).bok, Apnet(b),
                        FordelDelta(b.sist.tid, a.tid, delta), a.kilde \in Estimerte,
                        ManedAv[Time(a.tid - 1)])
<1> DEFINE b0 == Apnet(b)
           f == FordelDelta(b.sist.tid, a.tid, delta)
           est == a.kilde \in Estimerte
           ny == ManedAv[Time(a.tid - 1)]
           bak == {h \in DOMAIN f : ManedAv[h] < b0.aktiv}
           landet == Restrict(f, DOMAIN f \ bak)
           avvist == MapThenSumSet(LAMBDA h : f[h], bak)
           lukkes == LukkesVed(b0.aktiv, {ManedAv[h] : h \in DOMAIN landet}, ny)
           siste == IF ny < b0.aktiv THEN b0 ELSE ForManed(b0, ny, f, est)
           arkiv == [m \in DOMAIN b.arkiv \cup lukkes |->
                       IF m \in lukkes THEN Maanedssum(ForManed(b0, m, f, est))
                       ELSE b.arkiv[m]]
           c == [siste EXCEPT !.arkiv = arkiv, !.sist = a, !.avvist = @ + avvist]
<1>1. Fordel(b, a, delta).bok = c
  BY DEF Fordel, Svar, Apnet
<1>2. avvist = SumFunctionOnSet(f, bak)
  BY MapTilSum
<1>3. DOMAIN landet = Landet(b0, f) /\ bak = DOMAIN f \ Landet(b0, f)
  BY DEF Landet, Restrict
<1>4. DOMAIN siste = DOMAIN TomBok(FALSE)
  <2>1. b.sist.tid \in Tikk
    BY DEF BokInv, StrukturOK
  <2>2. /\ DOMAIN f \subseteq Timer /\ ny \in Maneder /\ ny \in Nat
    BY <2>1, VinduManed
  <2>3. BokInv(b0) /\ b0.aktiv \in Maneder /\ b0.aktiv \in Nat
    BY ApnetInv
  <2> HIDE DEF b0, f, ny, est
  <2>4. BokInv(siste)
    <3>1. CASE ny < b0.aktiv
      BY <2>3, <3>1
    <3>2. CASE ~ (ny < b0.aktiv)
      <4>1. b0.aktiv <= ny
        BY <2>2, <2>3, <3>2
      <4>. QED
        BY <2>2, <2>3, <3>2, <4>1, ForManedInv
    <3>. QED
      BY <3>1, <3>2
  <2>. QED
    BY <2>4 DEF BokInv, StrukturOK
<1> HIDE DEF siste, lukkes, avvist, f, b0, ny, est
<1>5. /\ c.poster = siste.poster /\ c.bidrag = siste.bidrag /\ c.sum = siste.sum
      /\ c.ruter = siste.ruter /\ c.ferdige = siste.ferdige
      /\ c.aktiv = siste.aktiv /\ c.avvist = siste.avvist + avvist /\ c.arkiv = arkiv
  BY <1>4 DEF TomBok
<1>6. /\ DOMAIN arkiv = DOMAIN b.arkiv \cup lukkes
      /\ \A m \in lukkes : arkiv[m] = Maanedssum(ForManed(b0, m, f, est))
      /\ \A m \in DOMAIN b.arkiv \ lukkes : arkiv[m] = b.arkiv[m]
  OBVIOUS
<1>7. lukkes = LukkesVed(b0.aktiv, {ManedAv[h] : h \in Landet(b0, f)}, ny)
  BY <1>3 DEF lukkes
<1> HIDE DEF c, arkiv, landet, bak
<1>. QED
  BY <1>1, <1>2, <1>3, <1>5, <1>6, <1>7 DEF siste, f, b0, ny, est, EtterFordeling

\* What a split does to the energy of a book: what lands is in the sums of the
\* months it lands in, the rest is among the rejected kWh, and nothing else has
\* come or gone.
Fort(b, c, f, land) ==
  /\ HelBok(c)
  /\ IManeden(b, c) \/ OverManedsskifte(b, c)
  /\ \A x \in Energifelt : Feltsaldo(c, x) = Feltsaldo(b, x) + Fordelt(x, f, land)
  /\ Avvistsaldo(c) = Avvistsaldo(b) + SumFunctionOnSet(f, DOMAIN f \ land)

\* A window that lies before the active month is rejected whole.
LEMMA FordelBak ==
  ASSUME NEW b, BokInv(b), HelBok(b), b.aktiv # Ingen, b.aktiv \in Maneder,
         NEW ny \in Maneder, ny < b.aktiv,
         NEW f, DOMAIN f \subseteq Timer, \A h \in DOMAIN f : f[h] \in Nat /\ ManedAv[h] <= ny,
         NEW est, NEW c, EtterFordeling(b, c, b, f, est, ny)
  PROVE  Fort(b, c, f, Landet(b, f))
<1> DEFINE land == Landet(b, f)
           lukkes == LukkesVed(b.aktiv, {ManedAv[h] : h \in land}, ny)
           bort == SumFunctionOnSet(f, DOMAIN f \ land)
<1>1. ny \in Nat /\ b.aktiv \in Nat
  BY ManederNat
<1>2. land = {}
  <2>1. \A h \in DOMAIN f : ManedAv[h] \in Nat
    BY ManedType
  <2>. QED
    BY <1>1, <2>1 DEF Landet
<1>3. lukkes = {}
  BY <1>1, <1>2 DEF LukkesVed
<1>4. /\ c.poster = b.poster /\ c.bidrag = b.bidrag /\ c.sum = b.sum /\ c.aktiv = b.aktiv
      /\ c.avvist = b.avvist + bort
      /\ DOMAIN c.arkiv = DOMAIN b.arkiv
      /\ \A m \in DOMAIN b.arkiv : c.arkiv[m] = b.arkiv[m]
  <2> HIDE DEF land
  <2>. QED
    BY <1>3 DEF EtterFordeling, land
<1>5. bort \in Nat
  <2>1. IsFiniteSet(DOMAIN f \ land) /\ \A h \in DOMAIN f \ land : f[h] \in Nat
    BY TimerEndelig, FS_Subset
  <2> HIDE DEF land
  <2>. QED
    BY <2>1, SumNat
<1> HIDE DEF land, lukkes, bort
<1>6. /\ \A x \in Energifelt : Sumfelt(c, x) = Sumfelt(b, x)
      /\ \A x \in Felt : Rest(c, x) = Rest(b, x)
  BY <1>4, SammeSum
<1>7. \A x \in Energifelt : x \in Felt /\ Sumfelt(b, x) \in Nat
  BY MaanedssumFelt DEF Energifelt, Felt
<1>8. b.avvist \in Nat
  BY DEF HelBok
<1>9. HelBok(c)
  BY <1>4, <1>5, <1>6, <1>8 DEF HelBok
<1>10. IManeden(b, c)
  BY <1>4, <1>5, <1>6, <1>7, <1>8 DEF IManeden
<1>11. ASSUME NEW x \in Energifelt
       PROVE  Feltsaldo(c, x) = Feltsaldo(b, x) + Fordelt(x, f, land)
  <2>1. [m \in DOMAIN c.arkiv |-> c.arkiv[m].sum[x]] = [m \in DOMAIN b.arkiv |-> b.arkiv[m].sum[x]]
    BY <1>4
  <2>2. Feltsaldo(c, x) = Feltsaldo(b, x)
    BY <1>4, <1>6, <2>1 DEF Feltsaldo
  <2>3. Feltsaldo(b, x) \in Nat
    BY <1>7, SaldoType
  <2>4. Fordelt(x, f, land) = 0
    BY <1>2, SumTom DEF Fordelt
  <2>. QED
    BY <2>2, <2>3, <2>4
<1>12. Avvistsaldo(c) = Avvistsaldo(b) + bort
  <2> DEFINE s == SumFunctionOnSet([m \in DOMAIN b.arkiv |-> b.arkiv[m].avvist], DOMAIN b.arkiv)
  <2>1. [m \in DOMAIN c.arkiv |-> c.arkiv[m].avvist] = [m \in DOMAIN b.arkiv |-> b.arkiv[m].avvist]
    BY <1>4
  <2>2. Avvistsaldo(c) = c.avvist + s /\ Avvistsaldo(b) = b.avvist + s
    BY <1>4, <2>1 DEF Avvistsaldo
  <2>3. Avvistsaldo(b) \in Nat
    BY SaldoType
  <2>4. s \in Int
    <3> DEFINE g == [m \in DOMAIN b.arkiv |-> b.arkiv[m].avvist]
    <3>1. IsFiniteSet(DOMAIN b.arkiv) /\ \A m \in DOMAIN b.arkiv : g[m] \in Int
      BY ArkivEndelig DEF HelBok
    <3> HIDE DEF g
    <3>2. SumFunctionOnSet(g, DOMAIN b.arkiv) \in Int
      BY <3>1, SumType
    <3>. QED
      BY <3>2 DEF g
  <2> HIDE DEF s
  <2>. QED
    BY <1>4, <1>5, <1>8, <2>2, <2>4
<1>. QED
  BY <1>9, <1>10, <1>11, <1>12 DEF Fort, bort, land

\* Over the archive k of A and N and over the last month ny, a quantity amounts
\* to what it was over the archive g of A and what it is over the months N and ny.
ArkivMedSiste(g, n, k, A, N, ny) ==
  /\ n[ny] + SumFunctionOnSet(k, A \cup N)
       = SumFunctionOnSet(g, A) + SumFunctionOnSet(n, N \cup {ny})
  /\ SumFunctionOnSet(g, A) \in Int /\ SumFunctionOnSet(k, A \cup N) \in Int
  /\ SumFunctionOnSet(n, N \cup {ny}) \in Int

\* The archive and the last month share M, the months a split passes: what a
\* quantity g of the months amounts to over the archive and the last month.
LEMMA ArkivOgSiste ==
  ASSUME NEW A, IsFiniteSet(A), NEW N, IsFiniteSet(N), NEW ny, ny \notin N, A \cap N = {},
         NEW g, \A m \in A : g[m] \in Int,
         NEW n, \A m \in N \cup {ny} : n[m] \in Int,
         NEW k, \A m \in A : k[m] = g[m], \A m \in N : k[m] = n[m]
  PROVE  ArkivMedSiste(g, n, k, A, N, ny)
<1>1. SumFunctionOnSet(n, N \cup {ny}) = n[ny] + SumFunctionOnSet(n, N)
  BY SumMed
<1>2. SumFunctionOnSet(k, A \cup N) = SumFunctionOnSet(g, A) + SumFunctionOnSet(n, N)
  BY ArkivVokser
<1>3. SumFunctionOnSet(g, A) \in Int /\ SumFunctionOnSet(n, N) \in Int /\ n[ny] \in Int
  BY SumType
<1>. QED
  BY <1>1, <1>2, <1>3 DEF ArkivMedSiste

\* b0 is b, or the book b just opened in its first month.
Apnes(b, b0) ==
  /\ BokInv(b0) /\ HelBok(b0) /\ b0.aktiv \in Maneder
  /\ b0.arkiv = b.arkiv /\ b0.avvist = b.avvist
  /\ \A x \in Energifelt : Sumfelt(b0, x) = Sumfelt(b, x)
  /\ b.aktiv # Ingen => b0 = b

\* A window that reaches the active month or goes beyond it.
LEMMA FordelLandet ==
  ASSUME NEW b, BokInv(b), HelBok(b), NEW b0, Apnes(b, b0),
         NEW ny \in Maneder, b0.aktiv <= ny,
         NEW f, DOMAIN f \subseteq Timer, \A h \in DOMAIN f : f[h] \in Nat /\ ManedAv[h] <= ny,
         NEW est, NEW c, EtterFordeling(b, c, b0, f, est, ny)
  PROVE  Fort(b, c, f, Landet(b0, f))
<1> DEFINE land == Landet(b0, f)
           lukkes == LukkesVed(b0.aktiv, {ManedAv[h] : h \in land}, ny)
           bort == SumFunctionOnSet(f, DOMAIN f \ land)
           M == Passert(b0, f, ny)
           A == DOMAIN b.arkiv
           D(m) == ForManed(b0, m, f, est)
<1>1. ny \in Nat /\ b0.aktiv \in Nat /\ ny # Ingen /\ BokInv(b0) /\ HelBok(b0)
  BY ManederNat DEF Apnes
<1>2. M = lukkes \cup {ny} /\ ny \notin lukkes /\ \A m \in lukkes : m < ny
  <2>1. M = lukkes \cup {ny}
    BY DEF Passert
  <2>2. \A m \in lukkes : m < ny
    BY DEF LukkesVed
  <2> HIDE DEF lukkes, M
  <2>. QED
    BY <1>1, <2>1, <2>2
<1>3. /\ M \subseteq Maneder /\ \A m \in M : m \in Nat /\ b0.aktiv <= m
      /\ b0.aktiv \in M /\ IsFiniteSet(M)
      /\ \A m \in M :
           /\ BokInv(D(m)) /\ HelBok(D(m))
           /\ D(m).avvist = IF m = b0.aktiv THEN b0.avvist ELSE 0
           /\ D(m).aktiv = m /\ D(m).arkiv = b0.arkiv
           /\ m = b0.aktiv => \A x \in Energifelt : Sumfelt(b0, x) <= Sumfelt(D(m), x)
      /\ \A x \in Energifelt :
           SumFunctionOnSet([m \in M |-> Sumfelt(D(m), x)], M)
             = Sumfelt(b0, x) + Fordelt(x, f, land)
  <2>1. b0.aktiv \in Maneder
    BY DEF Apnes
  <2>2. Deling(b0, f, ny, est)
    BY <1>1, <2>1, MaanedeneDeler
  <2>. QED
    BY <2>2 DEF Deling
<1>4. /\ c.poster = D(ny).poster /\ c.bidrag = D(ny).bidrag /\ c.sum = D(ny).sum
      /\ c.aktiv = ny /\ c.avvist = D(ny).avvist + bort
      /\ DOMAIN c.arkiv = A \cup lukkes
      /\ \A m \in lukkes : c.arkiv[m] = Maanedssum(D(m))
      /\ \A m \in A \ lukkes : c.arkiv[m] = b.arkiv[m]
  <2>1. ~ (ny < b0.aktiv) /\ D(ny).aktiv = ny
    BY <1>1, <1>2, <1>3
  <2> HIDE DEF lukkes, land, M
  <2>. QED
    BY <2>1 DEF EtterFordeling, land, lukkes
<1>5. /\ IsFiniteSet(A) /\ IsFiniteSet(lukkes) /\ A \cap lukkes = {}
      /\ \A m \in A : c.arkiv[m] = b.arkiv[m] /\ m \in Nat /\ m < b0.aktiv
  <2>1. \A m \in A : m \in Maneder /\ m < b0.aktiv
    BY DEF BokInv, StrukturOK, Apnes
  <2>2. \A m \in A : m \in Nat /\ m < b0.aktiv
    BY <2>1, ManederNat
  <2>3. A \cap lukkes = {}
    <3>1. \A m \in lukkes : m \in Nat /\ b0.aktiv <= m
      BY <1>2, <1>3
    <3> HIDE DEF lukkes, A
    <3>. QED
      BY <1>1, <2>2, <3>1
  <2>4. IsFiniteSet(lukkes)
    <3> HIDE DEF lukkes, M
    <3>. QED
      BY <1>2, <1>3, FS_Subset
  <2>. QED
    BY <1>4, <2>2, <2>3, <2>4, ArkivEndelig
<1>6. bort \in Nat
  <2>1. IsFiniteSet(DOMAIN f \ land) /\ \A h \in DOMAIN f \ land : f[h] \in Nat
    BY TimerEndelig, FS_Subset
  <2> HIDE DEF land
  <2>. QED
    BY <2>1, SumNat
<1>7. /\ \A x \in Energifelt : x \in Felt /\ Sumfelt(b, x) \in Nat /\ Sumfelt(b0, x) = Sumfelt(b, x)
      /\ b0.avvist = b.avvist /\ b.avvist \in Nat
  BY MaanedssumFelt DEF Energifelt, Felt, Apnes, HelBok
<1> HIDE DEF land, lukkes, bort, M, D, A
<1>8. /\ \A x \in Energifelt : Sumfelt(c, x) = Sumfelt(D(ny), x)
      /\ \A x \in Felt : Rest(c, x) = Rest(D(ny), x)
  BY <1>4, SammeSum
<1>9. \A m \in M : D(m).avvist \in Nat /\ \A x \in Felt : Sumfelt(D(m), x) \in Nat
  BY <1>3, MaanedssumFelt DEF HelBok
<1>10. \A m \in lukkes : /\ c.arkiv[m].avvist = D(m).avvist
                         /\ \A x \in Felt : c.arkiv[m].sum[x] = Sumfelt(D(m), x)
  <2>1. ASSUME NEW m \in lukkes
        PROVE  /\ c.arkiv[m].avvist = D(m).avvist
               /\ \A x \in Felt : c.arkiv[m].sum[x] = Sumfelt(D(m), x)
    <3>1. BokInv(D(m)) /\ HelBok(D(m)) /\ c.arkiv[m] = Maanedssum(D(m))
      BY <1>2, <1>3, <1>4
    <3>2. c.arkiv[m].avvist = D(m).avvist
      BY <3>1 DEF Maanedssum
    <3>. QED
      BY <3>1, <3>2, MaanedssumFelt
  <2>. QED
    BY <2>1
<1>11. HelBok(c)
  <2>1. HelBok(D(ny)) /\ D(ny).avvist \in Nat
    BY <1>2, <1>3, <1>9
  <2>2. \A m \in DOMAIN c.arkiv :
          c.arkiv[m].avvist \in Nat /\ \A x \in Felt : c.arkiv[m].sum[x] \in Nat
    <3>1. \A m \in A : c.arkiv[m].avvist \in Nat /\ \A x \in Felt : c.arkiv[m].sum[x] \in Nat
      BY <1>5 DEF HelBok, A
    <3>2. \A m \in lukkes : c.arkiv[m].avvist \in Nat /\ \A x \in Felt : c.arkiv[m].sum[x] \in Nat
      BY <1>2, <1>9, <1>10
    <3>. QED
      BY <1>4, <3>1, <3>2
  <2>3. c.avvist \in Nat
    BY <1>4, <1>6, <2>1
  <2>. QED
    BY <1>4, <1>8, <2>1, <2>2, <2>3 DEF HelBok
<1>12. ASSUME NEW x \in Energifelt
       PROVE  Feltsaldo(c, x) = Feltsaldo(b, x) + Fordelt(x, f, land)
  <2> DEFINE g == [m \in A |-> b.arkiv[m].sum[x]]
             n == [m \in M |-> Sumfelt(D(m), x)]
             k == [m \in A \cup lukkes |-> c.arkiv[m].sum[x]]
  <2>1. x \in Felt
    BY <1>7
  <2>2. \A m \in A : g[m] \in Int /\ k[m] = g[m]
    BY <1>5, <2>1 DEF HelBok, A
  <2>3. \A m \in lukkes \cup {ny} : n[m] \in Int
    BY <1>2, <1>9, <2>1
  <2>4. \A m \in lukkes : k[m] = n[m]
    BY <1>2, <1>10, <2>1
  <2>5. SumFunctionOnSet(n, M) = Sumfelt(b, x) + Fordelt(x, f, land)
    BY <1>3, <1>7
  <2>6. Feltsaldo(c, x) = Sumfelt(D(ny), x) + SumFunctionOnSet(k, A \cup lukkes)
    BY <1>4, <1>8 DEF Feltsaldo
  <2>7. Feltsaldo(b, x) = Sumfelt(b, x) + SumFunctionOnSet(g, A)
    BY DEF Feltsaldo, A
  <2>8. n[ny] = Sumfelt(D(ny), x)
    BY <1>2
  <2>9. Sumfelt(b, x) \in Int /\ Fordelt(x, f, land) \in Int
    <3>1. IsFiniteSet(land) /\ \A h \in land : f[h] \in Nat
      BY TimerEndelig, FS_Subset DEF land, Landet
    <3>. QED
      BY <1>7, <3>1, FordeltType
  <2> HIDE DEF g, n, k
  <2>10. ArkivMedSiste(g, n, k, A, lukkes, ny)
    <3>1. IsFiniteSet(A) /\ IsFiniteSet(lukkes) /\ ny \notin lukkes /\ A \cap lukkes = {}
      BY <1>2, <1>5
    <3>2. \A m \in A : g[m] \in Int
      BY <2>2
    <3>3. \A m \in A : k[m] = g[m]
      BY <2>2
    <3>4. ny \notin lukkes
      BY <1>2
    <3>. QED
      BY <2>3, <2>4, <3>1, <3>2, <3>3, <3>4, ArkivOgSiste
  <2>11. n[ny] + SumFunctionOnSet(k, A \cup lukkes) = SumFunctionOnSet(g, A) + SumFunctionOnSet(n, M)
    BY <1>2, <2>10 DEF ArkivMedSiste
  <2>. QED
    BY <2>5, <2>6, <2>7, <2>8, <2>9, <2>10, <2>11 DEF ArkivMedSiste
<1>13. Avvistsaldo(c) = Avvistsaldo(b) + bort
  <2> DEFINE g == [m \in A |-> b.arkiv[m].avvist]
             n == [m \in M |-> D(m).avvist]
             k == [m \in A \cup lukkes |-> c.arkiv[m].avvist]
  <2>1. \A m \in A : g[m] \in Int /\ k[m] = g[m]
    BY <1>5 DEF HelBok, A
  <2>2. \A m \in lukkes \cup {ny} : n[m] \in Int
    BY <1>2, <1>9
  <2>3. \A m \in lukkes : k[m] = n[m]
    BY <1>2, <1>10
  <2>4. SumFunctionOnSet(n, M) = b.avvist
    <3>1. n[b0.aktiv] = b.avvist /\ \A m \in M \ {b0.aktiv} : n[m] = 0
      BY <1>3, <1>7
    <3> HIDE DEF n
    <3>. QED
      BY <1>3, <1>7, <3>1, SumEnkelt
  <2>5. /\ Avvistsaldo(c) = c.avvist + SumFunctionOnSet(k, A \cup lukkes)
        /\ Avvistsaldo(b) = b.avvist + SumFunctionOnSet(g, A)
    BY <1>4 DEF Avvistsaldo, A
  <2>6. n[ny] = D(ny).avvist /\ n[ny] \in Int
    BY <1>2, <2>2
  <2> HIDE DEF g, n, k
  <2>7. ArkivMedSiste(g, n, k, A, lukkes, ny)
    <3>1. /\ ny \notin lukkes /\ IsFiniteSet(A) /\ IsFiniteSet(lukkes) /\ A \cap lukkes = {}
      BY <1>2, <1>5
    <3>2. \A m \in A : g[m] \in Int
      BY <2>1
    <3>3. \A m \in A : k[m] = g[m]
      BY <2>1
    <3>4. ny \notin lukkes
      BY <1>2
    <3>. QED
      BY <3>1, <3>2, <3>3, <3>4, <2>2, <2>3, ArkivOgSiste
  <2>8. n[ny] + SumFunctionOnSet(k, A \cup lukkes) = SumFunctionOnSet(g, A) + SumFunctionOnSet(n, M)
    BY <1>2, <2>7 DEF ArkivMedSiste
  <2>. QED
    BY <1>4, <1>6, <1>7, <2>4, <2>5, <2>6, <2>7, <2>8 DEF ArkivMedSiste
<1>14. CASE lukkes = {} /\ b.aktiv # Ingen
  <2>1. b0 = b /\ ny = b.aktiv
    BY <1>2, <1>3, <1>14 DEF Apnes
  <2>2. ny \in M
    BY <1>2
  <2>3. D(ny).avvist = b.avvist /\ \A x \in Energifelt : Sumfelt(b, x) <= Sumfelt(c, x)
    BY <1>3, <1>8, <2>1, <2>2
  <2>4. IManeden(b, c)
    <3>1. DOMAIN c.arkiv = DOMAIN b.arkiv
      BY <1>4, <1>14 DEF A
    <3>2. b.avvist <= c.avvist
      BY <1>4, <1>6, <1>7, <2>3
    <3>. QED
      BY <1>4, <1>5, <2>1, <2>3, <3>1, <3>2 DEF IManeden, A
  <2>. QED
    BY <1>11, <1>12, <1>13, <2>4 DEF Fort, land, bort
<1>15. CASE ~ (lukkes = {} /\ b.aktiv # Ingen)
  <2> DEFINE e == b0.aktiv
  <2>1. DOMAIN c.arkiv \ DOMAIN b.arkiv = lukkes
    BY <1>4, <1>5 DEF A
  <2>2. c.aktiv \in Maneder /\ c.aktiv # b.aktiv
    <3>1. CASE b.aktiv = Ingen
      BY <1>1, <1>4, <3>1
    <3>2. CASE b.aktiv # Ingen
      <4>1. PICK m \in lukkes : TRUE
        BY <1>15, <3>2
      <4>2. m < ny /\ b0.aktiv <= m /\ m \in Nat
        BY <1>2, <1>3
      <4>. QED
        BY <1>1, <1>4, <3>2, <4>2 DEF Apnes
    <3>. QED
      BY <3>1, <3>2
  <2>3. /\ e \in lukkes \cup {c.aktiv} /\ \A m \in lukkes \cup {c.aktiv} : e <= m
        /\ b.aktiv # Ingen => b.aktiv = e
    BY <1>2, <1>3, <1>4 DEF Apnes
  <2>4. e = c.aktiv => /\ b.avvist <= c.avvist
                       /\ \A x \in Energifelt : Sumfelt(b, x) <= Sumfelt(c, x)
    BY <1>3, <1>4, <1>6, <1>7, <1>8
  <2>5. e # c.aktiv => /\ b.avvist <= c.arkiv[e].avvist
                       /\ \A x \in Energifelt : Sumfelt(b, x) <= c.arkiv[e].sum[x]
    BY <1>3, <1>4, <1>7, <1>10, <2>3
  <2>6. \A m \in DOMAIN b.arkiv : m \in DOMAIN c.arkiv /\ c.arkiv[m] = b.arkiv[m]
    BY <1>4, <1>5 DEF A
  <2> HIDE DEF e
  <2>7. OverManedsskifte(b, c)
    BY <2>1, <2>2, <2>3, <2>4, <2>5, <2>6 DEF OverManedsskifte
  <2>. QED
    BY <1>11, <1>12, <1>13, <2>7 DEF Fort, land, bort
<1>. QED
  BY <1>14, <1>15

\* From b to c the book has received d: all of it is there as a sum or among
\* the rejected kWh, by month and by day and night, and only where energy may
\* still arrive.
Bevart(b, c, d) ==
  /\ HelBok(c)
  /\ IManeden(b, c) \/ OverManedsskifte(b, c)
  /\ Feltsaldo(c, "total") + Avvistsaldo(c) = Feltsaldo(b, "total") + Avvistsaldo(b) + d
  /\ Feltsaldo(c, "dag") + Feltsaldo(c, "natt") + Avvistsaldo(c)
       = Feltsaldo(b, "dag") + Feltsaldo(b, "natt") + Avvistsaldo(b) + d

\* Every share of the delta over the window is a whole number of units.
DeltHelt(fra, til, delta) ==
  \A h \in Time(fra) .. Time(til - 1) : (delta * Overlapp(h, fra, til)) % (til - fra) = 0

\* _fordel loses no energy and makes none.
LEMMA FordelEnergi ==
  ASSUME NEW b, BokInv(b), HelBok(b), b.sist # Ingen,
         NEW a, a.tid \in Tikk, b.sist.tid < a.tid, NEW delta \in Nat,
         DeltHelt(b.sist.tid, a.tid, delta)
  PROVE  Bevart(b, Fordel(b, a, delta).bok, delta)
<1> DEFINE b0 == Apnet(b)
           f == FordelDelta(b.sist.tid, a.tid, delta)
           est == a.kilde \in Estimerte
           ny == ManedAv[Time(a.tid - 1)]
           c == Fordel(b, a, delta).bok
           land == Landet(b0, f)
<1>1. b.sist.tid \in Tikk
  BY DEF BokInv, StrukturOK
<1>2. /\ DOMAIN f \subseteq Timer /\ ny \in Maneder /\ ny \in Nat
      /\ ManedAv[Time(b.sist.tid)] \in Nat /\ ManedAv[Time(b.sist.tid)] <= ny
      /\ \A h \in DOMAIN f : ManedAv[h] <= ny
  BY <1>1, VinduManed
<1>3. (\A h \in DOMAIN f : f[h] \in Nat) /\ SumFunctionOnSet(f, DOMAIN f) = delta
  BY <1>1, FordelDeltaSum DEF DeltHelt
<1>4. EtterFordeling(b, c, b0, f, est, ny)
  BY FordelForm
<1>5. /\ BokInv(b0) /\ HelBok(b0) /\ b0.aktiv \in Maneder /\ b0.aktiv \in Nat
      /\ b0.arkiv = b.arkiv /\ b0.avvist = b.avvist
      /\ \A x \in Energifelt : Sumfelt(b0, x) = Sumfelt(b, x)
      /\ b.aktiv # Ingen => b0 = b
      /\ b.aktiv = Ingen => b0.aktiv = ManedAv[Time(b.sist.tid)]
  BY ApnetInv
<1> HIDE DEF b0, f, est, ny, c
<1>6. Fort(b, c, f, land)
  <2>1. CASE ny < b0.aktiv
    <3>1. b.aktiv # Ingen /\ b0 = b
      BY <1>2, <1>5, <2>1
    <3>2. EtterFordeling(b, c, b, f, est, ny) /\ ny < b.aktiv /\ b.aktiv \in Maneder
      BY <1>4, <1>5, <2>1, <3>1
    <3>3. \A h \in DOMAIN f : f[h] \in Nat /\ ManedAv[h] <= ny
      BY <1>2, <1>3
    <3>4. Fort(b, c, f, Landet(b, f))
      BY <1>2, <3>1, <3>2, <3>3, FordelBak
    <3>. QED
      BY <3>1, <3>4
  <2>2. CASE ~ (ny < b0.aktiv)
    <3>1. Apnes(b, b0) /\ b0.aktiv <= ny
      BY <1>2, <1>5, <2>2 DEF Apnes
    <3>2. \A h \in DOMAIN f : f[h] \in Nat /\ ManedAv[h] <= ny
      BY <1>2, <1>3
    <3>. QED
      BY <1>2, <1>4, <3>1, <3>2, FordelLandet
  <2>. QED
    BY <2>1, <2>2
<1>7. /\ Fordelt("total", f, land) + SumFunctionOnSet(f, DOMAIN f \ land) = delta
      /\ Fordelt("dag", f, land) + Fordelt("natt", f, land)
           + SumFunctionOnSet(f, DOMAIN f \ land) = delta
  <2>1. IsFiniteSet(DOMAIN f) /\ land \in SUBSET DOMAIN f /\ IsFiniteSet(land)
    BY <1>2, TimerEndelig, FS_Subset DEF Landet
  <2>2. \A h \in land : f[h] \in Nat
    BY <1>3, <2>1
  <2> HIDE DEF land
  <2>3. /\ SumFunctionOnSet(f, DOMAIN f \ land)
             = SumFunctionOnSet(f, DOMAIN f) - SumFunctionOnSet(f, land)
        /\ SumFunctionOnSet(f, land) \in Int
    <3>1. \A h \in DOMAIN f : f[h] \in Int
      BY <1>3
    <3>. QED
      BY <2>1, <3>1, SumDifferens
  <2>4. /\ Fordelt("total", f, land) = SumFunctionOnSet(f, land)
        /\ Fordelt("dag", f, land) + Fordelt("natt", f, land) = SumFunctionOnSet(f, land)
    BY <2>1, <2>2, FordeltDeler
  <2>. QED
    BY <1>3, <2>3, <2>4
<1>8. /\ Feltsaldo(b, "total") \in Int /\ Feltsaldo(b, "dag") \in Int
      /\ Feltsaldo(b, "natt") \in Int /\ Avvistsaldo(b) \in Int
      /\ Fordelt("total", f, land) \in Int /\ Fordelt("dag", f, land) \in Int
      /\ Fordelt("natt", f, land) \in Int /\ SumFunctionOnSet(f, DOMAIN f \ land) \in Int
  <2>1. /\ Feltsaldo(b, "total") \in Int /\ Feltsaldo(b, "dag") \in Int
        /\ Feltsaldo(b, "natt") \in Int /\ Avvistsaldo(b) \in Int
    BY SaldoType DEF Felt
  <2>2. IsFiniteSet(land) /\ (\A h \in land : f[h] \in Nat)
    BY <1>2, <1>3, TimerEndelig, FS_Subset DEF Landet
  <2>3. \A x : Fordelt(x, f, land) \in Nat
    BY <2>2, FordeltType
  <2>4. SumFunctionOnSet(f, DOMAIN f \ land) \in Nat
    <3>1. IsFiniteSet(DOMAIN f \ land) /\ \A h \in DOMAIN f \ land : f[h] \in Nat
      BY <1>2, <1>3, TimerEndelig, FS_Subset
    <3>. QED
      BY <3>1, SumNat
  <2>. QED
    BY <2>1, <2>3, <2>4
<1>9. /\ Feltsaldo(c, "total") = Feltsaldo(b, "total") + Fordelt("total", f, land)
      /\ Feltsaldo(c, "dag") = Feltsaldo(b, "dag") + Fordelt("dag", f, land)
      /\ Feltsaldo(c, "natt") = Feltsaldo(b, "natt") + Fordelt("natt", f, land)
      /\ Avvistsaldo(c) = Avvistsaldo(b) + SumFunctionOnSet(f, DOMAIN f \ land)
      /\ HelBok(c) /\ (IManeden(b, c) \/ OverManedsskifte(b, c))
  BY <1>6 DEF Fort, Energifelt
<1> HIDE DEF land
<1>10. Bevart(b, c, delta)
  BY <1>7, <1>8, <1>9 DEF Bevart
<1>. QED
  BY <1>10 DEF c

\* A step that only counts rejected energy.
LEMMA FlyttEnergi ==
  ASSUME NEW b, BokInv(b), HelBok(b), NEW d \in Nat,
         NEW c, c.poster = b.poster, c.bidrag = b.bidrag, c.sum = b.sum,
         c.avvist = b.avvist + d, c.arkiv = b.arkiv, c.aktiv = b.aktiv
  PROVE  Bevart(b, c, d)
<1>1. (\A x \in Energifelt : Sumfelt(c, x) = Sumfelt(b, x)) /\ (\A x \in Felt : Rest(c, x) = Rest(b, x))
  BY SammeSum
<1>2. b.avvist \in Nat
  BY DEF HelBok
<1>3. HelBok(c)
  BY <1>1, <1>2 DEF HelBok
<1>4. \A x \in Energifelt : x \in Felt /\ Sumfelt(b, x) \in Nat
  BY MaanedssumFelt DEF Energifelt, Felt
<1>5. IManeden(b, c)
  BY <1>1, <1>2, <1>4 DEF IManeden
<1>6. \A x \in Energifelt : Feltsaldo(c, x) = Feltsaldo(b, x)
  BY <1>1 DEF Feltsaldo
<1>7. Avvistsaldo(c) = Avvistsaldo(b) + d
  <2> DEFINE s == SumFunctionOnSet([m \in DOMAIN b.arkiv |-> b.arkiv[m].avvist], DOMAIN b.arkiv)
  <2>1. s \in Int
    <3> DEFINE g == [m \in DOMAIN b.arkiv |-> b.arkiv[m].avvist]
    <3>1. IsFiniteSet(DOMAIN b.arkiv) /\ \A m \in DOMAIN b.arkiv : g[m] \in Int
      BY ArkivEndelig DEF HelBok
    <3> HIDE DEF g
    <3>2. SumFunctionOnSet(g, DOMAIN b.arkiv) \in Int
      BY <3>1, SumType
    <3>. QED
      BY <3>2 DEF g
  <2>2. Avvistsaldo(c) = c.avvist + s /\ Avvistsaldo(b) = b.avvist + s
    BY DEF Avvistsaldo
  <2> HIDE DEF s
  <2>. QED
    BY <1>2, <2>1, <2>2
<1>8. /\ Feltsaldo(b, "total") \in Int /\ Feltsaldo(b, "dag") \in Int
      /\ Feltsaldo(b, "natt") \in Int /\ Avvistsaldo(b) \in Int
  BY SaldoType DEF Felt
<1>9. /\ Feltsaldo(c, "total") = Feltsaldo(b, "total") /\ Feltsaldo(c, "dag") = Feltsaldo(b, "dag")
      /\ Feltsaldo(c, "natt") = Feltsaldo(b, "natt")
  BY <1>6 DEF Energifelt
<1>. QED
  BY <1>3, <1>5, <1>7, <1>8, <1>9 DEF Bevart

\* The outcomes that account for the whole delta.
Regnskapsfort == {"bokfort", "avvist_arkivert", "avvist_sprang"}

\* A delta is distributed or rejected whole: the book grows by it.
LEMMA BokforDeltaEnergi ==
  ASSUME NEW b, BokInv(b), HelBok(b), b.sist # Ingen,
         NEW a, a.tid \in Tikk, b.sist.tid < a.tid, NEW delta \in Int,
         delta \in Nat => DeltHelt(b.sist.tid, a.tid, delta)
  PROVE  LET s == BokforDelta(b, a, delta)
         IN  Bevart(b, s.bok, IF s.utfall \in Regnskapsfort THEN delta ELSE 0)
<1> DEFINE flyttet == [b EXCEPT !.sist = a]
           sprang == [flyttet EXCEPT !.avvist = @ + delta]
           s == BokforDelta(b, a, delta)
<1>1. CASE delta < 0
  <2>1. s.bok = flyttet /\ s.utfall = "avvist_negativ"
    <3>1. MaksDelta \in Nat /\ ~ (delta > MaksDelta)
      BY <1>1, GrenseAssumption
    <3>. QED
      BY <1>1, <3>1 DEF BokforDelta, UtenEnergi, Svar
  <2>2. /\ flyttet.poster = b.poster /\ flyttet.bidrag = b.bidrag /\ flyttet.sum = b.sum
        /\ flyttet.avvist = b.avvist + 0 /\ flyttet.arkiv = b.arkiv /\ flyttet.aktiv = b.aktiv
    BY DEF BokInv, StrukturOK, TomBok, HelBok
  <2> HIDE DEF flyttet
  <2>3. Bevart(b, flyttet, 0)
    BY <2>2, FlyttEnergi
  <2>. QED
    BY <2>1, <2>3 DEF Regnskapsfort
<1>2. CASE delta > MaksDelta
  <2>1. MaksDelta \in Nat /\ delta \in Nat /\ ~ (delta < 0)
    BY <1>2, GrenseAssumption
  <2>2. s.bok = sprang /\ s.utfall = "avvist_sprang"
    BY <1>2, <2>1 DEF BokforDelta, Svar
  <2>3. /\ sprang.poster = b.poster /\ sprang.bidrag = b.bidrag /\ sprang.sum = b.sum
        /\ sprang.avvist = b.avvist + delta /\ sprang.arkiv = b.arkiv /\ sprang.aktiv = b.aktiv
    BY DEF BokInv, StrukturOK, TomBok
  <2> HIDE DEF sprang
  <2>4. Bevart(b, sprang, delta)
    BY <2>1, <2>3, FlyttEnergi
  <2>5. "avvist_sprang" \in Regnskapsfort
    BY DEF Regnskapsfort
  <2> HIDE DEF s
  <2>6. Bevart(b, s.bok, IF s.utfall \in Regnskapsfort THEN delta ELSE 0)
    BY <2>2, <2>4, <2>5
  <2>. QED
    BY <2>6 DEF s
<1>3. CASE ~ (delta < 0) /\ ~ (delta > MaksDelta)
  <2>1. s = Fordel(b, a, delta)
    BY <1>3 DEF BokforDelta
  <2>2. s.utfall \in Regnskapsfort
    BY <2>1 DEF Fordel, Svar, Regnskapsfort
  <2>3. delta \in Nat
    BY <1>3
  <2>4. Bevart(b, Fordel(b, a, delta).bok, delta)
    BY <2>3, FordelEnergi
  <2> HIDE DEF s
  <2>5. Bevart(b, s.bok, IF s.utfall \in Regnskapsfort THEN delta ELSE 0)
    BY <2>1, <2>2, <2>4
  <2>. QED
    BY <2>5 DEF s
<1>. QED
  BY <1>1, <1>2, <1>3

\* What the meter has counted since the baseline, and the part of it an answer
\* accounts for.
Maalt(b, a) == IF a.kilde \in Estimerte THEN a.verdi ELSE a.verdi - b.sist.verdi

Regnskap(b, a) == IF Bokfor(b, a).utfall \in Regnskapsfort THEN Maalt(b, a) ELSE 0

\* bokfor: whatever the reading, the book grows by exactly what its answer says
\* it accounts for.
LEMMA BokforEnergi ==
  ASSUME NEW b, BokInv(b), HelBok(b), NEW a, a.tid \in Tikk, a.verdi \in Int,
         b.sist # Ingen => b.sist.verdi \in Int,
         b.sist # Ingen /\ b.sist.tid < a.tid /\ Maalt(b, a) \in Nat =>
           DeltHelt(b.sist.tid, a.tid, Maalt(b, a))
  PROVE  Bevart(b, Bokfor(b, a).bok, Regnskap(b, a))
<1> DEFINE s == Bokfor(b, a)
           flyttet == [b EXCEPT !.sist = a]
<1>1. Bevart(b, flyttet, 0) /\ Bevart(b, b, 0)
  <2>1. /\ flyttet.poster = b.poster /\ flyttet.bidrag = b.bidrag /\ flyttet.sum = b.sum
        /\ flyttet.avvist = b.avvist + 0 /\ flyttet.arkiv = b.arkiv /\ flyttet.aktiv = b.aktiv
    BY DEF BokInv, StrukturOK, TomBok, HelBok
  <2>2. b.avvist = b.avvist + 0
    BY DEF HelBok
  <2> HIDE DEF flyttet
  <2>. QED
    BY <2>1, <2>2, FlyttEnergi
<1>2. CASE b.sist = Ingen \/ b.sist.kilde # a.kilde
  BY <1>1, <1>2 DEF Bokfor, UtenEnergi, Svar, Regnskap, Regnskapsfort
<1>3. CASE ~ (b.sist = Ingen \/ b.sist.kilde # a.kilde)
  <2>1. CASE b.sist = a \/ a.tid < b.sist.tid \/ a.tid = b.sist.tid
    <3>1. s.bok = b /\ s.utfall \in {"duplikat", "forsinket", "avvist_nullvindu"}
      BY <1>3, <2>1 DEF Bokfor, UtenEnergi, Svar
    <3>. QED
      BY <1>1, <3>1 DEF Regnskap, Regnskapsfort
  <2>2. CASE ~ (b.sist = a \/ a.tid < b.sist.tid \/ a.tid = b.sist.tid)
    <3>1. b.sist # Ingen /\ b.sist.tid < a.tid /\ b.sist.verdi \in Int
      <4>1. b.sist.tid \in Tikk
        BY <1>3 DEF BokInv, StrukturOK
      <4>2. a.tid \in Nat /\ b.sist.tid \in Nat
        BY <4>1, TikkHel
      <4>. QED
        BY <1>3, <2>2, <4>2
    <3>2. CASE a.kilde \in Estimerte /\ a.tid - b.sist.tid > MaksEstimertVindu
      <4>1. s.bok = flyttet /\ s.utfall = "avvist_for_langt_vindu"
        BY <1>3, <2>2, <3>2 DEF Bokfor, BokforEstimert, UtenEnergi, Svar
      <4>. QED
        BY <1>1, <4>1 DEF Regnskap, Regnskapsfort
    <3>3. CASE ~ (a.kilde \in Estimerte /\ a.tid - b.sist.tid > MaksEstimertVindu)
      <4>1. s = BokforDelta(b, a, Maalt(b, a))
        BY <1>3, <2>2, <3>3 DEF Bokfor, BokforEstimert, BokforTeller, Maalt
      <4>2. Maalt(b, a) \in Int
        BY <3>1 DEF Maalt
      <4>3. Bevart(b, s.bok, IF s.utfall \in Regnskapsfort THEN Maalt(b, a) ELSE 0)
        BY <3>1, <4>1, <4>2, BokforDeltaEnergi
      <4>. QED
        BY <4>3 DEF Regnskap
    <3>. QED
      BY <3>2, <3>3
  <2>. QED
    BY <2>1, <2>2
<1>. QED
  BY <1>2, <1>3

\* Refreshing the sums moves no energy.
LEMMA OppdaterEnergi ==
  ASSUME NEW b, BokInv(b), HelBok(b)
  PROVE  LET o == Oppdater(b)
         IN  /\ HelBok(o) /\ o.avvist = b.avvist /\ o.arkiv = b.arkiv /\ o.aktiv = b.aktiv
             /\ \A x \in Felt : Sumfelt(o, x) = Sumfelt(b, x)
<1>1. LET o == Oppdater(b)
      IN  HelBok(o) /\ Innhold(o) = Innhold(b) /\ \A x \in Felt : Rest(o, x) = Rest(b, x)
  BY OppdaterSum
<1>2. LET o == Oppdater(b) IN o.avvist = b.avvist /\ o.arkiv = b.arkiv /\ o.aktiv = b.aktiv
  BY OppdaterFelt DEF BokInv
<1>. QED
  BY <1>1, <1>2 DEF Sumfelt

\* The price of an hour that is kept is kept with it.
LEMMA PrisenBeholdes ==
  ASSUME NEW ruter, NEW fra, NEW h, h >= fra
  PROVE  Prisintervall(RuterFra(ruter, fra), h) = Prisintervall(ruter, h)
BY DEF Prisintervall, RuterFra, Restrict

\* A book that is written and read again holds the same energy in every field:
\* what its kept hours contribute moves out of the finished sums, and is put
\* back by the first refresh after the start.
LEMMA LagretEnergi ==
  ASSUME NEW b, BokInv(b), HelBok(b), NEW naa \in Tikk
  PROVE  LET c == FraLagring(TilLagring(b, naa))
         IN  /\ HelBok(c) /\ c.avvist = b.avvist /\ c.arkiv = b.arkiv /\ c.aktiv = b.aktiv
             /\ \A x \in Felt : Sumfelt(c, x) = Sumfelt(b, x)
<1> DEFINE fra == Time(naa) - Lagringsvindu
           P == DOMAIN b.poster
           B == {h \in P : h >= fra}
           o == Oppdater(b)
           l == TilLagring(b, naa)
           c == FraLagring(l)
           inn == Innhold(b)
<1>1. /\ l.skjema = 3 /\ l.poster = Restrict(b.poster, B) /\ l.ruter = RuterFra(b.ruter, fra)
      /\ l.ferdige_sum = Minus(o.sum, SumAv(Restrict(o.bidrag, B)))
      /\ l.avvist = b.avvist /\ l.arkiv = b.arkiv /\ l.aktiv = b.aktiv
  BY DEF TilLagring
<1>2. l # TomtLager /\ l # GammeltLager
  BY <1>1 DEF TomtLager, GammeltLager
<1>3. /\ c.poster = Restrict(b.poster, B) /\ c.ruter = RuterFra(b.ruter, fra)
      /\ DOMAIN c.bidrag = {} /\ c.sum = l.ferdige_sum
      /\ c.avvist = b.avvist /\ c.arkiv = b.arkiv /\ c.aktiv = b.aktiv
  <2> HIDE DEF l
  <2>1. /\ c.poster = l.poster /\ c.ruter = l.ruter /\ c.bidrag = <<>> /\ c.sum = l.ferdige_sum
        /\ c.avvist = l.avvist /\ c.arkiv = l.arkiv /\ c.aktiv = l.aktiv
    BY <1>2 DEF FraLagring, TomBok
  <2>2. DOMAIN << >> = {}
    OBVIOUS
  <2> HIDE DEF c, fra, B
  <2>. QED
    BY <1>1, <2>1, <2>2
<1> HIDE DEF c, l
<1>4. Innhold(c) = Restrict(inn, B)
  <2>1. DOMAIN c.poster = B
    BY <1>3 DEF Restrict
  <2>2. ASSUME NEW h \in B
        PROVE  Innhold(c)[h] = inn[h]
    <3>1. c.poster[h] = b.poster[h]
      BY <1>3 DEF Restrict
    <3>2. Prisintervall(c.ruter, h) = Prisintervall(b.ruter, h)
      <4>1. h >= fra
        OBVIOUS
      <4> HIDE DEF fra
      <4>. QED
        BY <1>3, <4>1, PrisenBeholdes
    <3>. QED
      BY <2>1, <3>1, <3>2 DEF Innhold, BidragAv, NyttIntervall
  <2>3. DOMAIN inn = P /\ DOMAIN Innhold(c) = B
    BY <2>1 DEF Innhold
  <2>. QED
    BY <2>1, <2>2, <2>3 DEF Restrict, Innhold
<1>5. Tellbar(inn) /\ Tellbar(Restrict(inn, B)) /\ Tellbar(Restrict(inn, P \ B))
      /\ DOMAIN inn = P /\ B \in SUBSET P
  <2>1. Tellbar(inn) /\ DOMAIN inn = P /\ B \in SUBSET P
    BY TellbareBidrag DEF Innhold
  <2>2. \A S, T : Tellbar(S) /\ T \in SUBSET DOMAIN S => Tellbar(Restrict(S, T))
    BY FS_Subset DEF Tellbar, Restrict
  <2>3. P \ B \in SUBSET P
    OBVIOUS
  <2> HIDE DEF inn, P, B
  <2>. QED
    BY <2>1, <2>2, <2>3
<1>6. o.bidrag = inn /\ \A x \in Felt : o.sum[x] = Sumfelt(b, x)
  BY OppdaterSum
<1> HIDE DEF o
<1>7. ASSUME NEW x \in Felt
      PROVE  Rest(c, x) \in Nat /\ c.sum[x] \in Int /\ Sumfelt(c, x) = Sumfelt(b, x)
  <2>1. c.sum[x] = Sumfelt(b, x) - SumI(x, Restrict(inn, B))
    <3>1. l.ferdige_sum[x] = o.sum[x] - SumAv(Restrict(o.bidrag, B))[x]
      BY <1>1, PlussFelt
    <3>2. SumAv(Restrict(inn, B))[x] = SumI(x, Restrict(inn, B))
      BY <1>5, SumAvFelt
    <3>. QED
      BY <1>3, <1>6, <3>1, <3>2
  <2>2. SumI(x, c.bidrag) = 0
    BY <1>3, SumTom DEF SumI
  <2>3. SumI(x, inn) = SumI(x, Restrict(inn, B)) + SumI(x, Restrict(inn, P \ B))
    <3> HIDE DEF inn, P, B
    <3>. QED
      BY <1>5, SumISplitt
  <2>4. /\ SumI(x, inn) \in Nat /\ SumI(x, Restrict(inn, B)) \in Nat
        /\ SumI(x, Restrict(inn, P \ B)) \in Nat
    <3> HIDE DEF inn, P, B
    <3>. QED
      BY <1>5, SumIType
  <2>5. Rest(b, x) \in Nat
    BY DEF HelBok
  <2>6. SumI(x, Innhold(c)) = SumI(x, Restrict(inn, B))
    BY <1>4
  <2>7. Sumfelt(b, x) = Rest(b, x) + SumI(x, inn)
    BY DEF Sumfelt
  <2>8. Rest(c, x) = c.sum[x] - SumI(x, c.bidrag) /\ Sumfelt(c, x) = Rest(c, x) + SumI(x, Innhold(c))
    BY DEF Rest, Sumfelt
  <2> HIDE DEF inn, P, B
  <2>. QED
    BY <2>1, <2>2, <2>3, <2>4, <2>5, <2>6, <2>7, <2>8
<1>8. HelBok(c)
  <2>1. \A h \in DOMAIN c.poster : c.poster[h].kwh \in Nat
    BY <1>3 DEF HelBok, Restrict
  <2>. QED
    BY <1>3, <1>7, <2>1 DEF HelBok
<1>9. HelBok(c) /\ c.avvist = b.avvist /\ c.arkiv = b.arkiv /\ c.aktiv = b.aktiv
      /\ \A x \in Felt : Sumfelt(c, x) = Sumfelt(b, x)
  BY <1>3, <1>7, <1>8
<1>. QED
  BY <1>9 DEF c, l

\* A new book holds nothing.
LEMMA TomEnergi ==
  ASSUME NEW u
  PROVE  /\ HelBok(TomBok(u)) /\ Avvistsaldo(TomBok(u)) = 0
         /\ \A x \in Felt : Sumfelt(TomBok(u), x) = 0 /\ Feltsaldo(TomBok(u), x) = 0
<1> DEFINE b == TomBok(u)
<1>1. /\ DOMAIN b.poster = {} /\ DOMAIN b.bidrag = {} /\ b.sum = NullSum /\ b.avvist = 0
      /\ DOMAIN b.arkiv = {}
  BY DEF TomBok
<1> HIDE DEF b
<1>2. DOMAIN Innhold(b) = {}
  BY <1>1 DEF Innhold
<1>3. \A x : SumI(x, b.bidrag) = 0 /\ SumI(x, Innhold(b)) = 0
  BY <1>1, <1>2, SumTom DEF SumI
<1>4. \A x \in Felt : b.sum[x] = 0
  BY <1>1 DEF NullSum, Felt
<1>5. \A x \in Felt : Rest(b, x) = 0 /\ Sumfelt(b, x) = 0
  BY <1>3, <1>4 DEF Rest, Sumfelt
<1>6. HelBok(b)
  BY <1>1, <1>4, <1>5 DEF HelBok
<1>7. Avvistsaldo(b) = 0 /\ \A x \in Felt : Feltsaldo(b, x) = 0
  BY <1>1, <1>5, SumTom DEF Avvistsaldo, Feltsaldo
<1>. QED
  BY <1>5, <1>6, <1>7 DEF b

=============================================================================

----------------------------- MODULE SumProofs -----------------------------
(***************************************************************************)
(* Sums over finite sets.  The ledgers, credits and adjustments of this    *)
(* system are sums of rows (Prisma aggregates), written SumFunctionOnSet   *)
(* in the models; the proofs about them rest on the lemmas below, all by   *)
(* the same argument: of the subsets that refute a claim take a smallest.  *)
(***************************************************************************)
EXTENDS Integers, FiniteSets, Functions, FiniteSetTheorems, WellFoundedInduction, TLAPS

(* A non-empty family of subsets of a finite set has a smallest member. *)
LEMMA MinimalSubset ==
  ASSUME NEW S, IsFiniteSet(S), NEW F \in SUBSET SUBSET S, F # {}
  PROVE  \E A \in F : \A B \in F : B \subseteq A => B = A
<1>1. IsWellFoundedOn(StrictSubsetOrdering(S), FiniteSubsetsOf(S))
  BY FS_StrictSubsetOrderingWellFounded
<1>2. F \subseteq FiniteSubsetsOf(S)
  BY FS_Subset DEF FiniteSubsetsOf
<1>3. PICK A \in F : \A B \in F : ~(<<B, A>> \in StrictSubsetOrdering(S))
  BY <1>1, <1>2, WFMin, Zenon
<1>4. ASSUME NEW B \in F, B \subseteq A PROVE B = A
  BY <1>2, <1>3, <1>4 DEF StrictSubsetOrdering, FiniteSubsetsOf
<1>5. \A B \in F : B \subseteq A => B = A
  BY <1>4
<1> QED BY <1>5, Zenon

Chosen(s) == CHOOSE x \in s : TRUE

(* g is the recursive function that SumFunctionOnSet(f, S) applies to S. *)
IsSum(g, f, S) ==
    g = [s \in SUBSET S |-> IF s = {} THEN 0 ELSE f[Chosen(s)] + g[s \ {Chosen(s)}]]

(* A non-empty set has the element its CHOOSE picks.                        *)
LEMMA ChosenIsThere == \A s : s # {} => Chosen(s) \in s
BY Zenon DEF Chosen

(* SumFunctionOnSet(f, S) is the recursive function it defines, at S.       *)
LEMMA SumUnfolds ==
  ASSUME NEW f, NEW S
  PROVE  SumFunctionOnSet(f, S) = (CHOOSE g : IsSum(g, f, S))[S]
BY DEF SumFunctionOnSet, FoldFunctionOnSet, MapThenFoldSet, IsSum, Chosen

(* What the recursive equation says of one subset. *)
LEMMA IsSumAt ==
  ASSUME NEW g, NEW f, NEW S, IsSum(g, f, S), NEW D \in SUBSET S
  PROVE  g[D] = IF D = {} THEN 0 ELSE f[Chosen(D)] + g[D \ {Chosen(D)}]
BY DEF IsSum

(* Two such functions agree on the subsets that both know.                  *)
LEMMA SumsAgree ==
  ASSUME NEW S, IsFiniteSet(S), NEW T \in SUBSET S, NEW f, NEW g, NEW h,
         IsSum(g, f, S), IsSum(h, f, T)
  PROVE  \A D \in SUBSET T : g[D] = h[D]
<1> DEFINE F == {D \in SUBSET T : g[D] # h[D]}
<1>1. SUFFICES ASSUME F # {} PROVE FALSE
  OBVIOUS
<1>2. IsFiniteSet(T) /\ F \in SUBSET SUBSET T
  BY FS_Subset
<1> HIDE DEF F
<1>3. PICK A \in F : \A B \in F : B \subseteq A => B = A
  BY <1>1, <1>2, MinimalSubset
<1>4a. A \in SUBSET T /\ A \in SUBSET S /\ g[A] # h[A]
  BY <1>3 DEF F
<1>4. /\ g[A] = IF A = {} THEN 0 ELSE f[Chosen(A)] + g[A \ {Chosen(A)}]
      /\ h[A] = IF A = {} THEN 0 ELSE f[Chosen(A)] + h[A \ {Chosen(A)}]
  BY <1>4a, IsSumAt
<1>5. A # {}
  BY <1>4, <1>4a
<1>6. A \ {Chosen(A)} \notin F
  BY <1>3, <1>5, ChosenIsThere
<1>7. g[A \ {Chosen(A)}] = h[A \ {Chosen(A)}]
  BY <1>4a, <1>6 DEF F
<1> QED BY <1>4, <1>4a, <1>5, <1>7

(* On a finite set there is such a function.                                *)
LEMMA SumExists ==
  ASSUME NEW S, IsFiniteSet(S), NEW f
  PROVE  \E g : IsSum(g, f, S)
<1> DEFINE Has(A) == \E g : IsSum(g, f, A)
           F == {A \in SUBSET S : ~Has(A)}
           h(A) == (CHOOSE g : IsSum(g, f, A))[A]
<1>1. SUFFICES ASSUME F # {} PROVE FALSE
  OBVIOUS
<1>0. F \in SUBSET SUBSET S
  OBVIOUS
<1> HIDE DEF F
<1>2. PICK A \in F : \A B \in F : B \subseteq A => B = A
  BY <1>0, <1>1, MinimalSubset
<1> USE DEF F
<1>3. \A B \in SUBSET A : B # A => IsSum(CHOOSE g : IsSum(g, f, B), f, B)
  BY <1>2
<1>4. ASSUME NEW B \in SUBSET A, B # A
      PROVE  h(B) = IF B = {} THEN 0 ELSE f[Chosen(B)] + h(B \ {Chosen(B)})
  <2> DEFINE G(X) == CHOOSE g : IsSum(g, f, X)
             C == B \ {Chosen(B)}
  <2>1. IsSum(G(B), f, B)
    BY <1>3, <1>4
  <2>2. G(B)[B] = IF B = {} THEN 0 ELSE f[Chosen(B)] + G(B)[C]
    BY <2>1, IsSumAt
  <2>3. C # A /\ C \in SUBSET A
    BY <1>4
  <2>4. IsSum(G(C), f, C)
    BY <1>3, <2>3
  <2>5. IsFiniteSet(B)
    BY FS_Subset
  <2>6. G(B)[C] = G(C)[C]
    <3> HIDE DEF G
    <3>1. C \in SUBSET B OBVIOUS
    <3>2. \A D \in SUBSET C : G(B)[D] = G(C)[D]
      BY <2>1, <2>4, <2>5, <3>1, SumsAgree
    <3> QED BY <3>2
  <2> QED BY <2>2, <2>6
<1> DEFINE g == [s \in SUBSET A |-> IF s = {} THEN 0 ELSE f[Chosen(s)] + h(s \ {Chosen(s)})]
<1> HIDE DEF h
<1>5. \A B \in SUBSET A : B # A => g[B] = h(B)
  BY <1>4
<1>6. \A s \in SUBSET A : s # {} => g[s \ {Chosen(s)}] = h(s \ {Chosen(s)})
  BY <1>5, ChosenIsThere
<1>7. g = [s \in SUBSET A |-> IF s = {} THEN 0 ELSE f[Chosen(s)] + g[s \ {Chosen(s)}]]
  BY <1>6
<1>8. IsSum(g, f, A)
  BY <1>7 DEF IsSum
<1> QED BY <1>2, <1>8

(* The sum of the empty set, and one step of the recursion. *)
LEMMA SumStep ==
  ASSUME NEW S, IsFiniteSet(S), NEW f
  PROVE  SumFunctionOnSet(f, S) =
           IF S = {} THEN 0
           ELSE f[Chosen(S)] + SumFunctionOnSet(f, S \ {Chosen(S)})
<1> DEFINE G(X) == CHOOSE g : IsSum(g, f, X)
           C == S \ {Chosen(S)}
<1>1. IsFiniteSet(C)
  BY FS_Subset
<1>2. IsSum(G(S), f, S) /\ IsSum(G(C), f, C)
  BY <1>1, SumExists
<1>3. G(S)[S] = IF S = {} THEN 0 ELSE f[Chosen(S)] + G(S)[C]
  BY <1>2, IsSumAt
<1>4. G(S)[C] = G(C)[C]
  <2> HIDE DEF G
  <2>1. \A D \in SUBSET C : G(S)[D] = G(C)[D]
    BY <1>2, SumsAgree
  <2> QED BY <2>1
<1>5. SumFunctionOnSet(f, S) = G(S)[S] /\ SumFunctionOnSet(f, C) = G(C)[C]
  BY SumUnfolds
<1> QED BY <1>3, <1>4, <1>5
----------------------------------------------------------------------------
(* Nothing adds up to nothing.                                              *)
LEMMA SumEmpty == \A f : SumFunctionOnSet(f, {}) = 0
BY SumStep, FS_EmptySet

(* Integers add up to an integer.                                           *)
LEMMA SumIsInt ==
  ASSUME NEW S, IsFiniteSet(S), NEW f, \A x \in S : f[x] \in Int
  PROVE  SumFunctionOnSet(f, S) \in Int
<1> DEFINE F == {D \in SUBSET S : SumFunctionOnSet(f, D) \notin Int}
<1>1. SUFFICES ASSUME F # {} PROVE FALSE
  OBVIOUS
<1>2. F \in SUBSET SUBSET S
  OBVIOUS
<1> HIDE DEF F
<1>3. PICK A \in F : \A B \in F : B \subseteq A => B = A
  BY <1>1, <1>2, MinimalSubset
<1> USE DEF F
<1>4. IsFiniteSet(A)
  BY FS_Subset
<1>5. A # {}
  BY SumEmpty
<1>6. A \ {Chosen(A)} \notin F /\ Chosen(A) \in S
  BY <1>3, <1>5, ChosenIsThere
<1>7. SumFunctionOnSet(f, A) = f[Chosen(A)] + SumFunctionOnSet(f, A \ {Chosen(A)})
  BY <1>4, <1>5, SumStep
<1>8. f[Chosen(A)] \in Int /\ SumFunctionOnSet(f, A \ {Chosen(A)}) \in Int
  BY <1>6
<1> QED BY <1>7, <1>8

(* The sum does not depend on the order of its terms. *)
LEMMA SumTakes ==
  ASSUME NEW S, IsFiniteSet(S), NEW f, \A x \in S : f[x] \in Int, NEW x \in S
  PROVE  SumFunctionOnSet(f, S) = f[x] + SumFunctionOnSet(f, S \ {x})
<1> DEFINE sum(D) == SumFunctionOnSet(f, D)
           Bad(D) == \E y \in D : sum(D) # f[y] + sum(D \ {y})
           F == {D \in SUBSET S : Bad(D)}
<1>1. SUFFICES ASSUME F # {} PROVE FALSE
  OBVIOUS
<1>2. F \in SUBSET SUBSET S
  OBVIOUS
<1> HIDE DEF F
<1>3. PICK A \in F : \A B \in F : B \subseteq A => B = A
  BY <1>1, <1>2, MinimalSubset
<1> USE DEF F
<1>4. PICK y \in A : sum(A) # f[y] + sum(A \ {y})
  OBVIOUS
<1> DEFINE c == Chosen(A)
<1>5. c \in A /\ A \subseteq S
  BY ChosenIsThere
<1>6. \A D \in SUBSET S : sum(D) \in Int
  BY FS_Subset, SumIsInt
<1>7. sum(A) = f[c] + sum(A \ {c})
  BY <1>5, FS_Subset, SumStep
<1>8. y # c
  BY <1>4, <1>7
<1>9. ~Bad(A \ {c}) /\ ~Bad(A \ {y})
  <2> HIDE DEF Bad, c
  <2>1. A \ {c} \notin F /\ A \ {y} \notin F
    <3> HIDE DEF F
    <3> QED BY <1>3, <1>4, <1>5
  <2>2. A \ {c} \in SUBSET S /\ A \ {y} \in SUBSET S
    BY <1>5
  <2> QED BY <2>1, <2>2
<1>10. /\ sum(A \ {c}) = f[y] + sum((A \ {c}) \ {y})
       /\ sum(A \ {y}) = f[c] + sum((A \ {y}) \ {c})
  BY <1>5, <1>8, <1>9
<1>11. sum((A \ {c}) \ {y}) = sum((A \ {y}) \ {c})
  <2>1. (A \ {c}) \ {y} = (A \ {y}) \ {c}
    OBVIOUS
  <2> QED BY <2>1
<1> HIDE DEF sum, c
<1>12. f[c] \in Int /\ f[y] \in Int /\ sum((A \ {y}) \ {c}) \in Int
  BY <1>5, <1>6
<1> QED BY <1>4, <1>7, <1>10, <1>11, <1>12

(* Adding a term. *)
LEMMA SumAdds ==
  ASSUME NEW S, IsFiniteSet(S), NEW f, NEW x, x \notin S,
         \A y \in S \cup {x} : f[y] \in Int
  PROVE  SumFunctionOnSet(f, S \cup {x}) = f[x] + SumFunctionOnSet(f, S)
<1>1. IsFiniteSet(S \cup {x})
  BY FS_AddElement
<1>2. (S \cup {x}) \ {x} = S
  OBVIOUS
<1> QED BY <1>1, <1>2, SumTakes

(* The sum depends on the terms alone. *)
LEMMA SumSame ==
  ASSUME NEW S, IsFiniteSet(S), NEW f, NEW g, \A x \in S : f[x] = g[x]
  PROVE  SumFunctionOnSet(f, S) = SumFunctionOnSet(g, S)
<1> DEFINE F == {D \in SUBSET S : SumFunctionOnSet(f, D) # SumFunctionOnSet(g, D)}
<1>1. SUFFICES ASSUME F # {} PROVE FALSE
  OBVIOUS
<1>2. F \in SUBSET SUBSET S
  OBVIOUS
<1> HIDE DEF F
<1>3. PICK A \in F : \A B \in F : B \subseteq A => B = A
  BY <1>1, <1>2, MinimalSubset
<1> USE DEF F
<1>4. IsFiniteSet(A) /\ A # {}
  BY FS_Subset, SumEmpty
<1> DEFINE c == Chosen(A)
<1>5. A \ {c} \notin F /\ c \in S
  BY <1>3, <1>4, ChosenIsThere
<1>6. /\ SumFunctionOnSet(f, A) = f[c] + SumFunctionOnSet(f, A \ {c})
      /\ SumFunctionOnSet(g, A) = g[c] + SumFunctionOnSet(g, A \ {c})
  BY <1>4, SumStep
<1> HIDE DEF c
<1> QED BY <1>5, <1>6

(* Changing one term changes the sum by as much. *)
LEMMA SumChanges ==
  ASSUME NEW S, IsFiniteSet(S), NEW f, \A x \in S : f[x] \in Int, NEW y \in S, NEW by \in Int,
         NEW g, g[y] = f[y] + by, \A x \in S \ {y} : g[x] = f[x]
  PROVE  SumFunctionOnSet(g, S) = SumFunctionOnSet(f, S) + by
<1>1. \A x \in S : g[x] \in Int
  OBVIOUS
<1>2. /\ SumFunctionOnSet(f, S) = f[y] + SumFunctionOnSet(f, S \ {y})
      /\ SumFunctionOnSet(g, S) = g[y] + SumFunctionOnSet(g, S \ {y})
  BY <1>1, SumTakes
<1>3. IsFiniteSet(S \ {y})
  BY FS_Subset
<1>4. SumFunctionOnSet(g, S \ {y}) = SumFunctionOnSet(f, S \ {y})
  BY <1>3, SumSame
<1>5. SumFunctionOnSet(f, S \ {y}) \in Int
  BY <1>3, SumIsInt
<1> QED BY <1>2, <1>4, <1>5

(* Zeros add up to zero. *)
LEMMA SumZero ==
  ASSUME NEW S, IsFiniteSet(S), NEW f, \A x \in S : f[x] = 0
  PROVE  SumFunctionOnSet(f, S) = 0
<1> DEFINE F == {D \in SUBSET S : SumFunctionOnSet(f, D) # 0}
<1>1. SUFFICES ASSUME F # {} PROVE FALSE
  OBVIOUS
<1>2. F \in SUBSET SUBSET S
  OBVIOUS
<1> HIDE DEF F
<1>3. PICK A \in F : \A B \in F : B \subseteq A => B = A
  BY <1>1, <1>2, MinimalSubset
<1> USE DEF F
<1>4. IsFiniteSet(A) /\ A # {}
  BY FS_Subset, SumEmpty
<1> DEFINE c == Chosen(A)
<1>5. A \ {c} \notin F /\ c \in S
  BY <1>3, <1>4, ChosenIsThere
<1>6. SumFunctionOnSet(f, A) = f[c] + SumFunctionOnSet(f, A \ {c})
  BY <1>4, SumStep
<1> HIDE DEF c
<1> QED BY <1>5, <1>6

(* The terms of one set and of another, when they share none. *)
LEMMA SumJoins ==
  ASSUME NEW S, IsFiniteSet(S), NEW T, IsFiniteSet(T), S \cap T = {},
         NEW f, \A x \in S \cup T : f[x] \in Int
  PROVE  SumFunctionOnSet(f, S \cup T) = SumFunctionOnSet(f, S) + SumFunctionOnSet(f, T)
<1> DEFINE sum(D) == SumFunctionOnSet(f, D)
           F == {D \in SUBSET T : sum(S \cup D) # sum(S) + sum(D)}
<1>1. SUFFICES ASSUME F # {} PROVE FALSE
  OBVIOUS
<1>2. F \in SUBSET SUBSET T
  OBVIOUS
<1> HIDE DEF F
<1>3. PICK A \in F : \A B \in F : B \subseteq A => B = A
  BY <1>1, <1>2, MinimalSubset
<1> USE DEF F
<1>4. IsFiniteSet(A) /\ IsFiniteSet(S \cup A) /\ A \subseteq T
  BY FS_Subset, FS_Union
<1>5. sum(S) \in Int /\ sum(A) \in Int
  BY <1>4, SumIsInt
<1>6. A # {}
  <2>1. sum({}) = 0
    BY SumEmpty
  <2>2. S \cup {} = S
    OBVIOUS
  <2>3. ASSUME A = {} PROVE FALSE
    <3>1. sum(S \cup A) = sum(S) /\ sum(A) = 0
      BY <2>1, <2>2, <2>3
    <3>2. sum(S \cup A) # sum(S) + sum(A)
      OBVIOUS
    <3> HIDE DEF sum
    <3> QED BY <1>5, <3>1, <3>2
  <2> QED BY <2>3
<1>7. PICK x \in A : TRUE
  BY <1>6
<1>8. sum(S \cup (A \ {x})) = sum(S) + sum(A \ {x})
  BY <1>3, <1>7
<1>9. sum(A) = f[x] + sum(A \ {x})
  BY <1>4, SumTakes
<1>10. sum(S \cup A) = f[x] + sum((S \cup A) \ {x})
  BY <1>4, SumTakes
<1>11. sum((S \cup A) \ {x}) = sum(S \cup (A \ {x}))
  <2>1. (S \cup A) \ {x} = S \cup (A \ {x})
    BY <1>4
  <2> QED BY <2>1
<1>12. f[x] \in Int /\ sum(A \ {x}) \in Int
  BY <1>4, FS_Subset, SumIsInt
<1> HIDE DEF sum
<1>13. sum(S \cup A) = sum(S) + sum(A)
  BY <1>5, <1>8, <1>9, <1>10, <1>11, <1>12
<1> QED BY <1>13 DEF sum

(* Larger terms, larger sum. *)
LEMMA SumGrows ==
  ASSUME NEW S, IsFiniteSet(S), NEW f, NEW g,
         \A x \in S : f[x] \in Int /\ g[x] \in Int /\ f[x] <= g[x]
  PROVE  SumFunctionOnSet(f, S) <= SumFunctionOnSet(g, S)
<1> DEFINE F == {D \in SUBSET S : ~(SumFunctionOnSet(f, D) <= SumFunctionOnSet(g, D))}
<1>1. SUFFICES ASSUME F # {} PROVE FALSE
  OBVIOUS
<1>2. F \in SUBSET SUBSET S
  OBVIOUS
<1> HIDE DEF F
<1>3. PICK A \in F : \A B \in F : B \subseteq A => B = A
  BY <1>1, <1>2, MinimalSubset
<1> USE DEF F
<1>4. IsFiniteSet(A) /\ A # {}
  <2>1. SumFunctionOnSet(f, {}) = 0 /\ SumFunctionOnSet(g, {}) = 0
    BY SumEmpty
  <2>2. ~(SumFunctionOnSet(f, A) <= SumFunctionOnSet(g, A))
    OBVIOUS
  <2>3. A # {}
    BY <2>1, <2>2
  <2> QED BY <2>3, FS_Subset
<1> DEFINE c == Chosen(A)
<1>5. A \ {c} \notin F /\ c \in S
  BY <1>3, <1>4, ChosenIsThere
<1>6. /\ SumFunctionOnSet(f, A) = f[c] + SumFunctionOnSet(f, A \ {c})
      /\ SumFunctionOnSet(g, A) = g[c] + SumFunctionOnSet(g, A \ {c})
  BY <1>4, SumStep
<1> HIDE DEF c
<1>7. /\ SumFunctionOnSet(f, A \ {c}) \in Int /\ SumFunctionOnSet(g, A \ {c}) \in Int
  BY <1>4, FS_Subset, SumIsInt
<1> QED BY <1>5, <1>6, <1>7
=============================================================================

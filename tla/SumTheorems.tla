---------------------------- MODULE SumTheorems -----------------------------
(***************************************************************************)
(* What Total does, for every finite set: that its recursion is well       *)
(* founded, that it does not matter in which order the elements are taken, *)
(* and what changing, adding or removing one of them does to the sum.      *)
(*                                                                         *)
(* Induction is used as a statement about sets of parts (PartInduction),   *)
(* which is first-order: the provers cannot instantiate the library's      *)
(* induction theorems, whose parameter is an operator.                     *)
(***************************************************************************)
EXTENDS Sums, FiniteSetTheorems, WellFoundedInduction, TLAPS

Chosen(s) == CHOOSE x \in s : TRUE

(* g[s] is the sum of f over s, for every part s of S.                     *)
PartSums(f, S, g) ==
    g = [s \in SUBSET S |-> IF s = {} THEN 0
                            ELSE f[Chosen(s)] + g[s \ {Chosen(s)}]]

Ints(f, S) == \A x \in S : f[x] \in Int
Nats(f, S) == \A x \in S : f[x] \in Nat

-----------------------------------------------------------------------------
(* The element a nonempty set hands out first is one of its elements. *)
LEMMA ChosenIn == \A s : s # {} => Chosen(s) \in s
BY DEF Chosen

(* What the table of partial sums holds for each subset, as two equations. *)
LEMMA SumsAt ==
    ASSUME NEW f, NEW S, NEW g, PartSums(f, S, g)
    PROVE  /\ g[{}] = 0
           /\ \A s \in SUBSET S : s # {} => g[s] = f[Chosen(s)] + g[s \ {Chosen(s)}]
BY DEF PartSums

(* Numbers are well founded, and so are the parts of a finite set.         *)
LEMMA Least ==
    ASSUME NEW S, S \subseteq Nat, S # {}
    PROVE  \E n \in S : \A m \in S : n <= m
<1>1. IsWellFoundedOn(OpToRel(<, Nat), Nat)
  BY NatLessThanWellFounded
<1>2. PICK n \in S : \A m \in S : ~ (<<m, n>> \in OpToRel(<, Nat))
  BY <1>1, WFMin
<1>3. \A m \in S : ~ (m < n)
  BY <1>2 DEF OpToRel
<1>4. QED
  BY <1>3

(* A nonempty family of subsets of a finite set has a least one by inclusion:
   the induction every lemma below uses. *)
LEMMA SmallestPart ==
    ASSUME NEW S, IsFiniteSet(S), NEW C, C \subseteq SUBSET S, C # {}
    PROVE  \E t \in C : \A u \in C : u \subseteq t => u = t
<1>1. IsWellFoundedOn(StrictSubsetOrdering(S), FiniteSubsetsOf(S))
  BY FS_StrictSubsetOrderingWellFounded
<1>2. FiniteSubsetsOf(S) = SUBSET S
  BY FS_FiniteSubsetsOfFinite
<1>3. PICK t \in C : \A u \in C : <<u, t>> \notin StrictSubsetOrdering(S)
  BY <1>1, <1>2, WFMin
<1>4. \A u \in C : u \subseteq t => u = t
  BY <1>3 DEF StrictSubsetOrdering
<1>5. QED
  BY <1>4

(* A set of parts of S that has the empty part, and each part that becomes *)
(* one of its own when some element is taken away, has all of them.        *)
LEMMA PartInduction ==
    ASSUME NEW S, IsFiniteSet(S), NEW P, {} \in P,
           \A T \in SUBSET S : \A x \in T : T \ {x} \in P => T \in P
    PROVE  (SUBSET S) \subseteq P
<1> DEFINE C == (SUBSET S) \ P
<1> SUFFICES ASSUME C # {} PROVE FALSE
  OBVIOUS
<1>1. PICK t \in C : \A u \in C : u \subseteq t => u = t
  <2>1. C \subseteq SUBSET S
    OBVIOUS
  <2> HIDE DEF C
  <2>2. QED
    BY <2>1, SmallestPart
<1>2. PICK x \in t : TRUE
  OBVIOUS
<1>3. t \ {x} \in P
  BY <1>1
<1>4. QED
  BY <1>3

-----------------------------------------------------------------------------
(* The recursion defines one function for each column and set.             *)
LEMMA SumsUnique ==
    ASSUME NEW f, NEW S, IsFiniteSet(S), NEW T \in SUBSET S, NEW g, NEW h,
           PartSums(f, S, g), PartSums(f, T, h)
    PROVE  \A s \in SUBSET T : g[s] = h[s]
<1> DEFINE C == {s \in SUBSET T : g[s] # h[s]}
<1> SUFFICES ASSUME C # {} PROVE FALSE
  OBVIOUS
<1>1. PICK t \in C : \A u \in C : u \subseteq t => u = t
  <2>1. C \subseteq SUBSET S
    OBVIOUS
  <2> HIDE DEF C
  <2>2. QED
    BY <2>1, SmallestPart
<1>2. t # {}
  BY SumsAt
<1>3. Chosen(t) \in t
  BY <1>2, ChosenIn
<1>4. t \ {Chosen(t)} \notin C
  BY <1>1, <1>3
<1>5. g[t \ {Chosen(t)}] = h[t \ {Chosen(t)}]
  BY <1>4
<1>6. /\ g[t] = f[Chosen(t)] + g[t \ {Chosen(t)}]
      /\ h[t] = f[Chosen(t)] + h[t \ {Chosen(t)}]
  BY <1>2, SumsAt
<1>7. QED
  BY <1>5, <1>6

(* The smallest part without such a function gets one, put together from   *)
(* those of its own parts.                                                 *)
LEMMA SumsExists ==
    ASSUME NEW f, NEW S, IsFiniteSet(S)
    PROVE  \E g : PartSums(f, S, g)
<1> DEFINE C == {s \in SUBSET S : ~ \E g : PartSums(f, s, g)}
<1> SUFFICES ASSUME C # {} PROVE FALSE
  OBVIOUS
<1>1. PICK t \in C : \A u \in C : u \subseteq t => u = t
  <2>1. C \subseteq SUBSET S
    OBVIOUS
  <2> HIDE DEF C
  <2>2. QED
    BY <2>1, SmallestPart
<1>2. \A u \in SUBSET t : u # t => \E g : PartSums(f, u, g)
  BY <1>1
<1> DEFINE sums(u) == CHOOSE g : PartSums(f, u, g)
           total(u) == IF u = {} THEN 0
                       ELSE f[Chosen(u)] + sums(u \ {Chosen(u)})[u \ {Chosen(u)}]
           g == [u \in SUBSET t |-> total(u)]
<1>3. \A u \in SUBSET t : u # t => PartSums(f, u, sums(u))
  BY <1>2
<1>4. ASSUME NEW u \in SUBSET t, u # t PROVE sums(u)[u] = g[u]
  <2>1. CASE u = {}
    BY <1>3, <1>4, <2>1, SumsAt
  <2>2. CASE u # {}
    <3> DEFINE w == u \ {Chosen(u)}
    <3>1. w \in SUBSET u /\ w \in SUBSET t /\ w # t
      BY <1>4
    <3>2. sums(u)[u] = f[Chosen(u)] + sums(u)[w]
      BY <1>3, <1>4, <2>2, SumsAt
    <3>3. IsFiniteSet(u)
      BY FS_Subset
    <3>4. sums(u)[w] = sums(w)[w]
      BY <1>3, <1>4, <3>1, <3>3, SumsUnique
    <3>5. QED
      BY <2>2, <3>2, <3>4
  <2>3. QED
    BY <2>1, <2>2
<1>5. \A u \in SUBSET t :
        g[u] = IF u = {} THEN 0 ELSE f[Chosen(u)] + g[u \ {Chosen(u)}]
  <2> SUFFICES ASSUME NEW u \in SUBSET t
               PROVE  g[u] = IF u = {} THEN 0
                             ELSE f[Chosen(u)] + g[u \ {Chosen(u)}]
    BY Zenon
  <2> DEFINE w == u \ {Chosen(u)}
  <2>1. CASE u = {}
    BY <2>1
  <2> SUFFICES ASSUME u # {} PROVE g[u] = f[Chosen(u)] + g[w]
    BY <2>1
  <2>2. w \in SUBSET t /\ w # t
    BY ChosenIn
  <2>3. g[w] = sums(w)[w]
    BY <1>4, <2>2
  <2>4. g[u] = f[Chosen(u)] + sums(w)[w]
    OBVIOUS
  <2>5. QED
    BY <2>3, <2>4
<1>6. PartSums(f, t, g)
  <2> HIDE DEF total
  <2>1. g = [u \in SUBSET t |-> g[u]]
    OBVIOUS
  <2>2. g = [u \in SUBSET t |-> IF u = {} THEN 0
                                ELSE f[Chosen(u)] + g[u \ {Chosen(u)}]]
    BY <1>5, <2>1
  <2>3. QED
    BY <2>2 DEF PartSums
<1>7. QED
  BY <1>1, <1>6

(* A total over a subset is what any table of partial sums holds for it. *)
LEMMA TotalIs ==
    ASSUME NEW f, NEW S, IsFiniteSet(S), NEW g, PartSums(f, S, g), NEW T \in SUBSET S
    PROVE  Total(f, T) = g[T]
<1>1. Total(f, T) = (CHOOSE h : PartSums(f, T, h))[T]
  BY DEF Total, MapThenSumSet, MapThenFoldSet, PartSums, Chosen
<1>2. IsFiniteSet(T)
  BY FS_Subset
<1>3. \E h : PartSums(f, T, h)
  BY <1>2, SumsExists
<1>4. PICK k : PartSums(f, T, k) /\ k = CHOOSE h : PartSums(f, T, h)
  BY <1>3, Zenon
<1>5. \A s \in SUBSET T : g[s] = k[s]
  BY <1>4, SumsUnique
<1>6. QED
  BY <1>1, <1>4, <1>5

(* What the fold computes: nothing over the empty set, and otherwise the   *)
(* chosen element and the rest.                                            *)
LEMMA TotalChosen ==
    ASSUME NEW f, NEW S, IsFiniteSet(S)
    PROVE  Total(f, S) = IF S = {} THEN 0
                         ELSE f[Chosen(S)] + Total(f, S \ {Chosen(S)})
<1>1. PICK g : PartSums(f, S, g)
  BY SumsExists
<1>2. Total(f, S) = g[S] /\ Total(f, S \ {Chosen(S)}) = g[S \ {Chosen(S)}]
  BY <1>1, TotalIs
<1>3. g[{}] = 0 /\ (S # {} => g[S] = f[Chosen(S)] + g[S \ {Chosen(S)}])
  <2>1. g[{}] = 0
    BY <1>1, SumsAt
  <2>2. ASSUME S # {} PROVE g[S] = f[Chosen(S)] + g[S \ {Chosen(S)}]
    BY <1>1, <2>2, SumsAt
  <2>3. QED
    BY <2>1, <2>2
<1>4. QED
  BY <1>2, <1>3

(* Nothing sums to zero. *)
LEMMA TotalEmpty == \A f : Total(f, {}) = 0
BY TotalChosen, FS_EmptySet

(* A sum of integers over a subset of a finite set is an integer. *)
LEMMA TotalInt ==
    ASSUME NEW f, NEW S, IsFiniteSet(S), Ints(f, S), NEW T \in SUBSET S
    PROVE  Total(f, T) \in Int /\ IsFiniteSet(T) /\ Ints(f, T)
<1> DEFINE C == {U \in SUBSET S : Total(f, U) \notin Int}
<1>1. ASSUME C # {} PROVE FALSE
  <2>1. PICK t \in C : \A u \in C : u \subseteq t => u = t
    <3>1. C \subseteq SUBSET S
      OBVIOUS
    <3> HIDE DEF C
    <3>2. QED
      BY <1>1, <3>1, SmallestPart
  <2>2. IsFiniteSet(t) /\ t \in SUBSET S /\ Total(f, t) \notin Int
    BY FS_Subset
  <2>3. t # {}
    BY <2>2, TotalEmpty
  <2>4. Chosen(t) \in t /\ f[Chosen(t)] \in Int
    BY <2>2, <2>3, ChosenIn DEF Ints
  <2>5. t \ {Chosen(t)} \notin C
    BY <2>1, <2>4
  <2>6. Total(f, t \ {Chosen(t)}) \in Int
    BY <2>2, <2>5
  <2>7. QED
    BY <2>2, <2>3, <2>4, <2>6, TotalChosen
<1>2. IsFiniteSet(T)
  BY FS_Subset
<1>3. QED
  BY <1>1, <1>2 DEF Ints

(* It does not matter which element is taken first.                        *)
LEMMA TotalTake ==
    ASSUME NEW f, NEW S, IsFiniteSet(S), Ints(f, S), NEW x \in S
    PROVE  Total(f, S) = f[x] + Total(f, S \ {x})
<1> DEFINE C == {T \in SUBSET S : \E y \in T : Total(f, T) # f[y] + Total(f, T \ {y})}
<1>1. ASSUME C # {} PROVE FALSE
  <2>1. PICK t \in C : \A u \in C : u \subseteq t => u = t
    <3>1. C \subseteq SUBSET S
      OBVIOUS
    <3> HIDE DEF C
    <3>2. QED
      BY <1>1, <3>1, SmallestPart
  <2>2. PICK y \in t : Total(f, t) # f[y] + Total(f, t \ {y})
    OBVIOUS
  <2> DEFINE c == Chosen(t)
             v == t \ {c}
             w == t \ {y}
             r == t \ {c, y}
  <2>3. c \in t /\ t \in SUBSET S
    BY ChosenIn
  <2>4. IsFiniteSet(t)
    BY <2>3, FS_Subset
  <2>5. Total(f, t) = f[c] + Total(f, v)
    BY <2>3, <2>4, TotalChosen
  <2>6. y # c
    BY <2>2, <2>5
  <2>7. v \notin C /\ w \notin C
    BY <2>1, <2>3
  <2>8. /\ y \in v /\ v \ {y} = r /\ v \in SUBSET S
        /\ c \in w /\ w \ {c} = r /\ w \in SUBSET S
    BY <2>3, <2>6
  <2>9. Total(f, v) = f[y] + Total(f, r)
    BY <2>7, <2>8
  <2>10. Total(f, w) = f[c] + Total(f, r)
    BY <2>7, <2>8
  <2>11. f[y] \in Int /\ f[c] \in Int
    BY <2>3 DEF Ints
  <2>12. Total(f, r) \in Int
    BY <2>3, TotalInt
  <2> HIDE DEF c, v, w, r
  <2>13. QED
    BY <2>2, <2>5, <2>9, <2>10, <2>11, <2>12 DEF w
<1>2. QED
  BY <1>1

(* Equal summands have equal totals. *)
LEMMA TotalSame ==
    ASSUME NEW f, NEW g, NEW S, IsFiniteSet(S), \A x \in S : f[x] = g[x]
    PROVE  Total(f, S) = Total(g, S)
<1>1. PICK h : PartSums(f, S, h)
  BY SumsExists
<1>2. \A s \in SUBSET S : s # {} => f[Chosen(s)] = g[Chosen(s)]
  BY ChosenIn
<1>3. [s \in SUBSET S |-> IF s = {} THEN 0 ELSE f[Chosen(s)] + h[s \ {Chosen(s)}]]
      = [s \in SUBSET S |-> IF s = {} THEN 0 ELSE g[Chosen(s)] + h[s \ {Chosen(s)}]]
  BY <1>2
<1>4. PartSums(g, S, h)
  BY <1>1, <1>3 DEF PartSums
<1>5. QED
  BY <1>1, <1>4, TotalIs

(* What the row x adds to the sum over S.                                  *)
Part(f, S, x) == IF x \in S THEN f[x] ELSE 0

(* A total is the total of the others plus the part of one. *)
LEMMA TotalWithout ==
    ASSUME NEW f, NEW S, IsFiniteSet(S), Ints(f, S), NEW x
    PROVE  /\ Total(f, S) = Total(f, S \ {x}) + Part(f, S, x)
           /\ Total(f, S \ {x}) \in Int
           /\ Part(f, S, x) \in Int
<1>1. Total(f, S \ {x}) \in Int
  BY TotalInt
<1>2. Part(f, S, x) \in Int
  BY DEF Part, Ints
<1>3. CASE x \in S
  BY <1>1, <1>2, <1>3, TotalTake DEF Part
<1>4. CASE x \notin S
  <2>1. S \ {x} = S
    BY <1>4
  <2>2. Part(f, S, x) = 0
    BY <1>4 DEF Part
  <2>3. Total(f, S \ {x}) = Total(f, S)
    BY <2>1
  <2>4. QED
    BY <1>1, <2>2, <2>3
<1>5. QED
  BY <1>1, <1>2, <1>3, <1>4

(* A table of which at most the row x is changed, added or removed.        *)
LEMMA TotalChange ==
    ASSUME NEW f, NEW S, IsFiniteSet(S), Ints(f, S),
           NEW g, NEW T, IsFiniteSet(T), Ints(g, T),
           NEW x, S \ {x} = T \ {x}, \A y \in S \ {x} : f[y] = g[y]
    PROVE  /\ Total(g, T) = Total(f, S) - Part(f, S, x) + Part(g, T, x)
           /\ Total(f, S) \in Int /\ Total(g, T) \in Int
           /\ Part(f, S, x) \in Int /\ Part(g, T, x) \in Int
<1>1. IsFiniteSet(S \ {x})
  BY FS_RemoveElement
<1>2. Total(f, S \ {x}) = Total(g, T \ {x})
  BY <1>1, TotalSame
<1>3. /\ Total(f, S) = Total(f, S \ {x}) + Part(f, S, x)
      /\ Total(f, S \ {x}) \in Int
      /\ Part(f, S, x) \in Int
  BY TotalWithout
<1>4. /\ Total(g, T) = Total(g, T \ {x}) + Part(g, T, x)
      /\ Total(g, T \ {x}) \in Int
      /\ Part(g, T, x) \in Int
  BY TotalWithout
<1>5. QED
  BY <1>2, <1>3, <1>4

(* Two columns are added up row by row or one after the other.             *)
LEMMA TotalPlus ==
    ASSUME NEW f, NEW g, NEW h, NEW S, IsFiniteSet(S), Ints(f, S), Ints(g, S),
           \A x \in S : h[x] = f[x] + g[x]
    PROVE  Total(h, S) = Total(f, S) + Total(g, S)
<1> DEFINE P == {T \in SUBSET S : Total(h, T) = Total(f, T) + Total(g, T)}
<1>1. {} \in P
  BY TotalEmpty
<1>2. Ints(h, S)
  BY DEF Ints
<1>3. ASSUME NEW T \in SUBSET S, NEW x \in T, T \ {x} \in P PROVE T \in P
  <2>1. IsFiniteSet(T) /\ Ints(f, T) /\ Ints(g, T) /\ Ints(h, T)
    BY <1>2, FS_Subset DEF Ints
  <2> DEFINE r == T \ {x}
  <2>2. /\ Total(f, T) = f[x] + Total(f, r)
        /\ Total(g, T) = g[x] + Total(g, r)
        /\ Total(h, T) = h[x] + Total(h, r)
    BY <2>1, TotalTake
  <2>3. Total(h, r) = Total(f, r) + Total(g, r)
    BY <1>3
  <2>4. Total(f, r) \in Int /\ Total(g, r) \in Int
    BY <2>1, TotalInt
  <2>5. f[x] \in Int /\ g[x] \in Int /\ h[x] = f[x] + g[x]
    BY DEF Ints
  <2> HIDE DEF r
  <2>6. Total(h, T) = Total(f, T) + Total(g, T)
    BY <2>2, <2>3, <2>4, <2>5
  <2>7. QED
    BY <2>6
<1>4. (SUBSET S) \subseteq P
  <2> HIDE DEF P
  <2>1. QED
    BY <1>1, <1>3, PartInduction
<1>5. S \in P
  BY <1>4
<1>6. QED
  BY <1>5

(* Zeroes sum to zero. *)
LEMMA TotalZero ==
    ASSUME NEW f, NEW S, IsFiniteSet(S), \A x \in S : f[x] = 0
    PROVE  Total(f, S) = 0
<1>1. Ints(f, S)
  BY DEF Ints
<1>2. \A x \in S : f[x] = f[x] + f[x]
  OBVIOUS
<1>3. Total(f, S) = Total(f, S) + Total(f, S)
  BY <1>1, <1>2, TotalPlus
<1>4. Total(f, S) \in Int
  BY <1>1, TotalInt
<1>5. \A n \in Int : n = n + n => n = 0
  OBVIOUS
<1>6. QED
  BY <1>3, <1>4, <1>5

(* A sum of natural numbers is a natural number. *)
LEMMA TotalNat ==
    ASSUME NEW f, NEW S, IsFiniteSet(S), Nats(f, S)
    PROVE  Total(f, S) \in Nat
<1> DEFINE P == {T \in SUBSET S : Total(f, T) \in Nat}
<1>1. {} \in P
  BY TotalEmpty
<1>2. ASSUME NEW T \in SUBSET S, NEW x \in T, T \ {x} \in P PROVE T \in P
  <2>1. IsFiniteSet(T) /\ Ints(f, T)
    BY FS_Subset DEF Ints, Nats
  <2>2. Total(f, T) = f[x] + Total(f, T \ {x})
    BY <2>1, TotalTake
  <2>3. f[x] \in Nat
    BY DEF Nats
  <2>4. QED
    BY <1>2, <2>2, <2>3
<1>3. (SUBSET S) \subseteq P
  <2> HIDE DEF P
  <2>1. QED
    BY <1>1, <1>2, PartInduction
<1>4. S \in P
  BY <1>3
<1>5. QED
  BY <1>4

(* Two parts that have no element in common add up.                        *)
LEMMA TotalDisjoint ==
    ASSUME NEW f, NEW S, IsFiniteSet(S), Ints(f, S),
           NEW A \in SUBSET S, NEW B \in SUBSET S, A \cap B = {}
    PROVE  Total(f, A \cup B) = Total(f, A) + Total(f, B)
<1> DEFINE P == {T \in SUBSET B : Total(f, A \cup T) = Total(f, A) + Total(f, T)}
<1>1. \A T \in SUBSET S : Total(f, T) \in Int /\ IsFiniteSet(T) /\ Ints(f, T)
  BY TotalInt
<1>2. {} \in P
  <2>1. Total(f, {}) = 0 /\ A \cup {} = A
    BY TotalEmpty
  <2>2. Total(f, A) \in Int
    BY <1>1
  <2>3. QED
    BY <2>1, <2>2
<1>3. ASSUME NEW T \in SUBSET B, NEW x \in T, T \ {x} \in P PROVE T \in P
  <2> DEFINE r == T \ {x}
             U == A \cup T
             V == A \cup r
  <2>1. U \in SUBSET S /\ V \in SUBSET S /\ T \in SUBSET S /\ r \in SUBSET S
    OBVIOUS
  <2>2. U \ {x} = V /\ x \in U
    OBVIOUS
  <2>3. Total(f, T) = f[x] + Total(f, r)
    BY <1>1, <2>1, TotalTake
  <2>4. Total(f, V) = Total(f, A) + Total(f, r)
    BY <1>3
  <2> HIDE DEF U, V, r
  <2>5. Total(f, U) = f[x] + Total(f, V)
    BY <1>1, <2>1, <2>2, TotalTake
  <2>6. /\ Total(f, U) \in Int /\ Total(f, V) \in Int /\ Total(f, r) \in Int
        /\ Total(f, A) \in Int /\ f[x] \in Int
    BY <1>1, <2>1 DEF Ints
  <2>7. Total(f, U) = Total(f, A) + Total(f, T)
    BY <2>3, <2>4, <2>5, <2>6
  <2>8. QED
    BY <2>7 DEF U
<1>4. (SUBSET B) \subseteq P
  <2> HIDE DEF P
  <2>1. IsFiniteSet(B)
    BY <1>1
  <2>2. QED
    BY <1>2, <1>3, <2>1, PartInduction
<1>5. QED
  BY <1>4

(* A part of a sum of naturals is no more than the whole.                  *)
LEMMA TotalMonotone ==
    ASSUME NEW f, NEW S, IsFiniteSet(S), Nats(f, S), NEW T \in SUBSET S
    PROVE  /\ Total(f, T) \in Nat /\ Total(f, S) \in Nat
           /\ Total(f, T) <= Total(f, S)
<1> DEFINE R == S \ T
<1>1. IsFiniteSet(T) /\ IsFiniteSet(R) /\ Nats(f, T) /\ Nats(f, R) /\ Ints(f, S)
  BY FS_Subset DEF Nats, Ints
<1>2. R \in SUBSET S /\ T \cup R = S /\ T \cap R = {}
  OBVIOUS
<1> HIDE DEF R
<1>3. Total(f, S) = Total(f, T) + Total(f, R)
  BY <1>1, <1>2, TotalDisjoint
<1>4. Total(f, T) \in Nat /\ Total(f, R) \in Nat
  BY <1>1, TotalNat
<1>5. QED
  BY <1>3, <1>4

(* Functions that agree outside a part differ by what they give the part.  *)
LEMMA TotalReplaced ==
    ASSUME NEW f, NEW g, NEW S, IsFiniteSet(S), Ints(f, S), Ints(g, S),
           NEW A \in SUBSET S, \A x \in S \ A : f[x] = g[x]
    PROVE  /\ Total(g, S) = Total(f, S) - Total(f, A) + Total(g, A)
           /\ Total(f, S) \in Int /\ Total(f, A) \in Int /\ Total(g, A) \in Int
<1> DEFINE R == S \ A
<1>1. R \in SUBSET S /\ A \cup R = S /\ A \cap R = {} /\ IsFiniteSet(R)
  BY FS_Subset
<1>2. \A x \in R : f[x] = g[x]
  OBVIOUS
<1> HIDE DEF R
<1>3. Total(f, R) = Total(g, R)
  BY <1>1, <1>2, TotalSame
<1>4. Total(f, S) = Total(f, A) + Total(f, R) /\ Total(g, S) = Total(g, A) + Total(g, R)
  BY <1>1, TotalDisjoint
<1>5. /\ Total(f, S) \in Int /\ Total(f, A) \in Int /\ Total(g, A) \in Int
      /\ Total(f, R) \in Int
  BY <1>1, TotalInt
<1>6. QED
  BY <1>3, <1>4, <1>5
=============================================================================

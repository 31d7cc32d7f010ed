---------------------------- MODULE SumTheorems ----------------------------
(***************************************************************************)
(* Sums over finite sets, as SumFunctionOnSet of Functions computes them: a  *)
(* sum takes each element once, in whatever order its definition chooses.    *)
(* The induction is over a set of sets, for which the library's WFMin gives  *)
(* the smallest that is left out.                                           *)
(***************************************************************************)
EXTENDS Functions, Integers, FiniteSetTheorems, WellFoundedInduction, TLAPS

(* What holds of a set whenever it holds of all smaller ones holds of every   *)
(* subset of a finite set.                                                    *)
LEMMA SubsetInduction ==
  ASSUME NEW S, IsFiniteSet(S), NEW P,
         \A T \in SUBSET S : (\A U \in SUBSET T : U # T => U \in P) => T \in P
  PROVE  \A T \in SUBSET S : T \in P
<1> DEFINE bad == {T \in SUBSET S : T \notin P}
<1>1. SUFFICES ASSUME bad # {} PROVE FALSE
  OBVIOUS
<1>2. IsWellFoundedOn(StrictSubsetOrdering(S), SUBSET S)
  BY FS_StrictSubsetOrderingWellFounded, FS_FiniteSubsetsOfFinite
<1>3. bad \subseteq SUBSET S
  OBVIOUS
<1> HIDE DEF bad
<1>4. PICK T \in bad : \A U \in bad : <<U, T>> \notin StrictSubsetOrdering(S)
  BY <1>1, <1>2, <1>3, WFMin
<1> USE DEF bad
<1>5. \A U \in SUBSET T : U # T => U \in P
  BY <1>4 DEF StrictSubsetOrdering
<1> QED
  BY <1>4, <1>5

(* The recursive function a sum is read from, over the subsets of S. *)
Chosen(s) == CHOOSE x \in s : TRUE
Partial(f, S, it) ==
  it = [s \in SUBSET S |-> IF s = {} THEN 0 ELSE f[Chosen(s)] + it[s \ {Chosen(s)}]]

LEMMA ChosenIsOne == \A s : s # {} => Chosen(s) \in s
BY DEF Chosen

LEMMA ReadFromPartial ==
  ASSUME NEW f, NEW S
  PROVE  SumFunctionOnSet(f, S) = (CHOOSE it : Partial(f, S, it))[S]
BY DEF SumFunctionOnSet, FoldFunctionOnSet, MapThenFoldSet, Partial, Chosen

LEMMA PartialUnique ==
  ASSUME NEW f, NEW S, IsFiniteSet(S), NEW i, NEW j, Partial(f, S, i), Partial(f, S, j)
  PROVE  \A T \in SUBSET S : i[T] = j[T]
<1> DEFINE P == {T \in SUBSET S : i[T] = j[T]}
<1>1. ASSUME NEW T \in SUBSET S, \A U \in SUBSET T : U # T => U \in P
      PROVE  T \in P
  <2>1. CASE T = {}
    BY <2>1 DEF Partial
  <2>2. CASE T # {}
    <3>1. T \ {Chosen(T)} \in SUBSET T /\ T \ {Chosen(T)} # T
      BY <2>2, ChosenIsOne
    <3>2. i[T \ {Chosen(T)}] = j[T \ {Chosen(T)}]
      BY <1>1, <3>1
    <3> QED
      BY <2>2, <3>2 DEF Partial
  <2> QED
    BY <2>1, <2>2
<1> HIDE DEF P
<1>2. \A T \in SUBSET S : T \in P
  BY <1>1, SubsetInduction
<1> QED
  BY <1>2 DEF P

LEMMA PartialRestricts ==
  ASSUME NEW f, NEW S, NEW i, Partial(f, S, i), NEW T \in SUBSET S
  PROVE  Partial(f, T, [s \in SUBSET T |-> i[s]])
<1>1. ASSUME NEW s \in SUBSET T, s # {} PROVE s \ {Chosen(s)} \in SUBSET T
  OBVIOUS
<1> QED
  BY <1>1 DEF Partial

(* Where there is a partial sum over S, the sums of its subsets are read      *)
(* from it.                                                                  *)
LEMMA SumsFromPartial ==
  ASSUME NEW f, NEW S, IsFiniteSet(S), NEW i, Partial(f, S, i), NEW T \in SUBSET S
  PROVE  SumFunctionOnSet(f, T) = i[T]
<1> DEFINE r == [s \in SUBSET T |-> i[s]]
           j == CHOOSE it : Partial(f, T, it)
<1>1. Partial(f, T, r)
  BY PartialRestricts
<1> HIDE DEF r
<1>2. Partial(f, T, j)
  BY <1>1
<1> HIDE DEF j
<1>3. IsFiniteSet(T)
  BY FS_Subset
<1>4. r[T] = j[T]
  BY <1>1, <1>2, <1>3, PartialUnique
<1> QED
  BY <1>4, ReadFromPartial DEF r, j

LEMMA PartialExists ==
  ASSUME NEW f, NEW S, IsFiniteSet(S)
  PROVE  \E i : Partial(f, S, i)
<1> DEFINE P == {T \in SUBSET S : \E i : Partial(f, T, i)}
<1>1. ASSUME NEW T \in SUBSET S, \A U \in SUBSET T : U # T => U \in P
      PROVE  T \in P
  <2> DEFINE sum(s) == IF s = {} THEN 0
                       ELSE f[Chosen(s)] + SumFunctionOnSet(f, s \ {Chosen(s)})
             i == [s \in SUBSET T |-> sum(s)]
  <2>1. ASSUME NEW s \in SUBSET T, s # T PROVE SumFunctionOnSet(f, s) = sum(s)
    <3>1. PICK j : Partial(f, s, j)
      BY <1>1, <2>1
    <3>2. IsFiniteSet(s)
      BY FS_Subset
    <3>3. \A u \in SUBSET s : SumFunctionOnSet(f, u) = j[u]
      BY <3>1, <3>2, SumsFromPartial
    <3>4. s \ {Chosen(s)} \in SUBSET s /\ s \in SUBSET s
      OBVIOUS
    <3>5. j[s] = IF s = {} THEN 0 ELSE f[Chosen(s)] + j[s \ {Chosen(s)}]
      BY <3>1, <3>4 DEF Partial
    <3> QED
      BY <3>3, <3>4, <3>5
  <2>2. \A s \in SUBSET T : s # {} =>
          s \ {Chosen(s)} \in SUBSET T /\ s \ {Chosen(s)} # T
    BY ChosenIsOne
  <2>3. \A s \in SUBSET T : s # {} =>
          SumFunctionOnSet(f, s \ {Chosen(s)}) = i[s \ {Chosen(s)}]
    BY <2>1, <2>2
  <2>4. Partial(f, T, i)
    BY <2>3 DEF Partial
  <2> QED
    BY <2>4
<1> HIDE DEF P
<1>2. \A T \in SUBSET S : T \in P
  BY <1>1, SubsetInduction
<1> QED
  BY <1>2 DEF P

LEMMA SumUnfolds ==
  ASSUME NEW f, NEW S, IsFiniteSet(S)
  PROVE  SumFunctionOnSet(f, S) =
           IF S = {} THEN 0 ELSE f[Chosen(S)] + SumFunctionOnSet(f, S \ {Chosen(S)})
<1>1. PICK i : Partial(f, S, i)
  BY PartialExists
<1>2. S \in SUBSET S /\ S \ {Chosen(S)} \in SUBSET S
  OBVIOUS
<1>3. i[S] = IF S = {} THEN 0 ELSE f[Chosen(S)] + i[S \ {Chosen(S)}]
  BY <1>1, <1>2 DEF Partial
<1>4. \A T \in SUBSET S : SumFunctionOnSet(f, T) = i[T]
  BY <1>1, SumsFromPartial
<1> QED
  BY <1>2, <1>3, <1>4

-----------------------------------------------------------------------------
(* What proofs about sums need. *)

LEMMA SumEmpty == \A f : SumFunctionOnSet(f, {}) = 0
BY SumUnfolds, FS_EmptySet

(* A sum of numbers is a number, and of naturals a natural.                   *)
LEMMA SumInt ==
  ASSUME NEW f, NEW S, IsFiniteSet(S), \A x \in S : f[x] \in Int
  PROVE  SumFunctionOnSet(f, S) \in Int
<1> DEFINE P == {T \in SUBSET S : SumFunctionOnSet(f, T) \in Int}
<1>1. ASSUME NEW T \in SUBSET S, \A U \in SUBSET T : U # T => U \in P
      PROVE  T \in P
  <2>1. IsFiniteSet(T)
    BY FS_Subset
  <2>2. CASE T = {}
    BY <2>2, SumEmpty
  <2>3. CASE T # {}
    <3>1. Chosen(T) \in T /\ T \ {Chosen(T)} \in SUBSET T /\ T \ {Chosen(T)} # T
      BY <2>3, ChosenIsOne
    <3>2. SumFunctionOnSet(f, T \ {Chosen(T)}) \in Int /\ f[Chosen(T)] \in Int
      BY <1>1, <3>1
    <3>3. SumFunctionOnSet(f, T) = f[Chosen(T)] + SumFunctionOnSet(f, T \ {Chosen(T)})
      BY <2>1, <2>3, SumUnfolds
    <3> QED
      BY <3>2, <3>3
  <2> QED
    BY <2>2, <2>3
<1> HIDE DEF P
<1>2. \A T \in SUBSET S : T \in P
  BY <1>1, SubsetInduction
<1> QED
  BY <1>2 DEF P

LEMMA SumOfZeros ==
  ASSUME NEW f, NEW S, IsFiniteSet(S), \A x \in S : f[x] = 0
  PROVE  SumFunctionOnSet(f, S) = 0
<1> DEFINE P == {T \in SUBSET S : SumFunctionOnSet(f, T) = 0}
<1>1. ASSUME NEW T \in SUBSET S, \A U \in SUBSET T : U # T => U \in P
      PROVE  T \in P
  <2>1. CASE T = {}
    BY <2>1, SumEmpty
  <2>2. CASE T # {}
    <3>1. Chosen(T) \in T /\ T \ {Chosen(T)} \in SUBSET T /\ T \ {Chosen(T)} # T
      BY <2>2, ChosenIsOne
    <3>2. SumFunctionOnSet(f, T \ {Chosen(T)}) = 0 /\ f[Chosen(T)] = 0 /\ IsFiniteSet(T)
      BY <1>1, <3>1, FS_Subset
    <3> QED
      BY <2>2, <3>2, SumUnfolds
  <2> QED
    BY <2>1, <2>2
<1> HIDE DEF P
<1>2. \A T \in SUBSET S : T \in P
  BY <1>1, SubsetInduction
<1> QED
  BY <1>2 DEF P

(* A sum is any of its elements and the sum of the others.                    *)
LEMMA SumTakes ==
  ASSUME NEW f, NEW S, IsFiniteSet(S), \A x \in S : f[x] \in Int, NEW x \in S
  PROVE  SumFunctionOnSet(f, S) = f[x] + SumFunctionOnSet(f, S \ {x})
<1> DEFINE P == {T \in SUBSET S : \A y \in T :
                   SumFunctionOnSet(f, T) = f[y] + SumFunctionOnSet(f, T \ {y})}
<1>1. ASSUME NEW T \in SUBSET S, \A U \in SUBSET T : U # T => U \in P
      PROVE  T \in P
  <2> SUFFICES ASSUME NEW y \in T
               PROVE  SumFunctionOnSet(f, T) = f[y] + SumFunctionOnSet(f, T \ {y})
    OBVIOUS
  <2>1. Chosen(T) \in T /\ IsFiniteSet(T)
    BY ChosenIsOne, FS_Subset
  <2>2. SumFunctionOnSet(f, T) = f[Chosen(T)] + SumFunctionOnSet(f, T \ {Chosen(T)})
    BY <2>1, SumUnfolds
  <2>3. CASE y # Chosen(T)
    <3> DEFINE z == Chosen(T)
               rest == T \ {y, z}
    <3>1. /\ T \ {z} \in SUBSET T /\ T \ {z} # T /\ y \in T \ {z}
          /\ T \ {y} \in SUBSET T /\ T \ {y} # T /\ z \in T \ {y}
      BY <2>1, <2>3
    <3>2. (T \ {z}) \ {y} = rest /\ (T \ {y}) \ {z} = rest
      OBVIOUS
    <3>3. /\ SumFunctionOnSet(f, T \ {z}) = f[y] + SumFunctionOnSet(f, rest)
          /\ SumFunctionOnSet(f, T \ {y}) = f[z] + SumFunctionOnSet(f, rest)
      <4> HIDE DEF z, rest
      <4> QED
        BY <1>1, <3>1, <3>2
    <3>4. SumFunctionOnSet(f, rest) \in Int /\ f[y] \in Int /\ f[z] \in Int
      <4>1. IsFiniteSet(rest)
        BY <2>1, FS_Subset
      <4> QED
        BY <2>1, <4>1, SumInt
    <3> HIDE DEF rest
    <3> QED
      BY <2>2, <3>3, <3>4
  <2> QED
    BY <2>2, <2>3
<1> HIDE DEF P
<1>2. \A T \in SUBSET S : T \in P
  BY <1>1, SubsetInduction
<1> QED
  BY <1>2 DEF P

(* Sums of the same numbers are the same.                                     *)
LEMMA SumSame ==
  ASSUME NEW f, NEW g, NEW S, IsFiniteSet(S), \A x \in S : f[x] = g[x]
  PROVE  SumFunctionOnSet(f, S) = SumFunctionOnSet(g, S)
<1>1. PICK i : Partial(f, S, i)
  BY PartialExists
<1>2. Partial(g, S, i)
  BY <1>1, ChosenIsOne DEF Partial
<1> QED
  BY <1>1, <1>2, SumsFromPartial

(* A change of one element changes the sum by as much.                        *)
LEMMA SumChanges ==
  ASSUME NEW f, NEW g, NEW S, IsFiniteSet(S), NEW x \in S,
         \A y \in S : f[y] \in Int /\ g[y] \in Int,
         \A y \in S \ {x} : f[y] = g[y]
  PROVE  SumFunctionOnSet(g, S) = SumFunctionOnSet(f, S) - f[x] + g[x]
<1>1. IsFiniteSet(S \ {x})
  BY FS_Subset
<1>2. SumFunctionOnSet(f, S \ {x}) = SumFunctionOnSet(g, S \ {x})
  BY <1>1, SumSame
<1>3. SumFunctionOnSet(f, S \ {x}) \in Int
  BY <1>1, SumInt
<1>4. /\ SumFunctionOnSet(f, S) = f[x] + SumFunctionOnSet(f, S \ {x})
      /\ SumFunctionOnSet(g, S) = g[x] + SumFunctionOnSet(g, S \ {x})
  BY SumTakes
<1> QED
  BY <1>2, <1>3, <1>4

(* A sum is at most that of larger numbers.                                   *)
LEMMA SumGrows ==
  ASSUME NEW f, NEW g, NEW S, IsFiniteSet(S),
         \A x \in S : f[x] \in Int /\ g[x] \in Int /\ f[x] <= g[x]
  PROVE  SumFunctionOnSet(f, S) <= SumFunctionOnSet(g, S)
<1> DEFINE P == {T \in SUBSET S : SumFunctionOnSet(f, T) <= SumFunctionOnSet(g, T)}
<1>1. ASSUME NEW T \in SUBSET S, \A U \in SUBSET T : U # T => U \in P
      PROVE  T \in P
  <2>1. CASE T = {}
    BY <2>1, SumEmpty
  <2>2. CASE T # {}
    <3>1. PICK x \in T : TRUE
      BY <2>2
    <3>2. IsFiniteSet(T) /\ IsFiniteSet(T \ {x})
      BY FS_Subset
    <3>3. SumFunctionOnSet(f, T \ {x}) <= SumFunctionOnSet(g, T \ {x})
      BY <1>1, <3>1
    <3>4. /\ SumFunctionOnSet(f, T) = f[x] + SumFunctionOnSet(f, T \ {x})
          /\ SumFunctionOnSet(g, T) = g[x] + SumFunctionOnSet(g, T \ {x})
      BY <3>1, <3>2, SumTakes
    <3>5. SumFunctionOnSet(f, T \ {x}) \in Int /\ SumFunctionOnSet(g, T \ {x}) \in Int
      BY <3>1, <3>2, SumInt
    <3> QED
      BY <3>1, <3>3, <3>4, <3>5
  <2> QED
    BY <2>1, <2>2
<1> HIDE DEF P
<1>2. \A T \in SUBSET S : T \in P
  BY <1>1, SubsetInduction
<1> QED
  BY <1>2 DEF P

(* A sum of naturals is a natural, no less than any of them.                  *)
LEMMA SumNat ==
  ASSUME NEW f, NEW S, IsFiniteSet(S), \A x \in S : f[x] \in Nat
  PROVE  /\ SumFunctionOnSet(f, S) \in Nat
         /\ \A x \in S : f[x] <= SumFunctionOnSet(f, S)
<1> DEFINE P == {T \in SUBSET S : SumFunctionOnSet(f, T) >= 0}
<1>1. ASSUME NEW T \in SUBSET S, \A U \in SUBSET T : U # T => U \in P
      PROVE  T \in P
  <2>1. CASE T = {}
    BY <2>1, SumEmpty
  <2>2. CASE T # {}
    <3>1. PICK x \in T : TRUE
      BY <2>2
    <3>2. IsFiniteSet(T) /\ IsFiniteSet(T \ {x})
      BY FS_Subset
    <3>3. SumFunctionOnSet(f, T \ {x}) >= 0
      BY <1>1, <3>1
    <3>4. SumFunctionOnSet(f, T) = f[x] + SumFunctionOnSet(f, T \ {x})
      BY <3>1, <3>2, SumTakes
    <3>5. SumFunctionOnSet(f, T \ {x}) \in Int
      BY <3>1, <3>2, SumInt
    <3> QED
      BY <3>1, <3>3, <3>4, <3>5
  <2> QED
    BY <2>1, <2>2
<1> HIDE DEF P
<1>2. \A T \in SUBSET S : T \in P
  BY <1>1, SubsetInduction
<1>3. \A T \in SUBSET S : SumFunctionOnSet(f, T) \in Nat
  <2> SUFFICES ASSUME NEW T \in SUBSET S PROVE SumFunctionOnSet(f, T) \in Nat
    OBVIOUS
  <2>1. SumFunctionOnSet(f, T) \in Int
    BY FS_Subset, SumInt
  <2> QED
    BY <1>2, <2>1 DEF P
<1>4. ASSUME NEW x \in S PROVE f[x] <= SumFunctionOnSet(f, S)
  <2>1. SumFunctionOnSet(f, S) = f[x] + SumFunctionOnSet(f, S \ {x})
    BY SumTakes
  <2> QED
    BY <1>3, <2>1
<1> QED
  BY <1>3, <1>4
=============================================================================

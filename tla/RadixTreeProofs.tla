-------------------------- MODULE RadixTreeProofs --------------------------
(***************************************************************************)
(* What the loop of rh_follow_path and the calls of insert_into_rh_tree    *)
(* come to, whatever the nodes of the tree are: the equations that a       *)
(* reader of the code would write for them, along the children of a node.  *)
(***************************************************************************)
EXTENDS RadixTree, FiniteSetTheorems, WellFoundedInduction, TLAPS

(***************************************************************************)
(* Recursive functions on the natural numbers.                             *)
(***************************************************************************)

(* Induction, for a set of numbers.                                         *)
LEMMA NatSetInduction ==
  ASSUME NEW S, 0 \in S, \A n \in Nat : n \in S => n + 1 \in S
  PROVE  \A n \in Nat : n \in S
<1> DEFINE B == Nat \ S
<1>1. SUFFICES ASSUME B # {} PROVE FALSE
  OBVIOUS
<1>2. IsWellFoundedOn(OpToRel(<, Nat), Nat)
  BY NatLessThanWellFounded
<1> HIDE DEF B
<1>3. PICK n \in B : \A m \in B : ~ (<<m, n>> \in OpToRel(<, Nat))
  <2>1. B \subseteq Nat
    BY DEF B
  <2>2. QED
    BY <1>1, <1>2, <2>1, WFMin
<1>4. n \in Nat /\ n # 0
  BY <1>3 DEF B
<1>5. n - 1 \in Nat /\ n - 1 < n
  BY <1>4
<1>6. <<n - 1, n>> \in OpToRel(<, Nat)
  BY <1>4, <1>5 DEF OpToRel
<1>7. n - 1 \in S
  BY <1>3, <1>5, <1>6 DEF B
<1>8. n \in S
  BY <1>4, <1>5, <1>7
<1>9. QED
  BY <1>3, <1>8 DEF B
-----------------------------------------------------------------------------
(***************************************************************************)
(* Sums over finite sets.  MapThenSumSet takes an element out of the set   *)
(* and adds its value to the sum of the rest.  That this determines a sum, *)
(* and that it does not depend on the order in which elements are taken,   *)
(* is proved here.  Every lemma is proved by taking a smallest set that is *)
(* an exception to it.                                                     *)
(***************************************************************************)
SumOf(f, S) == MapThenSumSet(LAMBDA x : f[x], S)

(* The element that MapThenSumSet takes out first.                          *)
First(s) == CHOOSE x \in s : TRUE

(* The function over the subsets of S that MapThenSumSet chooses.           *)
IsSum(f, S, it) ==
  it = [s \in SUBSET S |-> IF s = {} THEN 0
                           ELSE f[First(s)] + it[s \ {First(s)}]]

(* The equation by which a sum is meant to be defined.                      *)
SumEquation(f, s) ==
  SumOf(f, s) = IF s = {} THEN 0
                ELSE f[First(s)] + SumOf(f, s \ {First(s)})

(* Any exceptions among the subsets of a finite set include a smallest one. *)
LEMMA SmallestSet ==
  ASSUME NEW S, IsFiniteSet(S), NEW B, B \subseteq SUBSET S, B # {}
  PROVE  \E T \in B : \A U \in SUBSET T : U # T => U \notin B
<1>1. IsWellFoundedOn(StrictSubsetOrdering(S), SUBSET S)
  BY FS_StrictSubsetOrderingWellFounded, FS_FiniteSubsetsOfFinite
<1>2. PICK T \in B : \A U \in B : ~ (<<U, T>> \in StrictSubsetOrdering(S))
  BY <1>1, WFMin
<1>3. ASSUME NEW U \in SUBSET T, U # T, U \in B
      PROVE  FALSE
  <2>1. U \in SUBSET S /\ T \in SUBSET S
    BY <1>3
  <2>2. <<U, T>> \in StrictSubsetOrdering(S)
    BY <1>3, <2>1 DEF StrictSubsetOrdering
  <2>3. QED
    BY <1>2, <1>3, <2>2
<1>4. QED
  BY <1>2, <1>3

LEMMA SumIsChosen ==
  ASSUME NEW f, NEW S
  PROVE  SumOf(f, S) = (CHOOSE it : IsSum(f, S, it))[S]
BY DEF SumOf, MapThenSumSet, MapThenFoldSet, IsSum, First

LEMMA FirstIsElement ==
  ASSUME NEW s, s # {}
  PROVE  /\ First(s) \in s
         /\ s \ {First(s)} \in SUBSET s
         /\ s \ {First(s)} # s
BY DEF First

(* A sum satisfies its equation.  Were T a smallest set for which it does   *)
(* not, the sums of the smaller sets would make a function that satisfies   *)
(* it for T, and all functions that do agree with them.                     *)
LEMMA SumIsDefined ==
  ASSUME NEW f, NEW S, IsFiniteSet(S)
  PROVE  SumEquation(f, S)
<1> DEFINE B == {T \in SUBSET S : ~ SumEquation(f, T)}
<1>1. SUFFICES ASSUME B # {} PROVE FALSE
  OBVIOUS
<1> HIDE DEF B
<1>2. PICK T \in B : \A U \in SUBSET T : U # T => U \notin B
  <2>1. B \subseteq SUBSET S
    BY DEF B
  <2>2. QED
    BY <1>1, <2>1, SmallestSet
<1>3. /\ T \in SUBSET S /\ ~ SumEquation(f, T)
      /\ \A U \in SUBSET T : U # T => SumEquation(f, U)
  BY <1>2 DEF B
<1>4. IsFiniteSet(T)
  BY <1>3, FS_Subset
<1> DEFINE top == IF T = {} THEN 0
                  ELSE f[First(T)] + SumOf(f, T \ {First(T)})
           good == [s \in SUBSET T |-> IF s = T THEN top ELSE SumOf(f, s)]
<1>5. IsSum(f, T, good)
  <2>1. ASSUME NEW s \in SUBSET T
        PROVE  good[s] = IF s = {} THEN 0
                         ELSE f[First(s)] + good[s \ {First(s)}]
    <3>1. s # {} => /\ s \ {First(s)} \in SUBSET T
                    /\ s \ {First(s)} # T
                    /\ s \ {First(s)} # s
      BY FirstIsElement
    <3>2. s # {} => good[s \ {First(s)}] = SumOf(f, s \ {First(s)})
      BY <3>1
    <3>3. CASE s = T
      BY <3>2, <3>3
    <3>4. CASE s # T
      BY <1>3, <3>2, <3>4 DEF SumEquation
    <3>5. QED
      BY <3>3, <3>4
  <2>2. good = [s \in SUBSET T |-> good[s]]
    OBVIOUS
  <2> HIDE DEF good
  <2>3. [s \in SUBSET T |-> good[s]] =
        [s \in SUBSET T |-> IF s = {} THEN 0
                            ELSE f[First(s)] + good[s \ {First(s)}]]
    BY <2>1
  <2>4. QED
    BY <2>2, <2>3 DEF IsSum
<1> HIDE DEF good
<1> DEFINE it == CHOOSE x : IsSum(f, T, x)
<1>6. IsSum(f, T, it)
  BY <1>5
<1>7. SumOf(f, T) = it[T]
  BY SumIsChosen
<1> HIDE DEF it
<1>8. \A s \in SUBSET T : it[s] = IF s = {} THEN 0
                                  ELSE f[First(s)] + it[s \ {First(s)}]
  BY <1>6 DEF IsSum
<1>9. \A s \in SUBSET T : s # T => it[s] = SumOf(f, s)
  <2> DEFINE D == {s \in SUBSET T : s # T /\ it[s] # SumOf(f, s)}
  <2>1. SUFFICES ASSUME D # {} PROVE FALSE
    OBVIOUS
  <2> HIDE DEF D
  <2>2. PICK s \in D : \A U \in SUBSET s : U # s => U \notin D
    <3>1. D \subseteq SUBSET T
      BY DEF D
    <3>2. QED
      BY <1>4, <2>1, <3>1, SmallestSet
  <2>3. /\ s \in SUBSET T /\ s # T /\ it[s] # SumOf(f, s)
        /\ \A U \in SUBSET s : U # s => it[U] = SumOf(f, U)
    BY <2>2 DEF D
  <2>4. SumEquation(f, s)
    BY <1>3, <2>3
  <2>5. s # {} => it[s \ {First(s)}] = SumOf(f, s \ {First(s)})
    BY <2>3, FirstIsElement
  <2>6. QED
    BY <1>8, <2>3, <2>4, <2>5 DEF SumEquation
<1>10. T # {} => it[T \ {First(T)}] = SumOf(f, T \ {First(T)})
  BY <1>9, FirstIsElement
<1>11. SumEquation(f, T)
  BY <1>7, <1>8, <1>10 DEF SumEquation
<1>12. QED
  BY <1>3, <1>11
LEMMA SumOfNone == ASSUME NEW f PROVE SumOf(f, {}) = 0
BY SumIsDefined, FS_EmptySet DEF SumEquation

(* The sum of natural numbers is one.                                       *)
LEMMA SumInNat ==
  ASSUME NEW f, NEW S, IsFiniteSet(S), \A x \in S : f[x] \in Nat
  PROVE  SumOf(f, S) \in Nat
<1> DEFINE B == {T \in SUBSET S : SumOf(f, T) \notin Nat}
<1>1. SUFFICES ASSUME B # {} PROVE FALSE
  OBVIOUS
<1> HIDE DEF B
<1>2. PICK T \in B : \A U \in SUBSET T : U # T => U \notin B
  <2>1. B \subseteq SUBSET S
    BY DEF B
  <2>2. QED
    BY <1>1, <2>1, SmallestSet
<1>3. /\ T \in SUBSET S /\ SumOf(f, T) \notin Nat
      /\ \A U \in SUBSET T : U # T => SumOf(f, U) \in Nat
  BY <1>2 DEF B
<1>4. SumEquation(f, T)
  BY <1>3, FS_Subset, SumIsDefined
<1>5. CASE T = {}
  BY <1>3, <1>5, SumOfNone
<1>6. CASE T # {}
  <2>1. f[First(T)] \in Nat /\ SumOf(f, T \ {First(T)}) \in Nat
    BY <1>3, <1>6, FirstIsElement
  <2>2. SumOf(f, T) = f[First(T)] + SumOf(f, T \ {First(T)})
    BY <1>4, <1>6 DEF SumEquation
  <2>3. QED
    BY <1>3, <2>1, <2>2
<1>7. QED
  BY <1>5, <1>6

(* Any element can be taken out, not only the first.                        *)
LEMMA SumTakesOut ==
  ASSUME NEW f, NEW S, IsFiniteSet(S), \A x \in S : f[x] \in Nat,
         NEW e \in S
  PROVE  SumOf(f, S) = f[e] + SumOf(f, S \ {e})
<1> DEFINE Holds(T, x) == SumOf(f, T) = f[x] + SumOf(f, T \ {x})
           B == {T \in SUBSET S : \E x \in T : ~ Holds(T, x)}
<1>1. SUFFICES ASSUME B # {} PROVE FALSE
  OBVIOUS
<1> HIDE DEF B
<1>2. PICK T \in B : \A U \in SUBSET T : U # T => U \notin B
  <2>1. B \subseteq SUBSET S
    BY DEF B
  <2>2. QED
    BY <1>1, <2>1, SmallestSet
<1>3. T \in SUBSET S /\ \A U \in SUBSET T : U # T => \A x \in U : Holds(U, x)
  BY <1>2 DEF B
<1>4. PICK x \in T : ~ Holds(T, x)
  BY <1>2 DEF B
<1> DEFINE y == First(T)
<1>5. y \in T /\ T # {}
  BY <1>4, FirstIsElement
<1>6. SumOf(f, T) = f[y] + SumOf(f, T \ {y})
  BY <1>3, <1>5, FS_Subset, SumIsDefined DEF SumEquation
<1> HIDE DEF y
<1>7. x # y
  BY <1>4, <1>6
<1>8. Holds(T \ {y}, x)
  <2>1. T \ {y} \in SUBSET T /\ T \ {y} # T /\ x \in T \ {y}
    BY <1>4, <1>5, <1>7
  <2>2. QED
    BY <1>3, <2>1
<1>9. Holds(T \ {x}, y)
  <2>1. T \ {x} \in SUBSET T /\ T \ {x} # T /\ y \in T \ {x}
    BY <1>4, <1>5, <1>7
  <2>2. QED
    BY <1>3, <2>1
<1>10. (T \ {y}) \ {x} = (T \ {x}) \ {y}
  OBVIOUS
<1>11. /\ f[x] \in Nat /\ f[y] \in Nat
       /\ SumOf(f, (T \ {x}) \ {y}) \in Nat
  <2>1. IsFiniteSet((T \ {x}) \ {y})
    BY <1>3, FS_Subset
  <2>2. QED
    BY <1>3, <1>5, <2>1, SumInNat
<1>12. Holds(T, x)
  <2>1. SumOf(f, T) = f[y] + (f[x] + SumOf(f, (T \ {x}) \ {y}))
    BY <1>6, <1>8, <1>10
  <2>2. SumOf(f, T \ {x}) = f[y] + SumOf(f, (T \ {x}) \ {y})
    BY <1>9
  <2>3. QED
    BY <1>11, <2>1, <2>2
<1>13. QED
  BY <1>4, <1>12

LEMMA SumPutsIn ==
  ASSUME NEW f, NEW S, IsFiniteSet(S), NEW e, e \notin S,
         \A x \in S \cup {e} : f[x] \in Nat
  PROVE  SumOf(f, S \cup {e}) = f[e] + SumOf(f, S)
<1>1. IsFiniteSet(S \cup {e}) /\ (S \cup {e}) \ {e} = S
  BY FS_AddElement
<1>2. QED
  BY <1>1, SumTakesOut

(* If the values of two functions add up to those of a third, element by    *)
(* element, so do their sums.                                               *)
LEMMA SumsAdd ==
  ASSUME NEW f, NEW g, NEW h, NEW S, IsFiniteSet(S),
         \A x \in S : f[x] \in Nat /\ g[x] \in Nat /\ h[x] = f[x] + g[x]
  PROVE  SumOf(h, S) = SumOf(f, S) + SumOf(g, S)
<1> DEFINE B == {T \in SUBSET S : SumOf(h, T) # SumOf(f, T) + SumOf(g, T)}
<1>1. SUFFICES ASSUME B # {} PROVE FALSE
  OBVIOUS
<1> HIDE DEF B
<1>2. PICK T \in B : \A U \in SUBSET T : U # T => U \notin B
  <2>1. B \subseteq SUBSET S
    BY DEF B
  <2>2. QED
    BY <1>1, <2>1, SmallestSet
<1>3. /\ T \in SUBSET S /\ SumOf(h, T) # SumOf(f, T) + SumOf(g, T)
      /\ \A U \in SUBSET T : U # T => SumOf(h, U) = SumOf(f, U) + SumOf(g, U)
  BY <1>2 DEF B
<1>4. CASE T = {}
  BY <1>3, <1>4, SumOfNone
<1>5. CASE T # {}
  <2> DEFINE x == First(T)
             U == T \ {x}
  <2>1. x \in T /\ U \in SUBSET T /\ U # T
    BY <1>5, FirstIsElement
  <2>2. IsFiniteSet(T) /\ IsFiniteSet(U)
    BY <1>3, <2>1, FS_Subset
  <2>3. /\ SumOf(f, T) = f[x] + SumOf(f, U)
        /\ SumOf(g, T) = g[x] + SumOf(g, U)
        /\ SumOf(h, T) = h[x] + SumOf(h, U)
    BY <1>5, <2>2, SumIsDefined DEF SumEquation
  <2> HIDE DEF x, U
  <2>4. f[x] \in Nat /\ g[x] \in Nat /\ h[x] = f[x] + g[x]
    BY <1>3, <2>1
  <2>5. SumOf(f, U) \in Nat /\ SumOf(g, U) \in Nat
    BY <1>3, <2>1, <2>2, SumInNat
  <2>6. SumOf(h, U) = SumOf(f, U) + SumOf(g, U)
    BY <1>3, <2>1
  <2>7. QED
    BY <1>3, <2>3, <2>4, <2>5, <2>6
<1>6. QED
  BY <1>4, <1>5

(* The sum over two sets that have no element in common.                    *)
LEMMA SumOfUnion ==
  ASSUME NEW f, NEW S, IsFiniteSet(S), NEW R, IsFiniteSet(R), S \cap R = {},
         \A x \in S \cup R : f[x] \in Nat
  PROVE  SumOf(f, S \cup R) = SumOf(f, S) + SumOf(f, R)
<1> DEFINE Holds(T) == SumOf(f, S \cup T) = SumOf(f, S) + SumOf(f, T)
           B == {T \in SUBSET R : ~ Holds(T)}
<1>1. SUFFICES ASSUME B # {} PROVE FALSE
  OBVIOUS
<1> HIDE DEF B
<1>2. PICK T \in B : \A U \in SUBSET T : U # T => U \notin B
  <2>1. B \subseteq SUBSET R
    BY DEF B
  <2>2. QED
    BY <1>1, <2>1, SmallestSet
<1>3. T \in SUBSET R /\ ~ Holds(T) /\ \A U \in SUBSET T : U # T => Holds(U)
  BY <1>2 DEF B
<1>4. SumOf(f, S) \in Nat
  BY SumInNat
<1>5. CASE T = {}
  <2>1. SumOf(f, T) = 0 /\ SumOf(f, S \cup T) = SumOf(f, S)
    <3>1. S \cup T = S
      BY <1>5
    <3>2. SumOf(f, S \cup T) = SumOf(f, S)
      BY ONLY <3>1, Zenon
    <3>3. QED
      BY <1>5, <3>2, SumOfNone
  <2>2. Holds(T)
    BY ONLY <1>4, <2>1
  <2>3. QED
    BY ONLY <1>3, <2>2
<1>6. CASE T # {}
  <2>1. PICK x : x \in T
    BY <1>6
  <2>2. PICK U : U = T \ {x}
    OBVIOUS
  <2>3. U \in SUBSET T /\ U # T /\ x \in R /\ x \notin S \cup U
    BY <1>3, <2>1, <2>2
  <2>4. IsFiniteSet(U) /\ IsFiniteSet(T) /\ IsFiniteSet(S \cup U)
    BY <1>3, <2>3, FS_Subset, FS_Union
  <2>5. \A y \in (S \cup U) \cup {x} : f[y] \in Nat
    BY <1>3, <2>1, <2>3
  <2>6. SumOf(f, (S \cup U) \cup {x}) = f[x] + SumOf(f, S \cup U)
    BY <2>3, <2>4, <2>5, SumPutsIn
  <2>7. SumOf(f, T) = f[x] + SumOf(f, U)
    <3>1. \A y \in T : f[y] \in Nat
      BY <1>3
    <3>2. QED
      BY <2>1, <2>2, <2>4, <3>1, SumTakesOut
  <2>8. (S \cup U) \cup {x} = S \cup T
    BY <2>1, <2>2
  <2>9. f[x] \in Nat /\ SumOf(f, U) \in Nat
    BY <2>4, <2>5, SumInNat
  <2>10. SumOf(f, S \cup U) = SumOf(f, S) + SumOf(f, U)
    BY <1>3, <2>3
  <2>11. SumOf(f, S \cup T) = f[x] + SumOf(f, S \cup U)
    BY ONLY <2>6, <2>8
  <2>12. Holds(T)
    BY ONLY <1>4, <2>7, <2>9, <2>10, <2>11
  <2>13. QED
    BY ONLY <1>3, <2>12
<1>7. QED
  BY <1>5, <1>6

(* All that a function makes of the elements of a set.                     *)
Images(f, before) == UNION {f[x] : x \in before}

(* The sum of sums over sets of which no two have an element in common is   *)
(* the sum over all of their elements.                                      *)
LEMMA SumOfSums ==
  ASSUME NEW D, IsFiniteSet(D), NEW part, NEW f, NEW g,
         \A d \in D : IsFiniteSet(part[d]) /\ \A x \in part[d] : f[x] \in Nat,
         \A c, d \in D : c # d => part[c] \cap part[d] = {},
         \A d \in D : g[d] = SumOf(f, part[d])
  PROVE  /\ IsFiniteSet(Images(part, D))
         /\ SumOf(f, Images(part, D)) = SumOf(g, D)
<1> DEFINE Holds(T) == /\ IsFiniteSet(Images(part, T))
                       /\ SumOf(f, Images(part, T)) = SumOf(g, T)
           B == {T \in SUBSET D : ~ Holds(T)}
<1>1. SUFFICES ASSUME B # {} PROVE FALSE
  OBVIOUS
<1> HIDE DEF B
<1>2. PICK T \in B : \A U \in SUBSET T : U # T => U \notin B
  <2>1. B \subseteq SUBSET D
    BY DEF B
  <2>2. QED
    BY <1>1, <2>1, SmallestSet
<1>3. T \in SUBSET D /\ ~ Holds(T) /\ \A U \in SUBSET T : U # T => Holds(U)
  BY <1>2 DEF B
<1>4. CASE T = {}
  <2>1. Images(part, T) = {}
    BY <1>4 DEF Images
  <2>2. QED
    BY <1>3, <1>4, <2>1, SumOfNone, FS_EmptySet
<1>5. CASE T # {}
  <2>1. PICK e : e \in T
    BY <1>5
  <2>2. PICK U : U = T \ {e}
    OBVIOUS
  <2>3. U \in SUBSET T /\ U # T /\ e \in D
    BY <1>3, <2>1, <2>2
  <2>4. IsFiniteSet(Images(part, U)) /\ SumOf(f, Images(part, U)) = SumOf(g, U)
    BY <1>3, <2>3
  <2>5. Images(part, T) = Images(part, U) \cup part[e]
    BY <2>1, <2>2 DEF Images
  <2>6. Images(part, U) \cap part[e] = {}
    BY <1>3, <2>1, <2>2, <2>3 DEF Images
  <2>7. IsFiniteSet(part[e]) /\ IsFiniteSet(Images(part, T))
    <3>1. IsFiniteSet(part[e])
      BY <2>3
    <3>2. IsFiniteSet(Images(part, U) \cup part[e])
      BY ONLY <2>4, <3>1, FS_Union
    <3>3. QED
      BY ONLY <2>5, <3>1, <3>2
  <2>8. \A x \in Images(part, U) \cup part[e] : f[x] \in Nat
    BY <1>3, <2>3 DEF Images
  <2>9. SumOf(f, Images(part, T)) = SumOf(g, U) + g[e]
    BY <2>3, <2>4, <2>5, <2>6, <2>7, <2>8, SumOfUnion
  <2>10. \A d \in D : g[d] \in Nat
    BY SumInNat
  <2>11. SumOf(g, T) = g[e] + SumOf(g, U) /\ SumOf(g, U) \in Nat
    <3>1. IsFiniteSet(T) /\ IsFiniteSet(U)
      BY <1>3, <2>3, FS_Subset
    <3>2. \A d \in T : g[d] \in Nat
      BY <1>3, <2>10
    <3>3. \A d \in U : g[d] \in Nat
      BY <2>3, <3>2
    <3>4. QED
      BY <2>1, <2>2, <3>1, <3>2, <3>3, SumTakesOut, SumInNat
  <2>12. QED
    BY <1>3, <2>3, <2>7, <2>9, <2>10, <2>11
<1>6. QED
  BY <1>4, <1>5

(* A finite set of numbers has a largest one.                               *)
LEMMA LargestNumber ==
  ASSUME NEW S, IsFiniteSet(S), S \subseteq Nat, S # {}
  PROVE  \E x \in S : \A y \in S : y <= x
<1> DEFINE B == {T \in SUBSET S : T # {} /\ ~ \E x \in T : \A y \in T : y <= x}
<1>1. SUFFICES ASSUME B # {} PROVE FALSE
  OBVIOUS
<1> HIDE DEF B
<1>2. PICK T \in B : \A U \in SUBSET T : U # T => U \notin B
  <2>1. B \subseteq SUBSET S
    BY DEF B
  <2>2. QED
    BY <1>1, <2>1, SmallestSet
<1>3. /\ T \in SUBSET S /\ T # {} /\ ~ \E x \in T : \A y \in T : y <= x
      /\ \A U \in SUBSET T :
           U # T /\ U # {} => \E x \in U : \A y \in U : y <= x
  BY <1>2 DEF B
<1>4. PICK e : e \in T
  BY <1>3
<1>5. PICK U : U = T \ {e}
  OBVIOUS
<1>6. U # {}
  BY <1>3, <1>4, <1>5
<1>7. PICK x \in U : \A y \in U : y <= x
  BY <1>3, <1>4, <1>5, <1>6
<1>8. e \in Nat /\ x \in Nat /\ x \in T
  BY <1>3, <1>4, <1>5
<1>9. \A y \in T : y \in Nat /\ (y = e \/ y <= x)
  BY <1>3, <1>5, <1>7
<1>10. \/ \A y \in T : y <= x
       \/ \A y \in T : y <= e
  BY <1>8, <1>9
<1>11. QED
  BY <1>3, <1>4, <1>8, <1>10

(* A number below a sum falls on one of its summands.                       *)
LEMMA FallsOnSummand ==
  ASSUME NEW D, IsFiniteSet(D), D \subseteq Nat, NEW f, \A d \in D : f[d] \in Nat,
         NEW ix \in Nat, ix < SumOf(f, D)
  PROVE  \E d \in D : /\ SumOf(f, {c \in D : c < d}) <= ix
                      /\ ix < SumOf(f, {c \in D : c < d}) + f[d]
<1> DEFINE B == {T \in SUBSET D : /\ ix < SumOf(f, T)
                                  /\ \A c \in D, d \in T : c < d => c \in T}
<1>1. D \in B
  OBVIOUS
<1> HIDE DEF B
<1>2. PICK T \in B : \A U \in SUBSET T : U # T => U \notin B
  <2>1. B \subseteq SUBSET D
    BY DEF B
  <2>2. IsFiniteSet(D) /\ B # {}
    BY <1>1
  <2>3. QED
    BY ONLY <2>1, <2>2, SmallestSet
<1>3. /\ T \in SUBSET D /\ ix < SumOf(f, T)
      /\ \A c \in D, d \in T : c < d => c \in T
  BY <1>2 DEF B
<1>4. IsFiniteSet(T)
  BY <1>3, FS_Subset
<1>5. T # {}
  BY <1>3, SumOfNone
<1>6. PICK d \in T : \A c \in T : c <= d
  BY <1>3, <1>4, <1>5, LargestNumber
<1>7. PICK U : U = T \ {d}
  OBVIOUS
<1>8. U = {c \in D : c < d}
  <2>1. \A c \in D : c \in Nat /\ d \in Nat
    BY <1>3
  <2>2. \A c \in U : c \in D /\ c < d
    BY <1>3, <1>6, <1>7, <2>1
  <2>3. \A c \in D : c < d => c \in U
    BY <1>3, <1>7, <2>1
  <2>4. QED
    BY <2>2, <2>3
<1>9. U \in SUBSET T /\ U # T
  BY <1>7
<1>10. U \in SUBSET D /\ \A b \in D, c \in U : b < c => b \in U
  <2>1. \A b, c, e \in D : b < c /\ c < e => b < e
    OBVIOUS
  <2>2. QED
    BY <1>3, <1>8, <2>1
<1>11. ~ (ix < SumOf(f, U))
  BY <1>2, <1>9, <1>10 DEF B
<1>12. SumOf(f, T) = f[d] + SumOf(f, U)
  <2>1. \A c \in T : f[c] \in Nat
    BY <1>3
  <2>2. QED
    BY <1>4, <1>7, <2>1, SumTakesOut
<1>13. SumOf(f, U) \in Nat /\ f[d] \in Nat /\ d \in D
  <2>1. IsFiniteSet(U) /\ \A c \in U : f[c] \in Nat
    BY <1>4, <1>9, <1>10, FS_Subset
  <2>2. QED
    BY <1>3, <2>1, SumInNat
<1>14. SumOf(f, U) <= ix /\ ix < SumOf(f, U) + f[d]
  BY <1>3, <1>11, <1>12, <1>13
<1>15. QED
  BY <1>8, <1>13, <1>14
-----------------------------------------------------------------------------
(* The recursive functions of RadixTree, and the images of a set under a    *)
(* function that is applied again and again: what starts each, and what     *)
(* each does next.                                                          *)
Turns(before) == UNION {Turn(at) : at \in before}
Start(what) ==
  CASE what.kind = "turn" -> {what.at}
    [] what.kind = "image" -> {what.at}
    [] what.kind = "inner" -> what.call
    [] what.kind = "result" -> <<>>
After(what, i, before) ==
  CASE what.kind = "turn" -> Turns(before)
    [] what.kind = "image" -> Images(what.f, before)
    [] what.kind = "inner" -> InnerCall(before)
    [] what.kind = "result" -> Returns(what.inner[what.depth - i], what.value, before)

(* f satisfies the equation of such a function up to n.                     *)
DefinedUpTo(what, f, n) ==
  /\ f[0] = Start(what)
  /\ \A i \in Nat : i < n => f[i + 1] = After(what, i + 1, f[i])

LEMMA DefinedUpToEvery ==
  ASSUME NEW what
  PROVE  \A n \in Nat : \E f : DefinedUpTo(what, f, n)
<1> DEFINE S == {n \in Nat : \E f : DefinedUpTo(what, f, n)}
<1>1. 0 \in S
  <2> DEFINE f == [i \in Nat |-> Start(what)]
  <2>1. DefinedUpTo(what, f, 0)
    BY DEF DefinedUpTo
  <2>2. QED
    BY <2>1
<1>2. ASSUME NEW n \in Nat, n \in S PROVE n + 1 \in S
  <2>1. PICK f : DefinedUpTo(what, f, n)
    BY <1>2
  <2> DEFINE g == [i \in Nat |-> IF i = n + 1 THEN After(what, n + 1, f[n]) ELSE f[i]]
  <2>2. g[0] = f[0] /\ g[n + 1] = After(what, n + 1, f[n])
    OBVIOUS
  <2>3. \A i \in Nat : i < n + 1 => g[i] = f[i]
    OBVIOUS
  <2> HIDE DEF g
  <2>4. ASSUME NEW i \in Nat, i < n + 1
        PROVE  g[i + 1] = After(what, i + 1, g[i])
    <3>1. CASE i = n
      BY <2>2, <2>3, <3>1
    <3>2. CASE i # n
      <4>1. i < n /\ i + 1 < n + 1 /\ i + 1 \in Nat
        BY <2>4, <3>2
      <4>2. g[i + 1] = f[i + 1] /\ g[i] = f[i]
        BY <2>3, <2>4, <4>1
      <4>3. QED
        BY <2>1, <4>1, <4>2 DEF DefinedUpTo
    <3>3. QED
      BY <3>1, <3>2
  <2>5. DefinedUpTo(what, g, n + 1)
    BY <2>1, <2>2, <2>4 DEF DefinedUpTo
  <2>6. QED
    BY <2>5
<1> HIDE DEF S
<1>3. \A n \in Nat : n \in S
  BY <1>1, <1>2, NatSetInduction
<1>4. QED
  BY <1>3 DEF S

LEMMA DefinedOnce ==
  ASSUME NEW what, NEW n \in Nat, NEW f, NEW g,
         DefinedUpTo(what, f, n), DefinedUpTo(what, g, n)
  PROVE  \A i \in 0..n : f[i] = g[i]
<1> DEFINE S == {i \in Nat : i <= n => f[i] = g[i]}
<1>1. 0 \in S
  BY DEF DefinedUpTo
<1>2. ASSUME NEW i \in Nat, i \in S PROVE i + 1 \in S
  <2>1. SUFFICES ASSUME i + 1 <= n PROVE f[i + 1] = g[i + 1]
    OBVIOUS
  <2>2. i < n /\ f[i] = g[i]
    BY <1>2, <2>1
  <2>3. QED
    BY <2>2 DEF DefinedUpTo
<1> HIDE DEF S
<1>3. \A i \in Nat : i \in S
  BY <1>1, <1>2, NatSetInduction
<1>4. QED
  BY <1>3 DEF S

LEMMA RecursionIsDefined ==
  ASSUME NEW what
  PROVE  \E f : f = [i \in Nat |-> IF i = 0 THEN Start(what)
                                            ELSE After(what, i, f[i - 1])]
<1> DEFINE Upto(n) == CHOOSE f : DefinedUpTo(what, f, n)
           f == [n \in Nat |-> Upto(n)[n]]
<1>1. \A n \in Nat : DefinedUpTo(what, Upto(n), n)
  BY DefinedUpToEvery
<1> HIDE DEF Upto
<1>2. \A n \in Nat : f[n] = Upto(n)[n]
  OBVIOUS
<1>3. f = [n \in Nat |-> f[n]]
  OBVIOUS
<1> HIDE DEF f
<1>4. f[0] = Start(what)
  BY <1>1, <1>2 DEF DefinedUpTo
<1>5. ASSUME NEW n \in Nat, n # 0
      PROVE  f[n] = After(what, n, f[n - 1])
  <2>1. n - 1 \in Nat /\ n - 1 < n /\ (n - 1) + 1 = n
    BY <1>5
  <2>2. DefinedUpTo(what, Upto(n), n) /\ DefinedUpTo(what, Upto(n - 1), n - 1)
    BY <1>1, <2>1
  <2>3. DefinedUpTo(what, Upto(n), n - 1)
    BY <2>1, <2>2 DEF DefinedUpTo
  <2>4. Upto(n)[n - 1] = Upto(n - 1)[n - 1]
    BY <2>1, <2>2, <2>3, DefinedOnce
  <2>5. Upto(n)[n] = After(what, n, Upto(n)[n - 1])
    BY <2>1, <2>2 DEF DefinedUpTo
  <2>6. QED
    BY <1>2, <2>1, <2>4, <2>5
<1>6. [n \in Nat |-> f[n]] =
      [i \in Nat |-> IF i = 0 THEN Start(what) ELSE After(what, i, f[i - 1])]
  BY <1>4, <1>5
<1>7. QED
  BY <1>3, <1>6
-----------------------------------------------------------------------------
(***************************************************************************)
(* rh_follow_path.                                                         *)
(***************************************************************************)

LEMMA AfterTurnsEquation ==
  ASSUME NEW at
  PROVE  /\ AfterTurns(at, 0) = {at}
         /\ \A n \in Nat :
              AfterTurns(at, n + 1) = UNION {Turn(b) : b \in AfterTurns(at, n)}
<1> DEFINE Equation(f) ==
             f = [i \in Nat |-> IF i = 0 THEN {at}
                                ELSE UNION {Turn(b) : b \in f[i - 1]}]
           turn == CHOOSE f : Equation(f)
           what == [kind |-> "turn", at |-> at]
<1>1. \E f : f = [i \in Nat |-> IF i = 0 THEN Start(what)
                                ELSE After(what, i, f[i - 1])]
  BY RecursionIsDefined
<1>2. \E f : Equation(f)
  <2>1. Start(what) = {at}
    BY DEF Start
  <2>2. \A i, before : After(what, i, before) = Turns(before)
    BY DEF After
  <2> HIDE DEF what
  <2>3. PICK f : f = [i \in Nat |-> IF i = 0 THEN Start(what)
                                   ELSE After(what, i, f[i - 1])]
    BY <1>1
  <2>4. f = [i \in Nat |-> IF i = 0 THEN {at} ELSE Turns(f[i - 1])]
    BY ONLY <2>1, <2>2, <2>3
  <2>5. Equation(f)
    BY ONLY <2>4 DEF Turns
  <2> HIDE DEF Equation
  <2>6. QED
    BY ONLY <2>5
<1>3. Equation(turn)
  <2> HIDE DEF Equation
  <2>1. QED
    BY <1>2
<1>4. \A n \in Nat : AfterTurns(at, n) = turn[n]
  BY DEF AfterTurns
<1> HIDE DEF turn
<1>5. turn[0] = {at} /\ \A n \in Nat : turn[n + 1] = UNION {Turn(b) : b \in turn[n]}
  BY <1>3
<1>6. QED
  BY <1>4, <1>5

(* The first turn may be taken first.                                       *)
LEMMA FirstTurn ==
  ASSUME NEW at
  PROVE  \A n \in Nat : AfterTurns(at, n + 1) = UNION {AfterTurns(b, n) : b \in Turn(at)}
<1> DEFINE S == {n \in Nat : AfterTurns(at, n + 1)
                               = UNION {AfterTurns(b, n) : b \in Turn(at)}}
<1>1. 0 \in S
  <2>1. AfterTurns(at, 0 + 1) = UNION {Turn(b) : b \in AfterTurns(at, 0)}
    BY AfterTurnsEquation
  <2>2. AfterTurns(at, 0) = {at}
    BY AfterTurnsEquation
  <2>3. \A b : AfterTurns(b, 0) = {b}
    BY AfterTurnsEquation
  <2>4. QED
    BY <2>1, <2>2, <2>3
<1>2. ASSUME NEW n \in Nat, n \in S PROVE n + 1 \in S
  <2>1. AfterTurns(at, (n + 1) + 1) = UNION {Turn(c) : c \in AfterTurns(at, n + 1)}
    BY AfterTurnsEquation
  <2>2. \A b : AfterTurns(b, n + 1) = UNION {Turn(c) : c \in AfterTurns(b, n)}
    BY AfterTurnsEquation
  <2>3. AfterTurns(at, n + 1) = UNION {AfterTurns(b, n) : b \in Turn(at)}
    BY <1>2
  <2>4. UNION {Turn(c) : c \in UNION {AfterTurns(b, n) : b \in Turn(at)}}
        = UNION {UNION {Turn(c) : c \in AfterTurns(b, n)} : b \in Turn(at)}
    OBVIOUS
  <2>5. UNION {UNION {Turn(c) : c \in AfterTurns(b, n)} : b \in Turn(at)}
        = UNION {AfterTurns(b, n + 1) : b \in Turn(at)}
    BY <2>2
  <2>6. QED
    BY <2>1, <2>3, <2>4, <2>5
<1> HIDE DEF S
<1>3. \A n \in Nat : n \in S
  BY <1>1, <1>2, NatSetInduction
<1>4. QED
  BY <1>3 DEF S
-----------------------------------------------------------------------------
(***************************************************************************)
(* insert_into_rh_tree.                                                    *)
(***************************************************************************)

LEMMA CallsWithinEquation ==
  ASSUME NEW call
  PROVE  /\ CallsWithin(call)[0] = call
         /\ \A n \in Nat :
              CallsWithin(call)[n + 1] = InnerCall(CallsWithin(call)[n])
<1> DEFINE Equation(f) ==
             f = [i \in Nat |-> IF i = 0 THEN call ELSE InnerCall(f[i - 1])]
           inner == CHOOSE f : Equation(f)
           what == [kind |-> "inner", call |-> call]
<1>1. \E f : f = [i \in Nat |-> IF i = 0 THEN Start(what)
                                ELSE After(what, i, f[i - 1])]
  BY RecursionIsDefined
<1>2. \E f : Equation(f)
  <2>1. Start(what) = call
    BY DEF Start
  <2>2. \A i, before : After(what, i, before) = InnerCall(before)
    BY DEF After
  <2> HIDE DEF what
  <2>3. PICK f : f = [i \in Nat |-> IF i = 0 THEN Start(what)
                                   ELSE After(what, i, f[i - 1])]
    BY <1>1
  <2>4. Equation(f)
    BY ONLY <2>1, <2>2, <2>3
  <2> HIDE DEF Equation
  <2>5. QED
    BY ONLY <2>4
<1>3. Equation(inner)
  <2> HIDE DEF Equation
  <2>1. QED
    BY <1>2
<1>4. CallsWithin(call) = inner
  BY DEF CallsWithin
<1> HIDE DEF inner
<1>5. inner[0] = call /\ \A n \in Nat : inner[n + 1] = InnerCall(inner[n])
  BY <1>3
<1>6. QED
  BY <1>4, <1>5

LEMMA FirstInnerCall ==
  ASSUME NEW call
  PROVE  \A n \in Nat : CallsWithin(call)[n + 1] = CallsWithin(InnerCall(call))[n]
<1> DEFINE S == {n \in Nat : CallsWithin(call)[n + 1]
                               = CallsWithin(InnerCall(call))[n]}
<1>1. 0 \in S
  <2>1. CallsWithin(call)[0 + 1] = InnerCall(CallsWithin(call)[0])
    BY CallsWithinEquation
  <2>2. CallsWithin(call)[0] = call
    BY CallsWithinEquation
  <2>3. CallsWithin(InnerCall(call))[0] = InnerCall(call)
    BY CallsWithinEquation
  <2>4. QED
    BY <2>1, <2>2, <2>3
<1>2. ASSUME NEW n \in Nat, n \in S PROVE n + 1 \in S
  <2>1. CallsWithin(call)[(n + 1) + 1] = InnerCall(CallsWithin(call)[n + 1])
    BY CallsWithinEquation
  <2>2. CallsWithin(InnerCall(call))[n + 1]
          = InnerCall(CallsWithin(InnerCall(call))[n])
    BY CallsWithinEquation
  <2>3. QED
    BY <1>2, <2>1, <2>2
<1> HIDE DEF S
<1>3. \A n \in Nat : n \in S
  BY <1>1, <1>2, NatSetInduction
<1>4. QED
  BY <1>3 DEF S

(* What the results of the calls within a call are.                         *)
ResultEquation(call, value, depth, f) ==
  /\ f[0] = <<>>
  /\ \A n \in Nat :
       f[n + 1] = Returns(CallsWithin(call)[depth - (n + 1)], value, f[n])

LEMMA ResultsAreDefined ==
  ASSUME NEW call, NEW value, NEW depth
  PROVE  \E f : /\ ResultEquation(call, value, depth, f)
                /\ ResultOf(call, value, depth) = f[depth]
<1> DEFINE Equation(f) ==
             f = [i \in Nat |->
                    IF i = 0 THEN <<>>
                    ELSE Returns(CallsWithin(call)[depth - i], value, f[i - 1])]
           result == CHOOSE f : Equation(f)
           what == [kind |-> "result", inner |-> CallsWithin(call),
                    depth |-> depth, value |-> value]
<1>1. \E f : f = [i \in Nat |-> IF i = 0 THEN Start(what)
                                ELSE After(what, i, f[i - 1])]
  BY RecursionIsDefined
<1>2. \E f : Equation(f)
  <2>1. Start(what) = <<>>
    BY DEF Start
  <2>2. \A i, before : After(what, i, before)
                         = Returns(CallsWithin(call)[depth - i], value, before)
    BY DEF After
  <2> HIDE DEF what
  <2>3. PICK f : f = [i \in Nat |-> IF i = 0 THEN Start(what)
                                   ELSE After(what, i, f[i - 1])]
    BY <1>1
  <2>4. Equation(f)
    BY ONLY <2>1, <2>2, <2>3
  <2> HIDE DEF Equation
  <2>5. QED
    BY ONLY <2>4
<1>3. Equation(result)
  <2> HIDE DEF Equation
  <2>1. QED
    BY <1>2
<1>4. ResultOf(call, value, depth) = result[depth]
  BY DEF ResultOf
<1> HIDE DEF result
<1>5. ResultEquation(call, value, depth, result)
  BY <1>3 DEF ResultEquation
<1>6. QED
  BY <1>4, <1>5

(* A call returns what it does with the result of the call within it.       *)
LEMMA FirstResult ==
  ASSUME NEW call, NEW value, NEW depth \in Nat
  PROVE  ResultOf(call, value, depth + 1)
           = Returns(call, value, ResultOf(InnerCall(call), value, depth))
<1>1. PICK f : /\ ResultEquation(call, value, depth + 1, f)
               /\ ResultOf(call, value, depth + 1) = f[depth + 1]
  BY ResultsAreDefined
<1>2. PICK g : /\ ResultEquation(InnerCall(call), value, depth, g)
               /\ ResultOf(InnerCall(call), value, depth) = g[depth]
  BY ResultsAreDefined
<1> DEFINE S == {n \in Nat : n <= depth => f[n] = g[n]}
<1>3. 0 \in S
  BY <1>1, <1>2 DEF ResultEquation
<1>4. ASSUME NEW n \in Nat, n \in S PROVE n + 1 \in S
  <2>1. SUFFICES ASSUME n + 1 <= depth PROVE f[n + 1] = g[n + 1]
    OBVIOUS
  <2>2. f[n] = g[n]
    BY <1>4, <2>1
  <2> DEFINE left == depth - (n + 1)
  <2>3. left \in Nat /\ (depth + 1) - (n + 1) = left + 1
    BY <2>1
  <2>4. f[n + 1] = Returns(CallsWithin(call)[left + 1], value, f[n])
    BY <1>1, <2>3 DEF ResultEquation
  <2>5. g[n + 1] = Returns(CallsWithin(InnerCall(call))[left], value, g[n])
    BY <1>2 DEF ResultEquation
  <2> HIDE DEF left
  <2>6. CallsWithin(call)[left + 1] = CallsWithin(InnerCall(call))[left]
    BY <2>3, FirstInnerCall
  <2>7. QED
    BY <2>2, <2>4, <2>5, <2>6
<1> HIDE DEF S
<1>5. \A n \in Nat : n \in S
  BY <1>3, <1>4, NatSetInduction
<1>6. f[depth] = g[depth]
  BY <1>5 DEF S
<1>7. f[depth + 1] = Returns(CallsWithin(call)[(depth + 1) - (depth + 1)], value, f[depth])
  BY <1>1 DEF ResultEquation
<1>8. CallsWithin(call)[0] = call /\ (depth + 1) - (depth + 1) = 0
  BY CallsWithinEquation
<1>9. QED
  BY <1>1, <1>2, <1>6, <1>7, <1>8
-----------------------------------------------------------------------------
(***************************************************************************)
(* Paths, as sequences over a set D of digits.                             *)
(***************************************************************************)

LEMMA TailFacts ==
  ASSUME NEW D, NEW s \in Seq(D), s # <<>>
  PROVE  /\ Head(s) \in D
         /\ Tail(s) \in Seq(D)
         /\ Len(Tail(s)) = Len(s) - 1
         /\ Len(s) \in Nat \ {0}
OBVIOUS

LEMMA PrefixFacts ==
  ASSUME NEW D, NEW s \in Seq(D), NEW t \in Seq(D), IsPrefix(s, t)
  PROVE  Len(s) \in 0..Len(t)
BY DEF IsPrefix

LEMMA PrefixElements ==
  ASSUME NEW D, NEW p \in Seq(D), NEW q \in Seq(D)
  PROVE  IsPrefix(p, q) <=> Len(p) <= Len(q) /\ \A i \in 1..Len(p) : p[i] = q[i]
BY DEF IsPrefix

LEMMA DropElements ==
  ASSUME NEW D, NEW p \in Seq(D), NEW n \in 0..Len(p)
  PROVE  /\ Drop(p, n) \in Seq(D)
         /\ Len(Drop(p, n)) = Len(p) - n
         /\ \A i \in 1..(Len(p) - n) : Drop(p, n)[i] = p[n + i]
BY DEF Drop

LEMMA JoinElements ==
  ASSUME NEW D, NEW p \in Seq(D), NEW q \in Seq(D)
  PROVE  /\ p \o q \in Seq(D)
         /\ Len(p \o q) = Len(p) + Len(q)
         /\ \A i \in 1..Len(p) : (p \o q)[i] = p[i]
         /\ \A i \in 1..Len(q) : (p \o q)[Len(p) + i] = q[i]
OBVIOUS

LEMMA EqualPaths ==
  ASSUME NEW D, NEW p \in Seq(D), NEW q \in Seq(D), Len(p) = Len(q),
         \A i \in 1..Len(p) : p[i] = q[i]
  PROVE  p = q
OBVIOUS

(* Following one path and then another.                                     *)
LEMMA PathAfterPath ==
  ASSUME NEW D, NEW e \in Seq(D), NEW s \in Seq(D), NEW q \in Seq(D)
  PROVE  /\ IsPrefix(e \o s, q) <=> IsPrefix(e, q) /\ IsPrefix(s, Drop(q, Len(e)))
         /\ IsPrefix(e \o s, q) => Drop(q, Len(e \o s)) = Drop(Drop(q, Len(e)), Len(s))
         /\ q = e \o s <=> IsPrefix(e, q) /\ Drop(q, Len(e)) = s
         /\ IsPrefix(e, q) => Drop(q, Len(e)) \in Seq(D)
<1>1. IsPrefix(e, q) => Drop(q, Len(e)) \in Seq(D)
  BY DEF Drop, IsPrefix
<1>2. IsPrefix(e \o s, q) => Drop(q, Len(e \o s)) = Drop(Drop(q, Len(e)), Len(s))
  BY DEF Drop, IsPrefix
<1> DEFINE n == Len(e)
           m == Len(s)
           es == e \o s
           rest == Drop(q, n)
<1>3. n \in Nat /\ m \in Nat /\ Len(q) \in Nat
  OBVIOUS
<1>4. /\ es \in Seq(D) /\ Len(es) = n + m
      /\ \A i \in 1..n : es[i] = e[i]
      /\ \A i \in 1..m : es[n + i] = s[i]
  BY JoinElements
<1>5. IsPrefix(e, q) <=> n <= Len(q) /\ \A i \in 1..n : e[i] = q[i]
  BY PrefixElements
<1>6. n <= Len(q) =>
        /\ rest \in Seq(D) /\ Len(rest) = Len(q) - n
        /\ \A i \in 1..(Len(q) - n) : rest[i] = q[n + i]
  <2>1. n <= Len(q) => n \in 0..Len(q)
    BY <1>3
  <2>2. QED
    BY <2>1, DropElements
<1> HIDE DEF n, m, es, rest
<1>7. IsPrefix(es, q) <=> n + m <= Len(q) /\ \A i \in 1..(n + m) : es[i] = q[i]
  BY <1>4, PrefixElements
<1>8. n <= Len(q) =>
        (IsPrefix(s, rest) <=> m <= Len(q) - n /\ \A i \in 1..m : s[i] = q[n + i])
  <2>1. rest \in Seq(D) => (IsPrefix(s, rest) <=>
                              m <= Len(rest) /\ \A i \in 1..m : s[i] = rest[i])
    BY DEF IsPrefix, m
  <2>2. QED
    BY <1>3, <1>6, <2>1
<1>9. ASSUME IsPrefix(es, q) PROVE IsPrefix(e, q) /\ IsPrefix(s, rest)
  <2>1. n <= Len(q) /\ m <= Len(q) - n
    BY <1>3, <1>7, <1>9
  <2>2. ASSUME NEW i \in 1..n PROVE e[i] = q[i]
    BY <1>3, <1>4, <1>7, <1>9
  <2>3. ASSUME NEW i \in 1..m PROVE s[i] = q[n + i]
    <3>1. n + i \in 1..(n + m)
      BY <1>3
    <3>2. QED
      BY <1>4, <1>7, <1>9, <3>1
  <2>4. QED
    BY <1>5, <1>8, <2>1, <2>2, <2>3
<1>10. ASSUME IsPrefix(e, q), IsPrefix(s, rest) PROVE IsPrefix(es, q)
  <2>1. n + m <= Len(q)
    BY <1>3, <1>5, <1>8, <1>10
  <2>2. ASSUME NEW i \in 1..(n + m) PROVE es[i] = q[i]
    <3>1. CASE i <= n
      BY <1>3, <1>4, <1>5, <1>10, <3>1
    <3>2. CASE i > n
      <4>1. i - n \in 1..m /\ n + (i - n) = i
        BY <1>3, <3>2
      <4>2. es[n + (i - n)] = s[i - n] /\ s[i - n] = q[n + (i - n)]
        BY <1>4, <1>5, <1>8, <1>10, <4>1
      <4>3. QED
        BY <4>1, <4>2
    <3>3. QED
      BY <1>3, <3>1, <3>2
  <2>3. QED
    BY <1>7, <2>1, <2>2
<1>11. ASSUME q = es PROVE IsPrefix(e, q) /\ rest = s
  <2>1. n <= Len(q) /\ Len(q) - n = m
    BY <1>3, <1>4, <1>11
  <2>2. IsPrefix(e, q)
    BY <1>4, <1>5, <1>11, <2>1
  <2>3. rest \in Seq(D) /\ Len(rest) = Len(s) /\ \A i \in 1..Len(rest) : rest[i] = s[i]
    BY <1>4, <1>6, <1>11, <2>1 DEF m
  <2>4. QED
    BY <2>2, <2>3, EqualPaths
<1>12. ASSUME IsPrefix(e, q), rest = s PROVE q = es
  <2>1. n <= Len(q) /\ m = Len(q) - n
    BY <1>5, <1>6, <1>12 DEF m
  <2>2. IsPrefix(s, rest)
    BY <1>3, <1>6, <1>8, <1>12, <2>1
  <2>3. IsPrefix(es, q)
    BY <1>10, <1>12, <2>2
  <2>4. Len(es) = Len(q) /\ \A i \in 1..Len(es) : es[i] = q[i]
    BY <1>3, <1>4, <1>7, <2>1, <2>3
  <2>5. QED
    BY <1>4, <2>4, EqualPaths
<1>13. QED
  BY <1>1, <1>2, <1>9, <1>10, <1>11, <1>12 DEF es, rest, n, m

(* The path along an edge is its digit and its suffix.                      *)
LEMMA PathAlongEdge ==
  ASSUME NEW D, NEW d \in D, NEW s \in Seq(D), NEW q \in Seq(D), q # <<>>
  PROVE  /\ <<d>> \o s \in Seq(D) /\ Len(<<d>> \o s) = 1 + Len(s)
         /\ IsPrefix(<<d>> \o s, q) <=> d = Head(q) /\ IsPrefix(s, Tail(q))
         /\ IsPrefix(<<d>> \o s, q) =>
              Drop(q, Len(<<d>> \o s)) = Drop(Tail(q), Len(s))
<1>1. SUFFICES ASSUME NEW e \in Seq(D), e = <<d>>
               PROVE  /\ e \o s \in Seq(D) /\ Len(e \o s) = 1 + Len(s)
                      /\ IsPrefix(e \o s, q) <=> d = Head(q) /\ IsPrefix(s, Tail(q))
                      /\ IsPrefix(e \o s, q) =>
                           Drop(q, Len(e \o s)) = Drop(Tail(q), Len(s))
  OBVIOUS
<1>2. IsPrefix(e, q) <=> d = Head(q)
  BY <1>1 DEF IsPrefix
<1>3. Drop(q, Len(e)) = Tail(q)
  BY <1>1 DEF Drop
<1>4. e \o s \in Seq(D) /\ Len(e \o s) = 1 + Len(s)
  BY <1>1
<1>5. /\ IsPrefix(e \o s, q) <=> IsPrefix(e, q) /\ IsPrefix(s, Drop(q, Len(e)))
      /\ IsPrefix(e \o s, q) => Drop(q, Len(e \o s)) = Drop(Drop(q, Len(e)), Len(s))
  BY PathAfterPath
<1>6. QED
  BY <1>2, <1>3, <1>4, <1>5

LEMMA PathIsHeadAndTail ==
  ASSUME NEW D, NEW p \in Seq(D), p # <<>>
  PROVE  p = <<Head(p)>> \o Tail(p)
OBVIOUS

(* p consists of the elements of e and then those of a.                     *)
Joins(p, e, a, D) ==
  /\ p \in Seq(D) /\ e \in Seq(D) /\ a \in Seq(D)
  /\ Len(p) = Len(e) + Len(a)
  /\ \A i \in 1..Len(e) : p[i] = e[i]
  /\ \A i \in 1..Len(a) : p[Len(e) + i] = a[i]

LEMMA IsJoin ==
  ASSUME NEW D, NEW p, NEW e, NEW a, Joins(p, e, a, D)
  PROVE  p = e \o a
<1>1. p \in Seq(D) /\ e \in Seq(D) /\ a \in Seq(D)
  BY DEF Joins
<1>2. PICK j : j = e \o a
  OBVIOUS
<1>3. Joins(j, e, a, D)
  BY <1>1, <1>2, JoinElements DEF Joins
<1>4. /\ Len(e) \in Nat /\ Len(a) \in Nat
      /\ Len(p) = Len(e) + Len(a) /\ Len(j) = Len(e) + Len(a) /\ j \in Seq(D)
  BY <1>1, <1>3 DEF Joins
<1>5. ASSUME NEW i \in 1..Len(p) PROVE p[i] = j[i]
  <2>1. CASE i <= Len(e)
    <3>1. i \in 1..Len(e)
      BY ONLY <1>4, <2>1
    <3>2. QED
      BY <1>3, <3>1 DEF Joins
  <2>2. CASE i > Len(e)
    <3>1. i - Len(e) \in 1..Len(a) /\ Len(e) + (i - Len(e)) = i
      BY ONLY <1>4, <2>2
    <3>2. p[Len(e) + (i - Len(e))] = j[Len(e) + (i - Len(e))]
      BY <1>3, <3>1 DEF Joins
    <3>3. QED
      BY ONLY <3>1, <3>2
  <2>3. QED
    BY ONLY <1>4, <2>1, <2>2
<1>6. p = j
  BY ONLY <1>1, <1>4, <1>5, EqualPaths
<1>7. QED
  BY ONLY <1>2, <1>6

(* A path is another one followed by a third if it begins with the one and  *)
(* the third is left after it.                                              *)
LEMMA PathIsJoin ==
  ASSUME NEW D, NEW e \in Seq(D), NEW a \in Seq(D), NEW q \in Seq(D)
  PROVE  q = e \o a <=> IsPrefix(e, q) /\ Drop(q, Len(e)) = a
<1>1. ASSUME q = e \o a PROVE IsPrefix(e, q) /\ Drop(q, Len(e)) = a
  <2>1. /\ Len(q) = Len(e) + Len(a) /\ Len(e) \in Nat /\ Len(a) \in Nat
        /\ \A i \in 1..Len(e) : q[i] = e[i]
        /\ \A i \in 1..Len(a) : q[Len(e) + i] = a[i]
    BY <1>1
  <2>2. IsPrefix(e, q)
    BY <2>1 DEF IsPrefix
  <2>3. Len(e) \in 0..Len(q)
    BY <2>1
  <2>4. /\ Drop(q, Len(e)) \in Seq(D)
        /\ Len(Drop(q, Len(e))) = Len(a)
        /\ \A i \in 1..Len(a) : Drop(q, Len(e))[i] = a[i]
    <3>1. /\ Drop(q, Len(e)) \in Seq(D)
          /\ Len(Drop(q, Len(e))) = Len(q) - Len(e)
          /\ \A i \in 1..(Len(q) - Len(e)) : Drop(q, Len(e))[i] = q[Len(e) + i]
      BY <2>3, DropElements
    <3>2. Len(q) - Len(e) = Len(a)
      BY <2>1
    <3>3. QED
      BY <2>1, <3>1, <3>2
  <2>5. QED
    BY <2>2, <2>4, EqualPaths
<1>2. ASSUME IsPrefix(e, q), Drop(q, Len(e)) = a PROVE q = e \o a
  <2>1. /\ Len(e) \in 0..Len(q)
        /\ \A i \in 1..Len(e) : q[i] = e[i]
    BY <1>2 DEF IsPrefix
  <2>2. /\ Len(Drop(q, Len(e))) = Len(q) - Len(e)
        /\ \A i \in 1..(Len(q) - Len(e)) : Drop(q, Len(e))[i] = q[Len(e) + i]
    BY <2>1, DropElements
  <2>3. Len(q) = Len(e) + Len(a) /\ \A i \in 1..Len(a) : q[Len(e) + i] = a[i]
    BY <1>2, <2>1, <2>2
  <2>4. Joins(q, e, a, D)
    BY ONLY q \in Seq(D), e \in Seq(D), a \in Seq(D), <2>1, <2>3 DEF Joins
  <2>5. QED
    BY ONLY <2>4, IsJoin
<1>3. QED
  BY <1>1, <1>2

(* The path on which a path, and an edge that shares n digits of its suffix *)
(* with the path, begin, and what is left of the two after it.              *)
SharesDigits(path, suffix, n, D) ==
  /\ path \in Seq(D) /\ path # <<>> /\ suffix \in Seq(D)
  /\ n \in 0..Len(Tail(path)) /\ n \in 0..Len(suffix)
  /\ \A i \in 1..n : Tail(path)[i] = suffix[i]
SharesEdge(e, path, suffix, n, D) ==
  /\ e \in Seq(D) /\ e # <<>> /\ Head(e) = Head(path)
  /\ path = e \o Drop(Tail(path), n)
  /\ <<Head(path)>> \o suffix = e \o Drop(suffix, n)

LEMMA SharedEdge ==
  ASSUME NEW D, NEW path, NEW suffix, NEW n, SharesDigits(path, suffix, n, D)
  PROVE  SharesEdge(SubSeq(path, 1, 1 + n), path, suffix, n, D)
<1>0. SUFFICES ASSUME path \in Seq(D), path # <<>>, suffix \in Seq(D),
                      NEW rest, rest = Tail(path), NEW e, e = SubSeq(path, 1, 1 + n),
                      n \in 0..Len(rest), n \in 0..Len(suffix),
                      \A i \in 1..n : rest[i] = suffix[i]
               PROVE  /\ e \in Seq(D) /\ e # <<>> /\ Head(e) = Head(path)
                      /\ path = e \o Drop(rest, n)
                      /\ <<Head(path)>> \o suffix = e \o Drop(suffix, n)
  BY DEF SharesDigits, SharesEdge
<1>1. /\ rest \in Seq(D) /\ Len(rest) = Len(path) - 1 /\ Len(path) \in Nat
      /\ Len(suffix) \in Nat /\ n \in Nat /\ Head(path) \in D /\ Head(path) = path[1]
      /\ path \in Seq(D) /\ suffix \in Seq(D)
      /\ n <= Len(rest) /\ n <= Len(suffix)
      /\ \A i \in 1..n : rest[i] = suffix[i]
      /\ \A i \in 1..Len(rest) : rest[i] = path[i + 1]
  BY <1>0
<1>2. /\ e \in Seq(D) /\ Len(e) = 1 + n
      /\ \A i \in 1..(1 + n) : e[i] = path[i]
  BY <1>0, <1>1
<1>3. e # <<>> /\ Head(e) = Head(path)
  <2>1. e # <<>> /\ Head(e) = e[1]
    BY ONLY <1>1, <1>2
  <2>2. e[1] = path[1]
    <3>1. 1 \in 1..(1 + n)
      BY ONLY <1>1
    <3>2. QED
      BY ONLY <1>2, <3>1
  <2>3. QED
    BY ONLY <1>1, <2>1, <2>2
<1>4. ASSUME NEW a, a = Drop(rest, n) PROVE path = e \o a
  <2>1. /\ a \in Seq(D) /\ Len(a) = Len(rest) - n
        /\ \A i \in 1..(Len(rest) - n) : a[i] = rest[n + i]
    <3>1. n \in 0..Len(rest) /\ rest \in Seq(D)
      BY ONLY <1>1
    <3>2. /\ Drop(rest, n) \in Seq(D) /\ Len(Drop(rest, n)) = Len(rest) - n
          /\ \A i \in 1..(Len(rest) - n) : Drop(rest, n)[i] = rest[n + i]
      BY ONLY <3>1, DropElements
    <3>3. QED
      BY ONLY <1>4, <3>2
  <2>2. Len(path) = Len(e) + Len(a)
    BY ONLY <1>1, <1>2, <2>1
  <2>3. ASSUME NEW i \in 1..Len(a) PROVE path[Len(e) + i] = a[i]
    <3>1. n + i \in 1..Len(rest) /\ Len(e) + i = (n + i) + 1
      BY ONLY <1>1, <1>2, <2>1
    <3>2. QED
      BY ONLY <1>1, <2>1, <3>1
  <2>4. \A i \in 1..Len(e) : path[i] = e[i]
    BY ONLY <1>2
  <2>5. path \in Seq(D) /\ e \in Seq(D) /\ a \in Seq(D)
    BY ONLY <1>1, <1>2, <2>1
  <2>6. Joins(path, e, a, D)
    BY ONLY <2>2, <2>3, <2>4, <2>5 DEF Joins
  <2>7. QED
    BY ONLY <2>6, IsJoin
<1>5. ASSUME NEW a, a = Drop(suffix, n), NEW whole, whole = <<Head(path)>> \o suffix
      PROVE  whole = e \o a
  <2>1. /\ a \in Seq(D) /\ Len(a) = Len(suffix) - n
        /\ \A i \in 1..(Len(suffix) - n) : a[i] = suffix[n + i]
    <3>1. n \in 0..Len(suffix) /\ suffix \in Seq(D)
      BY ONLY <1>1
    <3>2. /\ Drop(suffix, n) \in Seq(D) /\ Len(Drop(suffix, n)) = Len(suffix) - n
          /\ \A i \in 1..(Len(suffix) - n) : Drop(suffix, n)[i] = suffix[n + i]
      BY ONLY <3>1, DropElements
    <3>3. QED
      BY ONLY <1>5, <3>2
  <2>2. /\ whole \in Seq(D) /\ Len(whole) = 1 + Len(suffix)
        /\ whole[1] = path[1]
        /\ \A i \in 1..Len(suffix) : whole[1 + i] = suffix[i]
    BY ONLY <1>1, <1>5
  <2>3. Len(whole) = Len(e) + Len(a)
    BY ONLY <1>1, <1>2, <2>1, <2>2
  <2>4. ASSUME NEW i \in 1..Len(e) PROVE whole[i] = e[i]
    <3>1. CASE i = 1
      BY ONLY <1>1, <1>2, <2>2, <3>1
    <3>2. CASE i # 1
      <4>1. /\ i - 1 \in 1..n /\ i - 1 \in 1..Len(suffix) /\ i - 1 \in 1..Len(rest)
            /\ 1 + (i - 1) = i /\ (i - 1) + 1 = i /\ i \in 1..(1 + n)
        BY ONLY <1>1, <1>2, <3>2
      <4>2. whole[i] = suffix[i - 1] /\ suffix[i - 1] = rest[i - 1]
        BY ONLY <1>1, <2>2, <4>1
      <4>3. rest[i - 1] = path[i] /\ path[i] = e[i]
        BY ONLY <1>1, <1>2, <4>1
      <4>4. QED
        BY <4>2, <4>3
    <3>3. QED
      BY <3>1, <3>2
  <2>5. ASSUME NEW i \in 1..Len(a) PROVE whole[Len(e) + i] = a[i]
    <3>1. n + i \in 1..Len(suffix) /\ Len(e) + i = 1 + (n + i)
      BY ONLY <1>1, <1>2, <2>1
    <3>2. QED
      BY ONLY <2>1, <2>2, <3>1
  <2>6. whole \in Seq(D) /\ e \in Seq(D) /\ a \in Seq(D)
    BY ONLY <1>2, <2>1, <2>2
  <2>7. Joins(whole, e, a, D)
    BY ONLY <2>3, <2>4, <2>5, <2>6 DEF Joins
  <2>8. QED
    BY ONLY <2>7, IsJoin
<1>6. QED
  BY <1>2, <1>3, <1>4, <1>5

-----------------------------------------------------------------------------
(***************************************************************************)
(* Trees.  A tree is a node of a forest, a set of nodes that has the       *)
(* children of each; the digits are those of the paths, from a set D.      *)
(***************************************************************************)
IsForest(S, D) ==
  \A node \in S : \A d \in DOMAIN node.children :
    /\ d \in D
    /\ node.children[d].suffix \in Seq(D)
    /\ node.children[d].node \in S

(* from_single_child makes a node with that child.                          *)
SingleChildLaw ==
  \A path, node : FromSingleChild(path, node).children = SingleChild(path, node)

(* A set of numbers that has a bound has a maximum.                         *)
LEMMA MaxOfBounded ==
  ASSUME NEW S, S \subseteq Nat, S # {}, NEW bound \in Nat, \A i \in S : i <= bound
  PROVE  Max(S) \in S /\ \A i \in S : i <= Max(S)
<1>1. SUFFICES ASSUME ~ \E x \in S : \A y \in S : x >= y PROVE FALSE
  BY DEF Max
<1> DEFINE Exceeded == {n \in Nat : \E x \in S : x >= n}
<1>2. 0 \in Exceeded
  <2>1. PICK x \in S : TRUE
    OBVIOUS
  <2>2. x >= 0
    BY <2>1
  <2>3. QED
    BY <2>2
<1>3. ASSUME NEW n \in Nat, n \in Exceeded PROVE n + 1 \in Exceeded
  <2>1. PICK x \in S : x >= n
    BY <1>3
  <2>2. PICK y \in S : ~ (x >= y)
    BY <1>1
  <2>3. x \in Nat /\ y \in Nat
    OBVIOUS
  <2>4. y >= n + 1
    BY <2>1, <2>2, <2>3
  <2>5. QED
    BY <2>4
<1> HIDE DEF Exceeded
<1>4. \A n \in Nat : n \in Exceeded
  BY <1>2, <1>3, NatSetInduction
<1>5. bound + 1 \in Exceeded
  BY <1>4
<1>6. QED
  BY <1>5 DEF Exceeded

(* longest_prefix_length returns the length of a common prefix, and of none *)
(* that is longer.                                                          *)
LEMMA LongestPrefixFacts ==
  ASSUME NEW D, NEW xs \in Seq(D), NEW ys \in Seq(D),
         NEW n, n = LongestPrefixLength(xs, ys)
  PROVE  /\ n \in 0..Len(xs)
         /\ n \in 0..Len(ys)
         /\ \A i \in 1..n : xs[i] = ys[i]
         /\ n < Len(xs) /\ n < Len(ys) => xs[n + 1] # ys[n + 1]
         /\ IsPrefix(ys, xs) <=> n = Len(ys)
<1> DEFINE Same(i) == SubSeq(xs, 1, i) = SubSeq(ys, 1, i)
           Common == {i \in 0..Len(xs) : i <= Len(ys) /\ Same(i)}
<1>1. \A i \in Nat : i <= Len(xs) /\ i <= Len(ys) =>
        (Same(i) <=> \A j \in 1..i : xs[j] = ys[j])
  OBVIOUS
<1> HIDE DEF Same
<1>2. 0 \in Common
  BY <1>1
<1>3. Common \subseteq Nat /\ \A i \in Common : i <= Len(xs)
  OBVIOUS
<1>4. n = Max(Common)
  BY DEF LongestPrefixLength, Same
<1>5. n \in Common /\ \A i \in Common : i <= n
  <2> HIDE DEF Common
  <2>1. Len(xs) \in Nat
    OBVIOUS
  <2>2. QED
    BY <1>2, <1>3, <1>4, <2>1, MaxOfBounded
<1>6. ASSUME n < Len(xs), n < Len(ys), xs[n + 1] = ys[n + 1]
      PROVE  FALSE
  <2>1. \A j \in 1..(n + 1) : xs[j] = ys[j]
    BY <1>1, <1>5, <1>6
  <2>2. n + 1 \in Common
    BY <1>1, <1>5, <1>6, <2>1
  <2>3. QED
    BY <1>5, <2>2
<1>7. Len(xs) \in Nat /\ Len(ys) \in Nat
  OBVIOUS
<1>8. IsPrefix(ys, xs) <=>
        Len(ys) <= Len(xs) /\ \A i \in 1..Len(ys) : xs[i] = ys[i]
  BY DEF IsPrefix
<1>9. n \in 0..Len(xs) /\ n \in 0..Len(ys) /\ \A i \in 1..n : xs[i] = ys[i]
  BY <1>1, <1>5, <1>7
<1>10. IsPrefix(ys, xs) <=> n = Len(ys)
  <2>1. CASE n = Len(ys)
    BY <1>7, <1>8, <1>9, <2>1
  <2>2. CASE n # Len(ys)
    <3>1. n < Len(ys) /\ n + 1 \in 1..Len(ys)
      BY <1>7, <1>9, <2>2
    <3>2. ASSUME IsPrefix(ys, xs) PROVE FALSE
      <4>1. n < Len(xs) /\ xs[n + 1] = ys[n + 1]
        BY <1>7, <1>8, <1>9, <3>1, <3>2
      <4>2. QED
        BY <1>6, <3>1, <4>1
    <3>3. QED
      BY <2>2, <3>2
  <2>3. QED
    BY <2>1, <2>2
<1>11. QED
  BY <1>6, <1>9, <1>10

(* Where the loop of rh_follow_path goes on to a child.                     *)
LeadsOn(node, path) ==
  /\ Head(path) \in DOMAIN node.children
  /\ IsPrefix(node.children[Head(path)].suffix, Tail(path))
NextNode(node, path) == node.children[Head(path)].node
NextPath(node, path) == Drop(Tail(path), Len(node.children[Head(path)].suffix))

LEMMA NextFacts ==
  ASSUME NEW D, NEW S, IsForest(S, D), NEW node \in S, NEW path \in Seq(D),
         path # <<>>, LeadsOn(node, path)
  PROVE  /\ NextNode(node, path) \in S
         /\ NextPath(node, path) \in Seq(D)
         /\ Len(NextPath(node, path)) < Len(path)
<1> DEFINE child == node.children[Head(path)]
           rest == Tail(path)
<1>1. rest \in Seq(D) /\ Len(rest) = Len(path) - 1 /\ Len(path) \in Nat \ {0}
  BY TailFacts
<1>2. child.suffix \in Seq(D) /\ child.node \in S /\ IsPrefix(child.suffix, rest)
  BY DEF LeadsOn, IsForest
<1>3. Len(child.suffix) \in 0..Len(rest)
  BY <1>1, <1>2, PrefixFacts
<1>4. /\ Drop(rest, Len(child.suffix)) \in Seq(D)
      /\ Len(Drop(rest, Len(child.suffix))) = Len(rest) - Len(child.suffix)
  <2> HIDE DEF rest, child
  <2>1. QED
    BY <1>1, <1>3, DropElements
<1>5. NextNode(node, path) = child.node /\ NextPath(node, path) = Drop(rest, Len(child.suffix))
  BY DEF NextNode, NextPath
<1> HIDE DEF rest, child
<1>6. Len(child.suffix) \in Nat /\ Len(rest) \in Nat /\ Len(path) \in Nat
  BY <1>1, <1>3
<1>7. Len(rest) - Len(child.suffix) < Len(path)
  <2>1. \A a, b, c \in Nat : a = c - 1 => a - b < c
    OBVIOUS
  <2>2. QED
    BY <1>1, <1>6, <2>1
<1>8. QED
  BY <1>2, <1>4, <1>5, <1>7

(* What a turn does at a node of a tree.                                    *)
LEMMA TurnFacts ==
  ASSUME NEW node, NEW path
  PROVE  /\ path = <<>> => Turn(At(node, path)) = {At(node, path)}
         /\ path # <<>> /\ LeadsOn(node, path) =>
              Turn(At(node, path)) = {At(NextNode(node, path), NextPath(node, path))}
         /\ path # <<>> /\ ~LeadsOn(node, path) =>
              Turn(At(node, path)) \in {{}, {At(node, path)}}
BY DEF Turn, At, GoesOn, LeadsOn, NextNode, NextPath

(* A turn that changes nothing is followed by none that does.               *)
LEMMA StaysThere ==
  ASSUME NEW at, Turn(at) = {at}
  PROVE  \A n \in Nat : AfterTurns(at, n) = {at}
<1> DEFINE S == {n \in Nat : AfterTurns(at, n) = {at}}
<1>1. 0 \in S
  BY AfterTurnsEquation
<1>2. ASSUME NEW n \in Nat, n \in S PROVE n + 1 \in S
  <2>1. AfterTurns(at, n + 1) = UNION {AfterTurns(b, n) : b \in Turn(at)}
    BY FirstTurn
  <2>2. QED
    BY <1>2, <2>1
<1> HIDE DEF S
<1>3. \A n \in Nat : n \in S
  BY <1>1, <1>2, NatSetInduction
<1>4. QED
  BY <1>3 DEF S

(* The loop is left after as many turns as the path has digits.             *)
LEMMA EnoughTurns ==
  ASSUME NEW D, NEW S, IsForest(S, D)
  PROVE  \A n \in Nat : \A node \in S, path \in Seq(D) :
           Len(path) <= n => AfterTurns(At(node, path), n) = FollowPath(node, path)
<1> DEFINE Enough(n) == \A node \in S, path \in Seq(D) :
             Len(path) <= n => AfterTurns(At(node, path), n) = FollowPath(node, path)
           B == {n \in Nat : \A m \in 0..n : Enough(m)}
<1>1. \A path \in Seq(D) : Len(path) \in Nat /\ (Len(path) = 0 <=> path = <<>>)
  OBVIOUS
<1>2. \A node, path : FollowPath(node, path) = AfterTurns(At(node, path), Len(path))
  BY DEF FollowPath
<1>3. Enough(0)
  BY <1>1, <1>2
<1>4. 0 \in B
  <2> HIDE DEF Enough
  <2>1. QED
    BY <1>3
<1>5. ASSUME NEW n \in Nat, n \in B PROVE n + 1 \in B
  <2>1. \A m \in 0..n : Enough(m)
    BY <1>5
  <2>2. ASSUME NEW node \in S, NEW path \in Seq(D), Len(path) <= n + 1
        PROVE  AfterTurns(At(node, path), n + 1) = FollowPath(node, path)
    <3> DEFINE at == At(node, path)
    <3>1. CASE Turn(at) = {at}
      <4>1. \A m \in Nat : AfterTurns(at, m) = {at}
        BY <3>1, StaysThere
      <4>2. n + 1 \in Nat /\ Len(path) \in Nat
        BY <1>1
      <4>3. QED
        BY <1>2, <4>1, <4>2
    <3>2. CASE path # <<>> /\ Turn(at) # {at}
      <4>1. Len(path) - 1 \in 0..n /\ Len(path) = (Len(path) - 1) + 1
        BY <1>1, <2>2, <3>2
      <4>2. AfterTurns(at, n + 1) = UNION {AfterTurns(b, n) : b \in Turn(at)}
        BY FirstTurn
      <4>3. FollowPath(node, path) = UNION {AfterTurns(b, Len(path) - 1) : b \in Turn(at)}
        <5>1. Len(path) - 1 \in Nat
          BY <4>1
        <5>2. AfterTurns(at, (Len(path) - 1) + 1)
                = UNION {AfterTurns(b, Len(path) - 1) : b \in Turn(at)}
          BY <5>1, FirstTurn
        <5>3. QED
          BY <1>2, <4>1, <5>2
      <4>4. CASE Turn(at) = {}
        BY <4>2, <4>3, <4>4
      <4>5. CASE LeadsOn(node, path)
        <5> DEFINE next == NextNode(node, path)
                   rest == NextPath(node, path)
        <5>1. Turn(at) = {At(next, rest)}
          BY <3>2, <4>5, TurnFacts
        <5>2. next \in S /\ rest \in Seq(D) /\ Len(rest) < Len(path)
          BY <3>2, <4>5, NextFacts
        <5> HIDE DEF next, rest
        <5>3. Len(rest) <= n /\ Len(rest) <= Len(path) - 1
          BY <1>1, <2>2, <5>2
        <5>4. AfterTurns(At(next, rest), n) = FollowPath(next, rest)
          BY <2>1, <5>2, <5>3
        <5>5. AfterTurns(At(next, rest), Len(path) - 1) = FollowPath(next, rest)
          BY <2>1, <4>1, <5>2, <5>3
        <5>6. QED
          BY <4>2, <4>3, <5>1, <5>4, <5>5
      <4>6. QED
        BY <3>2, <4>4, <4>5, TurnFacts
    <3>3. QED
      BY <3>1, <3>2, TurnFacts
  <2>3. Enough(n + 1)
    BY <2>2
  <2> HIDE DEF Enough
  <2>4. \A m \in 0..(n + 1) : m \in 0..n \/ m = n + 1
    OBVIOUS
  <2>5. QED
    BY <2>1, <2>3, <2>4
<1> HIDE DEF B
<1>6. \A n \in Nat : n \in B
  BY <1>4, <1>5, NatSetInduction
<1>7. \A n \in Nat : Enough(n)
  <2> HIDE DEF Enough
  <2>1. \A n \in Nat : n \in 0..n
    OBVIOUS
  <2>2. QED
    BY <1>6, <2>1 DEF B
<1>8. QED
  BY <1>7

(* The node that a path leads to is the one that the rest of the path leads *)
(* to from the child.                                                       *)
LEMMA NodeAtEquation ==
  ASSUME NEW D, NEW S, IsForest(S, D), NEW node \in S, NEW path \in Seq(D)
  PROVE  NodeAt(node, path) =
           IF path = <<>> THEN {node}
           ELSE IF LeadsOn(node, path)
           THEN NodeAt(NextNode(node, path), NextPath(node, path))
           ELSE {}
<1> DEFINE at == At(node, path)
<1>1. Len(path) \in Nat /\ (path = <<>> <=> Len(path) = 0)
  OBVIOUS
<1>2. FollowPath(node, path) = AfterTurns(at, Len(path))
  BY DEF FollowPath
<1>3. CASE Turn(at) = {at}
  <2>1. FollowPath(node, path) = {at}
    BY <1>1, <1>2, <1>3, StaysThere
  <2>2. at.node = node /\ at.postfix = path
    BY DEF At
  <2> HIDE DEF at
  <2>3. {a \in {at} : a.postfix = <<>>} = IF path = <<>> THEN {at} ELSE {}
    BY <2>2
  <2>4. NodeAt(node, path) = IF path = <<>> THEN {node} ELSE {}
    BY <2>1, <2>2, <2>3 DEF NodeAt
  <2>5. ASSUME path # <<>>, LeadsOn(node, path) PROVE FALSE
    <3>1. At(NextNode(node, path), NextPath(node, path)) = At(node, path)
      BY <1>3, <2>5, TurnFacts DEF at
    <3>2. NextPath(node, path) = path
      BY <3>1 DEF At
    <3>3. QED
      BY <1>1, <2>5, <3>2, NextFacts
  <2>6. QED
    BY <2>4, <2>5
<1>4. CASE path # <<>> /\ Turn(at) # {at}
  <2>1. Len(path) - 1 \in Nat /\ Len(path) = (Len(path) - 1) + 1
    BY <1>1, <1>4
  <2>2. AfterTurns(at, (Len(path) - 1) + 1)
          = UNION {AfterTurns(b, Len(path) - 1) : b \in Turn(at)}
    BY <2>1, FirstTurn
  <2>3. FollowPath(node, path) = UNION {AfterTurns(b, Len(path) - 1) : b \in Turn(at)}
    BY <1>2, <2>1, <2>2
  <2>4. CASE ~LeadsOn(node, path)
    <3>1. Turn(at) = {}
      BY <1>4, <2>4, TurnFacts
    <3>2. QED
      BY <1>4, <2>3, <2>4, <3>1 DEF NodeAt
  <2>5. CASE LeadsOn(node, path)
    <3> DEFINE next == NextNode(node, path)
               rest == NextPath(node, path)
    <3>1. Turn(at) = {At(next, rest)}
      BY <1>4, <2>5, TurnFacts
    <3>2. next \in S /\ rest \in Seq(D) /\ Len(rest) < Len(path)
      BY <1>4, <2>5, NextFacts
    <3>3. next = NextNode(node, path) /\ rest = NextPath(node, path)
      OBVIOUS
    <3> HIDE DEF next, rest
    <3>4. Len(rest) <= Len(path) - 1
      BY <1>1, <3>2
    <3>5. AfterTurns(At(next, rest), Len(path) - 1) = FollowPath(next, rest)
      BY <2>1, <3>2, <3>4, EnoughTurns
    <3>6. FollowPath(node, path) = FollowPath(next, rest)
      BY <2>3, <3>1, <3>5
    <3>7. QED
      BY <1>4, <2>5, <3>3, <3>6 DEF NodeAt
  <2>6. QED
    BY <2>4, <2>5
<1>5. QED
  BY <1>3, <1>4, TurnFacts
-----------------------------------------------------------------------------
(***************************************************************************)
(* insert_into_rh_tree, on trees.  A call within another is for a child,   *)
(* or for a new node in the middle of the edge to one.                     *)
(***************************************************************************)
Middles(S, D) ==
  {FromSingleChild(path, node) : path \in Seq(D) \ {<<>>}, node \in S}
Call(node, path) == [tree |-> node, path |-> path]

(* The new nodes of edges are nodes of trees, and their children are of the *)
(* old trees.                                                               *)
LEMMA MiddlesHaveChildren ==
  ASSUME NEW D, NEW S, IsForest(S, D), SingleChildLaw,
         NEW node \in S \cup Middles(S, D), NEW d \in DOMAIN node.children
  PROVE  /\ d \in D
         /\ node.children[d].suffix \in Seq(D)
         /\ node.children[d].node \in S
<1>1. CASE node \in S
  BY <1>1 DEF IsForest
<1>2. CASE node \in Middles(S, D)
  <2>1. PICK path \in Seq(D) \ {<<>>}, child \in S : node = FromSingleChild(path, child)
    BY <1>2 DEF Middles
  <2>2. node.children = SingleChild(path, child)
    BY <2>1 DEF SingleChildLaw
  <2>3. Head(path) \in D /\ Tail(path) \in Seq(D)
    BY TailFacts
  <2>4. d = Head(path) /\ node.children[d] = [suffix |-> Tail(path), node |-> child]
    BY <2>2 DEF SingleChild, Edge
  <2>5. QED
    BY <2>3, <2>4
<1>3. QED
  BY <1>1, <1>2

LEMMA MiddlesAreTrees ==
  ASSUME NEW D, NEW S, IsForest(S, D), SingleChildLaw
  PROVE  IsForest(S \cup Middles(S, D), D)
BY MiddlesHaveChildren DEF IsForest

(* The two kinds of call within a call.                                     *)
LEMMA InnerCallFacts ==
  ASSUME NEW D, NEW S, IsForest(S, D), SingleChildLaw,
         NEW node \in S \cup Middles(S, D), NEW path \in Seq(D),
         CallsAgain(Call(node, path)),
         NEW child, child = node.children[Head(path)],
         NEW n, n = SharedLength(Call(node, path))
  PROVE  /\ path # <<>> /\ Head(path) \in DOMAIN node.children
         /\ child.node \in S /\ child.suffix \in Seq(D)
         /\ n \in 0..Len(Tail(path)) /\ n \in 0..Len(child.suffix)
         /\ \A i \in 1..n : Tail(path)[i] = child.suffix[i]
         /\ TakesEdge(Call(node, path)) <=> n = Len(child.suffix)
         /\ TakesEdge(Call(node, path)) <=> IsPrefix(child.suffix, Tail(path))
         /\ n < Len(child.suffix) /\ n < Len(Tail(path)) =>
              child.suffix[n + 1] # Tail(path)[n + 1]
         /\ InnerCall(Call(node, path)) =
              Call(IF n = Len(child.suffix) THEN child.node
                   ELSE FromSingleChild(Drop(child.suffix, n), child.node),
                   Drop(Tail(path), n))
<1> DEFINE call == Call(node, path)
           rest == Tail(path)
<1>1. call.tree = node /\ call.path = path
  BY DEF Call
<1>2. path # <<>> /\ Head(path) \in DOMAIN node.children
  BY <1>1 DEF CallsAgain
<1>3. child.node \in S /\ child.suffix \in Seq(D)
  BY <1>2, MiddlesHaveChildren
<1>4. rest \in Seq(D)
  BY <1>2, TailFacts
<1>5. ChildOf(call) = child
  BY <1>1 DEF ChildOf
<1> DEFINE suffix == child.suffix
<1>6. n = LongestPrefixLength(rest, suffix) /\ suffix \in Seq(D)
  BY <1>1, <1>3, <1>5 DEF SharedLength
<1>7. TakesEdge(call) <=> IsPrefix(suffix, rest)
  BY <1>1, <1>5 DEF TakesEdge
<1> HIDE DEF rest, suffix
<1>8. /\ n \in 0..Len(rest) /\ n \in 0..Len(suffix)
      /\ \A i \in 1..n : rest[i] = suffix[i]
      /\ n < Len(rest) /\ n < Len(suffix) => rest[n + 1] # suffix[n + 1]
      /\ IsPrefix(suffix, rest) <=> n = Len(suffix)
  BY <1>4, <1>6, LongestPrefixFacts
<1>10. InnerCall(call) =
         [tree |-> IF TakesEdge(call) THEN child.node
                   ELSE FromSingleChild(Drop(child.suffix, n), child.node),
          path |-> Drop(rest, n)]
  BY <1>1, <1>5 DEF InnerCall, rest
<1>11. QED
  BY <1>2, <1>3, <1>7, <1>8, <1>10 DEF rest, suffix, Call

InnerCallIs(inner, child, path, n, S, D) ==
  /\ child.node \in S
  /\ SharesDigits(path, child.suffix, n, D)
  /\ n < Len(child.suffix) /\ n < Len(Tail(path)) =>
       child.suffix[n + 1] # Tail(path)[n + 1]
  /\ inner = Call(IF n = Len(child.suffix) THEN child.node
                  ELSE FromSingleChild(Drop(child.suffix, n), child.node),
                  Drop(Tail(path), n))

LEMMA InnerCallOf ==
  ASSUME NEW D, NEW S, IsForest(S, D), SingleChildLaw,
         NEW node \in S \cup Middles(S, D), NEW path \in Seq(D),
         CallsAgain(Call(node, path))
  PROVE  InnerCallIs(InnerCall(Call(node, path)), node.children[Head(path)], path,
                     SharedLength(Call(node, path)), S, D)
BY InnerCallFacts DEF InnerCallIs, SharesDigits

(* A call within a call is for a tree again, and for a shorter path.        *)
LEMMA InnerCallIsSmaller ==
  ASSUME NEW D, NEW S, IsForest(S, D), SingleChildLaw,
         NEW node \in S \cup Middles(S, D), NEW path \in Seq(D),
         CallsAgain(Call(node, path)),
         NEW inner, inner = InnerCall(Call(node, path))
  PROVE  /\ inner = Call(inner.tree, inner.path)
         /\ inner.tree \in S \cup Middles(S, D)
         /\ inner.path \in Seq(D) /\ Len(inner.path) < Len(path)
<1> DEFINE child == node.children[Head(path)]
           n == SharedLength(Call(node, path))
           tree == IF n = Len(child.suffix) THEN child.node
                   ELSE FromSingleChild(Drop(child.suffix, n), child.node)
<1>1. /\ path # <<>> /\ child.node \in S /\ child.suffix \in Seq(D)
      /\ n \in 0..Len(Tail(path)) /\ n \in 0..Len(child.suffix)
      /\ inner = Call(tree, Drop(Tail(path), n))
  BY InnerCallFacts
<1> HIDE DEF child, n
<1>2. Tail(path) \in Seq(D) /\ Len(Tail(path)) = Len(path) - 1 /\ Len(path) \in Nat
  BY <1>1, TailFacts
<1>3. Drop(Tail(path), n) \in Seq(D) /\ Len(Drop(Tail(path), n)) = Len(Tail(path)) - n
  BY <1>1, <1>2, DropElements
<1>4. Len(Drop(Tail(path), n)) < Len(path)
  <2>1. \A a, b, c \in Nat : a = c - 1 => a - b < c
    OBVIOUS
  <2>2. n \in Nat /\ Len(Tail(path)) \in Nat
    BY <1>1, <1>2
  <2>3. QED
    BY <1>2, <1>3, <2>1, <2>2
<1>5. tree \in S \cup Middles(S, D)
  <2>1. CASE n = Len(child.suffix)
    BY <1>1, <2>1
  <2>2. CASE n # Len(child.suffix)
    <3>1. /\ Drop(child.suffix, n) \in Seq(D)
          /\ Len(Drop(child.suffix, n)) = Len(child.suffix) - n
      BY <1>1, DropElements
    <3>2. Len(child.suffix) \in Nat
      BY <1>1
    <3>3. Len(Drop(child.suffix, n)) # 0
      BY <1>1, <2>2, <3>1, <3>2
    <3>4. Drop(child.suffix, n) # <<>>
      BY <3>3
    <3>5. QED
      BY <1>1, <2>2, <3>1, <3>4 DEF Middles
  <2>3. QED
    BY <2>1, <2>2
<1> HIDE DEF tree
<1>6. inner.tree = tree /\ inner.path = Drop(Tail(path), n)
  BY <1>1 DEF Call
<1>7. QED
  BY <1>1, <1>3, <1>4, <1>5, <1>6

(* Without a call within it, a call has no use for the result of one.       *)
LEMMA NoInnerCall ==
  ASSUME NEW call, ~CallsAgain(call), NEW value, NEW x, NEW y
  PROVE  Returns(call, value, x) = Returns(call, value, y)
BY DEF Returns

(* A path leads to no more calls than it has digits.                        *)
LEMMA EnoughCalls ==
  ASSUME NEW D, NEW S, IsForest(S, D), SingleChildLaw, NEW value
  PROVE  \A n \in Nat : \A node \in S \cup Middles(S, D), path \in Seq(D) :
           Len(path) <= n =>
             ResultOf(Call(node, path), value, n + 1) = Insert(node, path, value)
<1> DEFINE Enough(n) == \A node \in S \cup Middles(S, D), path \in Seq(D) :
             Len(path) <= n =>
               ResultOf(Call(node, path), value, n + 1) = Insert(node, path, value)
           B == {n \in Nat : \A m \in 0..n : Enough(m)}
<1>1. \A path \in Seq(D) : Len(path) \in Nat /\ (Len(path) = 0 <=> path = <<>>)
  OBVIOUS
<1>2. \A node, path :
        Insert(node, path, value) = ResultOf(Call(node, path), value, Len(path) + 1)
  BY DEF Insert, Call
<1>3. Enough(0)
  <2>1. ASSUME NEW path \in Seq(D), Len(path) <= 0 PROVE Len(path) = 0
    BY <1>1, <2>1
  <2>2. QED
    BY <1>2, <2>1
<1>4. 0 \in B
  <2> HIDE DEF Enough
  <2>1. QED
    BY <1>3
<1>5. ASSUME NEW n \in Nat, n \in B PROVE n + 1 \in B
  <2>1. \A m \in 0..n : Enough(m)
    BY <1>5
  <2>2. ASSUME NEW node \in S \cup Middles(S, D), NEW path \in Seq(D),
               Len(path) <= n + 1
        PROVE  ResultOf(Call(node, path), value, (n + 1) + 1) = Insert(node, path, value)
    <3> DEFINE call == Call(node, path)
               inner == InnerCall(call)
    <3>1. ResultOf(call, value, (n + 1) + 1)
            = Returns(call, value, ResultOf(inner, value, n + 1))
      <4>1. n + 1 \in Nat
        OBVIOUS
      <4>2. QED
        BY <4>1, FirstResult
    <3>2. Insert(node, path, value)
            = Returns(call, value, ResultOf(inner, value, Len(path)))
      BY <1>1, <1>2, FirstResult
    <3>3. CASE ~CallsAgain(call)
      BY <3>1, <3>2, <3>3, NoInnerCall
    <3>4. CASE CallsAgain(call)
      <4>1. /\ inner = Call(inner.tree, inner.path)
            /\ inner.tree \in S \cup Middles(S, D)
            /\ inner.path \in Seq(D) /\ Len(inner.path) < Len(path)
        BY <3>4, InnerCallIsSmaller
      <4> HIDE DEF inner, call
      <4> DEFINE k == Len(path) - 1
      <4>2. /\ k \in 0..n /\ Len(path) = k + 1
            /\ Len(inner.path) <= k /\ Len(inner.path) <= n
        BY <1>1, <2>2, <4>1
      <4> HIDE DEF k
      <4>3. ResultOf(Call(inner.tree, inner.path), value, n + 1)
              = Insert(inner.tree, inner.path, value)
        BY <2>1, <4>1, <4>2
      <4>4. ResultOf(Call(inner.tree, inner.path), value, k + 1)
              = Insert(inner.tree, inner.path, value)
        BY <2>1, <4>1, <4>2
      <4>5. QED
        BY <3>1, <3>2, <4>1, <4>2, <4>3, <4>4 DEF call
    <3>5. QED
      BY <3>3, <3>4
  <2>3. Enough(n + 1)
    BY <2>2
  <2> HIDE DEF Enough
  <2>4. \A m \in 0..(n + 1) : m \in 0..n \/ m = n + 1
    OBVIOUS
  <2>5. QED
    BY <2>1, <2>3, <2>4
<1> HIDE DEF B
<1>6. \A n \in Nat : n \in B
  BY <1>4, <1>5, NatSetInduction
<1>7. \A n \in Nat : Enough(n)
  <2> HIDE DEF Enough
  <2>1. \A n \in Nat : n \in 0..n
    OBVIOUS
  <2>2. QED
    BY <1>6, <2>1 DEF B
<1>8. QED
  BY <1>7

(* An insertion returns what it does with the result of the insertion that  *)
(* the call within it is, if there is one.                                  *)
LEMMA InsertEquation ==
  ASSUME NEW D, NEW S, IsForest(S, D), SingleChildLaw,
         NEW node \in S \cup Middles(S, D), NEW path \in Seq(D), NEW value,
         NEW inner, inner = InnerCall(Call(node, path))
  PROVE  /\ CallsAgain(Call(node, path)) =>
              Insert(node, path, value)
                = Returns(Call(node, path), value, Insert(inner.tree, inner.path, value))
         /\ ~CallsAgain(Call(node, path)) =>
              \A x : Insert(node, path, value) = Returns(Call(node, path), value, x)
<1> DEFINE call == Call(node, path)
<1>1. Len(path) \in Nat
  OBVIOUS
<1>2. Insert(node, path, value) = ResultOf(call, value, Len(path) + 1)
  BY DEF Insert, Call
<1>3. Insert(node, path, value) = Returns(call, value, ResultOf(inner, value, Len(path)))
  BY <1>1, <1>2, FirstResult
<1>4. CASE ~CallsAgain(call)
  BY <1>3, <1>4, NoInnerCall
<1>5. CASE CallsAgain(call)
  <2>1. /\ inner = Call(inner.tree, inner.path)
        /\ inner.tree \in S \cup Middles(S, D)
        /\ inner.path \in Seq(D) /\ Len(inner.path) < Len(path)
    BY <1>5, InnerCallIsSmaller
  <2> DEFINE k == Len(path) - 1
  <2>2. k \in Nat /\ Len(path) = k + 1 /\ Len(inner.path) <= k
    BY <1>1, <2>1
  <2> HIDE DEF k
  <2>3. ResultOf(Call(inner.tree, inner.path), value, k + 1)
          = Insert(inner.tree, inner.path, value)
    BY <2>1, <2>2, EnoughCalls
  <2>4. QED
    BY <1>3, <1>5, <2>1, <2>2, <2>3
<1>6. QED
  BY <1>4, <1>5
-----------------------------------------------------------------------------
(***************************************************************************)
(* What an insertion makes of a tree, in the three cases of a call.        *)
(***************************************************************************)
IsTree(node, D) == \E S : node \in S /\ IsForest(S, D)
Inserted(tree, path, value) == Insert(tree, path, value).node
Counted(tree, path, value) == Insert(tree, path, value).count

(* rh_node_insert_child: what is below the new edge is replaced, and        *)
(* nothing else.                                                            *)
Grafted(node, edge, child) ==
  ReplaceChildren(node, WithChild(node.children, edge, child))

(* The path ends at the node.                                               *)
LEMMA InsertedHere ==
  ASSUME NEW D, SingleChildLaw, NEW node, IsTree(node, D),
         NEW path, path = <<>>, NEW value
  PROVE  /\ Inserted(node, path, value) = NewNode(<<node>>, value)
         /\ Counted(node, path, value) = 1
<1>1. PICK S : node \in S /\ IsForest(S, D)
  BY DEF IsTree
<1> DEFINE call == Call(node, path)
<1>2. call.tree = node /\ call.path = path
  BY DEF Call
<1>3. ~CallsAgain(call)
  BY <1>2 DEF CallsAgain
<1>4. path \in Seq(D) /\ node \in S \cup Middles(S, D)
  BY <1>1
<1>5. Insert(node, path, value) = Returns(call, value, 0)
  BY ONLY <1>1, <1>3, <1>4, SingleChildLaw, InsertEquation
<1>6. /\ Returns(call, value, 0).node = NewNode(<<node>>, value)
      /\ Returns(call, value, 0).count = 1
  BY <1>2 DEF Returns
<1>7. QED
  BY <1>5, <1>6 DEF Inserted, Counted

(* The node has no child in that direction: it gets a new one.              *)
LEMMA InsertedLeaf ==
  ASSUME NEW D, SingleChildLaw, NEW node, IsTree(node, D),
         NEW path \in Seq(D), path # <<>>,
         Head(path) \notin DOMAIN node.children, NEW value
  PROVE  /\ Inserted(node, path, value) = Grafted(node, path, NewNode(<<>>, value))
         /\ Counted(node, path, value) = 2
<1>1. PICK S : node \in S /\ IsForest(S, D)
  BY DEF IsTree
<1> DEFINE call == Call(node, path)
<1>2. call.tree = node /\ call.path = path
  BY DEF Call
<1>3. ~CallsAgain(call)
  BY <1>2 DEF CallsAgain
<1>4. path \in Seq(D) /\ node \in S \cup Middles(S, D)
  BY <1>1
<1>5. Insert(node, path, value) = Returns(call, value, 0)
  BY ONLY <1>1, <1>3, <1>4, SingleChildLaw, InsertEquation
<1>6. Returns(call, value, 0).node = Grafted(node, path, NewNode(<<>>, value))
  BY <1>2, <1>3 DEF Returns, InsertChild, Grafted
<1>7. Returns(call, value, 0).count = 2
  BY <1>2, <1>3 DEF Returns, InsertChild
<1>8. QED
  BY <1>5, <1>6, <1>7 DEF Inserted, Counted

(* The path goes along an edge, or part of one: the edge ends, or is split, *)
(* where the path leaves it.  Then e and s are the two parts of the edge,   *)
(* and inner is what the path is after e.                                   *)
Descends(node, path, value, e, s, tree, inner, D) ==
  /\ e \in Seq(D) /\ e # <<>> /\ Head(e) = Head(path)
  /\ inner \in Seq(D) /\ path = e \o inner /\ Len(inner) < Len(path)
  /\ s \in Seq(D) /\ <<Head(path)>> \o node.children[Head(path)].suffix = e \o s
  /\ s # <<>> /\ inner # <<>> => Head(s) # Head(inner)
  /\ tree = IF s = <<>> THEN node.children[Head(path)].node
            ELSE FromSingleChild(s, node.children[Head(path)].node)
  /\ Inserted(node, path, value) = Grafted(node, e, Inserted(tree, inner, value))
  /\ Counted(node, path, value)
       = (Counted(tree, inner, value) + IF s = <<>> THEN 0 ELSE 1) + 1

LEMMA InsertedWithin ==
  ASSUME NEW D, SingleChildLaw, NEW node, IsTree(node, D),
         NEW path \in Seq(D), path # <<>>,
         Head(path) \in DOMAIN node.children, NEW value
  PROVE  \E e, s, tree, inner : Descends(node, path, value, e, s, tree, inner, D)
<1>1. PICK S : node \in S /\ IsForest(S, D)
  BY DEF IsTree
<1> DEFINE call == Call(node, path)
<1>2. call.tree = node /\ call.path = path
  BY DEF Call
<1>3. CallsAgain(call)
  BY <1>2 DEF CallsAgain
<1>4. PICK inner : inner = InnerCall(call)
  OBVIOUS
<1>5. node \in S \cup Middles(S, D)
  BY <1>1
<1>6. Insert(node, path, value)
        = Returns(call, value, Insert(inner.tree, inner.path, value))
  BY <1>1, <1>3, <1>4, <1>5, InsertEquation
<1>7. inner.path \in Seq(D) /\ Len(inner.path) < Len(path)
  BY <1>1, <1>3, <1>4, <1>5, InnerCallIsSmaller
<1>8. PICK child : child = node.children[Head(path)]
  OBVIOUS
<1>9. PICK n : n = SharedLength(call)
  OBVIOUS
<1>10. InnerCallIs(inner, child, path, n, S, D)
  <2>1. InnerCallIs(InnerCall(call), node.children[Head(path)], path,
                          SharedLength(call), S, D)
    BY <1>1, <1>3, <1>5, InnerCallOf
  <2>2. QED
    BY <1>4, <1>8, <1>9, <2>1
<1>11. PICK suffix, below : suffix = child.suffix /\ below = child.node
  OBVIOUS
<1>12. PICK s : s = Drop(suffix, n)
  OBVIOUS
<1>13. /\ inner.tree = IF n = Len(suffix) THEN below ELSE FromSingleChild(s, below)
       /\ inner.path = Drop(Tail(path), n)
  BY <1>10, <1>11, <1>12 DEF InnerCallIs, Call
<1>14. below \in S /\ SharesDigits(path, suffix, n, D)
  BY <1>10, <1>11 DEF InnerCallIs
<1>15. PICK e : e = SubSeq(path, 1, 1 + n)
  OBVIOUS
<1>16. /\ e \in Seq(D) /\ e # <<>> /\ Head(e) = Head(path)
       /\ path = e \o inner.path
       /\ <<Head(path)>> \o suffix = e \o s
  <2>1. SharesEdge(SubSeq(path, 1, 1 + n), path, suffix, n, D)
    BY <1>14, SharedEdge
  <2>2. SharesEdge(e, path, suffix, n, D)
    BY <1>15, <2>1
  <2>3. QED
    BY <1>12, <1>13, <2>2 DEF SharesEdge
<1>17. /\ s \in Seq(D)
       /\ n = Len(suffix) => s = <<>>
       /\ n # Len(suffix) => s # <<>>
  <2>0. suffix \in Seq(D) /\ n \in 0..Len(suffix)
    BY <1>14 DEF SharesDigits
  <2>1. s \in Seq(D) /\ Len(s) = Len(suffix) - n
    BY <1>12, <2>0, DropElements
  <2>2. Len(suffix) \in Nat
    BY <2>0
  <2>3. n = Len(suffix) => Len(s) = 0
    BY <2>1, <2>2
  <2>4. n # Len(suffix) => Len(s) # 0
    BY <2>0, <2>1, <2>2
  <2>5. QED
    BY <2>1, <2>3, <2>4
<1>18. s # <<>> /\ inner.path # <<>> => Head(s) # Head(inner.path)
  <2>1. SUFFICES ASSUME s # <<>>, inner.path # <<>> PROVE Head(s) # Head(inner.path)
    OBVIOUS
  <2>2. PICK rest, ip : rest = Tail(path) /\ ip = inner.path
    OBVIOUS
  <2>3. /\ rest \in Seq(D) /\ suffix \in Seq(D)
        /\ n \in 0..Len(rest) /\ n \in 0..Len(suffix)
        /\ n < Len(suffix) /\ n < Len(rest) => suffix[n + 1] # rest[n + 1]
    BY <1>10, <1>11, <1>14, <2>2, TailFacts
         DEF InnerCallIs, SharesDigits
  <2>4. ip = Drop(rest, n) /\ ip # <<>>
    BY <1>13, <2>1, <2>2
  <2>5. /\ s \in Seq(D) /\ Len(s) = Len(suffix) - n
        /\ \A i \in 1..(Len(suffix) - n) : s[i] = suffix[n + i]
    BY ONLY <1>12, <2>3, DropElements
  <2>6. /\ ip \in Seq(D) /\ Len(ip) = Len(rest) - n
        /\ \A i \in 1..(Len(rest) - n) : ip[i] = rest[n + i]
    BY ONLY <2>3, <2>4, DropElements
  <2>7. /\ n < Len(suffix) /\ n < Len(rest)
        /\ 1 \in 1..(Len(suffix) - n) /\ 1 \in 1..(Len(rest) - n)
    <3>1. Len(s) # 0 /\ Len(ip) # 0
      BY <2>1, <2>4, <2>5, <2>6
    <3>2. n \in Nat /\ Len(suffix) \in Nat /\ Len(rest) \in Nat
      BY <2>3
    <3>3. Len(suffix) - n # 0 /\ Len(rest) - n # 0
      BY <2>5, <2>6, <3>1
    <3>4. n <= Len(suffix) /\ n <= Len(rest)
      BY <2>3
    <3>5. QED
      BY ONLY <3>2, <3>3, <3>4
  <2>8. s[1] = suffix[n + 1] /\ ip[1] = rest[n + 1]
    BY <2>5, <2>6, <2>7
  <2>9. Head(s) = s[1] /\ Head(ip) = ip[1]
    BY <2>1, <2>4, <2>5, <2>6
  <2>10. QED
    BY <2>2, <2>3, <2>7, <2>8, <2>9
<1>19. Inserted(node, path, value) = Grafted(node, e, Inserted(inner.tree, inner.path, value))
  <2>1. Returns(call, value, Insert(inner.tree, inner.path, value)).node
          = Grafted(node, SubSeq(path, 1, 1 + n), Inserted(inner.tree, inner.path, value))
    BY <1>2, <1>3, <1>9 DEF Returns, InsertChild, Grafted, Inserted
  <2>2. QED
    BY <1>6, <1>15, <2>1 DEF Inserted
<1>20. inner.tree = IF s = <<>> THEN below ELSE FromSingleChild(s, below)
  BY <1>13, <1>17
<1>21. suffix = node.children[Head(path)].suffix /\ below = node.children[Head(path)].node
  BY <1>8, <1>11
<1>22. Counted(node, path, value)
         = (Counted(inner.tree, inner.path, value) + IF s = <<>> THEN 0 ELSE 1) + 1
  <2>1. TakesEdge(call) <=> n = Len(suffix)
    BY <1>1, <1>3, <1>5, <1>8, <1>9, <1>11, InnerCallFacts
  <2>2. PICK k : k = Counted(inner.tree, inner.path, value)
    OBVIOUS
  <2>3. k = Insert(inner.tree, inner.path, value).count
    BY <2>2 DEF Counted
  <2>4. Counted(node, path, value) = (k + IF TakesEdge(call) THEN 0 ELSE 1) + 1
    BY <1>2, <1>3, <1>6, <2>3 DEF Counted, Returns, InsertChild
  <2>5. s = <<>> <=> n = Len(suffix)
    BY <1>17
  <2>6. QED
    BY <2>1, <2>2, <2>4, <2>5
<1>23. Descends(node, path, value, e, s, inner.tree, inner.path, D)
  BY <1>7, <1>16, <1>17, <1>18, <1>19, <1>20, <1>21, <1>22 DEF Descends
<1>24. QED
  BY <1>23
=============================================================================

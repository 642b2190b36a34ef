--------------------------- MODULE AccountingProofs ---------------------------
(***************************************************************************)
(* Proofs about what is added up: that the ledger of a key (Admission) is  *)
(* true to what its requests really used, for any number of requests, any  *)
(* limits and any history, and the summaries of target telemetry           *)
(* (Telemetry) to the events that were recorded.                           *)
(*                                                                         *)
(* Both add up and count, so the proofs begin with induction over the      *)
(* naturals and over finite sets, from the well-foundedness of <, and      *)
(* with what it gives for sums (Total) and for counts (Cardinality).       *)
(***************************************************************************)
EXTENDS Admission, Telemetry, WellFoundedInduction, FunctionTheorems, FiniteSetTheorems,
        SequenceTheorems, TLAPS

-----------------------------------------------------------------------------
(* Induction and sums. *)

\* The order of the naturals, and the least element of a set of them.
Below == OpToRel(<, Nat)

LEMMA BelowIsLess == \A x, y \in Nat : x < y => <<x, y>> \in Below
BY DEF Below, OpToRel

LEMMA LeastOf ==
  ASSUME NEW T, T \subseteq Nat, T # {}
  PROVE  \E x \in T : x \in Nat /\ \A y \in T : x <= y
<1>1. IsWellFoundedOn(Below, Nat)
  BY NatLessThanWellFounded DEF Below
<1>2. PICK x \in T : \A y \in T : ~ (<<y, x>> \in Below)
  BY <1>1, WFMin
<1>3. x \in Nat
  OBVIOUS
<1>4. \A y \in T : x <= y
  <2> SUFFICES ASSUME NEW y \in T PROVE x <= y
    OBVIOUS
  <2>1. y \in Nat /\ ~(y < x)
    BY <1>2, BelowIsLess
  <2> QED BY <1>3, <2>1
<1> QED BY <1>3, <1>4

\* What holds of 0 and of n + 1 when it holds of n holds of every natural.
LEMMA Induction ==
  ASSUME NEW P, 0 \in P, \A n \in Nat : n \in P => n + 1 \in P
  PROVE  Nat \subseteq P
<1> SUFFICES ASSUME Nat \ P # {} PROVE FALSE
  OBVIOUS
<1>1. PICK x \in Nat \ P : x \in Nat /\ \A y \in Nat \ P : x <= y
  BY LeastOf
<1>2. x # 0 /\ x - 1 \in Nat
  BY <1>1
<1>3. x - 1 \in P
  BY <1>1, <1>2
<1> QED BY <1>2, <1>3

\* MapThenSumSet by its parts: G is the sum of w over every set of members of S.
Pick(s) == CHOOSE x \in s : TRUE
IsSum(G, w, S) == G = [s \in SUBSET S |-> IF s = {} THEN 0 ELSE w[Pick(s)] + G[s \ {Pick(s)}]]

LEMMA TotalIsChosen ==
  ASSUME NEW w, NEW S
  PROVE  Total(w, S) = (CHOOSE G : IsSum(G, w, S))[S]
BY DEF Total, MapThenSumSet, MapThenFoldSet, IsSum, Pick

LEMMA PickIn == \A s : s # {} => Pick(s) \in s
BY DEF Pick

\* A set without one of its elements has one less.
LEMMA OneLess ==
  ASSUME NEW S, IsFiniteSet(S), NEW x \in S, NEW n \in Nat, Cardinality(S) = n + 1
  PROVE  IsFiniteSet(S \ {x}) /\ Cardinality(S \ {x}) = n
<1>1. IsFiniteSet(S \ {x}) /\ Cardinality(S \ {x}) = Cardinality(S) - 1
  BY FS_RemoveElement
<1> QED BY <1>1

\* Finite sets by their size: what holds of {} and of a set with one more element.
LEMMA SetInduction ==
  ASSUME NEW U, NEW P, {} \in P,
         \A S \in SUBSET U : \A x \in U \ S : IsFiniteSet(S) /\ S \in P => S \cup {x} \in P
  PROVE  \A S \in SUBSET U : IsFiniteSet(S) => S \in P
<1> DEFINE Q == {n \in Nat : \A S \in SUBSET U : IsFiniteSet(S) /\ Cardinality(S) = n => S \in P}
<1>1. 0 \in Q
  BY FS_EmptySet
<1>2. ASSUME NEW n \in Nat, n \in Q PROVE n + 1 \in Q
  <2> SUFFICES ASSUME NEW S \in SUBSET U, IsFiniteSet(S), Cardinality(S) = n + 1 PROVE S \in P
    OBVIOUS
  <2>1. S # {}
    BY FS_EmptySet
  <2>2. PICK x : x \in S
    BY <2>1
  <2>3. IsFiniteSet(S \ {x}) /\ Cardinality(S \ {x}) = n
    BY <2>2, OneLess
  <2>4. S \ {x} \in P
    BY <1>2, <2>3
  <2>5. (S \ {x}) \cup {x} = S /\ x \in U \ (S \ {x})
    BY <2>2
  <2> QED BY <2>3, <2>4, <2>5
<1> HIDE DEF Q
<1>3. Nat \subseteq Q
  BY <1>1, <1>2, Induction
<1> QED BY <1>3, FS_CardinalityType DEF Q

\* Two sums of the same function agree.
LEMMA SumsAgree ==
  ASSUME NEW w, NEW U, IsFiniteSet(U), NEW G, NEW A, NEW H, NEW B,
         IsSum(G, w, A), IsSum(H, w, B), A \in SUBSET U, B \in SUBSET U
  PROVE  \A s \in SUBSET A : s \in SUBSET B => G[s] = H[s]
<1> DEFINE P == {n \in Nat : \A s \in SUBSET A : s \in SUBSET B /\ Cardinality(s) = n
                                                  => G[s] = H[s]}
<1>0. \A s \in SUBSET U : IsFiniteSet(s)
  BY FS_Subset
<1>1. 0 \in P
  <2> SUFFICES ASSUME NEW s \in SUBSET A, s \in SUBSET B, Cardinality(s) = 0 PROVE G[s] = H[s]
    OBVIOUS
  <2>1. s = {}
    BY <1>0, FS_EmptySet
  <2> QED BY <2>1 DEF IsSum
<1>2. ASSUME NEW n \in Nat, n \in P PROVE n + 1 \in P
  <2> SUFFICES ASSUME NEW s \in SUBSET A, s \in SUBSET B, Cardinality(s) = n + 1 PROVE G[s] = H[s]
    OBVIOUS
  <2>1. IsFiniteSet(s) /\ s # {}
    BY <1>0, FS_EmptySet
  <2>2. Pick(s) \in s
    BY <2>1, PickIn
  <2>3. Cardinality(s \ {Pick(s)}) = n
    BY <2>1, <2>2, OneLess
  <2>4. G[s \ {Pick(s)}] = H[s \ {Pick(s)}]
    BY <1>2, <2>3
  <2>5. G[s] = w[Pick(s)] + G[s \ {Pick(s)}]
    BY <2>1 DEF IsSum
  <2>6. H[s] = w[Pick(s)] + H[s \ {Pick(s)}]
    BY <2>1 DEF IsSum
  <2> QED BY <2>4, <2>5, <2>6
<1> HIDE DEF P
<1>3. Nat \subseteq P
  BY <1>1, <1>2, Induction
<1> QED BY <1>0, <1>3, FS_CardinalityType DEF P

\* Each finite set has one.
LEMMA SumExists ==
  ASSUME NEW w, NEW U, IsFiniteSet(U)
  PROVE  \A S \in SUBSET U : \E G : IsSum(G, w, S)
<1> DEFINE P == {n \in Nat : \A S \in SUBSET U : Cardinality(S) <= n => \E G : IsSum(G, w, S)}
           F(S) == CHOOSE G : IsSum(G, w, S)
<1>0. \A S \in SUBSET U : IsFiniteSet(S) /\ Cardinality(S) \in Nat
  BY FS_Subset, FS_CardinalityType
<1>1. 0 \in P
  <2> SUFFICES ASSUME NEW S \in SUBSET U, Cardinality(S) <= 0 PROVE \E G : IsSum(G, w, S)
    OBVIOUS
  <2>1. S = {}
    BY <1>0, FS_EmptySet
  <2> DEFINE G == [s \in SUBSET S |-> 0]
  <2>2. G = [s \in SUBSET S |-> IF s = {} THEN 0 ELSE w[Pick(s)] + G[s \ {Pick(s)}]]
    BY <2>1
  <2> QED BY <2>2 DEF IsSum
<1>2. ASSUME NEW n \in Nat, n \in P PROVE n + 1 \in P
  <2> SUFFICES ASSUME NEW S \in SUBSET U, Cardinality(S) <= n + 1 PROVE \E G : IsSum(G, w, S)
    OBVIOUS
  <2> DEFINE G == [s \in SUBSET S |->
                    IF s = {} THEN 0 ELSE w[Pick(s)] + F(s \ {Pick(s)})[s \ {Pick(s)}]]
  <2>1. ASSUME NEW s \in SUBSET S, s # {}
        PROVE  IsSum(F(s \ {Pick(s)}), w, s \ {Pick(s)})
    <3>1. Pick(s) \in s /\ s \in SUBSET U
      BY <2>1, PickIn
    <3>2. Cardinality(s \ {Pick(s)}) <= n
      <4>1. Cardinality(s \ {Pick(s)}) = Cardinality(s) - 1 /\ Cardinality(s) <= Cardinality(S)
        BY <1>0, <3>1, FS_RemoveElement, FS_Subset
      <4> QED BY <1>0, <3>1, <4>1
    <3>3. \E H : IsSum(H, w, s \ {Pick(s)})
      BY <1>2, <3>1, <3>2
    <3> QED BY <3>3
  <2>2. ASSUME NEW s \in SUBSET S, s # {}
        PROVE  F(s \ {Pick(s)})[s \ {Pick(s)}] = G[s \ {Pick(s)}]
    <3> DEFINE t == s \ {Pick(s)}
    <3>1. t \in SUBSET S /\ t \in SUBSET U
      OBVIOUS
    <3>2. IsSum(F(t), w, t)
      BY <2>1, <2>2
    <3>3. CASE t = {}
      BY <3>1, <3>2, <3>3 DEF IsSum
    <3>4. CASE t # {}
      <4>1. Pick(t) \in t /\ IsSum(F(t \ {Pick(t)}), w, t \ {Pick(t)})
        BY <2>1, <3>1, <3>4, PickIn
      <4>2. F(t)[t \ {Pick(t)}] = F(t \ {Pick(t)})[t \ {Pick(t)}]
        <5> HIDE DEF F
        <5> QED BY <3>1, <3>2, <4>1, SumsAgree
      <4>3. F(t)[t] = w[Pick(t)] + F(t)[t \ {Pick(t)}]
        BY <3>2, <3>4 DEF IsSum
      <4>4. G[t] = w[Pick(t)] + F(t \ {Pick(t)})[t \ {Pick(t)}]
        BY <3>1, <3>4
      <4> HIDE DEF F, t, G
      <4> QED BY <4>2, <4>3, <4>4 DEF t
    <3> QED BY <3>3, <3>4
  <2>3. G = [s \in SUBSET S |-> IF s = {} THEN 0 ELSE w[Pick(s)] + G[s \ {Pick(s)}]]
    <3> DEFINE g(s) == IF s = {} THEN 0 ELSE w[Pick(s)] + F(s \ {Pick(s)})[s \ {Pick(s)}]
               h(s) == IF s = {} THEN 0 ELSE w[Pick(s)] + G[s \ {Pick(s)}]
    <3>1. G = [s \in SUBSET S |-> g(s)]
      OBVIOUS
    <3>2. ASSUME NEW s \in SUBSET S PROVE g(s) = h(s)
      <4> HIDE DEF F, G
      <4> QED BY <2>2
    <3> HIDE DEF g, h, G
    <3>3. G = [s \in SUBSET S |-> h(s)]
      BY <3>1, <3>2
    <3> QED BY <3>3 DEF h
  <2> HIDE DEF G
  <2> QED BY <2>3 DEF IsSum
<1> HIDE DEF P
<1>3. Nat \subseteq P
  BY <1>1, <1>2, Induction
<1> QED BY <1>0, <1>3 DEF P

\* A total is what one would think it is, in whatever order it is taken.
LEMMA TotalStep ==
  ASSUME NEW w, NEW S, IsFiniteSet(S)
  PROVE  Total(w, S) = IF S = {} THEN 0 ELSE w[Pick(S)] + Total(w, S \ {Pick(S)})
<1> DEFINE G == CHOOSE G : IsSum(G, w, S)
           t == S \ {Pick(S)}
           H == CHOOSE H : IsSum(H, w, t)
<1>1. IsSum(G, w, S) /\ IsSum(H, w, t)
  BY SumExists
<1>2. Total(w, S) = G[S] /\ Total(w, t) = H[t]
  BY TotalIsChosen
<1> HIDE DEF G, H
<1>3. G[t] = H[t]
  BY <1>1, SumsAgree
<1>4. G[S] = IF S = {} THEN 0 ELSE w[Pick(S)] + G[t]
  BY <1>1 DEF IsSum
<1> QED BY <1>2, <1>3, <1>4

LEMMA TotalType ==
  ASSUME NEW U, IsFiniteSet(U), NEW w, \A x \in U : w[x] \in Nat
  PROVE  \A S \in SUBSET U : Total(w, S) \in Nat
<1> DEFINE P == {n \in Nat : \A S \in SUBSET U : Cardinality(S) = n => Total(w, S) \in Nat}
<1>0. \A S \in SUBSET U : IsFiniteSet(S) /\ Cardinality(S) \in Nat
  BY FS_Subset, FS_CardinalityType
<1>1. 0 \in P
  BY <1>0, FS_EmptySet, TotalStep
<1>2. ASSUME NEW n \in Nat, n \in P PROVE n + 1 \in P
  <2> SUFFICES ASSUME NEW S \in SUBSET U, Cardinality(S) = n + 1 PROVE Total(w, S) \in Nat
    OBVIOUS
  <2>1. S # {}
    BY FS_EmptySet
  <2>2. Pick(S) \in S
    BY <2>1, PickIn
  <2>3. Cardinality(S \ {Pick(S)}) = n
    BY <1>0, <2>2, OneLess
  <2>4. Total(w, S \ {Pick(S)}) \in Nat
    BY <1>2, <2>3
  <2>5. Total(w, S) = w[Pick(S)] + Total(w, S \ {Pick(S)})
    BY <1>0, <2>1, TotalStep
  <2> QED BY <2>2, <2>4, <2>5
<1> HIDE DEF P
<1>3. Nat \subseteq P
  BY <1>1, <1>2, Induction
<1> QED BY <1>0, <1>3 DEF P

\* Any member may be taken out first.
LEMMA TotalSplit ==
  ASSUME NEW U, IsFiniteSet(U), NEW w, \A x \in U : w[x] \in Nat
  PROVE  \A S \in SUBSET U : \A x \in S : Total(w, S) = w[x] + Total(w, S \ {x})
<1> DEFINE P == {n \in Nat : \A S \in SUBSET U : Cardinality(S) = n =>
                               \A x \in S : Total(w, S) = w[x] + Total(w, S \ {x})}
<1>0. \A S \in SUBSET U : IsFiniteSet(S) /\ Cardinality(S) \in Nat /\ Total(w, S) \in Nat
  BY FS_Subset, FS_CardinalityType, TotalType
<1>1. 0 \in P
  BY <1>0, FS_EmptySet
<1>2. ASSUME NEW n \in Nat, n \in P PROVE n + 1 \in P
  <2> SUFFICES ASSUME NEW S \in SUBSET U, Cardinality(S) = n + 1, NEW x \in S
               PROVE  Total(w, S) = w[x] + Total(w, S \ {x})
    OBVIOUS
  <2> DEFINE y == Pick(S)
  <2>1. S # {} /\ y \in S
    BY PickIn
  <2>2. Total(w, S) = w[y] + Total(w, S \ {y})
    BY <1>0, <2>1, TotalStep
  <2>3. CASE x = y
    BY <2>2, <2>3
  <2>4. CASE x # y
    <3>1. Cardinality(S \ {y}) = n /\ Cardinality(S \ {x}) = n
      BY <1>0, <2>1, FS_RemoveElement
    <3>2. Total(w, S \ {y}) = w[x] + Total(w, (S \ {y}) \ {x})
      BY <1>2, <2>4, <3>1
    <3>3. Total(w, S \ {x}) = w[y] + Total(w, (S \ {x}) \ {y})
      BY <1>2, <2>1, <2>4, <3>1
    <3>4. (S \ {y}) \ {x} = (S \ {x}) \ {y}
      OBVIOUS
    <3>5. Total(w, (S \ {x}) \ {y}) \in Nat /\ w[x] \in Nat /\ w[y] \in Nat
      BY <1>0, <2>1
    <3> DEFINE b == Total(w, (S \ {x}) \ {y})
    <3>6. Total(w, S) = w[y] + (w[x] + b)
      BY <2>2, <3>2, <3>4
    <3>7. Total(w, S \ {x}) = w[y] + b
      BY <3>3
    <3> HIDE DEF y, b
    <3> QED BY <3>5, <3>6, <3>7 DEF b
  <2> QED BY <2>3, <2>4
<1> HIDE DEF P
<1>3. Nat \subseteq P
  BY <1>1, <1>2, Induction
<1> QED BY <1>0, <1>3 DEF P

\* Only the values at the members count.
LEMMA TotalSame ==
  ASSUME NEW U, IsFiniteSet(U), NEW w, NEW v
  PROVE  \A S \in SUBSET U : (\A x \in S : w[x] = v[x]) => Total(w, S) = Total(v, S)
<1> DEFINE P == {n \in Nat : \A S \in SUBSET U : Cardinality(S) = n /\ (\A x \in S : w[x] = v[x]) =>
                               Total(w, S) = Total(v, S)}
<1>0. \A S \in SUBSET U : IsFiniteSet(S) /\ Cardinality(S) \in Nat
  BY FS_Subset, FS_CardinalityType
<1>1. 0 \in P
  BY <1>0, FS_EmptySet, TotalStep
<1>2. ASSUME NEW n \in Nat, n \in P PROVE n + 1 \in P
  <2> SUFFICES ASSUME NEW S \in SUBSET U, Cardinality(S) = n + 1, \A x \in S : w[x] = v[x]
               PROVE  Total(w, S) = Total(v, S)
    OBVIOUS
  <2>1. S # {}
    BY FS_EmptySet
  <2>2. Pick(S) \in S
    BY <2>1, PickIn
  <2>3. Cardinality(S \ {Pick(S)}) = n
    BY <1>0, <2>2, OneLess
  <2>4. Total(w, S \ {Pick(S)}) = Total(v, S \ {Pick(S)})
    BY <1>2, <2>3
  <2>5. /\ Total(w, S) = w[Pick(S)] + Total(w, S \ {Pick(S)})
        /\ Total(v, S) = v[Pick(S)] + Total(v, S \ {Pick(S)})
    BY <1>0, <2>1, TotalStep
  <2> QED BY <2>2, <2>4, <2>5
<1> HIDE DEF P
<1>3. Nat \subseteq P
  BY <1>1, <1>2, Induction
<1> QED BY <1>0, <1>3 DEF P

\* A sum grows with its terms.
LEMMA TotalMonotone ==
  ASSUME NEW U, IsFiniteSet(U), NEW w, NEW v,
         \A x \in U : w[x] \in Nat /\ v[x] \in Nat /\ w[x] <= v[x]
  PROVE  \A S \in SUBSET U : Total(w, S) <= Total(v, S)
<1> DEFINE P == {S \in SUBSET U : Total(w, S) <= Total(v, S)}
<1>1. {} \in P
  <2>1. Total(w, {}) = 0 /\ Total(v, {}) = 0
    BY FS_EmptySet, TotalStep
  <2> QED BY <2>1
<1>2. ASSUME NEW S \in SUBSET U, NEW x \in U \ S, IsFiniteSet(S), S \in P
      PROVE  S \cup {x} \in P
  <2>1. (S \cup {x}) \ {x} = S /\ S \cup {x} \in SUBSET U
    OBVIOUS
  <2>2. /\ Total(w, S \cup {x}) = w[x] + Total(w, S)
        /\ Total(v, S \cup {x}) = v[x] + Total(v, S)
    BY <2>1, TotalSplit
  <2>3. Total(w, S) \in Nat /\ Total(v, S) \in Nat
    BY TotalType
  <2> QED BY <1>2, <2>1, <2>2, <2>3
<1> HIDE DEF P
<1>3. \A S \in SUBSET U : S \in P
  <2>1. \A S \in SUBSET U : IsFiniteSet(S)
    BY FS_Subset
  <2>2. \A S \in SUBSET U : \A x \in U \ S : IsFiniteSet(S) /\ S \in P => S \cup {x} \in P
    BY <1>2
  <2> QED BY <1>1, <2>1, <2>2, SetInduction
<1> QED BY <1>3 DEF P

\* The members of I that a takes into S.
Into(I, a, S) == {i \in I : a[i] \in S}

\* Counted at each value, no more are counted than there are.
LEMMA TotalOfCounts ==
  ASSUME NEW I, IsFiniteSet(I), NEW a, NEW U, IsFiniteSet(U), NEW w,
         \A x \in U : w[x] \in Nat /\ w[x] <= Cardinality(Into(I, a, {x}))
  PROVE  \A S \in SUBSET U : Total(w, S) <= Cardinality(Into(I, a, S))
<1> USE DEF Into
<1> DEFINE at(S) == Into(I, a, S)
           P == {S \in SUBSET U : Total(w, S) <= Cardinality(at(S))}
<1>0. \A S : IsFiniteSet(at(S)) /\ Cardinality(at(S)) \in Nat
  BY FS_Subset, FS_CardinalityType
<1>1. {} \in P
  <2>1. Total(w, {}) = 0
    BY FS_EmptySet, TotalStep
  <2> QED BY <1>0, <2>1
<1>2. ASSUME NEW S \in SUBSET U, NEW x \in U \ S, IsFiniteSet(S), S \in P
      PROVE  S \cup {x} \in P
  <2>1. (S \cup {x}) \ {x} = S /\ S \cup {x} \in SUBSET U
    OBVIOUS
  <2>2. Total(w, S \cup {x}) = w[x] + Total(w, S)
    <3>1. \A y \in U : w[y] \in Nat
      OBVIOUS
    <3> QED BY <2>1, <3>1, TotalSplit
  <2>3. at(S \cup {x}) = at({x}) \cup at(S) /\ at({x}) \cap at(S) = {}
    OBVIOUS
  <2>4. at({x}) = Into(I, a, {x})
    OBVIOUS
  <2> HIDE DEF at
  <2>5. Cardinality(at(S \cup {x})) = Cardinality(at({x})) + Cardinality(at(S))
    <3>1. Cardinality(at({x}) \cup at(S))
            = Cardinality(at({x})) + Cardinality(at(S)) - Cardinality(at({x}) \cap at(S))
      BY <1>0, FS_Union
    <3>2. Cardinality(at({x}) \cap at(S)) = 0
      BY <2>3, FS_EmptySet
    <3>3. Cardinality(at({x})) \in Nat /\ Cardinality(at(S)) \in Nat
      BY <1>0
    <3>4. Cardinality(at(S \cup {x})) = Cardinality(at({x}) \cup at(S))
      BY <2>3
    <3> DEFINE m == Cardinality(at({x}))
               n == Cardinality(at(S))
    <3>5. Cardinality(at(S \cup {x})) = m + n - 0 /\ m \in Nat /\ n \in Nat
      BY <3>1, <3>2, <3>3, <3>4
    <3> HIDE DEF m, n
    <3>6. Cardinality(at(S \cup {x})) = m + n
      BY <3>5
    <3> QED BY <3>6 DEF m, n
  <2>6. Total(w, S) \in Nat /\ w[x] \in Nat /\ w[x] <= Cardinality(at({x}))
    BY <2>4, TotalType
  <2>7. Total(w, S) <= Cardinality(at(S))
    BY <1>2
  <2> QED BY <1>0, <2>1, <2>2, <2>5, <2>6, <2>7
<1> HIDE DEF P
<1>3. \A S \in SUBSET U : S \in P
  <2>1. \A S \in SUBSET U : IsFiniteSet(S)
    BY FS_Subset
  <2>2. \A S \in SUBSET U : \A x \in U \ S : IsFiniteSet(S) /\ S \in P => S \cup {x} \in P
    BY <1>2
  <2> QED BY <1>1, <2>1, <2>2, SetInduction
<1> QED BY <1>3 DEF P

\* The sum of a function with one term greater by one.
LEMMA TotalOneMore ==
  ASSUME NEW U, IsFiniteSet(U), NEW w \in [U -> Nat], NEW x \in U
  PROVE  Total([w EXCEPT ![x] = @ + 1], U) = Total(w, U) + 1
<1> DEFINE v == [w EXCEPT ![x] = @ + 1]
<1>1. v[x] = w[x] + 1 /\ \A y \in U \ {x} : v[y] = w[y]
  OBVIOUS
<1>2. (\A y \in U : v[y] \in Nat) /\ (\A y \in U : w[y] \in Nat)
  BY <1>1
<1> HIDE DEF v
<1>3. Total(v, U) = v[x] + Total(v, U \ {x})
  BY <1>2, TotalSplit
<1>4. Total(w, U) = w[x] + Total(w, U \ {x})
  BY <1>2, TotalSplit
<1>5. Total(v, U \ {x}) = Total(w, U \ {x})
  BY <1>1, TotalSame
<1>6. Total(w, U \ {x}) \in Nat
  BY <1>2, TotalType
<1>7. w[x] \in Nat
  BY <1>2
<1>8. Total(v, U) = Total(w, U) + 1
  BY <1>1, <1>3, <1>4, <1>5, <1>6, <1>7
<1> QED BY <1>8 DEF v

-----------------------------------------------------------------------------
(* The minute window. *)

\* Who may touch the ledger: it is empty until seeded, and seeded by one
\* request, the holder of init_lock.
SeededFirst ==
  /\ ~initialized => minute = << >>
  /\ \A r \in Requests :
       /\ request[r].stage \in {"ready", "active", "rejected"} => initialized
       /\ request[r].stage = "seeding" => initLock = r /\ ~initialized

\* Clocks that were read are in the past, and not before the process began.
PastClocks ==
  /\ now \in Nat /\ Start <= now
  /\ \A r \in Requests :
       request[r].stage \in {"seeding", "active"} =>
         Start <= request[r].at /\ request[r].at <= now

\* The deque is out of order by less than a window: an entry is pushed only
\* while it is younger than a window, and everything before it was in the past.
NearlySorted ==
  /\ \A i \in 1..Len(minute) : minute[i].at <= now
  /\ \A i, j \in 1..Len(minute) : i <= j => minute[i].at - Window < minute[j].at

WindowTypes ==
  /\ minute \in Seq(MinuteUse)
  /\ request \in [Requests -> Request]

WindowInv == WindowTypes /\ SeededFirst /\ PastClocks /\ NearlySorted

-----------------------------------------------------------------------------
LEMMA CountUpTo == \A m \in Nat : IsFiniteSet(1..m) /\ Cardinality(1..m) = m
BY FS_Interval

LEMMA UseTimes ==
  ASSUME NEW uses \in Seq(MinuteUse), NEW i \in 1..Len(uses)
  PROVE  uses[i].at \in Nat
<1>1. uses[i] \in MinuteUse
  OBVIOUS
<1> QED BY <1>1 DEF MinuteUse

\* Prune drops a prefix, and what it leaves starts with a use in the window.
LEMMA PruneDropsPrefix ==
  ASSUME NEW uses \in Seq(MinuteUse), NEW t \in Nat
  PROVE  \E k \in 0..Len(uses) :
           /\ Prune(uses, t) = SubSeq(uses, k + 1, Len(uses))
           /\ Prune(uses, t) \in Seq(MinuteUse)
           /\ Len(Prune(uses, t)) = Len(uses) - k
           /\ \A i \in 1..(Len(uses) - k) : Prune(uses, t)[i] = uses[k + i]
           /\ k < Len(uses) => t - uses[k + 1].at < Window
           /\ \A i \in 1..k : t - uses[i].at >= Window
<1> DEFINE n == Len(uses)
           old(j) == t - uses[j].at >= Window
           expired == {i \in 1..n : \A j \in 1..i : old(j)}
           k == Cardinality(expired)
<1>1. n \in Nat /\ Window \in Nat
  BY LenProperties, ConstantsAssumption
<1>2. \A m \in Nat : IsFiniteSet(1..m) /\ Cardinality(1..m) = m
  BY CountUpTo
<1>3. IsFiniteSet(expired) /\ k \in Nat /\ k <= n
  <2>1. expired \subseteq 1..n
    OBVIOUS
  <2>2. IsFiniteSet(1..n) /\ Cardinality(1..n) = n
    BY <1>1, <1>2
  <2> HIDE DEF expired
  <2> QED BY <2>1, <2>2, FS_Subset, FS_CardinalityType
<1>4. ASSUME NEW i \in 1..k PROVE i \in expired
  <2> SUFFICES ASSUME i \notin expired PROVE FALSE
    OBVIOUS
  <2>1. i \in Nat /\ i - 1 \in Nat /\ i <= k /\ i \in 1..n
    BY <1>1, <1>3
  <2>2. expired \subseteq 1..(i - 1)
    BY <1>1, <2>1
  <2>3. IsFiniteSet(1..(i - 1)) /\ Cardinality(1..(i - 1)) = i - 1
    BY <1>2, <2>1
  <2> HIDE DEF expired
  <2>4. k <= i - 1
    BY <2>2, <2>3, FS_Subset
  <2> QED BY <1>3, <2>1, <2>4
<1>5. ASSUME k < n PROVE ~old(k + 1)
  <2> SUFFICES ASSUME old(k + 1) PROVE FALSE
    OBVIOUS
  <2>1. k + 1 \in 1..n
    BY <1>1, <1>3, <1>5
  <2>2. \A j \in 1..k : old(j)
    BY <1>1, <1>3, <1>4
  <2>3. \A j \in 1..(k + 1) : old(j)
    <3> HIDE DEF old, k
    <3> QED BY <2>2, <1>3
  <2>4. 1..(k + 1) \subseteq expired
    <3> HIDE DEF old, k
    <3> QED BY <2>1, <2>3, <1>1, <1>3
  <2>5. Cardinality(1..(k + 1)) = k + 1
    BY <1>2, <1>3
  <2> HIDE DEF expired
  <2>6. k + 1 <= k
    BY <1>3, <2>4, <2>5, FS_Subset
  <2> QED BY <1>3, <2>6
<1>9. ASSUME NEW i \in 1..k PROVE t - uses[i].at >= Window
  <2>1. i \in expired /\ i \in 1..i
    BY <1>3, <1>4
  <2> QED BY <2>1
<1>6. Prune(uses, t) = SubSeq(uses, k + 1, n)
  BY DEF Prune
<1> HIDE DEF k
<1>7. /\ SubSeq(uses, k + 1, n) \in Seq(MinuteUse)
      /\ Len(SubSeq(uses, k + 1, n)) = n - k
      /\ \A i \in 1..(n - k) : SubSeq(uses, k + 1, n)[i] = uses[k + i]
  BY <1>3
<1>8. k < n => t - uses[k + 1].at < Window
  <2> SUFFICES ASSUME k < n PROVE t - uses[k + 1].at < Window
    OBVIOUS
  <2>1. k + 1 \in 1..n /\ uses[k + 1] \in MinuteUse
    BY <1>1, <1>3
  <2>2. uses[k + 1].at \in Nat
    BY <2>1 DEF MinuteUse
  <2> QED BY <1>1, <1>5, <2>2
<1> QED BY <1>3, <1>6, <1>7, <1>8, <1>9

\* Pruning keeps the deque well typed and nearly sorted, and an empty one empty.
LEMMA PruneKeeps ==
  ASSUME WindowInv, NEW t \in Nat
  PROVE  /\ Prune(minute, t) \in Seq(MinuteUse)
         /\ \A i \in 1..Len(Prune(minute, t)) : Prune(minute, t)[i].at <= now
         /\ \A i, j \in 1..Len(Prune(minute, t)) :
              i <= j => Prune(minute, t)[i].at - Window < Prune(minute, t)[j].at
         /\ minute = << >> => Prune(minute, t) = << >>
<1>1. minute \in Seq(MinuteUse)
  BY DEF WindowInv, WindowTypes
<1>2. PICK k \in 0..Len(minute) :
        /\ Prune(minute, t) \in Seq(MinuteUse)
        /\ Len(Prune(minute, t)) = Len(minute) - k
        /\ \A i \in 1..(Len(minute) - k) : Prune(minute, t)[i] = minute[k + i]
  BY <1>1, PruneDropsPrefix
<1>3. \A i \in 1..Len(Prune(minute, t)) :
        k + i \in 1..Len(minute) /\ Prune(minute, t)[i] = minute[k + i]
  BY <1>1, <1>2
<1>4. \A i, j \in 1..Len(Prune(minute, t)) : i <= j => k + i <= k + j
  BY <1>1, <1>2
<1>5. minute = << >> => Prune(minute, t) = << >>
  BY <1>2, EmptySeq
<1> QED BY <1>2, <1>3, <1>4, <1>5 DEF WindowInv, NearlySorted

\* The rows a seed brings in are ordered as the query orders them.
LEMMA MinuteRowsOrdered ==
  ASSUME NEW t \in Nat, Start <= t
  PROVE  /\ MinuteRows(t) \in Seq(MinuteUse)
         /\ \A i \in 1..Len(MinuteRows(t)) : MinuteRows(t)[i].at <= t
         /\ \A i, j \in 1..Len(MinuteRows(t)) :
              i <= j => MinuteRows(t)[i].at - Window < MinuteRows(t)[j].at
<1> DEFINE older == {i \in 1..Len(Prior) : Prior[i].at < t - Window}
           first == Cardinality(older)
           n == Len(Prior) - first
<1>1. /\ Prior \in Seq(LogRow)
      /\ \A i, j \in 1..Len(Prior) : i <= j => Prior[i].at <= Prior[j].at
      /\ Len(Prior) \in Nat /\ Start \in Nat /\ Window \in Nat \ {0}
  <2>1. /\ Prior \in Seq(LogRow)
        /\ \A i, j \in 1..Len(Prior) : i <= j => Prior[i].at <= Prior[j].at
        /\ Start \in Nat /\ Window \in Nat \ {0}
    BY ConstantsAssumption
  <2>2. Len(Prior) \in Nat
    BY <2>1, LenProperties
  <2> QED BY <2>1, <2>2
<1>2. first \in Nat /\ first <= Len(Prior)
  <2>1. IsFiniteSet(1..Len(Prior)) /\ Cardinality(1..Len(Prior)) = Len(Prior)
    BY <1>1, CountUpTo
  <2>2. older \subseteq 1..Len(Prior)
    OBVIOUS
  <2> HIDE DEF older
  <2> QED BY <2>1, <2>2, FS_Subset, FS_CardinalityType
<1>3. MinuteRows(t) = [i \in 1..n |-> [at |-> Prior[first + i].at,
                                       tokens |-> Prior[first + i].tokens]]
  BY DEF MinuteRows
<1> HIDE DEF first
<1>4. \A i \in 1..n : /\ first + i \in 1..Len(Prior)
                      /\ Prior[first + i].at \in 0..Start /\ Prior[first + i].tokens \in Nat
  <2>1. \A i \in 1..n : first + i \in 1..Len(Prior)
    BY <1>1, <1>2
  <2>2. \A i \in 1..Len(Prior) : Prior[i] \in LogRow
    BY <1>1
  <2> HIDE DEF n
  <2> QED BY <2>1, <2>2 DEF LogRow
<1>5. MinuteRows(t) \in Seq(MinuteUse) /\ Len(MinuteRows(t)) = n
  <2>1. n \in Nat
    BY <1>1, <1>2
  <2>2. MinuteRows(t) \in [1..n -> MinuteUse]
    BY <1>1, <1>3, <1>4 DEF MinuteUse
  <2> HIDE DEF n
  <2> QED BY <2>1, <2>2, IsASeq, LenProperties
<1>6. ASSUME NEW i \in 1..n PROVE MinuteRows(t)[i].at <= t
  BY <1>1, <1>3, <1>4
<1>7. ASSUME NEW i \in 1..n, NEW j \in 1..n, i <= j
      PROVE  MinuteRows(t)[i].at - Window < MinuteRows(t)[j].at
  <2>1. Prior[first + i].at <= Prior[first + j].at
    <3>1. first + i \in 1..Len(Prior) /\ first + j \in 1..Len(Prior)
      BY <1>4
    <3>2. first + i <= first + j
      BY <1>1, <1>2, <1>7
    <3> HIDE DEF n
    <3> QED BY <1>1, <3>1, <3>2
  <2>2. MinuteRows(t)[i].at = Prior[first + i].at /\ MinuteRows(t)[j].at = Prior[first + j].at
    BY <1>3
  <2>3. Prior[first + i].at \in Nat /\ Prior[first + j].at \in Nat
    BY <1>1, <1>4
  <2> QED BY <1>1, <2>1, <2>2, <2>3
<1> HIDE DEF n
<1> QED BY <1>5, <1>6, <1>7

LEMMA StageTypes ==
  /\ Idle \in Request /\ Idle.stage = "idle"
  /\ \A stage \in {"waiting", "ready", "rejected"} :
       [Idle EXCEPT !.stage = stage] \in Request /\ [Idle EXCEPT !.stage = stage].stage = stage
  /\ \A t \in Nat :
       /\ [Idle EXCEPT !.stage = "seeding", !.at = t] \in Request
       /\ [Idle EXCEPT !.stage = "seeding", !.at = t].stage = "seeding"
       /\ [Idle EXCEPT !.stage = "seeding", !.at = t].at = t
BY DEF Idle, Request

\* One request moves to a stage in which it holds no clock, the ledger stays.
LEMMA MoveKeeps ==
  ASSUME WindowInv, NEW r \in Requests, NEW q \in Request,
         request' = [request EXCEPT ![r] = q],
         \/ q.stage \in {"idle", "waiting"}
         \/ q.stage \in {"ready", "rejected"} /\ initialized,
         initLock' = initLock \/ (initLock = r /\ initLock' = Unknown),
         UNCHANGED <<now, initialized, ledger>>
  PROVE  WindowInv'
<1>1. /\ request'[r] = q
      /\ \A o \in Requests : o # r => request'[o] = request[o]
      /\ request' \in [Requests -> Request]
  BY DEF WindowInv, WindowTypes
<1>2. WindowTypes'
  BY <1>1 DEF WindowInv, WindowTypes, ledger
<1>3. SeededFirst'
  BY <1>1 DEF WindowInv, SeededFirst, ledger
<1>4. PastClocks'
  BY <1>1 DEF WindowInv, PastClocks
<1>5. NearlySorted'
  BY DEF WindowInv, NearlySorted, ledger
<1> QED BY <1>2, <1>3, <1>4, <1>5 DEF WindowInv

LEMMA WindowInvNext == WindowInv /\ [Next]_vars => WindowInv'
<1> SUFFICES ASSUME WindowInv, [Next]_vars PROVE WindowInv'
  OBVIOUS
<1> USE DEF ledger
<1>0. /\ now \in Nat /\ Start \in Nat /\ Start <= now /\ Window \in Nat \ {0}
      /\ minute \in Seq(MinuteUse) /\ request \in [Requests -> Request]
      /\ \A r \in Requests : request[r] \in Request /\ request[r].at \in Nat
                              /\ request[r].tokens \in Nat
  BY ConstantsAssumption DEF WindowInv, WindowTypes, PastClocks, Request
<1>1. CASE UNCHANGED vars
  BY <1>1 DEF vars, WindowInv, WindowTypes, SeededFirst, PastClocks, NearlySorted
<1>2. CASE Tick
  <2>1. now' = now + 1 /\ UNCHANGED <<initialized, initLock, ledger, request>>
    BY <1>2 DEF Tick
  <2>2. PastClocks'
    BY <1>0, <2>1 DEF WindowInv, PastClocks
  <2>3. NearlySorted'
    <3>1. \A i \in 1..Len(minute) : minute[i].at \in Nat
      BY <1>0, UseTimes
    <3> QED BY <1>0, <2>1, <3>1 DEF WindowInv, NearlySorted
  <2> QED BY <2>1, <2>2, <2>3 DEF WindowInv, WindowTypes, SeededFirst
<1>3. ASSUME NEW r \in Requests, Arrive(r) PROVE WindowInv'
  BY <1>3, StageTypes, MoveKeeps DEF Arrive
<1>4. ASSUME NEW r \in Requests, LockInit(r) PROVE WindowInv'
  <2>1. CASE initialized
    BY <1>4, <2>1, StageTypes, MoveKeeps DEF LockInit
  <2>2. CASE ~initialized
    <3> DEFINE q == [Idle EXCEPT !.stage = "seeding", !.at = now]
    <3>1. q \in Request /\ q.stage = "seeding" /\ q.at = now
      BY <1>0, StageTypes
    <3>2. /\ request' = [request EXCEPT ![r] = q] /\ initLock' = r /\ initLock = Unknown
          /\ UNCHANGED <<now, initialized, ledger>>
      BY <1>4, <2>2 DEF LockInit
    <3> HIDE DEF q
    <3>3. /\ request'[r] = q
          /\ \A o \in Requests : o # r => request'[o] = request[o]
          /\ request' \in [Requests -> Request]
      BY <1>0, <3>1, <3>2
    <3>4. SeededFirst'
      <4>1. \A o \in Requests : request[o].stage # "seeding" \/ o = Unknown
        BY <3>2 DEF WindowInv, SeededFirst
      <4>2. ASSUME NEW o \in Requests, o # r, request'[o].stage = "seeding"
            PROVE  FALSE
        BY <3>3, <4>1, <4>2, ConstantsAssumption
      <4> QED BY <2>2, <3>1, <3>2, <3>3, <4>2 DEF WindowInv, SeededFirst
    <3>5. PastClocks'
      BY <1>0, <3>1, <3>2, <3>3 DEF WindowInv, PastClocks
    <3> QED BY <3>2, <3>3, <3>4, <3>5 DEF WindowInv, WindowTypes, NearlySorted
  <2> QED BY <2>1, <2>2
<1>5. ASSUME NEW r \in Requests, NEW ok, Seed(r, ok) PROVE WindowInv'
  <2> DEFINE t == request[r].at
             seeded == IF "minute" \in ok THEN minute \o MinuteRows(t) ELSE minute
             q == [Idle EXCEPT !.stage = "ready"]
  <2>1. /\ request[r].stage = "seeding" /\ minute' = Prune(seeded, t)
        /\ request' = [request EXCEPT ![r] = q]
        /\ initialized' = TRUE /\ initLock' = Unknown /\ now' = now
    BY <1>5 DEF Seed
  <2>2. t \in Nat /\ Start <= t /\ t <= now
    BY <1>0, <2>1 DEF WindowInv, PastClocks
  <2>3. minute = << >> /\ initLock = r
    BY <2>1 DEF WindowInv, SeededFirst
  <2>4. seeded = << >> \/ seeded = MinuteRows(t)
    <3>1. MinuteRows(t) \in Seq(MinuteUse)
      BY <2>2, MinuteRowsOrdered
    <3> HIDE DEF t
    <3> QED BY <2>3, <3>1, ConcatEmptySeq
  <2>5. /\ seeded \in Seq(MinuteUse)
        /\ \A i \in 1..Len(seeded) : seeded[i].at <= now
        /\ \A i, j \in 1..Len(seeded) : i <= j => seeded[i].at - Window < seeded[j].at
    <3>1. CASE seeded = << >>
      <4> HIDE DEF seeded
      <4> QED BY <3>1
    <3>2. CASE seeded = MinuteRows(t)
      <4>1. /\ MinuteRows(t) \in Seq(MinuteUse)
            /\ \A i \in 1..Len(MinuteRows(t)) : MinuteRows(t)[i].at <= t
            /\ \A i, j \in 1..Len(MinuteRows(t)) :
                 i <= j => MinuteRows(t)[i].at - Window < MinuteRows(t)[j].at
        BY <2>2, MinuteRowsOrdered
      <4>2. \A i \in 1..Len(MinuteRows(t)) : MinuteRows(t)[i].at \in Nat
        BY <4>1, UseTimes
      <4> HIDE DEF seeded, t
      <4> QED BY <1>0, <2>2, <3>2, <4>1, <4>2
    <3> HIDE DEF seeded, t
    <3> QED BY <2>4, <3>1, <3>2
  <2> HIDE DEF seeded, t
  <2>6. PICK k \in 0..Len(seeded) :
          /\ Prune(seeded, t) \in Seq(MinuteUse)
          /\ Len(Prune(seeded, t)) = Len(seeded) - k
          /\ \A i \in 1..(Len(seeded) - k) : Prune(seeded, t)[i] = seeded[k + i]
    BY <2>2, <2>5, PruneDropsPrefix
  <2>7. \A i \in 1..Len(minute') : k + i \in 1..Len(seeded) /\ minute'[i] = seeded[k + i]
    BY <2>1, <2>5, <2>6
  <2>8. \A i, j \in 1..Len(minute') : i <= j => k + i <= k + j
    BY <2>1, <2>5, <2>6
  <2>9. NearlySorted'
    BY <2>1, <2>5, <2>7, <2>8 DEF NearlySorted
  <2>10. /\ q \in Request /\ q.stage = "ready"
    BY StageTypes
  <2> HIDE DEF q
  <2>11. /\ request'[r] = q
         /\ \A o \in Requests : o # r => request'[o] = request[o]
         /\ request' \in [Requests -> Request]
    BY <1>0, <2>1, <2>10
  <2>12. SeededFirst'
    BY <2>1, <2>3, <2>10, <2>11 DEF WindowInv, SeededFirst
  <2>13. PastClocks'
    BY <1>0, <2>1, <2>10, <2>11 DEF WindowInv, PastClocks
  <2> QED BY <2>1, <2>6, <2>9, <2>11, <2>12, <2>13 DEF WindowInv, WindowTypes
<1>6. ASSUME NEW r \in Requests, DropWaiting(r) \/ Answer(r) \/ Cancel(r) PROVE WindowInv'
  BY <1>6, StageTypes, MoveKeeps DEF DropWaiting, Answer, Cancel
<1>7. ASSUME NEW r \in Requests, NEW q \in Request,
             request' = [request EXCEPT ![r] = q],
             q.stage \in {"idle", "rejected", "active"},
             q.stage = "active" => q.at = now,
             initialized, minute' = Prune(minute, now),
             UNCHANGED <<now, initialized, initLock>>
      PROVE  WindowInv'
  <2>1. /\ request'[r] = q
        /\ \A o \in Requests : o # r => request'[o] = request[o]
        /\ request' \in [Requests -> Request]
    BY <1>0, <1>7
  <2>2. WindowTypes' /\ NearlySorted'
    BY <1>0, <1>7, <2>1, PruneKeeps DEF WindowTypes, NearlySorted
  <2>3. SeededFirst'
    BY <1>7, <2>1 DEF WindowInv, SeededFirst
  <2>4. PastClocks'
    BY <1>0, <1>7, <2>1 DEF WindowInv, PastClocks
  <2> QED BY <2>2, <2>3, <2>4 DEF WindowInv
<1>8. ASSUME NEW r \in Requests, CheckCurrent(r) PROVE WindowInv'
  BY <1>7, <1>8, StageTypes DEF CheckCurrent, Refresh, WindowInv, SeededFirst
<1>9. ASSUME NEW r \in Requests, NEW e \in Estimates, Reserve(r, e) PROVE WindowInv'
  <2>1. /\ initialized /\ minute' = Prune(minute, now)
        /\ UNCHANGED <<now, initialized, initLock>>
    BY <1>9 DEF Reserve, Refresh, WindowInv, SeededFirst
  <2>2. CASE Exceeds(e)
    BY <1>7, <1>9, <2>1, <2>2, StageTypes DEF Reserve
  <2>3. CASE ~Exceeds(e)
    <3> DEFINE q == [stage |-> "active", at |-> now, tokens |-> e.tokens, cost |-> e.cost]
    <3>1. q \in Request
      BY <1>0, ConstantsAssumption DEF Request
    <3>2. request' = [request EXCEPT ![r] = q]
      BY <1>9, <2>3 DEF Reserve
    <3> QED BY <1>7, <2>1, <3>1, <3>2
  <2> QED BY <2>2, <2>3
<1>10. ASSUME NEW r \in Requests, NEW u \in Actuals, Reconcile(r, u) PROVE WindowInv'
  <2> DEFINE e == [at |-> request[r].at, tokens |-> ChargedTokens(r, u)]
             pruned == Prune(minute, now)
  <2>1. /\ request[r].stage = "active" /\ minute' = SettledMinute(r, u)
        /\ request' = [request EXCEPT ![r] = Idle]
        /\ UNCHANGED <<now, initialized, initLock>>
    BY <1>10 DEF Reconcile
  <2>2. initialized /\ request[r].at <= now
    BY <2>1 DEF WindowInv, SeededFirst, PastClocks
  <2>3. CASE ~(now - request[r].at < Window)
    BY <1>7, <2>1, <2>2, <2>3, StageTypes DEF SettledMinute
  <2>4. CASE now - request[r].at < Window
    <3>1. minute' = Append(pruned, e)
      BY <2>1, <2>4 DEF SettledMinute
    <3>2. /\ pruned \in Seq(MinuteUse)
          /\ \A i \in 1..Len(pruned) : pruned[i].at <= now /\ pruned[i].at \in Nat
          /\ \A i, j \in 1..Len(pruned) : i <= j => pruned[i].at - Window < pruned[j].at
      BY <1>0, PruneKeeps, UseTimes
    <3>3. e \in MinuteUse /\ e.at = request[r].at
      <4>1. u.tokens \in Nat \cup {Unknown}
        BY ConstantsAssumption
      <4>2. ChargedTokens(r, u) \in Nat
        BY <1>0, <4>1 DEF ChargedTokens
      <4> QED BY <1>0, <4>2 DEF MinuteUse
    <3> HIDE DEF pruned, e
    <3>4. /\ minute' \in Seq(MinuteUse) /\ Len(minute') = Len(pruned) + 1
          /\ minute'[Len(pruned) + 1] = e
          /\ \A i \in 1..Len(pruned) : minute'[i] = pruned[i]
      BY <3>1, <3>2, <3>3
    <3>5. Len(pruned) \in Nat
      BY <3>2, LenProperties
    <3>6. NearlySorted'
      <4>1. \A i \in 1..Len(minute') : minute'[i].at <= now'
        BY <2>1, <2>2, <3>2, <3>3, <3>4, <3>5
      <4>2. ASSUME NEW i \in 1..Len(minute'), NEW j \in 1..Len(minute'), i <= j
            PROVE  minute'[i].at - Window < minute'[j].at
        <5>1. CASE j \in 1..Len(pruned)
          BY <3>2, <3>4, <3>5, <4>2, <5>1
        <5>2. CASE j = Len(pruned) + 1
          <6>1. minute'[i].at <= now /\ minute'[i].at \in Nat
            <7>1. CASE i \in 1..Len(pruned)
              BY <3>2, <3>4, <7>1
            <7>2. CASE i = Len(pruned) + 1
              BY <1>0, <2>2, <3>3, <3>4, <7>2
            <7> QED BY <3>4, <3>5, <7>1, <7>2
          <6>2. minute'[j].at = request[r].at
            BY <3>3, <3>4, <5>2
          <6> QED BY <1>0, <2>4, <6>1, <6>2
        <5> QED BY <3>4, <3>5, <5>1, <5>2
      <4> QED BY <4>1, <4>2 DEF NearlySorted
    <3>7. /\ request'[r] = Idle /\ Idle.stage = "idle"
          /\ \A o \in Requests : o # r => request'[o] = request[o]
          /\ request' \in [Requests -> Request]
      BY <1>0, <2>1, StageTypes
    <3>8. SeededFirst' /\ PastClocks'
      BY <1>0, <2>1, <2>2, <3>7 DEF WindowInv, SeededFirst, PastClocks
    <3> QED BY <3>4, <3>6, <3>7, <3>8 DEF WindowInv, WindowTypes
  <2> QED BY <2>3, <2>4
<1> QED BY <1>1, <1>2, <1>3, <1>4, <1>5, <1>6, <1>8, <1>9, <1>10
     DEF Next, Initialize, Settle, Admit

LEMMA InitWindowInv == Init => WindowInv
<1> SUFFICES ASSUME Init PROVE WindowInv
  OBVIOUS
<1>1. /\ minute = << >> /\ now = Start /\ Start \in Nat /\ ~initialized
      /\ request = [r \in Requests |-> Idle]
  BY ConstantsAssumption DEF Init
<1>2. WindowTypes
  BY <1>1, StageTypes, EmptySeq DEF WindowTypes
<1>3. SeededFirst /\ PastClocks
  <2>1. \A r \in Requests : request[r].stage = "idle"
    BY <1>1, StageTypes
  <2> QED BY <1>1, <2>1 DEF SeededFirst, PastClocks
<1>4. NearlySorted
  BY <1>1 DEF NearlySorted
<1> QED BY <1>2, <1>3, <1>4 DEF WindowInv

\* However late and in whatever order reservations are settled, the deque
\* counts no use for two windows or longer.
THEOREM StaleUseBounded == Spec => []StaleUseIsBounded
<1>1. Init => WindowInv
  BY InitWindowInv
<1>2. WindowInv => StaleUseIsBounded
  <2> SUFFICES ASSUME WindowInv PROVE StaleUseIsBounded
    OBVIOUS
  <2> DEFINE counted == Prune(minute, now)
  <2>1. /\ minute \in Seq(MinuteUse) /\ now \in Nat /\ Window \in Nat
    BY ConstantsAssumption DEF WindowInv, WindowTypes, PastClocks
  <2>2. PICK k \in 0..Len(minute) :
          /\ Len(counted) = Len(minute) - k
          /\ \A i \in 1..(Len(minute) - k) : counted[i] = minute[k + i]
          /\ k < Len(minute) => now - minute[k + 1].at < Window
    BY <2>1, PruneDropsPrefix
  <2> SUFFICES ASSUME NEW i \in 1..Len(counted)
               PROVE  now - counted[i].at < 2 * Window
    BY DEF StaleUseIsBounded
  <2> HIDE DEF counted
  <2>3. /\ k + 1 \in 1..Len(minute) /\ k + i \in 1..Len(minute) /\ k + 1 <= k + i
        /\ k < Len(minute) /\ i \in 1..(Len(minute) - k)
    BY <2>1, <2>2
  <2>4. minute[k + 1].at \in Nat /\ minute[k + i].at \in Nat
    BY <2>1, <2>3, UseTimes
  <2>5. minute[k + 1].at - Window < minute[k + i].at
    BY <2>3 DEF WindowInv, NearlySorted
  <2>6. counted[i] = minute[k + i] /\ now - minute[k + 1].at < Window
    BY <2>2, <2>3
  <2>7. now - minute[k + i].at < 2 * Window
    <3> DEFINE x == minute[k + 1].at
               y == minute[k + i].at
    <3>1. x \in Nat /\ y \in Nat /\ x - Window < y /\ now - x < Window
      BY <2>4, <2>5, <2>6
    <3> HIDE DEF x, y
    <3>2. now - y < 2 * Window
      BY <2>1, <3>1
    <3> QED BY <3>2 DEF y
  <2> QED BY <2>6, <2>7
<1> QED BY <1>1, <1>2, WindowInvNext, PTL DEF Spec

-----------------------------------------------------------------------------
(* Counts of rows, reservations and periods. *)

\* A later time is in the same period or a later one.
LEMMA KeyOrder ==
  ASSUME NEW p \in Periods, NEW s \in Nat, NEW t \in Nat, s <= t
  PROVE  Key(p, s) \in Nat /\ Key(p, t) \in Nat /\ Key(p, s) <= Key(p, t)
<1> DEFINE L == PeriodLen[p]
           a == s \div L
           b == t \div L
<1>1. L \in Nat \ {0}
  BY ConstantsAssumption
<1> HIDE DEF L
<1>2. a \in Nat /\ L * a <= s /\ s < L * a + L
  BY <1>1
<1>3. b \in Nat /\ L * b <= t /\ t < L * b + L
  BY <1>1
<1> HIDE DEF a, b
<1>4. ASSUME a > b PROVE FALSE
  <2>1. a - b - 1 \in Nat /\ L * (a - b - 1) >= 0
    BY <1>1, <1>2, <1>3, <1>4
  <2>2. L * (a - b - 1) = L * a - L * b - L
    BY <1>1, <1>2, <1>3
  <2>3. L * a \in Nat /\ L * b \in Nat
    BY <1>1, <1>2, <1>3
  <2> QED BY <1>1, <1>2, <1>3, <2>1, <2>2, <2>3
<1>5. a <= b
  BY <1>2, <1>3, <1>4
<1> QED BY <1>2, <1>3, <1>5 DEF a, b, L, Key

\* What the running period of p will cost for the requests q at time t, and the ones of
\* them in the window.
Held(q, t, p) ==
  Total([r \in Requests |-> Amount(q[r].cost)],
        {r \in {o \in Requests : q[o].stage = "active"} : Key(p, q[r].at) = Key(p, t)})

Open(q, t) == {r \in {o \in Requests : q[o].stage = "active"} : t - q[r].at < Window}

LEMMA HeldIs ==
  /\ \A p \in Periods : Reserved(p) = Held(request, now, p)
  /\ InWindow = Open(request, now)
BY DEF Reserved, Held, InWindow, Open, Active

LEMMA AmountType ==
  ASSUME NEW q \in [Requests -> Request]
  PROVE  \A r \in Requests : Amount(q[r].cost) \in Nat
BY DEF Amount, Request

\* The requests of a set and their amounts are all that is held.
LEMMA HeldType ==
  ASSUME NEW q \in [Requests -> Request], NEW t \in Nat
  PROVE  /\ \A p \in Periods : Held(q, t, p) \in Nat
         /\ IsFiniteSet(Open(q, t)) /\ Cardinality(Open(q, t)) \in Nat
<1> DEFINE w == [r \in Requests |-> Amount(q[r].cost)]
           S(p) == {r \in {o \in Requests : q[o].stage = "active"} : Key(p, q[r].at) = Key(p, t)}
<1>1. IsFiniteSet(Requests)
  BY ConstantsAssumption
<1>2. \A r \in Requests : w[r] \in Nat
  BY AmountType
<1>3. \A p \in Periods : S(p) \in SUBSET Requests
  OBVIOUS
<1> HIDE DEF w, S
<1>4. \A p \in Periods : Total(w, S(p)) \in Nat
  BY <1>1, <1>2, <1>3, TotalType
<1>5. Open(q, t) \subseteq Requests
  BY DEF Open
<1> QED BY <1>1, <1>4, <1>5, FS_Subset, FS_CardinalityType DEF Held, w, S

\* A request that is active before and after, or neither, and keeps its reservation
\* changes nothing.
LEMMA HeldSame ==
  ASSUME NEW q \in [Requests -> Request], NEW o \in [Requests -> Request], NEW r \in Requests,
         \A x \in Requests : x # r => q[x] = o[x],
         q[r].stage # "active", o[r].stage # "active", NEW t
  PROVE  /\ \A p \in Periods : Held(q, t, p) = Held(o, t, p)
         /\ Open(q, t) = Open(o, t)
<1>1. Open(q, t) = Open(o, t)
  BY DEF Open
<1>2. ASSUME NEW p \in Periods PROVE Held(q, t, p) = Held(o, t, p)
  <2> DEFINE w == [x \in Requests |-> Amount(q[x].cost)]
             v == [x \in Requests |-> Amount(o[x].cost)]
             S == {x \in {y \in Requests : q[y].stage = "active"} : Key(p, q[x].at) = Key(p, t)}
             T == {x \in {y \in Requests : o[y].stage = "active"} : Key(p, o[x].at) = Key(p, t)}
  <2>1. S = T /\ S \in SUBSET Requests /\ \A x \in S : w[x] = v[x]
    OBVIOUS
  <2>2. IsFiniteSet(Requests)
    BY ConstantsAssumption
  <2> HIDE DEF w, v, S, T
  <2>3. Total(w, S) = Total(v, T)
    BY <2>1, <2>2, TotalSame
  <2> QED BY <2>3 DEF Held, w, v, S, T
<1> QED BY <1>1, <1>2

\* A reservation that is made or given up counts with its amount in the period it was
\* made in, and as a request while it is in the window.
LEMMA HeldOneMore ==
  ASSUME NEW q \in [Requests -> Request], NEW o \in [Requests -> Request], NEW r \in Requests,
         \A x \in Requests : x # r => q[x] = o[x],
         q[r].stage = "active", o[r].stage # "active", NEW t
  PROVE  /\ \A p \in Periods :
              Held(q, t, p) = Held(o, t, p)
                + (IF Key(p, q[r].at) = Key(p, t) THEN Amount(q[r].cost) ELSE 0)
         /\ Open(o, t) = Open(q, t) \ {r}
         /\ r \in Open(q, t) <=> t - q[r].at < Window
<1>1. Open(o, t) = Open(q, t) \ {r} /\ (r \in Open(q, t) <=> t - q[r].at < Window)
  BY DEF Open
<1>2. ASSUME NEW p \in Periods
      PROVE  Held(q, t, p) = Held(o, t, p)
               + (IF Key(p, q[r].at) = Key(p, t) THEN Amount(q[r].cost) ELSE 0)
  <2> DEFINE w == [x \in Requests |-> Amount(q[x].cost)]
             v == [x \in Requests |-> Amount(o[x].cost)]
             S == {x \in {y \in Requests : q[y].stage = "active"} : Key(p, q[x].at) = Key(p, t)}
             T == {x \in {y \in Requests : o[y].stage = "active"} : Key(p, o[x].at) = Key(p, t)}
  <2>1. /\ T = S \ {r} /\ S \in SUBSET Requests /\ T \in SUBSET Requests
        /\ \A x \in T : w[x] = v[x]
        /\ r \in S <=> Key(p, q[r].at) = Key(p, t)
        /\ w[r] = Amount(q[r].cost)
    OBVIOUS
  <2>2. IsFiniteSet(Requests)
    BY ConstantsAssumption
  <2>3. \A x \in Requests : w[x] \in Nat
    BY AmountType
  <2> HIDE DEF w, v, S, T
  <2>4. Total(w, T) = Total(v, T) /\ Total(w, T) \in Nat
    BY <2>1, <2>2, <2>3, TotalSame, TotalType
  <2>5. CASE r \in S
    <3>1. Total(w, S) = w[r] + Total(w, T)
      BY <2>1, <2>2, <2>3, <2>5, TotalSplit
    <3>2. Total(w, S) = Total(v, T) + w[r]
      BY <2>3, <2>4, <3>1
    <3> QED BY <2>1, <2>5, <3>2 DEF Held, w, v, S, T
  <2>6. CASE r \notin S
    <3>1. S = T
      BY <2>1, <2>6
    <3>2. Total(w, S) = Total(v, T) + 0
      BY <2>4, <3>1
    <3> QED BY <2>1, <2>6, <3>2 DEF Held, w, v, S, T
  <2> QED BY <2>5, <2>6
<1> QED BY <1>1, <1>2

LEMMA BeganType ==
  ASSUME NEW rows, Len(rows) \in Nat, NEW s
  PROVE  Began(rows, s) \in Nat
<1>1. {i \in 1..Len(rows) : rows[i].at = s} \subseteq 1..Len(rows)
  OBVIOUS
<1>2. IsFiniteSet(1..Len(rows))
  BY CountUpTo
<1> QED BY <1>1, <1>2, FS_Subset, FS_CardinalityType DEF Began

\* Rows that are dropped from the front did not begin at s.
LEMMA DropKeepsBegan ==
  ASSUME NEW u, Len(u) \in Nat, NEW k \in 0..Len(u),
         NEW v, Len(v) = Len(u) - k, \A i \in 1..(Len(u) - k) : v[i].at = u[k + i].at,
         NEW s, \A i \in 1..k : u[i].at # s
  PROVE  Began(v, s) = Began(u, s)
<1> DEFINE n == Len(u)
           A == {i \in 1..n : u[i].at = s}
           B == {i \in 1..(n - k) : v[i].at = s}
           f == [i \in B |-> k + i]
<1>1. n \in Nat /\ k \in Nat /\ k <= n
  OBVIOUS
<1>2. \A i \in B : f[i] \in A
  <2>1. \A i \in B : k + i \in 1..n /\ v[i].at = u[k + i].at
    BY <1>1
  <2> QED BY <2>1
<1>3. \A i, j \in B : f[i] = f[j] => i = j
  BY <1>1
<1>4. \A a \in A : \E i \in B : f[i] = a
  <2> SUFFICES ASSUME NEW a \in A PROVE a - k \in B /\ f[a - k] = a
    OBVIOUS
  <2>1. a \in 1..n /\ u[a].at = s
    OBVIOUS
  <2>2. ~ (a \in 1..k)
    BY <2>1
  <2>3. a - k \in 1..(n - k) /\ k + (a - k) = a
    BY <1>1, <2>1, <2>2
  <2>4. v[a - k].at = u[k + (a - k)].at
    BY <2>3
  <2>5. a - k \in B
    BY <2>1, <2>3, <2>4
  <2> QED BY <2>3, <2>5
<1>5. IsFiniteSet(B)
  <2>1. B \subseteq 1..(n - k) /\ n - k \in Nat
    BY <1>1
  <2> QED BY <2>1, CountUpTo, FS_Subset
<1>6. f \in [B -> A]
  BY <1>2
<1> HIDE DEF f
<1>7. f \in Bijection(B, A)
  BY <1>3, <1>4, <1>6, Fun_IsBij
<1>8. Cardinality(A) = Cardinality(B)
  <2>1. ExistsBijection(B, A)
    BY <1>7 DEF ExistsBijection
  <2> HIDE DEF A, B
  <2> QED BY <1>5, <2>1, FS_Bijection
<1> QED BY <1>8 DEF Began

\* prune leaves the uses of the window.
LEMMA PruneBegan ==
  ASSUME NEW uses \in Seq(MinuteUse), NEW t \in Nat, NEW s \in Nat, t - s < Window
  PROVE  Began(Prune(uses, t), s) = Began(uses, s)
<1>1. PICK k \in 0..Len(uses) :
        /\ Len(Prune(uses, t)) = Len(uses) - k
        /\ \A i \in 1..(Len(uses) - k) : Prune(uses, t)[i] = uses[k + i]
        /\ \A i \in 1..k : t - uses[i].at >= Window
  BY PruneDropsPrefix
<1>2. Len(uses) \in Nat
  BY LenProperties
<1>3. \A i \in 1..k : uses[i].at # s
  <2> SUFFICES ASSUME NEW i \in 1..k, uses[i].at = s PROVE FALSE
    OBVIOUS
  <2>1. t - s >= Window
    BY <1>1
  <2> QED BY <2>1, ConstantsAssumption
<1>4. \A i \in 1..(Len(uses) - k) : Prune(uses, t)[i].at = uses[k + i].at
  BY <1>1
<1> QED BY <1>1, <1>2, <1>3, <1>4, DropKeepsBegan

LEMMA AppendBegan ==
  ASSUME NEW uses \in Seq(MinuteUse), NEW e \in MinuteUse, NEW s
  PROVE  Began(Append(uses, e), s) = Began(uses, s) + IF e.at = s THEN 1 ELSE 0
<1> DEFINE n == Len(uses)
           A == {i \in 1..n : uses[i].at = s}
           B == {i \in 1..(n + 1) : Append(uses, e)[i].at = s}
<1>1. n \in Nat
  BY LenProperties
<1>2. /\ Len(Append(uses, e)) = n + 1 /\ Append(uses, e)[n + 1] = e
      /\ \A i \in 1..n : Append(uses, e)[i] = uses[i]
  BY AppendProperties
<1>3. B = IF e.at = s THEN A \cup {n + 1} ELSE A
  <2>1. 1..(n + 1) = 1..n \cup {n + 1}
    BY <1>1
  <2> HIDE DEF n
  <2> QED BY <1>2, <2>1
<1>4. n + 1 \notin A /\ IsFiniteSet(A)
  <2>1. A \subseteq 1..n /\ n + 1 \notin 1..n
    BY <1>1
  <2> QED BY <1>1, <2>1, CountUpTo, FS_Subset
<1> HIDE DEF A
<1>5. Cardinality(A) \in Nat /\ Cardinality(A \cup {n + 1}) = Cardinality(A) + 1
  BY <1>4, FS_AddElement, FS_CardinalityType
<1>6. Cardinality(B) = Cardinality(A) + IF e.at = s THEN 1 ELSE 0
  <2> HIDE DEF B
  <2> QED BY <1>3, <1>5
<1>7. Began(Append(uses, e), s) = Cardinality(B)
  BY <1>2 DEF Began
<1> QED BY <1>6, <1>7 DEF Began, A

\* The rows a seed brings in are all of its window.
LEMMA MinuteRowsBegan ==
  ASSUME NEW t \in Nat, Start <= t, NEW s \in Nat, t - s < Window
  PROVE  Began(MinuteRows(t), s) = Began(Prior, s)
<1> DEFINE older == {i \in 1..Len(Prior) : Prior[i].at < t - Window}
           first == Cardinality(older)
           n == Len(Prior)
<1>1. /\ Prior \in Seq(LogRow) /\ n \in Nat /\ Window \in Nat \ {0}
      /\ \A i, j \in 1..n : i <= j => Prior[i].at <= Prior[j].at
  <2>1. /\ Prior \in Seq(LogRow) /\ Window \in Nat \ {0}
        /\ \A i, j \in 1..n : i <= j => Prior[i].at <= Prior[j].at
    BY ConstantsAssumption
  <2> QED BY <2>1, LenProperties
<1>2. \A i \in 1..n : Prior[i].at \in Nat
  <2>1. \A i \in 1..n : Prior[i] \in LogRow
    BY <1>1
  <2>2. Start \in Nat
    BY ConstantsAssumption
  <2> QED BY <2>1, <2>2 DEF LogRow
<1>3. first \in Nat /\ first <= n
  <2>1. IsFiniteSet(1..n) /\ Cardinality(1..n) = n
    BY <1>1, CountUpTo
  <2>2. older \subseteq 1..n
    OBVIOUS
  <2> HIDE DEF older
  <2> QED BY <2>1, <2>2, FS_Subset, FS_CardinalityType
<1>4. ASSUME NEW i \in 1..first PROVE Prior[i].at < t - Window
  <2> SUFFICES ASSUME ~ (Prior[i].at < t - Window) PROVE FALSE
    OBVIOUS
  <2>1. i \in 1..n /\ i - 1 \in Nat /\ i <= first
    BY <1>1, <1>3
  <2>2. older \subseteq 1..(i - 1)
    <3> SUFFICES ASSUME NEW j \in older, ~ (j \in 1..(i - 1)) PROVE FALSE
      OBVIOUS
    <3>1. j \in 1..n /\ i <= j
      BY <1>1, <2>1
    <3>2. Prior[i].at <= Prior[j].at /\ Prior[j].at < t - Window
      BY <1>1, <2>1, <3>1
    <3>3. Prior[i].at \in Nat /\ Prior[j].at \in Nat
      BY <1>2, <2>1, <3>1
    <3> DEFINE x == Prior[i].at
               y == Prior[j].at
    <3>4. x \in Nat /\ y \in Nat /\ x <= y /\ y < t - Window /\ ~(x < t - Window)
      BY <3>2, <3>3
    <3> HIDE DEF x, y
    <3> QED BY <1>1, <3>4
  <2>3. IsFiniteSet(1..(i - 1)) /\ Cardinality(1..(i - 1)) = i - 1
    BY <2>1, CountUpTo
  <2> HIDE DEF older
  <2>4. first <= i - 1
    BY <2>2, <2>3, FS_Subset
  <2> HIDE DEF first
  <2> QED BY <1>3, <2>1, <2>4
<1>5. MinuteRows(t) = [i \in 1..(n - first) |->
                         [at |-> Prior[first + i].at, tokens |-> Prior[first + i].tokens]]
  BY DEF MinuteRows
<1> HIDE DEF first
<1>6. Len(MinuteRows(t)) = n - first
  <2>1. MinuteRows(t) \in Seq(MinuteUse) /\ DOMAIN MinuteRows(t) = 1..(n - first)
    BY <1>5, MinuteRowsOrdered
  <2> QED BY <1>1, <1>3, <2>1, LenProperties
<1>7. \A i \in 1..(n - first) : MinuteRows(t)[i].at = Prior[first + i].at
  BY <1>5
<1>8. \A i \in 1..first : Prior[i].at # s
  <2> SUFFICES ASSUME NEW i \in 1..first, Prior[i].at = s PROVE FALSE
    OBVIOUS
  <2>1. s < t - Window
    BY <1>4
  <2> QED BY <1>1, <2>1
<1>9. first \in 0..n
  BY <1>1, <1>3
<1> QED BY <1>1, <1>6, <1>7, <1>8, <1>9, DropKeepsBegan

\* What earlier processes spent belongs to no later period.
LEMMA PriorSpend ==
  ASSUME NEW p \in Periods, NEW t \in Nat, Start <= t
  PROVE  /\ SpendRows(p, t) \in Nat
         /\ Key(p, t) # Key(p, Start) => SpendRows(p, t) = 0
<1> DEFINE n == Len(Prior)
           w == [i \in 1..n |-> Prior[i].cost]
           S == {i \in 1..n : Key(p, Prior[i].at) = Key(p, t)}
<1>1. Prior \in Seq(LogRow) /\ Start \in Nat
  BY ConstantsAssumption
<1>2. \A i \in 1..n : Prior[i].cost \in Nat /\ Prior[i].at \in Nat /\ Prior[i].at <= Start
  <2>1. \A i \in 1..n : Prior[i] \in LogRow
    BY <1>1
  <2> QED BY <1>1, <2>1 DEF LogRow
<1>3. n \in Nat /\ IsFiniteSet(1..n)
  BY <1>1, LenProperties, CountUpTo
<1>4. \A i \in 1..n : w[i] \in Nat
  BY <1>2
<1>5. S \in SUBSET (1..n)
  OBVIOUS
<1>6. Key(p, t) # Key(p, Start) => S = {}
  <2> SUFFICES ASSUME Key(p, t) # Key(p, Start), NEW i \in 1..n, Key(p, Prior[i].at) = Key(p, t)
               PROVE  FALSE
    OBVIOUS
  <2>1. /\ Key(p, Prior[i].at) <= Key(p, Start) /\ Key(p, Start) <= Key(p, t)
        /\ Key(p, Start) \in Nat /\ Key(p, t) \in Nat
    BY <1>1, <1>2, KeyOrder
  <2> QED BY <2>1
<1> HIDE DEF w, S, n
<1>7. Total(w, S) \in Nat
  BY <1>3, <1>4, <1>5, TotalType
<1>8. Total(w, {}) = 0
  BY FS_EmptySet, TotalStep
<1> QED BY <1>6, <1>7, <1>8 DEF SpendRows, w, S, n

\* Times of the same period see the same.
LEMMA SamePeriod ==
  ASSUME NEW p \in Periods, NEW s, NEW t, Key(p, s) = Key(p, t)
  PROVE  /\ SpendRows(p, s) = SpendRows(p, t)
         /\ \A q : Held(q, s, p) = Held(q, t, p)
BY DEF SpendRows, Held

-----------------------------------------------------------------------------
(* The ledger. *)

\* The state is what the operations make it, the history's part included.
LedgerTypes ==
  /\ now \in Times
  /\ initialized \in BOOLEAN
  /\ initLock \in Requests \cup {Unknown}
  /\ period \in [Periods -> Nat \cup {-1}]
  /\ spend \in [Periods -> Nat]
  /\ truth \in [uses : [Times -> Nat], spend : [Periods -> Nat], over : [Periods -> Nat],
                seeded : BOOLEAN]

\* No period was entered before its time, so one that is over is left with it.
PeriodsPast == \A p \in Periods : period[p] <= Key(p, now)

\* What was spent in the running periods is in the usage log until the ledger is seeded,
\* and then in the ledger.
SpendKnown ==
  /\ ~initialized =>
       /\ truth.seeded
       /\ \A p \in Periods : truth.spend[p] = SpendRows(p, now)
  /\ initialized /\ truth.seeded =>
       \A p \in Periods : truth.spend[p] = RolledSpend(now)[p]

\* So is every use of the window.
UsesKnown ==
  /\ \A s \in Times : truth.uses[s] > 0 => now - s < Window
  /\ ~initialized => \A s \in Times : truth.uses[s] <= Began(Prior, s)
  /\ initialized /\ truth.seeded => \A s \in Times : truth.uses[s] <= Began(minute, s)

\* Once the uses of earlier processes are few enough, the limit holds.
RpmKept ==
  Rpm > 0 /\ truth.seeded =>
    \/ Total(truth.uses, Times) + Cardinality(InWindow) <= Rpm
    \/ InWindow = {} /\ \A s \in Times : truth.uses[s] <= Began(Prior, s)

LedgerParts == LedgerTypes /\ PeriodsPast /\ SpendKnown /\ UsesKnown /\ RpmKept /\ BudgetHolds

-----------------------------------------------------------------------------
\* What every step may rely on.
LEMMA LedgerFacts ==
  ASSUME WindowInv, LedgerParts
  PROVE  /\ now \in Nat /\ Start \in Nat /\ Start <= now /\ now \in Times /\ MaxTime \in Nat
         /\ Window \in Nat \ {0} /\ minute \in Seq(MinuteUse) /\ Len(minute) \in Nat
         /\ request \in [Requests -> Request]
         /\ \A r \in Requests : request[r].at \in Nat /\ Amount(request[r].cost) \in Nat
         /\ IsFiniteSet(Times) /\ \A s \in Times : s \in Nat
         /\ \A p \in Periods : /\ Key(p, now) \in Nat /\ RolledSpend(now)[p] \in Nat
                               /\ Reserved(p) \in Nat /\ Budget[p] \in Nat
         /\ IsFiniteSet(InWindow) /\ Cardinality(InWindow) \in Nat
         /\ Total(truth.uses, Times) \in Nat /\ truth.uses \in [Times -> Nat]
         /\ truth.spend \in [Periods -> Nat] /\ truth.over \in [Periods -> Nat]
         /\ Rpm \in Nat
<1>1. /\ now \in Nat /\ Start \in Nat /\ Start <= now /\ now \in Times /\ MaxTime \in Nat
      /\ Window \in Nat \ {0} /\ minute \in Seq(MinuteUse) /\ Rpm \in Nat
      /\ request \in [Requests -> Request] /\ Budget \in [Periods -> Nat]
  BY ConstantsAssumption DEF WindowInv, WindowTypes, PastClocks, LedgerParts, LedgerTypes
<1>2. Len(minute) \in Nat
  BY <1>1, LenProperties
<1>3. \A r \in Requests : request[r].at \in Nat /\ Amount(request[r].cost) \in Nat
  <2>1. \A r \in Requests : request[r] \in Request
    BY <1>1
  <2> QED BY <1>1, <2>1, AmountType DEF Request
<1>4. IsFiniteSet(Times) /\ \A s \in Times : s \in Nat
  BY <1>1, FS_Interval DEF Times
<1>5. /\ truth.uses \in [Times -> Nat]
      /\ truth.spend \in [Periods -> Nat] /\ truth.over \in [Periods -> Nat]
      /\ spend \in [Periods -> Nat]
  BY DEF LedgerParts, LedgerTypes
<1>6. Total(truth.uses, Times) \in Nat
  <2>1. \A s \in Times : truth.uses[s] \in Nat
    BY <1>5
  <2> QED BY <1>4, <2>1, TotalType
<1>7. \A p \in Periods : Key(p, now) \in Nat /\ RolledSpend(now)[p] \in Nat
  BY <1>1, <1>5, KeyOrder DEF RolledSpend
<1>8. /\ \A p \in Periods : Reserved(p) \in Nat
      /\ IsFiniteSet(InWindow) /\ Cardinality(InWindow) \in Nat
  BY <1>1, HeldIs, HeldType
<1> QED BY <1>1, <1>2, <1>3, <1>4, <1>5, <1>6, <1>7, <1>8

\* The reservations, when no request becomes active or stops being it.
LEMMA ReservedSame ==
  ASSUME WindowInv, NEW r \in Requests, request' \in [Requests -> Request],
         \A x \in Requests : x # r => request'[x] = request[x],
         request[r].stage # "active", request'[r].stage # "active", now' = now
  PROVE  /\ \A p \in Periods : Reserved(p)' = Reserved(p)
         /\ InWindow' = InWindow
<1>1. request \in [Requests -> Request]
  BY DEF WindowInv, WindowTypes
<1>3. /\ \A p \in Periods : Held(request', now, p) = Held(request, now, p)
      /\ Open(request', now) = Open(request, now)
  BY <1>1, HeldSame
<1>4. /\ \A p \in Periods : Reserved(p)' = Held(request', now', p)
      /\ InWindow' = Open(request', now')
  BY DEF Reserved, Held, InWindow, Open, Active
<1> QED BY <1>3, <1>4, HeldIs

\* A reservation that ends leaves its amount and its place.
LEMMA ReservedLess ==
  ASSUME WindowInv, NEW r \in Requests, request' \in [Requests -> Request],
         \A x \in Requests : x # r => request'[x] = request[x],
         request[r].stage = "active", request'[r].stage # "active", now' = now
  PROVE  /\ \A p \in Periods :
              Reserved(p) = Reserved(p)'
                + (IF Key(p, request[r].at) = Key(p, now) THEN Amount(request[r].cost) ELSE 0)
         /\ InWindow' = InWindow \ {r}
         /\ r \in InWindow <=> now - request[r].at < Window
         /\ \A p \in Periods : Reserved(p)' \in Nat
         /\ IsFiniteSet(InWindow') /\ Cardinality(InWindow') \in Nat
<1>1. request \in [Requests -> Request] /\ now \in Nat
  BY DEF WindowInv, WindowTypes, PastClocks
<1>3. /\ \A p \in Periods :
           Held(request, now, p) = Held(request', now, p)
             + (IF Key(p, request[r].at) = Key(p, now) THEN Amount(request[r].cost) ELSE 0)
      /\ Open(request', now) = Open(request, now) \ {r}
      /\ r \in Open(request, now) <=> now - request[r].at < Window
  BY <1>1, HeldOneMore
<1>4. /\ \A p \in Periods : Reserved(p)' = Held(request', now', p)
      /\ InWindow' = Open(request', now')
  BY DEF Reserved, Held, InWindow, Open, Active
<1>5. /\ \A p \in Periods : Held(request', now, p) \in Nat
      /\ IsFiniteSet(Open(request', now)) /\ Cardinality(Open(request', now)) \in Nat
  BY <1>1, HeldType
<1> QED BY <1>3, <1>4, <1>5, HeldIs

\* A reservation that is made now adds its amount and its place.
LEMMA ReservedMore ==
  ASSUME WindowInv, NEW r \in Requests, request' \in [Requests -> Request],
         \A x \in Requests : x # r => request'[x] = request[x],
         request[r].stage # "active", request'[r].stage = "active", request'[r].at = now, now' = now
  PROVE  /\ \A p \in Periods : Reserved(p)' = Reserved(p) + Amount(request'[r].cost)
         /\ Cardinality(InWindow') = Cardinality(InWindow) + 1
<1>1. request \in [Requests -> Request] /\ now \in Nat /\ Window \in Nat \ {0}
  BY ConstantsAssumption DEF WindowInv, WindowTypes, PastClocks
<1>3. /\ \A p \in Periods :
           Held(request', now, p) = Held(request, now, p)
             + (IF Key(p, request'[r].at) = Key(p, now) THEN Amount(request'[r].cost) ELSE 0)
      /\ Open(request, now) = Open(request', now) \ {r}
      /\ r \in Open(request', now) <=> now - request'[r].at < Window
  BY <1>1, HeldOneMore
<1>4. /\ \A p \in Periods : Reserved(p)' = Held(request', now', p)
      /\ InWindow' = Open(request', now')
  BY DEF Reserved, Held, InWindow, Open, Active
<1>5. r \in Open(request', now)
  BY <1>1, <1>3
<1>6. IsFiniteSet(Open(request', now)) /\ Cardinality(Open(request', now)) \in Nat
  BY <1>1, HeldType
<1>7. Cardinality(Open(request, now)) = Cardinality(Open(request', now)) - 1
  <2> DEFINE S == Open(request', now)
  <2>1. IsFiniteSet(S) /\ r \in S
    BY <1>5, <1>6
  <2> HIDE DEF S
  <2>2. Cardinality(S \ {r}) = Cardinality(S) - 1
    BY <2>1, FS_RemoveElement
  <2> QED BY <1>3, <2>2 DEF S
<1>8. Cardinality(Open(request', now)) = Cardinality(Open(request, now)) + 1
  BY <1>6, <1>7
<1>9. \A p \in Periods : Held(request', now, p) = Held(request, now, p) + Amount(request'[r].cost)
  BY <1>3
<1> QED BY <1>4, <1>8, <1>9, HeldIs

\* A step that only moves a request that holds no reservation.
LEMMA QuietMove ==
  ASSUME WindowInv, LedgerParts, NEW r \in Requests, NEW q \in Request,
         request' = [request EXCEPT ![r] = q],
         request[r].stage # "active", q.stage # "active",
         initLock' \in Requests \cup {Unknown},
         UNCHANGED <<now, initialized, ledger, truth>>
  PROVE  LedgerParts'
<1>0. /\ request' \in [Requests -> Request] /\ request'[r].stage # "active"
      /\ \A x \in Requests : x # r => request'[x] = request[x]
  BY DEF WindowInv, WindowTypes
<1>1. /\ \A p \in Periods : Reserved(p)' = Reserved(p)
      /\ InWindow' = InWindow
  BY <1>0, ReservedSame
<1>2. LedgerTypes' /\ PeriodsPast'
  BY DEF LedgerParts, LedgerTypes, PeriodsPast, ledger
<1>3. SpendKnown'
  BY DEF LedgerParts, SpendKnown, RolledSpend, ledger
<1>4. UsesKnown'
  BY DEF LedgerParts, UsesKnown, ledger
<1>5. RpmKept'
  BY <1>1 DEF LedgerParts, RpmKept
<1>6. BudgetHolds'
  BY <1>1 DEF LedgerParts, BudgetHolds
<1> QED BY <1>2, <1>3, <1>4, <1>5, <1>6 DEF LedgerParts

\* Pruning loses none of the uses of the window.
LEMMA PrunedKnown ==
  ASSUME WindowInv, LedgerParts, initialized, truth.seeded
  PROVE  /\ Prune(minute, now) \in Seq(MinuteUse) /\ Len(Prune(minute, now)) \in Nat
         /\ \A s \in Times : /\ Began(Prune(minute, now), s) \in Nat
                             /\ truth.uses[s] <= Began(Prune(minute, now), s)
<1>1. /\ now \in Nat /\ minute \in Seq(MinuteUse) /\ \A s \in Times : s \in Nat
      /\ \A s \in Times : truth.uses[s] \in Nat
  BY LedgerFacts
<1>2. Prune(minute, now) \in Seq(MinuteUse)
  BY <1>1, PruneDropsPrefix
<1>3. Len(Prune(minute, now)) \in Nat
  BY <1>2, LenProperties
<1>4. ASSUME NEW s \in Times
      PROVE  /\ Began(Prune(minute, now), s) \in Nat
             /\ truth.uses[s] <= Began(Prune(minute, now), s)
  <2>1. Began(Prune(minute, now), s) \in Nat
    BY <1>3, BeganType
  <2>2. CASE now - s < Window
    BY <1>1, <2>1, <2>2, PruneBegan DEF LedgerParts, UsesKnown
  <2>3. CASE ~ (now - s < Window)
    BY <1>1, <2>1, <2>3 DEF LedgerParts, UsesKnown
  <2> QED BY <2>1, <2>2, <2>3
<1> QED BY <1>2, <1>3, <1>4

\* What current() leaves behind is as good as what it found.
LEMMA RefreshKeeps ==
  ASSUME WindowInv, LedgerParts, Refresh, initialized,
         UNCHANGED <<now, initialized, initLock, truth>>
  PROVE  LedgerTypes' /\ PeriodsPast' /\ SpendKnown' /\ UsesKnown'
<1>1. /\ minute' = Prune(minute, now) /\ period' = PeriodAt(now) /\ spend' = RolledSpend(now)
      /\ now' = now /\ initialized' = initialized /\ initLock' = initLock /\ truth' = truth
  BY DEF Refresh
<1>2. /\ now \in Nat /\ minute \in Seq(MinuteUse) /\ \A s \in Times : s \in Nat
      /\ \A p \in Periods : Key(p, now) \in Nat /\ RolledSpend(now)[p] \in Nat
      /\ \A s \in Times : truth.uses[s] \in Nat
  BY LedgerFacts
<1>3. RolledSpend(now)' = RolledSpend(now)
  BY <1>1 DEF RolledSpend, PeriodAt
<1>4. LedgerTypes'
  <2>1. period' \in [Periods -> Nat \cup {-1}]
    BY <1>1, <1>2 DEF PeriodAt
  <2>2. spend' \in [Periods -> Nat]
    BY <1>1, <1>2 DEF RolledSpend
  <2> QED BY <1>1, <2>1, <2>2 DEF LedgerParts, LedgerTypes
<1>5. PeriodsPast'
  BY <1>1, <1>2 DEF PeriodsPast, PeriodAt
<1>6. SpendKnown'
  BY <1>1, <1>3 DEF LedgerParts, SpendKnown
<1>7. UsesKnown'
  <2>1. truth.seeded => \A s \in Times : truth.uses[s] <= Began(Prune(minute, now), s)
    BY PrunedKnown
  <2> QED BY <1>1, <2>1 DEF LedgerParts, UsesKnown
<1> QED BY <1>4, <1>5, <1>6, <1>7

\* check_current, and reserve of a request that is over a limit.
LEMMA RefreshMove ==
  ASSUME WindowInv, LedgerParts, NEW r \in Requests, NEW q \in Request,
         request' = [request EXCEPT ![r] = q],
         request[r].stage = "ready", q.stage # "active",
         Refresh, UNCHANGED <<now, initialized, initLock, truth>>
  PROVE  LedgerParts'
<1>1. /\ request' \in [Requests -> Request] /\ request'[r].stage # "active"
      /\ \A x \in Requests : x # r => request'[x] = request[x]
      /\ initialized
  BY DEF WindowInv, WindowTypes, SeededFirst
<1>2. /\ \A p \in Periods : Reserved(p)' = Reserved(p)
      /\ InWindow' = InWindow
  BY <1>1, ReservedSame
<1>3. LedgerTypes' /\ PeriodsPast' /\ SpendKnown' /\ UsesKnown'
  BY <1>1, RefreshKeeps
<1>4. RpmKept'
  BY <1>2 DEF LedgerParts, RpmKept
<1>5. BudgetHolds'
  BY <1>2 DEF LedgerParts, BudgetHolds
<1> QED BY <1>3, <1>4, <1>5 DEF LedgerParts

\* The uses of the window are no more than current() counts.
LEMMA UsesCounted ==
  ASSUME WindowInv, LedgerParts, initialized, truth.seeded
  PROVE  Total(truth.uses, Times) + Cardinality(InWindow) <= CurrentRequests
<1>1. /\ now \in Nat /\ minute \in Seq(MinuteUse) /\ IsFiniteSet(Times)
      /\ \A s \in Times : s \in Nat
      /\ \A s \in Times : truth.uses[s] \in Nat
      /\ Cardinality(InWindow) \in Nat
      /\ Total(truth.uses, Times) \in Nat
  BY LedgerFacts
<1> DEFINE kept == Prune(minute, now)
           I == 1..Len(kept)
           at == [i \in I |-> kept[i].at]
<1>2. kept \in Seq(MinuteUse) /\ Len(kept) \in Nat
  BY <1>1, PruneDropsPrefix, LenProperties
<1>3. ASSUME NEW s \in Times PROVE truth.uses[s] <= Cardinality(Into(I, at, {s}))
  <2>1. Began(kept, s) = Cardinality(Into(I, at, {s}))
    <3>1. Into(I, at, {s}) = {i \in 1..Len(kept) : kept[i].at = s}
      BY DEF Into
    <3> QED BY <3>1 DEF Began
  <2> HIDE DEF at, I
  <2> QED BY <2>1, PrunedKnown
<1>4. IsFiniteSet(I) /\ Cardinality(I) = Len(kept)
  BY <1>2, CountUpTo
<1> HIDE DEF kept, at, I
<1>5. Total(truth.uses, Times) <= Cardinality(Into(I, at, Times))
  <2>1. \A s \in Times : truth.uses[s] \in Nat /\ truth.uses[s] <= Cardinality(Into(I, at, {s}))
    BY <1>1, <1>3
  <2> QED BY <1>1, <1>4, <2>1, TotalOfCounts
<1>6. /\ Cardinality(Into(I, at, Times)) <= Len(kept)
      /\ Cardinality(Into(I, at, Times)) \in Nat
  <2>1. Into(I, at, Times) \subseteq I
    BY DEF Into
  <2> QED BY <1>4, <2>1, FS_Subset, FS_CardinalityType
<1>7. CurrentRequests = Len(kept) + Cardinality(InWindow)
  BY DEF CurrentRequests, kept
<1> QED BY <1>1, <1>2, <1>5, <1>6, <1>7

\* reserve admits a request that is within every limit.
LEMMA AdmitKeeps ==
  ASSUME WindowInv, LedgerParts, NEW r \in Requests, NEW e \in Estimates, Reserve(r, e), ~Exceeds(e)
  PROVE  LedgerParts'
<1> DEFINE q == [stage |-> "active", at |-> now, tokens |-> e.tokens, cost |-> e.cost]
<1>1. /\ request[r].stage = "ready" /\ Refresh
      /\ request' = [request EXCEPT ![r] = q]
      /\ UNCHANGED <<now, initialized, initLock, truth>>
  BY DEF Reserve
<1>2. /\ now \in Nat /\ Rpm \in Nat /\ Cardinality(InWindow) \in Nat
      /\ Total(truth.uses, Times) \in Nat /\ request \in [Requests -> Request]
      /\ truth.spend \in [Periods -> Nat] /\ truth.over \in [Periods -> Nat]
      /\ \A p \in Periods : /\ Reserved(p) \in Nat /\ Budget[p] \in Nat
                            /\ RolledSpend(now)[p] \in Nat
  BY LedgerFacts
<1>3. e.tokens \in Nat /\ e.cost \in Nat \cup {Unknown}
  BY ConstantsAssumption
<1>4. q \in Request /\ q.stage = "active" /\ q.at = now /\ q.cost = e.cost
  BY <1>2, <1>3 DEF Request
<1> HIDE DEF q
<1>5. /\ request' \in [Requests -> Request] /\ request'[r] = q
      /\ \A x \in Requests : x # r => request'[x] = request[x]
      /\ initialized
  BY <1>1, <1>2, <1>4 DEF WindowInv, SeededFirst
<1>6. /\ \A p \in Periods : Reserved(p)' = Reserved(p) + Amount(q.cost)
      /\ Cardinality(InWindow') = Cardinality(InWindow) + 1
  <2>1. request'[r].stage = "active" /\ request'[r].at = now
    BY <1>4, <1>5
  <2>2. /\ \A p \in Periods : Reserved(p)' = Reserved(p) + Amount(request'[r].cost)
        /\ Cardinality(InWindow') = Cardinality(InWindow) + 1
    BY <1>1, <1>5, <2>1, ReservedMore
  <2> QED BY <1>5, <2>2
<1>7. LedgerTypes' /\ PeriodsPast' /\ SpendKnown' /\ UsesKnown'
  BY <1>1, <1>5, RefreshKeeps
<1>8. RpmKept'
  <2> SUFFICES ASSUME Rpm > 0, truth.seeded
               PROVE  Total(truth.uses, Times) + Cardinality(InWindow') <= Rpm
    BY <1>1 DEF RpmKept
  <2>1. Total(truth.uses, Times) + Cardinality(InWindow) <= CurrentRequests
    BY <1>5, UsesCounted
  <2>2. CurrentRequests + 1 <= Rpm
    <3>1. ~ (CurrentRequests + 1 > Rpm)
      BY DEF Exceeds
    <3>2. CurrentRequests \in Nat
      <4>1. Prune(minute, now) \in Seq(MinuteUse)
        BY LedgerFacts, PruneDropsPrefix
      <4> QED BY <1>2, <4>1, LenProperties DEF CurrentRequests
    <3> QED BY <1>2, <3>1, <3>2
  <2>3. CurrentRequests \in Int
    <3>1. Prune(minute, now) \in Seq(MinuteUse)
      BY LedgerFacts, PruneDropsPrefix
    <3> QED BY <1>2, <3>1, LenProperties DEF CurrentRequests
  <2> HIDE DEF q
  <2> QED BY <1>2, <1>6, <2>1, <2>2, <2>3
<1>9. BudgetHolds'
  <2> SUFFICES ASSUME truth.seeded, NEW p \in Periods, Budget[p] > 0
               PROVE  truth.spend[p] + Reserved(p)' <= Budget[p] + truth.over[p]
    BY <1>1 DEF BudgetHolds
  <2>1. truth.spend[p] + Reserved(p) <= Budget[p] + truth.over[p]
    BY DEF LedgerParts, BudgetHolds
  <2>2. truth.spend[p] = RolledSpend(now)[p]
    BY <1>5 DEF LedgerParts, SpendKnown
  <2>3. Reserved(p)' = Reserved(p) + Amount(e.cost)
    BY <1>4, <1>6
  <2>4. CASE e.cost = Unknown
    <3>1. Reserved(p)' = Reserved(p)
      BY <1>2, <2>3, <2>4 DEF Amount
    <3> QED BY <2>1, <3>1
  <2>5. CASE e.cost # Unknown
    <3>1. ~ (RolledSpend(now)[p] + Reserved(p) + e.cost > Budget[p])
      BY <2>5 DEF Exceeds, CurrentSpend
    <3>2. Amount(e.cost) = e.cost /\ e.cost \in Nat
      BY <1>3, <2>5 DEF Amount
    <3> DEFINE s == RolledSpend(now)[p]
               h == Reserved(p)
               b == Budget[p]
               o == truth.over[p]
               c == e.cost
    <3>3. /\ s \in Nat /\ h \in Nat /\ b \in Nat /\ o \in Nat /\ c \in Nat
          /\ ~ (s + h + c > b)
      BY <1>2, <3>1, <3>2
    <3>4. truth.spend[p] = s /\ Reserved(p)' = h + c
      BY <2>2, <2>3, <3>2
    <3> HIDE DEF s, h, b, o, c
    <3>5. s + (h + c) <= b + o
      BY <3>3
    <3> QED BY <3>4, <3>5 DEF b, o
  <2> QED BY <2>4, <2>5
<1> QED BY <1>7, <1>8, <1>9 DEF LedgerParts

\* A reservation given up without a use.
LEMMA CancelKeeps ==
  ASSUME WindowInv, LedgerParts, NEW r \in Requests, Cancel(r)
  PROVE  LedgerParts'
<1>1. /\ request[r].stage = "active" /\ request' = [request EXCEPT ![r] = Idle]
      /\ UNCHANGED <<now, initialized, initLock, ledger, truth>>
  BY DEF Cancel
<1>2. /\ request' \in [Requests -> Request] /\ request'[r].stage # "active"
      /\ \A x \in Requests : x # r => request'[x] = request[x]
  BY <1>1, StageTypes DEF WindowInv, WindowTypes
<1>3. /\ \A p \in Periods :
           Reserved(p) = Reserved(p)'
             + (IF Key(p, request[r].at) = Key(p, now) THEN Amount(request[r].cost) ELSE 0)
      /\ InWindow' = InWindow \ {r}
      /\ \A p \in Periods : Reserved(p)' \in Nat
      /\ IsFiniteSet(InWindow') /\ Cardinality(InWindow') \in Nat
  BY <1>1, <1>2, ReservedLess
<1>4. /\ Amount(request[r].cost) \in Nat /\ truth.spend \in [Periods -> Nat]
      /\ truth.over \in [Periods -> Nat] /\ Total(truth.uses, Times) \in Nat /\ Rpm \in Nat
      /\ IsFiniteSet(InWindow) /\ Cardinality(InWindow) \in Nat
      /\ \A p \in Periods : Budget[p] \in Nat
  BY LedgerFacts
<1>5. LedgerTypes' /\ PeriodsPast'
  BY <1>1 DEF LedgerParts, LedgerTypes, PeriodsPast, ledger
<1>6. SpendKnown' /\ UsesKnown'
  BY <1>1 DEF LedgerParts, SpendKnown, UsesKnown, RolledSpend, ledger
<1>7. RpmKept'
  <2>1. Cardinality(InWindow') <= Cardinality(InWindow)
    BY <1>3, <1>4, FS_Subset
  <2>2. ASSUME Total(truth.uses, Times) + Cardinality(InWindow) <= Rpm
        PROVE  Total(truth.uses, Times) + Cardinality(InWindow') <= Rpm
    BY <1>3, <1>4, <2>1, <2>2
  <2>3. InWindow = {} => InWindow' = {}
    BY <1>3
  <2> QED BY <1>1, <2>2, <2>3 DEF LedgerParts, RpmKept
<1>8. BudgetHolds'
  <2> SUFFICES ASSUME truth.seeded, NEW p \in Periods, Budget[p] > 0
               PROVE  truth.spend[p] + Reserved(p)' <= Budget[p] + truth.over[p]
    BY <1>1 DEF BudgetHolds
  <2>1. truth.spend[p] + Reserved(p) <= Budget[p] + truth.over[p]
    BY DEF LedgerParts, BudgetHolds
  <2>2. Reserved(p)' <= Reserved(p)
    BY <1>3, <1>4
  <2> DEFINE h == Reserved(p)'
             g == Reserved(p)
  <2>3. h \in Nat /\ g \in Nat /\ h <= g
    BY <1>3, <2>2, LedgerFacts
  <2>4. truth.spend[p] + g <= Budget[p] + truth.over[p]
    BY <2>1
  <2> HIDE DEF h, g
  <2>5. truth.spend[p] + h <= Budget[p] + truth.over[p]
    BY <1>4, <2>3, <2>4
  <2> QED BY <2>5 DEF h
<1> QED BY <1>5, <1>6, <1>7, <1>8 DEF LedgerParts

\* The cost charged, and what of it the estimate did not cover.
LEMMA ChargedTypes ==
  ASSUME WindowInv, NEW r \in Requests, NEW u \in Actuals
  PROVE  ChargedTokens(r, u) \in Nat /\ Amount(ChargedCost(r, u)) \in Nat
<1>1. /\ u.tokens \in Nat \cup {Unknown} /\ u.cost \in Nat \cup {Unknown}
      /\ request[r].tokens \in Nat /\ request[r].cost \in Nat \cup {Unknown}
  <2>1. u \in [tokens : Nat \cup {Unknown}, cost : Nat \cup {Unknown}] /\ request[r] \in Request
    BY ConstantsAssumption DEF WindowInv, WindowTypes
  <2> QED BY <2>1 DEF Request
<1> QED BY <1>1 DEF ChargedTokens, ChargedCost, Amount

\* A reservation settled: the use takes its place in the window and in the budgets.
LEMMA ReconcileKeeps ==
  ASSUME WindowInv, LedgerParts, NEW r \in Requests, NEW u \in Actuals, Reconcile(r, u)
  PROVE  LedgerParts'
<1> DEFINE at == request[r].at
           est == Amount(request[r].cost)
           cost == Amount(ChargedCost(r, u))
           over == IF cost > est THEN cost - est ELSE 0
           e == [at |-> at, tokens |-> ChargedTokens(r, u)]
           fresh == now - at < Window
           began(p) == Key(p, at) = Key(p, now)
<1>1. /\ request[r].stage = "active" /\ request' = [request EXCEPT ![r] = Idle]
      /\ minute' = IF fresh THEN Append(Prune(minute, now), e) ELSE Prune(minute, now)
      /\ period' = PeriodAt(now) /\ spend' = SettledSpend(r, u) /\ truth' = Witnessed(r, u)
      /\ UNCHANGED <<now, initialized, initLock>>
  BY DEF Reconcile, SettledMinute
<1>2. /\ initialized /\ at \in Nat /\ at <= now /\ now \in Times
      /\ est \in Nat /\ cost \in Nat /\ over \in Nat /\ cost <= est + over
      /\ e \in MinuteUse /\ e.at = at
  <2>1. initialized /\ at <= now
    BY <1>1 DEF WindowInv, SeededFirst, PastClocks
  <2>2. /\ at \in Nat /\ now \in Times /\ est \in Nat
    BY LedgerFacts
  <2>3. cost \in Nat /\ ChargedTokens(r, u) \in Nat
    BY ChargedTypes
  <2>4. over \in Nat /\ cost <= est + over
    <3> HIDE DEF cost, est
    <3> QED BY <2>2, <2>3
  <2>5. e \in MinuteUse /\ e.at = at
    BY <2>2, <2>3 DEF MinuteUse
  <2> QED BY <2>1, <2>2, <2>3, <2>4, <2>5
<1>3. at \in Times
  BY <1>2, LedgerFacts DEF Times
<1>4. /\ truth \in [uses : [Times -> Nat], spend : [Periods -> Nat], over : [Periods -> Nat],
                    seeded : BOOLEAN]
      /\ period \in [Periods -> Nat \cup {-1}] /\ spend \in [Periods -> Nat]
  BY DEF LedgerParts, LedgerTypes
<1>5. /\ truth'.uses = IF fresh THEN [truth.uses EXCEPT ![at] = @ + 1] ELSE truth.uses
      /\ truth'.spend =
           [p \in Periods |-> IF began(p) THEN truth.spend[p] + cost ELSE truth.spend[p]]
      /\ truth'.over =
           [p \in Periods |-> IF began(p) THEN truth.over[p] + over ELSE truth.over[p]]
      /\ truth'.seeded = truth.seeded
      /\ truth' \in [uses : [Times -> Nat], spend : [Periods -> Nat], over : [Periods -> Nat],
                     seeded : BOOLEAN]
  <2> HIDE DEF cost, over, at, est
  <2> DEFINE uses == IF fresh THEN [truth.uses EXCEPT ![at] = @ + 1] ELSE truth.uses
             spent == [p \in Periods |-> IF began(p) THEN truth.spend[p] + cost ELSE truth.spend[p]]
             overs == [p \in Periods |-> IF began(p) THEN truth.over[p] + over ELSE truth.over[p]]
  <2>1. truth' = [uses |-> uses, spend |-> spent, over |-> overs, seeded |-> truth.seeded]
    BY <1>1 DEF Witnessed, cost, over, at, est
  <2> HIDE DEF began, fresh
  <2>2. uses \in [Times -> Nat]
    BY <1>3, <1>4
  <2>3. spent \in [Periods -> Nat]
    BY <1>2, <1>4
  <2>4. overs \in [Periods -> Nat]
    BY <1>2, <1>4
  <2> HIDE DEF uses, spent, overs
  <2>6. /\ truth'.uses = uses /\ truth'.spend = spent /\ truth'.over = overs
        /\ truth'.seeded = truth.seeded
        /\ truth' \in [uses : [Times -> Nat], spend : [Periods -> Nat], over : [Periods -> Nat],
                       seeded : BOOLEAN]
    BY <1>4, <2>1, <2>2, <2>3, <2>4
  <2> QED BY <2>6 DEF uses, spent, overs
<1>6. \A p \in Periods : /\ spend'[p] = RolledSpend(now)[p] + (IF began(p) THEN cost ELSE 0)
                         /\ RolledSpend(now)[p] \in Nat
                         /\ RolledSpend(now)'[p] = spend'[p]
  <2>1. \A p \in Periods : RolledSpend(now)[p] \in Nat
    BY LedgerFacts
  <2>2. \A p \in Periods : spend'[p] = RolledSpend(now)[p] + (IF began(p) THEN cost ELSE 0)
    BY <1>1 DEF SettledSpend
  <2>3. \A p \in Periods : RolledSpend(now)'[p] = spend'[p]
    BY <1>1 DEF RolledSpend, PeriodAt
  <2> QED BY <2>1, <2>2, <2>3
<1>7. LedgerTypes'
  <2>1. period' \in [Periods -> Nat \cup {-1}]
    BY <1>1, LedgerFacts DEF PeriodAt
  <2>2. spend' \in [Periods -> Nat]
    <3>1. DOMAIN spend' = Periods /\ spend' = [p \in Periods |-> spend'[p]]
      BY <1>1 DEF SettledSpend
    <3>2. \A p \in Periods : spend'[p] \in Nat
      <4> HIDE DEF cost, began
      <4> QED BY <1>2, <1>6
    <3> QED BY <3>1, <3>2
  <2> QED BY <1>1, <1>2, <1>5, <2>1, <2>2 DEF LedgerParts, LedgerTypes
<1>8. PeriodsPast'
  BY <1>1, LedgerFacts DEF PeriodsPast, PeriodAt
<1>9. SpendKnown'
  <2> SUFFICES ASSUME truth.seeded, NEW p \in Periods
               PROVE  truth'.spend[p] = RolledSpend(now)'[p]
    BY <1>1, <1>2, <1>5 DEF SpendKnown
  <2>1. truth.spend[p] = RolledSpend(now)[p]
    BY <1>2 DEF LedgerParts, SpendKnown
  <2> HIDE DEF cost, began
  <2> QED BY <1>5, <1>6, <2>1
<1>10. UsesKnown'
  <2>1. ASSUME NEW s \in Times, truth'.uses[s] > 0 PROVE now - s < Window
    <3>1. (s = at /\ fresh) \/ truth'.uses[s] = truth.uses[s]
      BY <1>3, <1>4, <1>5
    <3> QED BY <2>1, <3>1 DEF LedgerParts, UsesKnown
  <2>2. ASSUME truth.seeded, NEW s \in Times PROVE truth'.uses[s] <= Began(minute', s)
    <3> DEFINE kept == Prune(minute, now)
    <3>1. /\ kept \in Seq(MinuteUse) /\ Began(kept, s) \in Nat /\ truth.uses[s] <= Began(kept, s)
      BY <1>2, <2>2, PrunedKnown
    <3>2. CASE ~fresh
      BY <1>1, <1>5, <3>1, <3>2
    <3>3. CASE fresh
      <4>1. minute' = Append(kept, e)
        BY <1>1, <3>3
      <4> HIDE DEF kept, e
      <4>2. Began(minute', s) = Began(kept, s) + IF at = s THEN 1 ELSE 0
        BY <1>2, <3>1, <4>1, AppendBegan
      <4>3. truth'.uses[s] = truth.uses[s] + IF at = s THEN 1 ELSE 0
        BY <1>3, <1>4, <1>5, <3>3
      <4>4. truth.uses[s] \in Nat
        BY <1>4
      <4> QED BY <3>1, <4>2, <4>3, <4>4
    <3> QED BY <3>2, <3>3
  <2> QED BY <1>1, <1>2, <1>5, <2>1, <2>2 DEF UsesKnown
<1>11. /\ \A p \in Periods : Reserved(p) = Reserved(p)' + (IF began(p) THEN est ELSE 0)
       /\ InWindow' = InWindow \ {r} /\ (r \in InWindow <=> fresh)
       /\ \A p \in Periods : Reserved(p)' \in Nat
       /\ IsFiniteSet(InWindow') /\ Cardinality(InWindow') \in Nat
  <2>1. /\ request' \in [Requests -> Request] /\ request'[r].stage # "active"
        /\ \A x \in Requests : x # r => request'[x] = request[x]
    BY <1>1, StageTypes DEF WindowInv, WindowTypes
  <2> QED BY <1>1, <2>1, ReservedLess
<1>12. RpmKept'
  <2> SUFFICES ASSUME Rpm > 0, truth.seeded
               PROVE  \/ Total(truth'.uses, Times) + Cardinality(InWindow') <= Rpm
                      \/ InWindow' = {} /\ \A s \in Times : truth'.uses[s] <= Began(Prior, s)
    BY <1>5 DEF RpmKept
  <2>1. /\ Total(truth.uses, Times) \in Nat /\ Rpm \in Nat /\ IsFiniteSet(Times)
        /\ IsFiniteSet(InWindow) /\ Cardinality(InWindow) \in Nat
    BY LedgerFacts
  <2>2. CASE Total(truth.uses, Times) + Cardinality(InWindow) <= Rpm
    <3>1. CASE fresh
      <4>1. truth.uses \in [Times -> Nat]
        BY <1>4
      <4>2. Total(truth'.uses, Times) = Total(truth.uses, Times) + 1
        <5>1. truth'.uses = [truth.uses EXCEPT ![at] = @ + 1]
          BY <1>5, <3>1
        <5> HIDE DEF at
        <5> QED BY <1>3, <2>1, <4>1, <5>1, TotalOneMore
      <4>3. Cardinality(InWindow') = Cardinality(InWindow) - 1
        BY <1>11, <2>1, <3>1, FS_RemoveElement
      <4> HIDE DEF fresh
      <4> QED BY <2>1, <2>2, <4>2, <4>3
    <3>2. CASE ~fresh
      <4>1. truth'.uses = truth.uses /\ InWindow' = InWindow
        BY <1>5, <1>11, <3>2
      <4> QED BY <2>2, <4>1
    <3> QED BY <3>1, <3>2
  <2>3. CASE InWindow = {} /\ \A s \in Times : truth.uses[s] <= Began(Prior, s)
    <3>1. ~fresh /\ InWindow' = {}
      BY <1>11, <2>3
    <3>2. truth'.uses = truth.uses
      BY <1>5, <3>1
    <3> QED BY <2>3, <3>1, <3>2
  <2> QED BY <2>2, <2>3 DEF LedgerParts, RpmKept
<1>13. BudgetHolds'
  <2> SUFFICES ASSUME truth.seeded, NEW p \in Periods, Budget[p] > 0
               PROVE  truth'.spend[p] + Reserved(p)' <= Budget[p] + truth'.over[p]
    BY <1>5 DEF BudgetHolds
  <2> DEFINE g == Reserved(p)
             h == Reserved(p)'
             s == truth.spend[p]
             o == truth.over[p]
             b == Budget[p]
  <2>1. s + g <= b + o
    BY DEF LedgerParts, BudgetHolds
  <2>2. g \in Nat /\ h \in Nat /\ s \in Nat /\ o \in Nat /\ b \in Nat
    BY <1>4, <1>11, LedgerFacts
  <2>3. g = h + (IF began(p) THEN est ELSE 0)
    BY <1>11
  <2>4. /\ truth'.spend[p] = s + (IF began(p) THEN cost ELSE 0)
        /\ truth'.over[p] = o + (IF began(p) THEN over ELSE 0)
    <3> HIDE DEF cost, over, began
    <3> QED BY <1>5, <2>2
  <2> HIDE DEF g, h, s, o, b, began, est, cost, over
  <2>5. truth'.spend[p] + h <= b + truth'.over[p]
    BY <1>2, <2>1, <2>2, <2>3, <2>4
  <2> QED BY <2>5 DEF h, b
<1> QED BY <1>7, <1>8, <1>9, <1>10, <1>12, <1>13 DEF LedgerParts

\* The three queries answered: the ledger knows what the log knew.
LEMMA SeedKeeps ==
  ASSUME WindowInv, LedgerParts, NEW r \in Requests,
         NEW ok \in SUBSET ({"minute"} \cup Periods), Seed(r, ok)
  PROVE  LedgerParts'
<1> DEFINE t == request[r].at
           full == ({"minute"} \cup Periods) \subseteq ok
           q == [Idle EXCEPT !.stage = "ready"]
<1>1. /\ request[r].stage = "seeding" /\ request' = [request EXCEPT ![r] = q]
      /\ minute' = Prune(IF "minute" \in ok THEN minute \o MinuteRows(t) ELSE minute, t)
      /\ period' = PeriodAt(t)
      /\ spend' = [p \in Periods |-> IF p \in ok THEN SpendRows(p, t) ELSE RolledSpend(t)[p]]
      /\ initialized' = TRUE /\ initLock' = Unknown /\ now' = now
      /\ truth' = [truth EXCEPT !.seeded = full]
  BY DEF Seed
<1>2. /\ t \in Nat /\ Start <= t /\ t <= now /\ ~initialized /\ minute = << >>
      /\ now \in Nat /\ Start \in Nat /\ Window \in Nat
  BY <1>1, LedgerFacts DEF WindowInv, SeededFirst, PastClocks
<1>3. q \in Request /\ q.stage = "ready"
  BY StageTypes
<1> HIDE DEF q, t
<1>4. /\ request' \in [Requests -> Request] /\ request'[r].stage # "active"
      /\ \A x \in Requests : x # r => request'[x] = request[x]
  BY <1>1, <1>3 DEF WindowInv, WindowTypes
<1>5. /\ \A p \in Periods : Reserved(p)' = Reserved(p)
      /\ InWindow' = InWindow
  BY <1>1, <1>4, ReservedSame
<1>6. /\ truth'.uses = truth.uses /\ truth'.spend = truth.spend /\ truth'.over = truth.over
      /\ truth'.seeded = full
      /\ truth' \in [uses : [Times -> Nat], spend : [Periods -> Nat], over : [Periods -> Nat],
                     seeded : BOOLEAN]
  <2>1. truth \in [uses : [Times -> Nat], spend : [Periods -> Nat], over : [Periods -> Nat],
                   seeded : BOOLEAN]
    BY DEF LedgerParts, LedgerTypes
  <2>2. full \in BOOLEAN
    OBVIOUS
  <2> HIDE DEF full
  <2> QED BY <1>1, <2>1, <2>2
<1>7. truth.seeded
  BY <1>2 DEF LedgerParts, SpendKnown
<1>8. \A p \in Periods : Key(p, t) \in Nat /\ Key(p, now) \in Nat /\ Key(p, t) <= Key(p, now)
  BY <1>2, KeyOrder
<1>9. LedgerTypes'
  <2>1. period' \in [Periods -> Nat \cup {-1}]
    BY <1>1, <1>8 DEF PeriodAt
  <2>2. \A p \in Periods : SpendRows(p, t) \in Nat /\ RolledSpend(t)[p] \in Nat
    <3>1. spend \in [Periods -> Nat]
      BY DEF LedgerParts, LedgerTypes
    <3> QED BY <1>2, <3>1, PriorSpend DEF RolledSpend
  <2>3. spend' \in [Periods -> Nat]
    BY <1>1, <2>2
  <2> QED BY <1>1, <1>6, <2>1, <2>3 DEF LedgerParts, LedgerTypes
<1>10. PeriodsPast'
  BY <1>1, <1>8 DEF PeriodsPast, PeriodAt
<1>11. SpendKnown'
  <2> SUFFICES ASSUME full, NEW p \in Periods
               PROVE  truth.spend[p] = RolledSpend(now)'[p]
    BY <1>1, <1>6 DEF SpendKnown
  <2>1. truth.spend[p] = SpendRows(p, now)
    BY <1>2 DEF LedgerParts, SpendKnown
  <2>2. RolledSpend(now)'[p] = IF Key(p, t) = Key(p, now) THEN SpendRows(p, t) ELSE 0
    BY <1>1 DEF RolledSpend, PeriodAt
  <2>3. CASE Key(p, t) = Key(p, now)
    BY <2>1, <2>2, <2>3, SamePeriod
  <2>4. CASE Key(p, t) # Key(p, now)
    <3>1. Key(p, Start) \in Nat /\ Key(p, Start) <= Key(p, t)
      BY <1>2, KeyOrder
    <3>2. Key(p, now) # Key(p, Start)
      BY <1>8, <2>4, <3>1
    <3>3. SpendRows(p, now) = 0
      BY <1>2, <3>2, PriorSpend
    <3> QED BY <2>1, <2>2, <2>4, <3>3
  <2> QED BY <2>3, <2>4
<1>12. UsesKnown'
  <2>1. ASSUME full, NEW s \in Times PROVE truth.uses[s] <= Began(minute', s)
    <3>1. minute' = Prune(MinuteRows(t), t) /\ MinuteRows(t) \in Seq(MinuteUse)
      <4>1. MinuteRows(t) \in Seq(MinuteUse)
        BY <1>2, MinuteRowsOrdered
      <4>2. minute \o MinuteRows(t) = MinuteRows(t)
        BY <1>2, <4>1, ConcatEmptySeq
      <4> QED BY <1>1, <2>1, <4>1, <4>2
    <3>2. s \in Nat /\ truth.uses[s] \in Nat
      BY LedgerFacts
    <3>3. Began(minute', s) \in Nat
      <4>1. minute' \in Seq(MinuteUse)
        BY <1>2, <3>1, PruneDropsPrefix
      <4> QED BY <4>1, LenProperties, BeganType
    <3>4. CASE truth.uses[s] > 0
      <4>1. now - s < Window /\ t - s < Window
        BY <1>2, <3>2, <3>4 DEF LedgerParts, UsesKnown
      <4>2. Began(minute', s) = Began(MinuteRows(t), s)
        BY <1>2, <3>1, <3>2, <4>1, PruneBegan
      <4>3. Began(MinuteRows(t), s) = Began(Prior, s)
        BY <1>2, <3>2, <4>1, MinuteRowsBegan
      <4> QED BY <1>2, <4>2, <4>3 DEF LedgerParts, UsesKnown
    <3>5. CASE ~ (truth.uses[s] > 0)
      BY <3>2, <3>3, <3>5
    <3> QED BY <3>4, <3>5
  <2> QED BY <1>1, <1>6, <2>1 DEF LedgerParts, UsesKnown
<1>13. RpmKept'
  BY <1>5, <1>6, <1>7 DEF LedgerParts, RpmKept
<1>14. BudgetHolds'
  BY <1>5, <1>6, <1>7 DEF LedgerParts, BudgetHolds
<1> QED BY <1>9, <1>10, <1>11, <1>12, <1>13, <1>14 DEF LedgerParts

\* A tick: what leaves the window or the period leaves the history too.
LEMMA TickKeeps ==
  ASSUME WindowInv, LedgerParts, Tick
  PROVE  LedgerParts'
<1>1. /\ now < MaxTime /\ now' = now + 1
      /\ UNCHANGED <<initialized, initLock, ledger, request>>
      /\ truth' = [truth EXCEPT
           !.uses  = [s \in Times |-> IF now' - s < Window THEN @[s] ELSE 0],
           !.spend = [p \in Periods |-> IF Key(p, now') = Key(p, now) THEN @[p] ELSE 0],
           !.over  = [p \in Periods |-> IF Key(p, now') = Key(p, now) THEN @[p] ELSE 0]]
  BY DEF Tick
<1>2. /\ now \in Nat /\ now' \in Nat /\ now <= now' /\ now' \in Times
      /\ Start \in Nat /\ Start <= now /\ Window \in Nat /\ \A s \in Times : s \in Nat
  BY <1>1, LedgerFacts DEF Times
<1> DEFINE uses == [s \in Times |-> IF now' - s < Window THEN truth.uses[s] ELSE 0]
           spent == [p \in Periods |-> IF Key(p, now') = Key(p, now) THEN truth.spend[p] ELSE 0]
           overs == [p \in Periods |-> IF Key(p, now') = Key(p, now) THEN truth.over[p] ELSE 0]
<1>3. truth \in [uses : [Times -> Nat], spend : [Periods -> Nat], over : [Periods -> Nat],
                 seeded : BOOLEAN]
  BY DEF LedgerParts, LedgerTypes
<1>4. uses \in [Times -> Nat] /\ spent \in [Periods -> Nat] /\ overs \in [Periods -> Nat]
  BY <1>3
<1>5. truth' = [truth EXCEPT !.uses = uses, !.spend = spent, !.over = overs]
  BY <1>1
<1>6. /\ \A s \in Times : uses[s] = IF now' - s < Window THEN truth.uses[s] ELSE 0
      /\ \A p \in Periods : Key(p, now') = Key(p, now) =>
           spent[p] = truth.spend[p] /\ overs[p] = truth.over[p]
      /\ \A p \in Periods : Key(p, now') # Key(p, now) => spent[p] = 0 /\ overs[p] = 0
  OBVIOUS
<1> HIDE DEF uses, spent, overs
<1>7. /\ truth'.uses = uses /\ truth'.spend = spent /\ truth'.over = overs
      /\ truth'.seeded = truth.seeded
      /\ truth' \in [uses : [Times -> Nat], spend : [Periods -> Nat], over : [Periods -> Nat],
                     seeded : BOOLEAN]
  BY <1>3, <1>4, <1>5
<1>8. \A p \in Periods : /\ Key(p, now) \in Nat /\ Key(p, now') \in Nat
                         /\ Key(p, now) <= Key(p, now')
  BY <1>2, KeyOrder
<1>9. \A s \in Times : uses[s] \in Nat /\ truth.uses[s] \in Nat /\ uses[s] <= truth.uses[s]
  BY <1>3, <1>6
<1>10. LedgerTypes'
  BY <1>1, <1>2, <1>7 DEF LedgerParts, LedgerTypes, ledger
<1>11. PeriodsPast'
  <2>1. \A p \in Periods : period[p] <= Key(p, now) /\ period[p] \in Int
    BY DEF LedgerParts, PeriodsPast, LedgerTypes
  <2>2. period' = period
    BY <1>1 DEF ledger
  <2> QED BY <1>8, <2>1, <2>2 DEF PeriodsPast
<1>12. SpendKnown'
  <2>1. ASSUME ~initialized, NEW p \in Periods PROVE spent[p] = SpendRows(p, now')
    <3>1. truth.spend[p] = SpendRows(p, now)
      BY <2>1 DEF LedgerParts, SpendKnown
    <3>2. CASE Key(p, now') = Key(p, now)
      BY <1>6, <3>1, <3>2, SamePeriod
    <3>3. CASE Key(p, now') # Key(p, now)
      <4>1. Key(p, Start) \in Nat /\ Key(p, Start) <= Key(p, now)
        BY <1>2, KeyOrder
      <4>2. Key(p, now') # Key(p, Start) /\ Start <= now'
        BY <1>2, <1>8, <3>3, <4>1
      <4> QED BY <1>2, <1>6, <3>3, <4>2, PriorSpend
    <3> QED BY <3>2, <3>3
  <2>2. ASSUME initialized, truth.seeded, NEW p \in Periods
        PROVE  spent[p] = RolledSpend(now)'[p]
    <3>1. truth.spend[p] = RolledSpend(now)[p]
      BY <2>2 DEF LedgerParts, SpendKnown
    <3>2. RolledSpend(now)'[p] = IF period[p] = Key(p, now') THEN spend[p] ELSE 0
      BY <1>1 DEF RolledSpend, ledger
    <3>3. CASE Key(p, now') = Key(p, now)
      BY <1>6, <3>1, <3>2, <3>3 DEF RolledSpend
    <3>4. CASE Key(p, now') # Key(p, now)
      <4>1. period[p] <= Key(p, now) /\ period[p] \in Int
        BY DEF LedgerParts, PeriodsPast, LedgerTypes
      <4>2. period[p] # Key(p, now')
        BY <1>8, <3>4, <4>1
      <4> QED BY <1>6, <3>2, <3>4, <4>2
    <3> QED BY <3>3, <3>4
  <2>3. initialized' = initialized /\ (~initialized => truth.seeded)
    BY <1>1 DEF LedgerParts, SpendKnown
  <2> QED BY <1>7, <2>1, <2>2, <2>3 DEF SpendKnown
<1>13. UsesKnown'
  <2>1. \A s \in Times : uses[s] > 0 => now' - s < Window
    BY <1>6
  <2>2. /\ ~initialized => \A s \in Times : truth.uses[s] <= Began(Prior, s)
        /\ initialized /\ truth.seeded => \A s \in Times : truth.uses[s] <= Began(minute, s)
    BY DEF LedgerParts, UsesKnown
  <2>3. \A s \in Times : Began(Prior, s) \in Nat /\ Began(minute, s) \in Nat
    <3>1. Len(Prior) \in Nat /\ Len(minute) \in Nat
      BY LedgerFacts, ConstantsAssumption, LenProperties
    <3> QED BY <3>1, BeganType
  <2>4. /\ ~initialized => \A s \in Times : uses[s] <= Began(Prior, s)
        /\ initialized /\ truth.seeded => \A s \in Times : uses[s] <= Began(minute, s)
    BY <1>9, <2>2, <2>3
  <2>5. initialized' = initialized /\ minute' = minute
    BY <1>1 DEF ledger
  <2> QED BY <1>7, <2>1, <2>4, <2>5 DEF UsesKnown
<1>14. RpmKept'
  <2> SUFFICES ASSUME Rpm > 0, truth.seeded
               PROVE  \/ Total(uses, Times) + Cardinality(InWindow') <= Rpm
                      \/ InWindow' = {} /\ \A s \in Times : uses[s] <= Began(Prior, s)
    BY <1>7 DEF RpmKept
  <2>1. /\ Total(truth.uses, Times) \in Nat /\ Rpm \in Nat /\ IsFiniteSet(Times)
        /\ IsFiniteSet(InWindow) /\ Cardinality(InWindow) \in Nat
        /\ \A r \in Requests : request[r].at \in Nat
    BY LedgerFacts
  <2>2. InWindow' \subseteq InWindow
    <3>1. InWindow' = {r \in Active : now' - request[r].at < Window}
      BY <1>1 DEF InWindow, Active
    <3>2. \A r \in Active : r \in Requests /\ request[r].at \in Nat
      BY <2>1 DEF Active
    <3> QED BY <1>1, <1>2, <3>1, <3>2 DEF InWindow
  <2>3. Cardinality(InWindow') <= Cardinality(InWindow) /\ Cardinality(InWindow') \in Nat
    BY <2>1, <2>2, FS_Subset, FS_CardinalityType
  <2>4. Total(uses, Times) <= Total(truth.uses, Times) /\ Total(uses, Times) \in Nat
    BY <1>9, <2>1, TotalMonotone, TotalType
  <2>5. CASE Total(truth.uses, Times) + Cardinality(InWindow) <= Rpm
    BY <2>1, <2>3, <2>4, <2>5
  <2>6. CASE InWindow = {} /\ \A s \in Times : truth.uses[s] <= Began(Prior, s)
    <3>1. \A s \in Times : Began(Prior, s) \in Nat
      BY ConstantsAssumption, LenProperties, BeganType
    <3> QED BY <1>9, <2>2, <2>6, <3>1
  <2> QED BY <2>5, <2>6 DEF LedgerParts, RpmKept
<1>15. BudgetHolds'
  <2> SUFFICES ASSUME truth.seeded, NEW p \in Periods, Budget[p] > 0
               PROVE  spent[p] + Reserved(p)' <= Budget[p] + overs[p]
    BY <1>7 DEF BudgetHolds
  <2>1. Reserved(p)' = Held(request, now', p)
    BY <1>1 DEF Reserved, Held, Active
  <2>2. CASE Key(p, now') = Key(p, now)
    <3>1. Reserved(p)' = Reserved(p)
      BY <2>1, <2>2, SamePeriod, HeldIs
    <3> QED BY <1>6, <2>2, <3>1 DEF LedgerParts, BudgetHolds
  <2>3. CASE Key(p, now') # Key(p, now)
    <3> DEFINE S == {r \in {o \in Requests : request[o].stage = "active"} :
                       Key(p, request[r].at) = Key(p, now')}
    <3>1. S = {}
      <4> SUFFICES ASSUME NEW r \in Requests, request[r].stage = "active",
                          Key(p, request[r].at) = Key(p, now')
                   PROVE  FALSE
        OBVIOUS
      <4>1. request[r].at \in Nat /\ request[r].at <= now
        BY LedgerFacts DEF WindowInv, PastClocks
      <4>2. Key(p, request[r].at) <= Key(p, now)
        BY <1>2, <4>1, KeyOrder
      <4> QED BY <1>8, <2>3, <4>2
    <3>2. Reserved(p)' = Total([r \in Requests |-> Amount(request[r].cost)], S)
      BY <2>1 DEF Held
    <3> HIDE DEF S
    <3>3. Reserved(p)' = 0
      <4>1. \A w : Total(w, {}) = 0
        BY FS_EmptySet, TotalStep
      <4> QED BY <3>1, <3>2, <4>1
    <3>4. Budget[p] \in Nat
      BY LedgerFacts
    <3> QED BY <1>6, <2>3, <3>3, <3>4
  <2> QED BY <2>2, <2>3
<1> QED BY <1>10, <1>11, <1>12, <1>13, <1>14, <1>15 DEF LedgerParts

LEMMA LedgerPartsNext == WindowInv /\ LedgerParts /\ [Next]_vars => LedgerParts'
<1> SUFFICES ASSUME WindowInv, LedgerParts, [Next]_vars PROVE LedgerParts'
  OBVIOUS
<1>1. CASE UNCHANGED vars
  <2>1. UNCHANGED <<now, initialized, initLock, minute, period, spend, request, truth>>
    BY <1>1 DEF vars, ledger
  <2> QED BY <2>1 DEF LedgerParts, LedgerTypes, PeriodsPast, SpendKnown, UsesKnown, RpmKept,
          BudgetHolds, RolledSpend, InWindow, Active, Reserved
<1>2. CASE Tick
  BY <1>2, TickKeeps
<1>3. ASSUME NEW r \in Requests, Arrive(r) \/ DropWaiting(r) \/ Answer(r) PROVE LedgerParts'
  <2>1. initLock \in Requests \cup {Unknown}
    BY DEF LedgerParts, LedgerTypes
  <2>2. CASE Arrive(r)
    BY <2>1, <2>2, StageTypes, QuietMove DEF Arrive
  <2>3. CASE DropWaiting(r)
    BY <2>1, <2>3, StageTypes, QuietMove DEF DropWaiting
  <2>4. CASE Answer(r)
    BY <2>1, <2>4, StageTypes, QuietMove DEF Answer
  <2> QED BY <1>3, <2>2, <2>3, <2>4
<1>4. ASSUME NEW r \in Requests, LockInit(r) PROVE LedgerParts'
  <2>1. initLock \in Requests \cup {Unknown} /\ now \in Nat
    BY LedgerFacts DEF LedgerParts, LedgerTypes
  <2> DEFINE q == IF initialized THEN [Idle EXCEPT !.stage = "ready"]
                  ELSE [Idle EXCEPT !.stage = "seeding", !.at = now]
  <2>2. q \in Request /\ q.stage # "active"
    BY <2>1, StageTypes
  <2>3. /\ request' = [request EXCEPT ![r] = q] /\ request[r].stage # "active"
        /\ initLock' \in Requests \cup {Unknown}
        /\ UNCHANGED <<now, initialized, ledger, truth>>
    BY <1>4, <2>1 DEF LockInit
  <2> HIDE DEF q
  <2> QED BY <2>2, <2>3, QuietMove
<1>5. ASSUME NEW r \in Requests, NEW ok \in SUBSET ({"minute"} \cup Periods), Seed(r, ok)
      PROVE  LedgerParts'
  BY <1>5, SeedKeeps
<1>6. ASSUME NEW r \in Requests, CheckCurrent(r) PROVE LedgerParts'
  BY <1>6, StageTypes, RefreshMove DEF CheckCurrent
<1>7. ASSUME NEW r \in Requests, NEW e \in Estimates, Reserve(r, e) PROVE LedgerParts'
  <2>1. CASE Exceeds(e)
    BY <1>7, <2>1, StageTypes, RefreshMove DEF Reserve
  <2>2. CASE ~Exceeds(e)
    BY <1>7, <2>2, AdmitKeeps
  <2> QED BY <2>1, <2>2
<1>8. ASSUME NEW r \in Requests, NEW u \in Actuals, Reconcile(r, u) PROVE LedgerParts'
  BY <1>8, ReconcileKeeps
<1>9. ASSUME NEW r \in Requests, Cancel(r) PROVE LedgerParts'
  BY <1>9, CancelKeeps
<1> QED BY <1>1, <1>2, <1>3, <1>4, <1>5, <1>6, <1>7, <1>8, <1>9
        DEF Next, Initialize, Settle, Admit

LEMMA InitLedgerParts == Init /\ WindowInv => LedgerParts
<1> SUFFICES ASSUME Init, WindowInv PROVE LedgerParts
  OBVIOUS
<1> DEFINE uses == [s \in Times |-> IF Start - s < Window THEN Began(Prior, s) ELSE 0]
           spent == [p \in Periods |-> SpendRows(p, Start)]
           overs == [p \in Periods |-> IF SpendRows(p, Start) > Budget[p]
                                       THEN SpendRows(p, Start) - Budget[p] ELSE 0]
<1>1. /\ now = Start /\ ~initialized /\ initialized \in BOOLEAN
      /\ initLock = Unknown /\ minute = << >>
      /\ period = [p \in Periods |-> -1] /\ spend = [p \in Periods |-> 0]
      /\ request = [r \in Requests |-> Idle]
      /\ truth = [uses |-> uses, spend |-> spent, over |-> overs, seeded |-> TRUE]
  BY DEF Init
<1>2. /\ Start \in Nat /\ MaxTime \in Nat /\ Start <= MaxTime /\ Window \in Nat /\ Rpm \in Nat
      /\ Budget \in [Periods -> Nat]
      /\ IsFiniteSet(Requests)
  BY ConstantsAssumption
<1>3. /\ \A s \in Times : s \in Nat /\ Began(Prior, s) \in Nat
      /\ Start \in Times
  <2>1. Len(Prior) \in Nat
    BY ConstantsAssumption, LenProperties
  <2> QED BY <1>2, <2>1, BeganType DEF Times
<1>4. \A p \in Periods : SpendRows(p, Start) \in Nat /\ Key(p, Start) \in Nat
  BY <1>2, PriorSpend, KeyOrder
<1>5. uses \in [Times -> Nat] /\ spent \in [Periods -> Nat]
  BY <1>3, <1>4
<1>6. overs \in [Periods -> Nat]
  <2>1. \A p \in Periods : overs[p] \in Nat
    BY <1>2, <1>4
  <2> QED BY <2>1
<1>7. /\ truth.uses = uses /\ truth.spend = spent /\ truth.over = overs /\ truth.seeded
      /\ truth \in [uses : [Times -> Nat], spend : [Periods -> Nat], over : [Periods -> Nat],
                    seeded : BOOLEAN]
  <2> HIDE DEF uses, spent, overs
  <2> QED BY <1>1, <1>5, <1>6
<1>8. LedgerTypes
  BY <1>1, <1>3, <1>7 DEF LedgerTypes
<1>9. PeriodsPast
  BY <1>1, <1>4 DEF PeriodsPast
<1>10. SpendKnown
  BY <1>1, <1>7 DEF SpendKnown
<1>11. \A s \in Times : uses[s] <= Began(Prior, s)
  BY <1>3
<1>12. UsesKnown
  BY <1>1, <1>7, <1>11 DEF UsesKnown
<1>13. InWindow = {} /\ \A p \in Periods : Reserved(p) = 0
  <2>1. Active = {}
    BY <1>1, StageTypes DEF Active
  <2>2. \A w : Total(w, {}) = 0
    BY FS_EmptySet, TotalStep
  <2>3. \A p \in Periods : {r \in Active : Key(p, request[r].at) = Key(p, now)} = {}
    BY <2>1
  <2> QED BY <2>1, <2>2, <2>3 DEF InWindow, Reserved
<1>14. RpmKept
  BY <1>7, <1>11, <1>13 DEF RpmKept
<1>15. BudgetHolds
  <2> SUFFICES ASSUME NEW p \in Periods, Budget[p] > 0
               PROVE  spent[p] + 0 <= Budget[p] + overs[p]
    BY <1>7, <1>13 DEF BudgetHolds
  <2> QED BY <1>2, <1>4
<1> QED BY <1>8, <1>9, <1>10, <1>12, <1>14, <1>15 DEF LedgerParts

\* The window's limit, put in terms of what was used.
LEMMA RpmFollows ==
  ASSUME WindowInv, LedgerParts
  PROVE  RpmHolds
<1> SUFFICES ASSUME Rpm > 0, truth.seeded, InWindow = {},
                    \A s \in Times : truth.uses[s] <= Began(Prior, s)
             PROVE  Total(truth.uses, Times)
                      <= Cardinality({i \in 1..Len(Prior) : now - Prior[i].at < Window})
  BY DEF LedgerParts, RpmKept, RpmHolds
<1> DEFINE n == Len(Prior)
           at == [i \in 1..n |-> Prior[i].at]
           I == {i \in 1..n : now - Prior[i].at < Window}
<1>1. /\ IsFiniteSet(Times) /\ \A s \in Times : truth.uses[s] \in Nat
      /\ n \in Nat
  BY LedgerFacts, ConstantsAssumption, LenProperties
<1>2. IsFiniteSet(I) /\ Cardinality(I) \in Nat
  <2>1. I \subseteq 1..n /\ IsFiniteSet(1..n)
    BY <1>1, CountUpTo
  <2> QED BY <2>1, FS_Subset, FS_CardinalityType
<1>3. ASSUME NEW s \in Times PROVE truth.uses[s] <= Cardinality(Into(I, at, {s}))
  <2>1. CASE truth.uses[s] > 0
    <3>1. now - s < Window
      BY <2>1 DEF LedgerParts, UsesKnown
    <3>2. Into(I, at, {s}) = {i \in 1..n : Prior[i].at = s}
      BY <3>1 DEF Into
    <3> QED BY <3>2 DEF Began
  <2>2. CASE ~ (truth.uses[s] > 0)
    <3>1. Into(I, at, {s}) \subseteq I
      BY DEF Into
    <3> HIDE DEF I
    <3>2. Cardinality(Into(I, at, {s})) \in Nat
      BY <1>2, <3>1, FS_Subset, FS_CardinalityType
    <3> QED BY <1>1, <2>2, <3>2
  <2> QED BY <2>1, <2>2
<1>4. Into(I, at, Times) \subseteq I
  BY DEF Into
<1> HIDE DEF I, at
<1>5. Total(truth.uses, Times) <= Cardinality(Into(I, at, Times))
  <2>1. \A s \in Times : truth.uses[s] \in Nat /\ truth.uses[s] <= Cardinality(Into(I, at, {s}))
    BY <1>1, <1>3
  <2> QED BY <1>1, <1>2, <2>1, TotalOfCounts
<1>6. /\ Cardinality(Into(I, at, Times)) <= Cardinality(I)
      /\ Cardinality(Into(I, at, Times)) \in Nat
  BY <1>2, <1>4, FS_Subset, FS_CardinalityType
<1>7. Total(truth.uses, Times) \in Nat
  BY LedgerFacts
<1>8. Total(truth.uses, Times) <= Cardinality(I)
  BY <1>2, <1>5, <1>6, <1>7
<1> QED BY <1>8 DEF I

LEMMA LedgerFollows == WindowInv /\ LedgerParts => LedgerIsTrue
<1> SUFFICES ASSUME WindowInv, LedgerParts PROVE LedgerIsTrue
  OBVIOUS
<1>1. TypeOK
  BY DEF TypeOK, WindowInv, WindowTypes, PastClocks, LedgerParts, LedgerTypes
<1>2. SpendIsExact
  <2> SUFFICES ASSUME initialized, truth.seeded, NEW p \in Periods, period[p] = Key(p, now)
               PROVE  spend[p] = truth.spend[p]
    BY DEF SpendIsExact
  <2> QED BY DEF LedgerParts, SpendKnown, RolledSpend
<1> QED BY <1>1, <1>2, RpmFollows DEF LedgerIsTrue, LedgerParts

\* However many requests seed, reserve, settle and cancel in whatever order, and whatever
\* the key spent before: its reservations and spend stay within the budgets up to what
\* costs exceeded their estimates, no more requests begin in a window than the limit
\* allows, and the ledger's spend is the true spend (ensure_initialized, reserve,
\* reconcile, cancel).
THEOREM LedgerAlwaysTrue == Spec => []LedgerIsTrue
<1>1. Init => WindowInv /\ LedgerParts
  BY InitWindowInv, InitLedgerParts
<1>2. WindowInv /\ LedgerParts /\ [Next]_vars => (WindowInv /\ LedgerParts)'
  BY WindowInvNext, LedgerPartsNext
<1> QED BY <1>1, <1>2, LedgerFollows, PTL DEF Spec

-----------------------------------------------------------------------------
(* Telemetry. *)

\* SumFunctionOnSet is MapThenSumSet of a function's values.
LEMMA SumIsTotal == \A w, S : SumFunctionOnSet(w, S) = Total(w, S)
BY DEF SumFunctionOnSet, FoldFunctionOnSet, Total, MapThenSumSet

\* Two disjoint finite sets.
LEMMA CountBoth ==
  ASSUME NEW A, NEW B, IsFiniteSet(A), IsFiniteSet(B), A \cap B = {}
  PROVE  Cardinality(A \cup B) = Cardinality(A) + Cardinality(B)
<1> DEFINE m == Cardinality(A)
           n == Cardinality(B)
<1>1. Cardinality(A \cup B) = m + n - Cardinality(A \cap B)
  BY FS_Union
<1>2. Cardinality(A \cap B) = 0 /\ m \in Nat /\ n \in Nat
  BY FS_EmptySet, FS_CardinalityType
<1> HIDE DEF m, n
<1>3. Cardinality(A \cup B) = m + n
  BY <1>1, <1>2
<1> QED BY <1>3 DEF m, n

\* Counted at each value they can have, no fewer are counted than there are.
LEMMA TotalOfAll ==
  ASSUME NEW I, IsFiniteSet(I), NEW a, NEW U, IsFiniteSet(U), NEW w,
         \A x \in U : w[x] \in Nat /\ Cardinality(Into(I, a, {x})) <= w[x]
  PROVE  \A S \in SUBSET U : Cardinality(Into(I, a, S)) <= Total(w, S)
<1> DEFINE P == {S \in SUBSET U : Cardinality(Into(I, a, S)) <= Total(w, S)}
<1>0. \A S : IsFiniteSet(Into(I, a, S)) /\ Cardinality(Into(I, a, S)) \in Nat
  <2>1. \A S : Into(I, a, S) \in SUBSET I
    BY DEF Into
  <2> QED BY <2>1, FS_Subset, FS_CardinalityType
<1>1. {} \in P
  <2>1. Total(w, {}) = 0
    BY FS_EmptySet, TotalStep
  <2>2. Into(I, a, {}) = {}
    BY DEF Into
  <2> QED BY <2>1, <2>2, FS_EmptySet
<1>2. ASSUME NEW S \in SUBSET U, NEW x \in U \ S, IsFiniteSet(S), S \in P
      PROVE  S \cup {x} \in P
  <2>1. (S \cup {x}) \ {x} = S /\ S \cup {x} \in SUBSET U
    OBVIOUS
  <2>2. Total(w, S \cup {x}) = w[x] + Total(w, S)
    <3>1. \A y \in U : w[y] \in Nat
      OBVIOUS
    <3> QED BY <2>1, <3>1, TotalSplit
  <2>3. /\ Into(I, a, S \cup {x}) = Into(I, a, {x}) \cup Into(I, a, S)
        /\ Into(I, a, {x}) \cap Into(I, a, S) = {}
    BY DEF Into
  <2>4. Cardinality(Into(I, a, S \cup {x})) = Cardinality(Into(I, a, {x})) + Cardinality(Into(I, a, S))
    BY <1>0, <2>3, CountBoth
  <2>5. Cardinality(Into(I, a, S)) <= Total(w, S)
    BY <1>2
  <2>6. Total(w, S) \in Nat /\ w[x] \in Nat /\ Cardinality(Into(I, a, {x})) <= w[x]
    BY TotalType
  <2> QED BY <1>0, <2>1, <2>2, <2>4, <2>5, <2>6
<1> HIDE DEF P
<1>3. \A S \in SUBSET U : S \in P
  <2>1. \A S \in SUBSET U : IsFiniteSet(S)
    BY FS_Subset
  <2>2. \A S \in SUBSET U : \A x \in U \ S : IsFiniteSet(S) /\ S \in P => S \cup {x} \in P
    BY <1>2
  <2> QED BY <1>1, <2>1, <2>2, SetInduction
<1> QED BY <1>3 DEF P

\* How many of a sequence are in S.
Many(q, S) == Cardinality(Into(1..Len(q), q, S))

LEMMA ManyType ==
  ASSUME NEW T, NEW q \in Seq(T)
  PROVE  \A S : /\ IsFiniteSet(Into(1..Len(q), q, S)) /\ Many(q, S) \in Nat
                /\ Into(1..Len(q), q, S) \subseteq 1..Len(q)
                /\ (\E i \in 1..Len(q) : q[i] \in S) => Many(q, S) # 0
<1>1. Len(q) \in Nat /\ IsFiniteSet(1..Len(q))
  BY LenProperties, CountUpTo
<1>2. \A S : Into(1..Len(q), q, S) \in SUBSET (1..Len(q))
  BY DEF Into
<1>3. \A S : IsFiniteSet(Into(1..Len(q), q, S)) /\ Cardinality(Into(1..Len(q), q, S)) \in Nat
  BY <1>1, <1>2, FS_Subset, FS_CardinalityType
<1>4. \A S : (\E i \in 1..Len(q) : q[i] \in S) => Into(1..Len(q), q, S) # {}
  BY DEF Into
<1>5. \A S : (\E i \in 1..Len(q) : q[i] \in S) => Many(q, S) # 0
  BY <1>3, <1>4, FS_EmptySet DEF Many
<1> QED BY <1>2, <1>3, <1>5 DEF Many

LEMMA ManyOfNone == \A S : Many(<< >>, S) = 0
<1>1. \A S : Into(1..Len(<< >>), << >>, S) = {}
  BY DEF Into
<1> QED BY <1>1, FS_EmptySet DEF Many

LEMMA ManyOfOne ==
  ASSUME NEW e, NEW S
  PROVE  Many(<<e>>, S) = IF e \in S THEN 1 ELSE 0
<1>1. Into(1..Len(<<e>>), <<e>>, S) = IF e \in S THEN {1} ELSE {}
  BY DEF Into
<1> QED BY <1>1, FS_EmptySet, FS_Singleton DEF Many

LEMMA ManyOfBoth ==
  ASSUME NEW T, NEW q \in Seq(T), NEW r \in Seq(T), NEW S
  PROVE  Many(q \o r, S) = Many(q, S) + Many(r, S)
<1> DEFINE n == Len(q)
           m == Len(r)
           both == q \o r
           A == Into(1..n, q, S)
           R == Into(1..m, r, S)
           B == {j \in (n+1)..(n+m) : r[j - n] \in S}
<1>1. n \in Nat /\ m \in Nat /\ Len(both) = n + m
  BY ConcatProperties, LenProperties
<1>2. \A i \in 1..(n+m) : both[i] = IF i <= n THEN q[i] ELSE r[i - n]
  BY ConcatProperties
<1>3. IsFiniteSet(A) /\ IsFiniteSet(R)
  BY ManyType
<1>c. Many(q, S) = Cardinality(A) /\ Many(r, S) = Cardinality(R)
      /\ Many(both, S) = Cardinality(Into(1..Len(both), both, S))
  BY DEF Many
<1> HIDE DEF n, m, both
<1>4. Into(1..Len(both), both, S) = A \cup B /\ A \cap B = {}
  BY <1>1, <1>2 DEF Into
<1>5. IsFiniteSet(B) /\ Cardinality(B) = Cardinality(R)
  <2> DEFINE f == [i \in R |-> n + i]
  <2>1. f \in [R -> B]
    BY <1>1 DEF Into
  <2>2. \A a, b \in R : f[a] = f[b] => a = b
    BY <1>1 DEF Into
  <2>3. ASSUME NEW t \in B PROVE \E s \in R : f[s] = t
    <3>1. t - n \in R /\ f[t - n] = t
      BY <1>1 DEF Into
    <3> QED BY <3>1
  <2>4. f \in Bijection(R, B)
    BY <2>1, <2>2, <2>3, Fun_IsBij
  <2>5. ExistsBijection(R, B)
    BY <2>4 DEF ExistsBijection
  <2> QED BY <1>3, <2>5, FS_Bijection
<1> HIDE DEF A, B, R
<1>6. Cardinality(A \cup B) = Cardinality(A) + Cardinality(R)
  BY <1>3, <1>4, <1>5, CountBoth
<1> QED BY <1>c, <1>4, <1>6 DEF both

\* The events behind a row, and what a row says that counts them all.
Events == [s : Signals, at : Nat]
Rows == Nat \X AllScopes
RowsOf(e) == {<<e.at, scope>> : scope \in Scopes(e.s)}
Behind(k, Y) == {e \in Events : e.s \in Y /\ k \in RowsOf(e)}
Tried == {s \in Signals : s.attempted}
Ending(o) == {s \in Signals : s.outcome = o}
Lasting(i) == {s \in Signals : s.ms # Unmeasured /\ HistBucket(s.ms) = i}
Tally(q, k) ==
  [attempts |-> Many(q, Behind(k, Tried)),
   by |-> [o \in Outcomes |-> Many(q, Behind(k, Ending(o)))],
   hist |-> [i \in DOMAIN Steps |-> Many(q, Behind(k, Lasting(i)))]]

LEMMA NoRow == \A k : Of(Empty, k) = Zero
BY DEF Of, Empty

LEMMA TallyOfNone == \A k : Tally(<< >>, k) = Zero
BY ManyOfNone DEF Tally, Zero

LEMMA TallyOfBoth ==
  ASSUME NEW q \in Seq(Events), NEW r \in Seq(Events), NEW k
  PROVE  Tally(q \o r, k) = Plus(Tally(q, k), Tally(r, k))
<1>1. \A S : Many(q \o r, S) = Many(q, S) + Many(r, S)
  BY ManyOfBoth
<1> QED BY <1>1 DEF Tally, Plus

\* What is added to a row is added to what it says, also when there is no row yet.
LEMMA OfAdded == \A f, g, k : Of(Added(f, g), k) = Plus(Of(f, k), Of(g, k))
<1> SUFFICES ASSUME NEW f, NEW g, NEW k
             PROVE  Of(Added(f, g), k) = Plus(Of(f, k), Of(g, k))
  OBVIOUS
<1>1. CASE k \in DOMAIN f \cup DOMAIN g
  BY <1>1 DEF Of, Added
<1>2. CASE k \notin DOMAIN f \cup DOMAIN g
  <2>1. Plus(Zero, Zero) = Zero
    BY DEF Plus, Zero
  <2> QED BY <1>2, <2>1 DEF Of, Added
<1> QED BY <1>1, <1>2

\* A duration has a bucket: the first bound that is not below it, or the last one.
LEMMA HistBucketIs ==
  ASSUME NEW ms \in Nat
  PROVE  /\ HistBucket(ms) \in DOMAIN Steps
         /\ \A i \in DOMAIN Steps : HistBucket(ms) <= i <=> ms <= Steps[i] \/ i = Len(Steps)
<1> DEFINE n == Len(Steps)
           fits == {i \in DOMAIN Steps : ms <= Steps[i]} \cup {n}
           b == HistBucket(ms)
<1>1. n \in Nat \ {0} /\ DOMAIN Steps = 1..n /\ \A i \in 1..n : Steps[i] \in Nat
  BY TelemetryBounds, LenProperties
<1>2. \A i, j \in 1..n : i < j => Steps[i] < Steps[j]
  BY TelemetryBounds
<1>3. b = CHOOSE x \in fits : \A y \in fits : x <= y
  BY DEF HistBucket, Min
<1> HIDE DEF n, b
<1>4. PICK x \in fits : \A y \in fits : x <= y
  <2>1. fits \subseteq Nat /\ fits # {}
    BY <1>1
  <2> HIDE DEF fits
  <2> QED BY <2>1, LeastOf
<1>5. b \in fits /\ \A y \in fits : b <= y
  <2> HIDE DEF fits
  <2> QED BY <1>3, <1>4
<1>6. b \in 1..n
  BY <1>1, <1>5
<1>7. ASSUME NEW i \in 1..n PROVE b <= i <=> ms <= Steps[i] \/ i = n
  <2>1. ASSUME ms <= Steps[i] \/ i = n PROVE b <= i
    <3>1. i \in fits
      BY <1>1, <2>1
    <3> QED BY <1>5, <3>1
  <2>2. ASSUME b <= i, i # n PROVE ms <= Steps[i]
    <3>1. b # n /\ ms <= Steps[b]
      BY <1>1, <1>5, <1>6, <2>2
    <3>2. b = i \/ Steps[b] < Steps[i]
      BY <1>2, <1>6, <2>2
    <3> QED BY <1>1, <1>6, <3>1, <3>2
  <2> QED BY <2>1, <2>2
<1> QED BY <1>1, <1>6, <1>7 DEF b, n

\* What the signals say.
LEMMA SignalTypes ==
  ASSUME NEW s \in Signals
  PROVE  /\ s.attempted \in BOOLEAN /\ s.outcome \in Outcomes
         /\ s.ms # Unmeasured => s.ms \in Nat /\ HistBucket(s.ms) \in DOMAIN Steps
         /\ Scopes(s) \subseteq AllScopes
<1>1. s.attempted \in BOOLEAN /\ s.ms \in Nat \cup {Unmeasured}
  BY TelemetryBounds
<1>2. s.outcome \in Outcomes
  BY DEF Outcomes
<1>3. Scopes(s) \subseteq AllScopes
  BY DEF AllScopes
<1> QED BY <1>1, <1>2, <1>3, HistBucketIs

\* add_event adds one event to the rows of its scopes, and to no other.
LEMMA TallyOfOne ==
  ASSUME NEW e \in Events, NEW k
  PROVE  Tally(<<e>>, k) = IF k \in RowsOf(e) THEN One(e.s) ELSE Zero
<1> DEFINE s == e.s
           here == k \in RowsOf(e)
<1>0. s \in Signals
  BY DEF Events
<1>1. \A Y : Many(<<e>>, Behind(k, Y)) = IF s \in Y /\ here THEN 1 ELSE 0
  BY ManyOfOne DEF Behind
<1>2. s \in Tried <=> s.attempted
  BY <1>0 DEF Tried
<1>3. \A o : s \in Ending(o) <=> s.outcome = o
  BY <1>0 DEF Ending
<1>4. \A i : s \in Lasting(i) <=> s.ms # Unmeasured /\ HistBucket(s.ms) = i
  BY <1>0 DEF Lasting
<1>5. s.attempted \in BOOLEAN /\ s.outcome \in Outcomes
      /\ (s.ms # Unmeasured => HistBucket(s.ms) \in DOMAIN Steps)
  BY <1>0, SignalTypes
<1> DEFINE W(Y) == IF s \in Y /\ here THEN 1 ELSE 0
<1>6. Tally(<<e>>, k) = [attempts |-> W(Tried), by |-> [o \in Outcomes |-> W(Ending(o))],
                         hist |-> [i \in DOMAIN Steps |-> W(Lasting(i))]]
  BY <1>1 DEF Tally
<1> HIDE DEF s, here
<1>7. CASE ~here
  BY <1>6, <1>7 DEF Zero, here
<1>8. CASE here
  <2>1. W(Tried) = IF s.attempted THEN 1 ELSE 0
    BY <1>2, <1>8
  <2>2. [o \in Outcomes |-> W(Ending(o))] = [Zero.by EXCEPT ![s.outcome] = 1]
    BY <1>3, <1>5, <1>8 DEF Zero
  <2>3. [i \in DOMAIN Steps |-> W(Lasting(i))]
          = IF s.ms = Unmeasured THEN Zero.hist ELSE [Zero.hist EXCEPT ![HistBucket(s.ms)] = 1]
    BY <1>4, <1>5, <1>8 DEF Zero
  <2> HIDE DEF W
  <2>4. Tally(<<e>>, k) = One(s)
    BY <1>6, <2>1, <2>2, <2>3 DEF One
  <2> QED BY <1>8, <2>4 DEF here, s
<1> QED BY <1>7, <1>8

LEMMA OfAddEvent ==
  ASSUME NEW s \in Signals, BucketStart \in Nat, NEW k
  PROVE  Of(AddEvent(s), k) = Tally(<<[s |-> s, at |-> BucketStart]>>, k)
<1> DEFINE e == [s |-> s, at |-> BucketStart]
<1>1. e \in Events /\ e.s = s /\ e.at = BucketStart
  BY DEF Events
<1>2. DOMAIN AddEvent(s) = RowsOf(e) /\ (k \in RowsOf(e) => AddEvent(s)[k] = One(s))
  BY <1>1 DEF AddEvent, RowsOf
<1> HIDE DEF e
<1>3. Of(AddEvent(s), k) = IF k \in RowsOf(e) THEN One(s) ELSE Zero
  BY <1>2 DEF Of
<1>4. Tally(<<e>>, k) = Of(AddEvent(s), k)
  BY <1>1, <1>3, TallyOfOne
<1> QED BY <1>4 DEF e

\* The invariant: the rows that are pending or being written say what the folded events
\* say, and the rows of the table that can still be asked for what the stored ones say.
TelemetryTypes ==
  /\ beat \in 0..MaxBeat
  /\ channel \in Seq(Signals) /\ Len(channel) <= Slots
  /\ lostQueue \in Nat /\ lostStore \in Nat /\ recorded \in 0..MaxSignals
  /\ folded \in Seq(Events) /\ stored \in Seq(Events)
  /\ pendingEvents = Len(folded)
  /\ \A map \in {pending, flushing, buckets} :
       /\ IsFiniteSet(DOMAIN map) /\ DOMAIN map \subseteq Rows
       /\ \A k \in DOMAIN map : k[1] <= beat
  /\ Cardinality(DOMAIN pending) < FlushAt
  /\ flushing # Empty => pending = Empty
PendingRows == IF flushing = Empty THEN pending ELSE flushing
PendingSays == \A k \in Rows : Of(PendingRows, k) = Tally(folded, k)
StoredSays == \A k \in Rows : k[1] >= beat - Retention => Of(buckets, k) = Tally(stored, k)
TelemetryParts == TelemetryTypes /\ EventsAreAccounted /\ PendingSays /\ StoredSays

\* A bucket begins at a time that has been.
LEMMA BucketHasBegun ==
  ASSUME beat \in Nat
  PROVE  BucketStart \in Nat /\ BucketStart <= beat
<1> DEFINE q == beat \div Period
           r == beat % Period
<1>1. Period \in Nat \ {0}
  BY TelemetryBounds
<1>2. q \in Nat /\ r \in Nat /\ beat = Period * q + r
  BY <1>1
<1> HIDE DEF q, r
<1>3. Period * q \in Nat
  BY <1>1, <1>2
<1>4. beat - r \in Nat /\ beat - r <= beat
  BY <1>2, <1>3
<1> QED BY <1>4 DEF BucketStart, r

\* The rows of one event.
LEMMA EventRows ==
  ASSUME NEW s \in Signals, beat \in Nat
  PROVE  /\ IsFiniteSet(DOMAIN AddEvent(s)) /\ DOMAIN AddEvent(s) \subseteq Rows
         /\ \A k \in DOMAIN AddEvent(s) : k[1] <= beat
<1>1. BucketStart \in Nat /\ BucketStart <= beat
  BY BucketHasBegun
<1> DEFINE a == <<"provider", s.provider, "", "">>
           b == <<"account", s.provider, s.account, "">>
           c == <<"model", s.provider, s.account, s.model>>
           B == BucketStart
<1>2. Scopes(s) = {a, b, c}
  BY DEF Scopes
<1>3. Scopes(s) \subseteq AllScopes
  BY SignalTypes
<1>4. DOMAIN AddEvent(s) = {<<B, scope>> : scope \in Scopes(s)}
  BY DEF AddEvent
<1> HIDE DEF a, b, c, B
<1>5. DOMAIN AddEvent(s) = ({<<B, a>>} \cup {<<B, b>>}) \cup {<<B, c>>}
  BY <1>2, <1>4
<1>8. IsFiniteSet(DOMAIN AddEvent(s))
  <2>1. \A S, x : IsFiniteSet(S) => IsFiniteSet(S \cup {x})
    BY FS_AddElement
  <2>2. \A x : IsFiniteSet({x})
    BY FS_Singleton
  <2> QED BY <1>5, <2>1, <2>2
<1>9. DOMAIN AddEvent(s) \subseteq Rows
  BY <1>1, <1>3, <1>4 DEF Rows, B
<1>10. \A k \in DOMAIN AddEvent(s) : k[1] <= beat
  BY <1>1, <1>4 DEF B
<1> QED BY <1>8, <1>9, <1>10

\* What is added has the rows of both.
LEMMA AddedRows ==
  ASSUME NEW f, NEW g, NEW t \in Nat,
         \A map \in {f, g} : /\ IsFiniteSet(DOMAIN map) /\ DOMAIN map \subseteq Rows
                             /\ \A k \in DOMAIN map : k[1] <= t
  PROVE  /\ IsFiniteSet(DOMAIN Added(f, g)) /\ DOMAIN Added(f, g) \subseteq Rows
         /\ \A k \in DOMAIN Added(f, g) : k[1] <= t
<1>1. DOMAIN Added(f, g) = DOMAIN f \cup DOMAIN g
  BY DEF Added
<1>2. IsFiniteSet(DOMAIN f \cup DOMAIN g)
  BY FS_Union
<1> QED BY <1>1, <1>2

LEMMA NoRows ==
  DOMAIN Empty = {} /\ IsFiniteSet(DOMAIN Empty) /\ Cardinality(DOMAIN Empty) = 0
  /\ 0 < FlushAt
BY FS_EmptySet, TelemetryBounds DEF Empty

LEMMA InitTelemetryParts == TelemetryInit => TelemetryParts
<1> SUFFICES ASSUME TelemetryInit PROVE TelemetryParts
  OBVIOUS
<1>1. TelemetryTypes
  BY NoRows, TelemetryBounds DEF TelemetryInit, TelemetryTypes
<1>2. EventsAreAccounted
  BY DEF TelemetryInit, EventsAreAccounted
<1>3. PendingSays
  BY NoRow, TallyOfNone DEF TelemetryInit, PendingSays, PendingRows
<1>4. StoredSays
  BY NoRow, TallyOfNone DEF TelemetryInit, StoredSays
<1> QED BY <1>1, <1>2, <1>3, <1>4 DEF TelemetryParts

LEMMA RecordKeeps ==
  ASSUME TelemetryParts, NEW s \in Signals, RecordSignal(s)
  PROVE  TelemetryParts'
<1> USE DEF RecordSignal
<1>1. TelemetryTypes /\ EventsAreAccounted /\ PendingSays /\ StoredSays
  BY DEF TelemetryParts
<1>2. Len(channel) \in Nat /\ Slots \in Nat /\ MaxSignals \in Nat
  BY <1>1, LenProperties, TelemetryBounds DEF TelemetryTypes
<1>3. CASE HasRoom
  <2>1. channel' = Append(channel, s) /\ lostQueue' = lostQueue
    BY <1>3
  <2>2. channel' \in Seq(Signals) /\ Len(channel') = Len(channel) + 1
    BY <1>1, <2>1, AppendProperties DEF TelemetryTypes
  <2>3. TelemetryTypes'
    BY <1>1, <1>2, <1>3, <2>1, <2>2 DEF TelemetryTypes, HasRoom
  <2>4. EventsAreAccounted'
    <3>1. Len(stored) \in Nat
      BY <1>1, LenProperties DEF TelemetryTypes
    <3> QED BY <1>1, <1>2, <2>1, <2>2, <3>1 DEF EventsAreAccounted, TelemetryTypes
  <2> QED BY <1>1, <2>3, <2>4 DEF TelemetryParts, PendingSays, PendingRows, StoredSays
<1>4. CASE ~HasRoom
  <2>1. channel' = channel /\ lostQueue' = lostQueue + 1
    BY <1>4
  <2>3. TelemetryTypes'
    BY <1>1, <1>2, <2>1 DEF TelemetryTypes
  <2>4. EventsAreAccounted'
    <3>1. Len(stored) \in Nat /\ Len(folded) \in Nat
      BY <1>1, LenProperties DEF TelemetryTypes
    <3> QED BY <1>1, <1>2, <2>1, <3>1 DEF EventsAreAccounted, TelemetryTypes
  <2> QED BY <1>1, <2>3, <2>4 DEF TelemetryParts, PendingSays, PendingRows, StoredSays
<1> QED BY <1>3, <1>4

LEMMA FoldKeeps ==
  ASSUME TelemetryParts, Fold
  PROVE  TelemetryParts'
<1> DEFINE s == Head(channel)
           e == [s |-> s, at |-> BucketStart]
           all == Added(pending, AddEvent(s))
           due == Cardinality(DOMAIN all) >= FlushAt
<1>1. TelemetryTypes /\ EventsAreAccounted /\ PendingSays /\ StoredSays
  BY DEF TelemetryParts
<1>2. /\ flushing = Empty /\ channel # << >>
      /\ channel' = Tail(channel)
      /\ pendingEvents' = pendingEvents + 1
      /\ pending' = IF due THEN Empty ELSE all
      /\ flushing' = IF due THEN all ELSE Empty
      /\ folded' = Append(folded, e)
      /\ UNCHANGED <<beat, buckets, lostQueue, lostStore, stored, recorded>>
  BY DEF Fold
<1>3. beat \in Nat /\ s \in Signals
  BY <1>1, <1>2, HeadTailProperties, TelemetryBounds DEF TelemetryTypes
<1>4. BucketStart \in Nat /\ e \in Events
  BY <1>3, BucketHasBegun DEF Events
<1>5. \A k \in Rows : Of(all, k) = Tally(folded', k)
  <2> SUFFICES ASSUME NEW k \in Rows PROVE Of(all, k) = Tally(folded', k)
    OBVIOUS
  <2>1. Of(pending, k) = Tally(folded, k)
    BY <1>1, <1>2 DEF PendingSays, PendingRows
  <2>2. Of(AddEvent(s), k) = Tally(<<e>>, k)
    BY <1>3, <1>4, OfAddEvent
  <2>3. folded' = folded \o <<e>> /\ folded \in Seq(Events) /\ <<e>> \in Seq(Events)
    <3>1. folded \in Seq(Events)
      BY <1>1 DEF TelemetryTypes
    <3> HIDE DEF e
    <3> QED BY <1>2, <1>4, <3>1
  <2>4. Tally(folded', k) = Plus(Tally(folded, k), Tally(<<e>>, k))
    BY <2>3, TallyOfBoth
  <2> QED BY <2>1, <2>2, <2>4, OfAdded
<1>6. IsFiniteSet(DOMAIN all) /\ DOMAIN all \subseteq Rows /\ \A k \in DOMAIN all : k[1] <= beat
  <2>1. \A map \in {pending, AddEvent(s)} :
           /\ IsFiniteSet(DOMAIN map) /\ DOMAIN map \subseteq Rows
           /\ \A k \in DOMAIN map : k[1] <= beat
    BY <1>1, <1>3, EventRows DEF TelemetryTypes
  <2> QED BY <1>3, <2>1, AddedRows
<1>7. channel' \in Seq(Signals) /\ Len(channel') = Len(channel) - 1 /\ Len(channel) \in Nat
  BY <1>1, <1>2, HeadTailProperties, LenProperties DEF TelemetryTypes
<1>8. folded' \in Seq(Events) /\ Len(folded') = Len(folded) + 1
  BY <1>1, <1>2, <1>4, AppendProperties DEF TelemetryTypes
<1>9. Cardinality(DOMAIN all) \in Nat /\ FlushAt \in Nat /\ Slots \in Nat
  BY <1>6, FS_CardinalityType, TelemetryBounds
<1> HIDE DEF s, e, all
<1>10. \A map \in {pending', flushing', buckets'} :
         /\ IsFiniteSet(DOMAIN map) /\ DOMAIN map \subseteq Rows
         /\ \A k \in DOMAIN map : k[1] <= beat'
  <2>1. pending' \in {Empty, all} /\ flushing' \in {Empty, all} /\ buckets' = buckets /\ beat' = beat
    BY <1>2
  <2>2. buckets \in {pending, flushing, buckets}
    OBVIOUS
  <2> QED BY <1>1, <1>6, <2>1, <2>2, NoRows DEF TelemetryTypes
<1>11. Cardinality(DOMAIN pending') < FlushAt /\ (flushing' # Empty => pending' = Empty)
  BY <1>2, <1>9, NoRows
<1>12. TelemetryTypes'
  BY <1>1, <1>2, <1>7, <1>8, <1>9, <1>10, <1>11 DEF TelemetryTypes
<1>13. EventsAreAccounted'
  <2>1. Len(stored) \in Nat /\ Len(folded) \in Nat
    BY <1>1, LenProperties DEF TelemetryTypes
  <2> QED BY <1>1, <1>2, <1>7, <2>1 DEF EventsAreAccounted, TelemetryTypes
<1>14. PendingSays'
  <2>1. PendingRows' = all
    BY <1>2 DEF PendingRows
  <2> QED BY <1>5, <2>1 DEF PendingSays
<1>15. StoredSays'
  BY <1>1, <1>2 DEF StoredSays
<1> QED BY <1>12, <1>13, <1>14, <1>15 DEF TelemetryParts

LEMMA FlushTickKeeps ==
  ASSUME TelemetryParts, FlushTick
  PROVE  TelemetryParts'
<1>1. TelemetryTypes /\ EventsAreAccounted /\ PendingSays /\ StoredSays
  BY DEF TelemetryParts
<1>2. /\ flushing = Empty /\ pending # Empty
      /\ flushing' = pending /\ pending' = Empty
      /\ UNCHANGED <<beat, channel, pendingEvents, buckets, lostQueue, lostStore, folded, stored,
                     recorded>>
  BY DEF FlushTick
<1>3. \A map \in {pending', flushing', buckets'} :
         /\ IsFiniteSet(DOMAIN map) /\ DOMAIN map \subseteq Rows
         /\ \A k \in DOMAIN map : k[1] <= beat'
  BY <1>1, <1>2 DEF TelemetryTypes
<1>4. Cardinality(DOMAIN pending') < FlushAt
  BY <1>2, NoRows
<1>5. TelemetryTypes'
  BY <1>1, <1>2, <1>3, <1>4 DEF TelemetryTypes
<1>6. PendingRows' = PendingRows
  BY <1>2 DEF PendingRows
<1> QED BY <1>1, <1>2, <1>5, <1>6 DEF TelemetryParts, EventsAreAccounted, PendingSays, StoredSays

LEMMA FlushEndKeeps ==
  ASSUME TelemetryParts, NEW ok \in BOOLEAN, FlushEnd(ok)
  PROVE  TelemetryParts'
<1> DEFINE sum == Added(buckets, flushing)
<1>1. TelemetryTypes /\ EventsAreAccounted /\ PendingSays /\ StoredSays
  BY DEF TelemetryParts
<1>2. /\ flushing # Empty /\ flushing' = Empty /\ folded' = << >> /\ pendingEvents' = 0
      /\ UNCHANGED <<beat, channel, pending, lostQueue, recorded>>
      /\ IF ok THEN buckets' = Kept(sum) /\ stored' = stored \o folded /\ UNCHANGED lostStore
         ELSE lostStore' = lostStore + pendingEvents /\ UNCHANGED <<buckets, stored>>
  BY DEF FlushEnd, Uncounted
<1>3. pending = Empty /\ PendingRows = flushing /\ PendingRows' = Empty
  BY <1>1, <1>2 DEF TelemetryTypes, PendingRows
<1>4. Len(stored) \in Nat /\ Len(folded) \in Nat /\ Len(channel) \in Nat /\ beat \in Nat
  BY <1>1, LenProperties, TelemetryBounds DEF TelemetryTypes
<1>5. PendingSays'
  BY <1>2, <1>3, NoRow, TallyOfNone DEF PendingSays
<1>6. \A map \in {pending, flushing, buckets} :
       /\ IsFiniteSet(DOMAIN map) /\ DOMAIN map \subseteq Rows
       /\ \A k \in DOMAIN map : k[1] <= beat
  BY <1>1 DEF TelemetryTypes
<1>7. CASE ok
  <2>1. buckets' = Kept(sum) /\ stored' = stored \o folded /\ lostStore' = lostStore
    BY <1>2, <1>7
  <2>2. IsFiniteSet(DOMAIN sum) /\ DOMAIN sum \subseteq Rows /\ \A k \in DOMAIN sum : k[1] <= beat
    BY <1>4, <1>6, AddedRows
  <2>3. /\ DOMAIN buckets' = {k \in DOMAIN sum : k[1] >= beat - Retention}
        /\ \A k \in DOMAIN buckets' : buckets'[k] = sum[k]
    BY <2>1 DEF Kept
  <2>4. \A k \in Rows : Of(sum, k) = Plus(Of(buckets, k), Of(flushing, k))
    BY OfAdded
  <2> HIDE DEF sum
  <2>5. IsFiniteSet(DOMAIN buckets') /\ DOMAIN buckets' \subseteq Rows
        /\ \A k \in DOMAIN buckets' : k[1] <= beat
    <3>1. DOMAIN buckets' \in SUBSET (DOMAIN sum)
      BY <2>3
    <3> QED BY <2>2, <3>1, FS_Subset
  <2>6. \A map \in {pending', flushing', buckets'} :
         /\ IsFiniteSet(DOMAIN map) /\ DOMAIN map \subseteq Rows
         /\ \A k \in DOMAIN map : k[1] <= beat'
    BY <1>2, <1>3, <2>5, NoRows
  <2>7. stored' \in Seq(Events) /\ Len(stored') = Len(stored) + Len(folded)
    BY <1>1, <2>1, ConcatProperties DEF TelemetryTypes
  <2>8. TelemetryTypes'
    <3>1. folded' \in Seq(Events) /\ pendingEvents' = Len(folded')
      BY <1>2
    <3> QED BY <1>1, <1>2, <1>3, <2>1, <2>6, <2>7, <3>1, NoRows DEF TelemetryTypes
  <2>9. EventsAreAccounted'
    BY <1>1, <1>2, <1>4, <2>1, <2>7 DEF EventsAreAccounted, TelemetryTypes
  <2>10. StoredSays'
    <3> SUFFICES ASSUME NEW k \in Rows, k[1] >= beat - Retention
                 PROVE  Of(buckets', k) = Tally(stored', k)
      BY <1>2 DEF StoredSays
    <3>1. Of(buckets', k) = Of(sum, k)
      BY <2>3 DEF Of
    <3>2. Of(buckets, k) = Tally(stored, k)
      BY <1>1 DEF StoredSays
    <3>3. Of(flushing, k) = Tally(folded, k)
      BY <1>1, <1>3 DEF PendingSays
    <3>4. Tally(stored \o folded, k) = Plus(Tally(stored, k), Tally(folded, k))
      BY <1>1, TallyOfBoth DEF TelemetryTypes
    <3> QED BY <2>1, <2>4, <3>1, <3>2, <3>3, <3>4
  <2> QED BY <1>5, <2>8, <2>9, <2>10 DEF TelemetryParts
<1>8. CASE ~ok
  <2>1. lostStore' = lostStore + pendingEvents /\ buckets' = buckets /\ stored' = stored
    BY <1>2, <1>8
  <2>2. \A map \in {pending', flushing', buckets'} :
         /\ IsFiniteSet(DOMAIN map) /\ DOMAIN map \subseteq Rows
         /\ \A k \in DOMAIN map : k[1] <= beat'
    BY <1>2, <1>3, <1>6, <2>1, NoRows
  <2>3. TelemetryTypes'
    <3>1. folded' \in Seq(Events) /\ pendingEvents' = Len(folded') /\ lostStore' \in Nat
      BY <1>1, <1>2, <1>4, <2>1 DEF TelemetryTypes
    <3> QED BY <1>1, <1>2, <1>3, <2>1, <2>2, <3>1, NoRows DEF TelemetryTypes
  <2>4. EventsAreAccounted'
    BY <1>1, <1>2, <1>4, <2>1 DEF EventsAreAccounted, TelemetryTypes
  <2>5. StoredSays'
    BY <1>1, <1>2, <2>1 DEF StoredSays
  <2> QED BY <1>5, <2>3, <2>4, <2>5 DEF TelemetryParts
<1> QED BY <1>7, <1>8

LEMMA BeatKeeps ==
  ASSUME TelemetryParts, BeatPasses
  PROVE  TelemetryParts'
<1>1. TelemetryTypes /\ EventsAreAccounted /\ PendingSays /\ StoredSays
  BY DEF TelemetryParts
<1>2. /\ beat < MaxBeat /\ beat' = beat + 1
      /\ UNCHANGED <<channel, pending, pendingEvents, flushing, buckets, lostQueue, lostStore,
                     folded, stored, recorded>>
  BY DEF BeatPasses
<1>3. MaxBeat \in Nat /\ Retention \in Nat /\ beat \in Nat
  BY <1>1, TelemetryBounds DEF TelemetryTypes
<1>4. \A k \in Rows : k[1] \in Nat
  BY DEF Rows
<1>5. TelemetryTypes'
  <2>1. \A map \in {pending', flushing', buckets'} :
         /\ IsFiniteSet(DOMAIN map) /\ DOMAIN map \subseteq Rows
         /\ \A k \in DOMAIN map : k[1] <= beat'
    <3> SUFFICES ASSUME NEW map \in {pending, flushing, buckets}
                 PROVE  /\ IsFiniteSet(DOMAIN map) /\ DOMAIN map \subseteq Rows
                        /\ \A k \in DOMAIN map : k[1] <= beat'
      BY <1>2
    <3>1. /\ IsFiniteSet(DOMAIN map) /\ DOMAIN map \subseteq Rows
          /\ \A k \in DOMAIN map : k[1] <= beat
      BY <1>1 DEF TelemetryTypes
    <3> QED BY <1>2, <1>3, <1>4, <3>1
  <2> QED BY <1>1, <1>2, <1>3, <2>1 DEF TelemetryTypes
<1>6. StoredSays'
  BY <1>1, <1>2, <1>3, <1>4 DEF StoredSays
<1> QED BY <1>1, <1>2, <1>5, <1>6 DEF TelemetryParts, EventsAreAccounted, PendingSays, PendingRows

LEMMA RestartKeeps ==
  ASSUME TelemetryParts, TelemetryRestart
  PROVE  TelemetryParts'
<1>1. TelemetryTypes /\ EventsAreAccounted /\ PendingSays /\ StoredSays
  BY DEF TelemetryParts
<1>2. /\ channel' = << >> /\ pending' = Empty /\ pendingEvents' = 0 /\ flushing' = Empty
      /\ lostQueue' = 0 /\ lostStore' = 0 /\ folded' = << >> /\ recorded' = Len(stored)
      /\ UNCHANGED <<beat, buckets, stored>>
  BY DEF TelemetryRestart
<1>3. Len(stored) \in Nat /\ Len(folded) \in Nat /\ Len(channel) \in Nat /\ MaxSignals \in Nat
      /\ Slots \in Nat
  BY <1>1, LenProperties, TelemetryBounds DEF TelemetryTypes
<1>4. Len(stored) <= MaxSignals
  BY <1>1, <1>3 DEF EventsAreAccounted, TelemetryTypes
<1>5. TelemetryTypes'
  <2>1. \A map \in {pending', flushing', buckets'} :
         /\ IsFiniteSet(DOMAIN map) /\ DOMAIN map \subseteq Rows
         /\ \A k \in DOMAIN map : k[1] <= beat'
    BY <1>1, <1>2, NoRows DEF TelemetryTypes
  <2>2. /\ channel' \in Seq(Signals) /\ Len(channel') = 0
        /\ folded' \in Seq(Events) /\ pendingEvents' = Len(folded')
    BY <1>2
  <2> QED BY <1>1, <1>2, <1>3, <1>4, <2>1, <2>2, NoRows DEF TelemetryTypes
<1>6. EventsAreAccounted'
  BY <1>2, <1>3 DEF EventsAreAccounted
<1>7. PendingSays'
  BY <1>2, NoRow, TallyOfNone DEF PendingSays, PendingRows
<1>8. StoredSays'
  BY <1>1, <1>2 DEF StoredSays
<1> QED BY <1>5, <1>6, <1>7, <1>8 DEF TelemetryParts

LEMMA TelemetryPartsNext == TelemetryParts /\ [TelemetryNext]_telemetryVars => TelemetryParts'
<1> SUFFICES ASSUME TelemetryParts, [TelemetryNext]_telemetryVars PROVE TelemetryParts'
  OBVIOUS
<1>1. CASE UNCHANGED telemetryVars
  BY <1>1 DEF telemetryVars, TelemetryParts, TelemetryTypes, EventsAreAccounted, PendingSays,
              PendingRows, StoredSays
<1> QED BY <1>1, RecordKeeps, FoldKeeps, FlushTickKeeps, FlushEndKeeps, BeatKeeps, RestartKeeps
        DEF TelemetryNext

\* The stored events of a scope in a window.
Mine(scope, w) == {i \in 1..Len(stored) : scope \in Scopes(stored[i].s) /\ stored[i].at >= beat - w}
MineOf(scope, w, Y) == {i \in Mine(scope, w) : stored[i].s \in Y}
Asked(scope, w) == {k \in DOMAIN buckets : k[2] = scope /\ k[1] >= beat - w}

LEMMA MineFinite ==
  ASSUME TelemetryTypes, NEW scope, NEW w
  PROVE  \A S \in SUBSET Mine(scope, w) : IsFiniteSet(S) /\ Cardinality(S) \in Nat
<1>1. IsFiniteSet(1..Len(stored))
  BY LenProperties, CountUpTo DEF TelemetryTypes
<1>2. \A S \in SUBSET Mine(scope, w) : S \in SUBSET (1..Len(stored))
  BY DEF Mine
<1> QED BY <1>1, <1>2, FS_Subset, FS_CardinalityType

\* An event of the window has its row in the table.
LEMMA EventHasRow ==
  ASSUME TelemetryParts, NEW w \in Windows, NEW scope \in AllScopes, NEW i \in Mine(scope, w)
  PROVE  <<stored[i].at, scope>> \in Asked(scope, w)
<1> DEFINE e == stored[i]
           k == <<e.at, scope>>
<1>1. TelemetryTypes /\ StoredSays
  BY DEF TelemetryParts
<1>2. e \in Events /\ stored \in Seq(Events) /\ i \in 1..Len(stored)
  BY <1>1, ElementOfSeq DEF TelemetryTypes, Mine
<1>3. e.s \in Signals /\ e.at \in Nat /\ scope \in Scopes(e.s) /\ e.at >= beat - w
  BY <1>2 DEF Mine, Events
<1>4. e.s.outcome \in Outcomes
  BY <1>3, SignalTypes
<1>5. beat \in Nat /\ Retention \in Nat /\ w \in Nat /\ w <= Retention
  BY <1>1, TelemetryBounds DEF TelemetryTypes
<1>6. k \in Rows /\ k[1] >= beat - Retention
  BY <1>3, <1>5 DEF Rows
<1>7. Of(buckets, k) = Tally(stored, k)
  BY <1>1, <1>6 DEF StoredSays
<1>8. e \in Behind(k, Ending(e.s.outcome))
  BY <1>2, <1>3 DEF Behind, Ending, RowsOf
<1>9. Many(stored, Behind(k, Ending(e.s.outcome))) # 0
  BY <1>2, <1>8, ManyType
<1>10. Tally(stored, k).by[e.s.outcome] # 0
  BY <1>4, <1>9 DEF Tally
<1>11. Tally(stored, k) # Zero
  BY <1>4, <1>10 DEF Zero
<1>12. k \in DOMAIN buckets
  BY <1>7, <1>11 DEF Of
<1> QED BY <1>3, <1>12 DEF Asked

\* A column of the summary is the number of its events.
LEMMA ColumnIsCount ==
  ASSUME TelemetryParts, NEW w \in Windows, NEW scope \in AllScopes, NEW Y, NEW column,
         \A k \in Asked(scope, w) : column[k] = Many(stored, Behind(k, Y))
  PROVE  SumFunctionOnSet(column, Asked(scope, w)) = Cardinality(MineOf(scope, w, Y))
<1> DEFINE I == MineOf(scope, w, Y)
           rows == Asked(scope, w)
           key == [i \in I |-> <<stored[i].at, scope>>]
<1>1. TelemetryTypes
  BY DEF TelemetryParts
<1>2. stored \in Seq(Events) /\ Len(stored) \in Nat
  BY <1>1, LenProperties DEF TelemetryTypes
<1>3. IsFiniteSet(I)
  BY <1>1, MineFinite DEF MineOf
<1>4. IsFiniteSet(rows)
  <2>1. rows \in SUBSET (DOMAIN buckets) /\ IsFiniteSet(DOMAIN buckets)
    BY <1>1 DEF Asked, TelemetryTypes
  <2> QED BY <2>1, FS_Subset
<1>5. ASSUME NEW k \in rows PROVE column[k] = Cardinality(Into(I, key, {k}))
  <2>1. k \in Rows /\ k[2] = scope /\ k[1] >= beat - w
    BY <1>1 DEF Asked, TelemetryTypes
  <2>2. k = <<k[1], scope>>
    BY <2>1 DEF Rows
  <2>3. ASSUME NEW i \in 1..Len(stored)
        PROVE  stored[i] \in Behind(k, Y) <=> i \in I /\ key[i] = k
    <3>1. stored[i] \in Events
      BY <1>2, ElementOfSeq
    <3>2. k \in RowsOf(stored[i]) <=> stored[i].at = k[1] /\ scope \in Scopes(stored[i].s)
      BY <2>2 DEF RowsOf
    <3>3. i \in I <=> /\ scope \in Scopes(stored[i].s) /\ stored[i].at >= beat - w
                      /\ stored[i].s \in Y
      BY DEF Mine, MineOf
    <3>4. i \in I => (key[i] = k <=> stored[i].at = k[1])
      BY <2>2
    <3> HIDE DEF I, key
    <3> QED BY <2>1, <3>1, <3>2, <3>3, <3>4 DEF Behind
  <2>4. I \subseteq 1..Len(stored)
    BY DEF Mine, MineOf
  <2> HIDE DEF I, key
  <2>5. Into(1..Len(stored), stored, Behind(k, Y)) = Into(I, key, {k})
    BY <2>3, <2>4 DEF Into
  <2> QED BY <2>5 DEF Many
<1>6. Into(I, key, rows) = I
  <2>1. \A i \in I : key[i] \in rows
    BY EventHasRow DEF MineOf
  <2> QED BY <2>1 DEF Into
<1> HIDE DEF I, rows, key
<1>7. Total(column, rows) = Cardinality(Into(I, key, rows))
  <2>1. \A k : IsFiniteSet(Into(I, key, k)) /\ Cardinality(Into(I, key, k)) \in Nat
    <3>1. \A k : Into(I, key, k) \in SUBSET I
      BY DEF Into
    <3> QED BY <1>3, <3>1, FS_Subset, FS_CardinalityType
  <2>2. \A k \in rows : column[k] \in Nat /\ column[k] <= Cardinality(Into(I, key, {k}))
    BY <1>5, <2>1
  <2>3. \A k \in rows : column[k] \in Nat /\ Cardinality(Into(I, key, {k})) <= column[k]
    BY <1>5, <2>1
  <2>4. Total(column, rows) <= Cardinality(Into(I, key, rows))
    BY <1>3, <1>4, <2>2, TotalOfCounts
  <2>5. Cardinality(Into(I, key, rows)) <= Total(column, rows)
    BY <1>3, <1>4, <2>3, TotalOfAll
  <2>6. Total(column, rows) \in Nat
    BY <1>4, <2>2, TotalType
  <2> QED BY <2>1, <2>4, <2>5, <2>6
<1> QED BY <1>6, <1>7, SumIsTotal DEF I, rows

LEMMA SummaryIs ==
  ASSUME TelemetryParts, NEW w \in Windows, NEW scope \in AllScopes
  PROVE  LET sum == Summary(scope, w)
         IN  /\ sum.attempts = Cardinality(MineOf(scope, w, Tried))
             /\ \A o \in Outcomes : sum.by[o] = Cardinality(MineOf(scope, w, Ending(o)))
             /\ sum.hist = [i \in DOMAIN Steps |-> Cardinality(MineOf(scope, w, Lasting(i)))]
<1> DEFINE rows == Asked(scope, w)
<1>1. ASSUME NEW k \in rows PROVE buckets[k] = Tally(stored, k)
  <2>1. k \in DOMAIN buckets /\ k[1] >= beat - w
    BY DEF Asked
  <2>2. k \in Rows /\ beat \in Nat /\ Retention \in Nat /\ w \in Nat /\ w <= Retention
    BY <2>1, TelemetryBounds DEF TelemetryParts, TelemetryTypes
  <2>3. k[1] >= beat - Retention
    BY <2>1, <2>2 DEF Rows
  <2>4. Of(buckets, k) = Tally(stored, k)
    BY <2>2, <2>3 DEF TelemetryParts, StoredSays
  <2> QED BY <2>1, <2>4 DEF Of
<1> DEFINE sum == Summary(scope, w)
<1>2. sum = [attempts |-> SumFunctionOnSet([k \in rows |-> buckets[k].attempts], rows),
             by |-> [o \in Outcomes |-> SumFunctionOnSet([k \in rows |-> buckets[k].by[o]], rows)],
             hist |-> [i \in DOMAIN Steps |->
                        SumFunctionOnSet([k \in rows |-> buckets[k].hist[i]], rows)]]
  BY DEF Summary, Asked
<1> HIDE DEF sum
<1>3. sum.attempts = Cardinality(MineOf(scope, w, Tried))
  <2> DEFINE c == [k \in rows |-> buckets[k].attempts]
  <2>1. \A k \in rows : c[k] = Many(stored, Behind(k, Tried))
    <3>1. \A k : Tally(stored, k).attempts = Many(stored, Behind(k, Tried))
      BY DEF Tally
    <3> QED BY <1>1, <3>1
  <2> HIDE DEF c
  <2>2. SumFunctionOnSet(c, rows) = Cardinality(MineOf(scope, w, Tried))
    BY <2>1, ColumnIsCount
  <2> QED BY <1>2, <2>2 DEF c
<1>4. ASSUME NEW o \in Outcomes PROVE sum.by[o] = Cardinality(MineOf(scope, w, Ending(o)))
  <2> DEFINE c == [k \in rows |-> buckets[k].by[o]]
  <2>1. \A k \in rows : c[k] = Many(stored, Behind(k, Ending(o)))
    <3>1. \A k : Tally(stored, k).by[o] = Many(stored, Behind(k, Ending(o)))
      BY DEF Tally
    <3> QED BY <1>1, <3>1
  <2> HIDE DEF c
  <2>2. SumFunctionOnSet(c, rows) = Cardinality(MineOf(scope, w, Ending(o)))
    BY <2>1, ColumnIsCount
  <2> QED BY <1>2, <2>2 DEF c
<1>5. ASSUME NEW i \in DOMAIN Steps
      PROVE  SumFunctionOnSet([k \in rows |-> buckets[k].hist[i]], rows)
               = Cardinality(MineOf(scope, w, Lasting(i)))
  <2> DEFINE c == [k \in rows |-> buckets[k].hist[i]]
  <2>1. \A k \in rows : c[k] = Many(stored, Behind(k, Lasting(i)))
    <3>1. \A k : Tally(stored, k).hist[i] = Many(stored, Behind(k, Lasting(i)))
      BY DEF Tally
    <3> QED BY <1>1, <3>1
  <2> HIDE DEF c
  <2>2. SumFunctionOnSet(c, rows) = Cardinality(MineOf(scope, w, Lasting(i)))
    BY <2>1, ColumnIsCount
  <2> QED BY <2>2 DEF c
<1>6. sum.hist = [i \in DOMAIN Steps |-> Cardinality(MineOf(scope, w, Lasting(i)))]
  BY <1>2, <1>5
<1> QED BY <1>3, <1>4, <1>6 DEF sum

LEMMA GreaterIs ==
  ASSUME NEW c \in Nat \ {0}
  PROVE  Max({1, c}) = c
<1> DEFINE S == {1, c}
<1>1. c \in S /\ (\A y \in S : c >= y) /\ \A x \in S : (\A y \in S : x >= y) => x = c
  OBVIOUS
<1> HIDE DEF S
<1>2. (CHOOSE x \in S : \A y \in S : x >= y) = c
  BY <1>1
<1> QED BY <1>2 DEF Max, S

\* The histogram, added up to a bucket, counts the timed events up to its bound.
LEMMA SeenIs ==
  ASSUME TelemetryParts, NEW w \in Windows, NEW scope \in AllScopes,
         NEW hist, hist = [i \in DOMAIN Steps |-> Cardinality(MineOf(scope, w, Lasting(i)))],
         NEW timed, timed = {i \in Mine(scope, w) : stored[i].s.ms # Unmeasured},
         NEW m \in DOMAIN Steps
  PROVE  SumFunctionOnSet(hist, 1..m)
           = Cardinality({i \in timed : stored[i].s.ms <= Steps[m] \/ m = Len(Steps)})
<1> DEFINE n == Len(Steps)
           U == 1..n
           bucket == [i \in timed |-> HistBucket(stored[i].s.ms)]
<1>1. TelemetryTypes
  BY DEF TelemetryParts
<1>2. n \in Nat /\ DOMAIN Steps = U /\ IsFiniteSet(U)
  BY TelemetryBounds, LenProperties, CountUpTo
<1>3. IsFiniteSet(timed)
  BY <1>1, MineFinite
<1>4. ASSUME NEW i \in timed
      PROVE  /\ stored[i].s \in Signals /\ bucket[i] \in DOMAIN Steps
             /\ bucket[i] <= m <=> stored[i].s.ms <= Steps[m] \/ m = n
             /\ bucket[i] = HistBucket(stored[i].s.ms)
  <2>1. stored[i] \in Events
    BY <1>1, ElementOfSeq DEF TelemetryTypes, Mine
  <2>2. stored[i].s \in Signals
    BY <2>1 DEF Events
  <2>3. stored[i].s.ms \in Nat
    BY <2>2, SignalTypes
  <2> QED BY <2>2, <2>3, HistBucketIs
<1>5. ASSUME NEW b \in U PROVE hist[b] = Cardinality(Into(timed, bucket, {b}))
  <2>1. ASSUME NEW i \in Mine(scope, w)
        PROVE  stored[i].s \in Lasting(b) <=> i \in timed /\ bucket[i] = b
    <3>1. stored[i].s \in Signals
      <4>1. stored[i] \in Events
        BY <1>1, ElementOfSeq DEF TelemetryTypes, Mine
      <4> QED BY <4>1 DEF Events
    <3> QED BY <3>1 DEF Lasting
  <2>2. MineOf(scope, w, Lasting(b)) = Into(timed, bucket, {b})
    BY <2>1 DEF MineOf, Into
  <2> QED BY <1>2, <2>2
<1>6. Into(timed, bucket, 1..m) = {i \in timed : stored[i].s.ms <= Steps[m] \/ m = n}
  <2>1. \A i \in timed : bucket[i] \in 1..m <=> bucket[i] <= m
    <3>1. \A i \in timed : bucket[i] \in 1..n /\ m \in 1..n
      BY <1>2, <1>4
    <3> HIDE DEF bucket
    <3> QED BY <1>2, <3>1
  <2> HIDE DEF bucket, n
  <2> QED BY <1>4, <2>1 DEF Into
<1> HIDE DEF bucket
<1>7. \A k : IsFiniteSet(Into(timed, bucket, k)) /\ Cardinality(Into(timed, bucket, k)) \in Nat
  <2>1. \A k : Into(timed, bucket, k) \in SUBSET timed
    BY DEF Into
  <2> QED BY <1>3, <2>1, FS_Subset, FS_CardinalityType
<1>8. 1..m \in SUBSET U
  BY <1>2
<1> HIDE DEF U
<1>9. Total(hist, 1..m) = Cardinality(Into(timed, bucket, 1..m))
  <2>1. \A b \in U : hist[b] \in Nat /\ hist[b] <= Cardinality(Into(timed, bucket, {b}))
    BY <1>5, <1>7
  <2>2. \A b \in U : hist[b] \in Nat /\ Cardinality(Into(timed, bucket, {b})) <= hist[b]
    BY <1>5, <1>7
  <2>3. Total(hist, 1..m) <= Cardinality(Into(timed, bucket, 1..m))
    BY <1>2, <1>3, <1>8, <2>1, TotalOfCounts
  <2>4. Cardinality(Into(timed, bucket, 1..m)) <= Total(hist, 1..m)
    BY <1>2, <1>3, <1>8, <2>2, TotalOfAll
  <2>5. Total(hist, 1..m) \in Nat
    BY <1>2, <1>8, <2>1, TotalType
  <2> QED BY <1>7, <2>3, <2>4, <2>5
<1> QED BY <1>6, <1>9, SumIsTotal DEF n

\* The quantile of a histogram is the bound below which that share lies.
Adds(hist, up) ==
  \A m \in DOMAIN Steps : up[m] \in Nat /\ SumFunctionOnSet(hist, 1..m) = up[m]
IsQuantile(q, pct, up, N) ==
  IF N = 0 THEN q = Unmeasured
  ELSE \E m \in DOMAIN Steps :
         /\ q = Steps[m] /\ 100 * up[m] >= pct * N
         /\ \A i \in DOMAIN Steps : Steps[i] < Steps[m] => 100 * up[i] < pct * N

LEMMA QuantileIs ==
  ASSUME NEW hist, DOMAIN hist = DOMAIN Steps, NEW up, NEW N \in Nat,
         Adds(hist, up),
         \A i, j \in DOMAIN Steps : i <= j => up[i] <= up[j],
         up[Len(Steps)] = N
  PROVE  \A pct \in {50, 95, 99} : IsQuantile(Quantile(hist, pct), pct, up, N)
<1> TAKE pct \in {50, 95, 99}
<1> USE DEF Adds, IsQuantile
<1> DEFINE n == Len(Steps)
<1>1. n \in Nat \ {0} /\ DOMAIN Steps = 1..n /\ n \in 1..n /\ DOMAIN hist = 1..n
      /\ \A i \in 1..n : Steps[i] \in Nat
  BY TelemetryBounds, LenProperties
<1>2. \A i, j \in 1..n : i < j => Steps[i] < Steps[j]
  BY TelemetryBounds
<1> HIDE DEF n
<1>3. SumFunctionOnSet(hist, DOMAIN hist) = N
  BY <1>1 DEF n
<1>4. CASE N = 0
  BY <1>3, <1>4 DEF Quantile
<1>5. CASE N # 0
  <2> DEFINE c == CeilPct(N, pct)
             part == pct * N
             enough == {i \in DOMAIN Steps : SumFunctionOnSet(hist, 1..i) >= c}
             m == Min(enough)
             total == SumFunctionOnSet(hist, DOMAIN hist)
  <2>1. part \in Nat /\ c \in Nat \ {0} /\ c <= N /\ part <= 100 * c /\ 100 * c < part + 100
    <3>1. CASE pct = 50
      BY <1>5, <3>1 DEF CeilPct
    <3>2. CASE pct = 95
      BY <1>5, <3>2 DEF CeilPct
    <3>3. CASE pct = 99
      BY <1>5, <3>3 DEF CeilPct
    <3> QED BY <3>1, <3>2, <3>3
  <2>2. Max({1, c}) = c
    <3> HIDE DEF c
    <3> QED BY <2>1, GreaterIs
  <2>3. Quantile(hist, pct) = Steps[m]
    <3>1. Quantile(hist, pct)
            = IF total = 0 THEN Unmeasured
              ELSE Steps[Min({i \in DOMAIN Steps :
                               SumFunctionOnSet(hist, 1..i) >= Max({1, CeilPct(total, pct)})})]
      BY DEF Quantile
    <3>2. total = N
      BY <1>3
    <3> HIDE DEF total
    <3>3. Max({1, CeilPct(total, pct)}) = c
      BY <2>2, <3>2
    <3>4. {i \in DOMAIN Steps :
              SumFunctionOnSet(hist, 1..i) >= Max({1, CeilPct(total, pct)})} = enough
      BY <3>3
    <3> HIDE DEF c, enough
    <3> QED BY <1>5, <3>1, <3>2, <3>4
  <2> HIDE DEF c, part
  <2>4. enough = {i \in 1..n : up[i] >= c}
    BY <1>1
  <2>5. n \in enough /\ enough \subseteq Nat
    BY <1>1, <2>1, <2>4 DEF n
  <2> HIDE DEF enough
  <2>6. PICK x \in enough : \A y \in enough : x <= y
    BY <2>5, LeastOf
  <2>7. m \in enough /\ \A y \in enough : m <= y
    BY <2>6 DEF Min
  <2> HIDE DEF m
  <2>8. m \in 1..n /\ up[m] >= c /\ up[m] \in Nat
    BY <1>1, <2>4, <2>7
  <2>9. 100 * up[m] >= part
    <3>1. 100 * up[m] >= 100 * c
      BY <2>1, <2>8
    <3> QED BY <2>1, <2>8, <3>1
  <2>10. ASSUME NEW i \in 1..n, Steps[i] < Steps[m] PROVE 100 * up[i] < part
    <3>1. i < m
      <4>1. i # m /\ ~(m < i)
        BY <1>1, <1>2, <2>8, <2>10
      <4> QED BY <1>1, <2>8, <4>1
    <3>2. i \notin enough
      BY <1>1, <2>7, <2>8, <3>1
    <3>3. up[i] \in Nat /\ ~(up[i] >= c)
      <4>1. up[i] \in Nat
        BY <1>1
      <4>2. i \in enough <=> up[i] >= c
        BY <2>4
      <4> QED BY <3>2, <4>1, <4>2
    <3>4. up[i] <= c - 1
      BY <2>1, <3>3
    <3>5. 100 * up[i] <= 100 * c - 100
      BY <2>1, <3>3, <3>4
    <3> QED BY <2>1, <3>3, <3>5
  <2> QED BY <1>1, <1>5, <2>3, <2>8, <2>9, <2>10 DEF part
<1> QED BY <1>4, <1>5

\* What the tables say is what a summary of them says.
LEMMA SummaryFollows == TelemetryParts => SummaryIsTrue
<1> SUFFICES ASSUME TelemetryParts, NEW w \in Windows, NEW scope \in AllScopes
             PROVE
    LET sum == Summary(scope, w)
        mine == {i \in 1..Len(stored) : scope \in Scopes(stored[i].s) /\ stored[i].at >= beat - w}
        timed == {i \in mine : stored[i].s.ms # Unmeasured}
        UpTo(b) == Cardinality({i \in timed : stored[i].s.ms <= b \/ b = Steps[Len(Steps)]})
        share(pct) == pct * Cardinality(timed)
    IN /\ sum.attempts = Cardinality({i \in mine : stored[i].s.attempted})
       /\ \A o \in Outcomes : sum.by[o] = Cardinality({i \in mine : stored[i].s.outcome = o})
       /\ \A pct \in {50, 95, 99} :
            LET q == Quantile(sum.hist, pct)
            IN IF timed = {} THEN q = Unmeasured
               ELSE /\ 100 * UpTo(q) >= share(pct)
                    /\ \A i \in DOMAIN Steps : Steps[i] < q => 100 * UpTo(Steps[i]) < share(pct)
  BY DEF SummaryIsTrue
<1> DEFINE sum == Summary(scope, w)
           mine == Mine(scope, w)
           timed == {i \in mine : stored[i].s.ms # Unmeasured}
           UpTo(b) == Cardinality({i \in timed : stored[i].s.ms <= b \/ b = Steps[Len(Steps)]})
           N == Cardinality(timed)
           up == [m \in DOMAIN Steps |-> UpTo(Steps[m])]
           n == Len(Steps)
<1>1. TelemetryTypes
  BY DEF TelemetryParts
<1>2. /\ sum.attempts = Cardinality(MineOf(scope, w, Tried))
      /\ \A o \in Outcomes : sum.by[o] = Cardinality(MineOf(scope, w, Ending(o)))
      /\ sum.hist = [i \in DOMAIN Steps |-> Cardinality(MineOf(scope, w, Lasting(i)))]
  BY SummaryIs
<1>3. \A i \in mine : stored[i].s \in Signals
  <2>1. \A i \in mine : stored[i] \in Events
    BY <1>1, ElementOfSeq DEF TelemetryTypes, Mine
  <2> QED BY <2>1 DEF Events
<1>4. sum.attempts = Cardinality({i \in mine : stored[i].s.attempted})
  <2>1. MineOf(scope, w, Tried) = {i \in mine : stored[i].s.attempted}
    BY <1>3 DEF MineOf, Tried
  <2> QED BY <1>2, <2>1
<1>5. \A o \in Outcomes : sum.by[o] = Cardinality({i \in mine : stored[i].s.outcome = o})
  <2>1. \A o : MineOf(scope, w, Ending(o)) = {i \in mine : stored[i].s.outcome = o}
    BY <1>3 DEF MineOf, Ending
  <2> QED BY <1>2, <2>1
<1>6. n \in Nat \ {0} /\ DOMAIN Steps = 1..n /\ n \in 1..n
      /\ \A i \in 1..n : Steps[i] \in Nat
  BY TelemetryBounds, LenProperties
<1>7. \A i, j \in 1..n : i < j => Steps[i] < Steps[j]
  BY TelemetryBounds
<1>8. \A S \in SUBSET timed : IsFiniteSet(S) /\ Cardinality(S) \in Nat
  BY <1>1, MineFinite
<1>9. \A i \in timed : stored[i].s.ms \in Nat
  BY <1>3, SignalTypes
<1> HIDE DEF sum, mine
<1>10. ASSUME NEW m \in DOMAIN Steps
       PROVE  up[m] \in Nat /\ SumFunctionOnSet(sum.hist, 1..m) = up[m]
  <2> DEFINE hist == sum.hist
             long == {i \in timed : stored[i].s.ms <= Steps[m] \/ Steps[m] = Steps[Len(Steps)]}
             late == {i \in timed : stored[i].s.ms <= Steps[m] \/ m = Len(Steps)}
  <2>1. Steps[m] = Steps[Len(Steps)] <=> m = Len(Steps)
    BY <1>6, <1>7
  <2>2. long = late
    BY <2>1
  <2>3. up[m] = Cardinality(long) /\ long \in SUBSET timed
    OBVIOUS
  <2>4. timed = {i \in Mine(scope, w) : stored[i].s.ms # Unmeasured}
    BY DEF mine
  <2>5. hist = [i \in DOMAIN Steps |-> Cardinality(MineOf(scope, w, Lasting(i)))]
    BY <1>2
  <2> HIDE DEF hist, timed, up
  <2>6. SumFunctionOnSet(hist, 1..m) = Cardinality(late)
    BY <2>4, <2>5, SeenIs
  <2> QED BY <1>8, <2>2, <2>3, <2>6 DEF hist
<1>11. up[n] = N
  <2>1. {i \in timed : stored[i].s.ms <= Steps[n] \/ Steps[n] = Steps[Len(Steps)]} = timed
    OBVIOUS
  <2>2. n \in DOMAIN Steps
    BY <1>6
  <2> HIDE DEF timed, n
  <2> QED BY <2>1, <2>2
<1>12. ASSUME NEW i \in DOMAIN Steps, NEW j \in DOMAIN Steps, i <= j PROVE up[i] <= up[j]
  <2> DEFINE A(m) == {k \in timed : stored[k].s.ms <= Steps[m] \/ Steps[m] = Steps[Len(Steps)]}
  <2>1. up[i] = Cardinality(A(i)) /\ up[j] = Cardinality(A(j))
    OBVIOUS
  <2>2. i = j \/ (i < j /\ j <= n)
    BY <1>6, <1>12
  <2>3. Steps[i] <= Steps[j] /\ (Steps[i] = Steps[n] => i = n)
    BY <1>6, <1>7, <2>2
  <2>4. A(i) \subseteq A(j)
    <3>1. Steps[i] \in Nat /\ Steps[j] \in Nat
      BY <1>6
    <3>2. Steps[i] = Steps[Len(Steps)] => Steps[j] = Steps[Len(Steps)]
      BY <1>6, <2>2, <2>3
    <3>3. \A k \in timed : stored[k].s.ms <= Steps[i] => stored[k].s.ms <= Steps[j]
      BY <1>9, <2>3, <3>1
    <3> HIDE DEF timed, n
    <3> QED BY <3>2, <3>3
  <2>5. IsFiniteSet(A(j)) /\ A(i) \in SUBSET A(j)
    BY <1>8, <2>4
  <2> HIDE DEF A, up
  <2> QED BY <2>1, <2>5, FS_Subset
<1>13. N \in Nat /\ (N = 0 <=> timed = {})
  BY <1>8, FS_EmptySet
<1>14. ASSUME NEW pct \in {50, 95, 99}
       PROVE  LET q == Quantile(sum.hist, pct)
              IN IF timed = {} THEN q = Unmeasured
                 ELSE /\ 100 * UpTo(q) >= pct * N
                      /\ \A i \in DOMAIN Steps : Steps[i] < q => 100 * UpTo(Steps[i]) < pct * N
  <2> DEFINE hist == sum.hist
  <2>1. DOMAIN hist = DOMAIN Steps
    BY <1>2
  <2>2. \A m \in DOMAIN Steps : up[m] = UpTo(Steps[m])
    OBVIOUS
  <2>3. up[Len(Steps)] = N
    BY <1>11
  <2>4. \A m \in DOMAIN Steps : up[m] \in Nat /\ SumFunctionOnSet(hist, 1..m) = up[m]
    BY <1>10
  <2>5. \A i, j \in DOMAIN Steps : i <= j => up[i] <= up[j]
    BY <1>12
  <2> HIDE DEF hist, up, N, timed
  <2>6. IsQuantile(Quantile(hist, pct), pct, up, N)
    <3>1. N \in Nat
      BY <1>13
    <3>2. Adds(hist, up)
      BY <2>4 DEF Adds
    <3> QED BY <2>1, <2>3, <2>5, <3>1, <3>2, QuantileIs
  <2> HIDE DEF UpTo
  <2> QED BY <1>13, <2>2, <2>6 DEF hist, IsQuantile
<1> HIDE DEF UpTo, timed
<1> QED BY <1>4, <1>5, <1>14 DEF sum, mine, timed, UpTo, Mine, N

LEMMA TelemetryFollows == TelemetryParts => TelemetryIsTrue
<1> SUFFICES ASSUME TelemetryParts PROVE TelemetryIsTrue
  OBVIOUS
<1>1. TelemetryTypes /\ EventsAreAccounted
  BY DEF TelemetryParts
<1>2. TelemetryTypeOK
  <2>1. pendingEvents \in Nat
    BY <1>1, LenProperties DEF TelemetryTypes
  <2>2. ASSUME NEW map \in {pending, flushing, buckets}, NEW k \in DOMAIN map
        PROVE  k[1] \in 0..beat
    <3>1. k \in Rows /\ k[1] <= beat /\ beat \in Nat
      BY <1>1, TelemetryBounds DEF TelemetryTypes
    <3> QED BY <3>1 DEF Rows
  <2> QED BY <1>1, <2>1, <2>2 DEF TelemetryTypes, TelemetryTypeOK
<1> QED BY <1>1, <1>2, SummaryFollows DEF TelemetryIsTrue

\* What target telemetry shows is what was recorded: every recorded event is in the channel,
\* pending, in the table or counted as dropped, and each summary's counters and quantiles are
\* those of the stored events of its window. For any signals, histogram bounds, windows and
\* sizes of the channel and of the batches (target_telemetry.rs:97-98).
THEOREM TelemetryAlwaysTrue == TelemetrySpec => []TelemetryIsTrue
<1>1. TelemetryInit => TelemetryParts
  BY InitTelemetryParts
<1>2. TelemetryParts /\ [TelemetryNext]_telemetryVars => TelemetryParts'
  BY TelemetryPartsNext
<1>3. TelemetryParts => TelemetryIsTrue
  BY TelemetryFollows
<1> QED BY <1>1, <1>2, <1>3, PTL DEF TelemetrySpec
=============================================================================

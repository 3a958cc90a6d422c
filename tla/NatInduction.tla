---------------------------- MODULE NatInduction ----------------------------
(***************************************************************************)
(* Induction over the natural numbers, stated for sets: a property is the  *)
(* set of the numbers that have it.  The proofs about what a recursive     *)
(* definition or a fold computes rest on it.                               *)
(***************************************************************************)
EXTENDS Naturals, FiniteSetsExt, WellFoundedInduction, TLAPS

(* A nonempty set of naturals has a smallest member.                       *)
THEOREM LeastMember ==
  ASSUME NEW S \in SUBSET Nat, S # {}
  PROVE  \E i \in S : \A j \in S : i <= j
<1> DEFINE less == OpToRel(<, Nat)
<1>1. \A i, j \in Nat : <<i, j>> \in less <=> i < j
  BY DEF OpToRel
<1>2. IsWellFoundedOn(less, Nat)
  BY NatLessThanWellFounded
<1> HIDE DEF less
<1>3. PICK i \in S : \A j \in S : <<j, i>> \notin less
  BY <1>2, WFMin
<1>4. ASSUME NEW j \in S  PROVE  i <= j
  <2>1. i \in Nat /\ j \in Nat
    OBVIOUS
  <2>2. ~(j < i)
    BY <2>1, <1>1, <1>3, Zenon
  <2> QED  BY <2>1, <2>2
<1> QED  BY <1>4

(* A nonempty set of naturals below a bound has a greatest member.         *)
THEOREM GreatestMember ==
  ASSUME NEW S \in SUBSET Nat, S # {}, NEW n \in Nat, \A i \in S : i <= n
  PROVE  \E i \in S : \A j \in S : j <= i
<1> DEFINE T == {n - i : i \in S}
<1>1. T \in SUBSET Nat /\ T # {}
  <2>1. \A i \in S : n - i \in Nat
    OBVIOUS
  <2>2. T \subseteq Nat
    BY <2>1
  <2> QED  BY <2>2
<1>2. PICK k \in T : \A j \in T : k <= j
  BY <1>1, LeastMember
<1>3. PICK i \in S : k = n - i
  OBVIOUS
<1>4. ASSUME NEW j \in S  PROVE  j <= i
  <2>1. k <= n - j
    BY <1>2
  <2> QED  BY <1>3, <2>1
<1> QED  BY <1>4

(* A set that holds 0 and with n holds n + 1 holds every natural number.   *)
THEOREM SetInduction ==
  ASSUME NEW S, 0 \in S, \A n \in Nat : n \in S => n + 1 \in S
  PROVE  \A n \in Nat : n \in S
<1> SUFFICES ASSUME Nat \ S # {}  PROVE  FALSE
  OBVIOUS
<1>1. PICK n \in Nat \ S : \A m \in Nat \ S : n <= m
  <2> DEFINE T == Nat \ S
  <2>1. T \in SUBSET Nat /\ T # {}
    OBVIOUS
  <2> HIDE DEF T
  <2>2. \E i \in T : \A j \in T : i <= j
    BY <2>1, LeastMember
  <2> QED  BY <2>2 DEF T
<1>2. n # 0 /\ n - 1 \in Nat /\ (n - 1) + 1 = n
  OBVIOUS
<1>3. n - 1 \in S
  BY <1>1, <1>2
<1> QED  BY <1>2, <1>3

(* The same for the indices up to a bound.                                 *)
THEOREM IndexInduction ==
  ASSUME NEW n \in Nat, NEW S, 0 \in S, \A i \in 1..n : i - 1 \in S => i \in S
  PROVE  \A i \in 0..n : i \in S
<1> DEFINE T == {i \in Nat : i <= n => i \in S}
<1>1. 0 \in T
  OBVIOUS
<1>2. \A i \in Nat : i \in T => i + 1 \in T
  <2> SUFFICES ASSUME NEW i \in Nat, i \in T, i + 1 <= n  PROVE  i + 1 \in S
    OBVIOUS
  <2>1. i + 1 \in 1..n /\ (i + 1) - 1 = i /\ i <= n
    OBVIOUS
  <2>2. i \in S
    BY <2>1
  <2> QED  BY <2>1, <2>2
<1> HIDE DEF T
<1>3. \A i \in Nat : i \in T
  BY <1>1, <1>2, SetInduction
<1> QED  BY <1>3 DEF T

(* What the community modules' Min and Max choose.                         *)
THEOREM LeastOf ==
  ASSUME NEW S \in SUBSET Nat, S # {}
  PROVE  Min(S) \in S /\ \A x \in S : Min(S) <= x
<1>1. \E m \in S : \A x \in S : m <= x
  BY LeastMember
<1> QED  BY <1>1 DEF Min

THEOREM GreatestOf ==
  ASSUME NEW S \in SUBSET Nat, S # {}, NEW n \in Nat, \A x \in S : x <= n
  PROVE  Max(S) \in S /\ (\A x \in S : x <= Max(S)) /\ (n \in S => Max(S) = n)
<1>1. \E m \in S : \A x \in S : m >= x
  <2>1. \E m \in S : \A x \in S : x <= m
    BY GreatestMember
  <2> QED  BY <2>1
<1>2. Max(S) \in S /\ \A x \in S : Max(S) >= x
  BY <1>1 DEF Max
<1> DEFINE m == Max(S)
<1>3. m \in S /\ (\A x \in S : x <= m) /\ m \in Nat /\ m <= n
  BY <1>2
<1> HIDE DEF m
<1>4. n \in S => m = n
  BY <1>3
<1> QED  BY <1>3, <1>4 DEF m

(* FoldLeft is a recursive function on sets of indices, the greatest last. *)
(* There is one for every function F of what was made of the indices       *)
(* before and the index.                                                   *)
FoldsTo(F, start, n, g) ==
  \A s \in SUBSET (1..n) : g[s] = IF s = {} THEN start ELSE F[<<g[s \ {Max(s)}], Max(s)>>]

THEOREM FoldExists ==
  ASSUME NEW X, NEW start \in X, NEW n \in Nat, NEW F \in [X \X (1..n) -> X]
  PROVE  \E g \in [SUBSET (1..n) -> X] : FoldsTo(F, start, n, g)
<1> DEFINE Good(k) == \E g \in [SUBSET (1..k) -> X] : FoldsTo(F, start, k, g)
           S == {k \in Nat : k <= n => Good(k)}
<1>1. 0 \in S
  <2> DEFINE g == [s \in SUBSET (1..0) |-> start]
  <2>1. g \in [SUBSET (1..0) -> X] /\ \A s \in SUBSET (1..0) : s = {} /\ g[s] = start
    OBVIOUS
  <2> HIDE DEF g
  <2>2. FoldsTo(F, start, 0, g)
    BY <2>1 DEF FoldsTo
  <2> QED  BY <2>1, <2>2
<1>2. ASSUME NEW k \in Nat, k \in S  PROVE  k + 1 \in S
  <2> HIDE DEF Good
  <2> SUFFICES ASSUME k + 1 <= n  PROVE  Good(k + 1)
    OBVIOUS
  <2> USE DEF Good
  <2>1. k <= n /\ k + 1 \in 1..n
    OBVIOUS
  <2>2. PICK g \in [SUBSET (1..k) -> X] : FoldsTo(F, start, k, g)
    BY <1>2, <2>1
  <2> DEFINE d == [s \in SUBSET (1..k+1) |->
                     IF k + 1 \in s THEN F[<<g[s \ {k + 1}], k + 1>>] ELSE g[s]]
  <2>3. ASSUME NEW s \in SUBSET (1..k+1)
        PROVE  /\ s \ {k + 1} \in SUBSET (1..k) /\ s \ {k + 1} \in SUBSET (1..k+1)
               /\ k + 1 \notin s => s \in SUBSET (1..k)
    OBVIOUS
  <2>4. d \in [SUBSET (1..k+1) -> X]
    <3>1. ASSUME NEW s \in SUBSET (1..k+1)
          PROVE  (IF k + 1 \in s THEN F[<<g[s \ {k + 1}], k + 1>>] ELSE g[s]) \in X
      <4>1. CASE k + 1 \in s
        <5>1. g[s \ {k + 1}] \in X
          BY <2>3
        <5>2. F[<<g[s \ {k + 1}], k + 1>>] \in X
          BY <2>1, <5>1
        <5> QED  BY <4>1, <5>2
      <4>2. CASE k + 1 \notin s
        BY <2>3, <4>2
      <4> QED  BY <4>1, <4>2
    <3> QED  BY <3>1
  <2>5. \A s \in SUBSET (1..k) : g[s] = IF s = {} THEN start ELSE F[<<g[s \ {Max(s)}], Max(s)>>]
    BY <2>2 DEF FoldsTo
  <2>6. ASSUME NEW s \in SUBSET (1..k+1)
        PROVE  d[s] = IF s = {} THEN start ELSE F[<<d[s \ {Max(s)}], Max(s)>>]
    <3>1. CASE k + 1 \in s
      <4>1. Max(s) = k + 1
        <5>1. s \in SUBSET Nat /\ s # {} /\ k + 1 \in Nat /\ \A x \in s : x <= k + 1
          BY <3>1
        <5> QED  BY <3>1, <5>1, GreatestOf
      <4>2. d[s] = F[<<g[s \ {k + 1}], k + 1>>]
        BY <3>1
      <4>3. s \ {k + 1} \in SUBSET (1..k+1) /\ k + 1 \notin s \ {k + 1}
        OBVIOUS
      <4>4. d[s \ {k + 1}] = g[s \ {k + 1}]
        BY <4>3
      <4> QED  BY <3>1, <4>1, <4>2, <4>4
    <3>2. CASE k + 1 \notin s
      <4>1. s \in SUBSET (1..k)
        BY <2>3, <3>2
      <4>2. d[s] = g[s]
        BY <3>2
      <4>3. CASE s # {}
        <5>1. s \ {Max(s)} \in SUBSET (1..k+1) /\ k + 1 \notin s \ {Max(s)}
          BY <3>2
        <5>2. d[s \ {Max(s)}] = g[s \ {Max(s)}]
          BY <5>1
        <5> QED  BY <2>5, <4>1, <4>2, <4>3, <5>2
      <4> QED  BY <2>5, <4>1, <4>2, <4>3
    <3> QED  BY <3>1, <3>2
  <2> HIDE DEF d
  <2>7. FoldsTo(F, start, k + 1, d)
    BY <2>6 DEF FoldsTo
  <2> QED  BY <2>4, <2>7
<1> HIDE DEF S
<1>3. \A k \in Nat : k \in S
  BY <1>1, <1>2, SetInduction
<1>4. n \in S /\ n <= n
  BY <1>3
<1> QED  BY <1>4 DEF S

(* One index after the other.                                              *)
THEOREM FirstIndices ==
  ASSUME NEW n \in Nat, NEW i \in 1..n
  PROVE  /\ i \in Nat /\ i - 1 \in 0..n /\ i \in 0..n
         /\ 1..i \in SUBSET (1..n) /\ 1..i # {} /\ Max(1..i) = i /\ (1..i) \ {i} = 1..i-1
<1>1. i \in Nat /\ i \in 1..i /\ 1..i \in SUBSET Nat /\ \A x \in 1..i : x <= i
  OBVIOUS
<1>2. Max(1..i) = i
  <2> DEFINE S == 1..i
  <2>1. S \in SUBSET Nat /\ S # {} /\ i \in S /\ \A x \in S : x <= i
    BY <1>1
  <2> HIDE DEF S
  <2>2. Max(S) = i
    BY <1>1, <2>1, GreatestOf
  <2> QED  BY <2>2 DEF S
<1>3. (1..i) \ {i} = 1..i-1 /\ i - 1 \in 0..n
  OBVIOUS
<1> QED  BY <1>1, <1>2, <1>3

(* The last index of a set of them.                                        *)
THEOREM LastIndex ==
  ASSUME NEW n \in Nat, NEW s \in SUBSET (1..n), s # {}
  PROVE  Max(s) \in s /\ Max(s) \in 1..n /\ s \ {Max(s)} \in SUBSET (1..n) /\ \A x \in s : x <= Max(s)
<1>1. s \in SUBSET Nat /\ \A x \in s : x <= n
  OBVIOUS
<1>2. Max(s) \in s /\ \A x \in s : x <= Max(s)
  BY <1>1, GreatestOf
<1> QED  BY <1>2
(* Induction over the indices from behind: each follows from all the later. *)
THEOREM BackwardInduction ==
  ASSUME NEW n \in Nat, NEW S, n + 1 \in S,
         \A i \in 1..n : (\A j \in i+1..n+1 : j \in S) => i \in S
  PROVE  \A i \in 1..n+1 : i \in S
<1> DEFINE T == {k \in Nat : \A j \in 1..n+1 : j > n - k => j \in S}
<1>1. 0 \in T
  <2>1. \A j \in 1..n+1 : j > n - 0 => j = n + 1
    OBVIOUS
  <2> QED  BY <2>1
<1>2. ASSUME NEW k \in Nat, k \in T  PROVE  k + 1 \in T
  <2> SUFFICES ASSUME NEW j \in 1..n+1, j > n - (k + 1)  PROVE  j \in S
    OBVIOUS
  <2>1. CASE j > n - k
    BY <1>2, <2>1
  <2>2. CASE ~(j > n - k)
    <3>1. j \in 1..n /\ \A i \in j+1..n+1 : i \in 1..n+1 /\ i > n - k
      BY <2>2
    <3>2. \A i \in j+1..n+1 : i \in S
      BY <1>2, <3>1
    <3> QED  BY <3>1, <3>2
  <2> QED  BY <2>1, <2>2
<1> HIDE DEF T
<1>3. \A k \in Nat : k \in T
  BY <1>1, <1>2, SetInduction
<1>4. n \in T /\ \A j \in 1..n+1 : j > n - n
  BY <1>3
<1> QED  BY <1>4 DEF T

(* A recursive function of the indices from the last down to 1, such as a  *)
(* parser: what F makes of an index and the function rests on the values   *)
(* behind that index, and there is such a function, with values in X.      *)
LooksBehind(F, n, X) ==
  \A i \in 1..n : \A g, h \in [1..n+1 -> X] :
    (\A j \in i+1..n+1 : g[j] = h[j]) => F[<<i, g>>] = F[<<i, h>>]

RunsFrom(F, end, n, g) == g[n + 1] = end /\ \A i \in 1..n : g[i] = F[<<i, g>>]

THEOREM BackwardExists ==
  ASSUME NEW X, NEW end \in X, NEW n \in Nat, NEW F \in [(1..n) \X [1..n+1 -> X] -> X],
         LooksBehind(F, n, X)
  PROVE  \E g \in [1..n+1 -> X] : RunsFrom(F, end, n, g)
<1> USE DEF LooksBehind, RunsFrom
<1> DEFINE Good(k, g) == g[n + 1] = end /\ \A i \in 1..n : i > n - k => g[i] = F[<<i, g>>]
           S == {k \in Nat : k <= n => \E g \in [1..n+1 -> X] : Good(k, g)}
<1>1. 0 \in S
  <2> DEFINE g == [i \in 1..n+1 |-> end]
  <2>1. g \in [1..n+1 -> X] /\ g[n + 1] = end
    OBVIOUS
  <2>2. \A i \in 1..n : ~(i > n - 0)
    OBVIOUS
  <2> HIDE DEF g
  <2>3. Good(0, g)
    BY <2>1, <2>2
  <2> QED  BY <2>1, <2>3
<1>2. ASSUME NEW k \in Nat, k \in S  PROVE  k + 1 \in S
  <2> HIDE DEF Good
  <2> SUFFICES ASSUME k + 1 <= n  PROVE  \E g \in [1..n+1 -> X] : Good(k + 1, g)
    OBVIOUS
  <2> USE DEF Good
  <2> DEFINE m == n - k
  <2>1. m \in 1..n /\ m # n + 1 /\ k <= n
    OBVIOUS
  <2>2. PICK g \in [1..n+1 -> X] : Good(k, g)
    BY <1>2, <2>1
  <2> DEFINE d == [g EXCEPT ![m] = F[<<m, g>>]]
  <2>3. F[<<m, g>>] \in X
    BY <2>1
  <2>4. /\ d \in [1..n+1 -> X]
        /\ d[m] = F[<<m, g>>]
        /\ \A j \in 1..n+1 : j # m => d[j] = g[j]
    BY <2>1, <2>3
  <2> HIDE DEF d
  <2>5. ASSUME NEW i \in 1..n, i >= m  PROVE  F[<<i, d>>] = F[<<i, g>>]
    <3>1. \A j \in i+1..n+1 : j \in 1..n+1 /\ j # m
      BY <2>1, <2>5
    <3>2. \A j \in i+1..n+1 : d[j] = g[j]
      BY <2>4, <3>1
    <3> QED  BY <2>4, <3>2
  <2>6. ASSUME NEW i \in 1..n, i > n - (k + 1)  PROVE  d[i] = F[<<i, d>>]
    <3>1. i >= m /\ i \in 1..n+1
      BY <2>6
    <3>2. CASE i = m
      BY <2>4, <2>5, <3>1, <3>2
    <3>3. CASE i # m
      <4>1. i > n - k
        BY <3>1, <3>3
      <4>2. g[i] = F[<<i, g>>]
        BY <2>2, <4>1
      <4> QED  BY <2>4, <2>5, <3>1, <3>3, <4>2
    <3> QED  BY <3>2, <3>3
  <2>7. d[n + 1] = end
    <3>1. n + 1 \in 1..n+1
      OBVIOUS
    <3> QED  BY <2>1, <2>2, <2>4, <3>1
  <2> QED  BY <2>4, <2>6, <2>7
<1> HIDE DEF S
<1>3. \A k \in Nat : k \in S
  BY <1>1, <1>2, SetInduction
<1>4. n \in S /\ n <= n
  BY <1>3
<1> HIDE DEF Good
<1>5. PICK g \in [1..n+1 -> X] : Good(n, g)
  BY <1>4 DEF S
<1>6. \A i \in 1..n : i > n - n
  OBVIOUS
<1> QED  BY <1>5, <1>6 DEF Good
=============================================================================

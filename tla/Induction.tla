----------------------------- MODULE Induction -----------------------------
(***************************************************************************)
(* Induction over the naturals, without an operator for a parameter: what  *)
(* holds of a number is that it belongs to a set.  The proofs about the    *)
(* recursive functions of the models rest on it.  Then what the library    *)
(* does not say of sequences: what is left when an element is removed.     *)
(***************************************************************************)
EXTENDS Integers, SequenceTheorems, FiniteSetTheorems, WellFoundedInduction, TLAPS

\* Of some finite sets one contains no other.
LEMMA MinimalSet ==
  ASSUME NEW S, NEW F \in SUBSET FiniteSubsetsOf(S), F # {}
  PROVE  \E T \in F : \A U \in F : U \subseteq T => U = T
<1>1. PICK T \in F : \A U \in F : <<U, T>> \notin StrictSubsetOrdering(S)
  BY FS_StrictSubsetOrderingWellFounded, WFMin
<1>2. \A U \in F : U \in SUBSET S
  BY DEF FiniteSubsetsOf
<1>. QED
  BY <1>1, <1>2 DEF StrictSubsetOrdering

\* A set with 0, and with the successor of each number in it, has them all.
LEMMA SetInduction ==
  ASSUME NEW I, 0 \in I, \A n \in Nat : n \in I => n + 1 \in I
  PROVE  \A n \in Nat : n \in I
<1>. SUFFICES ASSUME NEW n \in Nat, n \notin I PROVE FALSE
  OBVIOUS
<1>. DEFINE F == {0 .. k : k \in Nat \ I}
<1>1. \A k \in Nat : 0 .. k \in FiniteSubsetsOf(Nat)
  <2>. TAKE k \in Nat
  <2>1. IsFiniteSet(0 .. k)
    BY FS_Interval
  <2>2. 0 .. k \subseteq Nat
    OBVIOUS
  <2>. QED
    BY <2>1, <2>2 DEF FiniteSubsetsOf
<1>2. F \subseteq FiniteSubsetsOf(Nat) /\ 0 .. n \in F
  BY <1>1
<1>3. PICK T \in F : \A U \in F : U \subseteq T => U = T
  <2>. HIDE DEF F
  <2>. QED BY <1>2, MinimalSet
<1>4. PICK k \in Nat \ I : T = 0 .. k
  OBVIOUS
<1>5. k # 0
  OBVIOUS
<1>6. k - 1 \in Nat /\ (k - 1) + 1 = k
  BY <1>5
<1>7. k - 1 \notin I
  BY <1>6
<1>8. 0 .. (k - 1) \in F
  BY <1>6, <1>7
<1>9. 0 .. (k - 1) \subseteq 0 .. k /\ k \in 0 .. k /\ k \notin 0 .. (k - 1)
  BY <1>6
<1>. QED
  BY <1>3, <1>4, <1>8, <1>9

\* base is the first value of a function on an interval, and step gives each
\* value from the one before.
Recurs(f, lo, hi, base, step) ==
    \A i \in lo .. hi : f[i] = IF i = lo THEN base ELSE step[<<i, f[i - 1]>>]

\* A function that is defined by recursion over an interval exists.
LEMMA RecursionDefines ==
  ASSUME NEW lo \in Int, NEW hi \in Int, NEW S, NEW base \in S,
         NEW step, \A i \in lo .. hi, a \in S : i # lo => step[<<i, a>>] \in S
  PROVE  \E f \in [lo .. hi -> S] : Recurs(f, lo, hi, base, step)
<1>. DEFINE Defines(f, n) == \A i \in lo .. n : f[i] = IF i = lo THEN base ELSE step[<<i, f[i - 1]>>]
            I == {n \in Nat : lo + n <= hi => \E f \in [lo .. lo + n -> S] : Defines(f, lo + n)}
<1>1. 0 \in I
  <2>1. [i \in lo .. lo + 0 |-> base] \in [lo .. lo + 0 -> S]
    OBVIOUS
  <2>2. Defines([i \in lo .. lo + 0 |-> base], lo + 0)
    OBVIOUS
  <2>. QED
    BY <2>1, <2>2
<1>2. ASSUME NEW n \in Nat, n \in I PROVE n + 1 \in I
  <2>. SUFFICES ASSUME lo + (n + 1) <= hi
                PROVE  \E f \in [lo .. lo + (n + 1) -> S] : Defines(f, lo + (n + 1))
    OBVIOUS
  <2>. DEFINE m == lo + n
  <2>0. /\ m \in Int /\ m >= lo /\ m + 1 = lo + (n + 1)
        /\ m + 1 \in lo .. hi /\ m + 1 # lo
    OBVIOUS
  <2>1. PICK f \in [lo .. m -> S] : Defines(f, m)
    BY <1>2
  <2>. HIDE DEF m
  <2>. DEFINE g == [i \in lo .. m + 1 |-> IF i = m + 1 THEN step[<<m + 1, f[m]>>] ELSE f[i]]
  <2>2. f[m] \in S /\ step[<<m + 1, f[m]>>] \in S
    BY <2>0
  <2>3. \A i \in lo .. m : i \in lo .. m + 1 /\ i # m + 1 /\ f[i] \in S
    BY <2>0
  <2>4. /\ \A i \in lo .. m : g[i] = f[i]
        /\ g[m + 1] = step[<<m + 1, f[m]>>]
        /\ g \in [lo .. m + 1 -> S]
    <3>1. \A i \in lo .. m + 1 : i = m + 1 \/ i \in lo .. m
      BY <2>0
    <3>2. m + 1 \in lo .. m + 1
      BY <2>0
    <3>. QED
      BY <2>2, <2>3, <3>1, <3>2
  <2>. HIDE DEF g
  <2>5. ASSUME NEW i \in lo .. m + 1 PROVE g[i] = IF i = lo THEN base ELSE step[<<i, g[i - 1]>>]
    <3>1. CASE i = m + 1
      <4>1. m \in lo .. m /\ i - 1 = m /\ i # lo
        BY <3>1, <2>0
      <4>. QED
        BY <4>1, <3>1, <2>4
    <3>2. CASE i \in lo .. m
      <4>1. f[i] = IF i = lo THEN base ELSE step[<<i, f[i - 1]>>]
        BY <2>1, <3>2
      <4>2. i = lo \/ i - 1 \in lo .. m
        BY <3>2, <2>0
      <4>. QED
        BY <4>1, <4>2, <3>2, <2>4
    <3>. QED
      BY <3>1, <3>2, <2>0
  <2>. QED
    BY <2>0, <2>4, <2>5
<1>3. \A n \in Nat : n \in I
  <2>. HIDE DEF I
  <2>. QED BY <1>1, <1>2, SetInduction
<1>4. CASE lo <= hi
  <2>1. /\ hi - lo \in Nat /\ lo + (hi - lo) = hi
        /\ hi - lo \in I
    <3>. HIDE DEF I
    <3>. QED BY <1>3, <1>4
  <2>2. PICK f \in [lo .. hi -> S] : Defines(f, hi)
    <3>1. \E f \in [lo .. lo + (hi - lo) -> S] : Defines(f, lo + (hi - lo))
      <4>. HIDE DEF Defines
      <4>. QED
        BY <2>1
    <3>. QED
      BY <2>1, <3>1
  <2>. QED
    BY <2>2 DEF Recurs
<1>5. CASE hi < lo
  <2>1. lo .. hi = {}
    BY <1>5
  <2>2. [i \in lo .. hi |-> base] \in [lo .. hi -> S]
    OBVIOUS
  <2>. QED
    BY <2>1, <2>2 DEF Recurs
<1>. QED
  BY <1>4, <1>5

\* A set of numbers below some bound has a largest one.
LEMMA LargestExists ==
  ASSUME NEW n \in Nat, NEW S \in SUBSET (0 .. n), S # {}
  PROVE  \E k \in S : \A l \in S : l <= k
<1>. DEFINE I == {m \in Nat : \A T \in SUBSET (0 .. m) : T # {} => \E k \in T : \A l \in T : l <= k}
<1>1. 0 \in I
  <2>1. \A T \in SUBSET (0 .. 0) : T # {} => 0 \in T /\ \A l \in T : l <= 0
    <3>. TAKE T \in SUBSET (0 .. 0)
    <3>1. T \subseteq {0}
      OBVIOUS
    <3>2. T # {} => T = {0}
      BY <3>1, Zenon
    <3>. QED
      BY <3>2
  <2>. QED
    BY <2>1
<1>2. ASSUME NEW m \in Nat, m \in I PROVE m + 1 \in I
  <2>. SUFFICES ASSUME NEW T \in SUBSET (0 .. m + 1), T # {}
                PROVE  \E k \in T : \A l \in T : l <= k
    OBVIOUS
  <2>1. CASE m + 1 \in T
    BY <2>1
  <2>2. CASE m + 1 \notin T
    <3>1. T \subseteq 0 .. m
      BY <2>2
    <3>. QED
      BY <3>1, <1>2
  <2>. QED
    BY <2>1, <2>2
<1>3. n \in I
  <2>. HIDE DEF I
  <2>. QED BY <1>1, <1>2, SetInduction
<1>. QED
  BY <1>3

\* A set of numbers has a smallest one.
LEMMA SmallestExists ==
  ASSUME NEW S \in SUBSET Nat, S # {}
  PROVE  \E k \in S : \A l \in S : k <= l
<1>1. PICK n \in S : TRUE
  OBVIOUS
<1>. DEFINE T == {n - k : k \in {k \in S : k <= n}}
<1>2. T \subseteq 0 .. n /\ T # {}
  BY <1>1
<1>3. PICK k \in T : \A l \in T : l <= k
  BY <1>2, LargestExists
<1>4. n - k \in S /\ k >= 0
  BY <1>3
<1>5. ASSUME NEW l \in S PROVE n - k <= l
  <2>1. CASE l <= n
    <3>1. n - l \in T
      BY <2>1
    <3>2. n - l <= k /\ k \in Int
      BY <3>1, <1>2, <1>3
    <3>. QED
      BY <3>2
  <2>2. CASE l > n
    BY <2>2, <1>4
  <2>. QED
    BY <2>1, <2>2
<1>. QED
  BY <1>4, <1>5

\* RemoveAt of the community modules.
SeqWithout(s, n) == SubSeq(s, 1, n - 1) \o SubSeq(s, n + 1, Len(s))

\* Removing an element keeps the others, in their order.
LEMMA ElementRemoved ==
  ASSUME NEW S, NEW s \in Seq(S), NEW n \in 1 .. Len(s), NEW r, r = SeqWithout(s, n)
  PROVE  /\ r \in Seq(S)
         /\ DOMAIN r = 1 .. Len(s) - 1
         /\ \A m \in DOMAIN r :
              /\ (IF m < n THEN m ELSE m + 1) \in DOMAIN s \ {n}
              /\ r[m] = s[IF m < n THEN m ELSE m + 1]
<1>. DEFINE before == SubSeq(s, 1, n - 1)
            after == SubSeq(s, n + 1, Len(s))
<1>1. /\ Len(s) \in Nat /\ DOMAIN s = 1 .. Len(s)
      /\ \A i \in 1 .. Len(s) : s[i] \in S
  BY LenProperties, ElementOfSeq
<1>2. /\ before \in Seq(S) /\ Len(before) = n - 1
      /\ \A m \in 1 .. n - 1 : before[m] = s[m]
  BY <1>1, SubSeqProperties
<1>3. /\ after \in Seq(S) /\ Len(after) = Len(s) - n
      /\ \A m \in 1 .. Len(s) - n : after[m] = s[n + m]
  <2>1. /\ n + 1 \in Int /\ Len(s) \in Int
        /\ \A i \in n + 1 .. Len(s) : s[i] \in S
        /\ Len(s) - (n + 1) + 1 = Len(s) - n
    BY <1>1
  <2>2. /\ after \in Seq(S)
        /\ Len(after) = IF n + 1 <= Len(s) THEN Len(s) - (n + 1) + 1 ELSE 0
        /\ \A m \in 1 .. Len(s) - n : after[m] = s[n + 1 + m - 1]
    BY <2>1, SubSeqProperties
  <2>3. \A m \in 1 .. Len(s) - n : n + 1 + m - 1 = n + m
    BY <1>1
  <2>. HIDE DEF after
  <2>4. Len(after) = Len(s) - n
    <3>. DEFINE l == Len(s)
    <3>1. l \in Nat /\ n \in 1 .. l
      BY <1>1
    <3>. HIDE DEF l
    <3>2. (IF n + 1 <= l THEN l - (n + 1) + 1 ELSE 0) = l - n
      BY <3>1
    <3>. QED
      BY <2>2, <3>2 DEF l
  <2>5. \A m \in 1 .. Len(s) - n : after[m] = s[n + m]
    BY <2>2, <2>3
  <2>. QED
    BY <2>2, <2>4, <2>5
<1>. DEFINE q == before \o after
<1>4. r = q
  BY DEF SeqWithout
<1>. HIDE DEF before, after
<1>5. /\ q \in Seq(S)
      /\ DOMAIN q = 1 .. Len(s) - 1
      /\ \A m \in 1 .. Len(s) - 1 :
           q[m] = IF m <= n - 1 THEN before[m] ELSE after[m - (n - 1)]
  <2>1. /\ before \o after \in Seq(S)
        /\ Len(before \o after) = Len(before) + Len(after)
        /\ \A m \in 1 .. Len(before) + Len(after) :
             (before \o after)[m] = IF m <= Len(before) THEN before[m]
                                    ELSE after[m - Len(before)]
    BY <1>2, <1>3, ConcatProperties
  <2>2. Len(before) + Len(after) = Len(s) - 1
    BY <1>1, <1>2, <1>3
  <2>3. DOMAIN (before \o after) = 1 .. Len(s) - 1
    BY <2>1, <2>2, LenProperties
  <2>. QED
    BY <1>2, <2>1, <2>2, <2>3 DEF q
<1>. HIDE DEF q
<1>6. ASSUME NEW m \in 1 .. Len(s) - 1
      PROVE  /\ (IF m < n THEN m ELSE m + 1) \in DOMAIN s \ {n}
             /\ q[m] = s[IF m < n THEN m ELSE m + 1]
  <2>1. CASE m < n
    BY <1>1, <1>2, <1>5, <2>1
  <2>2. CASE m >= n
    <3>1. m - (n - 1) \in 1 .. Len(s) - n /\ n + (m - (n - 1)) = m + 1
      BY <1>1, <2>2
    <3>. QED
      BY <1>1, <1>3, <1>5, <2>2, <3>1
  <2>. QED
    BY <1>1, <2>1, <2>2
<1>. QED
  BY <1>4, <1>5, <1>6
=============================================================================

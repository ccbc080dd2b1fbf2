------------------------- MODULE DisplayListRegionProofs --------------------
(***************************************************************************)
(* Proofs about DisplayListRegion, for any rectangles and any threshold of *)
(* the binary search: canonical lines hold the pixels that are asked for,  *)
(* and the bounds are exactly around these (IsArea).                       *)
(*                                                                         *)
(* Each loop of the code is a function from the number of its rounds       *)
(* (WalkExists), and a set says what may be true after so many of them     *)
(* (UnionWalks, SweepWalks, Descending, ...), which one more round keeps.  *)
(***************************************************************************)
EXTENDS DisplayListRegion, SequenceTheorems, FiniteSetTheorems, Induction

-----------------------------------------------------------------------------
(* Loops                                                                   *)

\* What a walk can be after each number of rounds is kept by a round.
LEMMA WalkStays ==
  ASSUME NEW n \in Nat, NEW T, NEW f, f[0] \in T[0],
         \A k \in 1 .. n : f[k - 1] \in T[k - 1] => f[k] \in T[k]
  PROVE  \A k \in 0 .. n : f[k] \in T[k]
<1>. DEFINE I == {m \in Nat : m <= n => f[m] \in T[m]}
<1>1. 0 \in I
  OBVIOUS
<1>2. ASSUME NEW m \in Nat, m \in I PROVE m + 1 \in I
  <2>1. m + 1 <= n => m + 1 \in 1 .. n /\ (m + 1) - 1 = m
    OBVIOUS
  <2>. QED
    BY <2>1, <1>2
<1>3. \A m \in Nat : m \in I
  <2>. HIDE DEF I
  <2>. QED
    BY <1>1, <1>2, SetInduction
<1>. QED
  BY <1>3

\* A walk: each round takes it on, within what it can be.
WalkIs(f, n, T, start, step) ==
    /\ f = [k \in 0 .. n |-> IF k = 0 THEN start ELSE step[<<k, f[k - 1]>>]]
    /\ \A k \in 0 .. n : f[k] \in T[k]

\* A walk exists.
LEMMA WalkExists ==
  ASSUME NEW n \in Nat, NEW T, NEW start, NEW step, start \in T[0],
         \A k \in 1 .. n : \A w \in T[k - 1] : step[<<k, w>>] \in T[k]
  PROVE  \E f : WalkIs(f, n, T, start, step)
<1>. DEFINE Defines(f, m) == f = [k \in 0 .. m |-> IF k = 0 THEN start ELSE step[<<k, f[k - 1]>>]]
            I == {m \in Nat : m <= n => \E f : Defines(f, m)}
<1>1. 0 \in I
  <2>1. Defines([k \in 0 .. 0 |-> start], 0)
    OBVIOUS
  <2>. QED
    BY <2>1
<1>2. ASSUME NEW m \in Nat, m \in I PROVE m + 1 \in I
  <2>. SUFFICES ASSUME m + 1 <= n PROVE \E f : Defines(f, m + 1)
    OBVIOUS
  <2>1. PICK f : Defines(f, m)
    BY <1>2
  <2>. DEFINE g == [k \in 0 .. m + 1 |-> IF k = m + 1 THEN step[<<k, f[m]>>] ELSE f[k]]
  <2>2. ASSUME NEW k \in 0 .. m + 1, k # 0 PROVE g[k] = step[<<k, g[k - 1]>>]
    <3>1. k - 1 \in 0 .. m /\ k - 1 \in 0 .. m + 1 /\ k - 1 # m + 1
      BY <2>2
    <3>2. g[k - 1] = f[k - 1]
      BY <3>1
    <3>3. CASE k = m + 1
      BY <3>2, <3>3
    <3>4. CASE k # m + 1
      <4>1. k \in 0 .. m
        BY <3>4
      <4>2. f[k] = step[<<k, f[k - 1]>>]
        BY <4>1, <2>1, <2>2
      <4>. QED
        BY <4>1, <4>2, <3>2, <3>4
    <3>. QED
      BY <3>3, <3>4
  <2>3. g[0] = start
    <3>1. 0 \in 0 .. m /\ 0 \in 0 .. m + 1 /\ 0 # m + 1
      OBVIOUS
    <3>. QED
      BY <3>1, <2>1
  <2>4. Defines(g, m + 1)
    <3>1. g = [k \in 0 .. m + 1 |-> g[k]]
      OBVIOUS
    <3>. HIDE DEF g
    <3>. QED
      BY <3>1, <2>2, <2>3
  <2>. QED
    BY <2>4
<1>3. n \in I
  <2>. HIDE DEF I
  <2>. QED
    BY <1>1, <1>2, SetInduction
<1>4. PICK f : Defines(f, n)
  BY <1>3
<1>5. f[0] \in T[0] /\ \A k \in 1 .. n : f[k - 1] \in T[k - 1] => f[k] \in T[k]
  <2>1. f[0] = start
    <3>1. 0 \in 0 .. n
      OBVIOUS
    <3>. QED
      BY <3>1, <1>4
  <2>2. ASSUME NEW k \in 1 .. n, f[k - 1] \in T[k - 1] PROVE f[k] \in T[k]
    <3>1. k \in 0 .. n /\ k # 0
      OBVIOUS
    <3>2. f[k] = step[<<k, f[k - 1]>>]
      BY <3>1, <1>4
    <3>. QED
      BY <3>2, <2>2
  <2>. QED
    BY <2>1, <2>2
<1>6. \A k \in 0 .. n : f[k] \in T[k]
  <2>. HIDE DEF Defines
  <2>. QED
    BY <1>5, WalkStays
<1>. QED
  BY <1>4, <1>6 DEF WalkIs

-----------------------------------------------------------------------------
(* Spans                                                                   *)

SpanSet == [left : Nat, right : Nat]

InSpan(s, x) == s.left <= x /\ x < s.right

\* Spans go right, and none is empty or touches the next.
GoRight(s) ==
    /\ s \in Seq(SpanSet)
    /\ \A k \in 1 .. Len(s) : s[k].left < s[k].right
    /\ \A k \in 1 .. Len(s) : k > 1 => s[k - 1].right < s[k].left

\* A column is in the spans from one on.
CoveredFrom(s, i, x) == \E k \in i .. Len(s) : InSpan(s[k], x)

\* What is known of each span of such a row.
LEMMA SpanIs ==
  ASSUME NEW s, GoRight(s)
  PROVE  /\ Len(s) \in Nat
         /\ \A k \in 1 .. Len(s) : s[k] \in SpanSet /\ s[k].left \in Nat /\ s[k].right \in Nat
                                   /\ s[k].left < s[k].right
         /\ \A k \in 1 .. Len(s) : k + 1 \in 1 .. Len(s) => s[k].right < s[k + 1].left
<1>1. s \in Seq(SpanSet) /\ Len(s) \in Nat
  BY DEF GoRight
<1>2. \A k \in 1 .. Len(s) : s[k] \in SpanSet
  BY <1>1
<1>3. \A k \in 1 .. Len(s) : s[k].left \in Nat /\ s[k].right \in Nat
  BY <1>2 DEF SpanSet
<1>4. ASSUME NEW k \in 1 .. Len(s), k + 1 \in 1 .. Len(s) PROVE s[k].right < s[k + 1].left
  <2>1. PICK l \in 1 .. Len(s) : l = k + 1
    BY <1>4
  <2>2. l > 1 /\ l - 1 = k
    BY <2>1
  <2>3. s[l - 1].right < s[l].left
    BY <2>2 DEF GoRight
  <2>. QED
    BY <2>1, <2>2, <2>3
<1>. QED
  BY <1>1, <1>2, <1>3, <1>4 DEF GoRight

\* Of two spans the later one is further right.
LEMMA SpansApart ==
  ASSUME NEW s, GoRight(s)
  PROVE  \A k, l \in 1 .. Len(s) : k < l => s[k].right < s[l].left
<1>. DEFINE I == {d \in Nat : \A k, l \in 1 .. Len(s) : l = k + 1 + d => s[k].right < s[l].left}
<1>1. 0 \in I
  <2>1. \A k, l \in 1 .. Len(s) : l = k + 1 + 0 => l = k + 1
    OBVIOUS
  <2>. QED
    BY <2>1, SpanIs
<1>2. ASSUME NEW d \in Nat, d \in I PROVE d + 1 \in I
  <2>. SUFFICES ASSUME NEW k \in 1 .. Len(s), NEW l \in 1 .. Len(s), l = k + 1 + (d + 1)
                PROVE  s[k].right < s[l].left
    OBVIOUS
  <2>1. PICK m \in 1 .. Len(s) : m = l - 1
    OBVIOUS
  <2>2. m = k + 1 + d /\ m + 1 = l
    BY <2>1
  <2>3. s[k].right < s[m].left
    BY <2>2, <1>2
  <2>4. s[m].left < s[m].right /\ s[m].right < s[l].left
    BY <2>2, SpanIs
  <2>5. s[k].right \in Nat /\ s[m].left \in Nat /\ s[m].right \in Nat /\ s[l].left \in Nat
    BY SpanIs
  <2>. QED
    BY <2>3, <2>4, <2>5
<1>3. \A d \in Nat : d \in I
  <2>. HIDE DEF I
  <2>. QED
    BY <1>1, <1>2, SetInduction
<1>. SUFFICES ASSUME NEW k \in 1 .. Len(s), NEW l \in 1 .. Len(s), k < l PROVE s[k].right < s[l].left
  OBVIOUS
<1>4. l - k - 1 \in Nat /\ l = k + 1 + (l - k - 1)
  OBVIOUS
<1>5. l - k - 1 \in I
  <2>. HIDE DEF I
  <2>. QED
    BY <1>3, <1>4
<1>. QED
  BY <1>4, <1>5

\* The spans from one on are that one and those from the next on, further right.
LEMMA CoveredStep ==
  ASSUME NEW s, GoRight(s), NEW i \in 1 .. Len(s)
  PROVE  \A x \in Nat :
            /\ CoveredFrom(s, i, x) <=> InSpan(s[i], x) \/ CoveredFrom(s, i + 1, x)
            /\ CoveredFrom(s, i, x) => s[i].left <= x
            /\ CoveredFrom(s, i + 1, x) => s[i].right < x
<1>. TAKE x \in Nat
<1>1. Len(s) \in Nat /\ \A k \in 1 .. Len(s) : s[k].left \in Nat /\ s[k].right \in Nat
                                               /\ s[k].left < s[k].right
  BY SpanIs
<1>2. \A k \in i .. Len(s) : k \in 1 .. Len(s) /\ (k = i \/ (k \in i + 1 .. Len(s) /\ i < k))
  BY <1>1
<1>3. i \in i .. Len(s) /\ \A k \in i + 1 .. Len(s) : k \in i .. Len(s)
  BY <1>1
<1>4. CoveredFrom(s, i, x) <=> InSpan(s[i], x) \/ CoveredFrom(s, i + 1, x)
  BY <1>2, <1>3 DEF CoveredFrom
<1>5. CoveredFrom(s, i + 1, x) => s[i].right < x
  <2>. SUFFICES ASSUME NEW k \in i + 1 .. Len(s), InSpan(s[k], x) PROVE s[i].right < x
    BY DEF CoveredFrom
  <2>1. k \in 1 .. Len(s) /\ i < k
    BY <1>2, <1>3
  <2>2. s[i].right < s[k].left
    BY <2>1, SpansApart
  <2>3. s[k].left \in Nat /\ s[i].right \in Nat /\ s[k].left <= x
    BY <2>1, <1>1 DEF InSpan
  <2>. QED
    BY <2>2, <2>3
<1>6. InSpan(s[i], x) => s[i].left <= x
  BY DEF InSpan
<1>7. s[i].left \in Nat /\ s[i].right \in Nat /\ s[i].left < s[i].right
  BY <1>1
<1>. QED
  BY <1>4, <1>5, <1>6, <1>7

\* There are none from the end on.
LEMMA CoveredEnd ==
  ASSUME NEW s, Len(s) \in Nat, NEW i \in Nat, i > Len(s), NEW x
  PROVE  ~ CoveredFrom(s, i, x)
  BY DEF CoveredFrom

\* The next span from the left is taken in.
LEMMA Accumulated ==
  ASSUME NEW s, GoRight(s), NEW span \in SpanSet, span.left < span.right,
         s # <<>> => Last(s).left <= span.left,
         NEW r, r = Accumulate(s, span)
  PROVE  /\ GoRight(r) /\ r # <<>> /\ Last(r).left <= span.left
         /\ \A x \in Nat : CoveredFrom(r, 1, x) <=> CoveredFrom(s, 1, x) \/ InSpan(span, x)
<1>1. PICK n \in Nat : n = Len(s)
  BY SpanIs
<1>2. /\ \A k \in 1 .. n : s[k] \in SpanSet /\ s[k].left \in Nat /\ s[k].right \in Nat
                           /\ s[k].left < s[k].right
      /\ \A k \in 1 .. n : k > 1 => s[k - 1].right < s[k].left
      /\ s \in Seq(SpanSet)
  BY <1>1, SpanIs DEF GoRight
<1>3. span.left \in Nat /\ span.right \in Nat
  BY DEF SpanSet
<1>4. CASE s = <<>> \/ span.left > Last(s).right
  <2>1. r = Append(s, span)
    BY <1>4 DEF Accumulate
  <2>2. /\ r \in Seq(SpanSet) /\ r # <<>> /\ Len(r) = n + 1
        /\ \A k \in 1 .. n : r[k] = s[k]
        /\ r[n + 1] = span
    BY <2>1, <1>1, <1>2, AppendProperties
  <2>3. \A k \in 1 .. n + 1 : k \in 1 .. n \/ k = n + 1
    OBVIOUS
  <2>4. \A k \in 1 .. n + 1 : r[k].left < r[k].right
    BY <2>2, <2>3, <1>2
  <2>5. ASSUME NEW k \in 1 .. n + 1, k > 1 PROVE r[k - 1].right < r[k].left
    <3>1. CASE k \in 1 .. n
      <4>1. k - 1 \in 1 .. n
        BY <3>1, <2>5
      <4>. QED
        BY <4>1, <3>1, <2>2, <2>5, <1>2
    <3>2. CASE k = n + 1
      <4>1. n > 0 /\ k - 1 = n /\ n \in 1 .. n
        BY <3>2, <2>5
      <4>2. s # <<>> /\ Last(s) = s[n]
        BY <4>1, <1>1 DEF Last
      <4>3. s[n].right < span.left
        <5>1. s[n].right \in Nat
          BY <4>1, <1>2
        <5>. QED
          BY <4>2, <5>1, <1>3, <1>4
      <4>. QED
        BY <4>1, <4>3, <3>2, <2>2
    <3>. QED
      BY <3>1, <3>2, <2>3
  <2>6. GoRight(r)
    BY <2>2, <2>4, <2>5 DEF GoRight
  <2>7. Last(r) = span
    BY <2>2 DEF Last
  <2>8. ASSUME NEW x \in Nat PROVE CoveredFrom(r, 1, x) <=> CoveredFrom(s, 1, x) \/ InSpan(span, x)
    <3>1. n + 1 \in 1 .. n + 1 /\ \A k \in 1 .. n : k \in 1 .. n + 1
      OBVIOUS
    <3>. QED
      BY <3>1, <2>2, <2>3, <1>1 DEF CoveredFrom
  <2>. QED
    BY <2>2, <2>6, <2>7, <2>8, <1>3
<1>5. CASE s # <<>> /\ ~ (span.left > Last(s).right)
  <2>1. n \in 1 .. n /\ Last(s) = s[n] /\ n > 0
    BY <1>5, <1>1, <1>2 DEF Last
  <2>2. PICK right \in Nat : right = Greatest(s[n].right, span.right)
    BY <2>1, <1>2, <1>3 DEF Greatest
  <2>3. /\ right >= s[n].right /\ right >= span.right /\ right \in {s[n].right, span.right}
        /\ span.left <= s[n].right /\ s[n].left <= span.left
    BY <2>1, <2>2, <1>2, <1>3, <1>5 DEF Greatest
  <2>4. r = [s EXCEPT ![n].right = right]
    BY <1>5, <2>2, <1>1 DEF Accumulate
  <2>5. PICK last \in SpanSet : last = [left |-> s[n].left, right |-> right]
    BY <2>1, <1>2 DEF SpanSet
  <2>6. s[n] = [left |-> s[n].left, right |-> s[n].right]
    BY <2>1, <1>2 DEF SpanSet
  <2>7. [s[n] EXCEPT !.right = right] = last
    BY <2>5, <2>6
  <2>8. r = [s EXCEPT ![n] = last]
    BY <2>4, <2>7
  <2>9. r \in Seq(SpanSet) /\ Len(r) = n /\ r[n] = last /\ \A k \in 1 .. n : k # n => r[k] = s[k]
    BY <2>8, <2>1, <1>1, <1>2
  <2>10. last.left = s[n].left /\ last.right = right
    BY <2>5
  <2>11. ASSUME NEW k \in 1 .. n PROVE r[k].left < r[k].right /\ (k > 1 => r[k - 1].right < r[k].left)
    <3>1. r[k].left = s[k].left /\ r[k].right >= s[k].right /\ r[k].right \in Nat
      BY <2>2, <2>3, <2>9, <2>10, <1>2, SMTT(40)
    <3>2. k > 1 => k - 1 \in 1 .. n /\ k - 1 # n
      OBVIOUS
    <3>3. k > 1 => r[k - 1] = s[k - 1]
      BY <3>2, <2>9
    <3>. QED
      BY <3>1, <3>3, <1>2
  <2>12. GoRight(r)
    BY <2>9, <2>11 DEF GoRight
  <2>13. Last(r).left <= span.left /\ r # <<>>
    BY <2>1, <2>3, <2>9, <2>10 DEF Last
  <2>14. ASSUME NEW x \in Nat PROVE CoveredFrom(r, 1, x) <=> CoveredFrom(s, 1, x) \/ InSpan(span, x)
    <3>1. InSpan(last, x) <=> InSpan(s[n], x) \/ InSpan(span, x)
      <4>1. s[n].left \in Nat /\ s[n].right \in Nat
        BY <2>1, <1>2
      <4>. QED
        BY <4>1, <2>2, <2>3, <2>10, <1>3 DEF InSpan
    <3>2. \A k \in 1 .. n : k # n => (InSpan(r[k], x) <=> InSpan(s[k], x))
      BY <2>9
    <3>. QED
      BY <3>1, <3>2, <2>1, <2>9, <1>1 DEF CoveredFrom
  <2>. QED
    BY <2>12, <2>13, <2>14
<1>. QED
  BY <1>4, <1>5

-----------------------------------------------------------------------------
(* The walk over two rows of spans                                         *)

\* Both rows of spans up to i and j are in the spans of w.
Uniting(s, t, w) ==
    /\ w.i \in 1 .. Len(s) + 1 /\ w.j \in 1 .. Len(t) + 1
    /\ GoRight(w.spans)
    /\ w.spans # <<>> => /\ w.i <= Len(s) => Last(w.spans).left <= s[w.i].left
                         /\ w.j <= Len(t) => Last(w.spans).left <= t[w.j].left
    /\ w.i + w.j > 2 => w.spans # <<>>
    /\ \A x \in Nat : CoveredFrom(s, 1, x) \/ CoveredFrom(t, 1, x)
                        <=> \/ CoveredFrom(w.spans, 1, x)
                            \/ CoveredFrom(s, w.i, x) \/ CoveredFrom(t, w.j, x)

\* What it can be after k rounds.
UnionWalks(s, t, k) ==
    {w \in [spans : Seq(SpanSet), i : Nat, j : Nat] : Uniting(s, t, w) /\ w.i + w.j = k + 2}

\* A round of the walk keeps what it has found and has left.
LEMMA UnionSpanKeeps ==
  ASSUME NEW s, GoRight(s), NEW t, GoRight(t), NEW k \in Nat, k < Len(s) + Len(t),
         NEW w \in UnionWalks(s, t, k)
  PROVE  UnionSpan(s, t, w) \in UnionWalks(s, t, k + 1)
<1>1. PICK n \in Nat, m \in Nat : n = Len(s) /\ m = Len(t)
  BY SpanIs
<1>2. PICK i \in Nat, j \in Nat, q \in Seq(SpanSet) : w = [spans |-> q, i |-> i, j |-> j]
  BY DEF UnionWalks
<1>3. w.i = i /\ w.j = j /\ w.spans = q
  BY <1>2
<1>4. /\ i \in 1 .. n + 1 /\ j \in 1 .. m + 1 /\ i + j = k + 2 /\ GoRight(q)
      /\ q # <<>> => (i <= n => Last(q).left <= s[i].left) /\ (j <= m => Last(q).left <= t[j].left)
      /\ \A x \in Nat : CoveredFrom(s, 1, x) \/ CoveredFrom(t, 1, x)
                        <=> CoveredFrom(q, 1, x) \/ CoveredFrom(s, i, x) \/ CoveredFrom(t, j, x)
  BY <1>1, <1>3 DEF UnionWalks, Uniting
<1>5. i <= n \/ j <= m
  BY <1>1, <1>4
<1>6. /\ \A l \in 1 .. n : s[l] \in SpanSet /\ s[l].left \in Nat /\ s[l].left < s[l].right
      /\ \A l \in 1 .. m : t[l] \in SpanSet /\ t[l].left \in Nat /\ t[l].left < t[l].right
  BY <1>1, SpanIs
<1>7. CASE j > m \/ (i <= n /\ s[i].left < t[j].left)
  <2>1. i \in 1 .. n
    BY <1>7, <1>5, <1>4
  <2>2. PICK r : r = Accumulate(q, s[i])
    OBVIOUS
  <2>3. UnionSpan(s, t, w) = [spans |-> r, i |-> i + 1, j |-> j]
    BY <1>1, <1>2, <1>3, <1>7, <2>2 DEF UnionSpan
  <2>4. /\ GoRight(r) /\ r # <<>> /\ Last(r).left <= s[i].left
        /\ \A x \in Nat : CoveredFrom(r, 1, x) <=> CoveredFrom(q, 1, x) \/ InSpan(s[i], x)
    BY <2>1, <2>2, <1>4, <1>6, Accumulated
  <2>5. \A x \in Nat : CoveredFrom(s, i, x) <=> InSpan(s[i], x) \/ CoveredFrom(s, i + 1, x)
    BY <2>1, <1>1, CoveredStep
  <2>6. \A x \in Nat : CoveredFrom(s, 1, x) \/ CoveredFrom(t, 1, x)
                        <=> CoveredFrom(r, 1, x) \/ CoveredFrom(s, i + 1, x) \/ CoveredFrom(t, j, x)
    BY <2>4, <2>5, <1>4
  <2>7. r \in Seq(SpanSet) /\ Last(r).left \in Nat
    <3>1. r \in Seq(SpanSet) /\ Len(r) \in 1 .. Len(r)
      BY <2>4 DEF GoRight
    <3>. QED
      BY <3>1, <2>4, SpanIs DEF Last
  <2>8. i + 1 <= n => Last(r).left <= s[i + 1].left
    <3>. SUFFICES ASSUME i + 1 <= n PROVE Last(r).left <= s[i + 1].left
      OBVIOUS
    <3>1. i + 1 \in 1 .. n /\ i + 1 \in Nat
      BY <2>1
    <3>2. s[i].right < s[i + 1].left /\ s[i].left < s[i].right
      BY <3>1, <2>1, <1>1, SpanIs
    <3>3. s[i].left \in Nat /\ s[i].right \in Nat /\ s[i + 1].left \in Nat
      BY <3>1, <2>1, <1>1, SpanIs
    <3>. QED
      BY <3>2, <3>3, <2>4, <2>7
  <2>9. j <= m => Last(r).left <= t[j].left
    <3>. SUFFICES ASSUME j <= m PROVE Last(r).left <= t[j].left
      OBVIOUS
    <3>1. j \in 1 .. m
      BY <1>4
    <3>2. s[i].left < t[j].left
      BY <1>7, <3>1
    <3>3. s[i].left \in Nat /\ t[j].left \in Nat
      BY <3>1, <2>1, <1>6
    <3>. QED
      BY <3>2, <3>3, <2>4, <2>7
  <2>10. i + 1 \in 1 .. n + 1 /\ i + 1 \in Nat /\ (i + 1) + j = (k + 1) + 2
    BY <2>1, <1>4
  <2>11. PICK v : v = [spans |-> r, i |-> i + 1, j |-> j]
    OBVIOUS
  <2>12. v.spans = r /\ v.i = i + 1 /\ v.j = j /\ v \in [spans : Seq(SpanSet), i : Nat, j : Nat]
    BY <2>7, <2>10, <2>11
  <2>13. Uniting(s, t, v)
    BY <2>4, <2>6, <2>8, <2>9, <2>10, <2>12, <1>1, <1>4 DEF Uniting
  <2>. QED
    BY <2>3, <2>10, <2>11, <2>12, <2>13 DEF UnionWalks
<1>8. CASE ~ (j > m \/ (i <= n /\ s[i].left < t[j].left))
  <2>1. j \in 1 .. m
    BY <1>8, <1>4
  <2>2. PICK r : r = Accumulate(q, t[j])
    OBVIOUS
  <2>3. UnionSpan(s, t, w) = [spans |-> r, i |-> i, j |-> j + 1]
    BY <1>1, <1>2, <1>3, <1>8, <2>2 DEF UnionSpan
  <2>4. /\ GoRight(r) /\ r # <<>> /\ Last(r).left <= t[j].left
        /\ \A x \in Nat : CoveredFrom(r, 1, x) <=> CoveredFrom(q, 1, x) \/ InSpan(t[j], x)
    BY <2>1, <2>2, <1>4, <1>6, Accumulated
  <2>5. \A x \in Nat : CoveredFrom(t, j, x) <=> InSpan(t[j], x) \/ CoveredFrom(t, j + 1, x)
    BY <2>1, <1>1, CoveredStep
  <2>6. \A x \in Nat : CoveredFrom(s, 1, x) \/ CoveredFrom(t, 1, x)
                        <=> CoveredFrom(r, 1, x) \/ CoveredFrom(s, i, x) \/ CoveredFrom(t, j + 1, x)
    BY <2>4, <2>5, <1>4
  <2>7. r \in Seq(SpanSet) /\ Last(r).left \in Nat
    <3>1. r \in Seq(SpanSet) /\ Len(r) \in 1 .. Len(r)
      BY <2>4 DEF GoRight
    <3>. QED
      BY <3>1, <2>4, SpanIs DEF Last
  <2>8. j + 1 <= m => Last(r).left <= t[j + 1].left
    <3>. SUFFICES ASSUME j + 1 <= m PROVE Last(r).left <= t[j + 1].left
      OBVIOUS
    <3>1. j + 1 \in 1 .. m /\ j + 1 \in Nat
      BY <2>1
    <3>2. t[j].right < t[j + 1].left /\ t[j].left < t[j].right
      BY <3>1, <2>1, <1>1, SpanIs
    <3>3. t[j].left \in Nat /\ t[j].right \in Nat /\ t[j + 1].left \in Nat
      BY <3>1, <2>1, <1>1, SpanIs
    <3>. QED
      BY <3>2, <3>3, <2>4, <2>7
  <2>9. i <= n => Last(r).left <= s[i].left
    <3>. SUFFICES ASSUME i <= n PROVE Last(r).left <= s[i].left
      OBVIOUS
    <3>1. i \in 1 .. n
      BY <1>4
    <3>2. ~ (s[i].left < t[j].left)
      BY <1>8, <3>1
    <3>3. s[i].left \in Nat /\ t[j].left \in Nat
      BY <3>1, <2>1, <1>6
    <3>. QED
      BY <3>2, <3>3, <2>4, <2>7
  <2>10. j + 1 \in 1 .. m + 1 /\ j + 1 \in Nat /\ i + (j + 1) = (k + 1) + 2
    BY <2>1, <1>4
  <2>11. PICK v : v = [spans |-> r, i |-> i, j |-> j + 1]
    OBVIOUS
  <2>12. v.spans = r /\ v.i = i /\ v.j = j + 1 /\ v \in [spans : Seq(SpanSet), i : Nat, j : Nat]
    BY <2>7, <2>10, <2>11
  <2>13. Uniting(s, t, v)
    BY <2>4, <2>6, <2>8, <2>9, <2>10, <2>12, <1>1, <1>4 DEF Uniting
  <2>. QED
    BY <2>3, <2>10, <2>11, <2>12, <2>13 DEF UnionWalks
<1>. QED
  BY <1>7, <1>8

\* The spans of two rows together.
LEMMA UnionLineSpansIs ==
  ASSUME NEW s, GoRight(s), NEW t, GoRight(t), s # <<>>, NEW r, r = UnionLineSpans(s, t)
  PROVE  /\ GoRight(r) /\ r # <<>>
         /\ \A x \in Nat : CoveredFrom(r, 1, x) <=> CoveredFrom(s, 1, x) \/ CoveredFrom(t, 1, x)
<1>1. PICK n \in Nat, m \in Nat : n = Len(s) /\ m = Len(t)
  BY SpanIs
<1>2. PICK rounds \in Nat : rounds = Len(s) + Len(t) /\ rounds = n + m
  BY <1>1
<1>3. PICK start : start = [spans |-> <<>>, i |-> 1, j |-> 1]
  OBVIOUS
<1>. DEFINE T == [k \in 0 .. rounds |-> UnionWalks(s, t, k)]
            All == UNION {T[k] : k \in 0 .. rounds}
            step == [p \in (1 .. rounds) \X All |-> UnionSpan(s, t, p[2])]
            Defines(f) == f = [k \in 0 .. rounds |-> IF k = 0 THEN start
                                                     ELSE UnionSpan(s, t, f[k - 1])]
            walk == CHOOSE f : Defines(f)
<1>4. start \in T[0]
  <2>1. start.spans = <<>> /\ start.i = 1 /\ start.j = 1
        /\ start \in [spans : Seq(SpanSet), i : Nat, j : Nat]
    BY <1>3
  <2>2. GoRight(<<>>) /\ \A x \in Nat : ~ CoveredFrom(<<>>, 1, x)
    BY DEF GoRight, CoveredFrom
  <2>3. Uniting(s, t, start)
    BY <2>1, <2>2, <1>1 DEF Uniting
  <2>4. 0 \in 0 .. rounds
    OBVIOUS
  <2>. QED
    BY <2>1, <2>3, <2>4 DEF UnionWalks
<1>5. ASSUME NEW k \in 1 .. rounds, NEW w \in T[k - 1]
      PROVE  UnionSpan(s, t, w) \in T[k] /\ step[<<k, w>>] = UnionSpan(s, t, w)
  <2>1. k - 1 \in 0 .. rounds /\ k \in 0 .. rounds /\ k - 1 \in Nat /\ k - 1 < rounds /\ (k - 1) + 1 = k
    OBVIOUS
  <2>2. w \in UnionWalks(s, t, k - 1) /\ w \in All
    BY <2>1
  <2>3. UnionSpan(s, t, w) \in UnionWalks(s, t, k)
    BY <2>1, <2>2, <1>2, UnionSpanKeeps
  <2>. QED
    BY <2>1, <2>2, <2>3
<1>6. PICK f : WalkIs(f, rounds, T, start, step)
  <2>. HIDE DEF T, step
  <2>1. \A k \in 1 .. rounds : \A w \in T[k - 1] : step[<<k, w>>] \in T[k]
    BY <1>5
  <2>. QED
    BY <2>1, <1>4, WalkExists, Zenon
<1>7. Defines(f)
  <2>1. ASSUME NEW k \in 0 .. rounds, k # 0 PROVE step[<<k, f[k - 1]>>] = UnionSpan(s, t, f[k - 1])
    <3>1. k \in 1 .. rounds /\ k - 1 \in 0 .. rounds
      BY <2>1
    <3>. HIDE DEF T, step
    <3>. QED
      BY <3>1, <1>5, <1>6 DEF WalkIs
  <2>. HIDE DEF T, step
  <2>. QED
    BY <2>1, <1>6 DEF WalkIs
<1>8. Defines(walk)
  <2>. HIDE DEF Defines
  <2>. QED
    BY <1>7
<1>9. walk[0] = start /\ \A k \in 1 .. rounds : walk[k] = UnionSpan(s, t, walk[k - 1])
  <2>1. 0 \in 0 .. rounds /\ \A k \in 1 .. rounds : k \in 0 .. rounds /\ k # 0
    OBVIOUS
  <2>. HIDE DEF walk
  <2>. QED
    BY <2>1, <1>8
<1>10. r = walk[rounds].spans
  BY <1>2, <1>3 DEF UnionLineSpans
<1>11. walk[rounds] \in T[rounds]
  <2>1. walk[0] \in T[0] /\ \A k \in 1 .. rounds : walk[k - 1] \in T[k - 1] => walk[k] \in T[k]
    <3>. HIDE DEF walk, T, step
    <3>. QED
      BY <1>4, <1>5, <1>9
  <2>2. rounds \in 0 .. rounds
    OBVIOUS
  <2>. HIDE DEF walk, T
  <2>. QED
    BY <2>1, <2>2, WalkStays
<1>12. PICK w : w = walk[rounds] /\ w \in UnionWalks(s, t, rounds)
  <2>1. rounds \in 0 .. rounds
    OBVIOUS
  <2>. QED
    BY <1>11, <2>1
<1>13. Uniting(s, t, w) /\ w.i + w.j = n + m + 2 /\ r = w.spans
  BY <1>2, <1>10, <1>12 DEF UnionWalks
<1>14. w.i = n + 1 /\ w.j = m + 1 /\ GoRight(r)
       /\ (w.i + w.j > 2 => r # <<>>)
       /\ \A x \in Nat : CoveredFrom(s, 1, x) \/ CoveredFrom(t, 1, x)
                        <=> CoveredFrom(r, 1, x) \/ CoveredFrom(s, w.i, x) \/ CoveredFrom(t, w.j, x)
  BY <1>1, <1>13 DEF Uniting
<1>15. \A x \in Nat : ~ CoveredFrom(s, n + 1, x) /\ ~ CoveredFrom(t, m + 1, x)
  BY <1>1, CoveredEnd
<1>16. n > 0
  BY <1>1 DEF GoRight
<1>. QED
  BY <1>14, <1>15, <1>16

\* What both rows of spans share up to i or j is in the spans of w.
Meeting(s, t, w) ==
    /\ w.i \in 1 .. Len(s) + 1 /\ w.j \in 1 .. Len(t) + 1
    /\ GoRight(w.spans)
    /\ w.spans # <<>> => \/ w.i <= Len(s) => Last(w.spans).right < s[w.i].left
                         \/ w.j <= Len(t) => Last(w.spans).right < t[w.j].left
    /\ \A x \in Nat : CoveredFrom(s, 1, x) /\ CoveredFrom(t, 1, x)
                        <=> \/ CoveredFrom(w.spans, 1, x)
                            \/ CoveredFrom(s, w.i, x) /\ CoveredFrom(t, w.j, x)

\* What it can be after k rounds.
MeetWalks(s, t, k) ==
    {w \in [spans : Seq(SpanSet), i : Nat, j : Nat] :
       Meeting(s, t, w) /\ (w.i > Len(s) \/ w.j > Len(t) \/ w.i + w.j >= k + 2)}

\* A span more at the end.
LEMMA SpanAppended ==
  ASSUME NEW s, GoRight(s), NEW span \in SpanSet, span.left < span.right,
         s # <<>> => Last(s).right < span.left, NEW r, r = Append(s, span)
  PROVE  /\ GoRight(r) /\ r # <<>> /\ Last(r) = span
         /\ \A x \in Nat : CoveredFrom(r, 1, x) <=> CoveredFrom(s, 1, x) \/ InSpan(span, x)
<1>1. s # <<>> => /\ Last(s).left < Last(s).right /\ Last(s).left \in Nat /\ Last(s).right \in Nat
  <2>. SUFFICES ASSUME s # <<>>
                PROVE  /\ Last(s).left < Last(s).right /\ Last(s).left \in Nat /\ Last(s).right \in Nat
    OBVIOUS
  <2>1. Len(s) \in 1 .. Len(s)
    BY DEF GoRight
  <2>. QED
    BY <2>1, SpanIs DEF Last
<1>2. span.left \in Nat
  BY DEF SpanSet
<1>3. s # <<>> => Last(s).left <= span.left /\ span.left > Last(s).right
  BY <1>1, <1>2
<1>4. r = Accumulate(s, span)
  BY <1>3 DEF Accumulate
<1>5. Last(r) = span
  <2>1. s \in Seq(SpanSet)
    BY DEF GoRight
  <2>2. Len(r) = Len(s) + 1 /\ r[Len(s) + 1] = span
    BY <2>1
  <2>. QED
    BY <2>2 DEF Last
<1>. QED
  BY <1>3, <1>4, <1>5, Accumulated

\* What two rows share from one span of each on.
LEMMA SharedStep ==
  ASSUME NEW s, GoRight(s), NEW t, GoRight(t), NEW i \in 1 .. Len(s), NEW j \in 1 .. Len(t),
         NEW x \in Nat
  PROVE  /\ s[i].right <= t[j].left
              => (CoveredFrom(s, i, x) /\ CoveredFrom(t, j, x)
                    <=> CoveredFrom(s, i + 1, x) /\ CoveredFrom(t, j, x))
         /\ t[j].right <= s[i].left
              => (CoveredFrom(s, i, x) /\ CoveredFrom(t, j, x)
                    <=> CoveredFrom(s, i, x) /\ CoveredFrom(t, j + 1, x))
         /\ s[i].right <= t[j].right
              => (CoveredFrom(s, i, x) /\ CoveredFrom(t, j, x)
                    <=> \/ InSpan(s[i], x) /\ InSpan(t[j], x)
                        \/ CoveredFrom(s, i + 1, x) /\ CoveredFrom(t, j, x))
         /\ t[j].right <= s[i].right
              => (CoveredFrom(s, i, x) /\ CoveredFrom(t, j, x)
                    <=> \/ InSpan(s[i], x) /\ InSpan(t[j], x)
                        \/ CoveredFrom(s, i, x) /\ CoveredFrom(t, j + 1, x))
<1>1. /\ CoveredFrom(s, i, x) <=> InSpan(s[i], x) \/ CoveredFrom(s, i + 1, x)
      /\ CoveredFrom(s, i, x) => s[i].left <= x
      /\ CoveredFrom(s, i + 1, x) => s[i].right < x
  BY CoveredStep
<1>2. /\ CoveredFrom(t, j, x) <=> InSpan(t[j], x) \/ CoveredFrom(t, j + 1, x)
      /\ CoveredFrom(t, j, x) => t[j].left <= x
      /\ CoveredFrom(t, j + 1, x) => t[j].right < x
  BY CoveredStep
<1>3. PICK sl, sr, tl, tr \in Nat : /\ sl = s[i].left /\ sr = s[i].right
                                    /\ tl = t[j].left /\ tr = t[j].right
  BY SpanIs
<1>4. InSpan(s[i], x) <=> sl <= x /\ x < sr
  BY <1>3 DEF InSpan
<1>5. InSpan(t[j], x) <=> tl <= x /\ x < tr
  BY <1>3 DEF InSpan
<1>. QED
  BY <1>1, <1>2, <1>3, <1>4, <1>5, SMTT(40)

\* A round keeps what the walk has found, and passes a span or ends.
LEMMA MeetSpanKeeps ==
  ASSUME NEW s, GoRight(s), NEW t, GoRight(t), NEW k \in Nat, NEW w \in MeetWalks(s, t, k)
  PROVE  MeetSpan(s, t, w) \in MeetWalks(s, t, k + 1)
<1>1. PICK n \in Nat, m \in Nat : n = Len(s) /\ m = Len(t)
  BY SpanIs
<1>2. PICK i \in Nat, j \in Nat, q \in Seq(SpanSet) : w = [spans |-> q, i |-> i, j |-> j]
  BY DEF MeetWalks
<1>3. w.i = i /\ w.j = j /\ w.spans = q
  BY <1>2
<1>4. /\ i \in 1 .. n + 1 /\ j \in 1 .. m + 1 /\ GoRight(q)
      /\ i > n \/ j > m \/ i + j >= k + 2
      /\ q # <<>> => (i <= n => Last(q).right < s[i].left) \/ (j <= m => Last(q).right < t[j].left)
      /\ \A x \in Nat : CoveredFrom(s, 1, x) /\ CoveredFrom(t, 1, x)
                        <=> CoveredFrom(q, 1, x) \/ (CoveredFrom(s, i, x) /\ CoveredFrom(t, j, x))
  BY <1>1, <1>3 DEF MeetWalks, Meeting
<1>5. CASE i > n \/ j > m
  <2>1. MeetSpan(s, t, w) = w
    BY <1>5, <1>1, <1>3 DEF MeetSpan
  <2>. QED
    BY <2>1, <1>5, <1>1, <1>3 DEF MeetWalks
<1>6. CASE i <= n /\ j <= m
  <2>1. i \in 1 .. n /\ j \in 1 .. m /\ ~ (i > n \/ j > m)
    BY <1>4, <1>6
  <2>2. PICK sl, sr, tl, tr \in Nat : /\ sl = s[i].left /\ sr = s[i].right /\ sl < sr
                                      /\ tl = t[j].left /\ tr = t[j].right /\ tl < tr
    BY <2>1, <1>1, SpanIs
  <2>3. /\ i + 1 <= n => sr < s[i + 1].left /\ s[i + 1].left \in Nat
        /\ j + 1 <= m => tr < t[j + 1].left /\ t[j + 1].left \in Nat
    <3>1. i + 1 <= n => i + 1 \in 1 .. n
      BY <2>1
    <3>2. j + 1 <= m => j + 1 \in 1 .. m
      BY <2>1
    <3>. QED
      BY <3>1, <3>2, <2>1, <2>2, <1>1, SpanIs
  <2>4. q # <<>> => Last(q).right \in Nat
    <3>1. q # <<>> => Len(q) \in 1 .. Len(q)
      OBVIOUS
    <3>. QED
      BY <3>1, <1>4, SpanIs DEF Last
  <2>5. CASE sr <= tl
    <3>1. MeetSpan(s, t, w) = [spans |-> q, i |-> i + 1, j |-> j]
      BY <2>1, <2>2, <2>5, <1>1, <1>2, <1>3 DEF MeetSpan
    <3>2. PICK v : v = [spans |-> q, i |-> i + 1, j |-> j]
      OBVIOUS
    <3>3. v.spans = q /\ v.i = i + 1 /\ v.j = j /\ v \in [spans : Seq(SpanSet), i : Nat, j : Nat]
      BY <3>2
    <3>4. q # <<>> => (i + 1 <= n => Last(q).right < s[i + 1].left) \/ (j <= m => Last(q).right < t[j].left)
      BY <1>4, <1>6, <2>2, <2>3, <2>4
    <3>5. \A x \in Nat : CoveredFrom(s, i, x) /\ CoveredFrom(t, j, x)
                           <=> CoveredFrom(s, i + 1, x) /\ CoveredFrom(t, j, x)
      BY <2>1, <2>2, <2>5, <1>1, SharedStep
    <3>6. \A x \in Nat : CoveredFrom(s, 1, x) /\ CoveredFrom(t, 1, x)
                        <=> CoveredFrom(q, 1, x) \/ (CoveredFrom(s, i + 1, x) /\ CoveredFrom(t, j, x))
      BY <3>5, <1>4
    <3>7. i + 1 \in 1 .. n + 1 /\ (i + 1) + j >= (k + 1) + 2
      BY <2>1, <1>4
    <3>8. Meeting(s, t, v)
      BY <3>3, <3>4, <3>6, <3>7, <1>1, <1>4 DEF Meeting
    <3>. QED
      BY <3>1, <3>2, <3>3, <3>7, <3>8 DEF MeetWalks
  <2>6. CASE ~ (sr <= tl) /\ tr <= sl
    <3>1. MeetSpan(s, t, w) = [spans |-> q, i |-> i, j |-> j + 1]
      BY <2>1, <2>2, <2>6, <1>1, <1>2, <1>3 DEF MeetSpan
    <3>2. PICK v : v = [spans |-> q, i |-> i, j |-> j + 1]
      OBVIOUS
    <3>3. v.spans = q /\ v.i = i /\ v.j = j + 1 /\ v \in [spans : Seq(SpanSet), i : Nat, j : Nat]
      BY <3>2
    <3>4. q # <<>> => (i <= n => Last(q).right < s[i].left) \/ (j + 1 <= m => Last(q).right < t[j + 1].left)
      BY <1>4, <1>6, <2>2, <2>3, <2>4
    <3>5. \A x \in Nat : CoveredFrom(s, i, x) /\ CoveredFrom(t, j, x)
                           <=> CoveredFrom(s, i, x) /\ CoveredFrom(t, j + 1, x)
      BY <2>1, <2>2, <2>6, <1>1, SharedStep
    <3>6. \A x \in Nat : CoveredFrom(s, 1, x) /\ CoveredFrom(t, 1, x)
                        <=> CoveredFrom(q, 1, x) \/ (CoveredFrom(s, i, x) /\ CoveredFrom(t, j + 1, x))
      BY <3>5, <1>4
    <3>7. j + 1 \in 1 .. m + 1 /\ i + (j + 1) >= (k + 1) + 2
      BY <2>1, <1>4
    <3>8. Meeting(s, t, v)
      BY <3>3, <3>4, <3>6, <3>7, <1>1, <1>4 DEF Meeting
    <3>. QED
      BY <3>1, <3>2, <3>3, <3>7, <3>8 DEF MeetWalks
  <2>7. CASE ~ (sr <= tl) /\ ~ (tr <= sl)
    <3>1. PICK left, right \in Nat : left = Greatest(sl, tl) /\ right = Least(sr, tr)
      BY DEF Greatest, Least
    <3>2. /\ left < right /\ sl <= left /\ tl <= left /\ right <= sr /\ right <= tr
          /\ left \in {sl, tl} /\ right \in {sr, tr}
      BY <3>1, <2>2, <2>7, SMTT(40) DEF Greatest, Least
    <3>3. PICK i1 \in Nat, j1 \in Nat : /\ i1 = IF sr = right THEN i + 1 ELSE i
                                        /\ j1 = IF tr = right THEN j + 1 ELSE j
      OBVIOUS
    <3>4. PICK span \in SpanSet : span = [left |-> left, right |-> right]
      BY DEF SpanSet
    <3>5. span.left = left /\ span.right = right
      BY <3>4
    <3>6. PICK r : r = Append(q, span)
      OBVIOUS
    <3>7. MeetSpan(s, t, w) = [spans |-> r, i |-> i1, j |-> j1]
      BY <3>1, <3>3, <3>4, <3>6, <2>1, <2>2, <2>7, <1>1, <1>2, <1>3 DEF MeetSpan
    <3>8. q # <<>> => Last(q).right < left
      BY <3>2, <2>2, <2>4, <1>4, <1>6
    <3>9. /\ GoRight(r) /\ r # <<>> /\ Last(r) = span
          /\ \A x \in Nat : CoveredFrom(r, 1, x) <=> CoveredFrom(q, 1, x) \/ InSpan(span, x)
      BY <3>2, <3>5, <3>6, <3>8, <1>4, SpanAppended
    <3>10. ASSUME NEW x \in Nat
           PROVE  CoveredFrom(s, i, x) /\ CoveredFrom(t, j, x)
                    <=> InSpan(span, x) \/ (CoveredFrom(s, i1, x) /\ CoveredFrom(t, j1, x))
      <4>1. InSpan(span, x) <=> InSpan(s[i], x) /\ InSpan(t[j], x)
        BY <3>2, <3>5, <2>2, SMTT(40) DEF InSpan
      <4>2. /\ CoveredFrom(s, i, x) <=> InSpan(s[i], x) \/ CoveredFrom(s, i + 1, x)
            /\ CoveredFrom(s, i + 1, x) => sr < x
            /\ CoveredFrom(t, j, x) <=> InSpan(t[j], x) \/ CoveredFrom(t, j + 1, x)
            /\ CoveredFrom(t, j + 1, x) => tr < x
        BY <2>1, <2>2, <1>1, CoveredStep
      <4>3. (InSpan(s[i], x) => x < sr) /\ (InSpan(t[j], x) => x < tr)
        BY <2>2 DEF InSpan
      <4>4. CASE sr = right /\ tr = right
        <5>1. i1 = i + 1 /\ j1 = j + 1
          BY <4>4, <3>3
        <5>. QED
          BY <5>1, <4>1, <4>2, <4>3, <4>4
      <4>5. CASE sr = right /\ tr # right
        <5>1. i1 = i + 1 /\ j1 = j
          BY <4>5, <3>3
        <5>2. right < tr
          BY <4>5, <3>2
        <5>. QED
          BY <5>1, <5>2, <4>1, <4>2, <4>3, <4>5
      <4>6. CASE sr # right /\ tr = right
        <5>1. i1 = i /\ j1 = j + 1
          BY <4>6, <3>3
        <5>2. right < sr
          BY <4>6, <3>2
        <5>. QED
          BY <5>1, <5>2, <4>1, <4>2, <4>3, <4>6
      <4>. QED
        BY <4>4, <4>5, <4>6, <3>2
    <3>11. \A x \in Nat : CoveredFrom(s, 1, x) /\ CoveredFrom(t, 1, x)
                        <=> CoveredFrom(r, 1, x) \/ (CoveredFrom(s, i1, x) /\ CoveredFrom(t, j1, x))
      BY <3>9, <3>10, <1>4
    <3>12. (i1 <= n => right < s[i1].left) \/ (j1 <= m => right < t[j1].left)
      BY <3>2, <3>3, <2>3
    <3>13. i1 \in 1 .. n + 1 /\ j1 \in 1 .. m + 1 /\ i1 + j1 >= (k + 1) + 2
      BY <3>2, <3>3, <2>1, <1>4
    <3>14. PICK v : v = [spans |-> r, i |-> i1, j |-> j1]
      OBVIOUS
    <3>15. v.spans = r /\ v.i = i1 /\ v.j = j1
           /\ v \in [spans : Seq(SpanSet), i : Nat, j : Nat]
      <4>1. r \in Seq(SpanSet)
        BY <3>9 DEF GoRight
      <4>. QED
        BY <4>1, <3>14
    <3>16. Meeting(s, t, v)
      BY <3>5, <3>9, <3>11, <3>12, <3>13, <3>15, <1>1 DEF Meeting
    <3>. QED
      BY <3>7, <3>13, <3>14, <3>15, <3>16 DEF MeetWalks
  <2>. QED
    BY <2>5, <2>6, <2>7
<1>. QED
  BY <1>4, <1>5, <1>6

\* The spans two rows share.
LEMMA IntersectLineSpansIs ==
  ASSUME NEW s, GoRight(s), NEW t, GoRight(t), NEW r, r = IntersectLineSpans(s, t)
  PROVE  /\ GoRight(r)
         /\ \A x \in Nat : CoveredFrom(r, 1, x) <=> CoveredFrom(s, 1, x) /\ CoveredFrom(t, 1, x)
<1>1. PICK n \in Nat, m \in Nat : n = Len(s) /\ m = Len(t)
  BY SpanIs
<1>2. PICK rounds \in Nat : rounds = Len(s) + Len(t) /\ rounds = n + m
  BY <1>1
<1>3. PICK start : start = [spans |-> <<>>, i |-> 1, j |-> 1]
  OBVIOUS
<1>. DEFINE T == [k \in 0 .. rounds |-> MeetWalks(s, t, k)]
            All == UNION {T[k] : k \in 0 .. rounds}
            step == [p \in (1 .. rounds) \X All |-> MeetSpan(s, t, p[2])]
            Defines(f) == f = [k \in 0 .. rounds |-> IF k = 0 THEN start ELSE MeetSpan(s, t, f[k - 1])]
            walk == CHOOSE f : Defines(f)
<1>4. start \in T[0]
  <2>1. start.spans = <<>> /\ start.i = 1 /\ start.j = 1
        /\ start \in [spans : Seq(SpanSet), i : Nat, j : Nat]
    BY <1>3
  <2>2. GoRight(<<>>) /\ \A x \in Nat : ~ CoveredFrom(<<>>, 1, x)
    BY DEF GoRight, CoveredFrom
  <2>3. Meeting(s, t, start)
    BY <2>1, <2>2, <1>1 DEF Meeting
  <2>4. 0 \in 0 .. rounds /\ start.i + start.j >= 0 + 2
    BY <2>1
  <2>. QED
    BY <2>1, <2>3, <2>4 DEF MeetWalks
<1>5. ASSUME NEW k \in 1 .. rounds, NEW w \in T[k - 1]
      PROVE  MeetSpan(s, t, w) \in T[k] /\ step[<<k, w>>] = MeetSpan(s, t, w)
  <2>1. k - 1 \in 0 .. rounds /\ k \in 0 .. rounds /\ k - 1 \in Nat /\ k - 1 < rounds /\ (k - 1) + 1 = k
    OBVIOUS
  <2>2. w \in MeetWalks(s, t, k - 1) /\ w \in All
    BY <2>1
  <2>3. MeetSpan(s, t, w) \in MeetWalks(s, t, k)
    BY <2>1, <2>2, <1>2, MeetSpanKeeps
  <2>. QED
    BY <2>1, <2>2, <2>3
<1>6. PICK f : WalkIs(f, rounds, T, start, step)
  <2>. HIDE DEF T, step
  <2>1. \A k \in 1 .. rounds : \A w \in T[k - 1] : step[<<k, w>>] \in T[k]
    BY <1>5
  <2>. QED
    BY <2>1, <1>4, WalkExists, Zenon
<1>7. Defines(f)
  <2>1. ASSUME NEW k \in 0 .. rounds, k # 0 PROVE step[<<k, f[k - 1]>>] = MeetSpan(s, t, f[k - 1])
    <3>1. k \in 1 .. rounds /\ k - 1 \in 0 .. rounds
      BY <2>1
    <3>. HIDE DEF T, step
    <3>. QED
      BY <3>1, <1>5, <1>6 DEF WalkIs
  <2>. HIDE DEF T, step
  <2>. QED
    BY <2>1, <1>6 DEF WalkIs
<1>8. Defines(walk)
  <2>. HIDE DEF Defines
  <2>. QED
    BY <1>7
<1>9. walk[0] = start /\ \A k \in 1 .. rounds : walk[k] = MeetSpan(s, t, walk[k - 1])
  <2>1. 0 \in 0 .. rounds /\ \A k \in 1 .. rounds : k \in 0 .. rounds /\ k # 0
    OBVIOUS
  <2>. HIDE DEF walk
  <2>. QED
    BY <2>1, <1>8
<1>10. r = walk[rounds].spans
  BY <1>2, <1>3 DEF IntersectLineSpans
<1>11. walk[rounds] \in T[rounds]
  <2>1. walk[0] \in T[0] /\ \A k \in 1 .. rounds : walk[k - 1] \in T[k - 1] => walk[k] \in T[k]
    <3>. HIDE DEF walk, T, step
    <3>. QED
      BY <1>4, <1>5, <1>9
  <2>2. rounds \in 0 .. rounds
    OBVIOUS
  <2>. HIDE DEF walk, T
  <2>. QED
    BY <2>1, <2>2, WalkStays
<1>12. PICK w : w = walk[rounds] /\ w \in MeetWalks(s, t, rounds)
  <2>1. rounds \in 0 .. rounds
    OBVIOUS
  <2>. QED
    BY <1>11, <2>1
<1>13. Meeting(s, t, w) /\ (w.i > n \/ w.j > m \/ w.i + w.j >= rounds + 2) /\ r = w.spans
  BY <1>1, <1>10, <1>12 DEF MeetWalks
<1>14. /\ w.i \in 1 .. n + 1 /\ w.j \in 1 .. m + 1 /\ GoRight(r)
       /\ \A x \in Nat : CoveredFrom(s, 1, x) /\ CoveredFrom(t, 1, x)
                        <=> CoveredFrom(r, 1, x) \/ (CoveredFrom(s, w.i, x) /\ CoveredFrom(t, w.j, x))
  BY <1>1, <1>13 DEF Meeting
<1>15. w.i > n \/ w.j > m
  BY <1>2, <1>13, <1>14
<1>16. \A x \in Nat : ~ CoveredFrom(s, w.i, x) \/ ~ CoveredFrom(t, w.j, x)
  BY <1>1, <1>14, <1>15, CoveredEnd
<1>. QED
  BY <1>14, <1>16

\* Where a search for a pair that meets can be after k rounds: no pair before it meets.
SeekWalks(s, t, k) ==
    {w \in [i : Nat, j : Nat] :
       /\ w.i \in 1 .. Len(s) + 1 /\ w.j \in 1 .. Len(t) + 1
       /\ \A x \in Nat : CoveredFrom(s, 1, x) /\ CoveredFrom(t, 1, x)
                           => CoveredFrom(s, w.i, x) /\ CoveredFrom(t, w.j, x)
       /\ \/ w.i > Len(s) \/ w.j > Len(t) \/ w.i + w.j >= k + 2
          \/ s[w.i].left < t[w.j].right /\ t[w.j].left < s[w.i].right}

\* A round passes a span which shares no column with the other row.
LEMMA SeekSpanKeeps ==
  ASSUME NEW s, GoRight(s), NEW t, GoRight(t), NEW k \in Nat, NEW w \in SeekWalks(s, t, k)
  PROVE  SeekSpan(s, t, w) \in SeekWalks(s, t, k + 1)
<1>1. PICK n \in Nat, m \in Nat : n = Len(s) /\ m = Len(t)
  BY SpanIs
<1>2. PICK i \in Nat, j \in Nat : w = [i |-> i, j |-> j]
  BY DEF SeekWalks
<1>3. w.i = i /\ w.j = j
  BY <1>2
<1>4. /\ i \in 1 .. n + 1 /\ j \in 1 .. m + 1
      /\ i > n \/ j > m \/ i + j >= k + 2 \/ (s[i].left < t[j].right /\ t[j].left < s[i].right)
      /\ \A x \in Nat : CoveredFrom(s, 1, x) /\ CoveredFrom(t, 1, x)
                           => CoveredFrom(s, i, x) /\ CoveredFrom(t, j, x)
  BY <1>1, <1>3 DEF SeekWalks
<1>5. CASE i > n \/ j > m
  <2>1. SeekSpan(s, t, w) = w
    BY <1>5, <1>1, <1>3 DEF SeekSpan
  <2>. QED
    BY <2>1, <1>5, <1>1, <1>3 DEF SeekWalks
<1>6. CASE i <= n /\ j <= m
  <2>1. i \in 1 .. n /\ j \in 1 .. m /\ ~ (i > n \/ j > m)
    BY <1>4, <1>6
  <2>2. PICK sl, sr, tl, tr \in Nat : /\ sl = s[i].left /\ sr = s[i].right /\ sl < sr
                                      /\ tl = t[j].left /\ tr = t[j].right /\ tl < tr
    BY <2>1, <1>1, SpanIs
  <2>3. CASE sr <= tl
    <3>1. SeekSpan(s, t, w) = [i |-> i + 1, j |-> j]
      BY <2>1, <2>2, <2>3, <1>1, <1>2, <1>3 DEF SeekSpan
    <3>2. PICK v : v = [i |-> i + 1, j |-> j]
      OBVIOUS
    <3>3. v.i = i + 1 /\ v.j = j /\ v \in [i : Nat, j : Nat]
      BY <3>2
    <3>4. \A x \in Nat : CoveredFrom(s, 1, x) /\ CoveredFrom(t, 1, x)
                           => CoveredFrom(s, i + 1, x) /\ CoveredFrom(t, j, x)
      BY <2>1, <2>2, <2>3, <1>1, <1>4, SharedStep
    <3>5. i + 1 \in 1 .. n + 1 /\ (i + 1) + j >= (k + 1) + 2
      BY <2>1, <2>2, <2>3, <1>4
    <3>. QED
      BY <3>1, <3>2, <3>3, <3>4, <3>5, <1>1, <1>4 DEF SeekWalks
  <2>4. CASE ~ (sr <= tl) /\ tr <= sl
    <3>1. SeekSpan(s, t, w) = [i |-> i, j |-> j + 1]
      BY <2>1, <2>2, <2>4, <1>1, <1>2, <1>3 DEF SeekSpan
    <3>2. PICK v : v = [i |-> i, j |-> j + 1]
      OBVIOUS
    <3>3. v.i = i /\ v.j = j + 1 /\ v \in [i : Nat, j : Nat]
      BY <3>2
    <3>4. \A x \in Nat : CoveredFrom(s, 1, x) /\ CoveredFrom(t, 1, x)
                           => CoveredFrom(s, i, x) /\ CoveredFrom(t, j + 1, x)
      BY <2>1, <2>2, <2>4, <1>1, <1>4, SharedStep
    <3>5. j + 1 \in 1 .. m + 1 /\ i + (j + 1) >= (k + 1) + 2
      BY <2>1, <2>2, <2>4, <1>4
    <3>. QED
      BY <3>1, <3>2, <3>3, <3>4, <3>5, <1>1, <1>4 DEF SeekWalks
  <2>5. CASE ~ (sr <= tl) /\ ~ (tr <= sl)
    <3>1. SeekSpan(s, t, w) = w
      BY <2>1, <2>2, <2>5, <1>1, <1>3 DEF SeekSpan
    <3>2. sl < tr /\ tl < sr
      BY <2>2, <2>5
    <3>. QED
      BY <3>1, <3>2, <2>2, <1>1, <1>3 DEF SeekWalks
  <2>. QED
    BY <2>3, <2>4, <2>5
<1>. QED
  BY <1>4, <1>5, <1>6

\* Two rows intersect if a column is in both.
LEMMA SpansIntersectIs ==
  ASSUME NEW s, GoRight(s), NEW t, GoRight(t)
  PROVE  SpansIntersect(s, t) <=> \E x \in Nat : CoveredFrom(s, 1, x) /\ CoveredFrom(t, 1, x)
<1>1. PICK n \in Nat, m \in Nat : n = Len(s) /\ m = Len(t)
  BY SpanIs
<1>2. PICK rounds \in Nat : rounds = Len(s) + Len(t) /\ rounds = n + m
  BY <1>1
<1>3. PICK start : start = [i |-> 1, j |-> 1]
  OBVIOUS
<1>. DEFINE T == [k \in 0 .. rounds |-> SeekWalks(s, t, k)]
            All == UNION {T[k] : k \in 0 .. rounds}
            step == [p \in (1 .. rounds) \X All |-> SeekSpan(s, t, p[2])]
            Defines(f) == f = [k \in 0 .. rounds |-> IF k = 0 THEN start ELSE SeekSpan(s, t, f[k - 1])]
            walk == CHOOSE f : Defines(f)
<1>4. start \in T[0]
  <2>1. start.i = 1 /\ start.j = 1 /\ start \in [i : Nat, j : Nat]
    BY <1>3
  <2>2. 0 \in 0 .. rounds /\ start.i + start.j >= 0 + 2
    BY <2>1
  <2>3. 1 \in 1 .. Len(s) + 1 /\ 1 \in 1 .. Len(t) + 1
    BY <1>1
  <2>. QED
    BY <2>1, <2>2, <2>3 DEF SeekWalks
<1>5. ASSUME NEW k \in 1 .. rounds, NEW w \in T[k - 1]
      PROVE  SeekSpan(s, t, w) \in T[k] /\ step[<<k, w>>] = SeekSpan(s, t, w)
  <2>1. k - 1 \in 0 .. rounds /\ k \in 0 .. rounds /\ k - 1 \in Nat /\ k - 1 < rounds /\ (k - 1) + 1 = k
    OBVIOUS
  <2>2. w \in SeekWalks(s, t, k - 1) /\ w \in All
    BY <2>1
  <2>3. SeekSpan(s, t, w) \in SeekWalks(s, t, k)
    BY <2>1, <2>2, <1>2, SeekSpanKeeps
  <2>. QED
    BY <2>1, <2>2, <2>3
<1>6. PICK f : WalkIs(f, rounds, T, start, step)
  <2>. HIDE DEF T, step
  <2>1. \A k \in 1 .. rounds : \A w \in T[k - 1] : step[<<k, w>>] \in T[k]
    BY <1>5
  <2>. QED
    BY <2>1, <1>4, WalkExists, Zenon
<1>7. Defines(f)
  <2>1. ASSUME NEW k \in 0 .. rounds, k # 0 PROVE step[<<k, f[k - 1]>>] = SeekSpan(s, t, f[k - 1])
    <3>1. k \in 1 .. rounds /\ k - 1 \in 0 .. rounds
      BY <2>1
    <3>. HIDE DEF T, step
    <3>. QED
      BY <3>1, <1>5, <1>6 DEF WalkIs
  <2>. HIDE DEF T, step
  <2>. QED
    BY <2>1, <1>6 DEF WalkIs
<1>8. Defines(walk)
  <2>. HIDE DEF Defines
  <2>. QED
    BY <1>7
<1>9. walk[0] = start /\ \A k \in 1 .. rounds : walk[k] = SeekSpan(s, t, walk[k - 1])
  <2>1. 0 \in 0 .. rounds /\ \A k \in 1 .. rounds : k \in 0 .. rounds /\ k # 0
    OBVIOUS
  <2>. HIDE DEF walk
  <2>. QED
    BY <2>1, <1>8
<1>10. SpansIntersect(s, t) <=> walk[rounds].i <= Len(s) /\ walk[rounds].j <= Len(t)
  BY <1>2, <1>3 DEF SpansIntersect
<1>11. walk[rounds] \in T[rounds]
  <2>1. walk[0] \in T[0] /\ \A k \in 1 .. rounds : walk[k - 1] \in T[k - 1] => walk[k] \in T[k]
    <3>. HIDE DEF walk, T, step
    <3>. QED
      BY <1>4, <1>5, <1>9
  <2>2. rounds \in 0 .. rounds
    OBVIOUS
  <2>. HIDE DEF walk, T
  <2>. QED
    BY <2>1, <2>2, WalkStays
<1>12. PICK w : w = walk[rounds] /\ w \in SeekWalks(s, t, rounds)
  <2>1. rounds \in 0 .. rounds
    OBVIOUS
  <2>. QED
    BY <1>11, <2>1
<1>13. PICK i, j \in Nat : i = w.i /\ j = w.j
  BY <1>12 DEF SeekWalks
<1>14. /\ i \in 1 .. n + 1 /\ j \in 1 .. m + 1
       /\ i > n \/ j > m \/ i + j >= rounds + 2 \/ (s[i].left < t[j].right /\ t[j].left < s[i].right)
       /\ \A x \in Nat : CoveredFrom(s, 1, x) /\ CoveredFrom(t, 1, x)
                           => CoveredFrom(s, i, x) /\ CoveredFrom(t, j, x)
  BY <1>1, <1>12, <1>13 DEF SeekWalks
<1>15. SpansIntersect(s, t) <=> i <= n /\ j <= m
  BY <1>1, <1>10, <1>12, <1>13
<1>16. CASE i <= n /\ j <= m
  <2>1. i \in 1 .. n /\ j \in 1 .. m
    BY <1>14, <1>16
  <2>2. s[i].left < t[j].right /\ t[j].left < s[i].right
    BY <2>1, <1>2, <1>14
  <2>3. PICK sl, sr, tl, tr \in Nat : /\ sl = s[i].left /\ sr = s[i].right /\ sl < sr
                                      /\ tl = t[j].left /\ tr = t[j].right /\ tl < tr
    BY <2>1, <1>1, SpanIs
  <2>4. PICK x \in Nat : sl <= x /\ x < sr /\ tl <= x /\ x < tr
    <3>1. CASE sl <= tl
      BY <3>1, <2>2, <2>3
    <3>2. CASE tl < sl
      BY <3>2, <2>2, <2>3
    <3>. QED
      BY <3>1, <3>2
  <2>5. CoveredFrom(s, 1, x) /\ CoveredFrom(t, 1, x)
    BY <2>1, <2>3, <2>4, <1>1 DEF CoveredFrom, InSpan
  <2>. QED
    BY <2>5, <1>15, <1>16
<1>17. CASE ~ (i <= n /\ j <= m)
  <2>1. i > n \/ j > m
    BY <1>14, <1>17
  <2>2. \A x \in Nat : ~ CoveredFrom(s, i, x) \/ ~ CoveredFrom(t, j, x)
    BY <2>1, <1>1, <1>14, CoveredEnd
  <2>. QED
    BY <2>2, <1>14, <1>15, <1>17
<1>. QED
  BY <1>16, <1>17

-----------------------------------------------------------------------------
(* Lines                                                                   *)

LineSet == [top : Nat, bottom : Nat, spans : Seq(SpanSet)]

IsLine(l) == l \in LineSet /\ l.top < l.bottom /\ l.spans # <<>> /\ GoRight(l.spans)

\* Lines go down, do not overlap, and differ if they touch.
GoDown(lines) ==
    /\ lines \in Seq(LineSet)
    /\ \A k \in 1 .. Len(lines) : IsLine(lines[k])
    /\ \A k \in 1 .. Len(lines) :
          k > 1 => /\ lines[k - 1].bottom <= lines[k].top
                   /\ lines[k - 1].bottom = lines[k].top => lines[k - 1].spans # lines[k].spans

InLine(l, x, y) == l.top <= y /\ y < l.bottom /\ CoveredFrom(l.spans, 1, x)

\* A pixel is in the lines from one on.
FilledFrom(lines, i, x, y) == \E k \in i .. Len(lines) : InLine(lines[k], x, y)

\* What is known of each line of a region.
LEMMA LineIs ==
  ASSUME NEW lines, GoDown(lines)
  PROVE  /\ Len(lines) \in Nat
         /\ \A k \in 1 .. Len(lines) :
               /\ lines[k] \in LineSet /\ lines[k].top \in Nat /\ lines[k].bottom \in Nat
               /\ lines[k].top < lines[k].bottom
               /\ GoRight(lines[k].spans) /\ lines[k].spans # <<>>
         /\ \A k \in 1 .. Len(lines) :
               k + 1 \in 1 .. Len(lines) => lines[k].bottom <= lines[k + 1].top
<1>1. lines \in Seq(LineSet) /\ Len(lines) \in Nat
  BY DEF GoDown
<1>2. \A k \in 1 .. Len(lines) : IsLine(lines[k])
  BY DEF GoDown
<1>3. ASSUME NEW k \in 1 .. Len(lines)
      PROVE  /\ lines[k] \in LineSet /\ lines[k].top \in Nat /\ lines[k].bottom \in Nat
             /\ lines[k].top < lines[k].bottom
             /\ GoRight(lines[k].spans) /\ lines[k].spans # <<>>
  <2>1. IsLine(lines[k])
    BY <1>2
  <2>2. lines[k] \in LineSet
    BY <2>1 DEF IsLine
  <2>3. lines[k].top \in Nat /\ lines[k].bottom \in Nat
    BY <2>2 DEF LineSet
  <2>. QED
    BY <2>1, <2>2, <2>3 DEF IsLine
<1>4. ASSUME NEW k \in 1 .. Len(lines), k + 1 \in 1 .. Len(lines)
      PROVE  lines[k].bottom <= lines[k + 1].top
  <2>1. PICK l \in 1 .. Len(lines) : l = k + 1
    BY <1>4
  <2>2. l > 1 /\ l - 1 = k
    BY <2>1
  <2>3. lines[l - 1].bottom <= lines[l].top
    BY <2>2 DEF GoDown
  <2>. QED
    BY <2>1, <2>2, <2>3
<1>. QED
  BY <1>1, <1>3, <1>4

\* Of two lines the later one is further down.
LEMMA LinesApart ==
  ASSUME NEW lines, GoDown(lines)
  PROVE  \A k, l \in 1 .. Len(lines) : k < l => lines[k].bottom <= lines[l].top
<1>. DEFINE I == {d \in Nat : \A k, l \in 1 .. Len(lines) :
                                 l = k + 1 + d => lines[k].bottom <= lines[l].top}
<1>1. 0 \in I
  <2>1. \A k, l \in 1 .. Len(lines) : l = k + 1 + 0 => l = k + 1
    OBVIOUS
  <2>. QED
    BY <2>1, LineIs
<1>2. ASSUME NEW d \in Nat, d \in I PROVE d + 1 \in I
  <2>. SUFFICES ASSUME NEW k \in 1 .. Len(lines), NEW l \in 1 .. Len(lines), l = k + 1 + (d + 1)
                PROVE  lines[k].bottom <= lines[l].top
    OBVIOUS
  <2>1. PICK m \in 1 .. Len(lines) : m = l - 1
    OBVIOUS
  <2>2. m = k + 1 + d /\ m + 1 = l
    BY <2>1
  <2>3. lines[k].bottom <= lines[m].top
    BY <2>2, <1>2
  <2>4. lines[m].top < lines[m].bottom /\ lines[m].bottom <= lines[l].top
    BY <2>2, LineIs
  <2>5. /\ lines[k].bottom \in Nat /\ lines[m].top \in Nat
        /\ lines[m].bottom \in Nat /\ lines[l].top \in Nat
    BY LineIs
  <2>. QED
    BY <2>3, <2>4, <2>5
<1>3. \A d \in Nat : d \in I
  <2>. HIDE DEF I
  <2>. QED
    BY <1>1, <1>2, SetInduction
<1>. SUFFICES ASSUME NEW k \in 1 .. Len(lines), NEW l \in 1 .. Len(lines), k < l
              PROVE  lines[k].bottom <= lines[l].top
  OBVIOUS
<1>4. l - k - 1 \in Nat /\ l = k + 1 + (l - k - 1)
  OBVIOUS
<1>5. l - k - 1 \in I
  <2>. HIDE DEF I
  <2>. QED
    BY <1>3, <1>4
<1>. QED
  BY <1>4, <1>5

\* The lines from one on are that one and those from the next on, further down.
LEMMA FilledStep ==
  ASSUME NEW lines, GoDown(lines), NEW i \in 1 .. Len(lines)
  PROVE  \A x, y \in Nat :
            /\ FilledFrom(lines, i, x, y) <=> InLine(lines[i], x, y) \/ FilledFrom(lines, i + 1, x, y)
            /\ FilledFrom(lines, i, x, y) => lines[i].top <= y
            /\ FilledFrom(lines, i + 1, x, y) => lines[i].bottom <= y
<1>. TAKE x, y \in Nat
<1>1. Len(lines) \in Nat
      /\ \A k \in 1 .. Len(lines) : /\ lines[k].top \in Nat /\ lines[k].bottom \in Nat
                                    /\ lines[k].top < lines[k].bottom
  BY LineIs
<1>2. \A k \in i .. Len(lines) : k \in 1 .. Len(lines) /\ (k = i \/ (k \in i + 1 .. Len(lines) /\ i < k))
  BY <1>1
<1>3. i \in i .. Len(lines) /\ \A k \in i + 1 .. Len(lines) : k \in i .. Len(lines)
  BY <1>1
<1>4. FilledFrom(lines, i, x, y) <=> InLine(lines[i], x, y) \/ FilledFrom(lines, i + 1, x, y)
  BY <1>2, <1>3 DEF FilledFrom
<1>5. FilledFrom(lines, i + 1, x, y) => lines[i].bottom <= y
  <2>. SUFFICES ASSUME NEW k \in i + 1 .. Len(lines), InLine(lines[k], x, y) PROVE lines[i].bottom <= y
    BY DEF FilledFrom
  <2>1. k \in 1 .. Len(lines) /\ i < k
    BY <1>2, <1>3
  <2>2. lines[i].bottom <= lines[k].top
    BY <2>1, LinesApart
  <2>3. lines[k].top \in Nat /\ lines[i].bottom \in Nat /\ lines[k].top <= y
    BY <2>1, <1>1 DEF InLine
  <2>. QED
    BY <2>2, <2>3
<1>6. InLine(lines[i], x, y) => lines[i].top <= y
  BY DEF InLine
<1>7. lines[i].top \in Nat /\ lines[i].bottom \in Nat /\ lines[i].top < lines[i].bottom
  BY <1>1
<1>. QED
  BY <1>4, <1>5, <1>6, <1>7

\* There are none from the end on.
LEMMA FilledEnd ==
  ASSUME NEW lines, Len(lines) \in Nat, NEW i \in Nat, i > Len(lines), NEW x, NEW y
  PROVE  ~ FilledFrom(lines, i, x, y)
  BY DEF FilledFrom

\* A line more at the bottom.
LEMMA LineAppended ==
  ASSUME NEW lines, GoDown(lines), NEW top \in Nat, NEW bottom \in Nat, top < bottom,
         NEW spans, GoRight(spans), spans # <<>>,
         lines # <<>> => Last(lines).bottom <= top,
         NEW r, r = AppendLine(lines, top, bottom, spans)
  PROVE  /\ GoDown(r) /\ r # <<>> /\ Last(r).bottom = bottom
         /\ \A x, y \in Nat : FilledFrom(r, 1, x, y)
               <=> FilledFrom(lines, 1, x, y) \/ (top <= y /\ y < bottom /\ CoveredFrom(spans, 1, x))
<1>1. PICK n \in Nat : n = Len(lines)
  BY LineIs
<1>2. \A k \in 1 .. n : /\ lines[k] \in LineSet /\ lines[k].top \in Nat /\ lines[k].bottom \in Nat
                        /\ lines[k].top < lines[k].bottom
                        /\ GoRight(lines[k].spans) /\ lines[k].spans # <<>> /\ IsLine(lines[k])
  BY <1>1, LineIs DEF GoDown
<1>3. /\ lines \in Seq(LineSet)
      /\ \A k \in 1 .. n :
          k > 1 => /\ lines[k - 1].bottom <= lines[k].top
                   /\ lines[k - 1].bottom = lines[k].top => lines[k - 1].spans # lines[k].spans
  BY <1>1 DEF GoDown
<1>4. spans \in Seq(SpanSet)
  BY DEF GoRight
<1>5. CASE lines # <<>> /\ Last(lines).bottom = top /\ Last(lines).spans = spans
  <2>1. n \in 1 .. n /\ Last(lines) = lines[n] /\ n > 0
    BY <1>5, <1>1, <1>3 DEF Last
  <2>2. r = [lines EXCEPT ![n].bottom = bottom]
    BY <1>5, <1>1 DEF AppendLine
  <2>3. PICK t \in Nat : t = lines[n].top
    BY <2>1, <1>2
  <2>4. lines[n].bottom = top /\ lines[n].spans = spans /\ t < top
    BY <2>1, <2>3, <1>2, <1>5
  <2>5. PICK l : l = [top |-> t, bottom |-> bottom, spans |-> spans]
    OBVIOUS
  <2>6. l \in LineSet /\ l.top = t /\ l.bottom = bottom /\ l.spans = spans
    BY <2>5, <1>4 DEF LineSet
  <2>7. lines[n] = [top |-> t, bottom |-> top, spans |-> spans]
    BY <2>1, <2>3, <2>4, <1>2 DEF LineSet
  <2>8. [lines[n] EXCEPT !.bottom = bottom] = l
    BY <2>5, <2>7
  <2>9. r = [lines EXCEPT ![n] = l]
    BY <2>2, <2>8
  <2>10. r \in Seq(LineSet) /\ Len(r) = n /\ r[n] = l /\ \A k \in 1 .. n : k # n => r[k] = lines[k]
    BY <2>9, <2>1, <2>6, <1>1, <1>3
  <2>11. IsLine(l)
    BY <2>3, <2>4, <2>6 DEF IsLine
  <2>12. \A k \in 1 .. n : IsLine(r[k])
    BY <2>10, <2>11, <1>2
  <2>13. \A k \in 1 .. n : r[k].top = lines[k].top /\ r[k].spans = lines[k].spans
    BY <2>3, <2>4, <2>6, <2>10
  <2>14. ASSUME NEW k \in 1 .. n, k > 1
         PROVE  /\ r[k - 1].bottom <= r[k].top
                /\ r[k - 1].bottom = r[k].top => r[k - 1].spans # r[k].spans
    <3>1. k - 1 \in 1 .. n /\ k - 1 # n
      BY <2>14
    <3>. QED
      BY <3>1, <2>10, <2>13, <2>14, <1>3
  <2>15. GoDown(r)
    BY <2>10, <2>12, <2>14 DEF GoDown
  <2>16. r # <<>> /\ Last(r).bottom = bottom
    BY <2>1, <2>6, <2>10 DEF Last
  <2>17. ASSUME NEW x \in Nat, NEW y \in Nat
         PROVE  FilledFrom(r, 1, x, y)
               <=> FilledFrom(lines, 1, x, y) \/ (top <= y /\ y < bottom /\ CoveredFrom(spans, 1, x))
    <3>1. InLine(l, x, y) <=> InLine(lines[n], x, y) \/ (top <= y /\ y < bottom /\ CoveredFrom(spans, 1, x))
      BY <2>3, <2>4, <2>6 DEF InLine
    <3>2. \A k \in 1 .. n : k # n => (InLine(r[k], x, y) <=> InLine(lines[k], x, y))
      BY <2>10
    <3>. QED
      BY <3>1, <3>2, <2>1, <2>10, <1>1 DEF FilledFrom
  <2>. QED
    BY <2>15, <2>16, <2>17
<1>6. CASE ~ (lines # <<>> /\ Last(lines).bottom = top /\ Last(lines).spans = spans)
  <2>1. PICK l : l = [top |-> top, bottom |-> bottom, spans |-> spans]
    OBVIOUS
  <2>2. l \in LineSet /\ l.top = top /\ l.bottom = bottom /\ l.spans = spans
    BY <2>1, <1>4 DEF LineSet
  <2>3. r = Append(lines, l)
    BY <2>1, <1>6 DEF AppendLine
  <2>4. /\ r \in Seq(LineSet) /\ r # <<>> /\ Len(r) = n + 1
        /\ \A k \in 1 .. n : r[k] = lines[k]
        /\ r[n + 1] = l
    BY <2>2, <2>3, <1>1, <1>3, AppendProperties
  <2>5. \A k \in 1 .. n + 1 : k \in 1 .. n \/ k = n + 1
    OBVIOUS
  <2>6. IsLine(l)
    BY <2>2 DEF IsLine
  <2>7. \A k \in 1 .. n + 1 : IsLine(r[k])
    BY <2>4, <2>5, <2>6, <1>2
  <2>8. ASSUME NEW k \in 1 .. n + 1, k > 1
        PROVE  /\ r[k - 1].bottom <= r[k].top
               /\ r[k - 1].bottom = r[k].top => r[k - 1].spans # r[k].spans
    <3>1. CASE k \in 1 .. n
      <4>1. k - 1 \in 1 .. n
        BY <3>1, <2>8
      <4>2. r[k - 1] = lines[k - 1] /\ r[k] = lines[k]
        BY <4>1, <3>1, <2>4
      <4>. QED
        BY <4>2, <3>1, <2>8, <1>3
    <3>2. CASE k = n + 1
      <4>1. n > 0 /\ k - 1 = n /\ n \in 1 .. n
        BY <3>2, <2>8
      <4>2. lines # <<>> /\ Last(lines) = lines[n]
        BY <4>1, <1>1 DEF Last
      <4>3. r[k - 1] = Last(lines) /\ r[k] = l
        BY <4>1, <4>2, <3>2, <2>4
      <4>. QED
        BY <4>2, <4>3, <2>2, <1>6
    <3>. QED
      BY <3>1, <3>2, <2>5
  <2>9. GoDown(r)
    BY <2>4, <2>7, <2>8 DEF GoDown
  <2>10. Last(r).bottom = bottom
    BY <2>2, <2>4 DEF Last
  <2>11. ASSUME NEW x \in Nat, NEW y \in Nat
         PROVE  FilledFrom(r, 1, x, y)
               <=> FilledFrom(lines, 1, x, y) \/ (top <= y /\ y < bottom /\ CoveredFrom(spans, 1, x))
    <3>1. InLine(l, x, y) <=> top <= y /\ y < bottom /\ CoveredFrom(spans, 1, x)
      BY <2>2 DEF InLine
    <3>2. n + 1 \in 1 .. n + 1 /\ \A k \in 1 .. n : k \in 1 .. n + 1
      OBVIOUS
    <3>. QED
      BY <3>1, <3>2, <2>4, <2>5, <1>1 DEF FilledFrom
  <2>. QED
    BY <2>4, <2>9, <2>10, <2>11
<1>. QED
  BY <1>5, <1>6

-----------------------------------------------------------------------------
(* Rectangles                                                              *)

RectSet == [left : Nat, top : Nat, right : Nat, bottom : Nat]

\* A rectangle with pixels in it.
IsRect(r) == r \in RectSet /\ r.left < r.right /\ r.top < r.bottom

InRect(r, x, y) == r.left <= x /\ x < r.right /\ r.top <= y /\ y < r.bottom

\* What is known of a rectangle.
LEMMA RectIs ==
  ASSUME NEW r, IsRect(r)
  PROVE  /\ r.left \in Nat /\ r.top \in Nat /\ r.right \in Nat /\ r.bottom \in Nat
         /\ r.left < r.right /\ r.top < r.bottom
  BY DEF IsRect, RectSet

\* The least and the greatest of some numbers.
LEMMA MinIs ==
  ASSUME NEW S \in SUBSET Nat, S # {}
  PROVE  Min(S) \in S /\ \A l \in S : Min(S) <= l
<1>1. \E k \in S : \A l \in S : k <= l
  BY SmallestExists
<1>. QED
  BY <1>1 DEF Min

\* Of some rectangles one reaches furthest.
LEMMA GreatestIs ==
  ASSUME NEW S, IsFiniteSet(S), S # {}, NEW f \in [S -> Nat]
  PROVE  \E r \in S : \A q \in S : f[q] <= f[r]
<1>. DEFINE Has(T) == T # {} => \E r \in T : \A q \in T : f[q] <= f[r]
            I == {n \in Nat : \A T \in SUBSET S : Cardinality(T) = n => Has(T)}
<1>1. \A T \in SUBSET S : IsFiniteSet(T) /\ Cardinality(T) \in Nat
  BY FS_Subset, FS_CardinalityType
<1>2. 0 \in I
  BY <1>1, FS_EmptySet
<1>3. ASSUME NEW n \in Nat, n \in I PROVE n + 1 \in I
  <2>. SUFFICES ASSUME NEW T \in SUBSET S, Cardinality(T) = n + 1, T # {} PROVE Has(T)
    OBVIOUS
  <2>1. PICK p \in T : TRUE
    OBVIOUS
  <2>2. Cardinality(T \ {p}) = n
    <3>1. IsFiniteSet(T) /\ Cardinality(T \ {p}) = Cardinality(T) - 1
      BY <1>1, FS_RemoveElement
    <3>. QED
      BY <3>1
  <2>3. Has(T \ {p})
    <3>1. T \ {p} \in SUBSET S
      OBVIOUS
    <3>. HIDE DEF Has
    <3>. QED
      BY <3>1, <2>2, <1>3
  <2>4. \A q \in T : f[q] \in Nat
    OBVIOUS
  <2>5. CASE T \ {p} = {}
    <3>1. T = {p}
      BY <2>5
    <3>2. f[p] <= f[p]
      BY <2>4
    <3>. QED
      BY <3>1, <3>2
  <2>6. CASE T \ {p} # {}
    <3>1. PICK r \in T \ {p} : \A q \in T \ {p} : f[q] <= f[r]
      BY <2>3, <2>6
    <3>2. CASE f[p] <= f[r]
      <4>1. \A q \in T : f[q] <= f[r]
        BY <3>1, <3>2
      <4>. QED
        BY <4>1
    <3>3. CASE ~ (f[p] <= f[r])
      <4>1. f[r] <= f[p] /\ f[p] <= f[p]
        BY <3>3, <2>4
      <4>2. ASSUME NEW q \in T PROVE f[q] <= f[p]
        <5>1. q # p => f[q] <= f[r]
          BY <3>1
        <5>2. f[q] \in Nat /\ f[r] \in Nat /\ f[p] \in Nat
          BY <2>4
        <5>. QED
          BY <5>1, <5>2, <4>1
      <4>. QED
        BY <4>2
    <3>. QED
      BY <3>2, <3>3
  <2>. QED
    BY <2>5, <2>6
<1>4. \A n \in Nat : n \in I
  <2>. HIDE DEF I
  <2>. QED
    BY <1>2, <1>3, SetInduction
<1>5. S \in SUBSET S /\ Cardinality(S) \in Nat
  BY <1>1
<1>. QED
  BY <1>4, <1>5

\* The greatest of what some rectangles have.
LEMMA MaxIs ==
  ASSUME NEW S, IsFiniteSet(S), S # {}, NEW f \in [S -> Nat], NEW T, T = {f[r] : r \in S}
  PROVE  Max(T) \in T /\ \A l \in T : l <= Max(T)
<1>1. PICK r \in S : \A q \in S : f[q] <= f[r]
  BY GreatestIs
<1>2. f[r] \in T /\ \A l \in T : l \in Nat /\ f[r] >= l
  BY <1>1
<1>3. \E k \in T : \A l \in T : k >= l
  BY <1>2
<1>4. Max(T) \in T /\ \A l \in T : Max(T) >= l
  BY <1>3 DEF Max
<1>. QED
  BY <1>2, <1>4

-----------------------------------------------------------------------------
(* The spans of the rectangles a line is made of                           *)

\* A column is in one of the rectangles.
Across(rects, x) == \E r \in rects : r.left <= x /\ x < r.right

\* What the walk over them can be after k rounds.
SpanWalks(rects, k) ==
    {w \in [spans : Seq(SpanSet), rects : SUBSET rects] :
       /\ GoRight(w.spans)
       /\ Cardinality(w.rects) = Cardinality(rects) - k
       /\ k > 0 => w.spans # <<>>
       /\ w.spans # <<>> => \A r \in w.rects : Last(w.spans).left <= r.left
       /\ \A x \in Nat : Across(rects, x) <=> CoveredFrom(w.spans, 1, x) \/ Across(w.rects, x)}

\* Taking one more rectangle keeps what the spans cover.
LEMMA TakeLeftmostKeeps ==
  ASSUME NEW rects, IsFiniteSet(rects), \A r \in rects : IsRect(r),
         NEW k \in Nat, k < Cardinality(rects), NEW w \in SpanWalks(rects, k)
  PROVE  TakeLeftmost(w) \in SpanWalks(rects, k + 1)
<1>1. PICK q \in Seq(SpanSet), rest \in SUBSET rects : w = [spans |-> q, rects |-> rest]
  BY DEF SpanWalks
<1>2. w.spans = q /\ w.rects = rest
  BY <1>1
<1>3. /\ GoRight(q) /\ Cardinality(rest) = Cardinality(rects) - k
      /\ q # <<>> => \A r \in rest : Last(q).left <= r.left
      /\ \A x \in Nat : Across(rects, x) <=> CoveredFrom(q, 1, x) \/ Across(rest, x)
  BY <1>2 DEF SpanWalks
<1>4. IsFiniteSet(rest) /\ Cardinality(rects) \in Nat /\ rest # {}
  <2>1. IsFiniteSet(rest) /\ Cardinality(rects) \in Nat
    BY FS_Subset, FS_CardinalityType
  <2>2. Cardinality(rest) # 0
    BY <2>1, <1>3
  <2>. QED
    BY <2>1, <2>2, FS_EmptySet
<1>5. \A r \in rest : IsRect(r) /\ r.left \in Nat /\ r.right \in Nat /\ r.left < r.right
  BY RectIs
<1>6. PICK p : p = Leftmost(rest)
  OBVIOUS
<1>7. p \in rest /\ \A other \in rest : p.left <= other.left
  <2>. DEFINE S == {r.left : r \in rest}
  <2>1. S \subseteq Nat /\ S # {}
    BY <1>4, <1>5
  <2>2. PICK l \in S : \A m \in S : l <= m
    BY <2>1, SmallestExists
  <2>3. \E r \in rest : \A other \in rest : r.left <= other.left
    BY <2>2
  <2>. QED
    BY <2>3, <1>6 DEF Leftmost
<1>8. PICK span : span = [left |-> p.left, right |-> p.right]
  OBVIOUS
<1>9. span \in SpanSet /\ span.left = p.left /\ span.right = p.right /\ span.left < span.right
  BY <1>5, <1>7, <1>8 DEF SpanSet
<1>10. PICK r : r = Accumulate(q, span)
  OBVIOUS
<1>11. TakeLeftmost(w) = [spans |-> r, rects |-> rest \ {p}]
  BY <1>2, <1>6, <1>8, <1>10 DEF TakeLeftmost
<1>12. q # <<>> => Last(q).left <= span.left
  BY <1>3, <1>7, <1>9
<1>13. /\ GoRight(r) /\ r # <<>> /\ Last(r).left <= span.left
       /\ \A x \in Nat : CoveredFrom(r, 1, x) <=> CoveredFrom(q, 1, x) \/ InSpan(span, x)
  BY <1>3, <1>9, <1>10, <1>12, Accumulated
<1>14. Cardinality(rest \ {p}) = Cardinality(rects) - (k + 1)
  <2>1. Cardinality(rest \ {p}) = Cardinality(rest) - 1
    BY <1>4, <1>7, FS_RemoveElement
  <2>. QED
    BY <2>1, <1>3, <1>4
<1>15. r \in Seq(SpanSet) /\ Last(r).left \in Nat
  <2>1. r \in Seq(SpanSet) /\ Len(r) \in 1 .. Len(r)
    BY <1>13 DEF GoRight
  <2>. QED
    BY <2>1, <1>13, SpanIs DEF Last
<1>16. ASSUME NEW other \in rest \ {p} PROVE Last(r).left <= other.left
  <2>1. p.left <= other.left /\ p.left \in Nat /\ other.left \in Nat
    BY <1>5, <1>7
  <2>. QED
    BY <2>1, <1>9, <1>13, <1>15
<1>17. ASSUME NEW x \in Nat
       PROVE  Across(rects, x) <=> CoveredFrom(r, 1, x) \/ Across(rest \ {p}, x)
  <2>1. Across(rest, x) <=> InSpan(span, x) \/ Across(rest \ {p}, x)
    BY <1>7, <1>9 DEF Across, InSpan
  <2>. QED
    BY <2>1, <1>3, <1>13
<1>18. PICK v : v = [spans |-> r, rects |-> rest \ {p}]
  OBVIOUS
<1>19. v.spans = r /\ v.rects = rest \ {p} /\ v \in [spans : Seq(SpanSet), rects : SUBSET rects]
  BY <1>15, <1>18
<1>. QED
  BY <1>11, <1>13, <1>14, <1>16, <1>17, <1>18, <1>19 DEF SpanWalks

\* The spans of some rectangles: their columns.
LEMMA SpansOfIs ==
  ASSUME NEW rects, IsFiniteSet(rects), \A r \in rects : IsRect(r), rects # {},
         NEW r, r = SpansOf(rects)
  PROVE  /\ GoRight(r) /\ r # <<>>
         /\ \A x \in Nat : CoveredFrom(r, 1, x) <=> Across(rects, x)
<1>2. PICK rounds \in Nat : rounds = Cardinality(rects) /\ rounds > 0
  <2>1. Cardinality(rects) \in Nat /\ Cardinality(rects) # 0
    BY FS_CardinalityType, FS_EmptySet
  <2>. QED
    BY <2>1
<1>3. PICK start : start = [spans |-> <<>>, rects |-> rects]
  OBVIOUS
<1>. DEFINE T == [k \in 0 .. rounds |-> SpanWalks(rects, k)]
            All == UNION {T[k] : k \in 0 .. rounds}
            step == [p \in (1 .. rounds) \X All |-> TakeLeftmost(p[2])]
            Defines(f) == f = [k \in 0 .. rounds |-> IF k = 0 THEN start ELSE TakeLeftmost(f[k - 1])]
            walk == CHOOSE f : Defines(f)
<1>4. start \in T[0]
  <2>1. start.spans = <<>> /\ start.rects = rects
        /\ start \in [spans : Seq(SpanSet), rects : SUBSET rects]
    BY <1>3
  <2>2. GoRight(<<>>) /\ \A x \in Nat : ~ CoveredFrom(<<>>, 1, x)
    BY DEF GoRight, CoveredFrom
  <2>3. 0 \in 0 .. rounds /\ Cardinality(rects) = Cardinality(rects) - 0
    BY <1>2
  <2>. QED
    BY <2>1, <2>2, <2>3, <1>2 DEF SpanWalks
<1>5. ASSUME NEW k \in 1 .. rounds, NEW w \in T[k - 1]
      PROVE  TakeLeftmost(w) \in T[k] /\ step[<<k, w>>] = TakeLeftmost(w)
  <2>1. k - 1 \in 0 .. rounds /\ k \in 0 .. rounds /\ k - 1 \in Nat /\ k - 1 < rounds /\ (k - 1) + 1 = k
    OBVIOUS
  <2>2. w \in SpanWalks(rects, k - 1) /\ w \in All
    BY <2>1
  <2>3. TakeLeftmost(w) \in SpanWalks(rects, k)
    BY <2>1, <2>2, <1>2, TakeLeftmostKeeps
  <2>. QED
    BY <2>1, <2>2, <2>3
<1>6. PICK f : WalkIs(f, rounds, T, start, step)
  <2>. HIDE DEF T, step
  <2>1. \A k \in 1 .. rounds : \A w \in T[k - 1] : step[<<k, w>>] \in T[k]
    BY <1>5
  <2>. QED
    BY <2>1, <1>4, WalkExists, Zenon
<1>7. Defines(f)
  <2>1. ASSUME NEW k \in 0 .. rounds, k # 0 PROVE step[<<k, f[k - 1]>>] = TakeLeftmost(f[k - 1])
    <3>1. k \in 1 .. rounds /\ k - 1 \in 0 .. rounds
      BY <2>1
    <3>. HIDE DEF T, step
    <3>. QED
      BY <3>1, <1>5, <1>6 DEF WalkIs
  <2>. HIDE DEF T, step
  <2>. QED
    BY <2>1, <1>6 DEF WalkIs
<1>8. Defines(walk)
  <2>. HIDE DEF Defines
  <2>. QED
    BY <1>7
<1>9. walk[0] = start /\ \A k \in 1 .. rounds : walk[k] = TakeLeftmost(walk[k - 1])
  <2>1. 0 \in 0 .. rounds /\ \A k \in 1 .. rounds : k \in 0 .. rounds /\ k # 0
    OBVIOUS
  <2>. HIDE DEF walk
  <2>. QED
    BY <2>1, <1>8
<1>10. r = walk[rounds].spans
  BY <1>2, <1>3 DEF SpansOf
<1>11. walk[rounds] \in T[rounds]
  <2>1. walk[0] \in T[0] /\ \A k \in 1 .. rounds : walk[k - 1] \in T[k - 1] => walk[k] \in T[k]
    <3>. HIDE DEF walk, T, step
    <3>. QED
      BY <1>4, <1>5, <1>9
  <2>2. rounds \in 0 .. rounds
    OBVIOUS
  <2>. HIDE DEF walk, T
  <2>. QED
    BY <2>1, <2>2, WalkStays
<1>12. PICK w : w = walk[rounds] /\ w \in SpanWalks(rects, rounds)
  <2>1. rounds \in 0 .. rounds
    OBVIOUS
  <2>. QED
    BY <1>11, <2>1
<1>13. /\ GoRight(r) /\ r # <<>> /\ w.rects \in SUBSET rects /\ Cardinality(w.rects) = 0
       /\ \A x \in Nat : Across(rects, x) <=> CoveredFrom(r, 1, x) \/ Across(w.rects, x)
  <2>1. r = w.spans
    BY <1>10, <1>12
  <2>2. w \in SpanWalks(rects, rounds)
    BY <1>12
  <2>. HIDE DEF walk
  <2>. QED
    BY <2>1, <2>2, <1>2 DEF SpanWalks
<1>14. w.rects = {}
  <2>1. IsFiniteSet(w.rects)
    BY <1>13, FS_Subset
  <2>. QED
    BY <2>1, <1>13, FS_EmptySet
<1>15. \A x \in Nat : ~ Across(w.rects, x)
  BY <1>14 DEF Across
<1>. QED
  BY <1>13, <1>15

-----------------------------------------------------------------------------
(* The sweep                                                               *)

\* A pixel is in one of the rectangles.
Inside(rects, x, y) == \E r \in rects : InRect(r, x, y)

\* Above y all is done, and what reaches below is active or still to come.
Sweeping(rects, w) ==
    /\ w.y >= -1
    /\ GoDown(w.lines)
    /\ w.lines # <<>> => Last(w.lines).bottom <= w.y
    /\ \A r \in w.coming : w.y <= r.top
    /\ \A r \in w.active : r.top < w.y
    /\ \A r \in rects : w.y < r.bottom => r \in w.active \/ r \in w.coming
    /\ \A x, y \in Nat : FilledFrom(w.lines, 1, x, y) <=> y < w.y /\ Inside(rects, x, y)

\* What it can be after k rounds.
SweepWalks(rects, k) ==
    {w \in [lines : Seq(LineSet), active : SUBSET rects, coming : SUBSET rects, y : Int] :
       /\ Sweeping(rects, w)
       /\ \/ k = 0 \/ k <= w.y
          \/ w.coming = {} /\ \A r \in w.active : r.bottom <= w.y}

\* A round of the sweep keeps what lies above it.
LEMMA SweepRoundKeeps ==
  ASSUME NEW rects, IsFiniteSet(rects), \A r \in rects : IsRect(r),
         NEW k \in Nat, NEW w \in SweepWalks(rects, k)
  PROVE  SweepRound(w) \in SweepWalks(rects, k + 1)
<1>1. PICK lines \in Seq(LineSet), active \in SUBSET rects, coming \in SUBSET rects, y \in Int :
           w = [lines |-> lines, active |-> active, coming |-> coming, y |-> y]
  BY DEF SweepWalks
<1>2. w.lines = lines /\ w.active = active /\ w.coming = coming /\ w.y = y
  BY <1>1
<1>3. /\ y >= -1
      /\ GoDown(lines)
      /\ lines # <<>> => Last(lines).bottom <= y
      /\ \A r \in coming : y <= r.top
      /\ \A r \in active : r.top < y
      /\ \A r \in rects : y < r.bottom => r \in active \/ r \in coming
      /\ \A x, yy \in Nat : FilledFrom(lines, 1, x, yy) <=> yy < y /\ Inside(rects, x, yy)
  BY <1>2 DEF SweepWalks, Sweeping
<1>4. k = 0 \/ k <= y \/ (coming = {} /\ \A r \in active : r.bottom <= y)
  BY <1>2 DEF SweepWalks
<1>5. \A r \in rects : r.top \in Nat /\ r.bottom \in Nat /\ r.top < r.bottom
  BY RectIs
<1>6. PICK kept \in SUBSET rects : kept = {r \in active : r.bottom > y}
  OBVIOUS
<1>7. CASE kept = {} /\ coming = {}
  <2>1. {r \in w.active : r.bottom > w.y} = {} /\ w.coming = {}
    BY <1>2, <1>6, <1>7
  <2>2. SweepRound(w) = w
    BY <2>1 DEF SweepRound
  <2>3. \A r \in active : r.bottom <= y
    BY <1>5, <1>6, <1>7
  <2>. QED
    BY <2>2, <2>3, <1>2, <1>7 DEF SweepWalks
<1>8. CASE ~ (kept = {} /\ coming = {})
  <2>1. PICK top \in Nat :
             /\ top = IF kept = {} THEN Min({r.top : r \in coming}) ELSE y
             /\ kept = {} => (\E r \in coming : r.top = top) /\ \A r \in coming : top <= r.top
             /\ y <= top
    <3>1. CASE kept # {}
      <4>1. PICK r \in kept : TRUE
        BY <3>1
      <4>2. r.top < y /\ r.top \in Nat
        BY <4>1, <1>3, <1>5, <1>6
      <4>3. y \in Nat
        BY <4>2
      <4>. QED
        BY <4>3, <3>1
    <3>2. CASE kept = {}
      <4>. DEFINE S == {r.top : r \in coming}
      <4>1. S \in SUBSET Nat /\ S # {}
        BY <3>2, <1>5, <1>8
      <4>2. Min(S) \in S /\ \A l \in S : Min(S) <= l
        BY <4>1, MinIs
      <4>3. PICK least : least = Min(S)
        OBVIOUS
      <4>4. PICK r \in coming : r.top = least
        BY <4>2, <4>3
      <4>5. \A q \in coming : least <= q.top
        BY <4>2, <4>3
      <4>. HIDE DEF S
      <4>6. least \in Nat /\ y <= least
        BY <4>4, <1>3, <1>5
      <4>7. least = Min({r1.top : r1 \in coming})
        BY <4>3 DEF S
      <4>. QED
        BY <4>4, <4>5, <4>6, <4>7, <3>2
    <3>. QED
      BY <3>1, <3>2
  <2>2. PICK now \in SUBSET rects : now = kept \cup {r \in coming : r.top <= top}
    BY <2>1
  <2>3. PICK rest \in SUBSET rects : rest = coming \ now
    OBVIOUS
  <2>4. /\ now # {}
        /\ \A r \in now : r.top <= top /\ top < r.bottom
        /\ \A r \in rest : top < r.top /\ r \in coming
    <3>1. now # {}
      <4>1. CASE kept = {}
        <5>1. PICK r \in coming : r.top = top
          BY <4>1, <2>1
        <5>2. r.top <= top
          BY <5>1, <2>1
        <5>. QED
          BY <5>1, <5>2, <2>2
      <4>2. CASE kept # {}
        BY <4>2, <2>2
      <4>. QED
        BY <4>1, <4>2
    <3>2. ASSUME NEW r \in now PROVE r.top <= top /\ top < r.bottom
      <4>1. r.top \in Nat /\ r.bottom \in Nat /\ r.top < r.bottom
        BY <1>5
      <4>2. CASE r \in kept
        <5>1. r.top < y /\ y < r.bottom /\ top = y
          BY <4>2, <1>3, <1>6, <2>1
        <5>. QED
          BY <5>1, <4>1
      <4>3. CASE r \in coming /\ r.top <= top
        <5>1. top <= r.top
          BY <4>3, <2>1, <1>3
        <5>. QED
          BY <5>1, <4>1, <4>3, <2>1
      <4>. QED
        BY <4>2, <4>3, <2>2
    <3>3. ASSUME NEW r \in rest PROVE top < r.top /\ r \in coming
      <4>1. r.top \in Nat /\ r \in coming /\ ~ (r.top <= top)
        BY <1>5, <2>2, <2>3
      <4>. QED
        BY <4>1, <2>1
    <3>. QED
      BY <3>1, <3>2, <3>3
  <2>5. PICK bottom \in Nat :
             /\ bottom = LineBottom(now, rest)
             /\ \A r \in now : bottom <= r.bottom
             /\ \A r \in rest : bottom <= r.top
             /\ top < bottom
    <3>. DEFINE S == {r.bottom : r \in now} \cup {r.top : r \in rest}
    <3>1. S \in SUBSET Nat /\ S # {} /\ \A l \in S : top < l
      BY <1>5, <2>4
    <3>2. Min(S) \in S /\ \A l \in S : Min(S) <= l
      BY <3>1, MinIs
    <3>3. PICK least : least = Min(S)
      OBVIOUS
    <3>4. least \in Nat /\ top < least /\ least = LineBottom(now, rest)
      BY <3>1, <3>2, <3>3 DEF LineBottom
    <3>5. (\A r \in now : least <= r.bottom) /\ (\A r \in rest : least <= r.top)
      BY <3>2, <3>3
    <3>. HIDE DEF S
    <3>. QED
      BY <3>4, <3>5
  <2>6. PICK spans : spans = SpansOf(now)
    OBVIOUS
  <2>7. /\ GoRight(spans) /\ spans # <<>>
        /\ \A x \in Nat : CoveredFrom(spans, 1, x) <=> Across(now, x)
    <3>1. IsFiniteSet(now) /\ \A r \in now : IsRect(r)
      BY FS_Subset
    <3>. QED
      BY <3>1, <2>4, <2>6, SpansOfIs
  <2>8. PICK r : r = AppendLine(lines, top, bottom, spans)
    OBVIOUS
  <2>9. lines # <<>> => Last(lines).bottom <= top
    <3>. SUFFICES ASSUME lines # <<>> PROVE Last(lines).bottom <= top
      OBVIOUS
    <3>1. Len(lines) \in 1 .. Len(lines)
      BY <1>3 DEF GoDown
    <3>2. Last(lines).bottom \in Nat
      BY <3>1, <1>3, LineIs DEF Last
    <3>. QED
      BY <3>2, <1>3, <2>1
  <2>10. /\ GoDown(r) /\ r # <<>> /\ Last(r).bottom = bottom
         /\ \A x, yy \in Nat : FilledFrom(r, 1, x, yy)
               <=> FilledFrom(lines, 1, x, yy) \/ (top <= yy /\ yy < bottom /\ CoveredFrom(spans, 1, x))
    BY <1>3, <2>1, <2>5, <2>7, <2>8, <2>9, LineAppended
  <2>11. PICK v : v = [lines |-> r, active |-> now, coming |-> rest, y |-> bottom]
    OBVIOUS
  <2>12. SweepRound(w) = v
    <3>1. {p \in w.active : p.bottom > w.y} = kept
      BY <1>2, <1>6
    <3>2. ~ ({p \in w.active : p.bottom > w.y} = {} /\ w.coming = {})
      BY <3>1, <1>2, <1>8
    <3>. QED
      BY <3>1, <3>2, <1>2, <2>1, <2>2, <2>3, <2>5, <2>6, <2>8, <2>11 DEF SweepRound
  <2>13. v.lines = r /\ v.active = now /\ v.coming = rest /\ v.y = bottom
    BY <2>11
  <2>14. r \in Seq(LineSet)
    BY <2>10 DEF GoDown
  <2>15. ASSUME NEW p \in rects, bottom < p.bottom PROVE p \in now \/ p \in rest
    <3>1. y < p.bottom
      BY <2>1, <2>5, <2>15, <1>5
    <3>2. p \in active \/ p \in coming
      BY <3>1, <1>3
    <3>. QED
      BY <3>1, <3>2, <2>2, <2>3, <1>6
  <2>16. ASSUME NEW x \in Nat, NEW yy \in Nat
         PROVE  FilledFrom(r, 1, x, yy) <=> yy < bottom /\ Inside(rects, x, yy)
    <3>1. CASE yy < y
      <4>1. yy < bottom /\ ~ (top <= yy)
        BY <3>1, <2>1, <2>5
      <4>. QED
        BY <3>1, <4>1, <1>3, <2>10
    <3>2. CASE y <= yy /\ yy < top
      <4>1. ~ FilledFrom(lines, 1, x, yy)
        BY <3>2, <1>3
      <4>2. ~ (top <= yy)
        BY <3>2, <2>1
      <4>3. ~ Inside(rects, x, yy)
        <5>. SUFFICES ASSUME NEW p \in rects, InRect(p, x, yy) PROVE FALSE
          BY DEF Inside
        <5>1. p.top <= yy /\ yy < p.bottom
          BY DEF InRect
        <5>2. y < p.bottom
          BY <5>1, <3>2, <1>5
        <5>3. kept = {}
          BY <3>2, <2>1
        <5>4. p \in coming
          BY <5>2, <5>3, <1>3, <1>6
        <5>5. top <= p.top /\ p.top \in Nat
          BY <5>3, <5>4, <2>1, <1>5
        <5>. QED
          BY <5>1, <5>5, <3>2, <2>1
      <4>. QED
        BY <4>1, <4>2, <4>3, <2>10
    <3>3. CASE top <= yy /\ yy < bottom
      <4>1. ~ FilledFrom(lines, 1, x, yy)
        BY <3>3, <1>3, <2>1
      <4>2. Across(now, x) <=> Inside(rects, x, yy)
        <5>1. ASSUME NEW p \in now, p.left <= x, x < p.right PROVE InRect(p, x, yy)
          <6>1. p.top <= top /\ bottom <= p.bottom /\ p.top \in Nat /\ p.bottom \in Nat
            BY <2>4, <2>5, <1>5
          <6>. QED
            BY <6>1, <5>1, <3>3, <2>1, <2>5 DEF InRect
        <5>2. ASSUME NEW p \in rects, InRect(p, x, yy) PROVE p \in now /\ p.left <= x /\ x < p.right
          <6>1. p.top <= yy /\ yy < p.bottom /\ p.left <= x /\ x < p.right /\ p.top \in Nat
            BY <5>2, <1>5 DEF InRect
          <6>2. y < p.bottom
            BY <6>1, <3>3, <2>1, <1>5
          <6>3. p \in kept \/ p \in coming
            BY <6>2, <1>3, <1>6
          <6>4. ~ (bottom <= p.top)
            BY <6>1, <3>3, <2>5
          <6>. QED
            BY <6>1, <6>3, <6>4, <2>2, <2>3, <2>5
        <5>. QED
          BY <5>1, <5>2 DEF Across, Inside
      <4>. QED
        BY <4>1, <4>2, <3>3, <2>7, <2>10
    <3>4. CASE bottom <= yy
      <4>1. ~ (yy < y) /\ ~ (yy < bottom)
        BY <3>4, <2>1, <2>5
      <4>. QED
        BY <4>1, <1>3, <2>10
    <3>. QED
      BY <3>1, <3>2, <3>3, <3>4, <2>1, <2>5
  <2>17. ASSUME NEW p \in now PROVE p.top < bottom
    <3>1. p.top \in Nat /\ p.top <= top
      BY <2>4, <1>5
    <3>. QED
      BY <3>1, <2>1, <2>5
  <2>18. k = 0 \/ k <= y
    BY <1>4, <1>6, <1>8, <1>5
  <2>19. k + 1 <= bottom
    BY <2>1, <2>5, <2>18
  <2>20. Sweeping(rects, v)
    <3>1. bottom >= -1 /\ Last(r).bottom <= bottom
      BY <2>5, <2>10
    <3>. QED
      BY <3>1, <2>5, <2>10, <2>13, <2>15, <2>16, <2>17 DEF Sweeping
  <2>. QED
    BY <2>11, <2>12, <2>13, <2>14, <2>19, <2>20 DEF SweepWalks
<1>. QED
  BY <1>7, <1>8

\* The lines of the sweep: the pixels of the rectangles.
LEMMA SweepIs ==
  ASSUME NEW rects, IsFiniteSet(rects), \A r \in rects : IsRect(r),
         NEW bottom \in Nat, \A r \in rects : r.bottom <= bottom, rects # {} => bottom > 0,
         NEW r, r = Sweep(rects, bottom)
  PROVE  /\ GoDown(r)
         /\ \A x, y \in Nat : FilledFrom(r, 1, x, y) <=> Inside(rects, x, y)
<1>2. PICK rounds \in Nat : rounds = bottom
  OBVIOUS
<1>3. PICK start : start = [lines |-> <<>>, active |-> {}, coming |-> rects, y |-> -1]
  OBVIOUS
<1>. DEFINE T == [k \in 0 .. rounds |-> SweepWalks(rects, k)]
            All == UNION {T[k] : k \in 0 .. rounds}
            step == [p \in (1 .. rounds) \X All |-> SweepRound(p[2])]
            Defines(f) == f = [k \in 0 .. rounds |-> IF k = 0 THEN start ELSE SweepRound(f[k - 1])]
            walk == CHOOSE f : Defines(f)
<1>4. start \in T[0]
  <2>1. /\ start.lines = <<>> /\ start.active = {} /\ start.coming = rects /\ start.y = -1
        /\ start \in [lines : Seq(LineSet), active : SUBSET rects, coming : SUBSET rects, y : Int]
    BY <1>3
  <2>2. GoDown(<<>>) /\ \A x, y \in Nat : ~ FilledFrom(<<>>, 1, x, y)
    BY DEF GoDown, FilledFrom
  <2>3. 0 \in 0 .. rounds
    OBVIOUS
  <2>4. \A p \in rects : p.top \in Nat
    BY RectIs
  <2>5. Sweeping(rects, start)
    BY <2>1, <2>2, <2>4 DEF Sweeping
  <2>. QED
    BY <2>1, <2>3, <2>5 DEF SweepWalks
<1>5. ASSUME NEW k \in 1 .. rounds, NEW w \in T[k - 1]
      PROVE  SweepRound(w) \in T[k] /\ step[<<k, w>>] = SweepRound(w)
  <2>1. k - 1 \in 0 .. rounds /\ k \in 0 .. rounds /\ k - 1 \in Nat /\ k - 1 < rounds /\ (k - 1) + 1 = k
    OBVIOUS
  <2>2. w \in SweepWalks(rects, k - 1) /\ w \in All
    BY <2>1
  <2>3. SweepRound(w) \in SweepWalks(rects, k)
    BY <2>1, <2>2, <1>2, SweepRoundKeeps
  <2>. QED
    BY <2>1, <2>2, <2>3
<1>6. PICK f : WalkIs(f, rounds, T, start, step)
  <2>. HIDE DEF T, step
  <2>1. \A k \in 1 .. rounds : \A w \in T[k - 1] : step[<<k, w>>] \in T[k]
    BY <1>5
  <2>. QED
    BY <2>1, <1>4, WalkExists, Zenon
<1>7. Defines(f)
  <2>1. ASSUME NEW k \in 0 .. rounds, k # 0 PROVE step[<<k, f[k - 1]>>] = SweepRound(f[k - 1])
    <3>1. k \in 1 .. rounds /\ k - 1 \in 0 .. rounds
      BY <2>1
    <3>. HIDE DEF T, step
    <3>. QED
      BY <3>1, <1>5, <1>6 DEF WalkIs
  <2>. HIDE DEF T, step
  <2>. QED
    BY <2>1, <1>6 DEF WalkIs
<1>8. Defines(walk)
  <2>. HIDE DEF Defines
  <2>. QED
    BY <1>7
<1>9. walk[0] = start /\ \A k \in 1 .. rounds : walk[k] = SweepRound(walk[k - 1])
  <2>1. 0 \in 0 .. rounds /\ \A k \in 1 .. rounds : k \in 0 .. rounds /\ k # 0
    OBVIOUS
  <2>. HIDE DEF walk
  <2>. QED
    BY <2>1, <1>8
<1>10. r = walk[rounds].lines
  BY <1>2, <1>3 DEF Sweep
<1>11. walk[rounds] \in T[rounds]
  <2>1. walk[0] \in T[0] /\ \A k \in 1 .. rounds : walk[k - 1] \in T[k - 1] => walk[k] \in T[k]
    <3>. HIDE DEF walk, T, step
    <3>. QED
      BY <1>4, <1>5, <1>9
  <2>2. rounds \in 0 .. rounds
    OBVIOUS
  <2>. HIDE DEF walk, T
  <2>. QED
    BY <2>1, <2>2, WalkStays
<1>12. PICK w : w = walk[rounds] /\ w \in SweepWalks(rects, rounds)
  <2>1. rounds \in 0 .. rounds
    OBVIOUS
  <2>. QED
    BY <1>11, <2>1
<1>13. r = w.lines /\ w \in SweepWalks(rects, rounds)
  BY <1>10, <1>12
<1>14. /\ GoDown(r) /\ w.y \in Int
       /\ \A p \in w.coming : w.y <= p.top
       /\ \A p \in rects : w.y < p.bottom => p \in w.active \/ p \in w.coming
       /\ \A x, y \in Nat : FilledFrom(r, 1, x, y) <=> y < w.y /\ Inside(rects, x, y)
       /\ w.active \in SUBSET rects /\ w.coming \in SUBSET rects
       /\ \/ rounds = 0 \/ rounds <= w.y
          \/ w.coming = {} /\ \A p \in w.active : p.bottom <= w.y
  <2>. HIDE DEF walk
  <2>. QED
    BY <1>13 DEF SweepWalks, Sweeping
<1>15. ASSUME NEW p \in rects, NEW x \in Nat, NEW y \in Nat, InRect(p, x, y) PROVE y < w.y
  <2>1. p.bottom \in Nat /\ y < p.bottom /\ p.bottom <= bottom
    BY <1>15, RectIs DEF InRect
  <2>2. CASE rounds <= w.y
    BY <2>1, <2>2, <1>2, <1>14
  <2>3. CASE w.coming = {} /\ \A q \in w.active : q.bottom <= w.y
    <3>1. ~ (w.y < p.bottom) \/ p.bottom <= w.y
      BY <2>3, <1>14
    <3>. QED
      BY <3>1, <2>1, <1>14
  <2>. QED
    BY <2>2, <2>3, <1>2, <1>14
<1>. QED
  BY <1>14, <1>15 DEF Inside

-----------------------------------------------------------------------------
(* The walk over the lines of two regions                                  *)

\* What is above y and what the lines hold of a region is done; i is the next line.
Reached(ls, lines, i, y) ==
    /\ i \in 1 .. Len(ls) + 1
    /\ i <= Len(ls) => /\ y < ls[i].bottom
                       /\ lines # <<>> => Last(lines).bottom <= Greatest(y, ls[i].top)

\* The lines hold both regions ls far ls they are done.
Adding(ls, ms, lines, i, j, y) ==
    /\ y \in Int /\ y >= -1 /\ GoDown(lines)
    /\ Reached(ls, lines, i, y) /\ Reached(ms, lines, j, y)
    /\ \A x, yy \in Nat :
          FilledFrom(ls, 1, x, yy) \/ FilledFrom(ms, 1, x, yy)
            <=> \/ FilledFrom(lines, 1, x, yy)
                \/ y <= yy /\ (FilledFrom(ls, i, x, yy) \/ FilledFrom(ms, j, x, yy))

\* It does not matter which region is the first.
LEMMA AddingSwaps ==
  ASSUME NEW ls, NEW ms, NEW lines, NEW i, NEW j, NEW y, Adding(ls, ms, lines, i, j, y)
  PROVE  Adding(ms, ls, lines, j, i, y)
  BY DEF Adding

\* A line more: what is known of the lines' end.
LEMMA NextLine ==
  ASSUME NEW ls, GoDown(ls), NEW i \in 1 .. Len(ls), NEW y \in Int, y <= ls[i].bottom,
         NEW r, r # <<>> => Last(r).bottom = ls[i].bottom
  PROVE  Reached(ls, r, i + 1, y)
<1>1. PICK n \in Nat : n = Len(ls)
  BY LineIs
<1>2. i + 1 \in 1 .. n + 1
  BY <1>1
<1>3. ASSUME i + 1 <= n
      PROVE  /\ y < ls[i + 1].bottom
             /\ ls[i].bottom <= Greatest(y, ls[i + 1].top)
  <2>1. i + 1 \in 1 .. n
    BY <1>2, <1>3
  <2>2. PICK b, t, c \in Nat : b = ls[i].bottom /\ t = ls[i + 1].top /\ c = ls[i + 1].bottom
    BY <2>1, <1>1, LineIs
  <2>3. b <= t /\ t < c
    BY <2>1, <2>2, <1>1, LineIs
  <2>4. b <= Greatest(y, t)
    BY <2>2, <2>3 DEF Greatest
  <2>. QED
    BY <2>2, <2>3, <2>4
<1>. QED
  BY <1>1, <1>2, <1>3 DEF Reached

\* The next line of the first region is added ls a whole.
LEMMA WholeLineKeeps ==
  ASSUME NEW ls, GoDown(ls), NEW ms, GoDown(ms), NEW lines, NEW i, NEW j, NEW y,
         Adding(ls, ms, lines, i, j, y), i <= Len(ls),
         j > Len(ms) \/ ls[i].bottom <= Greatest(y, ms[j].top),
         NEW r, r = AppendLine(lines, Greatest(y, ls[i].top), ls[i].bottom, ls[i].spans)
  PROVE  Adding(ls, ms, r, i + 1, j, y)
<1>1. PICK n \in Nat, m \in Nat : n = Len(ls) /\ m = Len(ms)
  BY LineIs
<1>2. /\ y \in Int /\ y >= -1 /\ GoDown(lines) /\ i \in 1 .. n /\ j \in 1 .. m + 1
      /\ y < ls[i].bottom /\ (j <= m => y < ms[j].bottom)
      /\ lines # <<>> => Last(lines).bottom <= Greatest(y, ls[i].top)
      /\ \A x, yy \in Nat :
          FilledFrom(ls, 1, x, yy) \/ FilledFrom(ms, 1, x, yy)
            <=> \/ FilledFrom(lines, 1, x, yy)
                \/ y <= yy /\ (FilledFrom(ls, i, x, yy) \/ FilledFrom(ms, j, x, yy))
  BY <1>1 DEF Adding, Reached
<1>3. PICK t, b \in Nat : t = ls[i].top /\ b = ls[i].bottom /\ t < b
  BY <1>1, <1>2, LineIs
<1>4. PICK spans : spans = ls[i].spans /\ GoRight(spans) /\ spans # <<>>
  BY <1>1, <1>2, LineIs
<1>5. PICK top \in Nat : top = Greatest(y, t) /\ y <= top /\ t <= top /\ top < b /\ top \in {y, t}
  BY <1>2, <1>3 DEF Greatest
<1>6. /\ GoDown(r) /\ r # <<>> /\ Last(r).bottom = b
      /\ \A x, yy \in Nat : FilledFrom(r, 1, x, yy)
            <=> FilledFrom(lines, 1, x, yy) \/ (top <= yy /\ yy < b /\ CoveredFrom(spans, 1, x))
  BY <1>2, <1>3, <1>4, <1>5, LineAppended
<1>7. Reached(ls, r, i + 1, y)
  <2>1. Last(r).bottom = ls[i].bottom /\ y <= ls[i].bottom
    BY <1>2, <1>3, <1>6
  <2>. QED
    BY <2>1, <1>1, <1>2, NextLine
<1>8. Reached(ms, r, j, y)
  BY <1>1, <1>2, <1>3, <1>6 DEF Reached
<1>9. ASSUME NEW x \in Nat, NEW yy \in Nat
      PROVE  FilledFrom(ls, 1, x, yy) \/ FilledFrom(ms, 1, x, yy)
            <=> \/ FilledFrom(r, 1, x, yy)
                \/ y <= yy /\ (FilledFrom(ls, i + 1, x, yy) \/ FilledFrom(ms, j, x, yy))
  <2>1. InLine(ls[i], x, yy) <=> t <= yy /\ yy < b /\ CoveredFrom(spans, 1, x)
    BY <1>3, <1>4 DEF InLine
  <2>2. FilledFrom(ls, i, x, yy) <=> InLine(ls[i], x, yy) \/ FilledFrom(ls, i + 1, x, yy)
    BY <1>1, <1>2, FilledStep
  <2>3. top <= yy <=> y <= yy /\ t <= yy
    BY <1>2, <1>5
  <2>. QED
    BY <2>1, <2>2, <2>3, <1>2, <1>6
<1>. QED
  BY <1>2, <1>6, <1>7, <1>8, <1>9 DEF Adding

\* It is added down to where the next line of the other begins.
LEMMA UpperPartKeeps ==
  ASSUME NEW ls, GoDown(ls), NEW ms, GoDown(ms), NEW lines, NEW i, NEW j, NEW y,
         Adding(ls, ms, lines, i, j, y), i <= Len(ls), j <= Len(ms),
         Greatest(y, ms[j].top) < ls[i].bottom, Greatest(y, ls[i].top) < Greatest(y, ms[j].top),
         NEW r, r = AppendLine(lines, Greatest(y, ls[i].top), Greatest(y, ms[j].top), ls[i].spans)
  PROVE  Adding(ls, ms, r, i, j, Greatest(y, ms[j].top)) /\ y < Greatest(y, ms[j].top)
<1>1. PICK n \in Nat, m \in Nat : n = Len(ls) /\ m = Len(ms)
  BY LineIs
<1>2. /\ y \in Int /\ y >= -1 /\ GoDown(lines) /\ i \in 1 .. n /\ j \in 1 .. m
      /\ y < ls[i].bottom /\ y < ms[j].bottom
      /\ lines # <<>> => Last(lines).bottom <= Greatest(y, ls[i].top)
      /\ \A x, yy \in Nat :
          FilledFrom(ls, 1, x, yy) \/ FilledFrom(ms, 1, x, yy)
            <=> \/ FilledFrom(lines, 1, x, yy)
                \/ y <= yy /\ (FilledFrom(ls, i, x, yy) \/ FilledFrom(ms, j, x, yy))
  BY <1>1 DEF Adding, Reached
<1>3. PICK t, b, u, c \in Nat : /\ t = ls[i].top /\ b = ls[i].bottom /\ t < b
                                /\ u = ms[j].top /\ c = ms[j].bottom /\ u < c
  BY <1>1, <1>2, LineIs
<1>4. PICK spans : spans = ls[i].spans /\ GoRight(spans) /\ spans # <<>>
  BY <1>1, <1>2, LineIs
<1>5. PICK top \in Nat : top = Greatest(y, t) /\ y <= top /\ t <= top /\ top \in {y, t}
  BY <1>2, <1>3 DEF Greatest
<1>6. Greatest(y, u) = u /\ y < u /\ top < u /\ u < b
  <2>1. top < Greatest(y, u) /\ Greatest(y, u) < b
    BY <1>3, <1>5
  <2>. QED
    BY <2>1, <1>2, <1>3, <1>5 DEF Greatest
<1>7. /\ GoDown(r) /\ r # <<>> /\ Last(r).bottom = u
      /\ \A x, yy \in Nat : FilledFrom(r, 1, x, yy)
            <=> FilledFrom(lines, 1, x, yy) \/ (top <= yy /\ yy < u /\ CoveredFrom(spans, 1, x))
  <2>1. r = AppendLine(lines, top, u, spans) /\ (lines # <<>> => Last(lines).bottom <= top)
    BY <1>2, <1>3, <1>4, <1>5, <1>6
  <2>. QED
    BY <2>1, <1>2, <1>3, <1>4, <1>6, LineAppended
<1>8. Reached(ls, r, i, u) /\ Reached(ms, r, j, u)
  <2>1. u <= Greatest(u, t) /\ u <= Greatest(u, u)
    BY <1>3 DEF Greatest
  <2>. QED
    BY <2>1, <1>1, <1>2, <1>3, <1>6, <1>7 DEF Reached
<1>9. ASSUME NEW x \in Nat, NEW yy \in Nat
      PROVE  FilledFrom(ls, 1, x, yy) \/ FilledFrom(ms, 1, x, yy)
            <=> \/ FilledFrom(r, 1, x, yy)
                \/ u <= yy /\ (FilledFrom(ls, i, x, yy) \/ FilledFrom(ms, j, x, yy))
  <2>1. InLine(ls[i], x, yy) <=> t <= yy /\ yy < b /\ CoveredFrom(spans, 1, x)
    BY <1>3, <1>4 DEF InLine
  <2>2. /\ FilledFrom(ls, i, x, yy) <=> InLine(ls[i], x, yy) \/ FilledFrom(ls, i + 1, x, yy)
        /\ FilledFrom(ls, i + 1, x, yy) => b <= yy
        /\ FilledFrom(ms, j, x, yy) => u <= yy
    BY <1>1, <1>2, <1>3, FilledStep
  <2>3. top <= yy <=> y <= yy /\ t <= yy
    BY <1>2, <1>5
  <2>4. CASE u <= yy
    <3>1. y <= yy /\ ~ (yy < u)
      BY <2>4, <1>2, <1>6
    <3>. QED
      BY <3>1, <2>4, <1>2, <1>7
  <2>5. CASE yy < u
    <3>1. ~ (u <= yy) /\ yy < b /\ ~ (b <= yy)
      BY <2>5, <1>6
    <3>. QED
      BY <3>1, <2>1, <2>2, <2>3, <2>5, <1>2, <1>7
  <2>. QED
    BY <2>4, <2>5
<1>10. u \in Int /\ u >= -1
  BY <1>3
<1>. QED
  BY <1>3, <1>6, <1>7, <1>8, <1>9, <1>10 DEF Adding

\* The two next lines begin together: they are added down to where the first of them ends.
LEMMA SharedPartKeeps ==
  ASSUME NEW ls, GoDown(ls), NEW ms, GoDown(ms), NEW lines, NEW i, NEW j, NEW y,
         Adding(ls, ms, lines, i, j, y), i <= Len(ls), j <= Len(ms),
         Greatest(y, ls[i].top) = Greatest(y, ms[j].top),
         NEW bottom, bottom = Least(ls[i].bottom, ms[j].bottom),
         NEW r, r = AppendLine(lines, Greatest(y, ls[i].top), bottom,
                               UnionLineSpans(ls[i].spans, ms[j].spans))
  PROVE  Adding(ls, ms, r, After(ls, i, bottom), After(ms, j, bottom), bottom) /\ y < bottom
<1>1. PICK n \in Nat, m \in Nat : n = Len(ls) /\ m = Len(ms)
  BY LineIs
<1>2. /\ y \in Int /\ y >= -1 /\ GoDown(lines) /\ i \in 1 .. n /\ j \in 1 .. m
      /\ y < ls[i].bottom /\ y < ms[j].bottom
      /\ lines # <<>> => Last(lines).bottom <= Greatest(y, ls[i].top)
      /\ \A x, yy \in Nat :
          FilledFrom(ls, 1, x, yy) \/ FilledFrom(ms, 1, x, yy)
            <=> \/ FilledFrom(lines, 1, x, yy)
                \/ y <= yy /\ (FilledFrom(ls, i, x, yy) \/ FilledFrom(ms, j, x, yy))
  BY <1>1 DEF Adding, Reached
<1>3. PICK t, b, u, c \in Nat : /\ t = ls[i].top /\ b = ls[i].bottom /\ t < b
                                /\ u = ms[j].top /\ c = ms[j].bottom /\ u < c
  BY <1>1, <1>2, LineIs
<1>4. PICK s, q : /\ s = ls[i].spans /\ GoRight(s) /\ s # <<>>
                  /\ q = ms[j].spans /\ GoRight(q) /\ q # <<>>
  BY <1>1, <1>2, LineIs
<1>5. PICK top \in Nat : /\ top = Greatest(y, t) /\ top = Greatest(y, u)
                         /\ y <= top /\ t <= top /\ top \in {y, t} /\ u <= top /\ top \in {y, u}
  BY <1>2, <1>3, SMTT(40) DEF Greatest
<1>6. bottom \in Nat /\ top < bottom /\ bottom <= b /\ bottom <= c /\ bottom \in {b, c}
  <2>1. bottom = Least(b, c)
    BY <1>3
  <2>. QED
    BY <2>1, <1>2, <1>3, <1>5 DEF Least
<1>7. PICK spans : /\ spans = UnionLineSpans(s, q) /\ GoRight(spans) /\ spans # <<>>
                   /\ \A x \in Nat : CoveredFrom(spans, 1, x)
                                       <=> CoveredFrom(s, 1, x) \/ CoveredFrom(q, 1, x)
  BY <1>4, UnionLineSpansIs
<1>8. /\ GoDown(r) /\ r # <<>> /\ Last(r).bottom = bottom
      /\ \A x, yy \in Nat : FilledFrom(r, 1, x, yy)
            <=> FilledFrom(lines, 1, x, yy) \/ (top <= yy /\ yy < bottom /\ CoveredFrom(spans, 1, x))
  <2>1. r = AppendLine(lines, top, bottom, spans) /\ (lines # <<>> => Last(lines).bottom <= top)
    BY <1>2, <1>3, <1>4, <1>5, <1>7
  <2>. QED
    BY <2>1, <1>2, <1>6, <1>7, LineAppended
<1>9. ASSUME NEW qs, GoDown(qs), NEW k \in 1 .. Len(qs), bottom <= qs[k].bottom
      PROVE  /\ Reached(qs, r, After(qs, k, bottom), bottom)
             /\ \A x, yy \in Nat : bottom <= yy =>
                  (FilledFrom(qs, After(qs, k, bottom), x, yy) <=> FilledFrom(qs, k, x, yy))
  <2>1. PICK e, g \in Nat : e = qs[k].bottom /\ g = qs[k].top
    BY <1>9, LineIs
  <2>2. CASE e = bottom
    <3>1. After(qs, k, bottom) = k + 1
      BY <2>1, <2>2 DEF After
    <3>2. Reached(qs, r, k + 1, bottom)
      <4>1. bottom \in Int /\ bottom <= qs[k].bottom /\ Last(r).bottom = qs[k].bottom
        BY <2>1, <2>2, <1>6, <1>8
      <4>. QED
        BY <4>1, <1>9, NextLine
    <3>3. ASSUME NEW x \in Nat, NEW yy \in Nat, bottom <= yy
          PROVE  FilledFrom(qs, k + 1, x, yy) <=> FilledFrom(qs, k, x, yy)
      <4>1. FilledFrom(qs, k, x, yy) <=> InLine(qs[k], x, yy) \/ FilledFrom(qs, k + 1, x, yy)
        BY <1>9, FilledStep
      <4>2. ~ InLine(qs[k], x, yy)
        BY <3>3, <2>1, <2>2, <1>6 DEF InLine
      <4>. QED
        BY <4>1, <4>2
    <3>. QED
      BY <3>1, <3>2, <3>3
  <2>3. CASE e # bottom
    <3>1. After(qs, k, bottom) = k
      BY <2>1, <2>3 DEF After
    <3>2. bottom < e /\ bottom <= Greatest(bottom, g)
      BY <2>1, <2>3, <1>6, <1>9 DEF Greatest
    <3>3. Len(qs) \in Nat /\ k \in 1 .. Len(qs) + 1
      BY <1>9, LineIs
    <3>4. Reached(qs, r, k, bottom)
      BY <3>2, <3>3, <2>1, <1>8 DEF Reached
    <3>. QED
      BY <3>1, <3>4
  <2>. QED
    BY <2>2, <2>3
<1>10. PICK i1, j1 : i1 = After(ls, i, bottom) /\ j1 = After(ms, j, bottom)
  OBVIOUS
<1>11. /\ Reached(ls, r, i1, bottom) /\ Reached(ms, r, j1, bottom)
       /\ \A x, yy \in Nat : bottom <= yy =>
            /\ FilledFrom(ls, i1, x, yy) <=> FilledFrom(ls, i, x, yy)
            /\ FilledFrom(ms, j1, x, yy) <=> FilledFrom(ms, j, x, yy)
  BY <1>1, <1>2, <1>3, <1>6, <1>9, <1>10
<1>12. ASSUME NEW x \in Nat, NEW yy \in Nat
       PROVE  FilledFrom(ls, 1, x, yy) \/ FilledFrom(ms, 1, x, yy)
            <=> \/ FilledFrom(r, 1, x, yy)
                \/ bottom <= yy /\ (FilledFrom(ls, i1, x, yy) \/ FilledFrom(ms, j1, x, yy))
  <2>1. /\ InLine(ls[i], x, yy) <=> t <= yy /\ yy < b /\ CoveredFrom(s, 1, x)
        /\ InLine(ms[j], x, yy) <=> u <= yy /\ yy < c /\ CoveredFrom(q, 1, x)
    BY <1>3, <1>4 DEF InLine
  <2>2. /\ FilledFrom(ls, i, x, yy) <=> InLine(ls[i], x, yy) \/ FilledFrom(ls, i + 1, x, yy)
        /\ FilledFrom(ls, i + 1, x, yy) => b <= yy
        /\ FilledFrom(ms, j, x, yy) <=> InLine(ms[j], x, yy) \/ FilledFrom(ms, j + 1, x, yy)
        /\ FilledFrom(ms, j + 1, x, yy) => c <= yy
    BY <1>1, <1>2, <1>3, FilledStep
  <2>3. (top <= yy <=> y <= yy /\ t <= yy) /\ (top <= yy <=> y <= yy /\ u <= yy)
    BY <1>2, <1>5
  <2>4. CASE bottom <= yy
    <3>1. y <= yy /\ ~ (yy < bottom)
      BY <2>4, <1>2, <1>5, <1>6
    <3>. QED
      BY <3>1, <2>4, <1>2, <1>8, <1>11
  <2>5. CASE yy < bottom
    <3>1. ~ (bottom <= yy) /\ yy < b /\ yy < c /\ ~ (b <= yy) /\ ~ (c <= yy)
      BY <2>5, <1>6
    <3>. QED
      BY <3>1, <2>1, <2>2, <2>3, <2>5, <1>2, <1>7, <1>8
  <2>. QED
    BY <2>4, <2>5, <1>6
<1>13. bottom \in Int /\ bottom >= -1 /\ y < bottom
  BY <1>2, <1>5, <1>6
<1>. QED
  BY <1>8, <1>10, <1>11, <1>12, <1>13 DEF Adding

\* What the walk can be after k rounds.
UnionRounds(ls, ms, k) ==
    {w \in [lines : Seq(LineSet), i : Nat, j : Nat, y : Int] :
       /\ Adding(ls, ms, w.lines, w.i, w.j, w.y)
       /\ (w.i > Len(ls) /\ w.j > Len(ms)) \/ w.i + w.j + w.y >= k + 1}

\* A round of the walk keeps the union of what it has passed, and passes a line at least.
LEMMA UnionRoundKeeps ==
  ASSUME NEW ls, GoDown(ls), NEW ms, GoDown(ms), NEW k \in Nat, NEW w \in UnionRounds(ls, ms, k)
  PROVE  UnionRound(ls, ms, w) \in UnionRounds(ls, ms, k + 1)
<1>1. PICK n \in Nat, m \in Nat : n = Len(ls) /\ m = Len(ms)
  BY LineIs
<1>2. PICK lines \in Seq(LineSet), i \in Nat, j \in Nat, y \in Int :
           w = [lines |-> lines, i |-> i, j |-> j, y |-> y]
  BY DEF UnionRounds
<1>3. w.lines = lines /\ w.i = i /\ w.j = j /\ w.y = y
  BY <1>2
<1>4. Adding(ls, ms, lines, i, j, y) /\ ((i > n /\ j > m) \/ i + j + y >= k + 1)
  BY <1>1, <1>3 DEF UnionRounds
<1>5. i \in 1 .. n + 1 /\ j \in 1 .. m + 1
  BY <1>1, <1>4 DEF Adding, Reached
<1>6. CASE i > n /\ j > m
  <2>1. UnionRound(ls, ms, w) = w
    BY <1>1, <1>3, <1>6 DEF UnionRound
  <2>. QED
    BY <2>1, <1>1, <1>3, <1>6 DEF UnionRounds
<1>7. ASSUME NEW q, NEW i1, NEW j1, NEW y1 \in Int, Adding(ls, ms, q, i1, j1, y1),
             i1 + j1 + y1 >= k + 2, NEW v, v = [lines |-> q, i |-> i1, j |-> j1, y |-> y1]
      PROVE  v \in UnionRounds(ls, ms, k + 1)
  <2>1. i1 \in Nat /\ j1 \in Nat /\ q \in Seq(LineSet)
    BY <1>1, <1>7 DEF Adding, Reached, GoDown
  <2>2. v.lines = q /\ v.i = i1 /\ v.j = j1 /\ v.y = y1
        /\ v \in [lines : Seq(LineSet), i : Nat, j : Nat, y : Int]
    BY <2>1, <1>7
  <2>3. i1 + j1 + y1 >= (k + 1) + 1
    BY <2>1, <1>7
  <2>. QED
    BY <2>2, <2>3, <1>7 DEF UnionRounds
<1>9. ~ (i > n /\ j > m) => i + j + y >= k + 1
  BY <1>4
<1>10. PICK a, b, aTop, bTop, bottom :
            /\ a = ls[i] /\ b = ms[j] /\ aTop = Greatest(y, a.top) /\ bTop = Greatest(y, b.top)
            /\ bottom = Least(a.bottom, b.bottom)
  OBVIOUS
<1>11. CASE ~ (i > n /\ j > m) /\ (j > m \/ (i <= n /\ a.bottom <= bTop))
  <2>1. PICK q : q = AppendLine(lines, aTop, a.bottom, a.spans)
    OBVIOUS
  <2>2. UnionRound(ls, ms, w) = [lines |-> q, i |-> i + 1, j |-> j, y |-> y]
    BY <2>1, <1>1, <1>2, <1>3, <1>10, <1>11 DEF UnionRound
  <2>3. i <= n /\ (j > m \/ a.bottom <= bTop)
    BY <1>11
  <2>4. Adding(ls, ms, q, i + 1, j, y)
    BY <2>1, <2>3, <1>1, <1>4, <1>10, WholeLineKeeps
  <2>5. (i + 1) + j + y >= k + 2
    BY <1>9, <1>11
  <2>. QED
    BY <2>2, <2>4, <2>5, <1>7
<1>12. CASE /\ ~ (i > n /\ j > m) /\ ~ (j > m \/ (i <= n /\ a.bottom <= bTop))
            /\ i > n \/ b.bottom <= aTop
  <2>1. PICK q : q = AppendLine(lines, bTop, b.bottom, b.spans)
    OBVIOUS
  <2>2. UnionRound(ls, ms, w) = [lines |-> q, i |-> i, j |-> j + 1, y |-> y]
    BY <2>1, <1>1, <1>2, <1>3, <1>10, <1>12 DEF UnionRound
  <2>3. j <= m /\ (i > n \/ b.bottom <= aTop)
    BY <1>12
  <2>4. Adding(ms, ls, lines, j, i, y)
    BY <1>4, AddingSwaps
  <2>5. Adding(ms, ls, q, j + 1, i, y)
    BY <2>1, <2>3, <2>4, <1>1, <1>10, WholeLineKeeps
  <2>6. Adding(ls, ms, q, i, j + 1, y)
    BY <2>5, AddingSwaps
  <2>7. i + (j + 1) + y >= k + 2
    BY <1>9, <1>12
  <2>. QED
    BY <2>2, <2>6, <2>7, <1>7
<1>13. CASE /\ ~ (i > n /\ j > m) /\ ~ (j > m \/ (i <= n /\ a.bottom <= bTop))
            /\ ~ (i > n \/ b.bottom <= aTop)
  <2>1. i <= n /\ j <= m /\ i \in 1 .. n /\ j \in 1 .. m
    BY <1>5, <1>13
  <2>2. /\ a.bottom \in Nat /\ b.bottom \in Nat /\ a.top \in Nat /\ b.top \in Nat
    BY <2>1, <1>1, <1>10, LineIs
  <2>3. aTop \in Int /\ bTop \in Int
    BY <2>2, <1>10 DEF Greatest
  <2>4. bTop < a.bottom /\ aTop < b.bottom
    BY <2>1, <2>2, <2>3, <1>13
  <2>5. CASE aTop < bTop
    <3>1. PICK q : q = AppendLine(lines, aTop, bTop, a.spans)
      OBVIOUS
    <3>2. UnionRound(ls, ms, w) = [lines |-> q, i |-> i, j |-> j, y |-> bTop]
      BY <3>1, <2>5, <1>1, <1>2, <1>3, <1>10, <1>13 DEF UnionRound
    <3>3. Adding(ls, ms, q, i, j, bTop) /\ y < bTop
      BY <3>1, <2>1, <2>4, <2>5, <1>1, <1>4, <1>10, UpperPartKeeps
    <3>4. i + j + bTop >= k + 2
      BY <3>3, <2>3, <1>9, <1>13
    <3>. QED
      BY <3>2, <3>3, <3>4, <2>3, <1>7
  <2>6. CASE bTop < aTop
    <3>1. PICK q : q = AppendLine(lines, bTop, aTop, b.spans)
      OBVIOUS
    <3>2. UnionRound(ls, ms, w) = [lines |-> q, i |-> i, j |-> j, y |-> aTop]
      <4>1. ~ (aTop < bTop)
        BY <2>3, <2>6
      <4>. QED
        BY <4>1, <3>1, <2>6, <1>1, <1>2, <1>3, <1>10, <1>13 DEF UnionRound
    <3>3. Adding(ms, ls, lines, j, i, y)
      BY <1>4, AddingSwaps
    <3>4. Adding(ms, ls, q, j, i, aTop) /\ y < aTop
      BY <3>1, <3>3, <2>1, <2>4, <2>6, <1>1, <1>10, UpperPartKeeps
    <3>5. Adding(ls, ms, q, i, j, aTop)
      BY <3>4, AddingSwaps
    <3>6. i + j + aTop >= k + 2
      BY <3>4, <2>3, <1>9, <1>13
    <3>. QED
      BY <3>2, <3>5, <3>6, <2>3, <1>7
  <2>7. CASE aTop = bTop
    <3>1. PICK q : q = AppendLine(lines, aTop, bottom, UnionLineSpans(a.spans, b.spans))
      OBVIOUS
    <3>2. PICK i1, j1 : i1 = After(ls, i, bottom) /\ j1 = After(ms, j, bottom)
      OBVIOUS
    <3>3. UnionRound(ls, ms, w) = [lines |-> q, i |-> i1, j |-> j1, y |-> bottom]
      <4>1. ~ (aTop < bTop) /\ ~ (bTop < aTop)
        BY <2>3, <2>7
      <4>. QED
        BY <4>1, <3>1, <3>2, <1>1, <1>2, <1>3, <1>10, <1>13 DEF UnionRound
    <3>4. Adding(ls, ms, q, i1, j1, bottom) /\ y < bottom
      BY <3>1, <3>2, <2>1, <2>7, <1>1, <1>4, <1>10, SharedPartKeeps
    <3>5. bottom \in Int
      BY <2>2, <1>10 DEF Least
    <3>6. i1 \in {i, i + 1} /\ j1 \in {j, j + 1}
      BY <3>2 DEF After
    <3>7. i1 + j1 + bottom >= k + 2
      BY <3>4, <3>5, <3>6, <1>9, <1>13
    <3>. QED
      BY <3>3, <3>4, <3>5, <3>7, <1>7
  <2>. QED
    BY <2>3, <2>5, <2>6, <2>7
<1>. QED
  BY <1>6, <1>11, <1>12, <1>13

\* The lines of two regions together.
LEMMA UnionLinesIs ==
  ASSUME NEW ls, GoDown(ls), NEW ms, GoDown(ms), NEW bottom \in Nat,
         \A k \in 1 .. Len(ls) : ls[k].bottom <= bottom,
         \A k \in 1 .. Len(ms) : ms[k].bottom <= bottom,
         NEW r, r = UnionLines(ls, ms, bottom)
  PROVE  /\ GoDown(r)
         /\ \A x, y \in Nat : FilledFrom(r, 1, x, y) <=> FilledFrom(ls, 1, x, y) \/ FilledFrom(ms, 1, x, y)
<1>1. PICK n \in Nat, m \in Nat : n = Len(ls) /\ m = Len(ms)
  BY LineIs
<1>2. PICK rounds \in Nat : rounds = Len(ls) + Len(ms) + bottom + 1 /\ rounds = n + m + bottom + 1
  BY <1>1
<1>3. PICK start : start = [lines |-> <<>>, i |-> 1, j |-> 1, y |-> -1]
  OBVIOUS
<1>4. (1 <= n => -1 < ls[1].bottom) /\ (1 <= m => -1 < ms[1].bottom)
  <2>1. (1 <= n => 1 \in 1 .. n) /\ (1 <= m => 1 \in 1 .. m)
    OBVIOUS
  <2>2. (1 <= n => ls[1].bottom \in Nat) /\ (1 <= m => ms[1].bottom \in Nat)
    BY <2>1, <1>1, LineIs
  <2>. QED
    BY <2>2
<1>. DEFINE T == [k \in 0 .. rounds |-> UnionRounds(ls, ms, k)]
            All == UNION {T[k] : k \in 0 .. rounds}
            step == [p \in (1 .. rounds) \X All |-> UnionRound(ls, ms, p[2])]
            Defines(f) == f = [k \in 0 .. rounds |-> IF k = 0 THEN start ELSE UnionRound(ls, ms, f[k - 1])]
            walk == CHOOSE f : Defines(f)
<1>5. start \in T[0]
  <2>1. start.lines = <<>> /\ start.i = 1 /\ start.j = 1 /\ start.y = -1
        /\ start \in [lines : Seq(LineSet), i : Nat, j : Nat, y : Int]
    BY <1>3
  <2>2. GoDown(<<>>) /\ \A x, y \in Nat : ~ FilledFrom(<<>>, 1, x, y)
    BY DEF GoDown, FilledFrom
  <2>3. Reached(ls, <<>>, 1, -1) /\ Reached(ms, <<>>, 1, -1)
    BY <1>1, <1>4 DEF Reached
  <2>4. Adding(ls, ms, <<>>, 1, 1, -1)
    BY <2>2, <2>3 DEF Adding
  <2>5. 0 \in 0 .. rounds
    OBVIOUS
  <2>. QED
    BY <2>1, <2>4, <2>5 DEF UnionRounds
<1>6. ASSUME NEW k \in 1 .. rounds, NEW w \in T[k - 1]
      PROVE  UnionRound(ls, ms, w) \in T[k] /\ step[<<k, w>>] = UnionRound(ls, ms, w)
  <2>1. k - 1 \in 0 .. rounds /\ k \in 0 .. rounds /\ k - 1 \in Nat /\ k - 1 < rounds /\ (k - 1) + 1 = k
    OBVIOUS
  <2>2. w \in UnionRounds(ls, ms, k - 1) /\ w \in All
    BY <2>1
  <2>3. UnionRound(ls, ms, w) \in UnionRounds(ls, ms, k)
    BY <2>1, <2>2, <1>2, UnionRoundKeeps
  <2>. QED
    BY <2>1, <2>2, <2>3
<1>7. PICK f : WalkIs(f, rounds, T, start, step)
  <2>. HIDE DEF T, step
  <2>1. \A k \in 1 .. rounds : \A w \in T[k - 1] : step[<<k, w>>] \in T[k]
    BY <1>6
  <2>. QED
    BY <2>1, <1>5, WalkExists, Zenon
<1>8. Defines(f)
  <2>1. ASSUME NEW k \in 0 .. rounds, k # 0 PROVE step[<<k, f[k - 1]>>] = UnionRound(ls, ms, f[k - 1])
    <3>1. k \in 1 .. rounds /\ k - 1 \in 0 .. rounds
      BY <2>1
    <3>. HIDE DEF T, step
    <3>. QED
      BY <3>1, <1>6, <1>7 DEF WalkIs
  <2>. HIDE DEF T, step
  <2>. QED
    BY <2>1, <1>7 DEF WalkIs
<1>9. Defines(walk)
  <2>. HIDE DEF Defines
  <2>. QED
    BY <1>8
<1>10. walk[0] = start /\ \A k \in 1 .. rounds : walk[k] = UnionRound(ls, ms, walk[k - 1])
  <2>1. 0 \in 0 .. rounds /\ \A k \in 1 .. rounds : k \in 0 .. rounds /\ k # 0
    OBVIOUS
  <2>. HIDE DEF walk
  <2>. QED
    BY <2>1, <1>9
<1>11. r = walk[rounds].lines
  BY <1>2, <1>3 DEF UnionLines
<1>12. walk[rounds] \in T[rounds]
  <2>1. walk[0] \in T[0] /\ \A k \in 1 .. rounds : walk[k - 1] \in T[k - 1] => walk[k] \in T[k]
    <3>. HIDE DEF walk, T, step
    <3>. QED
      BY <1>5, <1>6, <1>10
  <2>2. rounds \in 0 .. rounds
    OBVIOUS
  <2>. HIDE DEF walk, T
  <2>. QED
    BY <2>1, <2>2, WalkStays
<1>13. PICK w : w = walk[rounds] /\ w \in UnionRounds(ls, ms, rounds)
  <2>1. rounds \in 0 .. rounds
    OBVIOUS
  <2>. QED
    BY <1>12, <2>1
<1>14. PICK i, j \in Nat, y \in Int : i = w.i /\ j = w.j /\ y = w.y
  BY <1>13 DEF UnionRounds
<1>15. Adding(ls, ms, r, i, j, y) /\ ((i > n /\ j > m) \/ i + j + y >= rounds + 1)
  <2>1. r = w.lines
    BY <1>11, <1>13
  <2>. HIDE DEF walk
  <2>. QED
    BY <2>1, <1>1, <1>13, <1>14 DEF UnionRounds
<1>16. /\ i \in 1 .. n + 1 /\ j \in 1 .. m + 1 /\ GoDown(r)
       /\ i <= n => y < ls[i].bottom
       /\ j <= m => y < ms[j].bottom
       /\ \A x, yy \in Nat :
          FilledFrom(ls, 1, x, yy) \/ FilledFrom(ms, 1, x, yy)
            <=> \/ FilledFrom(r, 1, x, yy)
                \/ y <= yy /\ (FilledFrom(ls, i, x, yy) \/ FilledFrom(ms, j, x, yy))
  BY <1>1, <1>15 DEF Adding, Reached
<1>17. i > n /\ j > m
  <2>1. i <= n => y < bottom
    <3>1. i <= n => i \in 1 .. n
      BY <1>16
    <3>2. i <= n => ls[i].bottom \in Nat /\ ls[i].bottom <= bottom
      BY <3>1, <1>1, LineIs
    <3>. QED
      BY <3>2, <1>16
  <2>2. j <= m => y < bottom
    <3>1. j <= m => j \in 1 .. m
      BY <1>16
    <3>2. j <= m => ms[j].bottom \in Nat /\ ms[j].bottom <= bottom
      BY <3>1, <1>1, LineIs
    <3>. QED
      BY <3>2, <1>16
  <2>. QED
    BY <2>1, <2>2, <1>2, <1>15, <1>16, SMTT(40)
<1>18. \A x, yy \in Nat : ~ FilledFrom(ls, i, x, yy) /\ ~ FilledFrom(ms, j, x, yy)
  BY <1>1, <1>16, <1>17, FilledEnd
<1>. QED
  BY <1>16, <1>18

-----------------------------------------------------------------------------
(* Areas                                                                   *)

\* A rectangle is exactly around some pixels.
Frames(b, c) ==
    \/ c = {} /\ b = NoRect
    \/ /\ IsRect(b)
       /\ \A x, y \in Nat : <<x, y>> \in c => InRect(b, x, y)
       /\ \E y \in Nat : <<b.left, y>> \in c
       /\ \E y \in Nat : <<b.right - 1, y>> \in c
       /\ \E x \in Nat : <<x, b.top>> \in c
       /\ \E x \in Nat : <<x, b.bottom - 1>> \in c

\* A region in canonical lines is the pixels c.
IsArea(r, c) ==
    /\ GoDown(r.lines)
    /\ c \in SUBSET (Nat \X Nat)
    /\ \A x, y \in Nat : <<x, y>> \in c <=> FilledFrom(r.lines, 1, x, y)
    /\ Frames(r.bounds, c)

\* The empty rectangle.
LEMMA NoRectIs ==
  IsEmptyRect(NoRect) /\ ~ IsRect(NoRect) /\ NoRect \in RectSet /\ NoRect.bottom = 0
  BY DEF NoRect, MakeRect, IsEmptyRect, IsRect, RectSet

\* A rectangle is empty or has pixels.
LEMMA EmptyOrRect ==
  ASSUME NEW r \in RectSet
  PROVE  IsEmptyRect(r) <=> ~ IsRect(r)
  BY DEF IsEmptyRect, IsRect

\* A pixel of some pixels.
LEMMA PixelsHaveOne ==
  ASSUME NEW c \in SUBSET (Nat \X Nat), c # {}
  PROVE  \E x, y \in Nat : <<x, y>> \in c
<1>1. PICK p \in c : TRUE
  OBVIOUS
<1>2. PICK x \in Nat, y \in Nat : p = <<x, y>>
  BY <1>1
<1>. QED
  BY <1>1, <1>2

\* The pixels of a rectangle.
LEMMA CellsAre ==
  ASSUME NEW r, IsRect(r)
  PROVE  /\ CellsOf(r) \in SUBSET (Nat \X Nat)
         /\ \A x, y \in Nat : <<x, y>> \in CellsOf(r) <=> InRect(r, x, y)
         /\ \A x, y : <<x, y>> \in CellsOf(r) => x \in Nat /\ y \in Nat
<1>1. PICK l, t, q, b \in Nat : /\ l = r.left /\ t = r.top /\ q = r.right /\ b = r.bottom
                                /\ l < q /\ t < b
  BY RectIs
<1>2. CellsOf(r) = (l .. q - 1) \X (t .. b - 1)
  BY <1>1 DEF CellsOf
<1>3. ASSUME NEW x \in Nat, NEW y \in Nat
      PROVE  x \in l .. q - 1 /\ y \in t .. b - 1 <=> InRect(r, x, y)
  BY <1>1 DEF InRect
<1>4. (l .. q - 1) \in SUBSET Nat /\ (t .. b - 1) \in SUBSET Nat
  BY <1>1
<1>5. \A x, y : <<x, y>> \in CellsOf(r) <=> x \in l .. q - 1 /\ y \in t .. b - 1
  BY <1>2
<1>6. CellsOf(r) \in SUBSET (Nat \X Nat)
  BY <1>2, <1>4
<1>. QED
  BY <1>3, <1>4, <1>5, <1>6

\* A rectangle is exactly around its pixels.
LEMMA CellsAreFramed ==
  ASSUME NEW r, IsRect(r)
  PROVE  Frames(r, CellsOf(r))
<1>1. PICK l, t, q, b \in Nat : /\ l = r.left /\ t = r.top /\ q = r.right /\ b = r.bottom
                                /\ l < q /\ t < b
  BY RectIs
<1>2. q - 1 \in Nat /\ b - 1 \in Nat
  BY <1>1
<1>3. InRect(r, l, t) /\ InRect(r, q - 1, t) /\ InRect(r, l, b - 1)
  BY <1>1, <1>2 DEF InRect
<1>4. <<l, t>> \in CellsOf(r) /\ <<q - 1, t>> \in CellsOf(r) /\ <<l, b - 1>> \in CellsOf(r)
  BY <1>1, <1>2, <1>3, CellsAre
<1>5. \A x, y \in Nat : <<x, y>> \in CellsOf(r) => InRect(r, x, y)
  BY CellsAre
<1>. QED
  BY <1>1, <1>4, <1>5 DEF Frames

\* There is one such rectangle.
LEMMA FramesAgree ==
  ASSUME NEW c, NEW a, NEW b, Frames(a, c), Frames(b, c)
  PROVE  a = b
<1>1. CASE c = {}
  BY <1>1 DEF Frames
<1>2. CASE c # {}
  <2>1. /\ IsRect(a)
        /\ \A x, y \in Nat : <<x, y>> \in c => InRect(a, x, y)
        /\ \E y \in Nat : <<a.left, y>> \in c
        /\ \E y \in Nat : <<a.right - 1, y>> \in c
        /\ \E x \in Nat : <<x, a.top>> \in c
        /\ \E x \in Nat : <<x, a.bottom - 1>> \in c
    BY <1>2 DEF Frames
  <2>2. /\ IsRect(b)
        /\ \A x, y \in Nat : <<x, y>> \in c => InRect(b, x, y)
        /\ \E y \in Nat : <<b.left, y>> \in c
        /\ \E y \in Nat : <<b.right - 1, y>> \in c
        /\ \E x \in Nat : <<x, b.top>> \in c
        /\ \E x \in Nat : <<x, b.bottom - 1>> \in c
    BY <1>2 DEF Frames
  <2>3. PICK l, t, q, e \in Nat : l = a.left /\ t = a.top /\ q = a.right /\ e = a.bottom /\ l < q /\ t < e
    BY <2>1, RectIs
  <2>4. PICK l2, t2, q2, e2 \in Nat :
             l2 = b.left /\ t2 = b.top /\ q2 = b.right /\ e2 = b.bottom /\ l2 < q2 /\ t2 < e2
    BY <2>2, RectIs
  <2>5. q - 1 \in Nat /\ e - 1 \in Nat /\ q2 - 1 \in Nat /\ e2 - 1 \in Nat
    BY <2>3, <2>4
  <2>6. l2 <= l /\ q - 1 < q2 /\ t2 <= t /\ e - 1 < e2
    BY <2>1, <2>2, <2>3, <2>4, <2>5 DEF InRect
  <2>7. l <= l2 /\ q2 - 1 < q /\ t <= t2 /\ e2 - 1 < e
    BY <2>1, <2>2, <2>3, <2>4, <2>5 DEF InRect
  <2>8. l = l2 /\ q = q2 /\ t = t2 /\ e = e2
    BY <2>3, <2>4, <2>6, <2>7
  <2>9. /\ a = [left |-> a.left, top |-> a.top, right |-> a.right, bottom |-> a.bottom]
        /\ b = [left |-> b.left, top |-> b.top, right |-> b.right, bottom |-> b.bottom]
    BY <2>1, <2>2 DEF IsRect, RectSet
  <2>10. a.left = b.left /\ a.top = b.top /\ a.right = b.right /\ a.bottom = b.bottom
    BY <2>3, <2>4, <2>8
  <2>. QED
    BY <2>9, <2>10
<1>. QED
  BY <1>1, <1>2

\* The join of two rectangles is exactly around what they are around.
LEMMA FramesJoin ==
  ASSUME NEW a, NEW c, Frames(a, c), NEW b, NEW d, Frames(b, d)
  PROVE  Frames(Join(a, b), c \cup d)
<1>1. CASE d = {}
  <2>1. b = NoRect
    BY <1>1 DEF Frames
  <2>2. Join(a, b) = a /\ c \cup d = c
    BY <2>1, <1>1, NoRectIs DEF Join
  <2>. QED
    BY <2>2
<1>2. CASE d # {} /\ c = {}
  <2>1. a = NoRect /\ IsRect(b) /\ b \in RectSet
    BY <1>2 DEF Frames, IsRect
  <2>2. Join(a, b) = b /\ c \cup d = d
    BY <2>1, <1>2, NoRectIs, EmptyOrRect DEF Join
  <2>. QED
    BY <2>2
<1>3. CASE d # {} /\ c # {}
  <2>1. /\ IsRect(a)
        /\ \A x, y \in Nat : <<x, y>> \in c => InRect(a, x, y)
        /\ \E y \in Nat : <<a.left, y>> \in c
        /\ \E y \in Nat : <<a.right - 1, y>> \in c
        /\ \E x \in Nat : <<x, a.top>> \in c
        /\ \E x \in Nat : <<x, a.bottom - 1>> \in c
    BY <1>3 DEF Frames
  <2>2. /\ IsRect(b)
        /\ \A x, y \in Nat : <<x, y>> \in d => InRect(b, x, y)
        /\ \E y \in Nat : <<b.left, y>> \in d
        /\ \E y \in Nat : <<b.right - 1, y>> \in d
        /\ \E x \in Nat : <<x, b.top>> \in d
        /\ \E x \in Nat : <<x, b.bottom - 1>> \in d
    BY <1>3 DEF Frames
  <2>3. PICK l, t, q, e \in Nat : l = a.left /\ t = a.top /\ q = a.right /\ e = a.bottom /\ l < q /\ t < e
    BY <2>1, RectIs
  <2>4. PICK l2, t2, q2, e2 \in Nat :
             l2 = b.left /\ t2 = b.top /\ q2 = b.right /\ e2 = b.bottom /\ l2 < q2 /\ t2 < e2
    BY <2>2, RectIs
  <2>5. PICK l3, t3, q3, e3 \in Nat :
             /\ l3 = Least(l, l2) /\ t3 = Least(t, t2) /\ q3 = Greatest(q, q2) /\ e3 = Greatest(e, e2)
             /\ l3 <= l /\ l3 <= l2 /\ l3 \in {l, l2}
             /\ t3 <= t /\ t3 <= t2 /\ t3 \in {t, t2}
             /\ q <= q3 /\ q2 <= q3 /\ q3 \in {q, q2}
             /\ e <= e3 /\ e2 <= e3 /\ e3 \in {e, e2}
    <3>1. PICK l3 \in Nat : l3 = Least(l, l2) /\ l3 <= l /\ l3 <= l2 /\ l3 \in {l, l2}
      BY DEF Least
    <3>2. PICK t3 \in Nat : t3 = Least(t, t2) /\ t3 <= t /\ t3 <= t2 /\ t3 \in {t, t2}
      BY DEF Least
    <3>3. PICK q3 \in Nat : q3 = Greatest(q, q2) /\ q <= q3 /\ q2 <= q3 /\ q3 \in {q, q2}
      BY DEF Greatest
    <3>4. PICK e3 \in Nat : e3 = Greatest(e, e2) /\ e <= e3 /\ e2 <= e3 /\ e3 \in {e, e2}
      BY DEF Greatest
    <3>. QED
      BY <3>1, <3>2, <3>3, <3>4
  <2>6. PICK r \in RectSet : r = [left |-> l3, top |-> t3, right |-> q3, bottom |-> e3]
    BY DEF RectSet
  <2>7. r.left = l3 /\ r.top = t3 /\ r.right = q3 /\ r.bottom = e3
    BY <2>6
  <2>8. Join(a, b) = r
    <3>1. ~ IsEmptyRect(a) /\ ~ IsEmptyRect(b)
      BY <2>1, <2>2, EmptyOrRect DEF IsRect
    <3>. QED
      BY <3>1, <2>3, <2>4, <2>5, <2>6 DEF Join, MakeRect
  <2>9. IsRect(r)
    <3>1. l3 < q3 /\ t3 < e3
      BY <2>3, <2>4, <2>5
    <3>. QED
      BY <3>1, <2>7 DEF IsRect
  <2>10. ASSUME NEW x \in Nat, NEW y \in Nat, <<x, y>> \in c \cup d PROVE InRect(r, x, y)
    <3>1. CASE <<x, y>> \in c
      <4>1. l <= x /\ x < q /\ t <= y /\ y < e
        BY <3>1, <2>1, <2>3 DEF InRect
      <4>. QED
        BY <4>1, <2>3, <2>5, <2>7 DEF InRect
    <3>2. CASE <<x, y>> \in d
      <4>1. l2 <= x /\ x < q2 /\ t2 <= y /\ y < e2
        BY <3>2, <2>2, <2>4 DEF InRect
      <4>. QED
        BY <4>1, <2>4, <2>5, <2>7 DEF InRect
    <3>. QED
      BY <3>1, <3>2, <2>10
  <2>11. \E y \in Nat : <<r.left, y>> \in c \cup d
    BY <2>1, <2>2, <2>3, <2>4, <2>5, <2>7
  <2>12. \E y \in Nat : <<r.right - 1, y>> \in c \cup d
    BY <2>1, <2>2, <2>3, <2>4, <2>5, <2>7
  <2>13. \E x \in Nat : <<x, r.top>> \in c \cup d
    BY <2>1, <2>2, <2>3, <2>4, <2>5, <2>7
  <2>14. \E x \in Nat : <<x, r.bottom - 1>> \in c \cup d
    BY <2>1, <2>2, <2>3, <2>4, <2>5, <2>7
  <2>. QED
    BY <2>8, <2>9, <2>10, <2>11, <2>12, <2>13, <2>14 DEF Frames
<1>. QED
  BY <1>1, <1>2, <1>3

\* Every line has a pixel at its first and at its last row.
LEMMA LineHasPixels ==
  ASSUME NEW lines, GoDown(lines), NEW k \in 1 .. Len(lines)
  PROVE  \E x \in Nat : \A y \in Nat : lines[k].top <= y /\ y < lines[k].bottom
                                         => FilledFrom(lines, 1, x, y)
<1>1. PICK s : s = lines[k].spans /\ GoRight(s) /\ s # <<>>
  BY LineIs
<1>2. 1 \in 1 .. Len(s)
  BY <1>1 DEF GoRight
<1>3. PICK x \in Nat : x = s[1].left /\ InSpan(s[1], x)
  BY <1>1, <1>2, SpanIs DEF InSpan
<1>4. CoveredFrom(s, 1, x)
  BY <1>2, <1>3 DEF CoveredFrom
<1>. QED
  BY <1>1, <1>4 DEF FilledFrom, InLine

\* Only a region without pixels is empty, and its bounds are around its pixels.
LEMMA AreaIsEmpty ==
  ASSUME NEW r, NEW c, IsArea(r, c)
  PROVE  /\ IsEmpty(r) <=> c = {}
         /\ c = {} => r.bounds = NoRect
         /\ c # {} => IsRect(r.bounds)
         /\ \A x, y \in Nat : <<x, y>> \in c => InRect(r.bounds, x, y)
<1>1. GoDown(r.lines) /\ Len(r.lines) \in Nat
  BY LineIs DEF IsArea
<1>2. ASSUME r.lines # <<>> PROVE c # {}
  <2>1. 1 \in 1 .. Len(r.lines)
    BY <1>1, <1>2 DEF GoDown
  <2>2. PICK x \in Nat : \A y \in Nat : r.lines[1].top <= y /\ y < r.lines[1].bottom
                                         => FilledFrom(r.lines, 1, x, y)
    BY <1>1, <2>1, LineHasPixels
  <2>3. PICK t, b \in Nat : t = r.lines[1].top /\ b = r.lines[1].bottom /\ t < b
    BY <1>1, <2>1, LineIs
  <2>4. FilledFrom(r.lines, 1, x, t)
    BY <2>2, <2>3
  <2>. QED
    BY <2>4 DEF IsArea
<1>3. ASSUME r.lines = <<>>, NEW x \in Nat, NEW y \in Nat PROVE ~ FilledFrom(r.lines, 1, x, y)
  BY <1>3 DEF FilledFrom
<1>4. ASSUME c # {} PROVE \E x, y \in Nat : FilledFrom(r.lines, 1, x, y)
  BY <1>4, PixelsHaveOne DEF IsArea
<1>5. c = {} => r.bounds = NoRect
  <2>1. c = {} => ~ \E y \in Nat : <<r.bounds.left, y>> \in c
    OBVIOUS
  <2>. QED
    BY <2>1 DEF IsArea, Frames
<1>6. c # {} => IsRect(r.bounds) /\ \A x, y \in Nat : <<x, y>> \in c => InRect(r.bounds, x, y)
  BY DEF IsArea, Frames
<1>. QED
  BY <1>2, <1>3, <1>4, <1>5, <1>6 DEF IsEmpty

\* The lines of a region lie in its bounds.
LEMMA LinesAreInBounds ==
  ASSUME NEW r, NEW c, IsArea(r, c), NEW k \in 1 .. Len(r.lines)
  PROVE  r.bounds.top <= r.lines[k].top /\ r.lines[k].bottom <= r.bounds.bottom
<1>1. GoDown(r.lines)
  BY DEF IsArea
<1>2. PICK t, b \in Nat : t = r.lines[k].top /\ b = r.lines[k].bottom /\ t < b
  BY <1>1, LineIs
<1>3. PICK x \in Nat : \A y \in Nat : r.lines[k].top <= y /\ y < r.lines[k].bottom
                                         => FilledFrom(r.lines, 1, x, y)
  BY <1>1, LineHasPixels
<1>4. b - 1 \in Nat /\ t <= b - 1 /\ b - 1 < b
  BY <1>2
<1>5. FilledFrom(r.lines, 1, x, t) /\ FilledFrom(r.lines, 1, x, b - 1)
  BY <1>2, <1>3, <1>4
<1>6. <<x, t>> \in c /\ <<x, b - 1>> \in c
  BY <1>2, <1>4, <1>5 DEF IsArea
<1>7. InRect(r.bounds, x, t) /\ InRect(r.bounds, x, b - 1) /\ IsRect(r.bounds)
  BY <1>2, <1>4, <1>6, AreaIsEmpty
<1>8. r.bounds.top <= t /\ b - 1 < r.bounds.bottom /\ r.bounds.bottom \in Nat
  BY <1>7, RectIs DEF InRect
<1>. QED
  BY <1>2, <1>8

\* A region of one rectangle.
LEMMA SimpleIs ==
  ASSUME NEW r, IsRect(r)
  PROVE  IsArea(Simple(r), CellsOf(r))
<1>1. PICK l, t, q, b \in Nat : /\ l = r.left /\ t = r.top /\ q = r.right /\ b = r.bottom
                                /\ l < q /\ t < b
  BY RectIs
<1>2. PICK span \in SpanSet : span = [left |-> l, right |-> q]
  BY DEF SpanSet
<1>3. PICK s : s = << span >>
  OBVIOUS
<1>4. s \in Seq(SpanSet) /\ Len(s) = 1 /\ s[1] = span /\ span.left = l /\ span.right = q /\ s # <<>>
  BY <1>2, <1>3
<1>5. \A k \in 1 .. 1 : k = 1
  OBVIOUS
<1>6. GoRight(s)
  BY <1>1, <1>4, <1>5 DEF GoRight
<1>7. PICK line : line = [top |-> t, bottom |-> b, spans |-> s]
  OBVIOUS
<1>8. line \in LineSet /\ line.top = t /\ line.bottom = b /\ line.spans = s
  BY <1>1, <1>4, <1>7 DEF LineSet
<1>9. PICK lines : lines = << line >>
  OBVIOUS
<1>10. lines \in Seq(LineSet) /\ Len(lines) = 1 /\ lines[1] = line
  BY <1>8, <1>9
<1>11. IsLine(line)
  BY <1>1, <1>4, <1>6, <1>8 DEF IsLine
<1>12. GoDown(lines)
  BY <1>5, <1>10, <1>11 DEF GoDown
<1>13. Simple(r) = [lines |-> lines, bounds |-> r]
  BY <1>1, <1>2, <1>3, <1>7, <1>9 DEF Simple
<1>14. Simple(r).lines = lines /\ Simple(r).bounds = r
  BY <1>13
<1>15. ASSUME NEW x \in Nat, NEW y \in Nat PROVE InRect(r, x, y) <=> FilledFrom(lines, 1, x, y)
  <2>1. FilledFrom(lines, 1, x, y) <=> InLine(line, x, y)
    BY <1>5, <1>10 DEF FilledFrom
  <2>2. CoveredFrom(s, 1, x) <=> InSpan(span, x)
    BY <1>4, <1>5 DEF CoveredFrom
  <2>. QED
    BY <2>1, <2>2, <1>1, <1>4, <1>8 DEF InRect, InLine, InSpan
<1>16. /\ CellsOf(r) \in SUBSET (Nat \X Nat)
       /\ \A x, y \in Nat : <<x, y>> \in CellsOf(r) <=> FilledFrom(lines, 1, x, y)
  BY <1>15, CellsAre
<1>. QED
  BY <1>12, <1>14, <1>16, CellsAreFramed DEF IsArea

\* A region of one line with one span is its bounds.
LEMMA AreaIsSimple ==
  ASSUME NEW r, NEW c, IsArea(r, c), ~ IsEmpty(r), ~ IsComplex(r)
  PROVE  c = CellsOf(r.bounds) /\ IsRect(r.bounds)
<1>1. GoDown(r.lines) /\ Len(r.lines) \in Nat /\ r.lines \in Seq(LineSet)
  BY LineIs DEF IsArea, GoDown
<1>2. Len(r.lines) = 1 /\ 1 \in 1 .. Len(r.lines)
  <2>1. r.lines # <<>> /\ ~ (Len(r.lines) > 1)
    BY DEF IsEmpty, IsComplex
  <2>2. PICK n \in Nat \ {0} : n = Len(r.lines)
    BY <2>1, <1>1, EmptySeq
  <2>3. ~ (n > 1)
    BY <2>1, <2>2
  <2>4. n = 1
    BY <2>3
  <2>5. 1 \in 1 .. 1
    OBVIOUS
  <2>. QED
    BY <2>2, <2>4, <2>5
<1>3. PICK line : line = r.lines[1] /\ line \in LineSet /\ GoRight(line.spans) /\ line.spans # <<>>
  BY <1>1, <1>2, LineIs
<1>4. PICK s : s = line.spans
  OBVIOUS
<1>5. Len(s) = 1 /\ 1 \in 1 .. Len(s) /\ s \in Seq(SpanSet)
  <2>1. s \in Seq(SpanSet) /\ s # <<>> /\ Len(s) \in Nat
    BY <1>3, <1>4 DEF GoRight
  <2>2. ~ (Len(s) > 1)
    BY <1>2, <1>3, <1>4 DEF IsComplex
  <2>3. PICK n \in Nat \ {0} : n = Len(s)
    BY <2>1, EmptySeq
  <2>4. n = 1 /\ 1 \in 1 .. n
    BY <2>2, <2>3
  <2>. QED
    BY <2>1, <2>3, <2>4
<1>6. PICK l, q, t, b \in Nat : l = s[1].left /\ q = s[1].right /\ t = line.top /\ b = line.bottom
                                /\ l < q /\ t < b
  <2>1. s[1].left \in Nat /\ s[1].right \in Nat /\ s[1].left < s[1].right
    BY <1>3, <1>4, <1>5, SpanIs
  <2>2. line.top \in Nat /\ line.bottom \in Nat /\ line.top < line.bottom
    BY <1>1, <1>2, <1>3, LineIs
  <2>. QED
    BY <2>1, <2>2
<1>7. PICK p \in RectSet : p = [left |-> l, top |-> t, right |-> q, bottom |-> b]
  BY DEF RectSet
<1>8. IsRect(p) /\ p.left = l /\ p.top = t /\ p.right = q /\ p.bottom = b
  BY <1>6, <1>7 DEF IsRect
<1>9. ASSUME NEW x \in Nat, NEW y \in Nat PROVE <<x, y>> \in c <=> <<x, y>> \in CellsOf(p)
  <2>1. \A k \in 1 .. 1 : k = 1
    OBVIOUS
  <2>2. FilledFrom(r.lines, 1, x, y) <=> InLine(line, x, y)
    BY <2>1, <1>2, <1>3 DEF FilledFrom
  <2>3. CoveredFrom(s, 1, x) <=> InSpan(s[1], x)
    BY <2>1, <1>5 DEF CoveredFrom
  <2>4. InLine(line, x, y) <=> InRect(p, x, y)
    BY <2>3, <1>4, <1>6, <1>8 DEF InRect, InLine, InSpan
  <2>5. <<x, y>> \in c <=> FilledFrom(r.lines, 1, x, y)
    BY DEF IsArea
  <2>6. <<x, y>> \in CellsOf(p) <=> InRect(p, x, y)
    BY <1>8, CellsAre
  <2>. QED
    BY <2>2, <2>4, <2>5, <2>6
<1>10. c = CellsOf(p)
  <2>1. c \in SUBSET (Nat \X Nat) /\ CellsOf(p) \in SUBSET (Nat \X Nat)
    BY <1>8, CellsAre DEF IsArea
  <2>. QED
    BY <2>1, <1>9
<1>11. Frames(p, c) /\ Frames(r.bounds, c)
  BY <1>8, <1>10, CellsAreFramed DEF IsArea
<1>12. p = r.bounds
  BY <1>11, FramesAgree
<1>. QED
  BY <1>8, <1>10, <1>12

\* A rectangle holds the pixels of one it contains.
LEMMA ContainedCells ==
  ASSUME NEW a, NEW c, Frames(a, c), c # {}, NEW b, NEW d, IsRect(b), d = CellsOf(b),
         c \in SUBSET (Nat \X Nat), ContainsRect(b, a)
  PROVE  c \subseteq d
<1>1. IsRect(a) /\ \A x, y \in Nat : <<x, y>> \in c => InRect(a, x, y)
  BY DEF Frames
<1>2. ASSUME NEW x \in Nat, NEW y \in Nat, <<x, y>> \in c PROVE <<x, y>> \in d
  <2>1. InRect(a, x, y)
    BY <1>1, <1>2
  <2>2. InRect(b, x, y)
    BY <2>1, <1>1, RectIs DEF InRect, ContainsRect
  <2>. QED
    BY <2>2, CellsAre
<1>. QED
  BY <1>2

\* The union of two regions is the union of their pixels.
LEMMA UnionIs ==
  ASSUME NEW a, NEW c, IsArea(a, c), NEW b, NEW d, IsArea(b, d)
  PROVE  IsArea(MakeUnion(a, b), c \cup d)
<1>1. CASE IsEmpty(a)
  <2>1. c = {} /\ c \cup d = d
    BY <1>1, AreaIsEmpty
  <2>. QED
    BY <2>1, <1>1 DEF MakeUnion
<1>2. CASE ~ IsEmpty(a) /\ IsEmpty(b)
  <2>1. d = {} /\ c \cup d = c
    BY <1>2, AreaIsEmpty
  <2>. QED
    BY <2>1, <1>2 DEF MakeUnion
<1>3. CASE ~ IsEmpty(a) /\ ~ IsEmpty(b)
  <2>1. /\ c # {} /\ d # {} /\ c \in SUBSET (Nat \X Nat) /\ d \in SUBSET (Nat \X Nat)
        /\ Frames(a.bounds, c) /\ Frames(b.bounds, d)
    BY <1>3, AreaIsEmpty DEF IsArea
  <2>2. CASE ~ IsComplex(a) /\ ContainsRect(a.bounds, b.bounds)
    <3>1. c = CellsOf(a.bounds) /\ IsRect(a.bounds)
      BY <2>2, <1>3, AreaIsSimple
    <3>2. d \subseteq c
      BY <3>1, <2>1, <2>2, ContainedCells
    <3>3. c \cup d = c /\ MakeUnion(a, b) = a
      BY <3>2, <2>2, <1>3 DEF MakeUnion
    <3>. QED
      BY <3>3
  <2>3. CASE /\ ~ (~ IsComplex(a) /\ ContainsRect(a.bounds, b.bounds))
             /\ ~ IsComplex(b) /\ ContainsRect(b.bounds, a.bounds)
    <3>1. d = CellsOf(b.bounds) /\ IsRect(b.bounds)
      BY <2>3, <1>3, AreaIsSimple
    <3>2. c \subseteq d
      BY <3>1, <2>1, <2>3, ContainedCells
    <3>3. c \cup d = d /\ MakeUnion(a, b) = b
      BY <3>2, <2>3, <1>3 DEF MakeUnion
    <3>. QED
      BY <3>3
  <2>4. CASE /\ ~ (~ IsComplex(a) /\ ContainsRect(a.bounds, b.bounds))
             /\ ~ (~ IsComplex(b) /\ ContainsRect(b.bounds, a.bounds))
    <3>1. PICK j : j = Join(a.bounds, b.bounds)
      OBVIOUS
    <3>2. PICK lines : lines = UnionLines(a.lines, b.lines, j.bottom)
      OBVIOUS
    <3>3. MakeUnion(a, b) = [lines |-> lines, bounds |-> j]
      BY <3>1, <3>2, <2>4, <1>3 DEF MakeUnion
    <3>4. Frames(j, c \cup d)
      BY <3>1, <2>1, FramesJoin
    <3>5. IsRect(j) /\ j.bottom \in Nat
      <4>1. c \cup d # {}
        BY <2>1
      <4>2. IsRect(j)
        BY <3>4, <4>1 DEF Frames
      <4>. QED
        BY <4>2, RectIs
    <3>6. a.bounds.bottom <= j.bottom /\ b.bounds.bottom <= j.bottom
      <4>1. IsRect(a.bounds) /\ IsRect(b.bounds)
        BY <2>1, AreaIsEmpty
      <4>2. a.bounds.bottom \in Nat /\ b.bounds.bottom \in Nat
        BY <4>1, RectIs
      <4>3. ~ IsEmptyRect(a.bounds) /\ ~ IsEmptyRect(b.bounds)
        BY <4>1, EmptyOrRect DEF IsRect
      <4>4. j.bottom = Greatest(a.bounds.bottom, b.bounds.bottom)
        BY <4>3, <3>1 DEF Join, MakeRect
      <4>. QED
        BY <4>2, <4>4 DEF Greatest
    <3>7. GoDown(a.lines) /\ GoDown(b.lines)
      BY DEF IsArea
    <3>8. ASSUME NEW k \in 1 .. Len(a.lines) PROVE a.lines[k].bottom <= j.bottom
      <4>1. a.lines[k].bottom <= a.bounds.bottom
        BY LinesAreInBounds
      <4>2. a.lines[k].bottom \in Nat /\ a.bounds.bottom \in Nat
        BY <2>1, <3>7, LineIs, AreaIsEmpty, RectIs
      <4>. QED
        BY <4>1, <4>2, <3>5, <3>6
    <3>9. ASSUME NEW k \in 1 .. Len(b.lines) PROVE b.lines[k].bottom <= j.bottom
      <4>1. b.lines[k].bottom <= b.bounds.bottom
        BY LinesAreInBounds
      <4>2. b.lines[k].bottom \in Nat /\ b.bounds.bottom \in Nat
        BY <2>1, <3>7, LineIs, AreaIsEmpty, RectIs
      <4>. QED
        BY <4>1, <4>2, <3>5, <3>6
    <3>10. /\ GoDown(lines)
           /\ \A x, y \in Nat : FilledFrom(lines, 1, x, y)
                                  <=> FilledFrom(a.lines, 1, x, y) \/ FilledFrom(b.lines, 1, x, y)
      BY <3>2, <3>5, <3>7, <3>8, <3>9, UnionLinesIs
    <3>11. \A x, y \in Nat : <<x, y>> \in c \cup d <=> FilledFrom(lines, 1, x, y)
      BY <3>10 DEF IsArea
    <3>12. MakeUnion(a, b).lines = lines /\ MakeUnion(a, b).bounds = j
      BY <3>3
    <3>. QED
      BY <3>4, <3>10, <3>11, <3>12, <2>1 DEF IsArea
  <2>. QED
    BY <2>2, <2>3, <2>4
<1>. QED
  BY <1>1, <1>2, <1>3

-----------------------------------------------------------------------------
(* The lines that are skipped                                              *)

\* The first line that ends below a row.
LEMMA FirstBelowIs ==
  ASSUME NEW lines, GoDown(lines), NEW from \in 1 .. Len(lines) + 1, NEW y,
         NEW f, f = FirstBelow(lines, from, y)
  PROVE  /\ f \in from .. Len(lines) + 1
         /\ \A k \in from .. Len(lines) : k < f => ~ (lines[k].bottom > y)
         /\ f <= Len(lines) => lines[f].bottom > y
<1>1. PICK n \in Nat : n = Len(lines)
  BY LineIs
<1>. DEFINE S == {i \in from .. n : lines[i].bottom > y} \cup {n + 1}
<1>2. S \in SUBSET Nat /\ S # {} /\ n + 1 \in S
  BY <1>1
<1>3. Min(S) \in S /\ \A l \in S : Min(S) <= l
  BY <1>2, MinIs
<1>4. f = Min(S)
  BY <1>1 DEF FirstBelow
<1>5. f \in S /\ \A l \in S : f <= l
  BY <1>3, <1>4
<1>6. f \in from .. n + 1 /\ (f <= n => lines[f].bottom > y)
  BY <1>1, <1>5
<1>7. ASSUME NEW k \in from .. n, k < f PROVE ~ (lines[k].bottom > y)
  <2>1. k \in S => f <= k
    BY <1>5
  <2>2. k \notin S
    BY <2>1, <1>6, <1>7
  <2>. QED
    BY <2>2
<1>. QED
  BY <1>1, <1>6, <1>7

\* A line that ends above a row, and those above it, have nothing in the row.
LEMMA SkippedIs ==
  ASSUME NEW lines, GoDown(lines), NEW y \in Nat, EndsAbove(lines, y),
         NEW f, f = FirstBelow(lines, BinarySearchThreshold + 2, y)
  PROVE  /\ f \in 1 .. Len(lines) + 1
         /\ \A k \in 1 .. Len(lines) : k < f => lines[k].bottom <= y
         /\ f <= Len(lines) => lines[f].bottom > y
<1>1. PICK n \in Nat : n = Len(lines)
  BY LineIs
<1>2. PICK h \in Nat : h = BinarySearchThreshold
  BY RegionAssumption
<1>3. n > h /\ h + 1 \in 1 .. n /\ h + 2 \in 1 .. n + 1 /\ lines[h + 1].bottom <= y
  BY <1>1, <1>2 DEF EndsAbove
<1>4. \A k \in 1 .. n : lines[k].top \in Nat /\ lines[k].bottom \in Nat /\ lines[k].top < lines[k].bottom
  BY <1>1, LineIs
<1>5. f = FirstBelow(lines, h + 2, y)
  BY <1>2
<1>6. /\ f \in h + 2 .. n + 1
      /\ \A k \in h + 2 .. n : k < f => ~ (lines[k].bottom > y)
      /\ f <= n => lines[f].bottom > y
  BY <1>1, <1>3, <1>5, FirstBelowIs
<1>7. ASSUME NEW k \in 1 .. n, k < f PROVE lines[k].bottom <= y
  <2>1. CASE k >= h + 2
    <3>1. k \in h + 2 .. n
      BY <2>1
    <3>2. ~ (lines[k].bottom > y)
      BY <3>1, <1>6, <1>7
    <3>. QED
      BY <3>2, <1>4
  <2>2. CASE k < h + 1
    <3>1. lines[k].bottom <= lines[h + 1].top
      BY <2>2, <1>1, <1>3, LinesApart
    <3>2. lines[h + 1].top < lines[h + 1].bottom /\ lines[h + 1].top \in Nat /\ lines[h + 1].bottom \in Nat
      BY <1>3, <1>4
    <3>3. lines[k].bottom \in Nat
      BY <1>4
    <3>. QED
      BY <3>1, <3>2, <3>3, <1>3
  <2>3. CASE k = h + 1
    BY <2>3, <1>3
  <2>. QED
    BY <2>1, <2>2, <2>3
<1>. QED
  BY <1>1, <1>2, <1>6, <1>7

\* Lines which end above a row have no pixels from there on.
LEMMA NothingSkipped ==
  ASSUME NEW lines, GoDown(lines), NEW f \in 1 .. Len(lines) + 1, NEW y \in Nat,
         \A k \in 1 .. Len(lines) : k < f => lines[k].bottom <= y
  PROVE  \A x, yy \in Nat : y <= yy => (FilledFrom(lines, 1, x, yy) <=> FilledFrom(lines, f, x, yy))
<1>. SUFFICES ASSUME NEW x \in Nat, NEW yy \in Nat, y <= yy
              PROVE  FilledFrom(lines, 1, x, yy) <=> FilledFrom(lines, f, x, yy)
  OBVIOUS
<1>1. PICK n \in Nat : n = Len(lines)
  BY LineIs
<1>2. ASSUME NEW k \in 1 .. n, InLine(lines[k], x, yy) PROVE k \in f .. n
  <2>1. yy < lines[k].bottom /\ lines[k].bottom \in Nat
    BY <1>1, <1>2, LineIs DEF InLine
  <2>2. ~ (lines[k].bottom <= y)
    BY <2>1
  <2>. QED
    BY <2>2, <1>1
<1>3. \A k \in f .. n : k \in 1 .. n
  BY <1>1
<1>. QED
  BY <1>1, <1>2, <1>3 DEF FilledFrom

\* Where the walks over two regions begin: no line before shares a pixel with the other.
LEMMA FirstLinesAre ==
  ASSUME NEW ls, GoDown(ls), ls # <<>>, NEW ms, GoDown(ms), ms # <<>>, NEW f, f = FirstLines(ls, ms)
  PROVE  /\ f = [i |-> f.i, j |-> f.j]
         /\ f.i \in 1 .. Len(ls) + 1 /\ f.j \in 1 .. Len(ms) + 1
         /\ \A x, yy \in Nat : FilledFrom(ls, 1, x, yy) /\ FilledFrom(ms, 1, x, yy)
               <=> FilledFrom(ls, f.i, x, yy) /\ FilledFrom(ms, f.j, x, yy)
<1>1. PICK n \in Nat, m \in Nat : n = Len(ls) /\ m = Len(ms)
  BY LineIs
<1>2. 1 \in 1 .. n /\ 1 \in 1 .. m /\ Head(ls) = ls[1] /\ Head(ms) = ms[1]
  BY <1>1 DEF GoDown
<1>3. PICK lt, mt \in Nat : lt = ls[1].top /\ mt = ms[1].top
  BY <1>1, <1>2, LineIs
<1>4. ASSUME NEW x \in Nat, NEW yy \in Nat
      PROVE  /\ FilledFrom(ls, 1, x, yy) => lt <= yy
             /\ FilledFrom(ms, 1, x, yy) => mt <= yy
  BY <1>1, <1>2, <1>3, FilledStep
<1>5. 1 \in 1 .. n + 1 /\ 1 \in 1 .. m + 1
  OBVIOUS
<1>6. CASE EndsAbove(ls, mt)
  <2>1. PICK i : i = FirstBelow(ls, BinarySearchThreshold + 2, mt)
    OBVIOUS
  <2>2. f = [i |-> i, j |-> 1]
    BY <2>1, <1>2, <1>3, <1>6 DEF FirstLines, Skipped
  <2>3. i \in 1 .. n + 1 /\ \A k \in 1 .. n : k < i => ls[k].bottom <= mt
    BY <2>1, <1>1, <1>6, SkippedIs
  <2>4. \A x, yy \in Nat : mt <= yy => (FilledFrom(ls, 1, x, yy) <=> FilledFrom(ls, i, x, yy))
    BY <2>3, <1>1, NothingSkipped
  <2>5. \A x, yy \in Nat : FilledFrom(ls, 1, x, yy) /\ FilledFrom(ms, 1, x, yy)
               <=> FilledFrom(ls, i, x, yy) /\ FilledFrom(ms, 1, x, yy)
    BY <2>4, <1>4
  <2>. QED
    BY <2>2, <2>3, <2>5, <1>1, <1>5
<1>7. CASE ~ EndsAbove(ls, mt) /\ EndsAbove(ms, lt)
  <2>1. PICK j : j = FirstBelow(ms, BinarySearchThreshold + 2, lt)
    OBVIOUS
  <2>2. f = [i |-> 1, j |-> j]
    BY <2>1, <1>2, <1>3, <1>7 DEF FirstLines, Skipped
  <2>3. j \in 1 .. m + 1 /\ \A k \in 1 .. m : k < j => ms[k].bottom <= lt
    BY <2>1, <1>1, <1>7, SkippedIs
  <2>4. \A x, yy \in Nat : lt <= yy => (FilledFrom(ms, 1, x, yy) <=> FilledFrom(ms, j, x, yy))
    BY <2>3, <1>1, NothingSkipped
  <2>5. \A x, yy \in Nat : FilledFrom(ls, 1, x, yy) /\ FilledFrom(ms, 1, x, yy)
               <=> FilledFrom(ls, 1, x, yy) /\ FilledFrom(ms, j, x, yy)
    BY <2>4, <1>4
  <2>. QED
    BY <2>2, <2>3, <2>5, <1>1, <1>5
<1>8. CASE ~ EndsAbove(ls, mt) /\ ~ EndsAbove(ms, lt)
  <2>1. f = [i |-> 1, j |-> 1]
    BY <1>2, <1>3, <1>8 DEF FirstLines
  <2>. QED
    BY <2>1, <1>1, <1>5
<1>. QED
  BY <1>6, <1>7, <1>8

-----------------------------------------------------------------------------
(* The walk over the lines two regions share                               *)

Pixels(lines) == {p \in Nat \X Nat : FilledFrom(lines, 1, p[1], p[2])}

\* The pixels in some lines.
LEMMA PixelsAre ==
  ASSUME NEW lines
  PROVE  /\ Pixels(lines) \in SUBSET (Nat \X Nat)
         /\ \A x, y \in Nat : <<x, y>> \in Pixels(lines) <=> FilledFrom(lines, 1, x, y)
  BY DEF Pixels

\* The rectangle around the pixels of one line.
LEMMA LineIsFramed ==
  ASSUME NEW s, GoRight(s), s # <<>>, NEW top \in Nat, NEW bottom \in Nat, top < bottom,
         NEW d \in SUBSET (Nat \X Nat),
         \A x, y \in Nat : <<x, y>> \in d <=> top <= y /\ y < bottom /\ CoveredFrom(s, 1, x),
         NEW r, r = MakeRect(Head(s).left, top, Last(s).right, bottom)
  PROVE  Frames(r, d)
<1>1. PICK n \in Nat : n = Len(s) /\ n \in 1 .. n /\ 1 \in 1 .. n /\ Head(s) = s[1] /\ Last(s) = s[n]
  BY DEF GoRight, Last
<1>2. PICK l, q, e, g \in Nat : /\ l = s[1].left /\ e = s[1].right /\ g = s[n].left /\ q = s[n].right
                                /\ l < e /\ g < q
  BY <1>1, SpanIs
<1>3. l <= g
  <2>1. CASE n = 1
    BY <2>1, <1>2
  <2>2. CASE n # 1
    <3>1. 1 < n
      BY <2>2, <1>1
    <3>2. s[1].right < s[n].left
      BY <3>1, <1>1, SpansApart
    <3>. QED
      BY <3>2, <1>2
  <2>. QED
    BY <2>1, <2>2
<1>4. r = [left |-> l, top |-> top, right |-> q, bottom |-> bottom]
  BY <1>1, <1>2 DEF MakeRect
<1>5. r.left = l /\ r.top = top /\ r.right = q /\ r.bottom = bottom /\ r \in RectSet
  BY <1>4 DEF RectSet
<1>6. IsRect(r)
  BY <1>2, <1>3, <1>5 DEF IsRect
<1>7. ASSUME NEW x \in Nat, CoveredFrom(s, 1, x) PROVE l <= x /\ x < q
  <2>1. PICK k \in 1 .. n : InSpan(s[k], x)
    BY <1>1, <1>7 DEF CoveredFrom
  <2>2. PICK sl, sr \in Nat : sl = s[k].left /\ sr = s[k].right /\ sl < sr /\ sl <= x /\ x < sr
    BY <2>1, <1>1, SpanIs DEF InSpan
  <2>3. l <= sl
    <3>1. CASE k = 1
      BY <3>1, <2>2, <1>2
    <3>2. CASE k # 1
      <4>1. 1 < k
        BY <3>2
      <4>2. s[1].right < s[k].left
        BY <4>1, <1>1, SpansApart
      <4>. QED
        BY <4>2, <2>2, <1>2
    <3>. QED
      BY <3>1, <3>2
  <2>4. sr <= q
    <3>1. CASE k = n
      BY <3>1, <2>2, <1>2
    <3>2. CASE k # n
      <4>1. k < n
        BY <3>2
      <4>2. s[k].right < s[n].left
        BY <4>1, <1>1, SpansApart
      <4>. QED
        BY <4>2, <2>2, <1>2
    <3>. QED
      BY <3>1, <3>2
  <2>. QED
    BY <2>2, <2>3, <2>4
<1>8. q - 1 \in Nat /\ bottom - 1 \in Nat /\ top <= bottom - 1 /\ bottom - 1 < bottom
  BY <1>2
<1>9. CoveredFrom(s, 1, l) /\ CoveredFrom(s, 1, q - 1)
  <2>1. InSpan(s[1], l) /\ InSpan(s[n], q - 1)
    BY <1>2, <1>8 DEF InSpan
  <2>. QED
    BY <2>1, <1>1 DEF CoveredFrom
<1>10. <<l, top>> \in d /\ <<q - 1, top>> \in d /\ <<l, bottom - 1>> \in d
  BY <1>2, <1>8, <1>9
<1>11. \A x, y \in Nat : <<x, y>> \in d => InRect(r, x, y)
  BY <1>5, <1>7 DEF InRect
<1>. QED
  BY <1>2, <1>5, <1>6, <1>10, <1>11 DEF Frames

\* What both regions share above y, or before the lines i and j, is found.
Sharing(ls, ms, found, i, j, y) ==
    /\ y \in Int /\ y >= -1 /\ GoDown(found.lines)
    /\ found.lines # <<>> => Last(found.lines).bottom <= y
    /\ i \in 1 .. Len(ls) + 1 /\ j \in 1 .. Len(ms) + 1
    /\ Frames(found.bounds, Pixels(found.lines))
    /\ \A x, yy \in Nat :
          FilledFrom(ls, 1, x, yy) /\ FilledFrom(ms, 1, x, yy)
            <=> \/ FilledFrom(found.lines, 1, x, yy)
                \/ y <= yy /\ FilledFrom(ls, i, x, yy) /\ FilledFrom(ms, j, x, yy)

\* It does not matter which region is the first.
LEMMA SharingSwaps ==
  ASSUME NEW ls, NEW ms, NEW found, NEW i, NEW j, NEW y, Sharing(ls, ms, found, i, j, y)
  PROVE  Sharing(ms, ls, found, j, i, y)
  BY DEF Sharing

\* A line that ends before the next of the other begins is done.
LEMMA SkipKeeps ==
  ASSUME NEW ls, GoDown(ls), NEW ms, GoDown(ms), NEW found, NEW i, NEW j, NEW y,
         Sharing(ls, ms, found, i, j, y), i <= Len(ls), j <= Len(ms),
         ls[i].bottom <= Greatest(y, ms[j].top)
  PROVE  Sharing(ls, ms, found, i + 1, j, y)
<1>1. PICK n \in Nat, m \in Nat : n = Len(ls) /\ m = Len(ms)
  BY LineIs
<1>2. /\ y \in Int /\ i \in 1 .. n /\ j \in 1 .. m
      /\ \A x, yy \in Nat :
          FilledFrom(ls, 1, x, yy) /\ FilledFrom(ms, 1, x, yy)
            <=> \/ FilledFrom(found.lines, 1, x, yy)
                \/ y <= yy /\ FilledFrom(ls, i, x, yy) /\ FilledFrom(ms, j, x, yy)
  BY <1>1 DEF Sharing
<1>3. PICK b, u \in Nat : b = ls[i].bottom /\ u = ms[j].top
  BY <1>1, <1>2, LineIs
<1>4. ASSUME NEW x \in Nat, NEW yy \in Nat, y <= yy, FilledFrom(ms, j, x, yy)
      PROVE  FilledFrom(ls, i, x, yy) <=> FilledFrom(ls, i + 1, x, yy)
  <2>1. u <= yy
    BY <1>1, <1>2, <1>3, <1>4, FilledStep
  <2>2. ~ (yy < b)
    BY <2>1, <1>2, <1>3, <1>4 DEF Greatest
  <2>3. ~ InLine(ls[i], x, yy)
    BY <2>2, <1>3 DEF InLine
  <2>. QED
    BY <2>3, <1>1, <1>2, FilledStep
<1>5. \A x, yy \in Nat :
          FilledFrom(ls, 1, x, yy) /\ FilledFrom(ms, 1, x, yy)
            <=> \/ FilledFrom(found.lines, 1, x, yy)
                \/ y <= yy /\ FilledFrom(ls, i + 1, x, yy) /\ FilledFrom(ms, j, x, yy)
  BY <1>2, <1>4
<1>6. i + 1 \in 1 .. Len(ls) + 1
  BY <1>1, <1>2
<1>. QED
  BY <1>5, <1>6 DEF Sharing

\* Two lines that overlap: what they share is found, down to where the first of them ends.
LEMMA MeetLinesKeeps ==
  ASSUME NEW ls, GoDown(ls), NEW ms, GoDown(ms), NEW found, NEW i, NEW j, NEW y,
         Sharing(ls, ms, found, i, j, y), i <= Len(ls), j <= Len(ms),
         Greatest(y, ms[j].top) < ls[i].bottom, Greatest(y, ls[i].top) < ms[j].bottom,
         NEW top, top = Greatest(y, Greatest(ls[i].top, ms[j].top)),
         NEW bottom, bottom = Least(ls[i].bottom, ms[j].bottom),
         NEW spans, spans = IntersectLineSpans(ls[i].spans, ms[j].spans),
         NEW more, more = IF spans = <<>> THEN found
                 ELSE [lines |-> AppendLine(found.lines, top, bottom, spans),
                       bounds |-> Join(found.bounds, MakeRect(Head(spans).left, top,
                                                              Last(spans).right, bottom))]
  PROVE  Sharing(ls, ms, more, After(ls, i, bottom), After(ms, j, bottom), bottom)
<1>1. PICK n \in Nat, m \in Nat : n = Len(ls) /\ m = Len(ms)
  BY LineIs
<1>2. /\ y \in Int /\ y >= -1 /\ GoDown(found.lines) /\ i \in 1 .. n /\ j \in 1 .. m
      /\ found.lines # <<>> => Last(found.lines).bottom <= y
      /\ Frames(found.bounds, Pixels(found.lines))
      /\ \A x, yy \in Nat :
          FilledFrom(ls, 1, x, yy) /\ FilledFrom(ms, 1, x, yy)
            <=> \/ FilledFrom(found.lines, 1, x, yy)
                \/ y <= yy /\ FilledFrom(ls, i, x, yy) /\ FilledFrom(ms, j, x, yy)
  BY <1>1 DEF Sharing
<1>3. PICK t, b, u, c \in Nat : /\ t = ls[i].top /\ b = ls[i].bottom /\ t < b
                                /\ u = ms[j].top /\ c = ms[j].bottom /\ u < c
  BY <1>1, <1>2, LineIs
<1>4. PICK s, q : /\ s = ls[i].spans /\ GoRight(s) /\ s # <<>>
                  /\ q = ms[j].spans /\ GoRight(q) /\ q # <<>>
  BY <1>1, <1>2, LineIs
<1>5. PICK side \in Nat : side = Greatest(t, u) /\ t <= side /\ u <= side /\ side \in {t, u}
  BY <1>3 DEF Greatest
<1>6. top \in Nat /\ y <= top /\ t <= top /\ u <= top /\ top \in {y, t, u}
  <2>1. top = Greatest(y, side)
    BY <1>3, <1>5
  <2>. QED
    BY <2>1, <1>2, <1>5 DEF Greatest
<1>7. y < b /\ u < b /\ y < c /\ t < c
  BY <1>2, <1>3 DEF Greatest
<1>8. bottom \in Nat /\ top < bottom /\ bottom <= b /\ bottom <= c /\ bottom \in {b, c}
  <2>1. bottom = Least(b, c)
    BY <1>3
  <2>2. bottom \in Nat /\ bottom <= b /\ bottom <= c /\ bottom \in {b, c}
    BY <2>1, <1>3 DEF Least
  <2>. QED
    BY <2>2, <1>2, <1>3, <1>6, <1>7
<1>9. /\ GoRight(spans)
      /\ \A x \in Nat : CoveredFrom(spans, 1, x) <=> CoveredFrom(s, 1, x) /\ CoveredFrom(q, 1, x)
  <2>1. spans = IntersectLineSpans(s, q)
    BY <1>4
  <2>. QED
    BY <2>1, <1>4, IntersectLineSpansIs
<1>10. /\ GoDown(more.lines) /\ Frames(more.bounds, Pixels(more.lines))
       /\ more.lines # <<>> => Last(more.lines).bottom <= bottom
       /\ \A x, yy \in Nat : FilledFrom(more.lines, 1, x, yy)
            <=> FilledFrom(found.lines, 1, x, yy) \/ (top <= yy /\ yy < bottom /\ CoveredFrom(spans, 1, x))
  <2>1. found.lines # <<>> => Last(found.lines).bottom \in Nat /\ Last(found.lines).bottom <= y
    <3>1. found.lines # <<>> => Len(found.lines) \in 1 .. Len(found.lines)
      BY <1>2 DEF GoDown
    <3>. QED
      BY <3>1, <1>2, LineIs DEF Last
  <2>2. CASE spans = <<>>
    <3>1. \A x \in Nat : ~ CoveredFrom(spans, 1, x)
      BY <2>2 DEF CoveredFrom
    <3>2. more = found
      BY <2>2
    <3>3. more.lines # <<>> => Last(more.lines).bottom <= bottom
      BY <3>2, <2>1, <1>2, <1>6, <1>8
    <3>. QED
      BY <3>1, <3>2, <3>3, <1>2
  <2>3. CASE spans # <<>>
    <3>1. PICK r, band : /\ r = AppendLine(found.lines, top, bottom, spans)
                         /\ band = MakeRect(Head(spans).left, top, Last(spans).right, bottom)
      OBVIOUS
    <3>2. more = [lines |-> r, bounds |-> Join(found.bounds, band)]
      BY <3>1, <2>3
    <3>3. more.lines = r /\ more.bounds = Join(found.bounds, band)
      BY <3>2
    <3>4. found.lines # <<>> => Last(found.lines).bottom <= top
      BY <2>1, <1>2, <1>6
    <3>5. /\ GoDown(r) /\ r # <<>> /\ Last(r).bottom = bottom
          /\ \A x, yy \in Nat : FilledFrom(r, 1, x, yy)
               <=> FilledFrom(found.lines, 1, x, yy)
                   \/ (top <= yy /\ yy < bottom /\ CoveredFrom(spans, 1, x))
      BY <3>1, <3>4, <2>3, <1>2, <1>6, <1>8, <1>9, LineAppended, SMTT(40)
    <3>6. PICK d \in SUBSET (Nat \X Nat) :
             \A x, yy \in Nat : <<x, yy>> \in d <=> top <= yy /\ yy < bottom /\ CoveredFrom(spans, 1, x)
      <4>. DEFINE D == {p \in Nat \X Nat : top <= p[2] /\ p[2] < bottom /\ CoveredFrom(spans, 1, p[1])}
      <4>1. \A x, yy \in Nat : <<x, yy>> \in D <=> top <= yy /\ yy < bottom /\ CoveredFrom(spans, 1, x)
        OBVIOUS
      <4>2. D \in SUBSET (Nat \X Nat)
        OBVIOUS
      <4>. HIDE DEF D
      <4>. QED
        BY <4>1, <4>2
    <3>7. Frames(band, d)
      BY <3>1, <3>6, <2>3, <1>6, <1>8, <1>9, LineIsFramed
    <3>8. Pixels(r) = Pixels(found.lines) \cup d
      <4>1. \A x, yy \in Nat : <<x, yy>> \in Pixels(r) <=> <<x, yy>> \in Pixels(found.lines) \cup d
        BY <3>5, <3>6, PixelsAre
      <4>2. Pixels(r) \in SUBSET (Nat \X Nat) /\ Pixels(found.lines) \in SUBSET (Nat \X Nat)
        BY PixelsAre
      <4>. QED
        BY <4>1, <4>2, <3>6
    <3>9. Frames(Join(found.bounds, band), Pixels(r))
      BY <3>7, <3>8, <1>2, FramesJoin
    <3>10. Last(r).bottom <= bottom
      BY <3>5, <1>8
    <3>. QED
      BY <3>3, <3>5, <3>9, <3>10
  <2>. QED
    BY <2>2, <2>3
<1>11. ASSUME NEW qs, GoDown(qs), NEW k \in 1 .. Len(qs), bottom <= qs[k].bottom
       PROVE  /\ After(qs, k, bottom) \in 1 .. Len(qs) + 1
              /\ \A x, yy \in Nat : bottom <= yy =>
                  (FilledFrom(qs, After(qs, k, bottom), x, yy) <=> FilledFrom(qs, k, x, yy))
  <2>1. PICK e \in Nat : e = qs[k].bottom
    BY <1>11, LineIs
  <2>2. Len(qs) \in Nat /\ k \in 1 .. Len(qs) + 1 /\ k + 1 \in 1 .. Len(qs) + 1
    BY <1>11, LineIs
  <2>3. CASE e = bottom
    <3>1. After(qs, k, bottom) = k + 1
      BY <2>1, <2>3 DEF After
    <3>2. ASSUME NEW x \in Nat, NEW yy \in Nat, bottom <= yy
          PROVE  FilledFrom(qs, k + 1, x, yy) <=> FilledFrom(qs, k, x, yy)
      <4>1. FilledFrom(qs, k, x, yy) <=> InLine(qs[k], x, yy) \/ FilledFrom(qs, k + 1, x, yy)
        BY <1>11, FilledStep
      <4>2. ~ InLine(qs[k], x, yy)
        BY <3>2, <2>1, <2>3, <1>8 DEF InLine
      <4>. QED
        BY <4>1, <4>2
    <3>. QED
      BY <3>1, <3>2, <2>2
  <2>4. CASE e # bottom
    <3>1. After(qs, k, bottom) = k
      BY <2>1, <2>4 DEF After
    <3>. QED
      BY <3>1, <2>2
  <2>. QED
    BY <2>3, <2>4
<1>12. PICK i1, j1 : i1 = After(ls, i, bottom) /\ j1 = After(ms, j, bottom)
  OBVIOUS
<1>13. /\ i1 \in 1 .. Len(ls) + 1 /\ j1 \in 1 .. Len(ms) + 1
       /\ \A x, yy \in Nat : bottom <= yy =>
            /\ FilledFrom(ls, i1, x, yy) <=> FilledFrom(ls, i, x, yy)
            /\ FilledFrom(ms, j1, x, yy) <=> FilledFrom(ms, j, x, yy)
  BY <1>1, <1>2, <1>3, <1>8, <1>11, <1>12
<1>14. ASSUME NEW x \in Nat, NEW yy \in Nat
       PROVE  FilledFrom(ls, 1, x, yy) /\ FilledFrom(ms, 1, x, yy)
            <=> \/ FilledFrom(more.lines, 1, x, yy)
                \/ bottom <= yy /\ FilledFrom(ls, i1, x, yy) /\ FilledFrom(ms, j1, x, yy)
  <2>1. /\ InLine(ls[i], x, yy) <=> t <= yy /\ yy < b /\ CoveredFrom(s, 1, x)
        /\ InLine(ms[j], x, yy) <=> u <= yy /\ yy < c /\ CoveredFrom(q, 1, x)
    BY <1>3, <1>4 DEF InLine
  <2>2. /\ FilledFrom(ls, i, x, yy) <=> InLine(ls[i], x, yy) \/ FilledFrom(ls, i + 1, x, yy)
        /\ FilledFrom(ls, i + 1, x, yy) => b <= yy
        /\ FilledFrom(ms, j, x, yy) <=> InLine(ms[j], x, yy) \/ FilledFrom(ms, j + 1, x, yy)
        /\ FilledFrom(ms, j + 1, x, yy) => c <= yy
    BY <1>1, <1>2, <1>3, FilledStep
  <2>3. top <= yy <=> y <= yy /\ t <= yy /\ u <= yy
    BY <1>2, <1>3, <1>6
  <2>4. CASE bottom <= yy
    <3>1. y <= yy /\ ~ (yy < bottom)
      BY <2>4, <1>2, <1>6, <1>8
    <3>. QED
      BY <3>1, <2>4, <1>2, <1>10, <1>13
  <2>5. CASE yy < bottom
    <3>1. ~ (bottom <= yy) /\ yy < b /\ yy < c /\ ~ (b <= yy) /\ ~ (c <= yy)
      BY <2>5, <1>3, <1>8
    <3>. QED
      BY <3>1, <2>1, <2>2, <2>3, <2>5, <1>2, <1>9, <1>10
  <2>. QED
    BY <2>4, <2>5, <1>8
<1>15. bottom \in Int /\ bottom >= -1
  BY <1>8
<1>. QED
  BY <1>10, <1>12, <1>13, <1>14, <1>15 DEF Sharing

\* What the walk can be after k rounds.
MeetRounds(ls, ms, k) ==
    {w \in [found : [lines : Seq(LineSet), bounds : RectSet], i : Nat, j : Nat, y : Int] :
       /\ Sharing(ls, ms, w.found, w.i, w.j, w.y)
       /\ w.i > Len(ls) \/ w.j > Len(ms) \/ w.i + w.j >= k + 2}

\* A round of the walk keeps what is shared above it, and passes a line or ends.
LEMMA MeetRoundKeeps ==
  ASSUME NEW ls, GoDown(ls), NEW ms, GoDown(ms), NEW k \in Nat, NEW w \in MeetRounds(ls, ms, k)
  PROVE  MeetRound(ls, ms, w) \in MeetRounds(ls, ms, k + 1)
<1>1. PICK n \in Nat, m \in Nat : n = Len(ls) /\ m = Len(ms)
  BY LineIs
<1>2. PICK found \in [lines : Seq(LineSet), bounds : RectSet], i \in Nat, j \in Nat, y \in Int :
           w = [found |-> found, i |-> i, j |-> j, y |-> y]
  BY DEF MeetRounds
<1>3. w.found = found /\ w.i = i /\ w.j = j /\ w.y = y
  BY <1>2
<1>4. Sharing(ls, ms, found, i, j, y) /\ (i > n \/ j > m \/ i + j >= k + 2)
  BY <1>1, <1>3 DEF MeetRounds
<1>5. i \in 1 .. n + 1 /\ j \in 1 .. m + 1
  BY <1>1, <1>4 DEF Sharing
<1>6. CASE i > n \/ j > m
  <2>1. MeetRound(ls, ms, w) = w
    BY <1>1, <1>3, <1>6 DEF MeetRound
  <2>. QED
    BY <2>1, <1>1, <1>3, <1>6 DEF MeetRounds
<1>7. ASSUME NEW q, q = [lines |-> q.lines, bounds |-> q.bounds], NEW i1, NEW j1, NEW y1,
             Sharing(ls, ms, q, i1, j1, y1),
             i1 + j1 >= k + 3, NEW v, v = [found |-> q, i |-> i1, j |-> j1, y |-> y1]
      PROVE  v \in MeetRounds(ls, ms, k + 1)
  <2>1. i1 \in Nat /\ j1 \in Nat /\ y1 \in Int /\ q.lines \in Seq(LineSet)
    BY <1>1, <1>7, SMTT(40) DEF Sharing, GoDown
  <2>2. q.bounds \in RectSet
    <3>1. Frames(q.bounds, Pixels(q.lines))
      BY <1>7 DEF Sharing
    <3>. QED
      BY <3>1, NoRectIs DEF Frames, IsRect
  <2>3. q \in [lines : Seq(LineSet), bounds : RectSet]
    BY <2>1, <2>2, <1>7
  <2>4. v.found = q /\ v.i = i1 /\ v.j = j1 /\ v.y = y1
        /\ v \in [found : [lines : Seq(LineSet), bounds : RectSet], i : Nat, j : Nat, y : Int]
    BY <2>1, <2>3, <1>7
  <2>5. i1 + j1 >= (k + 1) + 2
    BY <2>1, <1>7
  <2>. QED
    BY <2>4, <2>5, <1>7 DEF MeetRounds
<1>8. CASE ~ (i > n \/ j > m)
  <2>1. i \in 1 .. n /\ j \in 1 .. m /\ i <= n /\ j <= m /\ i + j >= k + 2
    BY <1>4, <1>5, <1>8
  <2>2. PICK a, b : a = ls[i] /\ b = ms[j]
    OBVIOUS
  <2>3. /\ a.bottom \in Nat /\ b.bottom \in Nat /\ a.top \in Nat /\ b.top \in Nat
    BY <2>1, <2>2, <1>1, LineIs
  <2>4. found = [lines |-> found.lines, bounds |-> found.bounds]
    OBVIOUS
  <2>5. CASE a.bottom <= Greatest(y, b.top)
    <3>1. MeetRound(ls, ms, w) = [found |-> found, i |-> i + 1, j |-> j, y |-> y]
      BY <2>2, <2>5, <1>1, <1>2, <1>3, <1>8 DEF MeetRound
    <3>2. Sharing(ls, ms, found, i + 1, j, y)
      BY <2>1, <2>2, <2>5, <1>1, <1>4, SkipKeeps
    <3>3. (i + 1) + j >= k + 3
      BY <2>1
    <3>. QED
      BY <3>1, <3>2, <3>3, <2>4, <1>7
  <2>6. CASE ~ (a.bottom <= Greatest(y, b.top)) /\ b.bottom <= Greatest(y, a.top)
    <3>1. MeetRound(ls, ms, w) = [found |-> found, i |-> i, j |-> j + 1, y |-> y]
      BY <2>2, <2>6, <1>1, <1>2, <1>3, <1>8 DEF MeetRound
    <3>2. Sharing(ms, ls, found, j + 1, i, y)
      BY <2>1, <2>2, <2>6, <1>1, <1>4, SharingSwaps, SkipKeeps
    <3>3. Sharing(ls, ms, found, i, j + 1, y)
      BY <3>2, SharingSwaps
    <3>4. i + (j + 1) >= k + 3
      BY <2>1
    <3>. QED
      BY <3>1, <3>3, <3>4, <2>4, <1>7
  <2>7. CASE ~ (a.bottom <= Greatest(y, b.top)) /\ ~ (b.bottom <= Greatest(y, a.top))
    <3>1. Greatest(y, b.top) < a.bottom /\ Greatest(y, a.top) < b.bottom
      BY <2>3, <2>7 DEF Greatest
    <3>2. PICK top, bottom, spans :
               /\ top = Greatest(y, Greatest(a.top, b.top)) /\ bottom = Least(a.bottom, b.bottom)
               /\ spans = IntersectLineSpans(a.spans, b.spans)
      OBVIOUS
    <3>3. PICK more : more = IF spans = <<>> THEN found
                 ELSE [lines |-> AppendLine(found.lines, top, bottom, spans),
                       bounds |-> Join(found.bounds, MakeRect(Head(spans).left, top,
                                                              Last(spans).right, bottom))]
      OBVIOUS
    <3>4. PICK i1, j1 : i1 = After(ls, i, bottom) /\ j1 = After(ms, j, bottom)
      OBVIOUS
    <3>5. MeetRound(ls, ms, w) = [found |-> more, i |-> i1, j |-> j1, y |-> bottom]
      BY <3>2, <3>3, <3>4, <2>2, <2>7, <1>1, <1>3, <1>8 DEF MeetRound
    <3>6. Sharing(ls, ms, more, i1, j1, bottom)
      BY <3>1, <3>2, <3>3, <3>4, <2>1, <2>2, <1>1, <1>4, MeetLinesKeeps
    <3>7. more = [lines |-> more.lines, bounds |-> more.bounds]
      BY <3>3, <2>4
    <3>8. i1 + j1 >= k + 3
      <4>1. i1 \in {i, i + 1} /\ j1 \in {j, j + 1}
        BY <3>4 DEF After
      <4>2. bottom = a.bottom \/ bottom = b.bottom
        BY <3>2 DEF Least
      <4>3. i1 = i + 1 \/ j1 = j + 1
        BY <4>2, <3>4, <2>2 DEF After
      <4>. QED
        BY <4>1, <4>3, <2>1
    <3>. QED
      BY <3>5, <3>6, <3>7, <3>8, <1>7
  <2>. QED
    BY <2>5, <2>6, <2>7
<1>. QED
  BY <1>6, <1>8

\* The lines two regions share.
LEMMA IntersectLinesIs ==
  ASSUME NEW ls, GoDown(ls), ls # <<>>, NEW ms, GoDown(ms), ms # <<>>,
         NEW r, r = IntersectLines(ls, ms)
  PROVE  /\ GoDown(r.lines) /\ Frames(r.bounds, Pixels(r.lines))
         /\ \A x, y \in Nat : FilledFrom(r.lines, 1, x, y)
                                <=> FilledFrom(ls, 1, x, y) /\ FilledFrom(ms, 1, x, y)
<1>1. PICK n \in Nat, m \in Nat : n = Len(ls) /\ m = Len(ms)
  BY LineIs
<1>first. PICK first : first = FirstLines(ls, ms)
  OBVIOUS
<1>2. PICK rounds \in Nat : rounds = Len(ls) + Len(ms) /\ rounds = n + m /\ first = FirstLines(ls, ms)
  BY <1>1, <1>first
<1>3. PICK start : start = [found |-> EmptyRegion, i |-> first.i, j |-> first.j, y |-> -1]
  OBVIOUS
<1>4. /\ first.i \in 1 .. n + 1 /\ first.j \in 1 .. m + 1
      /\ \A x, yy \in Nat : FilledFrom(ls, 1, x, yy) /\ FilledFrom(ms, 1, x, yy)
               <=> FilledFrom(ls, first.i, x, yy) /\ FilledFrom(ms, first.j, x, yy)
  BY <1>1, <1>2, FirstLinesAre
<1>. DEFINE T == [k \in 0 .. rounds |-> MeetRounds(ls, ms, k)]
            All == UNION {T[k] : k \in 0 .. rounds}
            step == [p \in (1 .. rounds) \X All |-> MeetRound(ls, ms, p[2])]
            Defines(f) == f = [k \in 0 .. rounds |-> IF k = 0 THEN start ELSE MeetRound(ls, ms, f[k - 1])]
            walk == CHOOSE f : Defines(f)
<1>5. start \in T[0]
  <2>1. start.found = EmptyRegion /\ start.i = first.i /\ start.j = first.j /\ start.y = -1
        /\ start \in [found : [lines : Seq(LineSet), bounds : RectSet], i : Nat, j : Nat, y : Int]
    BY <1>3, <1>4, NoRectIs DEF EmptyRegion
  <2>2. EmptyRegion.lines = <<>> /\ EmptyRegion.bounds = NoRect
    BY DEF EmptyRegion
  <2>3. GoDown(<<>>) /\ \A x, y \in Nat : ~ FilledFrom(<<>>, 1, x, y)
    BY DEF GoDown, FilledFrom
  <2>4. Pixels(<<>>) = {}
    BY <2>3 DEF Pixels
  <2>5. Frames(NoRect, {})
    BY DEF Frames
  <2>6. \A x, yy \in Nat : FilledFrom(ls, 1, x, yy) /\ FilledFrom(ms, 1, x, yy)
            <=> -1 <= yy /\ FilledFrom(ls, first.i, x, yy) /\ FilledFrom(ms, first.j, x, yy)
    BY <1>4
  <2>7. Sharing(ls, ms, EmptyRegion, first.i, first.j, -1)
    <3>1. PICK none : none = EmptyRegion
      OBVIOUS
    <3>2. /\ GoDown(none.lines) /\ none.lines = <<>> /\ Frames(none.bounds, Pixels(none.lines))
          /\ \A x, yy \in Nat : ~ FilledFrom(none.lines, 1, x, yy)
      BY <3>1, <2>2, <2>3, <2>4, <2>5
    <3>3. Sharing(ls, ms, none, first.i, first.j, -1)
      <4>1. -1 \in Int /\ -1 >= -1
        OBVIOUS
      <4>2. first.i \in 1 .. Len(ls) + 1 /\ first.j \in 1 .. Len(ms) + 1
        BY <1>1, <1>4
      <4>3. \A x, yy \in Nat : FilledFrom(ls, 1, x, yy) /\ FilledFrom(ms, 1, x, yy)
              <=> \/ FilledFrom(none.lines, 1, x, yy)
                  \/ -1 <= yy /\ FilledFrom(ls, first.i, x, yy) /\ FilledFrom(ms, first.j, x, yy)
        BY <3>2, <2>6
      <4>. QED
        BY <3>2, <4>1, <4>2, <4>3 DEF Sharing
    <3>. QED
      BY <3>1, <3>3
  <2>8. 0 \in 0 .. rounds /\ first.i + first.j >= 0 + 2
    BY <1>4
  <2>. QED
    BY <2>1, <2>7, <2>8 DEF MeetRounds
<1>6. ASSUME NEW k \in 1 .. rounds, NEW w \in T[k - 1]
      PROVE  MeetRound(ls, ms, w) \in T[k] /\ step[<<k, w>>] = MeetRound(ls, ms, w)
  <2>1. k - 1 \in 0 .. rounds /\ k \in 0 .. rounds /\ k - 1 \in Nat /\ k - 1 < rounds /\ (k - 1) + 1 = k
    OBVIOUS
  <2>2. w \in MeetRounds(ls, ms, k - 1) /\ w \in All
    BY <2>1
  <2>3. MeetRound(ls, ms, w) \in MeetRounds(ls, ms, k)
    BY <2>1, <2>2, <1>2, MeetRoundKeeps
  <2>. QED
    BY <2>1, <2>2, <2>3
<1>7. PICK f : WalkIs(f, rounds, T, start, step)
  <2>. HIDE DEF T, step
  <2>1. \A k \in 1 .. rounds : \A w \in T[k - 1] : step[<<k, w>>] \in T[k]
    BY <1>6
  <2>. QED
    BY <2>1, <1>5, WalkExists, Zenon
<1>8. Defines(f)
  <2>1. ASSUME NEW k \in 0 .. rounds, k # 0 PROVE step[<<k, f[k - 1]>>] = MeetRound(ls, ms, f[k - 1])
    <3>1. k \in 1 .. rounds /\ k - 1 \in 0 .. rounds
      BY <2>1
    <3>. HIDE DEF T, step
    <3>. QED
      BY <3>1, <1>6, <1>7 DEF WalkIs
  <2>. HIDE DEF T, step
  <2>. QED
    BY <2>1, <1>7 DEF WalkIs
<1>9. Defines(walk)
  <2>. HIDE DEF Defines
  <2>. QED
    BY <1>8
<1>10. walk[0] = start /\ \A k \in 1 .. rounds : walk[k] = MeetRound(ls, ms, walk[k - 1])
  <2>1. 0 \in 0 .. rounds /\ \A k \in 1 .. rounds : k \in 0 .. rounds /\ k # 0
    OBVIOUS
  <2>. HIDE DEF walk
  <2>. QED
    BY <2>1, <1>9
<1>11. r = walk[rounds].found
  BY <1>2, <1>3 DEF IntersectLines
<1>12. walk[rounds] \in T[rounds]
  <2>1. walk[0] \in T[0] /\ \A k \in 1 .. rounds : walk[k - 1] \in T[k - 1] => walk[k] \in T[k]
    <3>. HIDE DEF walk, T, step
    <3>. QED
      BY <1>5, <1>6, <1>10
  <2>2. rounds \in 0 .. rounds
    OBVIOUS
  <2>. HIDE DEF walk, T
  <2>. QED
    BY <2>1, <2>2, WalkStays
<1>13. PICK w : w = walk[rounds] /\ w \in MeetRounds(ls, ms, rounds)
  <2>1. rounds \in 0 .. rounds
    OBVIOUS
  <2>. QED
    BY <1>12, <2>1
<1>14. PICK i, j \in Nat, y \in Int : i = w.i /\ j = w.j /\ y = w.y
  BY <1>13 DEF MeetRounds
<1>15. Sharing(ls, ms, r, i, j, y) /\ (i > n \/ j > m \/ i + j >= rounds + 2)
  <2>1. r = w.found
    BY <1>11, <1>13
  <2>. HIDE DEF walk
  <2>. QED
    BY <2>1, <1>1, <1>13, <1>14 DEF MeetRounds
<1>16. /\ i \in 1 .. n + 1 /\ j \in 1 .. m + 1 /\ GoDown(r.lines) /\ Frames(r.bounds, Pixels(r.lines))
       /\ \A x, yy \in Nat :
          FilledFrom(ls, 1, x, yy) /\ FilledFrom(ms, 1, x, yy)
            <=> \/ FilledFrom(r.lines, 1, x, yy)
                \/ y <= yy /\ FilledFrom(ls, i, x, yy) /\ FilledFrom(ms, j, x, yy)
  BY <1>1, <1>15 DEF Sharing
<1>17. i > n \/ j > m
  BY <1>2, <1>15, <1>16
<1>18. \A x, yy \in Nat : ~ FilledFrom(ls, i, x, yy) \/ ~ FilledFrom(ms, j, x, yy)
  BY <1>1, <1>16, <1>17, FilledEnd
<1>. QED
  BY <1>16, <1>18

\* A pixel is in what two rectangles share if it is in both.
LEMMA MeetIs ==
  ASSUME NEW a, IsRect(a), NEW b, IsRect(b), NEW r, r = Meet(a, b)
  PROVE  /\ \A x, y \in Nat : InRect(r, x, y) <=> InRect(a, x, y) /\ InRect(b, x, y)
         /\ RectsIntersect(a, b) <=> IsRect(r)
<1>1. PICK l, t, q, e \in Nat : l = a.left /\ t = a.top /\ q = a.right /\ e = a.bottom /\ l < q /\ t < e
  BY RectIs
<1>2. PICK l2, t2, q2, e2 \in Nat :
           l2 = b.left /\ t2 = b.top /\ q2 = b.right /\ e2 = b.bottom /\ l2 < q2 /\ t2 < e2
  BY RectIs
<1>3. PICK l3 \in Nat : l3 = Greatest(l, l2) /\ l <= l3 /\ l2 <= l3 /\ l3 \in {l, l2}
  BY DEF Greatest
<1>4. PICK t3 \in Nat : t3 = Greatest(t, t2) /\ t <= t3 /\ t2 <= t3 /\ t3 \in {t, t2}
  BY DEF Greatest
<1>5. PICK q3 \in Nat : q3 = Least(q, q2) /\ q3 <= q /\ q3 <= q2 /\ q3 \in {q, q2}
  BY DEF Least
<1>6. PICK e3 \in Nat : e3 = Least(e, e2) /\ e3 <= e /\ e3 <= e2 /\ e3 \in {e, e2}
  BY DEF Least
<1>7. r = [left |-> l3, top |-> t3, right |-> q3, bottom |-> e3]
  BY <1>1, <1>2, <1>3, <1>4, <1>5, <1>6 DEF Meet, MakeRect
<1>8. r.left = l3 /\ r.top = t3 /\ r.right = q3 /\ r.bottom = e3 /\ r \in RectSet
  BY <1>7 DEF RectSet
<1>9. ASSUME NEW x \in Nat, NEW y \in Nat
      PROVE  InRect(r, x, y) <=> InRect(a, x, y) /\ InRect(b, x, y)
  <2>1. InRect(a, x, y) <=> l <= x /\ x < q /\ t <= y /\ y < e
    BY <1>1 DEF InRect
  <2>2. InRect(b, x, y) <=> l2 <= x /\ x < q2 /\ t2 <= y /\ y < e2
    BY <1>2 DEF InRect
  <2>3. InRect(r, x, y) <=> l3 <= x /\ x < q3 /\ t3 <= y /\ y < e3
    BY <1>8 DEF InRect
  <2>4. l3 <= x <=> l <= x /\ l2 <= x
    BY <1>3
  <2>5. t3 <= y <=> t <= y /\ t2 <= y
    BY <1>4
  <2>6. x < q3 <=> x < q /\ x < q2
    BY <1>5
  <2>7. y < e3 <=> y < e /\ y < e2
    BY <1>6
  <2>. QED
    BY <2>1, <2>2, <2>3, <2>4, <2>5, <2>6, <2>7
<1>10. RectsIntersect(a, b) <=> IsRect(r)
  BY <1>8, EmptyOrRect DEF RectsIntersect
<1>. QED
  BY <1>9, <1>10

\* Rectangles with a pixel in common intersect.
LEMMA MeetingRects ==
  ASSUME NEW a, IsRect(a), NEW b, IsRect(b), NEW x \in Nat, NEW y \in Nat,
         InRect(a, x, y), InRect(b, x, y)
  PROVE  RectsIntersect(a, b)
<1>1. PICK r : r = Meet(a, b)
  OBVIOUS
<1>2. InRect(r, x, y)
  BY <1>1, MeetIs
<1>3. r \in RectSet
  BY <1>1, RectIs DEF Meet, MakeRect, RectSet, Least, Greatest
<1>4. r.left < r.right /\ r.top < r.bottom
  BY <1>2, <1>3 DEF InRect, RectSet
<1>5. IsRect(r)
  BY <1>3, <1>4 DEF IsRect
<1>. QED
  BY <1>1, <1>5, MeetIs

\* An empty region intersects nothing.
LEMMA NoRectMeets ==
  ASSUME NEW a, IsRect(a) \/ a = NoRect, NEW b, IsRect(b) \/ b = NoRect, RectsIntersect(a, b)
  PROVE  IsRect(a) /\ IsRect(b)
<1>1. a.right \in Nat /\ b.right \in Nat /\ a.left \in Nat /\ b.left \in Nat
  BY RectIs, NoRectIs DEF RectSet
<1>2. Greatest(a.left, b.left) < Least(a.right, b.right)
  BY DEF RectsIntersect, IsEmptyRect, Meet, MakeRect
<1>3. a.right > 0 /\ b.right > 0
  BY <1>1, <1>2 DEF Greatest, Least
<1>. QED
  BY <1>3 DEF NoRect, MakeRect

\* The bounds of a region.
LEMMA BoundsAre ==
  ASSUME NEW r, NEW c, IsArea(r, c)
  PROVE  IsRect(r.bounds) \/ r.bounds = NoRect
  BY AreaIsEmpty

\* The intersection of two regions is the intersection of their pixels.
LEMMA IntersectionIs ==
  ASSUME NEW a, NEW c, IsArea(a, c), NEW b, NEW d, IsArea(b, d)
  PROVE  IsArea(MakeIntersection(a, b), c \cap d)
<1>1. CASE ~ RectsIntersect(a.bounds, b.bounds)
  <2>1. ASSUME NEW x \in Nat, NEW y \in Nat, <<x, y>> \in c, <<x, y>> \in d PROVE FALSE
    <3>1. /\ IsRect(a.bounds) /\ InRect(a.bounds, x, y)
          /\ IsRect(b.bounds) /\ InRect(b.bounds, x, y)
      BY <2>1, AreaIsEmpty
    <3>. QED
      BY <3>1, <1>1, MeetingRects
  <2>2. c \cap d = {}
    <3>1. c \cap d \in SUBSET (Nat \X Nat)
      BY DEF IsArea
    <3>. QED
      BY <3>1, <2>1, PixelsHaveOne
  <2>3. PICK r : r = EmptyRegion
    OBVIOUS
  <2>4. r.lines = <<>> /\ r.bounds = NoRect
    BY <2>3 DEF EmptyRegion
  <2>5. GoDown(<<>>) /\ \A x, y \in Nat : ~ FilledFrom(<<>>, 1, x, y)
    BY DEF GoDown, FilledFrom
  <2>6. GoDown(r.lines) /\ \A x, y \in Nat : ~ FilledFrom(r.lines, 1, x, y)
    BY <2>4, <2>5
  <2>7. Frames(r.bounds, {})
    BY <2>4 DEF Frames
  <2>8. IsArea(r, {})
    BY <2>6, <2>7 DEF IsArea
  <2>9. MakeIntersection(a, b) = r
    BY <2>3, <1>1 DEF MakeIntersection
  <2>. QED
    BY <2>2, <2>8, <2>9
<1>2. CASE RectsIntersect(a.bounds, b.bounds)
  <2>1. IsRect(a.bounds) /\ IsRect(b.bounds)
    BY <1>2, BoundsAre, NoRectMeets
  <2>2. c # {} /\ d # {} /\ ~ IsEmpty(a) /\ ~ IsEmpty(b)
    BY <2>1, AreaIsEmpty, NoRectIs
  <2>3. c \in SUBSET (Nat \X Nat) /\ d \in SUBSET (Nat \X Nat) /\ Frames(a.bounds, c) /\ Frames(b.bounds, d)
    BY DEF IsArea
  <2>4. CASE ~ IsComplex(a) /\ ~ IsComplex(b)
    <3>1. PICK r : r = Meet(a.bounds, b.bounds)
      OBVIOUS
    <3>2. /\ IsRect(r)
          /\ \A x, y \in Nat : InRect(r, x, y) <=> InRect(a.bounds, x, y) /\ InRect(b.bounds, x, y)
      BY <3>1, <2>1, <1>2, MeetIs
    <3>3. c = CellsOf(a.bounds) /\ d = CellsOf(b.bounds)
      BY <2>2, <2>4, AreaIsSimple
    <3>4. \A x, y \in Nat : <<x, y>> \in CellsOf(r) <=> <<x, y>> \in c \cap d
      BY <3>2, <3>3, <2>1, CellsAre
    <3>5. CellsOf(r) = c \cap d
      <4>1. CellsOf(r) \in SUBSET (Nat \X Nat)
        BY <3>2, CellsAre
      <4>. QED
        BY <4>1, <3>4, <2>3
    <3>6. IsArea(Simple(r), CellsOf(r))
      BY <3>2, SimpleIs
    <3>7. MakeIntersection(a, b) = Simple(r)
      BY <3>1, <2>4, <1>2 DEF MakeIntersection
    <3>. QED
      BY <3>5, <3>6, <3>7
  <2>5. CASE /\ ~ (~ IsComplex(a) /\ ~ IsComplex(b))
             /\ ~ IsComplex(a) /\ ContainsRect(a.bounds, b.bounds)
    <3>1. c = CellsOf(a.bounds)
      BY <2>2, <2>5, AreaIsSimple
    <3>2. d \subseteq c
      BY <3>1, <2>1, <2>2, <2>3, <2>5, ContainedCells
    <3>3. c \cap d = d /\ MakeIntersection(a, b) = b
      BY <3>2, <2>5, <1>2 DEF MakeIntersection
    <3>. QED
      BY <3>3
  <2>6. CASE /\ ~ (~ IsComplex(a) /\ ~ IsComplex(b))
             /\ ~ (~ IsComplex(a) /\ ContainsRect(a.bounds, b.bounds))
             /\ ~ IsComplex(b) /\ ContainsRect(b.bounds, a.bounds)
    <3>1. d = CellsOf(b.bounds)
      BY <2>2, <2>6, AreaIsSimple
    <3>2. c \subseteq d
      BY <3>1, <2>1, <2>2, <2>3, <2>6, ContainedCells
    <3>3. c \cap d = c /\ MakeIntersection(a, b) = a
      BY <3>2, <2>6, <1>2 DEF MakeIntersection
    <3>. QED
      BY <3>3
  <2>7. CASE /\ ~ (~ IsComplex(a) /\ ~ IsComplex(b))
             /\ ~ (~ IsComplex(a) /\ ContainsRect(a.bounds, b.bounds))
             /\ ~ (~ IsComplex(b) /\ ContainsRect(b.bounds, a.bounds))
    <3>1. PICK r : r = IntersectLines(a.lines, b.lines)
      OBVIOUS
    <3>2. MakeIntersection(a, b) = r
      BY <3>1, <2>7, <1>2 DEF MakeIntersection
    <3>3. GoDown(a.lines) /\ GoDown(b.lines) /\ a.lines # <<>> /\ b.lines # <<>>
      BY <2>2 DEF IsArea, IsEmpty
    <3>4. /\ GoDown(r.lines) /\ Frames(r.bounds, Pixels(r.lines))
          /\ \A x, y \in Nat : FilledFrom(r.lines, 1, x, y)
                                 <=> FilledFrom(a.lines, 1, x, y) /\ FilledFrom(b.lines, 1, x, y)
      BY <3>1, <3>3, IntersectLinesIs
    <3>5. \A x, y \in Nat : <<x, y>> \in c \cap d <=> FilledFrom(r.lines, 1, x, y)
      BY <3>4 DEF IsArea
    <3>6. Pixels(r.lines) = c \cap d
      <4>1. Pixels(r.lines) \in SUBSET (Nat \X Nat)
            /\ \A x, y \in Nat : <<x, y>> \in Pixels(r.lines) <=> <<x, y>> \in c \cap d
        BY <3>5, PixelsAre
      <4>. QED
        BY <4>1, <2>3
    <3>7. IsArea(r, c \cap d)
      BY <3>4, <3>5, <3>6, <2>3 DEF IsArea
    <3>. QED
      BY <3>2, <3>7
  <2>. QED
    BY <2>4, <2>5, <2>6, <2>7
<1>. QED
  BY <1>1, <1>2

-----------------------------------------------------------------------------
(* The regions a caller builds                                             *)

\* What the regions are built of is a rectangle with pixels, or the empty one.
LEMMA NormalizedIs ==
  ASSUME NEW r \in RectSet, NEW n, n = NormalizeRect(r)
  PROVE  n = NoRect \/ IsRect(n)
<1>1. PICK l, t, q, e \in Nat : l = r.left /\ t = r.top /\ q = r.right /\ e = r.bottom
  BY DEF RectSet
<1>2. PICK l2, t2, q2, e2 \in Nat :
          /\ l2 = Least(l, q) \div 2 /\ t2 = Least(t, e) \div 2
          /\ q2 = (Greatest(l, q) + 1) \div 2 /\ e2 = (Greatest(t, e) + 1) \div 2
  <2>1. Least(l, q) \in Nat /\ Least(t, e) \in Nat /\ Greatest(l, q) \in Nat /\ Greatest(t, e) \in Nat
    BY DEF Least, Greatest
  <2>2. \A k \in Nat : k \div 2 \in Nat /\ (k + 1) \div 2 \in Nat
    OBVIOUS
  <2>. QED
    BY <2>1, <2>2
<1>3. PICK p \in RectSet : p = MakeRect(l2, t2, q2, e2)
  BY DEF RectSet, MakeRect
<1>4. n = IF IsEmptyRect(p) THEN NoRect ELSE p
  BY <1>1, <1>2, <1>3 DEF NormalizeRect
<1>. QED
  BY <1>3, <1>4, EmptyOrRect

\* The empty rectangle has no pixels.
LEMMA NoCells ==
  CellsOf(NoRect) = {}
  BY DEF CellsOf, NoRect, MakeRect

\* The rectangle around some rectangles.
LEMMA AroundIs ==
  ASSUME NEW rects, IsFiniteSet(rects), \A r \in rects : IsRect(r),
         NEW c, c = UNION {CellsOf(r) : r \in rects}
  PROVE  /\ Frames(Around(rects), c)
         /\ c \in SUBSET (Nat \X Nat)
         /\ \A x, y \in Nat : <<x, y>> \in c <=> Inside(rects, x, y)
         /\ Around(rects).bottom \in Nat
         /\ \A r \in rects : r.bottom <= Around(rects).bottom
         /\ rects # {} => Around(rects).bottom > 0
<1>1. c \in SUBSET (Nat \X Nat)
  BY CellsAre
<1>2. \A x, y \in Nat : <<x, y>> \in c <=> Inside(rects, x, y)
  BY CellsAre DEF Inside
<1>3. CASE rects = {}
  <2>1. Around(rects) = NoRect /\ c = {}
    BY <1>3 DEF Around
  <2>. QED
    BY <2>1, <1>1, <1>2, <1>3, NoRectIs DEF Frames
<1>4. CASE rects # {}
  <2>1. \A r \in rects : /\ r.left \in Nat /\ r.top \in Nat /\ r.right \in Nat /\ r.bottom \in Nat
                         /\ r.left < r.right /\ r.top < r.bottom
    BY RectIs
  <2>2. PICK l \in Nat : /\ l = Min({r.left : r \in rects})
                         /\ \E r \in rects : r.left = l
                         /\ \A r \in rects : l <= r.left
    <3>. DEFINE S == {r.left : r \in rects}
    <3>1. S \in SUBSET Nat /\ S # {}
      BY <2>1, <1>4
    <3>2. Min(S) \in S /\ \A k \in S : Min(S) <= k
      BY <3>1, MinIs
    <3>3. PICK l : l = Min(S) /\ l \in S /\ \A k \in S : l <= k
      BY <3>2
    <3>. QED
      BY <3>1, <3>3
  <2>3. PICK t \in Nat : /\ t = Min({r.top : r \in rects})
                         /\ \E r \in rects : r.top = t
                         /\ \A r \in rects : t <= r.top
    <3>. DEFINE S == {r.top : r \in rects}
    <3>1. S \in SUBSET Nat /\ S # {}
      BY <2>1, <1>4
    <3>2. Min(S) \in S /\ \A k \in S : Min(S) <= k
      BY <3>1, MinIs
    <3>3. PICK t : t = Min(S) /\ t \in S /\ \A k \in S : t <= k
      BY <3>2
    <3>. QED
      BY <3>1, <3>3
  <2>4. PICK q \in Nat : /\ q = Max({r.right : r \in rects})
                         /\ \E r \in rects : r.right = q
                         /\ \A r \in rects : r.right <= q
    <3>. DEFINE S == {r.right : r \in rects}
                f == [r \in rects |-> r.right]
    <3>1. f \in [rects -> Nat] /\ S = {f[r] : r \in rects}
      BY <2>1
    <3>2. Max(S) \in S /\ \A k \in S : k <= Max(S)
      <4>. HIDE DEF f, S
      <4>. QED
        BY <3>1, <1>4, MaxIs
    <3>3. PICK q : q = Max(S) /\ q \in S /\ \A k \in S : k <= q
      BY <3>2
    <3>4. S \in SUBSET Nat
      BY <2>1
    <3>. QED
      BY <3>3, <3>4
  <2>5. PICK e \in Nat : /\ e = Max({r.bottom : r \in rects})
                         /\ \E r \in rects : r.bottom = e
                         /\ \A r \in rects : r.bottom <= e
    <3>. DEFINE S == {r.bottom : r \in rects}
                f == [r \in rects |-> r.bottom]
    <3>1. f \in [rects -> Nat] /\ S = {f[r] : r \in rects}
      BY <2>1
    <3>2. Max(S) \in S /\ \A k \in S : k <= Max(S)
      <4>. HIDE DEF f, S
      <4>. QED
        BY <3>1, <1>4, MaxIs
    <3>3. PICK e : e = Max(S) /\ e \in S /\ \A k \in S : k <= e
      BY <3>2
    <3>4. S \in SUBSET Nat
      BY <2>1
    <3>. QED
      BY <3>3, <3>4
  <2>6. PICK p : p = [left |-> l, top |-> t, right |-> q, bottom |-> e]
    OBVIOUS
  <2>7. p \in RectSet /\ p.left = l /\ p.top = t /\ p.right = q /\ p.bottom = e
    BY <2>6 DEF RectSet
  <2>8. Around(rects) = p
    BY <2>2, <2>3, <2>4, <2>5, <2>6, <1>4 DEF Around, MakeRect
  <2>9. l < q /\ t < e
    <3>1. PICK r \in rects : TRUE
      BY <1>4
    <3>2. l <= r.left /\ r.right <= q /\ t <= r.top /\ r.bottom <= e
      BY <2>2, <2>3, <2>4, <2>5
    <3>. QED
      BY <3>2, <2>1
  <2>10. IsRect(p)
    BY <2>7, <2>9 DEF IsRect
  <2>11. ASSUME NEW x \in Nat, NEW y \in Nat, <<x, y>> \in c PROVE InRect(p, x, y)
    <3>1. PICK r \in rects : InRect(r, x, y)
      BY <2>11, <1>2 DEF Inside
    <3>2. l <= r.left /\ r.right <= q /\ t <= r.top /\ r.bottom <= e
      BY <2>2, <2>3, <2>4, <2>5
    <3>3. r.left <= x /\ x < r.right /\ r.top <= y /\ y < r.bottom
      BY <3>1 DEF InRect
    <3>. QED
      BY <3>2, <3>3, <2>1, <2>7 DEF InRect
  <2>12. ASSUME NEW r \in rects
         PROVE  /\ <<r.left, r.top>> \in c /\ r.left \in Nat /\ r.top \in Nat
                /\ <<r.right - 1, r.top>> \in c /\ <<r.left, r.bottom - 1>> \in c
    <3>1. PICK a, b, x, y \in Nat : a = r.left /\ b = r.top /\ x = r.right - 1 /\ y = r.bottom - 1
      BY <2>1
    <3>2. InRect(r, a, b) /\ InRect(r, x, b) /\ InRect(r, a, y)
      BY <3>1, <2>1 DEF InRect
    <3>3. <<a, b>> \in c /\ <<x, b>> \in c /\ <<a, y>> \in c
      BY <3>2, <1>2 DEF Inside
    <3>. QED
      BY <3>1, <3>3
  <2>13. \E y \in Nat : <<p.left, y>> \in c
    BY <2>2, <2>7, <2>12
  <2>14. \E y \in Nat : <<p.right - 1, y>> \in c
    BY <2>4, <2>7, <2>12
  <2>15. \E x \in Nat : <<x, p.top>> \in c
    BY <2>3, <2>7, <2>12
  <2>16. \E x \in Nat : <<x, p.bottom - 1>> \in c
    BY <2>5, <2>7, <2>12
  <2>17. Frames(p, c)
    BY <2>10, <2>11, <2>13, <2>14, <2>15, <2>16 DEF Frames
  <2>18. e > 0
    BY <2>9
  <2>. QED
    BY <2>5, <2>7, <2>8, <2>17, <2>18, <1>1, <1>2
<1>. QED
  BY <1>3, <1>4

\* The region of some rectangles is their pixels.
LEMMA SetRectsIs ==
  ASSUME NEW rects \in SUBSET RectSet, IsFiniteSet({NormalizeRect(r) : r \in rects})
  PROVE  IsArea(SetRects(rects), CellsOfAll(rects))
<1>1. PICK all : all = {NormalizeRect(r) : r \in rects} \ {NoRect}
  OBVIOUS
<1>2. IsFiniteSet(all)
  BY <1>1, FS_RemoveElement
<1>3. \A r \in all : IsRect(r)
  BY <1>1, NormalizedIs
<1>4. PICK c : c = UNION {CellsOf(r) : r \in all}
  OBVIOUS
<1>5. CellsOfAll(rects) = c
  BY <1>1, <1>4, NoCells DEF CellsOfAll
<1>6. /\ Frames(Around(all), c)
      /\ c \in SUBSET (Nat \X Nat)
      /\ \A x, y \in Nat : <<x, y>> \in c <=> Inside(all, x, y)
      /\ Around(all).bottom \in Nat
      /\ \A r \in all : r.bottom <= Around(all).bottom
      /\ all # {} => Around(all).bottom > 0
  BY <1>2, <1>3, <1>4, AroundIs
<1>7. PICK lines : lines = Sweep(all, Around(all).bottom)
  OBVIOUS
<1>8. GoDown(lines) /\ \A x, y \in Nat : FilledFrom(lines, 1, x, y) <=> Inside(all, x, y)
  BY <1>2, <1>3, <1>6, <1>7, SweepIs
<1>9. PICK r : r = [lines |-> lines, bounds |-> Around(all)]
  OBVIOUS
<1>10. SetRects(rects) = r
  BY <1>1, <1>7, <1>9 DEF SetRects
<1>11. r.lines = lines /\ r.bounds = Around(all)
  BY <1>9
<1>12. IsArea(r, c)
  BY <1>6, <1>8, <1>11 DEF IsArea
<1>. QED
  BY <1>5, <1>10, <1>12

\* A region of up to three rectangles.
LEMMA SetRectsOfThree ==
  ASSUME NEW a \in Inputs, NEW b \in Inputs, NEW c \in Inputs, NEW rects, rects = {a, b, c}
  PROVE  IsArea(SetRects(rects), CellsOfAll(rects))
<1>1. rects \in SUBSET RectSet
  BY RegionAssumption DEF RectSet
<1>2. {NormalizeRect(r) : r \in rects}
        = (({} \cup {NormalizeRect(a)}) \cup {NormalizeRect(b)}) \cup {NormalizeRect(c)}
  OBVIOUS
<1>3. IsFiniteSet({} \cup {NormalizeRect(a)})
  BY FS_EmptySet, FS_AddElement
<1>4. IsFiniteSet(({} \cup {NormalizeRect(a)}) \cup {NormalizeRect(b)})
  BY <1>3, FS_AddElement
<1>5. IsFiniteSet((({} \cup {NormalizeRect(a)}) \cup {NormalizeRect(b)}) \cup {NormalizeRect(c)})
  BY <1>4, FS_AddElement
<1>6. IsFiniteSet({NormalizeRect(r) : r \in rects})
  BY <1>2, <1>5
<1>. QED
  BY <1>1, <1>6, SetRectsIs

\* A region of no rectangles.
LEMMA SetRectsOfNone ==
  IsArea(SetRects({}), CellsOfAll({}))
<1>1. {} \in SUBSET RectSet /\ {NormalizeRect(r) : r \in {}} = {} /\ IsFiniteSet({})
  BY FS_EmptySet
<1>2. IsFiniteSet({NormalizeRect(r) : r \in {}})
  BY <1>1
<1>. QED
  BY <1>1, <1>2, SetRectsIs

\* The regions to unite and intersect with are the areas of their rectangles.
LEMMA BuiltAre ==
  ASSUME NEW built \in Built
  PROVE  IsArea(built.region, built.cells)
<1>1. PICK rects \in {{}} \cup {{a, b} : a, b \in Inputs} :
           built = [region |-> SetRects(rects), cells |-> CellsOfAll(rects)]
  BY DEF Built, BuiltFrom
<1>2. built.region = SetRects(rects) /\ built.cells = CellsOfAll(rects)
  BY <1>1
<1>3. CASE rects = {}
  BY <1>2, <1>3, SetRectsOfNone
<1>4. CASE rects \in {{a, b} : a, b \in Inputs}
  <2>1. PICK a \in Inputs, b \in Inputs : rects = {a, b}
    BY <1>4
  <2>2. rects = {a, b, b}
    BY <2>1
  <2>. QED
    BY <2>2, <1>2, SetRectsOfThree
<1>. QED
  BY <1>1, <1>3, <1>4

-----------------------------------------------------------------------------
(* Queries of a rectangle                                                  *)

\* A span of a row meets a rectangle if a column of the row is in the rectangle's.
LEMMA SpanMeetsIs ==
  ASSUME NEW s, GoRight(s), NEW q, IsRect(q)
  PROVE  (\E e \in ToSet(s) : SpanMeets(e, q))
            <=> \E x \in Nat : q.left <= x /\ x < q.right /\ CoveredFrom(s, 1, x)
<1>1. PICK n \in Nat : n = Len(s)
  BY SpanIs
<1>2. PICK l, r \in Nat : l = q.left /\ r = q.right /\ l < r
  BY RectIs
<1>3. (\E e \in ToSet(s) : SpanMeets(e, q)) <=> \E k \in 1 .. n : SpanMeets(s[k], q)
  BY <1>1 DEF ToSet, GoRight
<1>4. ASSUME NEW k \in 1 .. n
      PROVE  SpanMeets(s[k], q) <=> \E x \in Nat : l <= x /\ x < r /\ InSpan(s[k], x)
  <2>1. PICK a, b \in Nat : a = s[k].left /\ b = s[k].right /\ a < b
    BY <1>1, SpanIs
  <2>2. SpanMeets(s[k], q) <=> a < r /\ b > l
    BY <2>1, <1>2 DEF SpanMeets
  <2>3. \A x \in Nat : InSpan(s[k], x) <=> a <= x /\ x < b
    BY <2>1 DEF InSpan
  <2>4. ASSUME a < r, b > l PROVE \E x \in Nat : l <= x /\ x < r /\ a <= x /\ x < b
    <3>1. CASE a <= l
      BY <3>1, <2>4, <1>2
    <3>2. CASE l < a
      BY <3>2, <2>1, <2>4
    <3>. QED
      BY <3>1, <3>2
  <2>5. ASSUME NEW x \in Nat, l <= x, x < r, a <= x, x < b PROVE a < r /\ b > l
    BY <2>5, <1>2, <2>1
  <2>. QED
    BY <2>2, <2>3, <2>4, <2>5
<1>5. \A x \in Nat : CoveredFrom(s, 1, x) <=> \E k \in 1 .. n : InSpan(s[k], x)
  BY <1>1 DEF CoveredFrom
<1>. QED
  BY <1>2, <1>3, <1>4, <1>5

\* The first line that ends below y.
LEMMA FirstQueriedIs ==
  ASSUME NEW lines, GoDown(lines), NEW y \in Nat,
         NEW f, f = FirstBelow(lines, IF EndsAbove(lines, y) THEN BinarySearchThreshold + 2 ELSE 1, y)
  PROVE  /\ f \in 1 .. Len(lines) + 1
         /\ \A k \in 1 .. Len(lines) : k < f => lines[k].bottom <= y
         /\ f <= Len(lines) => lines[f].bottom > y
<1>1. PICK n \in Nat : n = Len(lines)
  BY LineIs
<1>2. CASE EndsAbove(lines, y)
  <2>1. f = FirstBelow(lines, BinarySearchThreshold + 2, y)
    BY <1>2
  <2>. QED
    BY <2>1, <1>2, SkippedIs
<1>3. CASE ~ EndsAbove(lines, y)
  <2>1. f = FirstBelow(lines, 1, y) /\ 1 \in 1 .. Len(lines) + 1
    BY <1>1, <1>3
  <2>2. /\ f \in 1 .. n + 1
        /\ \A k \in 1 .. n : k < f => ~ (lines[k].bottom > y)
        /\ f <= n => lines[f].bottom > y
    BY <2>1, <1>1, FirstBelowIs
  <2>3. \A k \in 1 .. n : lines[k].bottom \in Nat
    BY <1>1, LineIs
  <2>. QED
    BY <2>2, <2>3, <1>1
<1>. QED
  BY <1>2, <1>3

\* Lines from the first one that ends below the top, and none from the bottom on.
LEMMA LinesMeetIs ==
  ASSUME NEW lines, GoDown(lines), NEW q, IsRect(q), NEW f \in 1 .. Len(lines) + 1,
         \A k \in 1 .. Len(lines) : k < f => lines[k].bottom <= q.top,
         f <= Len(lines) => lines[f].bottom > q.top
  PROVE  (\E i \in f .. Len(lines) :
               /\ \A j \in f .. i : lines[j].top < q.bottom
               /\ \E s \in ToSet(lines[i].spans) : SpanMeets(s, q))
            <=> \E x, y \in Nat : FilledFrom(lines, 1, x, y) /\ InRect(q, x, y)
<1>1. PICK n \in Nat : n = Len(lines)
  BY LineIs
<1>2. PICK t, b \in Nat : t = q.top /\ b = q.bottom /\ t < b
  BY RectIs
<1>3. ASSUME NEW k \in 1 .. n
      PROVE  (\E s \in ToSet(lines[k].spans) : SpanMeets(s, q))
                <=> \E x \in Nat : q.left <= x /\ x < q.right /\ CoveredFrom(lines[k].spans, 1, x)
  <2>1. PICK s : s = lines[k].spans /\ GoRight(s)
    BY <1>1, LineIs
  <2>2. (\E e \in ToSet(s) : SpanMeets(e, q))
            <=> \E x \in Nat : q.left <= x /\ x < q.right /\ CoveredFrom(s, 1, x)
    BY <2>1, SpanMeetsIs
  <2>. QED
    BY <2>1, <2>2
<1>4. ASSUME NEW i \in f .. n, \A j \in f .. i : lines[j].top < q.bottom,
             \E s \in ToSet(lines[i].spans) : SpanMeets(s, q)
      PROVE  \E x, y \in Nat : FilledFrom(lines, 1, x, y) /\ InRect(q, x, y)
  <2>1. i \in 1 .. n /\ f \in 1 .. n /\ i \in f .. i
    BY <1>1
  <2>2. PICK x \in Nat : q.left <= x /\ x < q.right /\ CoveredFrom(lines[i].spans, 1, x)
    BY <2>1, <1>3, <1>4
  <2>3. PICK u, e \in Nat : u = lines[i].top /\ e = lines[i].bottom /\ u < e
    BY <2>1, <1>1, LineIs
  <2>4. u < b
    BY <2>1, <2>3, <1>2, <1>4
  <2>5. t < e
    <3>1. PICK u1, e1 \in Nat : u1 = lines[f].top /\ e1 = lines[f].bottom /\ u1 < e1
      BY <2>1, <1>1, LineIs
    <3>2. t < e1
      BY <3>1, <2>1, <1>1, <1>2
    <3>3. CASE i = f
      BY <3>1, <3>2, <3>3, <2>3
    <3>4. CASE i # f
      <4>1. f < i
        BY <3>4
      <4>2. lines[f].bottom <= lines[i].top
        BY <4>1, <2>1, <1>1, LinesApart
      <4>. QED
        BY <4>2, <3>1, <3>2, <2>3
    <3>. QED
      BY <3>3, <3>4
  <2>6. PICK y \in Nat : u <= y /\ y < e /\ t <= y /\ y < b
    <3>1. CASE u <= t
      BY <3>1, <2>5, <1>2
    <3>2. CASE t < u
      BY <3>2, <2>3, <2>4
    <3>. QED
      BY <3>1, <3>2
  <2>7. InLine(lines[i], x, y)
    BY <2>2, <2>3, <2>6 DEF InLine
  <2>8. InRect(q, x, y)
    BY <2>2, <2>6, <1>2 DEF InRect
  <2>9. FilledFrom(lines, 1, x, y)
    BY <2>1, <2>7, <1>1 DEF FilledFrom
  <2>. QED
    BY <2>8, <2>9
<1>5. ASSUME NEW x \in Nat, NEW y \in Nat, FilledFrom(lines, 1, x, y), InRect(q, x, y)
      PROVE  \E i \in f .. n : /\ \A j \in f .. i : lines[j].top < q.bottom
                               /\ \E s \in ToSet(lines[i].spans) : SpanMeets(s, q)
  <2>1. PICK i \in 1 .. n : InLine(lines[i], x, y)
    BY <1>1, <1>5 DEF FilledFrom
  <2>2. PICK u, e \in Nat : u = lines[i].top /\ e = lines[i].bottom /\ u <= y /\ y < e
    BY <2>1, <1>1, LineIs DEF InLine
  <2>3. t <= y /\ y < b /\ q.left <= x /\ x < q.right
    BY <1>2, <1>5 DEF InRect
  <2>4. i \in f .. n
    <3>1. ~ (lines[i].bottom <= t)
      BY <2>2, <2>3
    <3>2. ~ (i < f)
      BY <3>1, <1>1, <1>2
    <3>. QED
      BY <3>2, <1>1
  <2>5. ASSUME NEW j \in f .. i PROVE lines[j].top < q.bottom
    <3>1. j \in 1 .. n
      BY <1>1
    <3>2. PICK u1, e1 \in Nat : u1 = lines[j].top /\ e1 = lines[j].bottom /\ u1 < e1
      BY <3>1, <1>1, LineIs
    <3>3. CASE j = i
      BY <3>2, <3>3, <2>2, <2>3, <1>2
    <3>4. CASE j # i
      <4>1. j < i
        BY <3>4, <1>1
      <4>2. lines[j].bottom <= lines[i].top
        BY <4>1, <3>1, <1>1, LinesApart
      <4>. QED
        BY <4>2, <3>2, <2>2, <2>3, <1>2, SMTT(40)
    <3>. QED
      BY <3>3, <3>4
  <2>6. \E s \in ToSet(lines[i].spans) : SpanMeets(s, q)
    BY <2>1, <2>3, <1>3 DEF InLine
  <2>. QED
    BY <2>4, <2>5, <2>6
<1>6. (\E i \in f .. n : /\ \A j \in f .. i : lines[j].top < q.bottom
                         /\ \E s \in ToSet(lines[i].spans) : SpanMeets(s, q))
        <=> \E x, y \in Nat : FilledFrom(lines, 1, x, y) /\ InRect(q, x, y)
  BY <1>4, <1>5
<1>. QED
  BY <1>1, <1>6

\* Intersects, of a rectangle: if a pixel of the region is in it.
LEMMA RectQueryIs ==
  ASSUME NEW a, NEW c, IsArea(a, c), NEW r, NEW q, q = NormalizeRect(r), q = NoRect \/ IsRect(q)
  PROVE  IntersectsRect(a, r) <=> c \cap CellsOf(q) # {}
<1>1. PICK f : f = FirstBelow(a.lines, IF EndsAbove(a.lines, q.top)
                                       THEN BinarySearchThreshold + 2 ELSE 1, q.top)
  OBVIOUS
<1>2. IntersectsRect(a, r) <=>
        /\ ~IsEmpty(a)
        /\ ~IsEmptyRect(q)
        /\ RectsIntersect(a.bounds, q)
        /\ IsComplex(a) =>
             \E i \in f .. Len(a.lines) :
               /\ \A j \in f .. i : a.lines[j].top < q.bottom
               /\ \E s \in ToSet(a.lines[i].spans) : SpanMeets(s, q)
  BY <1>1 DEF IntersectsRect
<1>3. c \in SUBSET (Nat \X Nat) /\ GoDown(a.lines)
      /\ \A x, y \in Nat : <<x, y>> \in c <=> FilledFrom(a.lines, 1, x, y)
  BY DEF IsArea
<1>4. CASE c = {}
  <2>1. IsEmpty(a)
    BY <1>4, AreaIsEmpty
  <2>. QED
    BY <2>1, <1>2, <1>4
<1>5. CASE q = NoRect
  <2>1. IsEmptyRect(q) /\ CellsOf(q) = {}
    BY <1>5, NoRectIs, NoCells
  <2>. QED
    BY <2>1, <1>2
<1>6. CASE c # {} /\ q # NoRect
  <2>1. IsRect(q) /\ ~ IsEmptyRect(q)
    BY <1>6, EmptyOrRect DEF IsRect
  <2>2. IsRect(a.bounds) /\ ~ IsEmpty(a)
    BY <1>6, AreaIsEmpty
  <2>3. c \cap CellsOf(q) # {} <=> \E x, y \in Nat : <<x, y>> \in c /\ InRect(q, x, y)
    <3>1. CellsOf(q) \in SUBSET (Nat \X Nat)
          /\ \A x, y \in Nat : <<x, y>> \in CellsOf(q) <=> InRect(q, x, y)
      BY <2>1, CellsAre
    <3>2. c \cap CellsOf(q) \in SUBSET (Nat \X Nat)
      BY <3>1
    <3>3. ASSUME c \cap CellsOf(q) # {}
          PROVE  \E x, y \in Nat : <<x, y>> \in c \cap CellsOf(q)
      BY <3>2, <3>3, PixelsHaveOne
    <3>. QED
      BY <3>1, <3>3
  <2>4. ASSUME NEW x \in Nat, NEW y \in Nat, <<x, y>> \in c, InRect(q, x, y)
        PROVE  RectsIntersect(a.bounds, q)
    <3>1. InRect(a.bounds, x, y)
      BY <2>4, AreaIsEmpty
    <3>. QED
      BY <3>1, <2>1, <2>2, <2>4, MeetingRects
  <2>5. CASE ~ IsComplex(a)
    <3>1. c = CellsOf(a.bounds)
      BY <2>2, <2>5, AreaIsSimple
    <3>2. ASSUME RectsIntersect(a.bounds, q)
          PROVE  \E x, y \in Nat : <<x, y>> \in c /\ InRect(q, x, y)
      <4>1. PICK p : p = Meet(a.bounds, q)
        OBVIOUS
      <4>2. /\ IsRect(p)
            /\ \A x, y \in Nat : InRect(p, x, y) <=> InRect(a.bounds, x, y) /\ InRect(q, x, y)
        BY <4>1, <2>1, <2>2, <3>2, MeetIs
      <4>3. PICK x, y \in Nat : x = p.left /\ y = p.top /\ InRect(p, x, y)
        BY <4>2, RectIs DEF InRect
      <4>4. InRect(a.bounds, x, y) /\ InRect(q, x, y)
        BY <4>2, <4>3
      <4>5. <<x, y>> \in c
        BY <4>4, <3>1, <2>2, CellsAre
      <4>. QED
        BY <4>4, <4>5
    <3>. QED
      BY <3>2, <2>1, <2>2, <2>3, <2>4, <2>5, <1>2
  <2>6. CASE IsComplex(a)
    <3>1. PICK t \in Nat : t = q.top
      BY <2>1, RectIs
    <3>2. /\ f \in 1 .. Len(a.lines) + 1
          /\ \A k \in 1 .. Len(a.lines) : k < f => a.lines[k].bottom <= q.top
          /\ f <= Len(a.lines) => a.lines[f].bottom > q.top
      BY <3>1, <1>1, <1>3, FirstQueriedIs
    <3>3. (\E i \in f .. Len(a.lines) :
               /\ \A j \in f .. i : a.lines[j].top < q.bottom
               /\ \E s \in ToSet(a.lines[i].spans) : SpanMeets(s, q))
            <=> \E x, y \in Nat : FilledFrom(a.lines, 1, x, y) /\ InRect(q, x, y)
      BY <3>2, <2>1, <1>3, LinesMeetIs
    <3>4. (\E x, y \in Nat : FilledFrom(a.lines, 1, x, y) /\ InRect(q, x, y))
            <=> \E x, y \in Nat : <<x, y>> \in c /\ InRect(q, x, y)
      BY <1>3
    <3>. QED
      BY <3>3, <3>4, <2>1, <2>2, <2>3, <2>4, <2>6, <1>2
  <2>. QED
    BY <2>5, <2>6
<1>. QED
  BY <1>4, <1>5, <1>6

-----------------------------------------------------------------------------
(* Queries of a region                                                     *)

\* Where a search for two lines that meet can be after k rounds: no pair before it does.
SeekLineWalks(ls, ms, k) ==
    {w \in [i : Nat, j : Nat] :
       /\ w.i \in 1 .. Len(ls) + 1 /\ w.j \in 1 .. Len(ms) + 1
       /\ \A x, y \in Nat : FilledFrom(ls, 1, x, y) /\ FilledFrom(ms, 1, x, y)
                              => FilledFrom(ls, w.i, x, y) /\ FilledFrom(ms, w.j, x, y)
       /\ \/ w.i > Len(ls) \/ w.j > Len(ms) \/ w.i + w.j >= k + 2
          \/ /\ ls[w.i].top < ms[w.j].bottom /\ ms[w.j].top < ls[w.i].bottom
             /\ SpansIntersect(ls[w.i].spans, ms[w.j].spans)}

\* A round passes a line that shares no pixel with the other region, or halts on two that do.
LEMMA SeekLineKeeps ==
  ASSUME NEW ls, GoDown(ls), NEW ms, GoDown(ms), NEW k \in Nat, NEW w \in SeekLineWalks(ls, ms, k)
  PROVE  SeekLine(ls, ms, w) \in SeekLineWalks(ls, ms, k + 1)
<1>1. PICK n \in Nat, m \in Nat : n = Len(ls) /\ m = Len(ms)
  BY LineIs
<1>2. PICK i \in Nat, j \in Nat : w = [i |-> i, j |-> j]
  BY DEF SeekLineWalks
<1>3. w.i = i /\ w.j = j
  BY <1>2
<1>4. /\ i \in 1 .. n + 1 /\ j \in 1 .. m + 1
      /\ \/ i > n \/ j > m \/ i + j >= k + 2
         \/ /\ ls[i].top < ms[j].bottom /\ ms[j].top < ls[i].bottom
            /\ SpansIntersect(ls[i].spans, ms[j].spans)
      /\ \A x, y \in Nat : FilledFrom(ls, 1, x, y) /\ FilledFrom(ms, 1, x, y)
                              => FilledFrom(ls, i, x, y) /\ FilledFrom(ms, j, x, y)
  BY <1>1, <1>3 DEF SeekLineWalks
<1>5. CASE i > n \/ j > m
  <2>1. SeekLine(ls, ms, w) = w
    BY <1>5, <1>1, <1>3 DEF SeekLine
  <2>. QED
    BY <2>1, <1>5, <1>1, <1>3 DEF SeekLineWalks
<1>6. CASE i <= n /\ j <= m
  <2>1. i \in 1 .. n /\ j \in 1 .. m /\ ~ (i > n \/ j > m)
    BY <1>4, <1>6
  <2>2. PICK at, ab, bt, bb \in Nat : /\ at = ls[i].top /\ ab = ls[i].bottom /\ at < ab
                                      /\ bt = ms[j].top /\ bb = ms[j].bottom /\ bt < bb
    BY <2>1, <1>1, LineIs
  <2>3. PICK s, t : s = ls[i].spans /\ t = ms[j].spans /\ GoRight(s) /\ GoRight(t)
    BY <2>1, <1>1, LineIs
  <2>4. SpansIntersect(s, t) <=> \E x \in Nat : CoveredFrom(s, 1, x) /\ CoveredFrom(t, 1, x)
    BY <2>3, SpansIntersectIs
  <2>5. \A x, y \in Nat : /\ InLine(ls[i], x, y) <=> at <= y /\ y < ab /\ CoveredFrom(s, 1, x)
                          /\ InLine(ms[j], x, y) <=> bt <= y /\ y < bb /\ CoveredFrom(t, 1, x)
    BY <2>2, <2>3 DEF InLine
  <2>6. \A x, y \in Nat : /\ FilledFrom(ls, i, x, y) <=> InLine(ls[i], x, y) \/ FilledFrom(ls, i + 1, x, y)
                          /\ FilledFrom(ls, i, x, y) => at <= y
                          /\ FilledFrom(ls, i + 1, x, y) => ab <= y
    BY <2>1, <2>2, <1>1, FilledStep
  <2>7. \A x, y \in Nat : /\ FilledFrom(ms, j, x, y) <=> InLine(ms[j], x, y) \/ FilledFrom(ms, j + 1, x, y)
                          /\ FilledFrom(ms, j, x, y) => bt <= y
                          /\ FilledFrom(ms, j + 1, x, y) => bb <= y
    BY <2>1, <2>2, <1>1, FilledStep
  <2>8. SeekLine(ls, ms, w) = IF ab <= bt THEN [i |-> i + 1, j |-> j]
                              ELSE IF bb <= at THEN [i |-> i, j |-> j + 1]
                              ELSE IF SpansIntersect(s, t) THEN w
                              ELSE IF ab < bb THEN [i |-> i + 1, j |-> j]
                              ELSE [i |-> i, j |-> j + 1]
    BY <2>1, <2>2, <2>3, <1>1, <1>2, <1>3 DEF SeekLine
  <2>9. ASSUME ~ SpansIntersect(s, t) \/ ab <= bt \/ bb <= at, NEW x \in Nat, NEW y \in Nat
        PROVE  ~ (InLine(ls[i], x, y) /\ InLine(ms[j], x, y))
    BY <2>2, <2>4, <2>5, <2>9
  <2>10. CASE ab <= bt \/ (~ (bb <= at) /\ ~ SpansIntersect(s, t) /\ ab < bb)
    <3>1. PICK v : v = [i |-> i + 1, j |-> j]
      OBVIOUS
    <3>2. SeekLine(ls, ms, w) = v
      BY <2>8, <2>10, <3>1
    <3>3. v.i = i + 1 /\ v.j = j /\ v \in [i : Nat, j : Nat]
      BY <3>1
    <3>4. ASSUME NEW x \in Nat, NEW y \in Nat, FilledFrom(ls, 1, x, y), FilledFrom(ms, 1, x, y)
          PROVE  FilledFrom(ls, i + 1, x, y) /\ FilledFrom(ms, j, x, y)
      <4>1. FilledFrom(ls, i, x, y) /\ FilledFrom(ms, j, x, y)
        BY <3>4, <1>4
      <4>2. ~ InLine(ls[i], x, y)
        <5>1. ASSUME InLine(ls[i], x, y) PROVE FALSE
          <6>1. y < ab
            BY <5>1, <2>5
          <6>2. ~ FilledFrom(ms, j + 1, x, y)
            BY <6>1, <2>2, <2>7, <2>10
          <6>3. InLine(ms[j], x, y)
            BY <6>2, <4>1, <2>7
          <6>. QED
            BY <6>3, <5>1, <2>9, <2>10
        <5>. QED
          BY <5>1
      <4>. QED
        BY <4>1, <4>2, <2>6
    <3>5. i + 1 \in 1 .. n + 1 /\ ((i + 1) + j >= (k + 1) + 2)
      <4>1. i + j >= k + 2
        BY <2>1, <2>2, <2>3, <2>10, <1>4
      <4>. QED
        BY <4>1, <2>1
    <3>. QED
      BY <3>2, <3>3, <3>4, <3>5, <1>1, <1>4 DEF SeekLineWalks
  <2>11. CASE \/ ~ (ab <= bt) /\ bb <= at
              \/ ~ (ab <= bt) /\ ~ SpansIntersect(s, t) /\ ~ (ab < bb)
    <3>1. PICK v : v = [i |-> i, j |-> j + 1]
      OBVIOUS
    <3>2. SeekLine(ls, ms, w) = v
      BY <2>8, <2>11, <3>1
    <3>3. v.i = i /\ v.j = j + 1 /\ v \in [i : Nat, j : Nat]
      BY <3>1
    <3>4. ASSUME NEW x \in Nat, NEW y \in Nat, FilledFrom(ls, 1, x, y), FilledFrom(ms, 1, x, y)
          PROVE  FilledFrom(ls, i, x, y) /\ FilledFrom(ms, j + 1, x, y)
      <4>1. FilledFrom(ls, i, x, y) /\ FilledFrom(ms, j, x, y)
        BY <3>4, <1>4
      <4>2. ~ InLine(ms[j], x, y)
        <5>1. ASSUME InLine(ms[j], x, y) PROVE FALSE
          <6>1. y < bb
            BY <5>1, <2>5
          <6>2. ~ FilledFrom(ls, i + 1, x, y)
            BY <6>1, <2>2, <2>6, <2>11
          <6>3. InLine(ls[i], x, y)
            BY <6>2, <4>1, <2>6
          <6>. QED
            BY <6>3, <5>1, <2>9, <2>11
        <5>. QED
          BY <5>1
      <4>. QED
        BY <4>1, <4>2, <2>7
    <3>5. j + 1 \in 1 .. m + 1 /\ (i + (j + 1) >= (k + 1) + 2)
      <4>1. i + j >= k + 2
        BY <2>1, <2>2, <2>3, <2>11, <1>4
      <4>. QED
        BY <4>1, <2>1
    <3>. QED
      BY <3>2, <3>3, <3>4, <3>5, <1>1, <1>4 DEF SeekLineWalks
  <2>12. CASE ~ (ab <= bt) /\ ~ (bb <= at) /\ SpansIntersect(s, t)
    <3>1. SeekLine(ls, ms, w) = w
      BY <2>8, <2>12
    <3>2. at < bb /\ bt < ab
      BY <2>2, <2>12
    <3>. QED
      BY <3>1, <3>2, <2>2, <2>3, <2>12, <1>1, <1>3 DEF SeekLineWalks
  <2>. QED
    BY <2>2, <2>10, <2>11, <2>12
<1>. QED
  BY <1>4, <1>5, <1>6

\* The lines of two regions intersect if a pixel is in both.
LEMMA LinesIntersectIs ==
  ASSUME NEW ls, GoDown(ls), ls # <<>>, NEW ms, GoDown(ms), ms # <<>>
  PROVE  LinesIntersect(ls, ms)
            <=> \E x, y \in Nat : FilledFrom(ls, 1, x, y) /\ FilledFrom(ms, 1, x, y)
<1>1. PICK n \in Nat, m \in Nat : n = Len(ls) /\ m = Len(ms)
  BY LineIs
<1>2. PICK rounds \in Nat : rounds = Len(ls) + Len(ms) /\ rounds = n + m
  BY <1>1
<1>3. PICK start : start = FirstLines(ls, ms)
  OBVIOUS
<1>4. /\ start = [i |-> start.i, j |-> start.j]
      /\ start.i \in 1 .. n + 1 /\ start.j \in 1 .. m + 1
      /\ \A x, y \in Nat : FilledFrom(ls, 1, x, y) /\ FilledFrom(ms, 1, x, y)
               <=> FilledFrom(ls, start.i, x, y) /\ FilledFrom(ms, start.j, x, y)
  BY <1>1, <1>3, FirstLinesAre
<1>. DEFINE T == [k \in 0 .. rounds |-> SeekLineWalks(ls, ms, k)]
            All == UNION {T[k] : k \in 0 .. rounds}
            step == [p \in (1 .. rounds) \X All |-> SeekLine(ls, ms, p[2])]
            Defines(f) == f = [k \in 0 .. rounds |-> IF k = 0 THEN start ELSE SeekLine(ls, ms, f[k - 1])]
            walk == CHOOSE f : Defines(f)
<1>5. start \in T[0]
  <2>1. start = [i |-> start.i, j |-> start.j] /\ start.i \in 1 .. n + 1 /\ start.j \in 1 .. m + 1
    BY <1>4
  <2>2. start \in [i : Nat, j : Nat]
    <3>1. start.i \in Nat /\ start.j \in Nat
      BY <2>1
    <3>. QED
      BY <2>1, <3>1
  <2>3. 0 \in 0 .. rounds /\ start.i + start.j >= 0 + 2
    BY <2>1
  <2>. QED
    BY <2>1, <2>2, <2>3, <1>1, <1>4 DEF SeekLineWalks
<1>6. ASSUME NEW k \in 1 .. rounds, NEW w \in T[k - 1]
      PROVE  SeekLine(ls, ms, w) \in T[k] /\ step[<<k, w>>] = SeekLine(ls, ms, w)
  <2>1. k - 1 \in 0 .. rounds /\ k \in 0 .. rounds /\ k - 1 \in Nat /\ k - 1 < rounds /\ (k - 1) + 1 = k
    OBVIOUS
  <2>2. w \in SeekLineWalks(ls, ms, k - 1) /\ w \in All
    BY <2>1
  <2>3. SeekLine(ls, ms, w) \in SeekLineWalks(ls, ms, k)
    BY <2>1, <2>2, <1>2, SeekLineKeeps
  <2>. QED
    BY <2>1, <2>2, <2>3
<1>7. PICK f : WalkIs(f, rounds, T, start, step)
  <2>. HIDE DEF T, step
  <2>1. \A k \in 1 .. rounds : \A w \in T[k - 1] : step[<<k, w>>] \in T[k]
    BY <1>6
  <2>. QED
    BY <2>1, <1>5, WalkExists, Zenon
<1>8. Defines(f)
  <2>1. ASSUME NEW k \in 0 .. rounds, k # 0 PROVE step[<<k, f[k - 1]>>] = SeekLine(ls, ms, f[k - 1])
    <3>1. k \in 1 .. rounds /\ k - 1 \in 0 .. rounds
      BY <2>1
    <3>. HIDE DEF T, step
    <3>. QED
      BY <3>1, <1>6, <1>7 DEF WalkIs
  <2>. HIDE DEF T, step
  <2>. QED
    BY <2>1, <1>7 DEF WalkIs
<1>9. Defines(walk)
  <2>. HIDE DEF Defines
  <2>. QED
    BY <1>8
<1>10. walk[0] = start /\ \A k \in 1 .. rounds : walk[k] = SeekLine(ls, ms, walk[k - 1])
  <2>1. 0 \in 0 .. rounds /\ \A k \in 1 .. rounds : k \in 0 .. rounds /\ k # 0
    OBVIOUS
  <2>. HIDE DEF walk
  <2>. QED
    BY <2>1, <1>9
<1>11. LinesIntersect(ls, ms) <=> walk[rounds].i <= Len(ls) /\ walk[rounds].j <= Len(ms)
  BY <1>2, <1>3 DEF LinesIntersect
<1>12. walk[rounds] \in T[rounds]
  <2>1. walk[0] \in T[0] /\ \A k \in 1 .. rounds : walk[k - 1] \in T[k - 1] => walk[k] \in T[k]
    <3>. HIDE DEF walk, T, step
    <3>. QED
      BY <1>5, <1>6, <1>10
  <2>2. rounds \in 0 .. rounds
    OBVIOUS
  <2>. HIDE DEF walk, T
  <2>. QED
    BY <2>1, <2>2, WalkStays
<1>13. PICK w : w = walk[rounds] /\ w \in SeekLineWalks(ls, ms, rounds)
  <2>1. rounds \in 0 .. rounds
    OBVIOUS
  <2>. QED
    BY <1>12, <2>1
<1>14. PICK i, j \in Nat : i = w.i /\ j = w.j
  BY <1>13 DEF SeekLineWalks
<1>15. /\ i \in 1 .. n + 1 /\ j \in 1 .. m + 1
       /\ \/ i > n \/ j > m \/ i + j >= rounds + 2
          \/ /\ ls[i].top < ms[j].bottom /\ ms[j].top < ls[i].bottom
             /\ SpansIntersect(ls[i].spans, ms[j].spans)
       /\ \A x, y \in Nat : FilledFrom(ls, 1, x, y) /\ FilledFrom(ms, 1, x, y)
                              => FilledFrom(ls, i, x, y) /\ FilledFrom(ms, j, x, y)
  BY <1>1, <1>13, <1>14 DEF SeekLineWalks
<1>16. LinesIntersect(ls, ms) <=> i <= n /\ j <= m
  BY <1>1, <1>11, <1>13, <1>14
<1>17. CASE i <= n /\ j <= m
  <2>1. i \in 1 .. n /\ j \in 1 .. m
    BY <1>15, <1>17
  <2>2. /\ ls[i].top < ms[j].bottom /\ ms[j].top < ls[i].bottom
        /\ SpansIntersect(ls[i].spans, ms[j].spans)
    BY <2>1, <1>2, <1>15
  <2>3. PICK at, ab, bt, bb \in Nat : /\ at = ls[i].top /\ ab = ls[i].bottom /\ at < ab
                                      /\ bt = ms[j].top /\ bb = ms[j].bottom /\ bt < bb
    BY <2>1, <1>1, LineIs
  <2>4. PICK s, t : s = ls[i].spans /\ t = ms[j].spans /\ GoRight(s) /\ GoRight(t)
    BY <2>1, <1>1, LineIs
  <2>5. PICK x \in Nat : CoveredFrom(s, 1, x) /\ CoveredFrom(t, 1, x)
    BY <2>2, <2>4, SpansIntersectIs
  <2>6. PICK y \in Nat : at <= y /\ y < ab /\ bt <= y /\ y < bb
    <3>1. CASE at <= bt
      BY <3>1, <2>2, <2>3
    <3>2. CASE bt < at
      BY <3>2, <2>2, <2>3
    <3>. QED
      BY <3>1, <3>2
  <2>7. InLine(ls[i], x, y) /\ InLine(ms[j], x, y)
    BY <2>3, <2>4, <2>5, <2>6 DEF InLine
  <2>8. FilledFrom(ls, 1, x, y) /\ FilledFrom(ms, 1, x, y)
    BY <2>1, <2>7, <1>1 DEF FilledFrom
  <2>. QED
    BY <2>8, <1>16, <1>17
<1>18. CASE ~ (i <= n /\ j <= m)
  <2>1. i > n \/ j > m
    BY <1>15, <1>18
  <2>2. \A x, y \in Nat : ~ FilledFrom(ls, i, x, y) \/ ~ FilledFrom(ms, j, x, y)
    BY <2>1, <1>1, <1>15, FilledEnd
  <2>. QED
    BY <2>2, <1>15, <1>16, <1>18
<1>. QED
  BY <1>17, <1>18

\* Pixels, in half pixels, are normalised to themselves.
LEMMA HalvesAre ==
  ASSUME NEW r, IsRect(r)
  PROVE  NormalizeRect(Halves(r)) = r
<1>1. PICK l, t, q, b \in Nat : /\ l = r.left /\ t = r.top /\ q = r.right /\ b = r.bottom
                                /\ l < q /\ t < b
  BY RectIs
<1>2. r = [left |-> l, top |-> t, right |-> q, bottom |-> b]
  BY <1>1 DEF IsRect, RectSet
<1>3. PICK l2, t2, q2, b2 \in Nat : l2 = 2 * l /\ t2 = 2 * t /\ q2 = 2 * q /\ b2 = 2 * b
                                    /\ l2 < q2 /\ t2 < b2
  BY <1>1
<1>4. PICK h : h = [left |-> l2, top |-> t2, right |-> q2, bottom |-> b2]
  OBVIOUS
<1>5. Halves(r) = h
  BY <1>1, <1>3, <1>4 DEF Halves, MakeRect
<1>6. /\ Least(h.left, h.right) = l2 /\ Least(h.top, h.bottom) = t2
      /\ Greatest(h.left, h.right) = q2 /\ Greatest(h.top, h.bottom) = b2
  BY <1>3, <1>4 DEF Least, Greatest
<1>7. /\ l2 \div 2 = l /\ t2 \div 2 = t /\ (q2 + 1) \div 2 = q /\ (b2 + 1) \div 2 = b
  BY <1>3
<1>8. MakeRect(Least(h.left, h.right) \div 2, Least(h.top, h.bottom) \div 2,
               (Greatest(h.left, h.right) + 1) \div 2, (Greatest(h.top, h.bottom) + 1) \div 2) = r
  BY <1>2, <1>6, <1>7 DEF MakeRect
<1>9. ~ IsEmptyRect(r)
  BY EmptyOrRect DEF IsRect
<1>10. NormalizeRect(h) = r
  BY <1>8, <1>9 DEF NormalizeRect
<1>. QED
  BY <1>5, <1>10

\* Intersects, of a region: if they have a pixel in common.
LEMMA RegionQueryIs ==
  ASSUME NEW a, NEW c, IsArea(a, c), NEW b, NEW d, IsArea(b, d)
  PROVE  IntersectsRegion(a, b) <=> c \cap d # {}
<1>1. /\ c \in SUBSET (Nat \X Nat) /\ d \in SUBSET (Nat \X Nat)
      /\ c \cap d \in SUBSET (Nat \X Nat)
  BY DEF IsArea
<1>2. ASSUME c \cap d # {}
      PROVE  ~ IsEmpty(a) /\ ~ IsEmpty(b) /\ RectsIntersect(a.bounds, b.bounds)
  <2>1. PICK x, y \in Nat : <<x, y>> \in c \cap d
    BY <1>1, <1>2, PixelsHaveOne
  <2>2. /\ c # {} /\ d # {}
        /\ IsRect(a.bounds) /\ IsRect(b.bounds) /\ InRect(a.bounds, x, y) /\ InRect(b.bounds, x, y)
    BY <2>1, AreaIsEmpty
  <2>3. RectsIntersect(a.bounds, b.bounds)
    BY <2>2, MeetingRects
  <2>. QED
    BY <2>2, <2>3, AreaIsEmpty
<1>3. CASE ~ (~ IsEmpty(a) /\ ~ IsEmpty(b) /\ RectsIntersect(a.bounds, b.bounds))
  BY <1>2, <1>3 DEF IntersectsRegion
<1>4. CASE ~ IsEmpty(a) /\ ~ IsEmpty(b) /\ RectsIntersect(a.bounds, b.bounds)
  <2>1. c # {} /\ d # {} /\ IsRect(a.bounds) /\ IsRect(b.bounds)
    BY <1>4, AreaIsEmpty
  <2>2. CASE ~ IsComplex(a) /\ ~ IsComplex(b)
    <3>1. c = CellsOf(a.bounds) /\ d = CellsOf(b.bounds)
      BY <1>4, <2>2, AreaIsSimple
    <3>2. PICK p : p = Meet(a.bounds, b.bounds)
      OBVIOUS
    <3>3. /\ IsRect(p)
          /\ \A x, y \in Nat : InRect(p, x, y) <=> InRect(a.bounds, x, y) /\ InRect(b.bounds, x, y)
      BY <3>2, <2>1, <1>4, MeetIs
    <3>4. PICK x, y \in Nat : x = p.left /\ y = p.top /\ InRect(p, x, y)
      BY <3>3, RectIs DEF InRect
    <3>5. <<x, y>> \in c /\ <<x, y>> \in d
      BY <3>1, <3>3, <3>4, <2>1, CellsAre
    <3>. QED
      BY <3>5, <2>2, <1>4 DEF IntersectsRegion
  <2>3. CASE ~ IsComplex(a) /\ IsComplex(b)
    <3>1. c = CellsOf(a.bounds)
      BY <1>4, <2>3, AreaIsSimple
    <3>2. a.bounds = NormalizeRect(Halves(a.bounds))
      BY <2>1, HalvesAre
    <3>3. IntersectsRect(b, Halves(a.bounds)) <=> d \cap CellsOf(a.bounds) # {}
      BY <3>2, <2>1, RectQueryIs
    <3>. QED
      BY <3>1, <3>3, <2>3, <1>4 DEF IntersectsRegion
  <2>4. CASE IsComplex(a) /\ ~ IsComplex(b)
    <3>1. d = CellsOf(b.bounds)
      BY <1>4, <2>4, AreaIsSimple
    <3>2. b.bounds = NormalizeRect(Halves(b.bounds))
      BY <2>1, HalvesAre
    <3>3. IntersectsRect(a, Halves(b.bounds)) <=> c \cap CellsOf(b.bounds) # {}
      BY <3>2, <2>1, RectQueryIs
    <3>. QED
      BY <3>1, <3>3, <2>4, <1>4 DEF IntersectsRegion
  <2>5. CASE IsComplex(a) /\ IsComplex(b)
    <3>1. GoDown(a.lines) /\ GoDown(b.lines) /\ a.lines # <<>> /\ b.lines # <<>>
      BY <1>4 DEF IsArea, IsEmpty
    <3>2. LinesIntersect(a.lines, b.lines)
            <=> \E x, y \in Nat : FilledFrom(a.lines, 1, x, y) /\ FilledFrom(b.lines, 1, x, y)
      BY <3>1, LinesIntersectIs
    <3>3. (\E x, y \in Nat : FilledFrom(a.lines, 1, x, y) /\ FilledFrom(b.lines, 1, x, y))
            <=> \E x, y \in Nat : <<x, y>> \in c \cap d
      BY DEF IsArea
    <3>4. c \cap d # {} => \E x, y \in Nat : <<x, y>> \in c \cap d
      BY <1>1, PixelsHaveOne
    <3>. QED
      BY <3>2, <3>3, <3>4, <2>5, <1>4 DEF IntersectsRegion
  <2>. QED
    BY <2>2, <2>3, <2>4, <2>5
<1>. QED
  BY <1>3, <1>4

-----------------------------------------------------------------------------
(* The rectangles of a region                                              *)

Covers(rects, x, y) == \E i \in 1 .. Len(rects) : InRect(rects[i], x, y)

\* Rectangles with pixels, and no pixel is in two.
Disjoint(rects) ==
    /\ rects \in Seq(RectSet)
    /\ \A i \in 1 .. Len(rects) : IsRect(rects[i])
    /\ \A i, j \in 1 .. Len(rects) : \A x, y \in Nat :
          InRect(rects[i], x, y) /\ InRect(rects[j], x, y) => i = j

HasMore(all, rects, r) ==
    /\ Disjoint(all) /\ Len(all) = Len(rects) + 1
    /\ \A i \in 1 .. Len(rects) : all[i] = rects[i]
    /\ all[Len(rects) + 1] = r
    /\ \A x, y \in Nat : Covers(all, x, y) <=> Covers(rects, x, y) \/ InRect(r, x, y)

\* A rectangle is added to others.
LEMMA RectAppended ==
  ASSUME NEW rects, Disjoint(rects), NEW r, IsRect(r),
         \A x, y \in Nat : InRect(r, x, y) => ~ Covers(rects, x, y),
         NEW all, all = Append(rects, r)
  PROVE  HasMore(all, rects, r)
<1>1. rects \in Seq(RectSet) /\ r \in RectSet
  BY DEF Disjoint, IsRect
<1>2. PICK n \in Nat : n = Len(rects)
  BY <1>1
<1>3. /\ all \in Seq(RectSet) /\ Len(all) = n + 1 /\ all[n + 1] = r
      /\ \A i \in 1 .. n : all[i] = rects[i]
  BY <1>1, <1>2
<1>4. n + 1 \in 1 .. n + 1 /\ \A i \in 1 .. n + 1 : i \in 1 .. n \/ i = n + 1
  OBVIOUS
<1>5. \A i \in 1 .. n : i \in 1 .. n + 1 /\ IsRect(rects[i])
  BY <1>2 DEF Disjoint
<1>6. \A x, y \in Nat : Covers(all, x, y) <=> Covers(rects, x, y) \/ InRect(r, x, y)
  BY <1>2, <1>3, <1>4, <1>5 DEF Covers
<1>7. \A i \in 1 .. Len(all) : IsRect(all[i])
  BY <1>3, <1>4, <1>5
<1>8. ASSUME NEW i \in 1 .. n + 1, NEW j \in 1 .. n + 1, NEW x \in Nat, NEW y \in Nat,
             InRect(all[i], x, y), InRect(all[j], x, y)
      PROVE  i = j
  <2>1. \A k \in 1 .. n : InRect(rects[k], x, y) => ~ InRect(r, x, y)
    BY <1>2 DEF Covers
  <2>2. CASE i \in 1 .. n /\ j \in 1 .. n
    BY <2>2, <1>2, <1>3, <1>8 DEF Disjoint
  <2>3. CASE i \notin 1 .. n
    BY <2>1, <2>3, <1>3, <1>4, <1>8
  <2>4. CASE j \notin 1 .. n
    BY <2>1, <2>4, <1>3, <1>4, <1>8
  <2>. QED
    BY <2>2, <2>3, <2>4
<1>9. Disjoint(all)
  BY <1>3, <1>7, <1>8 DEF Disjoint
<1>. QED
  BY <1>2, <1>3, <1>6, <1>9 DEF HasMore

HasLess(rest, rects, f) ==
    /\ Disjoint(rest) /\ Len(rest) = Len(rects) - 1
    /\ \A i \in 1 .. Len(rects) - 1 : \E k \in 1 .. Len(rects) :
          rest[i] = rects[k] /\ k # f /\ (k = i \/ k = i + 1)
    /\ \A x, y \in Nat : Covers(rects, x, y) <=> Covers(rest, x, y) \/ InRect(rects[f], x, y)
    /\ \A x, y \in Nat : Covers(rest, x, y) => ~ InRect(rects[f], x, y)

\* A rectangle is taken out.
LEMMA RectRemoved ==
  ASSUME NEW rects, Disjoint(rects), NEW f \in 1 .. Len(rects), NEW rest, rest = RemoveAt(rects, f)
  PROVE  HasLess(rest, rects, f)
<1>1. rects \in Seq(RectSet)
  BY DEF Disjoint
<1>2. PICK n \in Nat : n = Len(rects) /\ f \in 1 .. n
  BY <1>1
<1>3. /\ rest \in Seq(RectSet) /\ DOMAIN rest = 1 .. n - 1
      /\ \A i \in 1 .. n - 1 : /\ (IF i < f THEN i ELSE i + 1) \in DOMAIN rects \ {f}
                               /\ rest[i] = rects[IF i < f THEN i ELSE i + 1]
  <2>1. rest = SeqWithout(rects, f)
    BY DEF RemoveAt, SeqWithout
  <2>2. /\ rest \in Seq(RectSet) /\ DOMAIN rest = 1 .. Len(rects) - 1
        /\ \A i \in DOMAIN rest : /\ (IF i < f THEN i ELSE i + 1) \in DOMAIN rects \ {f}
                                  /\ rest[i] = rects[IF i < f THEN i ELSE i + 1]
    BY <2>1, <1>1, ElementRemoved
  <2>. QED
    BY <2>2, <1>2
<1>4. Len(rest) = n - 1
  <2>1. PICK m \in Nat : m = Len(rest) /\ DOMAIN rest = 1 .. m
    BY <1>3
  <2>. QED
    BY <2>1, <1>2, <1>3
<1>. DEFINE at(i) == IF i < f THEN i ELSE i + 1
<1>5. \A i \in 1 .. n - 1 : /\ at(i) \in 1 .. n /\ at(i) # f /\ (at(i) = i \/ at(i) = i + 1)
                            /\ rest[i] = rects[at(i)]
  BY <1>2, <1>3
<1>6. \A i, j \in 1 .. n - 1 : at(i) = at(j) => i = j
  BY <1>2
<1>7. \A k \in 1 .. n : k # f => \E i \in 1 .. n - 1 : at(i) = k
  <2>. SUFFICES ASSUME NEW k \in 1 .. n, k # f PROVE \E i \in 1 .. n - 1 : at(i) = k
    OBVIOUS
  <2>1. CASE k < f
    <3>1. k \in 1 .. n - 1 /\ at(k) = k
      BY <2>1, <1>2
    <3>. QED
      BY <3>1
  <2>2. CASE f < k
    <3>1. k - 1 \in 1 .. n - 1 /\ at(k - 1) = k
      BY <2>2, <1>2
    <3>. QED
      BY <3>1
  <2>. QED
    BY <2>1, <2>2, <1>2
<1>. HIDE DEF at
<1>8. /\ \A k \in 1 .. n : IsRect(rects[k])
      /\ \A i, j \in 1 .. n : \A x, y \in Nat : InRect(rects[i], x, y) /\ InRect(rects[j], x, y) => i = j
  BY <1>2 DEF Disjoint
<1>9. Disjoint(rest)
  <2>1. \A i \in 1 .. n - 1 : IsRect(rest[i])
    BY <1>5, <1>8
  <2>2. ASSUME NEW i \in 1 .. n - 1, NEW j \in 1 .. n - 1, NEW x \in Nat, NEW y \in Nat,
               InRect(rest[i], x, y), InRect(rest[j], x, y)
        PROVE  i = j
    <3>1. at(i) = at(j)
      BY <2>2, <1>5, <1>8
    <3>. QED
      BY <3>1, <1>6
  <2>. QED
    BY <2>1, <2>2, <1>3, <1>4 DEF Disjoint
<1>10. ASSUME NEW x \in Nat, NEW y \in Nat
       PROVE  /\ Covers(rects, x, y) <=> Covers(rest, x, y) \/ InRect(rects[f], x, y)
              /\ Covers(rest, x, y) => ~ InRect(rects[f], x, y)
  <2>1. Covers(rects, x, y) <=> \E k \in 1 .. n : InRect(rects[k], x, y)
    BY <1>2 DEF Covers
  <2>2. Covers(rest, x, y) <=> \E i \in 1 .. n - 1 : InRect(rects[at(i)], x, y)
    BY <1>4, <1>5 DEF Covers
  <2>3. Covers(rest, x, y) <=> \E k \in 1 .. n : k # f /\ InRect(rects[k], x, y)
    BY <2>2, <1>5, <1>7
  <2>. QED
    BY <2>1, <2>3, <1>2, <1>8
<1>. QED
  BY <1>2, <1>4, <1>5, <1>9, <1>10 DEF HasLess

-----------------------------------------------------------------------------
(* Across the spans of a line                                              *)

SpansTo(s, m, x) == \E e \in 1 .. m : InSpan(s[e], x)

\* After m spans: what was above the line, and the line as far as them.
Crossing(above, line, m) ==
    {q \in [rects : Seq(RectSet), previous : Nat] :
       /\ Disjoint(q.rects) /\ q.previous <= Len(q.rects)
       /\ \A i \in 1 .. q.previous : q.rects[i].bottom <= line.top
       /\ \A i \in 1 .. Len(q.rects) : q.rects[i].bottom <= line.bottom
       /\ \A x, y \in Nat : Covers(q.rects, x, y)
             <=> \/ <<x, y>> \in above
                 \/ line.top <= y /\ y < line.bottom /\ SpansTo(line.spans, m, x)}

\* The rectangle that is made taller ends where the line begins.
LEMMA FoundIs ==
  ASSUME NEW q \in [rects : Seq(RectSet), previous : Nat], q.previous <= Len(q.rects),
         NEW line, line.top \in Nat, \A i \in 1 .. q.previous : q.rects[i].bottom <= line.top,
         NEW span, NEW f, f = Found(q, line, span)
  PROVE  /\ f \in 0 .. q.previous
         /\ f > 0 => SameSides(q.rects[f], span) /\ q.rects[f].bottom = line.top
<1>1. PICK p \in Nat, t \in Nat : p = q.previous /\ t = line.top
  OBVIOUS
<1>. DEFINE S == {0} \cup {i \in 1 .. p : q.rects[i].bottom < t \/ SameSides(q.rects[i], span)}
<1>2. PICK last : last = Max(S)
  OBVIOUS
<1>3. last \in S
  <2>1. S \in SUBSET (0 .. p) /\ S # {}
    <3>1. 0 \in 0 .. p /\ \A i \in 1 .. p : i \in 0 .. p
      OBVIOUS
    <3>. QED
      BY <3>1
  <2>. HIDE DEF S
  <2>2. \E k \in S : \A i \in S : i <= k
    BY <2>1, LargestExists
  <2>3. \E k \in S : \A i \in S : k >= i
    BY <2>1, <2>2
  <2>. QED
    BY <2>3, <1>2 DEF Max
<1>4. f = IF last > 0 /\ q.rects[last].bottom < t THEN 0 ELSE last
  BY <1>1, <1>2 DEF Found
<1>5. last \in 0 .. p /\ (last > 0 => q.rects[last].bottom < t \/ SameSides(q.rects[last], span))
  BY <1>3
<1>6. \A i \in 1 .. p : q.rects[i].bottom \in Nat /\ q.rects[i].bottom <= t
  <2>1. PICK n \in Nat : n = Len(q.rects) /\ p <= n
    BY <1>1
  <2>2. \A i \in 1 .. p : i \in 1 .. n
    BY <2>1
  <2>3. \A i \in 1 .. p : q.rects[i] \in RectSet
    BY <2>1, <2>2
  <2>. QED
    BY <2>3, <1>1 DEF RectSet
<1>7. CASE last > 0 /\ q.rects[last].bottom < t
  BY <1>1, <1>4, <1>7
<1>8. CASE ~ (last > 0 /\ q.rects[last].bottom < t)
  <2>1. f = last
    BY <1>4, <1>8
  <2>2. last > 0 => q.rects[last].bottom = t /\ SameSides(q.rects[last], span)
    BY <1>5, <1>6, <1>8
  <2>. QED
    BY <2>1, <2>2, <1>1, <1>5
<1>. QED
  BY <1>7, <1>8

\* A column is in the first spans.
LEMMA SpanToIs ==
  ASSUME NEW s, GoRight(s), NEW m \in 1 .. Len(s)
  PROVE  \A x \in Nat : /\ SpansTo(s, m, x) <=> SpansTo(s, m - 1, x) \/ InSpan(s[m], x)
                        /\ SpansTo(s, m - 1, x) => ~ InSpan(s[m], x)
<1>. TAKE x \in Nat
<1>1. PICK n \in Nat : n = Len(s)
  BY SpanIs
<1>2. m \in 1 .. m /\ \A e \in 1 .. m : e \in 1 .. m - 1 \/ e = m
  BY <1>1
<1>3. \A e \in 1 .. m - 1 : e \in 1 .. m /\ e \in 1 .. n /\ e < m
  BY <1>1
<1>4. ASSUME NEW e \in 1 .. m - 1, InSpan(s[e], x) PROVE ~ InSpan(s[m], x)
  <2>1. s[e].right < s[m].left
    BY <1>1, <1>3, SpansApart
  <2>2. s[e].right \in Nat /\ s[m].left \in Nat
    BY <1>1, <1>3, SpanIs
  <2>. QED
    BY <2>1, <2>2, <1>4 DEF InSpan
<1>. QED
  BY <1>2, <1>3, <1>4 DEF SpansTo

\* What is made of a span, with or without debanding.
OfSpan(q, line, span, deband) == IF deband THEN Debanded(q, line, span) ELSE Banded(q, line, span)

\* A rectangle for the next span: of the line, and from above it if it is made taller.
LEMMA OfSpanKeeps ==
  ASSUME NEW above, NEW line, IsLine(line), \A x, y \in Nat : <<x, y>> \in above => y < line.top,
         NEW m \in 1 .. Len(line.spans), NEW q \in Crossing(above, line, m - 1), NEW deband \in BOOLEAN
  PROVE  OfSpan(q, line, line.spans[m], deband) \in Crossing(above, line, m)
<1>s. PICK s : s = line.spans /\ GoRight(s)
  BY DEF IsLine
<1>1. PICK t, b \in Nat : t = line.top /\ b = line.bottom /\ s = line.spans /\ t < b /\ GoRight(s)
  BY <1>s DEF IsLine, LineSet
<1>above. ASSUME NEW x \in Nat, NEW y \in Nat, t <= y PROVE <<x, y>> \notin above
  BY <1>1, <1>above
<1>2. PICK l, u \in Nat : l = s[m].left /\ u = s[m].right /\ l < u
  BY <1>1, SpanIs
<1>3. PICK rects \in Seq(RectSet), p \in Nat : q = [rects |-> rects, previous |-> p]
  BY DEF Crossing
<1>4. /\ q.rects = rects /\ q.previous = p /\ Disjoint(rects) /\ p <= Len(rects)
      /\ \A i \in 1 .. p : rects[i].bottom <= t
      /\ \A i \in 1 .. Len(rects) : rects[i].bottom <= b
      /\ \A x, y \in Nat : Covers(rects, x, y)
             <=> \/ <<x, y>> \in above
                 \/ t <= y /\ y < b /\ SpansTo(s, m - 1, x)
  BY <1>1, <1>3 DEF Crossing
<1>5. PICK n \in Nat : n = Len(rects)
  BY <1>3
<1>6. \A x \in Nat : /\ SpansTo(s, m, x) <=> SpansTo(s, m - 1, x) \/ (l <= x /\ x < u)
                     /\ SpansTo(s, m - 1, x) => ~ (l <= x /\ x < u)
  BY <1>1, <1>2, SpanToIs DEF InSpan
<1>7. CASE OfSpan(q, line, s[m], deband) = [rects |-> Append(rects, MakeRect(l, t, u, b)), previous |-> p]
  <2>1. PICK r : r = MakeRect(l, t, u, b)
    OBVIOUS
  <2>2. r.left = l /\ r.top = t /\ r.right = u /\ r.bottom = b /\ r \in RectSet /\ IsRect(r)
    BY <2>1, <1>1, <1>2 DEF MakeRect, RectSet, IsRect
  <2>3. \A x, y \in Nat : InRect(r, x, y) <=> l <= x /\ x < u /\ t <= y /\ y < b
    BY <2>2 DEF InRect
  <2>4. ASSUME NEW x \in Nat, NEW y \in Nat, InRect(r, x, y) PROVE ~ Covers(rects, x, y)
    <3>1. l <= x /\ x < u /\ t <= y /\ y < b
      BY <2>3, <2>4
    <3>2. <<x, y>> \notin above /\ ~ SpansTo(s, m - 1, x)
      BY <3>1, <1>above, <1>6
    <3>. QED
      BY <3>2, <1>4
  <2>5. PICK all : all = Append(rects, r)
    OBVIOUS
  <2>6. /\ Disjoint(all) /\ Len(all) = n + 1
        /\ \A i \in 1 .. n : all[i] = rects[i]
        /\ all[n + 1] = r
        /\ \A x, y \in Nat : Covers(all, x, y) <=> Covers(rects, x, y) \/ InRect(r, x, y)
    <3>1. HasMore(all, rects, r)
      <4>1. Disjoint(rects) /\ IsRect(r)
        BY <2>2, <1>4
      <4>2. \A x, y \in Nat : InRect(r, x, y) => ~ Covers(rects, x, y)
        BY <2>4
      <4>. QED
        BY <4>1, <4>2, <2>5, RectAppended
    <3>. QED
      BY <3>1, <1>5 DEF HasMore
  <2>7. \A x, y \in Nat : Covers(all, x, y)
             <=> \/ <<x, y>> \in above
                 \/ t <= y /\ y < b /\ SpansTo(s, m, x)
    BY <2>3, <2>6, <1>4, <1>6
  <2>8. PICK v : v = [rects |-> all, previous |-> p]
    OBVIOUS
  <2>9. v.rects = all /\ v.previous = p /\ v \in [rects : Seq(RectSet), previous : Nat]
    BY <2>6, <2>8 DEF Disjoint
  <2>10. p <= n + 1 /\ \A i \in 1 .. p : i \in 1 .. n
    BY <1>4, <1>5
  <2>11. \A i \in 1 .. n + 1 : all[i].bottom <= b
    <3>1. \A i \in 1 .. n + 1 : i \in 1 .. n \/ i = n + 1
      OBVIOUS
    <3>2. b <= b
      OBVIOUS
    <3>. QED
      BY <3>1, <3>2, <2>2, <2>6, <1>4, <1>5
  <2>12. v \in Crossing(above, line, m)
    BY <2>6, <2>7, <2>9, <2>10, <2>11, <1>1, <1>4 DEF Crossing
  <2>. QED
    BY <2>1, <2>5, <2>8, <2>12, <1>1, <1>7
<1>8. CASE ~ deband
  <2>1. OfSpan(q, line, s[m], deband) = [rects |-> Append(rects, MakeRect(l, t, u, b)), previous |-> p]
    BY <1>1, <1>2, <1>4, <1>8 DEF OfSpan, Banded
  <2>. QED
    BY <2>1, <1>7
<1>9. CASE deband
  <2>1. PICK f : f = Found(q, line, s[m])
    OBVIOUS
  <2>2. /\ f \in 0 .. p
        /\ f > 0 => SameSides(rects[f], s[m]) /\ rects[f].bottom = t
    <3>1. q \in [rects : Seq(RectSet), previous : Nat] /\ line.top \in Nat
          /\ q.previous <= Len(q.rects) /\ \A i \in 1 .. q.previous : q.rects[i].bottom <= line.top
      BY <1>1, <1>4 DEF Crossing
    <3>2. /\ f \in 0 .. q.previous
          /\ f > 0 => SameSides(q.rects[f], s[m]) /\ q.rects[f].bottom = line.top
      BY <3>1, <2>1, FoundIs
    <3>. QED
      BY <3>2, <1>1, <1>4
  <2>3. OfSpan(q, line, s[m], deband) = Debanded(q, line, s[m])
    BY <1>9 DEF OfSpan
  <2>4. CASE ~ (f > 0)
    <3>1. Debanded(q, line, s[m]) = [rects |-> Append(rects, MakeRect(l, t, u, b)), previous |-> p]
      BY <2>1, <2>4, <1>1, <1>2, <1>4 DEF Debanded
    <3>. QED
      BY <3>1, <2>3, <1>7
  <2>5. CASE f > 0
    <3>1. f \in 1 .. p /\ f \in 1 .. n /\ 0 < p /\ p - 1 \in Nat /\ p <= n
      BY <2>2, <2>5, <1>4, <1>5
    <3>2. PICK old : old = rects[f] /\ IsRect(old)
      BY <3>1, <1>4, <1>5 DEF Disjoint
    <3>3. old.left = l /\ old.right = u /\ old.bottom = t
      BY <3>2, <2>2, <2>5, <1>2 DEF SameSides
    <3>4. PICK h \in Nat : h = old.top /\ h < t
      BY <3>2, <3>3, RectIs
    <3>5. PICK r : r = MakeRect(l, h, u, b)
      OBVIOUS
    <3>6. r.left = l /\ r.top = h /\ r.right = u /\ r.bottom = b /\ r \in RectSet /\ IsRect(r)
      BY <3>4, <3>5, <1>1, <1>2 DEF MakeRect, RectSet, IsRect
    <3>7. \A x, y \in Nat : /\ InRect(r, x, y) <=> l <= x /\ x < u /\ h <= y /\ y < b
                            /\ InRect(old, x, y) <=> l <= x /\ x < u /\ h <= y /\ y < t
      BY <3>3, <3>4, <3>6 DEF InRect
    <3>8. PICK rest : rest = RemoveAt(rects, f)
      OBVIOUS
    <3>9. /\ Disjoint(rest) /\ Len(rest) = n - 1
          /\ \A i \in 1 .. n - 1 : \E k \in 1 .. n : rest[i] = rects[k] /\ k # f /\ (k = i \/ k = i + 1)
          /\ \A x, y \in Nat : Covers(rects, x, y) <=> Covers(rest, x, y) \/ InRect(old, x, y)
          /\ \A x, y \in Nat : Covers(rest, x, y) => ~ InRect(old, x, y)
      <4>1. f \in 1 .. Len(rects)
        BY <3>1, <1>5
      <4>2. HasLess(rest, rects, f)
        <5>1. Disjoint(rects)
          BY <1>4
        <5>. QED
          BY <5>1, <4>1, <3>8, RectRemoved
      <4>. QED
        BY <4>2, <3>2, <1>5 DEF HasLess
    <3>10. \A x, y \in Nat : InRect(r, x, y) <=> InRect(old, x, y) \/ (l <= x /\ x < u /\ t <= y /\ y < b)
      BY <3>4, <3>7, <1>1
    <3>11. ASSUME NEW x \in Nat, NEW y \in Nat, InRect(r, x, y) PROVE ~ Covers(rest, x, y)
      <4>1. CASE InRect(old, x, y)
        BY <4>1, <3>9
      <4>2. CASE l <= x /\ x < u /\ t <= y /\ y < b
        <5>1. <<x, y>> \notin above /\ ~ SpansTo(s, m - 1, x)
          BY <4>2, <1>above, <1>6
        <5>2. ~ Covers(rects, x, y)
          BY <5>1, <1>4
        <5>. QED
          BY <5>2, <3>9
      <4>. QED
        BY <4>1, <4>2, <3>10, <3>11
    <3>12. PICK all : all = Append(rest, r)
      OBVIOUS
    <3>more. HasMore(all, rest, r)
      <4>1. Disjoint(rest) /\ IsRect(r)
        BY <3>6, <3>9
      <4>2. \A x, y \in Nat : InRect(r, x, y) => ~ Covers(rest, x, y)
        BY <3>11
      <4>. QED
        BY <4>1, <4>2, <3>12, RectAppended
    <3>13. /\ Disjoint(all) /\ Len(all) = Len(rest) + 1
           /\ \A i \in 1 .. Len(rest) : all[i] = rest[i]
           /\ all[Len(rest) + 1] = r
           /\ \A x, y \in Nat : Covers(all, x, y) <=> Covers(rest, x, y) \/ InRect(r, x, y)
      BY <3>more DEF HasMore
    <3>14. Len(all) = n /\ all[n] = r /\ \A i \in 1 .. n - 1 : all[i] = rest[i]
      BY <3>9, <3>13
    <3>15. \A x, y \in Nat : Covers(all, x, y)
             <=> \/ <<x, y>> \in above
                 \/ t <= y /\ y < b /\ SpansTo(s, m, x)
      BY <3>9, <3>10, <3>13, <1>4, <1>6
    <3>16. PICK v : v = [rects |-> all, previous |-> p - 1]
      OBVIOUS
    <3>17. v.rects = all /\ v.previous = p - 1 /\ v \in [rects : Seq(RectSet), previous : Nat]
      BY <3>1, <3>13, <3>16 DEF Disjoint
    <3>18. ASSUME NEW i \in 1 .. p - 1 PROVE all[i].bottom <= t
      <4>1. i \in 1 .. n - 1
        BY <3>1
      <4>2. PICK k \in 1 .. n : rest[i] = rects[k] /\ (k = i \/ k = i + 1)
        BY <4>1, <3>9
      <4>3. k \in 1 .. p
        BY <4>2, <3>1
      <4>. QED
        BY <4>1, <4>2, <4>3, <3>14, <1>4
    <3>19. ASSUME NEW i \in 1 .. n PROVE all[i].bottom <= b
      <4>1. CASE i = n
        BY <4>1, <3>6, <3>14
      <4>2. CASE i # n
        <5>1. i \in 1 .. n - 1
          BY <4>2
        <5>2. PICK k \in 1 .. n : rest[i] = rects[k]
          BY <5>1, <3>9
        <5>. QED
          BY <5>1, <5>2, <3>14, <1>4, <1>5
      <4>. QED
        BY <4>1, <4>2
    <3>20. p - 1 <= n
      BY <3>1
    <3>21. v \in Crossing(above, line, m)
      BY <3>13, <3>14, <3>15, <3>17, <3>18, <3>19, <3>20, <1>1 DEF Crossing
    <3>22. Debanded(q, line, s[m]) = v
      BY <3>2, <3>4, <3>5, <3>8, <3>12, <3>16, <2>1, <2>5, <1>1, <1>2, <1>4 DEF Debanded
    <3>. QED
      BY <3>21, <3>22, <2>3, <1>1
  <2>. QED
    BY <2>4, <2>5
<1>. QED
  BY <1>8, <1>9

-----------------------------------------------------------------------------
(* Down the lines                                                          *)

LinesTo(lines, k, x, y) == \E l \in 1 .. k : InLine(lines[l], x, y)

\* After k lines: they are covered.
Descending(lines, k) ==
    {q \in [rects : Seq(RectSet), previous : Nat] :
       /\ Disjoint(q.rects) /\ q.previous = Len(q.rects)
       /\ \A i \in 1 .. Len(q.rects) : \A l \in k + 1 .. Len(lines) : q.rects[i].bottom <= lines[l].top
       /\ \A x, y \in Nat : Covers(q.rects, x, y) <=> LinesTo(lines, k, x, y)}

\* One line more is crossed.
LEMMA OfLineIs ==
  ASSUME NEW lines, GoDown(lines), NEW d \in Nat, d < Len(lines), NEW q \in Descending(lines, d),
         NEW deband \in BOOLEAN
  PROVE  OfLine(q, lines[d + 1], deband) \in Descending(lines, d + 1)
<1>first. PICK n \in Nat : n = Len(lines) /\ d + 1 \in 1 .. n
  BY LineIs
<1>1. PICK line : /\ line = lines[d + 1] /\ IsLine(line) /\ line \in LineSet /\ GoRight(line.spans)
                  /\ Len(line.spans) \in Nat
  BY <1>first, SpanIs DEF GoDown, IsLine
<1>2. PICK rounds \in Nat : rounds = Len(line.spans)
  BY <1>1
<1>3. PICK start : start = q
  OBVIOUS
<1>above. PICK above : above = {p \in Nat \X Nat : LinesTo(lines, d, p[1], p[2])}
  OBVIOUS
<1>below. /\ \A x, y \in Nat : <<x, y>> \in above <=> LinesTo(lines, d, x, y)
          /\ \A x, y \in Nat : <<x, y>> \in above => y < line.top
  <2>1. \A x, y \in Nat : <<x, y>> \in above <=> LinesTo(lines, d, x, y)
    BY <1>above
  <2>2. ASSUME NEW x \in Nat, NEW y \in Nat, LinesTo(lines, d, x, y) PROVE y < line.top
    <3>1. PICK l \in 1 .. d : InLine(lines[l], x, y)
      BY <2>2 DEF LinesTo
    <3>2. l \in 1 .. n /\ l < d + 1
      BY <1>first
    <3>3. lines[l].bottom <= lines[d + 1].top /\ lines[l].bottom \in Nat /\ lines[d + 1].top \in Nat
      BY <3>2, <1>first, LinesApart, LineIs
    <3>. QED
      BY <3>1, <3>3, <1>1 DEF InLine
  <2>. QED
    BY <2>1, <2>2
<1>4. /\ q \in [rects : Seq(RectSet), previous : Nat]
      /\ Disjoint(q.rects) /\ q.previous <= Len(q.rects)
      /\ \A i \in 1 .. q.previous : q.rects[i].bottom <= line.top
      /\ \A i \in 1 .. Len(q.rects) : q.rects[i].bottom <= line.bottom
      /\ \A x, y \in Nat : Covers(q.rects, x, y) <=> <<x, y>> \in above
  <2>1. /\ q \in [rects : Seq(RectSet), previous : Nat]
        /\ Disjoint(q.rects) /\ q.previous = Len(q.rects)
        /\ \A i \in 1 .. Len(q.rects) : \A l \in d + 1 .. n : q.rects[i].bottom <= lines[l].top
        /\ \A x, y \in Nat : Covers(q.rects, x, y) <=> LinesTo(lines, d, x, y)
    BY <1>first DEF Descending
  <2>2. PICK p \in Nat : p = Len(q.rects)
    BY <2>1
  <2>3. \A i \in 1 .. p : q.rects[i].bottom \in Nat
    BY <2>1, <2>2, RectIs DEF Disjoint
  <2>4. d + 1 \in d + 1 .. n
    BY <1>first
  <2>5. \A i \in 1 .. p : q.rects[i].bottom <= line.top
    BY <2>1, <2>2, <2>4, <1>1
  <2>6. line.top \in Nat /\ line.bottom \in Nat /\ line.top < line.bottom
    BY <1>1 DEF IsLine, LineSet
  <2>7. \A i \in 1 .. p : q.rects[i].bottom <= line.bottom
    BY <2>3, <2>5, <2>6
  <2>8. q.previous = p /\ p <= p
    BY <2>1, <2>2
  <2>. QED
    BY <2>1, <2>2, <2>5, <2>7, <2>8, <1>below
<1>r. PICK r : r = OfLine(q, line, deband)
  OBVIOUS
<1>. DEFINE T == [k \in 0 .. rounds |-> Crossing(above, line, k)]
            All == UNION {T[k] : k \in 0 .. rounds}
            step == [p \in (1 .. rounds) \X All |-> OfSpan(p[2], line, line.spans[p[1]], deband)]
            Defines(f) == f = [k \in 0 .. rounds |-> IF k = 0 THEN start ELSE OfSpan(f[k - 1], line, line.spans[k], deband)]
            walk == CHOOSE f : Defines(f)
<1>5. start \in T[0]
  <2>1. 0 \in 0 .. rounds /\ \A x \in Nat : ~ SpansTo(line.spans, 0, x)
    BY DEF SpansTo
  <2>2. start \in Crossing(above, line, 0)
    BY <2>1, <1>3, <1>4 DEF Crossing
  <2>. QED
    BY <2>1, <2>2
<1>6. ASSUME NEW k \in 1 .. rounds, NEW w \in T[k - 1]
      PROVE  OfSpan(w, line, line.spans[k], deband) \in T[k] /\ step[<<k, w>>] = OfSpan(w, line, line.spans[k], deband)
  <2>1. k - 1 \in 0 .. rounds /\ k \in 0 .. rounds /\ k - 1 \in Nat /\ k - 1 < rounds /\ (k - 1) + 1 = k
    OBVIOUS
  <2>2. w \in Crossing(above, line, k - 1) /\ w \in All
    BY <2>1
  <2>3. OfSpan(w, line, line.spans[k], deband) \in Crossing(above, line, k)
    BY <2>1, <2>2, <1>1, <1>2, <1>below, OfSpanKeeps
  <2>. QED
    BY <2>1, <2>2, <2>3
<1>7. PICK f : WalkIs(f, rounds, T, start, step)
  <2>. HIDE DEF T, step
  <2>1. \A k \in 1 .. rounds : \A w \in T[k - 1] : step[<<k, w>>] \in T[k]
    BY <1>6
  <2>. QED
    BY <2>1, <1>5, WalkExists, Zenon
<1>8. Defines(f)
  <2>1. ASSUME NEW k \in 0 .. rounds, k # 0 PROVE step[<<k, f[k - 1]>>] = OfSpan(f[k - 1], line, line.spans[k], deband)
    <3>1. k \in 1 .. rounds /\ k - 1 \in 0 .. rounds
      BY <2>1
    <3>. HIDE DEF T, step
    <3>. QED
      BY <3>1, <1>6, <1>7 DEF WalkIs
  <2>. HIDE DEF T, step
  <2>. QED
    BY <2>1, <1>7 DEF WalkIs
<1>9. Defines(walk)
  <2>. HIDE DEF Defines
  <2>. QED
    BY <1>8
<1>10. walk[0] = start /\ \A k \in 1 .. rounds : walk[k] = OfSpan(walk[k - 1], line, line.spans[k], deband)
  <2>1. 0 \in 0 .. rounds /\ \A k \in 1 .. rounds : k \in 0 .. rounds /\ k # 0
    OBVIOUS
  <2>. HIDE DEF walk
  <2>. QED
    BY <2>1, <1>9
<1>11. r = [walk[rounds] EXCEPT !.previous = Len(walk[rounds].rects)]
  BY <1>2, <1>3, <1>r DEF OfLine, OfSpan
<1>12. walk[rounds] \in T[rounds]
  <2>1. walk[0] \in T[0] /\ \A k \in 1 .. rounds : walk[k - 1] \in T[k - 1] => walk[k] \in T[k]
    <3>. HIDE DEF walk, T, step
    <3>. QED
      BY <1>5, <1>6, <1>10
  <2>2. rounds \in 0 .. rounds
    OBVIOUS
  <2>. HIDE DEF walk, T
  <2>. QED
    BY <2>1, <2>2, WalkStays
<1>13. PICK w : w = walk[rounds] /\ w \in Crossing(above, line, rounds)
  <2>1. rounds \in 0 .. rounds
    OBVIOUS
  <2>. QED
    BY <1>12, <2>1
<1>14. PICK rects : rects = w.rects
  OBVIOUS
<1>15. /\ w \in [rects : Seq(RectSet), previous : Nat] /\ Disjoint(rects)
       /\ \A i \in 1 .. Len(rects) : rects[i].bottom <= line.bottom
       /\ \A x, y \in Nat : Covers(rects, x, y)
             <=> \/ <<x, y>> \in above
                 \/ line.top <= y /\ y < line.bottom /\ SpansTo(line.spans, rounds, x)
  BY <1>13, <1>14 DEF Crossing
<1>. HIDE DEF walk
<1>16. PICK m \in Nat : m = Len(rects) /\ rects \in Seq(RectSet)
  BY <1>14, <1>15
<1>17. r = [rects |-> rects, previous |-> m]
  BY <1>11, <1>13, <1>14, <1>15, <1>16
<1>18. r.rects = rects /\ r.previous = m /\ r \in [rects : Seq(RectSet), previous : Nat]
  BY <1>16, <1>17
<1>19. ASSUME NEW i \in 1 .. m, NEW l \in (d + 1) + 1 .. n PROVE rects[i].bottom <= lines[l].top
  <2>1. l \in 1 .. n /\ d + 1 < l
    BY <1>first
  <2>2. line.bottom <= lines[l].top
    BY <2>1, <1>first, <1>1, LinesApart
  <2>3. rects[i].bottom <= line.bottom /\ rects[i].bottom \in Nat
    BY <1>15, <1>16, RectIs DEF Disjoint
  <2>4. line.bottom \in Nat /\ lines[l].top \in Nat
    BY <2>1, <1>first, <1>1, LineIs
  <2>. QED
    BY <2>2, <2>3, <2>4
<1>20. ASSUME NEW x \in Nat, NEW y \in Nat
       PROVE  Covers(rects, x, y) <=> LinesTo(lines, d + 1, x, y)
  <2>1. SpansTo(line.spans, rounds, x) <=> CoveredFrom(line.spans, 1, x)
    BY <1>2 DEF SpansTo, CoveredFrom
  <2>2. Covers(rects, x, y) <=> LinesTo(lines, d, x, y) \/ InLine(line, x, y)
    BY <2>1, <1>15, <1>below DEF InLine
  <2>3. d + 1 \in 1 .. d + 1 /\ \A l \in 1 .. d + 1 : l \in 1 .. d \/ l = d + 1
    OBVIOUS
  <2>4. \A l \in 1 .. d : l \in 1 .. d + 1
    OBVIOUS
  <2>. QED
    BY <2>2, <2>3, <2>4, <1>1 DEF LinesTo
<1>21. r \in Descending(lines, d + 1)
  BY <1>15, <1>16, <1>18, <1>19, <1>20, <1>first DEF Descending
<1>. QED
  BY <1>21, <1>r, <1>1

\* The rectangles of a region cover its lines.
LEMMA DownIs ==
  ASSUME NEW a, ~ (~ IsEmpty(a) /\ ~ IsComplex(a)), NEW lines, lines = a.lines, GoDown(lines),
         NEW deband \in BOOLEAN, NEW r, r = GetRects(a, deband)
  PROVE  Disjoint(r) /\ \A x, y \in Nat : Covers(r, x, y) <=> LinesTo(lines, Len(lines), x, y)
<1>2. PICK rounds \in Nat : rounds = Len(lines)
  BY LineIs
<1>3. PICK start : start = [rects |-> <<>>, previous |-> 0]
  OBVIOUS
<1>. DEFINE T == [k \in 0 .. rounds |-> Descending(lines, k)]
            All == UNION {T[k] : k \in 0 .. rounds}
            step == [p \in (1 .. rounds) \X All |-> OfLine(p[2], lines[p[1]], deband)]
            Defines(f) == f = [k \in 0 .. rounds |-> IF k = 0 THEN start ELSE OfLine(f[k - 1], lines[k], deband)]
            walk == CHOOSE f : Defines(f)
<1>5. start \in T[0]
  <2>1. start.rects = <<>> /\ start.previous = 0 /\ start \in [rects : Seq(RectSet), previous : Nat]
    BY <1>3
  <2>2. Disjoint(<<>>) /\ \A x, y \in Nat : ~ Covers(<<>>, x, y) /\ ~ LinesTo(lines, 0, x, y)
    BY DEF Disjoint, Covers, LinesTo
  <2>3. 0 \in 0 .. rounds
    OBVIOUS
  <2>. QED
    BY <2>1, <2>2, <2>3 DEF Descending
<1>6. ASSUME NEW k \in 1 .. rounds, NEW w \in T[k - 1]
      PROVE  OfLine(w, lines[k], deband) \in T[k] /\ step[<<k, w>>] = OfLine(w, lines[k], deband)
  <2>1. k - 1 \in 0 .. rounds /\ k \in 0 .. rounds /\ k - 1 \in Nat /\ k - 1 < rounds /\ (k - 1) + 1 = k
    OBVIOUS
  <2>2. w \in Descending(lines, k - 1) /\ w \in All
    BY <2>1
  <2>3. OfLine(w, lines[k], deband) \in Descending(lines, k)
    BY <2>1, <2>2, <1>2, OfLineIs
  <2>. QED
    BY <2>1, <2>2, <2>3
<1>7. PICK f : WalkIs(f, rounds, T, start, step)
  <2>. HIDE DEF T, step
  <2>1. \A k \in 1 .. rounds : \A w \in T[k - 1] : step[<<k, w>>] \in T[k]
    BY <1>6
  <2>. QED
    BY <2>1, <1>5, WalkExists, Zenon
<1>8. Defines(f)
  <2>1. ASSUME NEW k \in 0 .. rounds, k # 0 PROVE step[<<k, f[k - 1]>>] = OfLine(f[k - 1], lines[k], deband)
    <3>1. k \in 1 .. rounds /\ k - 1 \in 0 .. rounds
      BY <2>1
    <3>. HIDE DEF T, step
    <3>. QED
      BY <3>1, <1>6, <1>7 DEF WalkIs
  <2>. HIDE DEF T, step
  <2>. QED
    BY <2>1, <1>7 DEF WalkIs
<1>9. Defines(walk)
  <2>. HIDE DEF Defines
  <2>. QED
    BY <1>8
<1>10. walk[0] = start /\ \A k \in 1 .. rounds : walk[k] = OfLine(walk[k - 1], lines[k], deband)
  <2>1. 0 \in 0 .. rounds /\ \A k \in 1 .. rounds : k \in 0 .. rounds /\ k # 0
    OBVIOUS
  <2>. HIDE DEF walk
  <2>. QED
    BY <2>1, <1>9
<1>11. r = walk[rounds].rects
  BY <1>2, <1>3 DEF GetRects
<1>12. walk[rounds] \in T[rounds]
  <2>1. walk[0] \in T[0] /\ \A k \in 1 .. rounds : walk[k - 1] \in T[k - 1] => walk[k] \in T[k]
    <3>. HIDE DEF walk, T, step
    <3>. QED
      BY <1>5, <1>6, <1>10
  <2>2. rounds \in 0 .. rounds
    OBVIOUS
  <2>. HIDE DEF walk, T
  <2>. QED
    BY <2>1, <2>2, WalkStays
<1>13. PICK w : w = walk[rounds] /\ w \in Descending(lines, rounds)
  <2>1. rounds \in 0 .. rounds
    OBVIOUS
  <2>. QED
    BY <1>12, <2>1
<1>. QED
  BY <1>2, <1>11, <1>13 DEF Descending

\* GetRects, debanded or not: rectangles that share no pixel and are the region.
LEMMA GetRectsIs ==
  ASSUME NEW a, NEW c, IsArea(a, c), NEW deband \in BOOLEAN, NEW r, r = GetRects(a, deband)
  PROVE  /\ Disjoint(r)
         /\ \A x, y \in Nat : <<x, y>> \in c <=> Covers(r, x, y)
<1>case. CASE ~ IsEmpty(a) /\ ~ IsComplex(a)
  <2>1. r = <<a.bounds>> /\ c = CellsOf(a.bounds) /\ IsRect(a.bounds)
    BY <1>case, AreaIsSimple DEF GetRects
  <2>2. PICK b : b = a.bounds /\ b \in RectSet
    BY <2>1 DEF IsRect
  <2>3. r \in Seq(RectSet) /\ Len(r) = 1 /\ r[1] = b
    BY <2>1, <2>2
  <2>4. 1 \in 1 .. 1 /\ \A i \in 1 .. 1 : i = 1
    OBVIOUS
  <2>5. Disjoint(r)
    BY <2>1, <2>2, <2>3, <2>4 DEF Disjoint
  <2>6. \A x, y \in Nat : Covers(r, x, y) <=> InRect(b, x, y)
    BY <2>3, <2>4 DEF Covers
  <2>. QED
    BY <2>1, <2>2, <2>5, <2>6, CellsAre
<1>other. CASE ~ (~ IsEmpty(a) /\ ~ IsComplex(a))
  <2>1. PICK lines : lines = a.lines /\ GoDown(lines) /\ Len(lines) \in Nat
    BY LineIs DEF IsArea
  <2>2. Disjoint(r) /\ \A x, y \in Nat : Covers(r, x, y) <=> LinesTo(lines, Len(lines), x, y)
    BY <2>1, <1>other, DownIs
  <2>3. \A x, y \in Nat : <<x, y>> \in c <=> LinesTo(lines, Len(lines), x, y)
    BY <2>1 DEF IsArea, FilledFrom, LinesTo
  <2>. QED
    BY <2>2, <2>3
<1>. QED
  BY <1>case, <1>other

-----------------------------------------------------------------------------
(* The machine                                                             *)

\* A region begins as the area of its rectangles.
LEMMA AreaBegins ==
  ASSUME AreaInit
  PROVE  IsArea(area, cells)
<1>1. PICK rects \in {{}} \cup {{a, b, c} : a, b, c \in Inputs} :
           area = SetRects(rects) /\ cells = CellsOfAll(rects)
  <2>1. PICK rects \in {{}} \cup {{a, b, c} : a, b, c \in Inputs} :
             \E built : /\ built = [region |-> SetRects(rects), cells |-> CellsOfAll(rects)]
                        /\ area = built.region /\ cells = built.cells
    BY DEF AreaInit, BuiltFrom
  <2>2. PICK built : /\ built = [region |-> SetRects(rects), cells |-> CellsOfAll(rects)]
                     /\ area = built.region /\ cells = built.cells
    BY <2>1
  <2>3. built.region = SetRects(rects) /\ built.cells = CellsOfAll(rects)
    BY <2>2
  <2>. QED
    BY <2>2, <2>3
<1>2. CASE rects = {}
  BY <1>1, <1>2, SetRectsOfNone
<1>3. CASE rects \in {{a, b, c} : a, b, c \in Inputs}
  <2>1. PICK a \in Inputs, b \in Inputs, c \in Inputs : rects = {a, b, c}
    BY <1>3
  <2>. QED
    BY <2>1, <1>1, SetRectsOfThree
<1>. QED
  BY <1>1, <1>2, <1>3

\* It stays an area when another is united or intersected with it.
LEMMA AreaIsKept ==
  ASSUME IsArea(area, cells), [AreaNext]_areaVars
  PROVE  IsArea(area', cells')
<1>1. CASE UNCHANGED areaVars
  BY <1>1 DEF areaVars
<1>2. CASE AreaNext
  <2>1. PICK other \in Built : UnionWith(other) \/ IntersectionWith(other)
    BY <1>2 DEF AreaNext
  <2>2. PICK b, d : b = other.region /\ d = other.cells /\ IsArea(b, d)
    BY <2>1, BuiltAre
  <2>3. CASE UnionWith(other)
    <3>1. area' = MakeUnion(area, b) /\ cells' = cells \cup d
      BY <2>2, <2>3 DEF UnionWith
    <3>. QED
      BY <3>1, <2>2, UnionIs
  <2>4. CASE IntersectionWith(other)
    <3>1. area' = MakeIntersection(area, b) /\ cells' = cells \cap d
      BY <2>2, <2>4 DEF IntersectionWith
    <3>. QED
      BY <3>1, <2>2, IntersectionIs
  <2>. QED
    BY <2>1, <2>3, <2>4
<1>. QED
  BY <1>1, <1>2

\* The lines of an area are canonical.
LEMMA CanonicalLines ==
  ASSUME IsArea(area, cells)
  PROVE  LinesAreCanonical
<1>1. PICK lines : lines = area.lines /\ GoDown(lines) /\ DOMAIN lines = 1 .. Len(lines)
  BY DEF IsArea, GoDown
<1>2. ASSUME NEW i \in 1 .. Len(lines)
      PROVE  /\ lines[i].top < lines[i].bottom
             /\ lines[i].spans # <<>>
             /\ \A j \in DOMAIN lines[i].spans :
                  /\ lines[i].spans[j].left < lines[i].spans[j].right
                  /\ j > 1 => lines[i].spans[j - 1].right < lines[i].spans[j].left
             /\ i > 1 => /\ lines[i - 1].bottom <= lines[i].top
                         /\ lines[i - 1].bottom = lines[i].top => lines[i - 1].spans # lines[i].spans
  <2>first. PICK s : s = lines[i].spans /\ GoRight(s)
    BY <1>1, LineIs
  <2>1. s = lines[i].spans /\ GoRight(s) /\ DOMAIN s = 1 .. Len(s)
    BY <2>first DEF GoRight
  <2>2. \A j \in DOMAIN s : s[j].left < s[j].right /\ (j > 1 => s[j - 1].right < s[j].left)
    BY <2>1 DEF GoRight
  <2>3. lines[i].top < lines[i].bottom /\ s # <<>>
    BY <2>1, <1>1, LineIs
  <2>4. i > 1 => /\ lines[i - 1].bottom <= lines[i].top
                 /\ lines[i - 1].bottom = lines[i].top => lines[i - 1].spans # lines[i].spans
    BY <1>1 DEF GoDown
  <2>. QED
    BY <2>1, <2>2, <2>3, <2>4
<1>. QED
  BY <1>1, <1>2 DEF LinesAreCanonical

\* The spans of the lines hold the pixels of the area, and no others.
LEMMA LinesHaveTheCells ==
  ASSUME IsArea(area, cells)
  PROVE  CellsOfRegion = cells
<1>1. PICK lines : lines = area.lines /\ GoDown(lines) /\ DOMAIN lines = 1 .. Len(lines)
  BY DEF IsArea, GoDown
<1>. DEFINE Cells(s, line) == CellsOf(MakeRect(s.left, line.top, s.right, line.bottom))
<1>2. ASSUME NEW k \in 1 .. Len(lines), NEW e \in 1 .. Len(lines[k].spans)
      PROVE  /\ Cells(lines[k].spans[e], lines[k]) \in SUBSET (Nat \X Nat)
             /\ \A x, y \in Nat : <<x, y>> \in Cells(lines[k].spans[e], lines[k])
                   <=> lines[k].top <= y /\ y < lines[k].bottom /\ InSpan(lines[k].spans[e], x)
  <2>1. PICK t, b \in Nat : t = lines[k].top /\ b = lines[k].bottom /\ t < b
    BY <1>1, LineIs
  <2>2. GoRight(lines[k].spans)
    BY <1>1, LineIs
  <2>3. PICK l, u \in Nat : l = lines[k].spans[e].left /\ u = lines[k].spans[e].right /\ l < u
    BY <2>2, SpanIs
  <2>4. PICK r : r = MakeRect(l, t, u, b)
    OBVIOUS
  <2>5. IsRect(r) /\ r.left = l /\ r.top = t /\ r.right = u /\ r.bottom = b
    BY <2>1, <2>3, <2>4 DEF MakeRect, IsRect, RectSet
  <2>6. Cells(lines[k].spans[e], lines[k]) = CellsOf(r)
    BY <2>1, <2>3, <2>4
  <2>7. CellsOf(r) \in SUBSET (Nat \X Nat) /\ \A x, y \in Nat : <<x, y>> \in CellsOf(r) <=> InRect(r, x, y)
    BY <2>5, CellsAre
  <2>8. \A x, y \in Nat : InRect(r, x, y) <=> t <= y /\ y < b /\ l <= x /\ x < u
    BY <2>5 DEF InRect
  <2>. QED
    BY <2>1, <2>3, <2>6, <2>7, <2>8 DEF InSpan
<1>3. \A k \in 1 .. Len(lines) : DOMAIN lines[k].spans = 1 .. Len(lines[k].spans)
  BY <1>1, LineIs DEF GoRight
<1>4. \A p : p \in CellsOfRegion
         <=> \E k \in 1 .. Len(lines) : \E e \in 1 .. Len(lines[k].spans) :
                p \in Cells(lines[k].spans[e], lines[k])
  <2>1. \A p : p \in CellsOfRegion
           <=> \E line \in ToSet(lines) : \E s \in ToSet(line.spans) : p \in Cells(s, line)
    BY <1>1 DEF CellsOfRegion
  <2>. HIDE DEF Cells
  <2>2. ToSet(lines) = {lines[k] : k \in 1 .. Len(lines)}
    BY <1>1 DEF ToSet
  <2>3. \A k \in 1 .. Len(lines) :
           ToSet(lines[k].spans) = {lines[k].spans[e] : e \in 1 .. Len(lines[k].spans)}
    BY <1>3 DEF ToSet
  <2>4. \A p : p \in CellsOfRegion
           <=> \E k \in 1 .. Len(lines) : \E s \in ToSet(lines[k].spans) : p \in Cells(s, lines[k])
    BY <2>1, <2>2
  <2>5. ASSUME NEW p, NEW k \in 1 .. Len(lines)
        PROVE  (\E s \in ToSet(lines[k].spans) : p \in Cells(s, lines[k]))
                  <=> \E e \in 1 .. Len(lines[k].spans) : p \in Cells(lines[k].spans[e], lines[k])
    BY <2>3
  <2>. QED
    BY <2>4, <2>5
<1>. HIDE DEF Cells
<1>5. CellsOfRegion \in SUBSET (Nat \X Nat)
  BY <1>2, <1>4
<1>6. ASSUME NEW x \in Nat, NEW y \in Nat
      PROVE  <<x, y>> \in CellsOfRegion <=> <<x, y>> \in cells
  <2>1. <<x, y>> \in CellsOfRegion
           <=> \E k \in 1 .. Len(lines) : \E e \in 1 .. Len(lines[k].spans) :
                  lines[k].top <= y /\ y < lines[k].bottom /\ InSpan(lines[k].spans[e], x)
    BY <1>2, <1>4
  <2>2. <<x, y>> \in cells <=> FilledFrom(lines, 1, x, y)
    BY <1>1 DEF IsArea
  <2>. QED
    BY <2>1, <2>2 DEF FilledFrom, InLine, CoveredFrom
<1>7. cells \in SUBSET (Nat \X Nat)
  BY DEF IsArea
<1>. QED
  BY <1>5, <1>6, <1>7

\* GetRects covers each pixel of the area once.
LEMMA RectsPartition ==
  ASSUME IsArea(area, cells)
  PROVE  RectsPartitionTheRegion
<1>. SUFFICES ASSUME NEW deband \in BOOLEAN
              PROVE  LET rects == GetRects(area, deband)
                     IN  /\ UNION {CellsOf(r) : r \in ToSet(rects)} = cells
                         /\ \A i, j \in DOMAIN rects :
                              i # j => CellsOf(rects[i]) \cap CellsOf(rects[j]) = {}
  BY DEF RectsPartitionTheRegion
<1>1. PICK rects : rects = GetRects(area, deband)
  OBVIOUS
<1>2. Disjoint(rects) /\ \A x, y \in Nat : <<x, y>> \in cells <=> Covers(rects, x, y)
  BY <1>1, GetRectsIs
<1>3. /\ DOMAIN rects = 1 .. Len(rects)
      /\ \A i \in 1 .. Len(rects) : IsRect(rects[i])
      /\ \A i, j \in 1 .. Len(rects) : \A x, y \in Nat :
            InRect(rects[i], x, y) /\ InRect(rects[j], x, y) => i = j
  BY <1>2 DEF Disjoint
<1>4. \A i \in 1 .. Len(rects) :
         /\ CellsOf(rects[i]) \in SUBSET (Nat \X Nat)
         /\ \A x, y \in Nat : <<x, y>> \in CellsOf(rects[i]) <=> InRect(rects[i], x, y)
  BY <1>3, CellsAre
<1>5. \A p : p \in UNION {CellsOf(r) : r \in ToSet(rects)}
               <=> \E i \in 1 .. Len(rects) : p \in CellsOf(rects[i])
  BY <1>3 DEF ToSet
<1>6. UNION {CellsOf(r) : r \in ToSet(rects)} = cells
  <2>1. UNION {CellsOf(r) : r \in ToSet(rects)} \in SUBSET (Nat \X Nat)
    BY <1>4, <1>5
  <2>2. ASSUME NEW x \in Nat, NEW y \in Nat
        PROVE  <<x, y>> \in UNION {CellsOf(r) : r \in ToSet(rects)} <=> <<x, y>> \in cells
    <3>1. <<x, y>> \in UNION {CellsOf(r) : r \in ToSet(rects)}
             <=> \E i \in 1 .. Len(rects) : InRect(rects[i], x, y)
      BY <1>4, <1>5
    <3>. QED
      BY <3>1, <1>2 DEF Covers
  <2>3. cells \in SUBSET (Nat \X Nat)
    BY DEF IsArea
  <2>. QED
    BY <2>1, <2>2, <2>3
<1>7. ASSUME NEW i \in 1 .. Len(rects), NEW j \in 1 .. Len(rects), i # j
      PROVE  CellsOf(rects[i]) \cap CellsOf(rects[j]) = {}
  <2>1. CellsOf(rects[i]) \cap CellsOf(rects[j]) \in SUBSET (Nat \X Nat)
    BY <1>4
  <2>2. \A x, y \in Nat : <<x, y>> \notin CellsOf(rects[i]) \cap CellsOf(rects[j])
    BY <1>3, <1>4, <1>7
  <2>. QED
    BY <2>1, <2>2, PixelsHaveOne
<1>. QED
  BY <1>1, <1>3, <1>6, <1>7

\* The rectangles of the queries.
LEMMA InputsAre ==
  ASSUME NEW i \in Inputs, NEW r, r = NormalizeRect(i)
  PROVE  r = NoRect \/ IsRect(r)
<1>1. i \in RectSet
  BY RegionAssumption DEF RectSet
<1>. QED
  BY <1>1, NormalizedIs

\* The bounds of an area are the least rectangle around it.
LEMMA BoundsAreExact ==
  ASSUME IsArea(area, cells)
  PROVE  /\ cells \subseteq CellsOf(area.bounds)
         /\ \A r \in {NormalizeRect(i) : i \in Inputs} :
              cells \subseteq CellsOf(r) => IsEmptyRect(area.bounds) \/ ContainsRect(r, area.bounds)
<1>1. PICK b, c : b = area.bounds /\ c = cells /\ Frames(b, c) /\ c \in SUBSET (Nat \X Nat)
  BY DEF IsArea
<1>2. CASE c = {}
  <2>1. b = NoRect
    BY <1>1, <1>2 DEF Frames
  <2>. QED
    BY <2>1, <1>1, <1>2, NoRectIs
<1>3. CASE c # {}
  <2>1. /\ IsRect(b)
        /\ \A x, y \in Nat : <<x, y>> \in c => InRect(b, x, y)
        /\ \E y \in Nat : <<b.left, y>> \in c
        /\ \E y \in Nat : <<b.right - 1, y>> \in c
        /\ \E x \in Nat : <<x, b.top>> \in c
        /\ \E x \in Nat : <<x, b.bottom - 1>> \in c
    BY <1>1, <1>3 DEF Frames
  <2>2. c \subseteq CellsOf(b)
    <3>1. \A x, y \in Nat : <<x, y>> \in c => <<x, y>> \in CellsOf(b)
      BY <2>1, CellsAre
    <3>. QED
      BY <3>1, <1>1
  <2>3. ASSUME NEW i \in Inputs, NEW r, r = NormalizeRect(i), c \subseteq CellsOf(r)
        PROVE  ContainsRect(r, b)
    <3>1. IsRect(r)
      BY <2>3, <1>3, InputsAre, NoCells
    <3>2. \A x, y \in Nat : <<x, y>> \in c => InRect(r, x, y)
      BY <3>1, <2>3, CellsAre
    <3>3. PICK l, t, q, e \in Nat : l = b.left /\ t = b.top /\ q = b.right /\ e = b.bottom /\ l < q /\ t < e
      BY <2>1, RectIs
    <3>4. PICK l2, t2, q2, e2 \in Nat : l2 = r.left /\ t2 = r.top /\ q2 = r.right /\ e2 = r.bottom
      BY <3>1, RectIs
    <3>5. q - 1 \in Nat /\ e - 1 \in Nat
      BY <3>3
    <3>6. l2 <= l /\ q - 1 < q2 /\ t2 <= t /\ e - 1 < e2
      BY <3>2, <3>3, <3>4, <3>5, <2>1 DEF InRect
    <3>7. l2 <= l /\ q <= q2 /\ t2 <= t /\ e <= e2
      BY <3>3, <3>4, <3>6
    <3>. QED
      BY <3>3, <3>4, <3>7 DEF ContainsRect
  <2>. QED
    BY <2>2, <2>3, <1>1
<1>. QED
  BY <1>2, <1>3

\* In every reachable state, whatever the inputs and the threshold of the search, the region
\* is in canonical lines, has the pixels its caller asked for, and bounds exactly around them:
\* the invariant of SetRects, MakeUnion and MakeIntersection.
THEOREM RegionIsAnArea == AreaSpec => []IsArea(area, cells)
<1>1. AreaInit => IsArea(area, cells)
  BY AreaBegins
<1>2. IsArea(area, cells) /\ [AreaNext]_areaVars => IsArea(area, cells)'
  BY AreaIsKept
<1>. QED
  BY <1>1, <1>2, PTL DEF AreaSpec

\* The region has the pixels its caller asked for, its bounds are the least around them, and
\* GetRects partitions it, debanded or not.
THEOREM RegionIsRight == AreaSpec => []RegionIsTheArea
<1>1. IsArea(area, cells) => RegionIsTheArea
  BY CanonicalLines, LinesHaveTheCells, RectsPartition, BoundsAreExact DEF RegionIsTheArea
<1>. QED
  BY <1>1, RegionIsAnArea, PTL

\* Whether a rectangle or another region intersects the region is answered exactly, also when
\* the query begins with a binary search or skips lines.
THEOREM QueriesAreRight == AreaSpec => []QueriesAreExact
<1>1. ASSUME IsArea(area, cells) PROVE QueriesAreExact
  <2>1. ASSUME NEW r \in Inputs
        PROVE  IntersectsRect(area, r) <=> cells \cap CellsOf(NormalizeRect(r)) # {}
    <3>1. PICK q : q = NormalizeRect(r) /\ (q = NoRect \/ IsRect(q))
      BY InputsAre
    <3>. QED
      BY <3>1, <1>1, RectQueryIs
  <2>2. ASSUME NEW other \in Built
        PROVE  IntersectsRegion(area, other.region) <=> cells \cap other.cells # {}
    <3>1. PICK b, d : b = other.region /\ d = other.cells /\ IsArea(b, d)
      BY BuiltAre
    <3>. QED
      BY <3>1, <1>1, RegionQueryIs
  <2>. QED
    BY <2>1, <2>2 DEF QueriesAreExact
<1>. QED
  BY <1>1, RegionIsAnArea, PTL
=============================================================================

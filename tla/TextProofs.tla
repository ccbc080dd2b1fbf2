----------------------------- MODULE TextProofs -----------------------------
(***************************************************************************)
(* Proofs about the text that is drawn.                                    *)
(*                                                                         *)
(* AtlasBitmap, for bitmaps and glyphs of every size: the list of nodes is *)
(* a skyline, so that regions share no pixel; a glyph is refused only when *)
(* no column has room for it; what is not to be uploaded is on the         *)
(* texture.                                                                *)
(*                                                                         *)
(* TextAtlas, for any keys, any size of the groups and texts of any        *)
(* length: what a recorded draw samples is on its texture until the frame  *)
(* is flushed, although bitmaps are added, copied and moved.               *)
(*                                                                         *)
(* ScalerContexts, for any number of threads and typefaces: typefaces      *)
(* outlive what was made from them, what a call was given lives until it   *)
(* has read it, and images are read before they are replaced or freed.     *)
(***************************************************************************)
EXTENDS AtlasBitmap, TextAtlas, ScalerContexts, SequenceTheorems, Induction


-----------------------------------------------------------------------------
(* Rows of nodes, each of which begins where the one before ends           *)

Piece == [x : Nat, y : Rows, w : Nat \ {0}]

Edge(s, from, i) == IF i = 0 THEN from ELSE s[i].x + s[i].w

Row(s, from, to) ==
    /\ s \in Seq(Piece)
    /\ \A i \in 1 .. Len(s) : s[i].x = Edge(s, from, i - 1)
    /\ Edge(s, from, Len(s)) = to

Spans(n) == n.x .. n.x + n.w - 1

\* A row of nodes shows how far each column is filled.
Marks(s, sky) == \A i \in 1 .. Len(s) : \A c \in Spans(s[i]) : sky[c] = s[i].y

\* The edges of a row go up.
LEMMA EdgesGrow ==
  ASSUME NEW from \in Nat, NEW to, NEW s, Row(s, from, to)
  PROVE  /\ \A i \in 0 .. Len(s) : Edge(s, from, i) \in Nat
         /\ \A i, j \in 0 .. Len(s) : i < j => Edge(s, from, i) < Edge(s, from, j)
<1>1. s \in Seq(Piece) /\ Len(s) \in Nat
  BY DEF Row
<1>2. \A i \in 1 .. Len(s) : s[i] \in Piece
  BY <1>1
<1>3. ASSUME NEW i \in 0 .. Len(s) PROVE Edge(s, from, i) \in Nat
  BY <1>2 DEF Edge, Piece
<1>4. ASSUME NEW i \in 0 .. Len(s), i + 1 \in 0 .. Len(s)
      PROVE  Edge(s, from, i) < Edge(s, from, i + 1)
  <2>1. i + 1 \in 1 .. Len(s) /\ i + 1 # 0
    BY <1>4
  <2>2. s[i + 1] \in Piece /\ s[i + 1].x = Edge(s, from, i)
    BY <2>1, <1>2 DEF Row
  <2>. QED
    BY <2>1, <2>2, <1>3 DEF Edge, Piece
<1>. DEFINE I == {n \in Nat : \A i, j \in 0 .. Len(s) :
                     j = i + n + 1 => Edge(s, from, i) < Edge(s, from, j)}
<1>5. 0 \in I
  BY <1>4
<1>6. ASSUME NEW n \in Nat, n \in I PROVE n + 1 \in I
  <2>. SUFFICES ASSUME NEW i \in 0 .. Len(s), NEW j \in 0 .. Len(s), j = i + (n + 1) + 1
                PROVE  Edge(s, from, i) < Edge(s, from, j)
    OBVIOUS
  <2>1. j - 1 \in 0 .. Len(s) /\ j - 1 = i + n + 1 /\ (j - 1) + 1 = j
    BY <1>1
  <2>2. Edge(s, from, i) < Edge(s, from, j - 1)
    BY <2>1, <1>6
  <2>3. Edge(s, from, j - 1) < Edge(s, from, j)
    BY <2>1, <1>4
  <2>. QED
    BY <2>1, <2>2, <2>3, <1>3
<1>7. \A n \in Nat : n \in I
  <2>. HIDE DEF I
  <2>. QED BY <1>5, <1>6, SetInduction
<1>8. ASSUME NEW i \in 0 .. Len(s), NEW j \in 0 .. Len(s), i < j
      PROVE  Edge(s, from, i) < Edge(s, from, j)
  <2>1. (j - i) - 1 \in Nat /\ j = i + ((j - i) - 1) + 1
    BY <1>1, <1>8
  <2>. QED
    BY <2>1, <1>7
<1>. QED
  BY <1>3, <1>8

\* What is known of the nodes of a row.
LEMMA NodesOfRow ==
  ASSUME NEW from \in Nat, NEW to, NEW s, Row(s, from, to)
  PROVE  /\ Len(s) \in Nat /\ DOMAIN s = 1 .. Len(s) /\ to \in Nat /\ from <= to
         /\ \A i \in 1 .. Len(s) :
               /\ s[i].x \in Nat /\ s[i].y \in Rows /\ s[i].w \in Nat \ {0}
               /\ s[i] = [x |-> s[i].x, y |-> s[i].y, w |-> s[i].w]
               /\ from <= s[i].x /\ s[i].x + s[i].w <= to
         /\ \A i, j \in 1 .. Len(s) : i < j => s[i].x + s[i].w <= s[j].x
<1>1. s \in Seq(Piece) /\ Len(s) \in Nat /\ DOMAIN s = 1 .. Len(s)
  BY DEF Row
<1>2. \A i \in 0 .. Len(s) : Edge(s, from, i) \in Nat
  BY EdgesGrow
<1>3. \A i, j \in 0 .. Len(s) : i <= j => Edge(s, from, i) <= Edge(s, from, j)
  BY <1>1, <1>2, EdgesGrow
<1>4. to \in Nat /\ from <= to /\ Edge(s, from, 0) = from /\ Edge(s, from, Len(s)) = to
  <2>1. Edge(s, from, 0) = from /\ Edge(s, from, Len(s)) = to
    BY DEF Edge, Row
  <2>2. 0 \in 0 .. Len(s) /\ Len(s) \in 0 .. Len(s) /\ 0 <= Len(s)
    BY <1>1
  <2>. QED
    BY <2>1, <2>2, <1>2, <1>3
<1>5. ASSUME NEW i \in 1 .. Len(s)
      PROVE  /\ s[i] \in Piece
             /\ s[i].x = Edge(s, from, i - 1) /\ s[i].x + s[i].w = Edge(s, from, i)
             /\ i - 1 \in 0 .. Len(s) /\ i \in 0 .. Len(s)
  BY <1>1 DEF Edge, Row
<1>6. ASSUME NEW i \in 1 .. Len(s) PROVE from <= s[i].x /\ s[i].x + s[i].w <= to
  <2>1. 0 <= i - 1 /\ i <= Len(s) /\ 0 \in 0 .. Len(s) /\ Len(s) \in 0 .. Len(s)
    BY <1>1
  <2>. QED
    BY <2>1, <1>3, <1>4, <1>5
<1>7. ASSUME NEW i \in 1 .. Len(s), NEW j \in 1 .. Len(s), i < j
      PROVE  s[i].x + s[i].w <= s[j].x
  <2>1. i <= j - 1
    BY <1>7
  <2>. QED
    BY <2>1, <1>3, <1>5
<1>. QED
  BY <1>1, <1>4, <1>5, <1>6, <1>7 DEF Piece

\* The nodes of a row leave no gap.
LEMMA RowsHaveNoGaps ==
  ASSUME NEW from \in Nat, NEW to, NEW s, Row(s, from, to), NEW c \in from .. to - 1
  PROVE  \E i \in 1 .. Len(s) : c \in Spans(s[i])
<1>1. Len(s) \in Nat /\ to \in Nat /\ \A i \in 0 .. Len(s) : Edge(s, from, i) \in Nat
  BY NodesOfRow, EdgesGrow
<1>. DEFINE beyond == {i \in 0 .. Len(s) : c < Edge(s, from, i)}
<1>2. Len(s) \in beyond
  BY <1>1 DEF Row
<1>3. PICK k \in beyond : \A l \in beyond : k <= l
  <2>1. beyond \in SUBSET Nat /\ beyond # {}
    BY <1>1, <1>2
  <2>. HIDE DEF beyond
  <2>. QED
    BY <2>1, SmallestExists
<1>4. k # 0 /\ k \in 1 .. Len(s) /\ k - 1 \in 0 .. Len(s)
  BY <1>1 DEF Edge
<1>5. Edge(s, from, k - 1) <= c
  <2>1. k - 1 \notin beyond
    BY <1>3, <1>4
  <2>. QED
    BY <2>1, <1>1, <1>4
<1>6. s[k].x <= c /\ c < s[k].x + s[k].w
  BY <1>4, <1>5 DEF Row, Edge
<1>7. s[k].x \in Nat /\ s[k].w \in Nat
  BY <1>4, NodesOfRow
<1>. QED
  BY <1>4, <1>6, <1>7 DEF Spans

\* Two rows end to end are a row.
LEMMA ConcatRows ==
  ASSUME NEW from \in Nat, NEW mid, NEW to, NEW a, NEW b, Row(a, from, mid), Row(b, mid, to),
         NEW sky, Marks(a, sky), Marks(b, sky)
  PROVE  Row(a \o b, from, to) /\ Marks(a \o b, sky)
<1>1. /\ a \in Seq(Piece) /\ b \in Seq(Piece) /\ Len(a) \in Nat /\ Len(b) \in Nat
      /\ mid \in Nat /\ to \in Nat
  <2>1. mid \in Nat /\ Len(a) \in Nat
    BY NodesOfRow
  <2>2. to \in Nat /\ Len(b) \in Nat
    BY <2>1, NodesOfRow
  <2>. QED
    BY <2>1, <2>2 DEF Row
<1>. DEFINE s == a \o b
<1>2. /\ s \in Seq(Piece) /\ Len(s) = Len(a) + Len(b)
      /\ \A i \in 1 .. Len(a) : s[i] = a[i]
      /\ \A i \in 1 .. Len(b) : s[Len(a) + i] = b[i]
  BY <1>1
<1>3. \A i \in 1 .. Len(s) : \/ i \in 1 .. Len(a)
                             \/ i - Len(a) \in 1 .. Len(b) /\ i = Len(a) + (i - Len(a))
  BY <1>1, <1>2
<1>. HIDE DEF s
<1>4. ASSUME NEW i \in 0 .. Len(a) PROVE Edge(s, from, i) = Edge(a, from, i)
  BY <1>2, <1>4 DEF Edge
<1>5. Edge(s, from, Len(a)) = mid
  <2>1. Len(a) \in 0 .. Len(a)
    BY <1>1
  <2>. QED
    BY <2>1, <1>4 DEF Row
<1>6. ASSUME NEW i \in 0 .. Len(b) PROVE Edge(s, from, Len(a) + i) = Edge(b, mid, i)
  <2>1. CASE i = 0
    BY <2>1, <1>5, <1>1 DEF Edge
  <2>2. CASE i # 0
    <3>1. i \in 1 .. Len(b) /\ Len(a) + i # 0
      BY <2>2, <1>1
    <3>. QED
      BY <3>1, <2>2, <1>2 DEF Edge
  <2>. QED
    BY <2>1, <2>2
<1>7. ASSUME NEW i \in 1 .. Len(s) PROVE s[i].x = Edge(s, from, i - 1)
  <2>1. CASE i \in 1 .. Len(a)
    <3>1. i - 1 \in 0 .. Len(a)
      BY <2>1
    <3>. QED
      BY <3>1, <2>1, <1>2, <1>4 DEF Row
  <2>2. CASE i - Len(a) \in 1 .. Len(b) /\ i = Len(a) + (i - Len(a))
    <3>. DEFINE j == i - Len(a)
    <3>1. j - 1 \in 0 .. Len(b) /\ i - 1 = Len(a) + (j - 1) /\ j \in 1 .. Len(b) /\ i = Len(a) + j
      BY <2>2, <1>1
    <3>. HIDE DEF j
    <3>2. s[i] = b[j] /\ b[j].x = Edge(b, mid, j - 1)
      BY <3>1, <1>2 DEF Row
    <3>3. Edge(s, from, i - 1) = Edge(b, mid, j - 1)
      BY <3>1, <1>6
    <3>. QED
      BY <3>2, <3>3
  <2>. QED
    BY <2>1, <2>2, <1>3
<1>8. Edge(s, from, Len(s)) = to
  <2>1. Len(b) \in 0 .. Len(b)
    BY <1>1
  <2>. QED
    BY <2>1, <1>2, <1>6 DEF Row
<1>9. ASSUME NEW i \in 1 .. Len(s), NEW c \in Spans(s[i]) PROVE sky[c] = s[i].y
  <2>1. CASE i \in 1 .. Len(a)
    BY <2>1, <1>2 DEF Marks
  <2>2. CASE i - Len(a) \in 1 .. Len(b) /\ i = Len(a) + (i - Len(a))
    <3>1. s[i] = b[i - Len(a)]
      BY <2>2, <1>2
    <3>. QED
      BY <3>1, <2>2 DEF Marks
  <2>. QED
    BY <2>1, <2>2, <1>3
<1>. QED
  BY <1>2, <1>7, <1>8, <1>9 DEF Row, Marks, s

\* A row cut before one of its nodes is two rows.
LEMMA Slices ==
  ASSUME NEW from \in Nat, NEW to, NEW s, Row(s, from, to), NEW k \in 0 .. Len(s)
  PROVE  /\ Row(SubSeq(s, 1, k), from, Edge(s, from, k))
         /\ Row(SubSeq(s, k + 1, Len(s)), Edge(s, from, k), to)
         /\ \A sky : Marks(s, sky) => /\ Marks(SubSeq(s, 1, k), sky)
                                      /\ Marks(SubSeq(s, k + 1, Len(s)), sky)
<1>1. s \in Seq(Piece) /\ Len(s) \in Nat /\ k \in Nat /\ k <= Len(s)
  BY DEF Row
<1>. DEFINE a == SubSeq(s, 1, k)
            b == SubSeq(s, k + 1, Len(s))
<1>2. /\ a \in Seq(Piece) /\ Len(a) = k
      /\ \A i \in 1 .. k : a[i] = s[i]
  BY <1>1
<1>3. /\ b \in Seq(Piece) /\ Len(b) = Len(s) - k
      /\ \A i \in 1 .. Len(s) - k : b[i] = s[k + i] /\ k + i \in 1 .. Len(s)
  BY <1>1
<1>. HIDE DEF a, b
<1>4. \A i \in 0 .. k : Edge(a, from, i) = Edge(s, from, i)
  BY <1>1, <1>2 DEF Edge
<1>5. \A i \in 1 .. k : i - 1 \in 0 .. k /\ i \in 1 .. Len(s)
  BY <1>1
<1>6. Row(a, from, Edge(s, from, k))
  <2>1. \A i \in 1 .. k : a[i].x = Edge(a, from, i - 1)
    BY <1>2, <1>4, <1>5 DEF Row
  <2>2. k \in 0 .. k
    BY <1>1
  <2>. QED
    BY <2>1, <2>2, <1>2, <1>4 DEF Row
<1>7. ASSUME NEW i \in 0 .. Len(s) - k PROVE Edge(b, Edge(s, from, k), i) = Edge(s, from, k + i)
  <2>1. CASE i = 0
    BY <2>1, <1>1 DEF Edge
  <2>2. CASE i # 0
    <3>1. i \in 1 .. Len(s) - k /\ k + i # 0
      BY <2>2, <1>1
    <3>. QED
      BY <3>1, <2>2, <1>3 DEF Edge
  <2>. QED
    BY <2>1, <2>2
<1>8. Row(b, Edge(s, from, k), to)
  <2>1. ASSUME NEW i \in 1 .. Len(s) - k PROVE b[i].x = Edge(b, Edge(s, from, k), i - 1)
    <3>1. i - 1 \in 0 .. Len(s) - k /\ k + (i - 1) = (k + i) - 1
      BY <1>1
    <3>2. b[i].x = Edge(s, from, (k + i) - 1)
      BY <1>3 DEF Row
    <3>. QED
      BY <3>1, <3>2, <1>7
  <2>2. Len(s) - k \in 0 .. Len(s) - k /\ k + (Len(s) - k) = Len(s)
    BY <1>1
  <2>. QED
    BY <2>1, <2>2, <1>3, <1>7 DEF Row
<1>9. ASSUME NEW sky, Marks(s, sky) PROVE Marks(a, sky) /\ Marks(b, sky)
  <2>1. ASSUME NEW i \in 1 .. Len(a), NEW c \in Spans(a[i]) PROVE sky[c] = a[i].y
    <3>1. a[i] = s[i] /\ i \in 1 .. Len(s)
      BY <1>2, <1>5
    <3>. QED
      BY <3>1, <1>9 DEF Marks
  <2>2. ASSUME NEW i \in 1 .. Len(b), NEW c \in Spans(b[i]) PROVE sky[c] = b[i].y
    <3>1. b[i] = s[k + i] /\ k + i \in 1 .. Len(s)
      BY <1>3
    <3>. QED
      BY <3>1, <1>9 DEF Marks
  <2>. QED
    BY <2>1, <2>2 DEF Marks
<1>. QED
  BY <1>6, <1>8, <1>9 DEF a, b

\* One node is a row.
LEMMA SingleRow ==
  ASSUME NEW n \in Piece
  PROVE  Row(<<n>>, n.x, n.x + n.w)
         /\ \A sky : (\A c \in Spans(n) : sky[c] = n.y) => Marks(<<n>>, sky)
  BY DEF Row, Edge, Marks, Piece

\* Shrinking cuts from a row what a new node covers.
LEMMA Following ==
  ASSUME NEW from \in Nat, NEW to, NEW s, Row(s, from, to),
         NEW edge \in from .. to, NEW old, NEW sky, Marks(s, old),
         \A c \in edge .. to - 1 : sky[c] = old[c]
  PROVE  Row(ShrinkFollowing(s, edge), edge, to) /\ Marks(ShrinkFollowing(s, edge), sky)
<1>1. /\ s \in Seq(Piece) /\ Len(s) \in Nat /\ DOMAIN s = 1 .. Len(s)
      /\ to \in Nat /\ from <= to /\ edge \in Nat /\ from <= edge /\ edge <= to
  BY NodesOfRow DEF Row
<1>2. /\ \A i \in 0 .. Len(s) : Edge(s, from, i) \in Nat
      /\ \A i \in 1 .. Len(s) : /\ s[i].x = Edge(s, from, i - 1) /\ s[i].x + s[i].w = Edge(s, from, i)
                                /\ i \in 0 .. Len(s) /\ i - 1 \in 0 .. Len(s)
                                /\ s[i].x \in Nat /\ s[i].y \in Rows /\ s[i].w \in Nat \ {0}
                                /\ s[i] = [x |-> s[i].x, y |-> s[i].y, w |-> s[i].w]
  <2>1. \A i \in 0 .. Len(s) : Edge(s, from, i) \in Nat
    BY EdgesGrow
  <2>2. ASSUME NEW i \in 1 .. Len(s)
        PROVE  /\ s[i].x = Edge(s, from, i - 1) /\ s[i].x + s[i].w = Edge(s, from, i)
               /\ i \in 0 .. Len(s) /\ i - 1 \in 0 .. Len(s)
    BY DEF Row, Edge
  <2>3. ASSUME NEW i \in 1 .. Len(s)
        PROVE  /\ s[i].x \in Nat /\ s[i].y \in Rows /\ s[i].w \in Nat \ {0}
               /\ s[i] = [x |-> s[i].x, y |-> s[i].y, w |-> s[i].w]
    <3>1. s[i] \in Piece
      BY <1>1
    <3>. QED
      BY <3>1 DEF Piece
  <2>. QED
    BY <2>1, <2>2, <2>3
<1>3. ASSUME NEW i \in 1 .. Len(s)
      PROVE  Shrink(s[i], edge).w > 0 <=> Edge(s, from, i) > edge
  BY <1>1, <1>2 DEF Shrink
<1>. DEFINE kept == {k \in DOMAIN s : Shrink(s[k], edge).w > 0}
<1>4. kept = {k \in 1 .. Len(s) : Edge(s, from, k) > edge}
  BY <1>1, <1>3
<1>5. ShrinkFollowing(s, edge) =
         IF kept = {} THEN <<>>
         ELSE <<Shrink(s[CHOOSE k \in kept : \A l \in kept : k <= l], edge)>>
              \o SubSeq(s, (CHOOSE k \in kept : \A l \in kept : k <= l) + 1, Len(s))
  BY DEF ShrinkFollowing
<1>. HIDE DEF kept
<1>6. CASE kept = {}
  <2>1. edge = to
    <3>1. CASE Len(s) = 0
      BY <3>1, <1>1 DEF Row, Edge
    <3>2. CASE Len(s) # 0
      <4>1. Len(s) \in 1 .. Len(s) /\ Edge(s, from, Len(s)) = to
        BY <3>2, <1>1 DEF Row
      <4>2. ~(to > edge)
        BY <4>1, <1>4, <1>6
      <4>. QED
        BY <4>2, <1>1
    <3>. QED
      BY <3>1, <3>2
  <2>2. Row(<<>>, edge, to) /\ Marks(<<>>, sky)
    BY <2>1 DEF Row, Marks, Edge
  <2>. QED
    BY <2>2, <1>5, <1>6
<1>7. CASE kept # {}
  <2>. DEFINE k == CHOOSE k \in kept : \A l \in kept : k <= l
  <2>1. k \in kept /\ \A l \in kept : k <= l
    <3>1. kept \in SUBSET Nat
      BY <1>1, <1>4
    <3>2. \E m \in kept : \A l \in kept : m <= l
      BY <3>1, <1>7, SmallestExists
    <3>. QED
      BY <3>2
  <2>2. ShrinkFollowing(s, edge) = <<Shrink(s[k], edge)>> \o SubSeq(s, k + 1, Len(s))
    BY <1>5, <1>7
  <2>. HIDE DEF k
  <2>3. k \in 1 .. Len(s) /\ k \in 0 .. Len(s) /\ Edge(s, from, k) > edge
    BY <2>1, <1>4
  <2>4. s[k].x <= edge
    <3>1. CASE k = 1
      BY <3>1, <2>3, <1>1 DEF Row, Edge
    <3>2. CASE k # 1
      <4>1. k - 1 \in 1 .. Len(s) /\ k - 1 \notin kept
        BY <3>2, <2>1, <2>3, <1>1
      <4>. QED
        BY <4>1, <2>3, <1>1, <1>2, <1>4
    <3>. QED
      BY <3>1, <3>2
  <2>. DEFINE n == [x |-> edge, y |-> s[k].y, w |-> s[k].x + s[k].w - edge]
  <2>5. Shrink(s[k], edge) = n
    <3>1. CASE s[k].x < edge
      BY <3>1 DEF Shrink
    <3>2. CASE s[k].x = edge
      <4>1. s[k].w = s[k].x + s[k].w - edge
        BY <3>2, <2>3, <1>1, <1>2
      <4>. QED
        BY <4>1, <3>2, <2>3, <1>1, <1>2 DEF Shrink
    <3>. QED
      BY <3>1, <3>2, <2>3, <2>4, <1>1, <1>2
  <2>6. n \in Piece /\ n.x = edge /\ n.x + n.w = Edge(s, from, k)
    BY <2>3, <1>1, <1>2 DEF Piece
  <2>7. Edge(s, from, k) <= to
    <3>1. s[k].x + s[k].w <= to
      BY <2>3, NodesOfRow
    <3>. QED
      BY <3>1, <2>3, <1>2
  <2>8. Row(<<n>>, edge, Edge(s, from, k)) /\ Marks(<<n>>, sky)
    <3>1. ASSUME NEW c \in Spans(n) PROVE sky[c] = n.y
      <4>1. c \in edge .. to - 1 /\ c \in Spans(s[k])
        BY <2>3, <2>4, <2>6, <2>7, <1>1, <1>2 DEF Spans
      <4>. QED
        BY <4>1, <2>3 DEF Marks
    <3>. QED
      BY <3>1, <2>6, SingleRow
  <2>. DEFINE b == SubSeq(s, k + 1, Len(s))
  <2>9. Row(b, Edge(s, from, k), to) /\ Marks(b, sky)
    <3>1. Row(b, Edge(s, from, k), to) /\ Marks(b, old)
      BY <2>3, Slices
    <3>. HIDE DEF b
    <3>2. ASSUME NEW i \in 1 .. Len(b), NEW c \in Spans(b[i]) PROVE sky[c] = b[i].y
      <4>1. Edge(s, from, k) \in Nat
        BY <2>3, <1>2
      <4>2. Edge(s, from, k) <= b[i].x /\ b[i].x + b[i].w <= to /\ b[i].x \in Nat /\ b[i].w \in Nat
        BY <3>1, <4>1, NodesOfRow
      <4>3. edge \in Nat /\ to \in Nat /\ edge <= Edge(s, from, k)
        BY <4>1, <2>3, <1>1
      <4>4. PICK x \in Nat, w \in Nat : x = b[i].x /\ w = b[i].w
        BY <4>2
      <4>5. edge <= x /\ x + w <= to
        BY <4>1, <4>2, <4>3, <4>4
      <4>6. c \in x .. x + w - 1
        BY <4>4 DEF Spans
      <4>7. c \in edge .. to - 1
        BY <4>3, <4>5, <4>6
      <4>. QED
        BY <3>1, <4>7 DEF Marks
    <3>. QED
      BY <3>1, <3>2 DEF Marks
  <2>. HIDE DEF n, b
  <2>10. Row(<<n>> \o b, edge, to) /\ Marks(<<n>> \o b, sky)
    BY <2>8, <2>9, <1>1, ConcatRows
  <2>. QED
    BY <2>2, <2>5, <2>10 DEF b
<1>. QED
  BY <1>6, <1>7

-----------------------------------------------------------------------------
(* The heights of a row, whichever list shows them                         *)

\* SkylineOf, of any list of nodes.
HeightAt(s, c) == LET i == CHOOSE i \in DOMAIN s : /\ s[i].x <= c
                                                   /\ c < s[i].x + s[i].w
                  IN  s[i].y

\* One node is over each column, and the height of the column is its y.
LEMMA HeightOfNode ==
  ASSUME NEW from \in Nat, NEW to, NEW s, Row(s, from, to),
         NEW i \in 1 .. Len(s), NEW c \in Spans(s[i])
  PROVE  HeightAt(s, c) = s[i].y
<1>1. Len(s) \in Nat /\ DOMAIN s = 1 .. Len(s)
  BY NodesOfRow
<1>2. \A j \in 1 .. Len(s) : s[j].x \in Nat /\ s[j].w \in Nat
  BY NodesOfRow
<1>3. \A j, k \in 1 .. Len(s) : j < k => s[j].x + s[j].w <= s[k].x
  BY NodesOfRow
<1>4. i \in DOMAIN s /\ s[i].x <= c /\ c < s[i].x + s[i].w /\ c \in Int
  BY <1>1, <1>2 DEF Spans
<1>5. ASSUME NEW j \in DOMAIN s, s[j].x <= c, c < s[j].x + s[j].w PROVE j = i
  <2>1. ~(j < i) /\ ~(i < j)
    BY <1>1, <1>2, <1>3, <1>4, <1>5, SMTT(40)
  <2>. QED
    BY <2>1, <1>1
<1>6. (CHOOSE j \in DOMAIN s : s[j].x <= c /\ c < s[j].x + s[j].w) = i
  BY <1>4, <1>5
<1>. QED
  BY <1>6 DEF HeightAt

\* A row shows its own heights.
LEMMA RowsShowHeights ==
  ASSUME NEW from \in Nat, NEW to, NEW s, Row(s, from, to)
  PROVE  /\ Marks(s, [c \in from .. to - 1 |-> HeightAt(s, c)])
         /\ \A c \in from .. to - 1 : HeightAt(s, c) \in Rows
<1>1. Len(s) \in Nat /\ to \in Nat
  BY NodesOfRow
<1>2. \A i \in 1 .. Len(s) : /\ s[i].x \in Nat /\ s[i].w \in Nat /\ s[i].y \in Rows
                             /\ from <= s[i].x /\ s[i].x + s[i].w <= to
  BY NodesOfRow
<1>3. ASSUME NEW i \in 1 .. Len(s), NEW c \in Spans(s[i])
      PROVE  [k \in from .. to - 1 |-> HeightAt(s, k)][c] = s[i].y
  <2>1. c \in from .. to - 1
    BY <1>1, <1>2 DEF Spans
  <2>2. HeightAt(s, c) = s[i].y
    BY HeightOfNode
  <2>. QED
    BY <2>1, <2>2
<1>4. ASSUME NEW c \in from .. to - 1 PROVE HeightAt(s, c) \in Rows
  <2>1. PICK i \in 1 .. Len(s) : c \in Spans(s[i])
    BY RowsHaveNoGaps
  <2>2. HeightAt(s, c) = s[i].y
    BY <2>1, HeightOfNode
  <2>. QED
    BY <2>2, <1>2
<1>. QED
  BY <1>3, <1>4 DEF Marks

\* What a row shows are its heights.
LEMMA ShownIsHeight ==
  ASSUME NEW from \in Nat, NEW to, NEW s, Row(s, from, to), NEW sky, Marks(s, sky),
         NEW c \in from .. to - 1
  PROVE  HeightAt(s, c) = sky[c]
<1>1. PICK i \in 1 .. Len(s) : c \in Spans(s[i])
  BY RowsHaveNoGaps
<1>2. HeightAt(s, c) = s[i].y
  BY <1>1, HeightOfNode
<1>. QED
  BY <1>1, <1>2 DEF Marks

-----------------------------------------------------------------------------
(* Merging                                                                 *)

Joined == [nodes : Seq(Piece), joined : BOOLEAN]

\* A node joined to the end of a row makes it longer.
LEMMA JoinLengthens ==
  ASSUME NEW from \in Nat, NEW acc \in Joined, NEW n \in Piece, NEW sky,
         Row(acc.nodes, from, n.x), Marks(acc.nodes, sky),
         \A c \in Spans(n) : sky[c] = n.y
  PROVE  /\ Row(Join(acc, n).nodes, from, n.x + n.w)
         /\ Marks(Join(acc, n).nodes, sky)
<1>. DEFINE s == acc.nodes
            last == Len(s)
<1>1. s \in Seq(Piece) /\ last \in Nat /\ n.x \in Nat /\ n.y \in Rows /\ n.w \in Nat \ {0}
  BY DEF Joined, Piece
<1>2. Row(s, from, n.x) /\ Marks(s, sky)
  OBVIOUS
<1>3. \/ Join(acc, n).nodes = Append(s, n)
      \/ last > 0 /\ s[last].y = n.y /\ Join(acc, n).nodes = [s EXCEPT ![last].w = @ + n.w]
  BY DEF Join
<1>. HIDE DEF s
<1>4. CASE Join(acc, n).nodes = Append(s, n)
  <2>1. Append(s, n) = s \o <<n>>
    BY <1>1, AppendIsConcat
  <2>2. Row(<<n>>, n.x, n.x + n.w) /\ Marks(<<n>>, sky)
    BY SingleRow
  <2>3. Row(s \o <<n>>, from, n.x + n.w) /\ Marks(s \o <<n>>, sky)
    BY <1>2, <2>2, ConcatRows
  <2>. QED
    BY <1>4, <2>1, <2>3
<1>5. CASE last > 0 /\ s[last].y = n.y /\ Join(acc, n).nodes = [s EXCEPT ![last].w = @ + n.w]
  <2>. DEFINE m == [s[last] EXCEPT !.w = @ + n.w]
  <2>1. last \in 1 .. Len(s) /\ s[last] \in Piece
    BY <1>1, <1>5
  <2>2. m \in Piece /\ m.x = s[last].x /\ m.y = s[last].y /\ m.w = s[last].w + n.w
    BY <2>1, <1>1, SMTT(40) DEF Piece
  <2>3. [s EXCEPT ![last].w = @ + n.w] = [s EXCEPT ![last] = m]
    OBVIOUS
  <2>. HIDE DEF m
  <2>. DEFINE t == [s EXCEPT ![last] = m]
  <2>4. /\ t \in Seq(Piece) /\ Len(t) = Len(s) /\ t[last] = m
        /\ \A i \in 1 .. Len(s) : i # last => t[i] = s[i]
    BY <1>1, <2>1, <2>2
  <2>. HIDE DEF t
  <2>5. /\ s[last].x + s[last].w = n.x /\ s[last].x \in Nat /\ s[last].w \in Nat
    BY <2>1, <1>2 DEF Row, Edge, Piece
  <2>6. m.x + m.w = n.x + n.w
    BY <2>2, <2>5, <1>1
  <2>7. Edge(t, from, Len(t)) = n.x + n.w
    BY <2>1, <2>4, <2>6 DEF Edge
  <2>8. ASSUME NEW i \in 1 .. Len(t) PROVE t[i].x = Edge(t, from, i - 1)
    <3>1. i \in 1 .. last /\ t[i].x = s[i].x
      BY <2>2, <2>4
    <3>2. i - 1 = 0 \/ (i - 1 \in 1 .. Len(s) /\ i - 1 # last)
      BY <3>1, <1>1
    <3>3. Edge(t, from, i - 1) = Edge(s, from, i - 1)
      BY <3>2, <2>4 DEF Edge
    <3>. QED
      BY <3>1, <3>3, <1>2 DEF Row
  <2>9. ASSUME NEW i \in 1 .. Len(t), NEW c \in Spans(t[i]) PROVE sky[c] = t[i].y
    <3>1. CASE i # last
      BY <3>1, <2>4, <1>2 DEF Marks
    <3>2. CASE i = last
      <4>1. c \in s[last].x .. s[last].x + (s[last].w + n.w) - 1
        BY <3>2, <2>2, <2>4 DEF Spans
      <4>2. c \in Spans(s[last]) \/ c \in Spans(n)
        <5>1. \A p, q, l \in Nat : \A j \in p .. p + (q + l) - 1 :
                 j \in p .. p + q - 1 \/ j \in p + q .. p + q + l - 1
          OBVIOUS
        <5>. QED
          BY <5>1, <4>1, <2>5, <1>1 DEF Spans
      <4>. QED
        BY <4>2, <3>2, <2>1, <2>2, <2>4, <1>2, <1>5 DEF Marks
    <3>. QED
      BY <3>1, <3>2
  <2>10. Join(acc, n).nodes = t
    BY <1>5, <2>3 DEF t, m
  <2>. QED
    BY <2>4, <2>7, <2>8, <2>9, <2>10 DEF Row, Marks
<1>. QED
  BY <1>3, <1>4, <1>5

\* Merging changes the list of nodes, not what it shows.
LEMMA Merging ==
  ASSUME NEW from \in Nat, NEW to, NEW s, Row(s, from, to), NEW sky, Marks(s, sky)
  PROVE  Row(MergeNodes(s), from, to) /\ Marks(MergeNodes(s), sky)
<1>1. s \in Seq(Piece) /\ Len(s) \in Nat
  BY DEF Row
<1>. DEFINE none == [nodes |-> <<>>, joined |-> FALSE]
            step == [a \in (1 .. Len(s)) \X Joined |-> Join(a[2], s[a[1]])]
<1>2. none \in Joined
  BY DEF Joined
<1>3. ASSUME NEW acc \in Joined, NEW n \in Piece PROVE Join(acc, n) \in Joined
  <2>. DEFINE last == Len(acc.nodes)
  <2>1. acc.nodes \in Seq(Piece) /\ last \in Nat
    BY DEF Joined
  <2>2. CASE last > 0 /\ ~acc.joined /\ acc.nodes[last].y = n.y
    <3>. DEFINE m == [acc.nodes[last] EXCEPT !.w = @ + n.w]
    <3>1. acc.nodes[last] \in Piece /\ last \in 1 .. Len(acc.nodes)
      BY <2>1, <2>2
    <3>2. m \in Piece
      BY <3>1 DEF Piece
    <3>3. [acc.nodes EXCEPT ![last].w = @ + n.w] = [acc.nodes EXCEPT ![last] = m]
      OBVIOUS
    <3>. HIDE DEF m
    <3>4. [acc.nodes EXCEPT ![last] = m] \in Seq(Piece)
      BY <2>1, <3>1, <3>2
    <3>. QED
      BY <2>2, <3>3, <3>4 DEF Join, Joined
  <2>3. CASE ~(last > 0 /\ ~acc.joined /\ acc.nodes[last].y = n.y)
    BY <2>1, <2>3 DEF Join, Joined
  <2>. QED
    BY <2>2, <2>3
<1>4. \A i \in 1 .. Len(s), acc \in Joined : step[<<i, acc>>] = Join(acc, s[i])
  OBVIOUS
<1>5. \A i \in 0 .. Len(s), acc \in Joined : i # 0 => step[<<i, acc>>] \in Joined
  <2>1. \A i \in 0 .. Len(s) : i # 0 => i \in 1 .. Len(s) /\ s[i] \in Piece
    BY <1>1
  <2>. QED
    BY <2>1, <1>3, <1>4
<1>. HIDE DEF none, step
<1>6. PICK f \in [0 .. Len(s) -> Joined] : Recurs(f, 0, Len(s), none, step)
  <2>1. 0 \in Int /\ Len(s) \in Int
    BY <1>1
  <2>. QED
    BY <2>1, <1>2, <1>5, RecursionDefines, Zenon
<1>7. f = [k \in 0 .. Len(s) |-> IF k = 0 THEN none ELSE Join(f[k - 1], s[k])]
  <2>1. ASSUME NEW k \in 0 .. Len(s), k # 0 PROVE step[<<k, f[k - 1]>>] = Join(f[k - 1], s[k])
    <3>1. k \in 1 .. Len(s) /\ k - 1 \in 0 .. Len(s)
      BY <2>1, <1>1
    <3>. QED
      BY <3>1, <1>4
  <2>. QED
    BY <1>6, <2>1 DEF Recurs
<1>. DEFINE Defines(g) == g = [k \in 0 .. Len(s) |-> IF k = 0 THEN none ELSE Join(g[k - 1], s[k])]
            merged == CHOOSE g : Defines(g)
<1>8. MergeNodes(s) = merged[Len(s)].nodes
  BY DEF MergeNodes, none
<1>9. Defines(merged)
  BY <1>7
<1>. HIDE DEF merged
<1>10. /\ merged[0] = none
       /\ \A k \in 1 .. Len(s) : merged[k] = Join(merged[k - 1], s[k])
  <2>1. \A k \in 1 .. Len(s) : k \in 0 .. Len(s) /\ k # 0
    OBVIOUS
  <2>2. 0 \in 0 .. Len(s)
    BY <1>1
  <2>. QED
    BY <2>1, <2>2, <1>9
<1>. HIDE DEF Defines
<1>. DEFINE I == {k \in Nat : k <= Len(s) => /\ merged[k] \in Joined
                                             /\ Row(merged[k].nodes, from, Edge(s, from, k))
                                             /\ Marks(merged[k].nodes, sky)}
<1>11. 0 \in I
  <2>1. merged[0] = none /\ none.nodes = <<>>
    BY <1>10 DEF none
  <2>2. Row(<<>>, from, Edge(s, from, 0)) /\ Marks(<<>>, sky)
    BY DEF Row, Edge, Marks
  <2>. QED
    BY <2>1, <2>2, <1>2
<1>12. ASSUME NEW k \in Nat, k \in I PROVE k + 1 \in I
  <2>. SUFFICES ASSUME k + 1 <= Len(s)
                PROVE  /\ merged[k + 1] \in Joined
                       /\ Row(merged[k + 1].nodes, from, Edge(s, from, k + 1))
                       /\ Marks(merged[k + 1].nodes, sky)
    OBVIOUS
  <2>1. k + 1 \in 1 .. Len(s) /\ (k + 1) - 1 = k /\ k <= Len(s) /\ k + 1 # 0
    BY <1>1
  <2>2. merged[k + 1] = Join(merged[k], s[k + 1]) /\ s[k + 1] \in Piece
    BY <2>1, <1>1, <1>10
  <2>3. /\ merged[k] \in Joined /\ Row(merged[k].nodes, from, s[k + 1].x)
        /\ Marks(merged[k].nodes, sky)
    BY <2>1, <1>12 DEF Row
  <2>4. \A c \in Spans(s[k + 1]) : sky[c] = s[k + 1].y
    BY <2>1 DEF Marks
  <2>5. Edge(s, from, k + 1) = s[k + 1].x + s[k + 1].w
    BY <2>1 DEF Edge
  <2>6. /\ Row(Join(merged[k], s[k + 1]).nodes, from, s[k + 1].x + s[k + 1].w)
        /\ Marks(Join(merged[k], s[k + 1]).nodes, sky)
    BY <2>2, <2>3, <2>4, JoinLengthens
  <2>. QED
    BY <2>2, <2>3, <2>5, <2>6, <1>3
<1>13. Len(s) \in I
  <2>. HIDE DEF I
  <2>. QED BY <1>1, <1>11, <1>12, SetInduction
<1>. QED
  BY <1>8, <1>13 DEF Row

-----------------------------------------------------------------------------
(* Where a region lands                                                    *)

\* What is known of the nodes of a skyline.
LEMMA NodesOfSkyline ==
  ASSUME Row(nodes, 1, Width - 1)
  PROVE  /\ Len(nodes) \in Nat /\ DOMAIN nodes = 1 .. Len(nodes)
         /\ \A j \in 1 .. Len(nodes) :
               /\ nodes[j].x \in Nat \ {0} /\ nodes[j].y \in Rows /\ nodes[j].w \in Nat \ {0}
               /\ nodes[j].x + nodes[j].w <= Width - 1
         /\ \A j, k \in 1 .. Len(nodes) : j < k => nodes[j].x + nodes[j].w <= nodes[k].x
<1>1. 1 \in Nat
  OBVIOUS
<1>2. ASSUME NEW j \in 1 .. Len(nodes) PROVE nodes[j].x \in Nat /\ 1 <= nodes[j].x
  BY <1>1, NodesOfRow
<1>3. \A j \in 1 .. Len(nodes) : nodes[j].x \in Nat \ {0}
  BY <1>2
<1>. QED
  BY <1>1, <1>3, NodesOfRow

\* A set of rows has a lowest one.
LEMMA LowestExists ==
  ASSUME NEW S \in SUBSET Rows, S # {}
  PROVE  LowestOf(S) \in S /\ \A n \in S : n <= LowestOf(S)
<1>1. Height - 1 \in Nat /\ S \in SUBSET (0 .. Height - 1)
  BY BitmapAssumption DEF Rows
<1>2. PICK k \in S : \A l \in S : l <= k
  BY <1>1, LargestExists
<1>3. \A l \in S : k >= l
  <2>1. \A l \in S : l \in Int
    BY <1>1
  <2>. QED
    BY <2>1, <1>2
<1>4. LowestOf(S) \in S /\ \A n \in S : LowestOf(S) >= n
  BY <1>3 DEF LowestOf
<1>. QED
  BY <1>1, <1>4

\* QueryFitY walks over the nodes that begin left of the region's right edge.
LEMMA SpannedNodes ==
  ASSUME Row(nodes, 1, Width - 1), NEW i \in 1 .. Len(nodes), NEW w \in Nat
  PROVE  Spanned(i, w) = {j \in i .. Len(nodes) : nodes[j].x < nodes[i].x + w}
<1>1. /\ Len(nodes) \in Nat
      /\ \A j \in 1 .. Len(nodes) : nodes[j].x \in Nat /\ nodes[j].w \in Nat
  BY NodesOfSkyline
<1>2. ASSUME NEW j \in i .. Len(nodes), j # i
      PROVE  /\ j \in 1 .. Len(nodes) /\ j - 1 \in 1 .. Len(nodes) /\ j - 1 \in i .. Len(nodes)
             /\ nodes[j].x = nodes[j - 1].x + nodes[j - 1].w
  <2>1. j \in 1 .. Len(nodes) /\ j - 1 \in 1 .. Len(nodes) /\ j - 1 \in i .. Len(nodes) /\ j - 1 # 0
    BY <1>1, <1>2
  <2>. QED
    BY <2>1 DEF Row, Edge
<1>. DEFINE end == nodes[i].x + w
<1>0. end \in Nat
  BY <1>1
<1>. DEFINE begins == [j \in i .. Len(nodes) |-> end - nodes[j].x]
            Defines(g) == g = [j \in i .. Len(nodes) |->
                                  IF j = i THEN w ELSE g[j - 1] - nodes[j - 1].w]
            left == CHOOSE g : Defines(g)
<1>3. Defines(begins)
  <2>1. ASSUME NEW j \in i .. Len(nodes)
        PROVE  end - nodes[j].x = IF j = i THEN w ELSE begins[j - 1] - nodes[j - 1].w
    <3>1. CASE j = i
      BY <3>1, <1>1
    <3>2. CASE j # i
      <4>1. begins[j - 1] = end - nodes[j - 1].x
        BY <3>2, <1>2
      <4>. HIDE DEF begins, end
      <4>. QED
        <5>1. /\ nodes[j].x = nodes[j - 1].x + nodes[j - 1].w
              /\ nodes[j].x \in Nat /\ nodes[j - 1].x \in Nat /\ nodes[j - 1].w \in Nat
          BY <3>2, <1>1, <1>2
        <5>2. end - nodes[j].x = (end - nodes[j - 1].x) - nodes[j - 1].w
          BY <5>1, <1>0
        <5>. QED
          BY <5>2, <4>1, <3>2
    <3>. QED
      BY <3>1, <3>2
  <2>. QED
    BY <2>1
<1>. HIDE DEF end
<1>4. Spanned(i, w) = {j \in i .. Len(nodes) : left[j] > 0}
  BY DEF Spanned
<1>5. Defines(left)
  <2>. HIDE DEF begins, Defines
  <2>. QED BY <1>3
<1>. HIDE DEF left
<1>6. /\ left[i] = w
      /\ \A j \in i .. Len(nodes) : j # i => left[j] = left[j - 1] - nodes[j - 1].w
  <2>1. i \in i .. Len(nodes)
    BY <1>1
  <2>. QED
    BY <2>1, <1>5
<1>. HIDE DEF Defines
<1>. DEFINE I == {n \in Nat : i + n <= Len(nodes) => left[i + n] = end - nodes[i + n].x}
<1>7. 0 \in I
  BY <1>1, <1>6 DEF end
<1>8. ASSUME NEW n \in Nat, n \in I PROVE n + 1 \in I
  <2>. SUFFICES ASSUME i + (n + 1) <= Len(nodes)
                PROVE  left[i + (n + 1)] = end - nodes[i + (n + 1)].x
    OBVIOUS
  <2>. DEFINE j == i + (n + 1)
  <2>1. j \in i .. Len(nodes) /\ j # i /\ j - 1 = i + n
    BY <1>1
  <2>2. left[j - 1] = end - nodes[j - 1].x
    BY <2>1, <1>8
  <2>3. left[j] = left[j - 1] - nodes[j - 1].w
    BY <2>1, <1>6
  <2>. HIDE DEF j
  <2>4. left[j] = end - nodes[j].x
    <3>1. /\ nodes[j].x = nodes[j - 1].x + nodes[j - 1].w
          /\ nodes[j].x \in Nat /\ nodes[j - 1].x \in Nat /\ nodes[j - 1].w \in Nat
      BY <2>1, <1>1, <1>2
    <3>2. end - nodes[j].x = (end - nodes[j - 1].x) - nodes[j - 1].w
      BY <3>1, <1>0
    <3>. QED
      BY <3>2, <2>2, <2>3
  <2>. QED
    BY <2>4 DEF j
<1>9. \A n \in Nat : n \in I
  <2>. HIDE DEF I
  <2>. QED BY <1>7, <1>8, SetInduction
<1>10. ASSUME NEW j \in i .. Len(nodes) PROVE left[j] > 0 <=> nodes[j].x < end
  <2>1. j - i \in Nat /\ i + (j - i) = j /\ j \in 1 .. Len(nodes)
    BY <1>1
  <2>2. left[j] = end - nodes[j].x
    BY <2>1, <1>9
  <2>. QED
    BY <2>1, <2>2, <1>1, <1>0
<1>. QED
  BY <1>4, <1>10 DEF end

\* The heights of a skyline are rows.
LEMMA SkylineIsRows ==
  ASSUME Row(nodes, 1, Width - 1), NEW c \in Columns
  PROVE  SkylineOf(c) \in Rows /\ SkylineOf(c) = HeightAt(nodes, c)
<1>1. c \in 1 .. (Width - 1) - 1
  BY BitmapAssumption DEF Columns
<1>. QED
  BY <1>1, RowsShowHeights DEF SkylineOf, HeightAt

\* A region lands on the lowest of its columns.
LEMMA Landing ==
  ASSUME Row(nodes, 1, Width - 1), NEW c \in Nat \ {0}, NEW w \in Nat \ {0}, c + w <= Width - 1
  PROVE  /\ LandsAt(c, w) \in Rows
         /\ \A k \in c .. c + w - 1 : k \in Columns /\ SkylineOf(k) <= LandsAt(c, w)
         /\ \E k \in c .. c + w - 1 : SkylineOf(k) = LandsAt(c, w)
<1>1. \A k \in c .. c + w - 1 : k \in Columns
  BY BitmapAssumption DEF Columns
<1>. DEFINE heights == {SkylineOf(k) : k \in c .. c + w - 1}
<1>2. heights \in SUBSET Rows
  BY <1>1, SkylineIsRows
<1>3. SkylineOf(c) \in heights
  OBVIOUS
<1>4. LowestOf(heights) \in heights /\ \A n \in heights : n <= LowestOf(heights)
  <2>. HIDE DEF heights
  <2>. QED BY <1>2, <1>3, LowestExists
<1>5. LandsAt(c, w) = LowestOf(heights)
  BY DEF LandsAt
<1>. QED
  BY <1>1, <1>2, <1>4, <1>5

\* The nodes a region stands on have the heights of its columns.
LEMMA SpannedHeights ==
  ASSUME Row(nodes, 1, Width - 1), NEW i \in 1 .. Len(nodes), NEW w \in Nat \ {0},
         nodes[i].x + w <= Width - 1
  PROVE  LowestOf({nodes[j].y : j \in Spanned(i, w)}) = LandsAt(nodes[i].x, w)
<1>. DEFINE c == nodes[i].x
<1>1. /\ Len(nodes) \in Nat
      /\ \A j \in 1 .. Len(nodes) : /\ nodes[j].x \in Nat \ {0} /\ nodes[j].w \in Nat \ {0}
                                    /\ nodes[j].x + nodes[j].w <= Width - 1
      /\ \A j, k \in 1 .. Len(nodes) : j < k => nodes[j].x + nodes[j].w <= nodes[k].x
  BY NodesOfSkyline
<1>2. Spanned(i, w) = {j \in i .. Len(nodes) : nodes[j].x < c + w}
  BY SpannedNodes
<1>3. ASSUME NEW j \in Spanned(i, w) PROVE \E k \in c .. c + w - 1 : nodes[j].y = SkylineOf(k)
  <2>1. j \in 1 .. Len(nodes) /\ i <= j /\ nodes[j].x < c + w
    BY <1>1, <1>2
  <2>2. PICK p \in Nat \ {0}, q \in Nat \ {0} : p = nodes[j].x /\ q = nodes[j].w
    BY <2>1, <1>1
  <2>3. p + q <= Width - 1 /\ p < c + w
    BY <2>1, <2>2, <1>1
  <2>4. c \in Nat /\ c <= p
    <3>1. CASE j = i
      BY <3>1, <2>2
    <3>2. CASE i < j
      <4>1. PICK r \in Nat \ {0} : r = nodes[i].w
        BY <1>1
      <4>2. c + r <= p /\ c \in Nat
        BY <4>1, <3>2, <2>1, <2>2, <1>1
      <4>. QED
        BY <4>2
    <3>. QED
      BY <3>1, <3>2, <2>1
  <2>5. p \in c .. c + w - 1
    BY <2>3, <2>4
  <2>6. p \in Columns
    BY <2>3, BitmapAssumption DEF Columns
  <2>7. p \in Spans(nodes[j])
    BY <2>2 DEF Spans
  <2>8. HeightAt(nodes, p) = nodes[j].y
    BY <2>1, <2>7, HeightOfNode
  <2>. QED
    BY <2>5, <2>6, <2>8, SkylineIsRows
<1>4. ASSUME NEW k \in c .. c + w - 1 PROVE \E j \in Spanned(i, w) : nodes[j].y = SkylineOf(k)
  <2>1. k \in Columns /\ k \in 1 .. (Width - 1) - 1
    BY <1>1, BitmapAssumption DEF Columns
  <2>2. PICK j \in 1 .. Len(nodes) : k \in Spans(nodes[j])
    BY <2>1, RowsHaveNoGaps
  <2>3. nodes[j].x <= k /\ k < nodes[j].x + nodes[j].w
    BY <2>2, <1>1 DEF Spans
  <2>4. ~(j < i) /\ nodes[j].x < c + w
    BY <2>1, <2>3, <1>1
  <2>5. j \in Spanned(i, w)
    BY <2>4, <1>1, <1>2
  <2>6. HeightAt(nodes, k) = nodes[j].y
    BY <2>2, HeightOfNode
  <2>. QED
    BY <2>1, <2>5, <2>6, SkylineIsRows
<1>5. {nodes[j].y : j \in Spanned(i, w)} = {SkylineOf(k) : k \in c .. c + w - 1}
  BY <1>3, <1>4
<1>. QED
  BY <1>5 DEF LandsAt

\* What QueryFitY answers: the row where the region lands, if that is inside.
LEMMA QueryFits ==
  ASSUME Row(nodes, 1, Width - 1), NEW i \in 1 .. Len(nodes),
         NEW w \in Nat \ {0}, NEW h \in Nat \ {0}
  PROVE  LET c == nodes[i].x
         IN  QueryFitY(i, w, h) > 0 <=> c + w <= Width - 1 /\ LandsAt(c, w) + h <= Height - 1
<1>. DEFINE c == nodes[i].x
<1>1. c \in Nat \ {0}
  BY NodesOfSkyline
<1>2. CASE c + w > Width - 1
  BY <1>1, <1>2, BitmapAssumption DEF QueryFitY
<1>3. CASE c + w <= Width - 1
  <2>1. LowestOf({nodes[j].y : j \in Spanned(i, w)}) = LandsAt(c, w)
    BY <1>3, SpannedHeights
  <2>2. LandsAt(c, w) \in Rows
    BY <1>1, <1>3, Landing
  <2>. QED
    BY <2>1, <2>2, <1>1, <1>3, BitmapAssumption DEF QueryFitY, Rows
<1>. QED
  BY <1>1, <1>2, <1>3, BitmapAssumption

\* A candidate has room for the region, at the row QueryFitY gives.
LEMMA CandidatesFit ==
  ASSUME Row(nodes, 1, Width - 1), NEW w \in Nat \ {0}, NEW h \in Nat \ {0},
         NEW i \in Candidates(w, h)
  PROVE  /\ i \in 1 .. Len(nodes)
         /\ nodes[i].x + w <= Width - 1
         /\ QueryFitY(i, w, h) = LandsAt(nodes[i].x, w)
         /\ LandsAt(nodes[i].x, w) + h <= Height - 1
<1>1. i \in 1 .. Len(nodes) /\ QueryFitY(i, w, h) > 0
  BY NodesOfRow DEF Candidates
<1>2. nodes[i].x + w <= Width - 1 /\ LandsAt(nodes[i].x, w) + h <= Height - 1
  BY <1>1, QueryFits
<1>3. LowestOf({nodes[j].y : j \in Spanned(i, w)}) = LandsAt(nodes[i].x, w)
  BY <1>1, <1>2, SpannedHeights
<1>4. QueryFitY(i, w, h) = -1 \/ QueryFitY(i, w, h) = LandsAt(nodes[i].x, w)
  BY <1>3 DEF QueryFitY
<1>. QED
  BY <1>1, <1>2, <1>4

\* When there is a candidate, one of them is the best.
LEMMA BestIsCandidate ==
  ASSUME Row(nodes, 1, Width - 1), NEW w \in Nat \ {0}, NEW h \in Nat \ {0},
         Candidates(w, h) # {}
  PROVE  Best(w, h) \in Candidates(w, h)
<1>. DEFINE C == Candidates(w, h)
            bottom == [i \in C |-> QueryFitY(i, w, h) + h]
            beats(i, j) == \/ bottom[i] < bottom[j]
                           \/ bottom[i] = bottom[j] /\ nodes[i].w < nodes[j].w
                           \/ bottom[i] = bottom[j] /\ nodes[i].w = nodes[j].w /\ i <= j
<1>1. ASSUME NEW i \in C PROVE i \in Nat /\ nodes[i].w \in Nat /\ bottom[i] \in Nat
  <2>1. i \in 1 .. Len(nodes) /\ QueryFitY(i, w, h) > 0 /\ QueryFitY(i, w, h) = LandsAt(nodes[i].x, w)
    BY CandidatesFit DEF Candidates
  <2>2. nodes[i].w \in Nat /\ nodes[i].x \in Nat \ {0}
    BY <2>1, NodesOfSkyline
  <2>3. LandsAt(nodes[i].x, w) \in Rows
    BY <2>2, CandidatesFit, Landing
  <2>. QED
    BY <2>1, <2>2, <2>3 DEF Rows
<1>2. Best(w, h) = CHOOSE i \in DOMAIN bottom : \A j \in DOMAIN bottom : beats(i, j)
  BY DEF Best
<1>3. DOMAIN bottom = C /\ C # {}
  OBVIOUS
<1>. HIDE DEF C, bottom
<1>4. PICK a \in C : \A j \in C : bottom[a] <= bottom[j]
  <2>. DEFINE B == {bottom[i] : i \in C}
  <2>1. B \in SUBSET Nat /\ B # {}
    BY <1>1, <1>3
  <2>. HIDE DEF B
  <2>2. PICK b \in B : \A l \in B : b <= l
    BY <2>1, SmallestExists
  <2>. QED
    BY <2>2 DEF B
<1>5. PICK b \in C : bottom[b] = bottom[a] /\ \A j \in C : bottom[j] = bottom[a] => nodes[b].w <= nodes[j].w
  <2>. DEFINE B == {nodes[i].w : i \in {i \in C : bottom[i] = bottom[a]}}
  <2>1. B \in SUBSET Nat /\ nodes[a].w \in B
    BY <1>1
  <2>. HIDE DEF B
  <2>2. PICK l \in B : \A k \in B : l <= k
    BY <2>1, SmallestExists
  <2>. QED
    BY <2>2 DEF B
<1>6. PICK i \in C : /\ bottom[i] = bottom[a] /\ nodes[i].w = nodes[b].w
                     /\ \A j \in C : bottom[j] = bottom[a] /\ nodes[j].w = nodes[b].w => i <= j
  <2>. DEFINE B == {k \in C : bottom[k] = bottom[a] /\ nodes[k].w = nodes[b].w}
  <2>1. B \in SUBSET Nat /\ b \in B
    BY <1>1, <1>5
  <2>. HIDE DEF B
  <2>2. PICK l \in B : \A k \in B : l <= k
    BY <2>1, SmallestExists
  <2>. QED
    BY <2>2 DEF B
<1>7. ASSUME NEW j \in C PROVE beats(i, j)
  <2>1. bottom[a] <= bottom[j] /\ bottom[a] \in Nat /\ bottom[j] \in Nat
    BY <1>1, <1>4
  <2>2. bottom[j] = bottom[a] => nodes[b].w <= nodes[j].w
    BY <1>5
  <2>3. nodes[b].w \in Nat /\ nodes[j].w \in Nat
    BY <1>1
  <2>. QED
    BY <2>1, <2>2, <2>3, <1>6
<1>8. Best(w, h) \in DOMAIN bottom
  <2>. HIDE DEF beats
  <2>. QED BY <1>2, <1>3, <1>7
<1>. QED
  BY <1>3, <1>8 DEF C

-----------------------------------------------------------------------------
(* Allocating a region                                                     *)

\* Where the skyline runs once the region is placed.
Lowered(r) == [c \in Columns |-> IF c \in ColumnsOf(r) THEN r.y + r.h ELSE SkylineOf(c)]

\* The region of a candidate fits on the skyline, and the list of nodes that
\* AllocateRegion leaves behind shows the skyline lowered by it.
LEMMA AllocatedOnSkyline ==
  ASSUME Row(nodes, 1, Width - 1), NEW w \in Nat \ {0}, NEW h \in Nat \ {0},
         NEW i \in Candidates(w, h), NEW r, r = RegionAt(i, w, h)
  PROVE  /\ r \in Region /\ r.w = w /\ r.h = h
         /\ ColumnsOf(r) \subseteq Columns /\ r.y >= 1 /\ r.y + r.h <= Height - 1
         /\ \A c \in ColumnsOf(r) : SkylineOf(c) <= r.y
         /\ Row(NodesAfter(i, r), 1, Width - 1)
         /\ Marks(NodesAfter(i, r), Lowered(r))
<1>1. /\ i \in 1 .. Len(nodes) /\ nodes[i].x + w <= Width - 1
      /\ QueryFitY(i, w, h) = LandsAt(nodes[i].x, w)
      /\ LandsAt(nodes[i].x, w) + h <= Height - 1
  BY CandidatesFit
<1>2. nodes[i].x \in Nat \ {0} /\ Len(nodes) \in Nat
  BY <1>1, NodesOfSkyline
<1>3. PICK x \in Nat \ {0} : x = nodes[i].x
  BY <1>2
<1>4. PICK y : y = LandsAt(x, w)
  OBVIOUS
<1>5. /\ y \in Rows
      /\ \A k \in x .. x + w - 1 : k \in Columns /\ SkylineOf(k) <= y
  BY <1>1, <1>3, <1>4, Landing
<1>6. r = [x |-> x, y |-> y, w |-> w, h |-> h]
  BY <1>1, <1>3, <1>4 DEF RegionAt
<1>7. r.x = x /\ r.y = y /\ r.w = w /\ r.h = h
  BY <1>6
<1>8. y \in Nat /\ y >= 1 /\ y + h \in Rows /\ y + h <= Height - 1
  BY <1>1, <1>3, <1>4, <1>5, BitmapAssumption DEF Rows
<1>9. r \in Region
  BY <1>6, <1>8 DEF Region
<1>10. ColumnsOf(r) = x .. x + w - 1
  BY <1>7 DEF ColumnsOf
<1>. DEFINE sky == [c \in Columns |-> SkylineOf(c)]
<1>11. Marks(nodes, sky)
  <2>1. 1 \in Nat
    OBVIOUS
  <2>2. ASSUME NEW j \in 1 .. Len(nodes), NEW c \in Spans(nodes[j]) PROVE sky[c] = nodes[j].y
    <3>1. c \in Columns
      BY NodesOfSkyline, BitmapAssumption DEF Spans, Columns
    <3>2. HeightAt(nodes, c) = nodes[j].y
      BY <2>1, HeightOfNode
    <3>. QED
      BY <3>1, <3>2, SkylineIsRows
  <2>. QED
    BY <2>2 DEF Marks
<1>12. \A c \in Columns : /\ c \in x .. x + w - 1 => Lowered(r)[c] = y + h
                          /\ c \notin x .. x + w - 1 => Lowered(r)[c] = sky[c]
  BY <1>7, <1>10 DEF Lowered
<1>. HIDE DEF sky
<1>. DEFINE before == SubSeq(nodes, 1, i - 1)
            above == SubSeq(nodes, i, Len(nodes))
            n == [x |-> x, y |-> y + h, w |-> w]
            after == ShrinkFollowing(above, x + w)
<1>13. /\ Row(before, 1, x) /\ Row(above, x, Width - 1)
       /\ Marks(before, sky) /\ Marks(above, sky)
  <2>1. i - 1 \in 0 .. Len(nodes) /\ (i - 1) + 1 = i /\ 1 \in Nat
    BY <1>1, <1>2
  <2>2. Edge(nodes, 1, i - 1) = x
    BY <1>1, <1>3 DEF Row
  <2>3. /\ Row(SubSeq(nodes, 1, i - 1), 1, Edge(nodes, 1, i - 1))
        /\ Row(SubSeq(nodes, (i - 1) + 1, Len(nodes)), Edge(nodes, 1, i - 1), Width - 1)
        /\ Marks(SubSeq(nodes, 1, i - 1), sky)
        /\ Marks(SubSeq(nodes, (i - 1) + 1, Len(nodes)), sky)
    BY <2>1, <1>11, Slices
  <2>. QED
    BY <2>1, <2>2, <2>3
<1>14. n \in Piece
  BY <1>3, <1>8 DEF Piece
<1>15. Row(<<n>>, x, x + w) /\ Marks(<<n>>, Lowered(r))
  <2>1. \A c \in Spans(n) : Lowered(r)[c] = n.y
    BY <1>5, <1>12 DEF Spans
  <2>2. n.x = x /\ n.w = w
    OBVIOUS
  <2>. HIDE DEF n
  <2>. QED
    BY <2>1, <2>2, <1>14, SingleRow
<1>16. Row(after, x + w, Width - 1) /\ Marks(after, Lowered(r))
  <2>1. x + w \in x .. Width - 1
    BY <1>1, <1>3, BitmapAssumption
  <2>2. \A c \in x + w .. (Width - 1) - 1 : Lowered(r)[c] = sky[c]
    <3>1. \A c \in x + w .. (Width - 1) - 1 : c \in Columns /\ c \notin x .. x + w - 1
      BY BitmapAssumption DEF Columns
    <3>. QED
      BY <3>1, <1>12
  <2>. HIDE DEF above
  <2>. QED
    BY <2>1, <2>2, <1>13, Following
<1>17. Marks(before, Lowered(r))
  <2>. SUFFICES ASSUME NEW j \in 1 .. Len(before), NEW c \in Spans(before[j])
                PROVE  Lowered(r)[c] = before[j].y
    BY DEF Marks
  <2>. HIDE DEF before
  <2>1. /\ before[j].x \in Nat /\ before[j].w \in Nat
        /\ 1 <= before[j].x /\ before[j].x + before[j].w <= x
    <3>1. 1 \in Nat
      OBVIOUS
    <3>. QED
      BY <3>1, <1>13, NodesOfRow
  <2>2. c \in Columns /\ c \notin x .. x + w - 1
    <3>1. PICK p \in Nat, q \in Nat : p = before[j].x /\ q = before[j].w
      BY <2>1
    <3>2. c \in p .. p + q - 1 /\ 1 <= p /\ p + q <= x
      BY <3>1, <2>1 DEF Spans
    <3>3. x + w <= Width - 1
      BY <1>1, <1>3
    <3>. QED
      BY <3>2, <3>3, BitmapAssumption DEF Columns
  <2>. QED
    BY <2>2, <1>12, <1>13 DEF Marks
<1>. HIDE DEF before, above, n, after
<1>18. /\ Row((before \o <<n>>) \o after, 1, Width - 1)
       /\ Marks((before \o <<n>>) \o after, Lowered(r))
  <2>1. 1 \in Nat
    OBVIOUS
  <2>2. Row(before \o <<n>>, 1, x + w) /\ Marks(before \o <<n>>, Lowered(r))
    BY <2>1, <1>13, <1>15, <1>17, ConcatRows
  <2>. QED
    BY <2>1, <2>2, <1>16, ConcatRows
<1>19. NodesAfter(i, r) = MergeNodes((before \o <<n>>) \o after)
  BY <1>7 DEF NodesAfter, before, n, after, above
<1>20. /\ Row(NodesAfter(i, r), 1, Width - 1)
       /\ Marks(NodesAfter(i, r), Lowered(r))
  <2>1. 1 \in Nat
    OBVIOUS
  <2>. QED
    BY <2>1, <1>18, <1>19, Merging
<1>. QED
  BY <1>5, <1>7, <1>8, <1>9, <1>10, <1>20

-----------------------------------------------------------------------------
(* The invariant                                                           *)

DirtyRect == [left : Nat, top : Nat, right : Nat, bottom : Nat]

\* The nodes are a skyline from border to border, and what is not on the
\* texture is in the dirty rows.
AtlasInv ==
    /\ Row(nodes, 1, Width - 1)
    /\ \A r \in regions : r \in Region /\ r.y + r.h <= Height - 1
    /\ dirty \in DirtyRect
    /\ uploaded \subseteq regions
    /\ CleanRegionsAreUploaded

\* The dirty rows grow to hold the new region and keep what they held.
LEMMA GrownHolds ==
  ASSUME NEW d \in DirtyRect, NEW r \in Region
  PROVE  /\ Grown(d, r) \in DirtyRect /\ Grown(d, r) # Clean
         /\ Grown(d, r).top <= r.y /\ r.y + r.h <= Grown(d, r).bottom
         /\ d # Clean => Grown(d, r).top <= d.top /\ d.bottom <= Grown(d, r).bottom
<1>1. /\ r.x \in Nat /\ r.y \in Nat /\ r.w \in Nat \ {0} /\ r.h \in Nat \ {0}
      /\ d.left \in Nat /\ d.top \in Nat /\ d.right \in Nat /\ d.bottom \in Nat
  BY DEF Region, DirtyRect
<1>2. PICK right \in Nat, bottom \in Nat : right = r.x + r.w /\ bottom = r.y + r.h
  BY <1>1
<1>3. CASE d = Clean
  <2>1. Grown(d, r) = [left |-> r.x, top |-> r.y, right |-> right, bottom |-> bottom]
    BY <1>2, <1>3 DEF Grown
  <2>. QED
    BY <2>1, <1>1, <1>2, <1>3 DEF DirtyRect, Clean
<1>4. CASE d # Clean
  <2>1. \A a, b \in Nat : /\ Lesser(a, b) \in Nat /\ Lesser(a, b) <= a /\ Lesser(a, b) <= b
                          /\ Greater(a, b) \in Nat /\ a <= Greater(a, b) /\ b <= Greater(a, b)
    BY DEF Lesser, Greater
  <2>2. Grown(d, r) = [left |-> Lesser(d.left, r.x), top |-> Lesser(d.top, r.y),
                       right |-> Greater(d.right, right), bottom |-> Greater(d.bottom, bottom)]
    BY <1>2, <1>4 DEF Grown
  <2>3. PICK a \in Nat, b \in Nat, e \in Nat, f \in Nat :
             /\ Grown(d, r) = [left |-> a, top |-> b, right |-> e, bottom |-> f]
             /\ b <= r.y /\ b <= d.top /\ bottom <= f /\ d.bottom <= f
    <3>1. /\ Lesser(d.left, r.x) \in Nat
          /\ Lesser(d.top, r.y) \in Nat /\ Lesser(d.top, r.y) <= d.top /\ Lesser(d.top, r.y) <= r.y
          /\ Greater(d.right, right) \in Nat
          /\ Greater(d.bottom, bottom) \in Nat
          /\ d.bottom <= Greater(d.bottom, bottom) /\ bottom <= Greater(d.bottom, bottom)
      BY <2>1, <1>1
    <3>. QED
      BY <3>1, <2>2
  <2>4. bottom # 0 /\ f # 0
    <3>1. bottom > 0
      BY <1>1, <1>2
    <3>. QED
      BY <3>1, <2>3
  <2>. QED
    BY <2>3, <2>4, <1>2 DEF DirtyRect, Clean
<1>. QED
  BY <1>3, <1>4

\* The first node is a skyline of which every column is free from row 1.
LEMMA FirstRow ==
  ASSUME Init
  PROVE  /\ Row(nodes, 1, Width - 1)
         /\ \A c \in Columns : SkylineOf(c) = 1
<1>1. nodes = <<FirstNode>> /\ FirstNode \in Piece
  BY BitmapAssumption, AtlasAssumption DEF Init, FirstNode, Piece, Rows
<1>2. FirstNode.x = 1 /\ FirstNode.x + FirstNode.w = Width - 1 /\ FirstNode.y = 1
  BY BitmapAssumption DEF FirstNode
<1>3. Row(nodes, 1, Width - 1)
  BY <1>1, <1>2, SingleRow
<1>4. ASSUME NEW c \in Columns PROVE SkylineOf(c) = 1
  <2>1. 1 \in 1 .. Len(nodes) /\ nodes[1] = FirstNode /\ 1 \in Nat
    BY <1>1
  <2>2. c \in Spans(nodes[1])
    BY <2>1, BitmapAssumption DEF Spans, Columns, FirstNode
  <2>3. HeightAt(nodes, c) = nodes[1].y
    BY <2>1, <2>2, <1>3, HeightOfNode
  <2>. QED
    BY <2>1, <2>3, <1>2, <1>3, SkylineIsRows
<1>. QED
  BY <1>3, <1>4

\* What a new glyph changes.
LEMMA GeneratePlaces ==
  ASSUME AtlasInv, Generate
  PROVE  \E r \in Region :
            /\ ColumnsOf(r) \subseteq Columns /\ r.y >= 1 /\ r.y + r.h <= Height - 1
            /\ \A c \in ColumnsOf(r) : SkylineOf(c) <= r.y
            /\ Row(nodes', 1, Width - 1) /\ Marks(nodes', Lowered(r))
            /\ regions' = regions \cup {r}
            /\ dirty' = Grown(dirty, r)
            /\ uploaded' = uploaded
<1>1. PICK gw \in GlyphWidths, gh \in GlyphHeights : GenerateGlyphRegion(gw, gh)
  BY DEF Generate
<1>2. PICK w, h : w = gw + AtlasPadding /\ h = gh + AtlasPadding
  OBVIOUS
<1>3. w \in Nat \ {0} /\ h \in Nat \ {0}
  BY <1>2, AtlasAssumption DEF AtlasPadding
<1>4. PICK r : r = RegionAt(Best(w, h), w, h)
  OBVIOUS
<1>5. /\ Candidates(w, h) # {}
      /\ regions' = regions \cup {r}
      /\ nodes' = NodesAfter(Best(w, h), r)
      /\ dirty' = Grown(dirty, r)
      /\ uploaded' = uploaded
  BY <1>1, <1>2, <1>4 DEF GenerateGlyphRegion
<1>6. Best(w, h) \in Candidates(w, h)
  BY <1>3, <1>5, BestIsCandidate DEF AtlasInv
<1>7. /\ r \in Region
      /\ ColumnsOf(r) \subseteq Columns /\ r.y >= 1 /\ r.y + r.h <= Height - 1
      /\ \A c \in ColumnsOf(r) : SkylineOf(c) <= r.y
      /\ Row(NodesAfter(Best(w, h), r), 1, Width - 1)
      /\ Marks(NodesAfter(Best(w, h), r), Lowered(r))
  BY <1>3, <1>4, <1>6, AllocatedOnSkyline DEF AtlasInv
<1>. QED
  BY <1>5, <1>7

\* A new glyph keeps the invariant: its rows are in the dirty rectangle.
LEMMA GenerateKeepsInv == ASSUME AtlasInv, Generate PROVE AtlasInv'
<1>1. PICK r \in Region :
         /\ r.y + r.h <= Height - 1
         /\ Row(nodes', 1, Width - 1)
         /\ regions' = regions \cup {r}
         /\ dirty' = Grown(dirty, r)
         /\ uploaded' = uploaded
  BY GeneratePlaces
<1>2. /\ dirty' \in DirtyRect /\ dirty' # Clean
      /\ dirty'.top <= r.y /\ r.y + r.h <= dirty'.bottom
      /\ dirty # Clean => dirty'.top <= dirty.top /\ dirty.bottom <= dirty'.bottom
  BY <1>1, GrownHolds DEF AtlasInv
<1>3. ASSUME NEW q \in regions' PROVE q \in uploaded' \/ (dirty' # Clean /\ InDirtyRows(q)')
  <2>1. CASE q = r
    BY <2>1, <1>2 DEF InDirtyRows
  <2>2. CASE q \in regions
    <3>1. q \in uploaded \/ (dirty # Clean /\ dirty.top <= q.y /\ q.y + q.h <= dirty.bottom)
      BY <2>2 DEF AtlasInv, CleanRegionsAreUploaded, InDirtyRows
    <3>2. q.y \in Nat /\ q.h \in Nat
      BY <2>2 DEF AtlasInv, Region
    <3>3. dirty.top \in Nat /\ dirty.bottom \in Nat /\ dirty'.top \in Nat /\ dirty'.bottom \in Nat
      BY <1>2 DEF AtlasInv, DirtyRect
    <3>. QED
      BY <3>1, <3>2, <3>3, <1>1, <1>2 DEF InDirtyRows
  <2>. QED
    BY <2>1, <2>2, <1>1
<1>4. CleanRegionsAreUploaded'
  BY <1>3 DEF CleanRegionsAreUploaded
<1>. QED
  BY <1>1, <1>2, <1>4 DEF AtlasInv

(***************************************************************************)
(* The invariant holds of every bitmap of the text atlas.                  *)
(***************************************************************************)
THEOREM AtlasInvariantHolds == Spec => []AtlasInv
<1>1. Init => AtlasInv
  <2>. SUFFICES ASSUME Init PROVE AtlasInv
    OBVIOUS
  <2>1. dirty \in DirtyRect /\ regions = {} /\ uploaded = {}
    BY DEF Init, Clean, DirtyRect
  <2>. QED
    BY <2>1, FirstRow DEF AtlasInv, CleanRegionsAreUploaded
<1>2. AtlasInv /\ [Next]_vars => AtlasInv'
  <2>. SUFFICES ASSUME AtlasInv, [Next]_vars PROVE AtlasInv'
    OBVIOUS
  <2>1. CASE Generate
    BY <2>1, GenerateKeepsInv
  <2>2. CASE Upload
    <3>1. /\ uploaded' = uploaded \cup {r \in regions : InDirtyRows(r)}
          /\ dirty' = Clean /\ nodes' = nodes /\ regions' = regions
      BY <2>2 DEF Upload
    <3>2. Clean \in DirtyRect
      BY DEF Clean, DirtyRect
    <3>3. \A r \in regions : r \in uploaded'
      BY <3>1 DEF AtlasInv, CleanRegionsAreUploaded
    <3>. QED
      BY <3>1, <3>2, <3>3 DEF AtlasInv, CleanRegionsAreUploaded
  <2>3. CASE SetAllDirty
    <3>1. /\ dirty' = [left |-> 0, top |-> 0, right |-> Width, bottom |-> Height]
          /\ uploaded' = {} /\ nodes' = nodes /\ regions' = regions
      BY <2>3 DEF SetAllDirty
    <3>2. dirty' \in DirtyRect /\ dirty' # Clean /\ dirty'.top = 0 /\ dirty'.bottom = Height
      BY <3>1, BitmapAssumption DEF Clean, DirtyRect
    <3>3. \A r \in regions : 0 <= r.y /\ r.y + r.h <= Height
      BY BitmapAssumption DEF AtlasInv, Region
    <3>4. \A r \in regions : InDirtyRows(r)'
      BY <3>2, <3>3 DEF InDirtyRows
    <3>. QED
      BY <3>1, <3>2, <3>4 DEF AtlasInv, CleanRegionsAreUploaded
  <2>4. CASE UNCHANGED vars
    BY <2>4 DEF vars, AtlasInv, CleanRegionsAreUploaded, InDirtyRows
  <2>. QED
    BY <2>1, <2>2, <2>3, <2>4 DEF Next
<1>. QED
  BY <1>1, <1>2, PTL DEF Spec

(***************************************************************************)
(* A glyph that is not in the rows still to be copied is on the texture,   *)
(* however the dirty rectangle grew (ExpandDirtyRect, UploadAtlas).        *)
(***************************************************************************)
THEOREM CleanRegionsDoGetUploaded == Spec => []CleanRegionsAreUploaded
<1>1. AtlasInv => CleanRegionsAreUploaded
  BY DEF AtlasInv
<1>. QED
  BY <1>1, AtlasInvariantHolds, PTL

-----------------------------------------------------------------------------
(* What the allocator refuses                                              *)

\* A region that starts in the middle of a node lands no higher than one that
\* starts where the node does.
LEMMA FirstColumnIsBest ==
  ASSUME Row(nodes, 1, Width - 1), NEW w \in Nat \ {0}, NEW c \in Nat \ {0}, c + w <= Width - 1
  PROVE  \E i \in 1 .. Len(nodes) : /\ nodes[i].x + w <= Width - 1
                                    /\ LandsAt(nodes[i].x, w) <= LandsAt(c, w)
<1>1. c \in 1 .. (Width - 1) - 1 /\ c \in Columns /\ 1 \in Nat
  BY BitmapAssumption DEF Columns
<1>2. PICK i \in 1 .. Len(nodes) : c \in Spans(nodes[i])
  BY <1>1, RowsHaveNoGaps
<1>3. PICK p \in Nat \ {0}, q \in Nat \ {0} :
           p = nodes[i].x /\ q = nodes[i].w /\ p <= c /\ c < p + q
  BY NodesOfSkyline, <1>2 DEF Spans
<1>4. p + w <= Width - 1
  BY <1>3, BitmapAssumption
<1>5. PICK k \in p .. p + w - 1 : SkylineOf(k) = LandsAt(p, w)
  BY <1>3, <1>4, Landing
<1>6. /\ \A l \in c .. c + w - 1 : SkylineOf(l) <= LandsAt(c, w)
      /\ k \in Columns
  BY <1>3, <1>4, Landing
<1>7. CASE k >= c
  <2>1. k \in c .. c + w - 1
    BY <1>3, <1>7
  <2>. QED
    BY <2>1, <1>3, <1>4, <1>5, <1>6
<1>8. CASE k < c
  <2>1. k \in Spans(nodes[i])
    BY <1>3, <1>8 DEF Spans
  <2>2. HeightAt(nodes, k) = nodes[i].y /\ HeightAt(nodes, c) = nodes[i].y
    BY <1>1, <1>2, <2>1, HeightOfNode
  <2>3. SkylineOf(k) = SkylineOf(c) /\ c \in c .. c + w - 1
    BY <2>2, <1>1, <1>6, SkylineIsRows
  <2>. QED
    BY <2>3, <1>3, <1>4, <1>5, <1>6
<1>. QED
  BY <1>7, <1>8

(***************************************************************************)
(* AllocateRegion tries the first column of each node only, and refuses    *)
(* nothing that would fit in another column; a fresh bitmap takes every    *)
(* glyph that passed the size test.                                        *)
(***************************************************************************)
THEOREM RefusalsAreRight == Spec => []RefusesOnlyWhatFitsNowhere
<1>1. AtlasInv => RefusesOnlyWhatFitsNowhere
  <2>. SUFFICES ASSUME AtlasInv, NEW gw \in GlyphWidths, NEW gh \in GlyphHeights,
                       NEW w, w = gw + AtlasPadding, NEW h, h = gh + AtlasPadding,
                       Candidates(w, h) = {}, NEW c \in 1 .. Width - 1 - w
                PROVE  LandsAt(c, w) + h > Height - 1
    BY DEF RefusesOnlyWhatFitsNowhere
  <2>1. w \in Nat \ {0} /\ h \in Nat \ {0} /\ Row(nodes, 1, Width - 1)
    BY AtlasAssumption DEF AtlasPadding, AtlasInv
  <2>2. c \in Nat \ {0} /\ c + w <= Width - 1
    BY <2>1, BitmapAssumption
  <2>3. PICK i \in 1 .. Len(nodes) : /\ nodes[i].x + w <= Width - 1
                                     /\ LandsAt(nodes[i].x, w) <= LandsAt(c, w)
    BY <2>1, <2>2, FirstColumnIsBest
  <2>4. ~(LandsAt(nodes[i].x, w) + h <= Height - 1)
    <3>1. i \in DOMAIN nodes /\ ~(QueryFitY(i, w, h) > 0)
      BY <2>1, <2>3, NodesOfSkyline DEF Candidates
    <3>. QED
      BY <3>1, <2>1, <2>3, QueryFits
  <2>5. LandsAt(nodes[i].x, w) \in Rows /\ LandsAt(c, w) \in Rows
    BY <2>1, <2>2, <2>3, NodesOfSkyline, Landing
  <2>. QED
    BY <2>1, <2>3, <2>4, <2>5, BitmapAssumption DEF Rows
<1>. QED
  BY <1>1, AtlasInvariantHolds, PTL

-----------------------------------------------------------------------------
(* The list of nodes implements the skyline                                *)

(***************************************************************************)
(* What AtlasAllocator does with its list of nodes is what Skyline does    *)
(* with the heights of the columns: each glyph is placed on or below the   *)
(* skyline, inside of the border.                                          *)
(***************************************************************************)
THEOREM AllocatorImplementsSkyline == Spec => ImplementsSkyline
<1>0. Packing!Columns = Columns /\ Packing!Region = Region
      /\ \A r : Packing!ColumnsOf(r) = ColumnsOf(r)
  BY DEF Packing!Columns, Columns, Packing!Region, Region, Packing!ColumnsOf, ColumnsOf
<1>1. Init => Packing!Init
  <2>. SUFFICES ASSUME Init PROVE Packing!Init
    OBVIOUS
  <2>1. \A c \in Columns : SkylineOf(c) = 1
    BY FirstRow
  <2>2. regions = {}
    BY DEF Init
  <2>. QED
    BY <2>1, <2>2, <1>0 DEF Packing!Init
<1>2. AtlasInv /\ AtlasInv' /\ [Next]_vars => [Packing!Next]_(Packing!vars)
  <2>. SUFFICES ASSUME AtlasInv, AtlasInv', [Next]_vars
                PROVE  [Packing!Next]_(Packing!vars)
    OBVIOUS
  <2>1. CASE Generate
    <3>1. PICK r \in Region :
             /\ ColumnsOf(r) \subseteq Columns /\ r.y >= 1 /\ r.y + r.h <= Height - 1
             /\ \A c \in ColumnsOf(r) : SkylineOf(c) <= r.y
             /\ Row(nodes', 1, Width - 1) /\ Marks(nodes', Lowered(r))
             /\ regions' = regions \cup {r}
      BY <2>1, GeneratePlaces
    <3>2. \A c \in Columns : SkylineOf(c)' = Lowered(r)[c]
      <4>. TAKE c \in Columns
      <4>1. SkylineOf(c)' = HeightAt(nodes', c)
        BY DEF SkylineOf, HeightAt
      <4>2. c \in 1 .. (Width - 1) - 1 /\ 1 \in Nat
        BY BitmapAssumption DEF Columns
      <4>3. HeightAt(nodes', c) = Lowered(r)[c]
        BY <3>1, <4>2, ShownIsHeight
      <4>. QED
        BY <4>1, <4>3
    <3>3. [c \in Columns |-> SkylineOf(c)]'
             = [c \in Columns |-> IF c \in ColumnsOf(r) THEN r.y + r.h
                                                       ELSE [k \in Columns |-> SkylineOf(k)][c]]
      BY <3>2 DEF Lowered
    <3>4. \A c \in ColumnsOf(r) : [k \in Columns |-> SkylineOf(k)][c] <= r.y
      BY <3>1
    <3>5. Packing!Place(r)
      BY <3>1, <3>3, <3>4, <1>0 DEF Packing!Place, Packing!Fits
    <3>6. Packing!Next
      BY <3>1, <3>5, <1>0 DEF Packing!Next
    <3>. QED
      BY <3>6
  <2>2. CASE UNCHANGED <<nodes, regions>>
    BY <2>2 DEF Packing!vars, SkylineOf
  <2>. QED
    BY <2>1, <2>2 DEF Next, Upload, SetAllDirty, vars
<1>. QED
  BY <1>1, <1>2, AtlasInvariantHolds, PTL DEF Spec, ImplementsSkyline, Packing!Spec

\* The proofs about Skyline, of the heights of the list of nodes.
Placing == INSTANCE SkylineProofs WITH skyline <- [c \in Columns |-> SkylineOf(c)]

(***************************************************************************)
(* So AtlasAllocator never gives out a pixel twice, nor one of the border: *)
(* what is proved of every packing on a skyline holds of its list of nodes.*)
(***************************************************************************)
THEOREM GlyphsNeverOverlap == Spec => [](RegionsAreDisjoint /\ RegionsAreInside)
<1>1. Packing!Init => Placing!Init
  BY DEF Packing!Init, Placing!Init, Packing!Columns, Placing!Columns
<1>2. [Packing!Next]_(Packing!vars) => [Placing!Next]_(Placing!vars)
  BY DEF Packing!Next, Placing!Next, Packing!vars, Placing!vars, Packing!Place, Placing!Place,
         Packing!Fits, Placing!Fits, Packing!Columns, Placing!Columns, Packing!Region,
         Placing!Region, Packing!ColumnsOf, Placing!ColumnsOf
<1>3. Packing!Spec => Placing!Spec
  BY <1>1, <1>2, PTL DEF Packing!Spec, Placing!Spec
<1>4. Placing!RegionsAreDisjoint /\ Placing!RegionsAreInside => RegionsAreDisjoint /\ RegionsAreInside
  BY DEF Placing!RegionsAreDisjoint, Placing!RegionsAreInside, RegionsAreDisjoint, RegionsAreInside,
         Placing!Disjoint, Disjoint, Placing!ColumnsOf, ColumnsOf, Placing!RowsOf, RowsOf,
         Placing!Columns, Columns
<1>5. Placing!Spec => []Placing!RegionsAreDisjoint
  BY BitmapAssumption, Placing!RegionsNeverOverlap
<1>6. Placing!Spec => []Placing!RegionsAreInside
  BY BitmapAssumption, Placing!RegionsStayInside
<1>. QED
  BY <1>3, <1>4, <1>5, <1>6, AllocatorImplementsSkyline, PTL DEF ImplementsSkyline

-----------------------------------------------------------------------------
(* TextAtlas: the terms of its invariant *)

\* The lists of bitmaps without a hole, and the arrays of textures.
Lists == UNION {[0 .. n - 1 -> Bitmap] : n \in Nat}
TextureArrays == [slots : [Slots -> SUBSET Keys], made : SUBSET (0 .. TexturesPerAtlas - 1)]
Arrays(ts) == DOMAIN ts \subseteq Nat /\ \A g \in DOMAIN ts : ts[g] \in TextureArrays

\* The current bitmap is one of the list, or there is none yet.
CurrentOf(b, cur) == cur \in Nat /\ (cur \in DOMAIN b \/ (b \in [0 .. -1 -> Bitmap] /\ cur = 0))

\* The glyph is on the texture of the bitmap's slot.
Shown(ts, i, key) == /\ GroupOf(i) \in DOMAIN ts
                     /\ key \in ts[GroupOf(i)].slots[SlotOf(i)]
                     /\ TextureOf(SlotOf(i)) \in ts[GroupOf(i)].made

\* What is not on the texture is in the rows still to be copied.
Mirrored(b, ts) == \A i \in DOMAIN b : \A key \in b[i].glyphs :
                       b[i].all \/ key \in b[i].dirty \/ Shown(ts, i, key)

\* Only a first bitmap can be empty: another one is made to put a glyph in it.
NoneEmpty(b) == \A i \in DOMAIN b : b[i].glyphs = {} => i = 0 /\ DOMAIN b = {0}

-----------------------------------------------------------------------------
(* Numbers of bitmaps                                                      *)

\* A group has slots.
LEMMA Sizes == PerAtlas \in Nat \ {0} /\ BitmapsPerTexture \in Nat \ {0}
  BY TextAtlasAssumption DEF PerAtlas

\* The group and the slot tell the bitmap.
LEMMA GroupsAndSlots ==
  ASSUME NEW i \in Nat
  PROVE  /\ GroupOf(i) \in Nat /\ SlotOf(i) \in Slots
         /\ i = GroupOf(i) * PerAtlas + SlotOf(i)
         /\ TextureOf(SlotOf(i)) \in 0 .. TexturesPerAtlas - 1
<1>1. PICK P \in Nat \ {0} : P = PerAtlas
  BY Sizes
<1>2. i \div P \in Nat /\ i % P \in 0 .. P - 1 /\ i = (i \div P) * P + (i % P)
  OBVIOUS
<1>3. PICK B \in Nat \ {0}, T \in Nat \ {0} : B = BitmapsPerTexture /\ T = TexturesPerAtlas
  BY TextAtlasAssumption
<1>4. \A s \in 0 .. B * T - 1 : s \div B \in 0 .. T - 1
  <2>. TAKE s \in 0 .. B * T - 1
  <2>1. PICK q \in Nat : q = s \div B
    OBVIOUS
  <2>2. q * B <= s
    BY <2>1
  <2>3. q >= T => q * B >= T * B
    OBVIOUS
  <2>. QED
    BY <2>1, <2>2, <2>3
<1>5. GroupOf(i) = i \div P /\ SlotOf(i) = i % P /\ Slots = 0 .. P - 1 /\ P = B * T
  BY <1>1, <1>3 DEF GroupOf, SlotOf, Slots, PerAtlas
<1>6. TextureOf(SlotOf(i)) = (i % P) \div B
  BY <1>3, <1>5 DEF TextureOf
<1>. QED
  BY <1>1, <1>2, <1>3, <1>4, <1>5, <1>6

\* The bitmaps of the first group are its slots.
LEMMA FirstGroup ==
  ASSUME NEW i \in Slots
  PROVE  i \in Nat /\ GroupOf(i) = 0 /\ SlotOf(i) = i
<1>1. PICK P \in Nat \ {0} : P = PerAtlas
  BY Sizes
<1>2. i \in 0 .. P - 1
  BY <1>1 DEF Slots
<1>3. i \div P = 0 /\ i % P = i
  BY <1>2
<1>. QED
  BY <1>1, <1>2, <1>3 DEF GroupOf, SlotOf

\* Every group up to that of a bitmap begins with an earlier one.
LEMMA GroupsBegin ==
  ASSUME NEW i \in Nat, NEW g \in 0 .. GroupOf(i)
  PROVE  \E j \in 0 .. i : GroupOf(j) = g /\ TextureOf(SlotOf(j)) = 0
<1>1. PICK P \in Nat \ {0} : P = PerAtlas
  BY Sizes
<1>2. PICK h \in Nat : h = GroupOf(i)
  BY GroupsAndSlots
<1>3. g \in Nat /\ g <= h /\ i >= h * P
  <2>1. SlotOf(i) >= 0 /\ SlotOf(i) \in Int /\ i = h * P + SlotOf(i)
    BY <1>1, <1>2, GroupsAndSlots DEF Slots
  <2>. QED
    BY <2>1, <1>2
<1>4. g * P \in Nat /\ g * P <= h * P
  BY <1>3
<1>5. (g * P) \div P = g /\ (g * P) % P = 0
  BY <1>3
<1>6. PICK B \in Nat \ {0} : B = BitmapsPerTexture
  BY Sizes
<1>7. 0 \div B = 0
  OBVIOUS
<1>8. g * P \in 0 .. i
  BY <1>3, <1>4
<1>9. GroupOf(g * P) = g /\ TextureOf(SlotOf(g * P)) = 0
  BY <1>1, <1>5, <1>6, <1>7 DEF GroupOf, SlotOf, TextureOf
<1>. QED
  BY <1>8, <1>9

\* The size of a list.
LEMMA SizeOfList ==
  ASSUME NEW n \in Nat, NEW b \in [0 .. n - 1 -> Bitmap]
  PROVE  Size(b) = n /\ DOMAIN b = 0 .. n - 1
<1>1. Cardinality(0 .. n - 1) = n
  BY FS_Interval
<1>. QED
  BY <1>1 DEF Size

\* What has a size is not empty.
LEMMA HoldsSomething ==
  ASSUME NEW S, Cardinality(S) > 0
  PROVE  S # {}
<1>1. Cardinality({}) = 0
  BY FS_EmptySet
<1>2. S = {} => Cardinality(S) = Cardinality({})
  OBVIOUS
<1>. QED
  BY <1>1, <1>2

-----------------------------------------------------------------------------
(* Placing glyphs                                                          *)

\* An atlas under work, as good as the one there is.
Good(a) == /\ a \in [b : Lists, cur : Nat]
           /\ CurrentOf(a.b, a.cur)
           /\ Mirrored(a.b, textures)
           /\ NoneEmpty(a.b)

\* The second list holds at least what the first holds.
Extends(b, c) == /\ DOMAIN b \subseteq DOMAIN c
                 /\ \A i \in DOMAIN b : b[i].glyphs \subseteq c[i].glyphs

\* A bitmap is made where the current one is missing; nothing else changes.
LEMMA CurrentIsThere ==
  ASSUME NEW n \in Nat, NEW b \in [0 .. n - 1 -> Bitmap], Mirrored(b, textures), NEW cur \in 0 .. n,
         NEW c, c = WithCurrent([b |-> b, cur |-> cur])
  PROVE  /\ c.cur = cur /\ cur \in DOMAIN c.b
         /\ \E m \in Nat : m > 0 /\ c.b \in [0 .. m - 1 -> Bitmap]
         /\ Mirrored(c.b, textures) /\ Extends(b, c.b)
         /\ \A i \in DOMAIN c.b : IF i \in DOMAIN b THEN c.b[i] = b[i] ELSE i = cur /\ cur = n
<1>. DEFINE f == [i \in DOMAIN b \cup {cur} |-> IF i \in DOMAIN b THEN b[i] ELSE NewBitmap]
            m == IF cur = n THEN n + 1 ELSE n
<1>1. c = [b |-> f, cur |-> cur]
  BY DEF WithCurrent
<1>2. NewBitmap \in Bitmap /\ NewBitmap.glyphs = {}
  BY DEF NewBitmap, Bitmap
<1>3. /\ m \in Nat /\ m > 0
      /\ DOMAIN b \cup {cur} = 0 .. m - 1
  OBVIOUS
<1>4. f \in [0 .. m - 1 -> Bitmap]
  BY <1>2, <1>3
<1>5. \A i \in DOMAIN f : IF i \in DOMAIN b THEN f[i] = b[i] ELSE i = cur /\ cur = n /\ f[i] = NewBitmap
  OBVIOUS
<1>6. DOMAIN b \subseteq DOMAIN f /\ cur \in DOMAIN f
  OBVIOUS
<1>. HIDE DEF f, m
<1>7. Mirrored(f, textures)
  BY <1>2, <1>5, <1>6 DEF Mirrored
<1>8. Extends(b, f)
  BY <1>5, <1>6 DEF Extends
<1>9. c.b = f /\ c.cur = cur
  BY <1>1
<1>. QED
  BY <1>3, <1>4, <1>5, <1>6, <1>7, <1>8, <1>9

\* A glyph put into the current bitmap is dirty there.
LEMMA PutIsGood ==
  ASSUME NEW m \in Nat, NEW b \in [0 .. m - 1 -> Bitmap], Mirrored(b, textures), NEW cur \in DOMAIN b,
         \A i \in DOMAIN b : b[i].glyphs = {} => i = cur,
         NEW key \in Keys, NEW a, a = Put([b |-> b, cur |-> cur], key)
  PROVE  Good(a) /\ Extends(b, a.b) /\ Holders(a, key) # {}
<1>. DEFINE bm == Add(b[cur], key)
            f == [b EXCEPT ![cur] = bm]
<1>1. a = [b |-> f, cur |-> cur]
  BY DEF Put
<1>2. DOMAIN b = 0 .. m - 1 /\ b[cur] \in Bitmap
  OBVIOUS
<1>3. /\ bm \in Bitmap /\ bm.all = b[cur].all
      /\ bm.glyphs = b[cur].glyphs \cup {key} /\ bm.dirty = b[cur].dirty \cup {key}
  BY <1>2 DEF Add, Bitmap
<1>. HIDE DEF bm
<1>4. f \in [0 .. m - 1 -> Bitmap] /\ DOMAIN f = DOMAIN b /\ f[cur] = bm
      /\ \A i \in DOMAIN b : i # cur => f[i] = b[i]
  BY <1>3
<1>. HIDE DEF f
<1>5. f \in Lists /\ cur \in Nat /\ CurrentOf(f, cur)
  BY <1>2, <1>4 DEF Lists, CurrentOf
<1>6. Mirrored(f, textures)
  BY <1>3, <1>4 DEF Mirrored
<1>7. NoneEmpty(f)
  BY <1>3, <1>4 DEF NoneEmpty
<1>8. Extends(b, f)
  BY <1>3, <1>4 DEF Extends
<1>9. cur \in DOMAIN f /\ key \in f[cur].glyphs
  BY <1>3, <1>4
<1>10. a.b = f /\ a.cur = cur /\ a \in [b : Lists, cur : Nat]
  BY <1>1, <1>5
<1>. QED
  BY <1>5, <1>6, <1>7, <1>8, <1>9, <1>10 DEF Good, Holders

\* Asking for one glyph keeps the atlas good and everything in it, and the
\* glyph is in it unless no bitmap can hold it.
LEMMA GlyphStep ==
  ASSUME NEW a, Good(a), NEW key \in Keys, NEW e \in AfterGlyph(a, key)
  PROVE  Good(e) /\ Extends(a.b, e.b) /\ (key \in Oversized \/ Holders(e, key) # {})
<1>1. PICK n \in Nat : a.b \in [0 .. n - 1 -> Bitmap]
  BY DEF Good, Lists
<1>2. Size(a.b) = n /\ DOMAIN a.b = 0 .. n - 1
  BY <1>1, SizeOfList
<1>3. PICK b \in [0 .. n - 1 -> Bitmap], cur \in 0 .. n : a = [b |-> b, cur |-> cur]
  <2>1. a.cur \in 0 .. n
    BY <1>2 DEF Good, CurrentOf
  <2>2. a = [b |-> a.b, cur |-> a.cur]
    BY DEF Good
  <2>. QED
    BY <2>1, <2>2, <1>1
<1>4. /\ a.b = b /\ a.cur = cur /\ DOMAIN b = 0 .. n - 1 /\ Size(b) = n
      /\ Mirrored(b, textures) /\ NoneEmpty(b)
      /\ cur \in DOMAIN b \/ (n = 0 /\ cur = 0)
  <2>1. b \in [0 .. -1 -> Bitmap] => n = 0
    BY <1>3
  <2>. QED
    BY <2>1, <1>2, <1>3 DEF Good, CurrentOf
<1>5. Extends(b, b)
  BY DEF Extends
<1>6. PICK c : c = WithCurrent(a)
  OBVIOUS
<1>7. /\ c.cur = cur /\ cur \in DOMAIN c.b /\ Mirrored(c.b, textures) /\ Extends(b, c.b)
      /\ \A i \in DOMAIN c.b : IF i \in DOMAIN b THEN c.b[i] = b[i] ELSE i = cur /\ cur = n
  BY <1>3, <1>4, <1>6, CurrentIsThere
<1>8. PICK m \in Nat : m > 0 /\ c.b \in [0 .. m - 1 -> Bitmap]
  BY <1>3, <1>4, <1>6, CurrentIsThere
<1>9. c = [b |-> c.b, cur |-> cur]
  BY <1>3, <1>6 DEF WithCurrent
<1>10. c.b \in Lists /\ Size(c.b) = m /\ DOMAIN c.b = 0 .. m - 1
  BY <1>8, SizeOfList DEF Lists
<1>11. NoneEmpty(c.b)
  <2>1. CASE n = 0
    <3>1. DOMAIN c.b = {0}
      BY <2>1, <1>4, <1>7, <1>10
    <3>. QED
      BY <3>1 DEF NoneEmpty
  <2>2. CASE n # 0
    <3>1. cur \in DOMAIN b /\ cur # n
      BY <2>2, <1>4
    <3>2. DOMAIN c.b = DOMAIN b /\ \A i \in DOMAIN b : c.b[i] = b[i]
      BY <3>1, <1>7 DEF Extends
    <3>. QED
      BY <3>2, <1>4 DEF NoneEmpty
  <2>. QED
    BY <2>1, <2>2
<1>12. CASE Found(a, key)
  <2>1. e = a
    BY <1>12 DEF AfterGlyph
  <2>. QED
    BY <2>1, <1>4, <1>5, <1>12 DEF Found
<1>13. CASE ~Found(a, key) /\ key \in Oversized
  <2>1. e = c
    BY <1>6, <1>13 DEF AfterGlyph
  <2>2. Good(c)
    BY <1>7, <1>9, <1>10, <1>11 DEF Good, CurrentOf
  <2>. QED
    BY <2>1, <2>2, <1>4, <1>7, <1>13
<1>14. CASE ~Found(a, key) /\ key \notin Oversized
  <2>1. \/ e = Put(c, key)
        \/ Cardinality(c.b[cur].glyphs) > 0 /\ e = Put(NextBitmap(c), key)
    BY <1>6, <1>7, <1>14 DEF AfterGlyph
  <2>2. CASE e = Put(c, key)
    <3>1. \A i \in DOMAIN c.b : c.b[i].glyphs = {} => i = cur
      BY <1>7, <1>10, <1>11 DEF NoneEmpty
    <3>2. Good(e) /\ Extends(c.b, e.b) /\ Holders(e, key) # {}
      BY <3>1, <2>2, <1>7, <1>8, <1>9, PutIsGood
    <3>. QED
      BY <3>2, <1>4, <1>7 DEF Extends
  <2>3. CASE Cardinality(c.b[cur].glyphs) > 0 /\ e = Put(NextBitmap(c), key)
    <3>1. c.b[cur].glyphs # {}
      BY <2>3, HoldsSomething
    <3>2. PICK d : d = WithCurrent([b |-> c.b, cur |-> m])
      OBVIOUS
    <3>3. NextBitmap(c) = d /\ d = [b |-> d.b, cur |-> m]
      BY <3>2, <1>10 DEF NextBitmap, WithCurrent
    <3>4. /\ m \in DOMAIN d.b /\ Mirrored(d.b, textures) /\ Extends(c.b, d.b)
          /\ \A i \in DOMAIN d.b : IF i \in DOMAIN c.b THEN d.b[i] = c.b[i] ELSE i = m
      <4>1. m \in 0 .. m
        OBVIOUS
      <4>. QED
        BY <4>1, <3>2, <1>7, <1>8, CurrentIsThere
    <3>5. PICK l \in Nat : d.b \in [0 .. l - 1 -> Bitmap]
      <4>1. m \in 0 .. m
        OBVIOUS
      <4>. QED
        BY <4>1, <3>2, <1>7, <1>8, CurrentIsThere
    <3>6. \A i \in DOMAIN c.b : c.b[i].glyphs # {}
      BY <3>1, <1>7, <1>10, <1>11 DEF NoneEmpty
    <3>7. \A i \in DOMAIN d.b : d.b[i].glyphs = {} => i = m
      BY <3>4, <3>6
    <3>8. Good(e) /\ Extends(d.b, e.b) /\ Holders(e, key) # {}
      BY <3>3, <3>4, <3>5, <3>7, <2>3, PutIsGood
    <3>9. Extends(c.b, d.b) /\ Extends(b, c.b)
      BY <3>4, <1>7
    <3>. QED
      BY <3>8, <3>9, <1>4 DEF Extends
  <2>. QED
    BY <2>1, <2>2, <2>3
<1>. QED
  BY <1>12, <1>13, <1>14

\* Asking for all the glyphs of a text, one after the other: nothing that was
\* there goes, and every glyph is in a bitmap unless none can hold it.
LEMMA TextStep ==
  ASSUME Good(Here), NEW text \in Seq(Keys), NEW e \in AfterText(text)
  PROVE  /\ Good(e) /\ Extends(bitmaps, e.b)
         /\ \A j \in 1 .. Len(text) : text[j] \in Oversized \/ Holders(e, text[j]) # {}
<1>. DEFINE Reached(a, k) == /\ Good(a) /\ Extends(bitmaps, a.b)
                             /\ \A j \in 1 .. k : text[j] \in Oversized \/ Holders(a, text[j]) # {}
            All == {a \in [b : Lists, cur : Nat] : Good(a)}
            Step(A, k) == UNION {AfterGlyph(a, text[k]) : a \in A}
            step == [p \in (1 .. Len(text)) \X SUBSET All |-> Step(p[2], p[1])]
            start == {Here}
<1>1. Len(text) \in Nat /\ \A k \in 1 .. Len(text) : text[k] \in Keys
  OBVIOUS
<1>2. \A a : Good(a) => a \in All
  BY DEF Good
<1>3. start \in SUBSET All
  BY <1>2
<1>4. ASSUME NEW A \in SUBSET All, NEW k \in 1 .. Len(text) PROVE Step(A, k) \in SUBSET All
  <2>1. ASSUME NEW d \in Step(A, k) PROVE d \in All
    <3>1. PICK a \in A : d \in AfterGlyph(a, text[k])
      BY <2>1
    <3>. QED
      BY <3>1, <1>1, <1>2, GlyphStep
  <2>. QED
    BY <2>1
<1>5. \A k \in 1 .. Len(text), A \in SUBSET All : step[<<k, A>>] = Step(A, k)
  OBVIOUS
<1>6. \A k \in 0 .. Len(text), A \in SUBSET All : k # 0 => step[<<k, A>>] \in SUBSET All
  <2>1. \A k \in 0 .. Len(text) : k # 0 => k \in 1 .. Len(text)
    BY <1>1
  <2>. HIDE DEF step, Step
  <2>. QED
    BY <2>1, <1>4, <1>5
<1>. HIDE DEF All, step, Step, start
<1>7. PICK f \in [0 .. Len(text) -> SUBSET All] : Recurs(f, 0, Len(text), start, step)
  <2>1. 0 \in Int /\ Len(text) \in Int
    BY <1>1
  <2>. QED
    BY <2>1, <1>3, <1>6, RecursionDefines, Zenon
<1>. DEFINE Defines(g) == g = [k \in 0 .. Len(text) |-> IF k = 0 THEN start ELSE Step(g[k - 1], k)]
            after == CHOOSE g : Defines(g)
<1>8. Defines(f)
  <2>1. ASSUME NEW k \in 0 .. Len(text), k # 0 PROVE step[<<k, f[k - 1]>>] = Step(f[k - 1], k)
    <3>1. k \in 1 .. Len(text) /\ k - 1 \in 0 .. Len(text)
      BY <2>1, <1>1
    <3>. QED
      BY <3>1, <1>5
  <2>. QED
    BY <1>7, <2>1 DEF Recurs
<1>9. AfterText(text) = after[Len(text)]
  BY DEF AfterText, start, Step
<1>10. Defines(after)
  BY <1>8
<1>. HIDE DEF after
<1>11. /\ after[0] = start
       /\ \A k \in 1 .. Len(text) : after[k] = Step(after[k - 1], k)
  <2>1. \A k \in 1 .. Len(text) : k \in 0 .. Len(text) /\ k # 0
    OBVIOUS
  <2>2. 0 \in 0 .. Len(text)
    BY <1>1
  <2>. QED
    BY <2>1, <2>2, <1>10
<1>. HIDE DEF Defines
<1>. DEFINE I == {k \in Nat : k <= Len(text) => \A a \in after[k] : Reached(a, k)}
<1>12. 0 \in I
  <2>1. Here.b = bitmaps /\ Extends(bitmaps, bitmaps)
    BY DEF Here, Extends
  <2>2. Reached(Here, 0)
    BY <2>1
  <2>. QED
    BY <2>2, <1>11 DEF start
<1>13. ASSUME NEW k \in Nat, k \in I PROVE k + 1 \in I
  <2>. SUFFICES ASSUME k + 1 <= Len(text), NEW d \in after[k + 1] PROVE Reached(d, k + 1)
    OBVIOUS
  <2>1. k + 1 \in 1 .. Len(text) /\ (k + 1) - 1 = k /\ k <= Len(text)
    BY <1>1
  <2>2. d \in Step(after[k], k + 1)
    BY <2>1, <1>11
  <2>3. PICK a \in after[k] : d \in AfterGlyph(a, text[k + 1])
    BY <2>2 DEF Step
  <2>4. Reached(a, k)
    BY <2>1, <2>3, <1>13
  <2>5. Good(d) /\ Extends(a.b, d.b) /\ (text[k + 1] \in Oversized \/ Holders(d, text[k + 1]) # {})
    BY <2>1, <2>3, <2>4, <1>1, GlyphStep
  <2>6. Extends(bitmaps, d.b)
    BY <2>4, <2>5 DEF Extends
  <2>7. ASSUME NEW j \in 1 .. k + 1 PROVE text[j] \in Oversized \/ Holders(d, text[j]) # {}
    <3>1. CASE j = k + 1
      BY <3>1, <2>5
    <3>2. CASE j \in 1 .. k
      BY <3>2, <2>4, <2>5 DEF Holders, Extends
    <3>. QED
      BY <3>1, <3>2
  <2>. QED
    BY <2>5, <2>6, <2>7
<1>14. Len(text) \in I
  <2>. HIDE DEF I
  <2>. QED BY <1>1, <1>12, <1>13, SetInduction
<1>. QED
  BY <1>1, <1>9, <1>14

-----------------------------------------------------------------------------
(* Uploading                                                               *)

\* After its group was uploaded, all that a bitmap holds is on its texture;
\* other groups are left alone, and no texture goes.
LEMMA UploadShows ==
  ASSUME NEW n \in Nat, NEW b \in [0 .. n - 1 -> Bitmap], Mirrored(b, textures), Arrays(textures),
         NEW gs \in SUBSET Nat, NEW up, up = UploadGroups(b, gs)
  PROVE  /\ Arrays(up)
         /\ \A g \in DOMAIN textures : /\ g \in DOMAIN up /\ textures[g].made \subseteq up[g].made
                                       /\ g \notin gs => up[g] = textures[g]
         /\ \A i \in DOMAIN b : \A key \in b[i].glyphs : GroupOf(i) \in gs => Shown(up, i, key)
<1>. DEFINE due == {g \in gs : DirtyIn(b, g) # {}}
            old(g) == IF g \in DOMAIN textures THEN textures[g] ELSE NoTextures
<1>1. up = [g \in DOMAIN textures \cup due |-> IF g \in due THEN UploadGroup(old(g), b, g)
                                                          ELSE textures[g]]
  BY DEF UploadGroups
<1>2. \A g : old(g) \in TextureArrays
  BY DEF Arrays, TextureArrays, NoTextures
<1>3. /\ DOMAIN up = DOMAIN textures \cup due
      /\ \A g \in due : up[g] = UploadGroup(old(g), b, g)
      /\ \A g \in DOMAIN textures : g \notin due => up[g] = textures[g]
      /\ \A g \in DOMAIN textures : old(g) = textures[g]
      /\ due \subseteq gs
  BY <1>1
<1>4. \A i \in DOMAIN b : i \in Nat /\ b[i] \in Bitmap
  OBVIOUS
<1>. HIDE DEF old, due
<1>5. ASSUME NEW g \in Nat, NEW o \in TextureArrays
      PROVE  /\ UploadGroup(o, b, g) \in TextureArrays
             /\ o.made \subseteq UploadGroup(o, b, g).made
             /\ \A s \in Slots : UploadGroup(o, b, g).slots[s] =
                    IF g * PerAtlas + s \in DirtyIn(b, g)
                    THEN UploadedOver(o.slots[s], b[g * PerAtlas + s]) ELSE o.slots[s]
             /\ MadeBy(b, g) \subseteq UploadGroup(o, b, g).made
  <2>1. MadeBy(b, g) \subseteq 0 .. TexturesPerAtlas - 1
    BY <1>4, GroupsAndSlots DEF MadeBy, DirtyIn, InGroup
  <2>2. ASSUME NEW s \in Slots, g * PerAtlas + s \in DirtyIn(b, g)
        PROVE  UploadedOver(o.slots[s], b[g * PerAtlas + s]) \in SUBSET Keys
    BY <2>2, <1>4 DEF UploadedOver, DirtyIn, InGroup, TextureArrays, Bitmap
  <2>. DEFINE slots == [s \in Slots |-> IF g * PerAtlas + s \in DirtyIn(b, g)
                                        THEN UploadedOver(o.slots[s], b[g * PerAtlas + s])
                                        ELSE o.slots[s]]
  <2>3. slots \in [Slots -> SUBSET Keys]
    BY <2>2 DEF TextureArrays
  <2>4. UploadGroup(o, b, g) = [slots |-> slots, made |-> o.made \cup MadeBy(b, g)]
    BY DEF UploadGroup
  <2>5. \A s \in Slots : slots[s] = IF g * PerAtlas + s \in DirtyIn(b, g)
                                    THEN UploadedOver(o.slots[s], b[g * PerAtlas + s])
                                    ELSE o.slots[s]
    OBVIOUS
  <2>. HIDE DEF slots
  <2>. QED
    BY <2>1, <2>3, <2>4, <2>5 DEF TextureArrays
<1>6. \A g \in DOMAIN up : /\ g \in Nat /\ up[g] \in TextureArrays
                           /\ g \in DOMAIN textures => textures[g].made \subseteq up[g].made
  <2>. TAKE g \in DOMAIN up
  <2>1. CASE g \in due
    <3>1. g \in Nat /\ old(g) \in TextureArrays /\ up[g] = UploadGroup(old(g), b, g)
      BY <2>1, <1>2, <1>3
    <3>2. up[g] \in TextureArrays /\ old(g).made \subseteq up[g].made
      BY <3>1, <1>5
    <3>. QED
      BY <3>1, <3>2, <1>3
  <2>2. CASE g \notin due
    BY <2>2, <1>3 DEF Arrays
  <2>. QED
    BY <2>1, <2>2
<1>7. /\ Arrays(up)
      /\ \A g \in DOMAIN textures : /\ g \in DOMAIN up /\ textures[g].made \subseteq up[g].made
                                    /\ g \notin gs => up[g] = textures[g]
  <2>1. Arrays(up)
    BY <1>6 DEF Arrays
  <2>2. \A g \in DOMAIN textures : g \in DOMAIN up
    BY <1>3
  <2>3. \A g \in DOMAIN textures : g \notin gs => up[g] = textures[g]
    BY <1>3
  <2>. QED
    BY <2>1, <2>2, <2>3, <1>6
<1>8. ASSUME NEW i \in DOMAIN b, NEW key \in b[i].glyphs, GroupOf(i) \in gs PROVE Shown(up, i, key)
  <2>. DEFINE g == GroupOf(i)
              s == SlotOf(i)
  <2>1. /\ g \in Nat /\ s \in Slots /\ i = g * PerAtlas + s
        /\ TextureOf(s) \in 0 .. TexturesPerAtlas - 1
    BY <1>4, GroupsAndSlots
  <2>2. CASE i \in DirtyIn(b, g)
    <3>1. g \in due /\ TextureOf(s) \in MadeBy(b, g)
      BY <2>2, <1>8 DEF due, MadeBy
    <3>2. /\ up[g].slots[s] = UploadedOver(old(g).slots[s], b[i])
          /\ TextureOf(s) \in up[g].made
      BY <3>1, <2>1, <2>2, <1>2, <1>3, <1>5
    <3>3. key \in UploadedOver(old(g).slots[s], b[i])
      BY <1>3, <1>8 DEF UploadedOver, Mirrored, Shown
    <3>. QED
      BY <3>1, <3>2, <3>3, <1>3 DEF Shown
  <2>3. CASE i \notin DirtyIn(b, g)
    <3>1. ~b[i].all /\ b[i].dirty = {}
      BY <2>3 DEF DirtyIn, InGroup
    <3>2. Shown(textures, i, key)
      BY <3>1, <1>8 DEF Mirrored
    <3>3. CASE g \in due
      <4>1. up[g].slots[s] = old(g).slots[s] /\ old(g).made \subseteq up[g].made
        BY <3>3, <2>1, <2>3, <1>2, <1>3, <1>5
      <4>. QED
        BY <4>1, <3>2, <3>3, <1>3 DEF Shown
    <3>4. CASE g \notin due
      BY <3>2, <3>4, <1>3 DEF Shown
    <3>. QED
      BY <3>3, <3>4
  <2>. QED
    BY <2>2, <2>3
<1>. QED
  BY <1>7, <1>8

\* The list after the upload: it holds what it held, and the textures mirror it.
LEMMA CleanedIsGood ==
  ASSUME NEW n \in Nat, NEW b \in [0 .. n - 1 -> Bitmap], Mirrored(b, textures), Arrays(textures),
         NEW gs \in SUBSET Nat, NEW up, up = UploadGroups(b, gs),
         NEW c, c = Cleaned(b, gs)
  PROVE  /\ c \in [0 .. n - 1 -> Bitmap]
         /\ \A i \in DOMAIN b : c[i].glyphs = b[i].glyphs
         /\ Mirrored(c, up)
<1>1. \A bm \in Bitmap : LET e == [bm EXCEPT !.dirty = {}, !.all = FALSE]
                         IN  e \in Bitmap /\ e.glyphs = bm.glyphs
  BY DEF Bitmap
<1>2. DOMAIN b = 0 .. n - 1 /\ \A i \in DOMAIN b : b[i] \in Bitmap /\ i \in Nat
  OBVIOUS
<1>3. DOMAIN c = DOMAIN b /\ \A i \in DOMAIN b :
          c[i] = IF GroupOf(i) \in gs THEN [b[i] EXCEPT !.dirty = {}, !.all = FALSE] ELSE b[i]
  BY DEF Cleaned
<1>4. \A i \in DOMAIN b : c[i] \in Bitmap /\ c[i].glyphs = b[i].glyphs
  BY <1>1, <1>2, <1>3
<1>5. c = [i \in 0 .. n - 1 |-> c[i]]
  BY <1>2 DEF Cleaned
<1>6. ASSUME NEW i \in DOMAIN c, NEW key \in c[i].glyphs
      PROVE  c[i].all \/ key \in c[i].dirty \/ Shown(up, i, key)
  <2>1. i \in DOMAIN b /\ key \in b[i].glyphs
    BY <1>3, <1>4
  <2>2. CASE GroupOf(i) \in gs
    BY <2>1, <2>2, UploadShows
  <2>3. CASE GroupOf(i) \notin gs
    <3>1. c[i] = b[i]
      BY <2>1, <2>3, <1>3
    <3>2. \A g \in DOMAIN textures : g \in DOMAIN up /\ (g \notin gs => up[g] = textures[g])
      BY UploadShows
    <3>. QED
      BY <3>1, <3>2, <2>1, <2>3 DEF Mirrored, Shown
  <2>. QED
    BY <2>2, <2>3
<1>. QED
  BY <1>2, <1>4, <1>5, <1>6 DEF Mirrored

-----------------------------------------------------------------------------
(* The inductive invariant                                                 *)

\* A draw samples a slot whose bitmap still holds the glyph, and shows it.
DrawsShow ==
    \A d \in draws : \E i \in DOMAIN bitmaps : /\ d = DrawOf(i, d.key)
                                               /\ d.key \in bitmaps[i].glyphs
                                               /\ Shown(textures, i, d.key)

GroupsMade == \A g \in groups : g \in DOMAIN textures /\ 0 \in textures[g].made

TextAtlasInv == /\ bitmaps \in Lists /\ CurrentOf(bitmaps, current)
            /\ leastUsed \in Slots
            /\ Arrays(textures)
            /\ groups \subseteq Nat
            /\ Mirrored(bitmaps, textures)
            /\ NoneEmpty(bitmaps)
            /\ DrawsShow
            /\ GroupsMade

LEMMA InitInv == AtlasInit => TextAtlasInv
<1>. SUFFICES ASSUME AtlasInit PROVE TextAtlasInv
  OBVIOUS
<1>. USE DEF AtlasInit
<1>1. DOMAIN bitmaps = {} /\ DOMAIN textures = {} /\ draws = {} /\ groups = {} /\ current = 0
  OBVIOUS
<1>2. bitmaps \in [0 .. 0 - 1 -> Bitmap] /\ 0 .. -1 = {}
  OBVIOUS
<1>3. leastUsed \in Slots
  BY Sizes DEF Slots
<1>4. bitmaps \in Lists /\ CurrentOf(bitmaps, current)
  <2>1. bitmaps \in [0 .. -1 -> Bitmap]
    BY <1>2
  <2>. QED
    BY <2>1, <1>1, <1>2 DEF Lists, CurrentOf
<1>. QED
  BY <1>1, <1>3, <1>4 DEF TextAtlasInv, Arrays, Mirrored, NoneEmpty, DrawsShow, GroupsMade

\* The glyph of a text is in the bitmap whose index is asked for.
LEMMA IndexHolds ==
  ASSUME NEW a, NEW key, Holders(a, key) # {}
  PROVE  IndexOf(a.b, key) \in DOMAIN a.b /\ key \in a.b[IndexOf(a.b, key)].glyphs
  BY DEF Holders, IndexOf

\* No draw of the frame loses its glyph to a later one.
LEMMA DrawStep ==
  ASSUME TextAtlasInv, NEW text \in Seq(Keys), DrawText(text)
  PROVE  TextAtlasInv'
<1>1. Good(Here)
  <2>1. Here = [b |-> bitmaps, cur |-> current]
    BY DEF Here
  <2>2. Here.b = bitmaps /\ Here.cur = current /\ current \in Nat
    BY <2>1 DEF TextAtlasInv, CurrentOf
  <2>. QED
    BY <2>1, <2>2 DEF TextAtlasInv, Good
<1>. DEFINE drawn == ToSet(text) \ Oversized
            Index(a, key) == IndexOf(a.b, key)
            Indices(a) == {Index(a, key) : key \in drawn}
<1>2. PICK a \in AfterText(text) :
          /\ current' = a.cur
          /\ bitmaps' = Cleaned(a.b, GroupsOf(Indices(a)))
          /\ textures' = UploadGroups(a.b, GroupsOf(Indices(a)))
          /\ draws' = draws \cup {DrawOf(Index(a, key), key) : key \in drawn}
          /\ groups' = groups \cup GroupsOf(Indices(a))
          /\ leastUsed' = leastUsed
  BY DEF DrawText
<1>3. /\ Good(a) /\ Extends(bitmaps, a.b)
      /\ \A j \in 1 .. Len(text) : text[j] \in Oversized \/ Holders(a, text[j]) # {}
  BY <1>1, TextStep
<1>4. PICK n \in Nat : a.b \in [0 .. n - 1 -> Bitmap]
  BY <1>3 DEF Good, Lists
<1>5. PICK b \in [0 .. n - 1 -> Bitmap] : b = a.b
  BY <1>4
<1>6. /\ Mirrored(b, textures) /\ NoneEmpty(b) /\ Extends(bitmaps, b)
      /\ CurrentOf(b, current') /\ DOMAIN b = 0 .. n - 1
  BY <1>2, <1>3, <1>5 DEF Good
<1>7. ASSUME NEW key \in drawn PROVE Index(a, key) \in DOMAIN b /\ key \in b[Index(a, key)].glyphs
  <2>1. PICK j \in 1 .. Len(text) : key = text[j]
    BY DEF ToSet
  <2>2. Holders(a, key) # {}
    BY <2>1, <1>3
  <2>. QED
    BY <2>2, <1>5, IndexHolds
<1>. DEFINE gs == GroupsOf(Indices(a))
<1>8. gs \in SUBSET Nat /\ \A key \in drawn : GroupOf(Index(a, key)) \in gs
  <2>1. \A key \in drawn : GroupOf(Index(a, key)) \in Nat
    BY <1>6, <1>7, GroupsAndSlots
  <2>. QED
    BY <2>1 DEF GroupsOf
<1>9. \A g \in gs : \E key \in drawn : g \in 0 .. GroupOf(Index(a, key))
  BY DEF GroupsOf
<1>. HIDE DEF drawn, Index, gs, Indices
<1>10. /\ bitmaps' = Cleaned(b, gs) /\ textures' = UploadGroups(b, gs) /\ groups' = groups \cup gs
       /\ draws' = draws \cup {DrawOf(Index(a, key), key) : key \in drawn}
  BY <1>2, <1>5 DEF gs
<1>11. Arrays(textures)
  BY DEF TextAtlasInv
<1>12. /\ Arrays(textures')
       /\ \A g \in DOMAIN textures : /\ g \in DOMAIN textures' /\ textures[g].made \subseteq textures'[g].made
                                     /\ g \notin gs => textures'[g] = textures[g]
       /\ \A i \in DOMAIN b : \A key \in b[i].glyphs : GroupOf(i) \in gs => Shown(textures', i, key)
  BY <1>6, <1>8, <1>10, <1>11, UploadShows
<1>13. /\ bitmaps' \in [0 .. n - 1 -> Bitmap]
       /\ \A i \in DOMAIN b : bitmaps'[i].glyphs = b[i].glyphs
       /\ Mirrored(bitmaps', textures')
  BY <1>6, <1>8, <1>10, <1>11, CleanedIsGood
<1>14. DOMAIN bitmaps' = DOMAIN b
  BY <1>6, <1>13
<1>15. bitmaps' \in Lists /\ CurrentOf(bitmaps', current')
  <2>1. CASE current' \in DOMAIN b
    BY <2>1, <1>6, <1>13, <1>14 DEF Lists, CurrentOf
  <2>2. CASE b \in [0 .. -1 -> Bitmap] /\ current' = 0
    <3>1. DOMAIN b = 0 .. -1
      BY <2>2
    <3>2. 0 .. n - 1 = 0 .. -1
      BY <3>1, <1>6
    <3>3. bitmaps' \in [0 .. -1 -> Bitmap]
      BY <3>2, <1>13
    <3>. QED
      BY <3>3, <2>2, <1>13 DEF Lists, CurrentOf
  <2>. QED
    BY <2>1, <2>2, <1>6 DEF CurrentOf
<1>16. NoneEmpty(bitmaps')
  BY <1>6, <1>13, <1>14 DEF NoneEmpty
<1>17. ASSUME NEW d \in draws'
       PROVE  \E i \in DOMAIN b : d = DrawOf(i, d.key) /\ d.key \in b[i].glyphs /\ Shown(textures', i, d.key)
  <2>1. CASE d \in draws
    <3>1. PICK i \in DOMAIN bitmaps : /\ d = DrawOf(i, d.key) /\ d.key \in bitmaps[i].glyphs
                                      /\ Shown(textures, i, d.key)
      BY <2>1 DEF TextAtlasInv, DrawsShow
    <3>2. i \in DOMAIN b /\ d.key \in b[i].glyphs
      BY <3>1, <1>6 DEF Extends
    <3>3. Shown(textures', i, d.key)
      BY <3>1, <3>2, <1>12 DEF Shown
    <3>. QED
      BY <3>1, <3>2, <3>3
  <2>2. CASE d \notin draws
    <3>1. PICK key \in drawn : d = DrawOf(Index(a, key), key)
      BY <2>2, <1>10
    <3>2. d.key = key
      BY <3>1 DEF DrawOf
    <3>. QED
      BY <3>1, <3>2, <1>7, <1>8, <1>12
  <2>. QED
    BY <2>1, <2>2
<1>18. DrawsShow'
  BY <1>13, <1>14, <1>17 DEF DrawsShow
<1>19. ASSUME NEW g \in groups' PROVE g \in DOMAIN textures' /\ 0 \in textures'[g].made
  <2>1. CASE g \in groups
    BY <2>1, <1>12 DEF TextAtlasInv, GroupsMade
  <2>2. CASE g \in gs
    <3>1. PICK key \in drawn : g \in 0 .. GroupOf(Index(a, key))
      BY <2>2, <1>9
    <3>2. PICK i \in DOMAIN b : i = Index(a, key) /\ key \in b[i].glyphs
      BY <1>7
    <3>3. PICK j \in 0 .. i : GroupOf(j) = g /\ TextureOf(SlotOf(j)) = 0
      BY <3>1, <3>2, <1>6, GroupsBegin
    <3>4. j \in DOMAIN b
      BY <3>2, <1>6
    <3>5. b[j].glyphs # {}
      BY <3>2, <3>4, <1>6 DEF NoneEmpty
    <3>6. PICK k \in b[j].glyphs : Shown(textures', j, k)
      BY <3>3, <3>4, <3>5, <2>2, <1>12
    <3>. QED
      BY <3>3, <3>6 DEF Shown
  <2>. QED
    BY <2>1, <2>2, <1>10
<1>20. GroupsMade' /\ groups' \subseteq Nat
  BY <1>8, <1>10, <1>19 DEF GroupsMade, TextAtlasInv
<1>21. leastUsed' \in Slots
  BY <1>2 DEF TextAtlasInv
<1>. QED
  BY <1>12, <1>13, <1>15, <1>16, <1>18, <1>20, <1>21 DEF TextAtlasInv

-----------------------------------------------------------------------------
(* The end of a frame                                                      *)

\* Bitmaps that take a slot of the first group are dirty all over; the others
\* of the group stay with its textures.
LEMMA FrontIsMirrored ==
  ASSUME Mirrored(bitmaps, textures), Arrays(textures),
         NEW b, DOMAIN b \subseteq Slots,
         \A i \in DOMAIN b : b[i].all \/ (i \in DOMAIN bitmaps /\ b[i] = bitmaps[i]),
         NEW ts, ts = [g \in DOMAIN textures \cap {0} |-> textures[g]]
  PROVE  Mirrored(b, ts) /\ Arrays(ts)
<1>1. \A i \in DOMAIN b : GroupOf(i) = 0
  BY FirstGroup
<1>2. ASSUME NEW i \in DOMAIN b, NEW key \in b[i].glyphs
      PROVE  b[i].all \/ key \in b[i].dirty \/ Shown(ts, i, key)
  BY <1>1 DEF Mirrored, Shown
<1>. QED
  BY <1>2 DEF Mirrored, Arrays

\* One bitmap takes the slot of the least used one, which goes to the end.
LEMMA ReplaceStep ==
  ASSUME NEW n \in Nat, NEW b \in [0 .. n - 1 -> Bitmap], NEW cur \in Nat, NEW least \in Slots,
         NEW i \in 0 .. n - 1, PerAtlas <= i,
         NEW e, e = ReplaceLeastUsed([b |-> b, cur |-> cur, least |-> least], i)
  PROVE  /\ e.b \in [0 .. n - 1 -> Bitmap]
         /\ \A j \in 0 .. n - 1 : e.b[j].glyphs = IF j = least THEN b[i].glyphs
                                                  ELSE IF j = i THEN b[least].glyphs ELSE b[j].glyphs
         /\ e.b[least].all /\ \A j \in 0 .. n - 1 : j \notin {least, i} => e.b[j] = b[j]
         /\ e.cur = IF i = cur THEN least ELSE cur
         /\ e.least \in Slots
         /\ e = [b |-> e.b, cur |-> e.cur, least |-> e.least]
<1>1. PICK P \in Nat \ {0} : P = PerAtlas /\ Slots = 0 .. P - 1
  BY Sizes DEF Slots
<1>2. least \in 0 .. P - 1 /\ P <= i /\ least # i /\ least \in 0 .. n - 1
  BY <1>1
<1>3. (least + 1) % P \in 0 .. P - 1
  BY <1>1, <1>2
<1>4. b[i] \in Bitmap /\ b[least] \in Bitmap
  BY <1>2
<1>5. PICK bm : bm = [b[i] EXCEPT !.all = TRUE]
  OBVIOUS
<1>6. bm \in Bitmap /\ bm.glyphs = b[i].glyphs /\ bm.all
  BY <1>4, <1>5 DEF Bitmap
<1>7. PICK f \in [0 .. n - 1 -> Bitmap] :
          /\ f = Swap(Dirtied(b, i), least, i)
          /\ f[least] = bm /\ f[i] = b[least]
          /\ \A j \in 0 .. n - 1 : j \notin {least, i} => f[j] = b[j]
  <2>1. PICK d : d = [b EXCEPT ![i] = bm]
    OBVIOUS
  <2>2. Dirtied(b, i) = d
    BY <1>5, <2>1 DEF Dirtied
  <2>3. d \in [0 .. n - 1 -> Bitmap] /\ d[i] = bm /\ \A j \in 0 .. n - 1 : j # i => d[j] = b[j]
    BY <1>6, <2>1
  <2>4. PICK f : f = [d EXCEPT ![least] = d[i], ![i] = d[least]]
    OBVIOUS
  <2>5. Swap(Dirtied(b, i), least, i) = f
    BY <2>2, <2>4 DEF Swap
  <2>6. /\ f \in [0 .. n - 1 -> Bitmap] /\ f[least] = d[i] /\ f[i] = d[least]
        /\ \A j \in 0 .. n - 1 : j \notin {least, i} => f[j] = d[j]
    BY <1>2, <2>3, <2>4
  <2>. QED
    BY <1>2, <2>3, <2>5, <2>6
<1>8. e = [b |-> f, cur |-> IF i = cur THEN least ELSE cur, least |-> (least + 1) % P]
  BY <1>1, <1>7 DEF ReplaceLeastUsed
<1>9. e.b = f /\ e.cur = (IF i = cur THEN least ELSE cur) /\ e.least = (least + 1) % P
  BY <1>8
<1>10. \A j \in 0 .. n - 1 : f[j].glyphs = IF j = least THEN b[i].glyphs
                                           ELSE IF j = i THEN b[least].glyphs ELSE b[j].glyphs
  BY <1>2, <1>6, <1>7
<1>. QED
  BY <1>1, <1>3, <1>6, <1>7, <1>8, <1>9, <1>10

\* The bitmaps beyond the first group take its slots one after the other: what
\* is left are the bitmaps of the first group, the current one among them.
LEMMA ReplaceOldestKeeps ==
  ASSUME TextAtlasInv, NEW n \in Nat, bitmaps \in [0 .. n - 1 -> Bitmap],
         PerAtlas < n, NEW e, e = ReplaceOldest
  PROVE  /\ e.b \in [Slots -> Bitmap] /\ e.cur \in Slots /\ e.least \in Slots
         /\ \A j \in Slots : e.b[j].glyphs # {} /\ (e.b[j].all \/ e.b[j] = bitmaps[j])
<1>1. PICK P \in Nat \ {0} : P = PerAtlas /\ Slots = 0 .. P - 1 /\ P < n
  BY Sizes DEF Slots
<1>2. Size(bitmaps) = n /\ DOMAIN bitmaps = 0 .. n - 1
  BY SizeOfList
<1>3. leastUsed \in Slots /\ current \in 0 .. n - 1
  <2>1. bitmaps \notin [0 .. -1 -> Bitmap]
    BY <1>1, <1>2
  <2>. QED
    BY <2>1, <1>2 DEF TextAtlasInv, CurrentOf
<1>4. \A j \in 0 .. n - 1 : bitmaps[j].glyphs # {}
  <2>1. 1 \in DOMAIN bitmaps
    BY <1>1, <1>2
  <2>2. DOMAIN bitmaps # {0}
    BY <2>1
  <2>. QED
    BY <2>2, <1>2 DEF TextAtlasInv, NoneEmpty
<1>. DEFINE Stages == [b : [0 .. n - 1 -> Bitmap], cur : Nat, least : Slots]
            start == [b |-> bitmaps, cur |-> current, least |-> leastUsed]
            step == [p \in (P .. n - 1) \X Stages |-> ReplaceLeastUsed(p[2], p[1])]
<1>5. start \in Stages
  BY <1>3
<1>6. ASSUME NEW s \in Stages, NEW i \in P .. n - 1 PROVE ReplaceLeastUsed(s, i) \in Stages
  <2>1. PICK b \in [0 .. n - 1 -> Bitmap], cur \in Nat, least \in Slots :
            s = [b |-> b, cur |-> cur, least |-> least]
    OBVIOUS
  <2>2. PICK f : f = ReplaceLeastUsed(s, i)
    OBVIOUS
  <2>3. /\ f.b \in [0 .. n - 1 -> Bitmap] /\ f.cur = (IF i = cur THEN least ELSE cur) /\ f.least \in Slots
        /\ f = [b |-> f.b, cur |-> f.cur, least |-> f.least]
    BY <2>1, <2>2, <1>1, ReplaceStep
  <2>4. f.cur \in Nat
    BY <2>3, <1>1
  <2>. QED
    BY <2>2, <2>3, <2>4
<1>7. \A i \in P .. n - 1, s \in Stages : step[<<i, s>>] = ReplaceLeastUsed(s, i)
  OBVIOUS
<1>8. \A i \in P - 1 .. n - 1, s \in Stages : i # P - 1 => step[<<i, s>>] \in Stages
  <2>1. \A i \in P - 1 .. n - 1 : i # P - 1 => i \in P .. n - 1
    OBVIOUS
  <2>. HIDE DEF step, Stages
  <2>. QED
    BY <2>1, <1>6, <1>7
<1>. HIDE DEF Stages, start, step
<1>9. PICK g \in [P - 1 .. n - 1 -> Stages] : Recurs(g, P - 1, n - 1, start, step)
  <2>1. P - 1 \in Int /\ n - 1 \in Int
    OBVIOUS
  <2>. QED
    BY <2>1, <1>5, <1>8, RecursionDefines, Zenon
<1>. DEFINE Defines(s) == s = [i \in P - 1 .. n - 1 |-> IF i = P - 1 THEN start
                                                        ELSE ReplaceLeastUsed(s[i - 1], i)]
            stage == CHOOSE s : Defines(s)
<1>10. Defines(g)
  <2>1. ASSUME NEW i \in P - 1 .. n - 1, i # P - 1
        PROVE  step[<<i, g[i - 1]>>] = ReplaceLeastUsed(g[i - 1], i)
    <3>1. i \in P .. n - 1 /\ i - 1 \in P - 1 .. n - 1
      BY <2>1
    <3>. QED
      BY <3>1, <1>7
  <2>. QED
    BY <1>9, <2>1 DEF Recurs
<1>11. Defines(stage)
  BY <1>10
<1>12. e = [b |-> Keep(stage[n - 1].b), cur |-> stage[n - 1].cur, least |-> stage[n - 1].least]
  BY <1>1, <1>2 DEF ReplaceOldest, start
<1>. HIDE DEF stage
<1>13. /\ stage[P - 1] = start
       /\ \A i \in P .. n - 1 : stage[i] = ReplaceLeastUsed(stage[i - 1], i)
  <2>1. \A i \in P .. n - 1 : i \in P - 1 .. n - 1 /\ i # P - 1
    OBVIOUS
  <2>2. P - 1 \in P - 1 .. n - 1
    BY <1>1
  <2>. QED
    BY <2>1, <2>2, <1>11
<1>. HIDE DEF Defines
<1>. DEFINE Kept(s, i) == /\ s \in Stages
                          /\ s.cur \in Slots \cup (i + 1 .. n - 1)
                          /\ \A j \in 0 .. n - 1 : s.b[j].glyphs # {}
                          /\ \A j \in Slots : s.b[j].all \/ s.b[j] = bitmaps[j]
            I == {k \in Nat : \A i \in P - 1 .. n - 1 : i = P - 1 + k => Kept(stage[i], i)}
<1>14. 0 \in I
  <2>1. start.b = bitmaps /\ start.cur = current
    BY DEF start
  <2>2. current \in Slots \cup ((P - 1) + 1 .. n - 1)
    BY <1>1, <1>3
  <2>3. Kept(start, P - 1)
    BY <2>1, <2>2, <1>4, <1>5
  <2>4. \A i \in P - 1 .. n - 1 : i = P - 1 + 0 => i = P - 1
    OBVIOUS
  <2>. QED
    BY <2>3, <2>4, <1>13
<1>15. ASSUME NEW k \in Nat, k \in I PROVE k + 1 \in I
  <2>. SUFFICES ASSUME NEW i \in P - 1 .. n - 1, i = P - 1 + (k + 1) PROVE Kept(stage[i], i)
    OBVIOUS
  <2>1. /\ i \in P .. n - 1 /\ i - 1 = P - 1 + k /\ i - 1 \in P - 1 .. n - 1
        /\ i \in 0 .. n - 1 /\ (i - 1) + 1 = i
    BY <1>1
  <2>2. Kept(stage[i - 1], i - 1)
    BY <2>1, <1>15
  <2>3. PICK b \in [0 .. n - 1 -> Bitmap], cur \in Nat, least \in Slots :
            stage[i - 1] = [b |-> b, cur |-> cur, least |-> least]
    BY <2>2 DEF Stages
  <2>4. /\ cur \in Slots \cup (i .. n - 1)
        /\ \A j \in 0 .. n - 1 : b[j].glyphs # {}
        /\ \A j \in Slots : b[j].all \/ b[j] = bitmaps[j]
    <3>1. stage[i - 1].b = b /\ stage[i - 1].cur = cur
      BY <2>3
    <3>2. (i - 1) + 1 .. n - 1 = i .. n - 1
      BY <2>1
    <3>. QED
      BY <2>2, <3>1, <3>2
  <2>5. PICK f : f = stage[i] /\ f = ReplaceLeastUsed([b |-> b, cur |-> cur, least |-> least], i)
    BY <2>1, <2>3, <1>13
  <2>6. /\ f.b \in [0 .. n - 1 -> Bitmap]
        /\ \A j \in 0 .. n - 1 : f.b[j].glyphs = IF j = least THEN b[i].glyphs
                                                 ELSE IF j = i THEN b[least].glyphs ELSE b[j].glyphs
        /\ f.b[least].all /\ \A j \in 0 .. n - 1 : j \notin {least, i} => f.b[j] = b[j]
        /\ f.cur = (IF i = cur THEN least ELSE cur)
        /\ f.least \in Slots
        /\ f = [b |-> f.b, cur |-> f.cur, least |-> f.least]
    <3>1. i \in 0 .. n - 1 /\ PerAtlas <= i
      BY <2>1, <1>1
    <3>. QED
      BY <3>1, <2>5, ReplaceStep, SMTT(40)
  <2>7. f.cur \in Slots \cup (i + 1 .. n - 1) /\ f.cur \in Nat
    BY <2>1, <2>4, <2>6, <1>1
  <2>8. f \in Stages
    BY <2>6, <2>7 DEF Stages
  <2>9. \A j \in 0 .. n - 1 : f.b[j].glyphs # {}
    <3>1. least \in 0 .. n - 1
      BY <1>1
    <3>. QED
      BY <3>1, <2>1, <2>4, <2>6
  <2>10. ASSUME NEW j \in Slots PROVE f.b[j].all \/ f.b[j] = bitmaps[j]
    <3>1. j \in 0 .. n - 1 /\ j # i
      BY <2>1, <1>1
    <3>. QED
      BY <3>1, <2>4, <2>6
  <2>. QED
    BY <2>1, <2>5, <2>7, <2>8, <2>9, <2>10
<1>16. Kept(stage[n - 1], n - 1)
  <2>1. n - P \in Nat /\ n - 1 = P - 1 + (n - P) /\ n - 1 \in P - 1 .. n - 1
    BY <1>1
  <2>2. n - P \in I
    <3>. HIDE DEF I
    <3>. QED BY <2>1, <1>14, <1>15, SetInduction
  <2>. QED
    BY <2>1, <2>2
<1>17. PICK s \in Stages : s = stage[n - 1] /\ Kept(s, n - 1)
  BY <1>16
<1>18. s.b \in [0 .. n - 1 -> Bitmap] /\ s.cur \in Slots /\ s.least \in Slots
  BY <1>17 DEF Stages
<1>19. Keep(s.b) = [j \in Slots |-> s.b[j]]
  <2>1. {i \in DOMAIN s.b : i < PerAtlas} = Slots
    BY <1>1, <1>18
  <2>. QED
    BY <2>1 DEF Keep
<1>20. e.b = [j \in Slots |-> s.b[j]] /\ e.cur = s.cur /\ e.least = s.least
  BY <1>12, <1>17, <1>19
<1>21. Slots \subseteq 0 .. n - 1
  BY <1>1
<1>. QED
  BY <1>17, <1>18, <1>20, <1>21

\* The end of the frame leaves a group that its textures mirror.
LEMMA FlushStep ==
  ASSUME TextAtlasInv, Flush
  PROVE  TextAtlasInv'
<1>1. PICK n \in Nat : bitmaps \in [0 .. n - 1 -> Bitmap]
  BY DEF TextAtlasInv, Lists
<1>2. Size(bitmaps) = n /\ DOMAIN bitmaps = 0 .. n - 1
  BY <1>1, SizeOfList
<1>3. PICK P \in Nat \ {0} : P = PerAtlas /\ Slots = 0 .. P - 1
  BY Sizes DEF Slots
<1>4. /\ draws' = {} /\ groups' = {}
      /\ textures' = [g \in DOMAIN textures \cap {0} |-> textures[g]]
  BY DEF Flush, ClearExtraRes
<1>5. Mirrored(bitmaps, textures) /\ Arrays(textures) /\ NoneEmpty(bitmaps) /\ leastUsed \in Slots
  BY DEF TextAtlasInv
<1>6. groups' \subseteq Nat /\ DrawsShow' /\ GroupsMade'
  BY <1>4 DEF DrawsShow, GroupsMade
<1>7. CASE n <= P
  <2>1. bitmaps' = bitmaps /\ current' = current /\ leastUsed' = leastUsed
    BY <1>2, <1>3, <1>7 DEF Flush, ClearExtraRes
  <2>2. DOMAIN bitmaps \subseteq Slots
    BY <1>2, <1>3, <1>7
  <2>3. Mirrored(bitmaps, textures') /\ Arrays(textures')
    BY <2>2, <1>4, <1>5, FrontIsMirrored
  <2>. QED
    BY <2>1, <2>3, <1>6 DEF TextAtlasInv
<1>8. ASSUME bitmaps' \in [Slots -> Bitmap], current' \in Slots, leastUsed' \in Slots,
             \A i \in Slots : /\ bitmaps'[i].glyphs # {}
                              /\ bitmaps'[i].all \/ (i \in DOMAIN bitmaps /\ bitmaps'[i] = bitmaps[i])
      PROVE  TextAtlasInv'
  <2>1. DOMAIN bitmaps' = Slots
    BY <1>8
  <2>2. Mirrored(bitmaps', textures') /\ Arrays(textures')
    BY <2>1, <1>4, <1>5, <1>8, FrontIsMirrored
  <2>3. bitmaps' \in Lists /\ CurrentOf(bitmaps', current')
    BY <2>1, <1>3, <1>8 DEF Lists, CurrentOf
  <2>4. NoneEmpty(bitmaps')
    BY <2>1, <1>8 DEF NoneEmpty
  <2>. QED
    BY <2>2, <2>3, <2>4, <1>6, <1>8 DEF TextAtlasInv
<1>9. CASE n >= 2 * P
  <2>1. bitmaps' = MoveLastToFront.b /\ current' = MoveLastToFront.cur /\ leastUsed' = MoveLastToFront.least
    <3>1. ~(n <= PerAtlas) /\ n >= 2 * PerAtlas
      BY <1>3, <1>9
    <3>. QED
      BY <3>1, <1>2 DEF Flush, ClearExtraRes
  <2>2. /\ bitmaps' = [i \in Slots |-> [bitmaps[n - P + i] EXCEPT !.all = TRUE]]
        /\ current' = P - 1 /\ leastUsed' = 0
    BY <2>1, <1>2, <1>3 DEF MoveLastToFront
  <2>3. ASSUME NEW i \in Slots PROVE n - P + i \in DOMAIN bitmaps /\ bitmaps[n - P + i].glyphs # {}
    <3>1. n - P + i \in DOMAIN bitmaps
      BY <1>2, <1>3, <1>9
    <3>2. 1 \in DOMAIN bitmaps
      BY <1>2, <1>3, <1>9
    <3>3. DOMAIN bitmaps # {0}
      BY <3>2
    <3>. QED
      BY <3>1, <3>3, <1>5 DEF NoneEmpty
  <2>4. \A bm \in Bitmap : LET e == [bm EXCEPT !.all = TRUE]
                           IN  e \in Bitmap /\ e.glyphs = bm.glyphs /\ e.all
    BY DEF Bitmap
  <2>5. \A i \in Slots : bitmaps[n - P + i] \in Bitmap
    BY <2>3, <1>1
  <2>6. \A i \in Slots : bitmaps'[i] = [bitmaps[n - P + i] EXCEPT !.all = TRUE]
    BY <2>2
  <2>7. ASSUME NEW i \in Slots
        PROVE  bitmaps'[i] \in Bitmap /\ bitmaps'[i].glyphs # {} /\ bitmaps'[i].all
    <3>1. PICK bm \in Bitmap : bm = bitmaps[n - P + i]
      BY <2>5
    <3>2. bitmaps'[i] = [bm EXCEPT !.all = TRUE] /\ bm.glyphs # {}
      BY <3>1, <2>3, <2>6
    <3>. QED
      BY <3>2, <2>4
  <2>8. bitmaps' = [i \in Slots |-> bitmaps'[i]]
    BY <2>2
  <2>9. bitmaps' \in [Slots -> Bitmap]
    BY <2>7, <2>8
  <2>10. current' \in Slots /\ leastUsed' \in Slots
    BY <2>2, <1>3
  <2>. QED
    BY <2>7, <2>9, <2>10, <1>8
<1>10. CASE P < n /\ ~(n >= 2 * P)
  <2>1. bitmaps' = ReplaceOldest.b /\ current' = ReplaceOldest.cur /\ leastUsed' = ReplaceOldest.least
    <3>1. ~(n <= PerAtlas) /\ ~(n >= 2 * PerAtlas)
      BY <1>3, <1>10
    <3>. QED
      BY <3>1, <1>2 DEF Flush, ClearExtraRes
  <2>2. PICK e : e = ReplaceOldest
    OBVIOUS
  <2>3. /\ e.b \in [Slots -> Bitmap] /\ e.cur \in Slots /\ e.least \in Slots
        /\ \A j \in Slots : e.b[j].glyphs # {} /\ (e.b[j].all \/ e.b[j] = bitmaps[j])
    BY <2>2, <1>1, <1>3, <1>10, ReplaceOldestKeeps
  <2>4. Slots \subseteq DOMAIN bitmaps
    BY <1>2, <1>3, <1>10
  <2>. QED
    BY <2>1, <2>2, <2>3, <2>4, <1>8
<1>. QED
  BY <1>3, <1>7, <1>9, <1>10

-----------------------------------------------------------------------------
(* The theorems                                                            *)

\* In every reachable state the textures mirror the bitmaps, and what the
\* draws of the frame sample is there.
THEOREM TextAtlasInvariantHolds == AtlasSpec => []TextAtlasInv
<1>1. AtlasInit => TextAtlasInv
  BY InitInv
<1>2. TextAtlasInv /\ [AtlasNext]_atlasVars => TextAtlasInv'
  <2>. SUFFICES ASSUME TextAtlasInv, [AtlasNext]_atlasVars PROVE TextAtlasInv'
    OBVIOUS
  <2>1. ASSUME NEW text \in Texts, DrawText(text) PROVE TextAtlasInv'
    <3>1. text \in Seq(Keys)
      BY TextAtlasAssumption DEF Texts
    <3>. QED
      BY <3>1, <2>1, DrawStep
  <2>2. CASE Flush
    BY <2>2, FlushStep
  <2>3. CASE UNCHANGED atlasVars
    BY <2>3 DEF atlasVars, TextAtlasInv, Mirrored, Shown, Arrays, DrawsShow, GroupsMade
  <2>. QED
    BY <2>1, <2>2, <2>3 DEF AtlasNext
<1>. QED
  BY <1>1, <1>2, PTL DEF AtlasSpec

\* The list of bitmaps has no hole, the current one is in it, and the textures
\* that are made are those of the array (Atlas, AtlasTextureArray).
THEOREM TextAtlasIsTypeCorrect == AtlasSpec => []AtlasTypeOK
<1>1. TextAtlasInv => AtlasTypeOK
  <2>. SUFFICES ASSUME TextAtlasInv PROVE AtlasTypeOK
    OBVIOUS
  <2>1. PICK n \in Nat : bitmaps \in [0 .. n - 1 -> Bitmap]
    BY DEF TextAtlasInv, Lists
  <2>2. Size(bitmaps) = n /\ DOMAIN bitmaps = 0 .. n - 1
    BY <2>1, SizeOfList
  <2>3. current \in 0 .. n
    BY <2>2 DEF TextAtlasInv, CurrentOf
  <2>. QED
    BY <2>1, <2>2, <2>3 DEF TextAtlasInv, AtlasTypeOK, Arrays, TextureArrays
<1>. QED
  BY <1>1, TextAtlasInvariantHolds, PTL

\* Until the frame is flushed, the slot that a recorded draw samples is on a
\* texture that was made and shows the glyph, and every group a text takes its
\* textures from has its first one: whatever later texts put into the bitmaps
\* and upload, and however ClearExtraRes moved the bitmaps before.
THEOREM GlyphsStayOnTheirTextures == AtlasSpec => []DrawsFindTheirGlyphs
<1>1. TextAtlasInv => DrawsFindTheirGlyphs
  <2>. SUFFICES ASSUME TextAtlasInv PROVE DrawsFindTheirGlyphs
    OBVIOUS
  <2>1. ASSUME NEW d \in draws
        PROVE  /\ d.group \in DOMAIN textures
               /\ d.key \in textures[d.group].slots[d.slot]
               /\ TextureOf(d.slot) \in textures[d.group].made
    <3>1. PICK i \in DOMAIN bitmaps : d = DrawOf(i, d.key) /\ Shown(textures, i, d.key)
      BY DEF TextAtlasInv, DrawsShow
    <3>2. d.group = GroupOf(i) /\ d.slot = SlotOf(i)
      BY <3>1 DEF DrawOf
    <3>. QED
      BY <3>1, <3>2 DEF Shown
  <2>. QED
    BY <2>1 DEF TextAtlasInv, GroupsMade, DrawsFindTheirGlyphs, DrawnGroupsHaveTextures
<1>. QED
  BY <1>1, TextAtlasInvariantHolds, PTL


-----------------------------------------------------------------------------
(* The inductive invariant *)

Looks == {"plain", "drawn"}
Descs == Typefaces \X Looks \X Widths
Places == Descs \X (Nat \ {0})
Kinds == {"metrics", "image"}
Requests == [desc : Descs, kind : Kinds, glyph : Glyphs]
GivenGlyphs == [from : Places \cup {Nowhere}, desc : Descs, kind : Kinds, glyph : Glyphs]
Calls == [at : {"idle", "lookup", "use", "read"},
          user : {"none", "measure", "atlas", "canvas"},
          plan : Seq(Requests), held : Places \cup {Nowhere},
          got : Seq(GivenGlyphs), asked : SUBSET Descs]
Images == [at : Int, needFree : BOOLEAN]
Scalers == [images : [Glyphs -> Images], drawn : SUBSET Glyphs]
Bitmaps == [desc : Descs, glyph : Glyphs]

\* The types of everything; no step ends with the lock held.
TypesAreRight ==
    /\ fonts \in [Threads -> SUBSET Typefaces]
    /\ life \in [Typefaces -> {"alive", "dead"} \cup Threads]
    /\ lock = Nobody
    /\ cache \in Seq(Places)
    /\ calls \in [Threads -> Calls]
    /\ containers \in [DOMAIN containers -> Scalers]
    /\ DOMAIN containers \subseteq Places
    /\ heap \in [DOMAIN heap -> Bitmaps]
    /\ DOMAIN heap \subseteq Nat \ {0}
    /\ IsFiniteSet(DOMAIN heap)

\* What a call refers to at each of its points.
CallsAreInOrder ==
    \A t \in Threads :
        /\ calls[t].at = "idle" => calls[t] = Resting
        /\ calls[t].at \in {"lookup", "use"} => calls[t].plan # <<>>
        /\ calls[t].at = "use" <=> calls[t].held # Nowhere
        /\ calls[t].at = "use" => DescOf(calls[t].held) = Head(calls[t].plan).desc
        /\ calls[t].at = "read" => calls[t].got # <<>>

\* A typeface lives as long as a font refers to it, and the font that a call
\* is for outlives the call.
FontsKeepTypefaces ==
    /\ \A f \in Typefaces : life[f] = "alive" <=> \E t \in Threads : f \in fonts[t]
    /\ \A t \in Threads :
           /\ \A i \in DOMAIN calls[t].plan : calls[t].plan[i].desc[1] \in fonts[t]
           /\ \A i \in DOMAIN calls[t].got : calls[t].got[i].desc[1] \in fonts[t]

\* The containers are those that the cache or a call refers to, and their
\* typefaces have not died.
ContainersAreReferenced ==
    /\ ToSet(cache) \subseteq DOMAIN containers
    /\ \A t \in Threads : calls[t].held # Nowhere => calls[t].held \in DOMAIN containers
    /\ DOMAIN containers \subseteq Referenced(cache, calls)
    /\ \A c \in DOMAIN containers : life[TypefaceOf(c)] # "dead"

\* Nothing was looked up after c but what was asked for.
Recent(list, c, asked) ==
    \E i \in 1 .. Len(list) : /\ list[i] = c
                             /\ \A j \in 1 .. i : DescOf(list[j]) \in asked

\* One container per descriptor is cached, and no more of them are asked for
\* during a call than the cache has room for: those the call uses are among
\* the last that were used.
CallsUseRecent ==
    /\ Len(cache) <= Capacity
    /\ \A i, j \in 1 .. Len(cache) : DescOf(cache[i]) = DescOf(cache[j]) => i = j
    /\ \A t \in Active :
           /\ IsFiniteSet(calls[t].asked) /\ Cardinality(calls[t].asked) <= Capacity
           /\ \A u \in Threads : DescsOf(calls[u].plan) \subseteq calls[t].asked
           /\ calls[t].held # Nowhere => Recent(cache, calls[t].held, calls[t].asked)
           /\ \A i \in DOMAIN calls[t].got :
                  /\ calls[t].got[i].from # Nowhere
                  /\ DescOf(calls[t].got[i].from) = calls[t].got[i].desc
                  /\ Recent(cache, calls[t].got[i].from, calls[t].asked)

ScalerInv == /\ TypesAreRight
             /\ CallsAreInOrder
             /\ FontsKeepTypefaces
             /\ ContainersAreReferenced
             /\ CallsUseRecent

\* Images come to the threads that draw.  The atlas asks for images of other
\* descriptors, the software canvas for one image at a time.
ImagesOfACall(t, call) ==
    /\ call.user \in {"atlas", "canvas"} => t \in Renderers
    /\ call.user \in {"none", "measure"} =>
           /\ \A i \in DOMAIN call.plan : ~IsImage(call.plan[i])
           /\ \A i \in DOMAIN call.got : ~IsImage(call.got[i])
    /\ call.user = "canvas" =>
           \A i \in DOMAIN call.got : IsImage(call.got[i]) => i = Len(call.got) /\ call.at = "read"
    /\ call.user = "atlas" =>
           /\ call.at = "read" => call.plan = <<>>
           /\ \A i \in DOMAIN call.plan : IsImage(call.plan[i])
           /\ \A i \in DOMAIN call.got : IsImage(call.got[i])
           /\ \A i \in DOMAIN call.got, j \in DOMAIN call.plan :
                  call.got[i].desc # call.plan[j].desc
           /\ \A i, j \in DOMAIN call.plan : call.plan[i].desc = call.plan[j].desc => i = j
           /\ \A i, j \in DOMAIN call.got : call.got[i].desc = call.got[j].desc => i = j

ImagesDoNotMeet == \A t \in Threads : ImagesOfACall(t, calls[t])

\* The images that a call was given: those to be freed are bitmaps of their own.
Given(t) == {i \in DOMAIN calls[t].got : IsImage(calls[t].got[i])}
ImageGiven(t, i) == ImageOf(calls[t].got[i])

ImagesAreShown ==
    \A t \in Threads : \A i \in Given(t) :
        /\ Shows(calls[t].got[i])
        /\ ImageGiven(t, i).at # Lent => ImageGiven(t, i).needFree
        /\ \A j \in Given(t) :
               ImageGiven(t, i).at = ImageGiven(t, j).at /\ ImageGiven(t, i).at # Lent => i = j

\* Every bitmap is the image of a call.
BitmapsAreGiven ==
    \A b \in DOMAIN heap : \E t \in Threads : \E i \in Given(t) : ImageGiven(t, i).at = b

ImagesInv == ScalerInv /\ ImagesDoNotMeet /\ ImagesAreShown /\ BitmapsAreGiven

-----------------------------------------------------------------------------
(* What the operators on lists do *)

\* A list of what the first entries of another one leave, in its order: h says
\* where they were.
Leaves(list, n, gone, left, h) ==
    /\ h \in [1 .. Len(left) -> 1 .. n]
    /\ \A j \in 1 .. Len(left) : left[j] = list[h[j]] /\ left[j] \notin gone
    /\ \A j, k \in 1 .. Len(left) : j < k => h[j] < h[k]
    /\ \A i \in 1 .. n : list[i] \notin gone => \E j \in 1 .. Len(left) : h[j] = i
    /\ Len(left) <= n
    /\ (\E i \in 1 .. n : list[i] \in gone) => Len(left) < n

\* The recursive function of Without, for the first n entries.
LeftIn(list, n, gone, left) ==
    left = [i \in 0 .. n |-> IF i = 0 THEN <<>>
                              ELSE IF list[i] \in gone THEN left[i - 1]
                              ELSE Append(left[i - 1], list[i])]

\* There is such a function.
LEMMA WithoutDefined ==
  ASSUME NEW S, NEW list \in Seq(S), NEW gone
  PROVE  \E left : LeftIn(list, Len(list), gone, left)
<1>. DEFINE I == {n \in Nat : \E left : LeftIn(list, n, gone, left)}
<1>1. 0 \in I
  <2>1. LeftIn(list, 0, gone, [i \in 0 .. 0 |-> <<>>])
    BY DEF LeftIn
  <2>. QED
    BY <2>1
<1>2. ASSUME NEW n \in Nat, n \in I PROVE n + 1 \in I
  <2>1. PICK left : LeftIn(list, n, gone, left)
    BY <1>2
  <2>. DEFINE more == [i \in 0 .. n + 1 |->
                         IF i # n + 1 THEN left[i]
                         ELSE IF list[i] \in gone THEN left[n]
                         ELSE Append(left[n], list[i])]
  <2>0. \A i \in 0 .. n : left[i] = IF i = 0 THEN <<>>
                                    ELSE IF list[i] \in gone THEN left[i - 1]
                                    ELSE Append(left[i - 1], list[i])
    BY <2>1 DEF LeftIn
  <2>2. LeftIn(list, n + 1, gone, more)
    <3>1. \A i \in 0 .. n : more[i] = left[i]
      OBVIOUS
    <3>2. ASSUME NEW i \in 0 .. n + 1
          PROVE  more[i] = IF i = 0 THEN <<>>
                           ELSE IF list[i] \in gone THEN more[i - 1]
                           ELSE Append(more[i - 1], list[i])
      <4>1. CASE i = 0
        BY <4>1, <2>0, <3>1
      <4>2. CASE i \in 1 .. n
        <5>1. i - 1 \in 0 .. n /\ i \in 0 .. n /\ i # 0
          BY <4>2
        <5>. HIDE DEF more
        <5>. QED
          BY <5>1, <2>0, <3>1
      <4>3. CASE i = n + 1
        <5>1. n \in 0 .. n /\ i - 1 = n /\ i # 0
          BY <4>3
        <5>. QED
          BY <5>1, <4>3, <3>1
      <4>. QED
        BY <4>1, <4>2, <4>3
    <3>. QED
      BY <3>2 DEF LeftIn
  <2>3. \E q : LeftIn(list, n + 1, gone, q)
    <3>. HIDE DEF more
    <3>. QED BY <2>2
  <2>. QED
    BY <2>3
<1>3. Len(list) \in I
  <2>. HIDE DEF I
  <2>. QED BY <1>1, <1>2, SetInduction
<1>. QED
  BY <1>3

\* Without leaves the entries that are not gone, in their order.
LEMMA WithoutLeaves ==
  ASSUME NEW S, NEW list \in Seq(S), NEW gone
  PROVE  /\ Without(list, gone) \in Seq(S)
         /\ \E h : Leaves(list, Len(list), gone, Without(list, gone), h)
<1>. DEFINE left == CHOOSE f : LeftIn(list, Len(list), gone, f)
<1>1. LeftIn(list, Len(list), gone, left)
  BY WithoutDefined
<1>2. Without(list, gone) = left[Len(list)]
  BY DEF Without, LeftIn
<1>. HIDE DEF left
<1>3. \A i \in 0 .. Len(list) : left[i] = IF i = 0 THEN <<>>
                             ELSE IF list[i] \in gone THEN left[i - 1]
                             ELSE Append(left[i - 1], list[i])
  BY <1>1 DEF LeftIn
<1>. DEFINE I == {n \in Nat : n <= Len(list) =>
                     /\ left[n] \in Seq(S)
                     /\ \E h : Leaves(list, n, gone, left[n], h)}
<1>4. 0 \in I
  <2>1. left[0] = <<>>
    BY <1>3
  <2>2. Leaves(list, 0, gone, <<>>, <<>>)
    BY DEF Leaves
  <2>3. \E h : Leaves(list, 0, gone, left[0], h)
    BY <2>1, <2>2
  <2>4. left[0] \in Seq(S)
    BY <2>1
  <2>. QED
    BY <2>3, <2>4
<1>5. ASSUME NEW n \in Nat, n \in I PROVE n + 1 \in I
  <2>. SUFFICES ASSUME n + 1 <= Len(list)
                PROVE  /\ left[n + 1] \in Seq(S)
                       /\ \E h : Leaves(list, n + 1, gone, left[n + 1], h)
    OBVIOUS
  <2>1. left[n] \in Seq(S) /\ \E h : Leaves(list, n, gone, left[n], h)
    BY <1>5
  <2>2. PICK h : Leaves(list, n, gone, left[n], h)
    BY <2>1
  <2>3. left[n + 1] = IF list[n + 1] \in gone THEN left[n] ELSE Append(left[n], list[n + 1])
    BY <1>3
  <2>4. list[n + 1] \in S
    OBVIOUS
  <2>5. CASE list[n + 1] \in gone
    <3>1. Leaves(list, n + 1, gone, left[n], h)
      BY <2>1, <2>2, <2>5, SMTT(40) DEF Leaves
    <3>. QED
      BY <3>1, <2>1, <2>3, <2>5
  <2>6. CASE list[n + 1] \notin gone
    <3>. DEFINE l == Len(left[n])
    <3>. DEFINE g == [j \in 1 .. l + 1 |-> IF j = l + 1 THEN n + 1 ELSE h[j]]
    <3>1. l \in Nat
      BY <2>1
    <3>2. /\ left[n + 1] = Append(left[n], list[n + 1])
          /\ left[n + 1] \in Seq(S)
          /\ Len(left[n + 1]) = l + 1
          /\ \A j \in 1 .. l : left[n + 1][j] = left[n][j]
          /\ left[n + 1][l + 1] = list[n + 1]
      BY <2>1, <2>3, <2>4, <2>6
    <3>3. /\ \A j \in 1 .. l : g[j] = h[j] /\ h[j] \in 1 .. n
          /\ g[l + 1] = n + 1
      BY <2>2, <3>1 DEF Leaves
    <3>4. g \in [1 .. Len(left[n + 1]) -> 1 .. n + 1]
      <4>1. g \in [1 .. l + 1 -> 1 .. n + 1]
        <5>1. \A j \in 1 .. l + 1 : (IF j = l + 1 THEN n + 1 ELSE h[j]) \in 1 .. n + 1
          <6>1. \A j \in 1 .. l : h[j] \in 1 .. n
            BY <2>2 DEF Leaves
          <6>. HIDE DEF l
          <6>. QED
            BY <6>1, <3>1
        <5>. QED
          BY <5>1
      <4>. QED
        BY <4>1, <3>2, Zenon
    <3>5. \A j \in 1 .. l : left[n][j] = list[h[j]] /\ left[n][j] \notin gone
      BY <2>2 DEF Leaves
    <3>6. \A j \in 1 .. l + 1 : left[n + 1][j] = list[g[j]] /\ left[n + 1][j] \notin gone
      <4>. HIDE DEF g
      <4>. QED
        BY <2>6, <3>1, <3>2, <3>3, <3>5
    <3>7. \A j, k \in 1 .. l + 1 : j < k => g[j] < g[k]
      <4>1. \A j, k \in 1 .. l : j < k => h[j] < h[k]
        BY <2>2 DEF Leaves
      <4>. HIDE DEF g
      <4>. QED
        BY <4>1, <3>1, <3>3
    <3>8. \A i \in 1 .. n + 1 : list[i] \notin gone => \E j \in 1 .. l + 1 : g[j] = i
      <4>1. \A i \in 1 .. n : list[i] \notin gone => \E j \in 1 .. l : h[j] = i
        BY <2>2 DEF Leaves
      <4>. HIDE DEF g
      <4>. QED
        BY <4>1, <3>1, <3>3
    <3>9. /\ l + 1 <= n + 1
          /\ (\E i \in 1 .. n + 1 : list[i] \in gone) => l + 1 < n + 1
      BY <2>2, <2>6, <3>1 DEF Leaves
    <3>10. Leaves(list, n + 1, gone, left[n + 1], g)
      <4>. HIDE DEF g, l
      <4>. QED
        BY <3>2, <3>4, <3>6, <3>7, <3>8, <3>9 DEF Leaves
    <3>. QED
      BY <3>2, <3>10
  <2>. QED
    BY <2>5, <2>6
<1>6. Len(list) \in I
  <2>. HIDE DEF I
  <2>. QED BY <1>4, <1>5, SetInduction
<1>. QED
  BY <1>2, <1>6

-----------------------------------------------------------------------------
(* Containers by name, and numbers that are free *)

\* A container's descriptor has its typeface.
LEMMA DescFacts ==
  /\ \A c \in Places : /\ DescOf(c) \in Descs
                       /\ TypefaceOf(c) \in Typefaces
                       /\ c # Nowhere
  /\ \A d \in Descs : d[1] \in Typefaces
  BY DEF DescOf, TypefaceOf, Places, Descs, Nowhere

\* There is always a number that is not taken.
LEMMA UnusedIsFree ==
  ASSUME NEW taken, IsFiniteSet(taken)
  PROVE  Unused(taken) \in Nat \ {0} /\ Unused(taken) \notin taken
<1>. DEFINE k == Cardinality(taken)
<1>1. k \in Nat
  BY FS_CardinalityType
<1>2. ASSUME \A n \in 1 .. k + 1 : n \in taken PROVE FALSE
  <2>1. 1 .. k + 1 \subseteq taken
    BY <1>2
  <2>2. Cardinality(1 .. k + 1) <= k
    BY <2>1, FS_Subset
  <2>3. Cardinality(1 .. k + 1) = k + 1
    BY <1>1, FS_Interval
  <2>. QED
    BY <1>1, <2>2, <2>3
<1>3. \E n \in 1 .. k + 1 : n \notin taken
  BY <1>2
<1>4. Unused(taken) \in 1 .. k + 1 /\ Unused(taken) \notin taken
  BY <1>3 DEF Unused
<1>. QED
  BY <1>1, <1>4

\* So there is one for a container of any descriptor.
LEMMA UnusedForIsFree ==
  ASSUME NEW desc \in Descs, IsFiniteSet(DOMAIN containers)
  PROVE  /\ UnusedFor(desc) \in Places
         /\ UnusedFor(desc) \notin DOMAIN containers
         /\ DescOf(UnusedFor(desc)) = desc
<1>. DEFINE same == {c \in DOMAIN containers : DescOf(c) = desc}
            taken == {c[2] : c \in same}
            n == Unused(taken)
<1>1. IsFiniteSet(taken)
  <2>1. IsFiniteSet(same)
    BY FS_Subset
  <2>. DEFINE number == [c \in same |-> c[2]]
  <2>2. number \in Surjection(same, taken)
    BY DEF Surjection
  <2>. HIDE DEF same, number, taken
  <2>. QED
    BY <2>1, <2>2, FS_Surjection
<1>2. n \in Nat \ {0} /\ n \notin taken
  <2>. HIDE DEF taken
  <2>. QED BY <1>1, UnusedIsFree
<1>3. UnusedFor(desc) = <<desc, n>>
  BY DEF UnusedFor
<1>4. <<desc, n>> \notin DOMAIN containers
  <2>. HIDE DEF n
  <2>. SUFFICES ASSUME <<desc, n>> \in DOMAIN containers PROVE FALSE
    OBVIOUS
  <2>1. <<desc, n>> \in same
    BY DEF DescOf
  <2>2. n \in taken
    BY <2>1
  <2>. QED
    BY <2>2, <1>2
<1>. QED
  BY <1>2, <1>3, <1>4 DEF Places, DescOf

-----------------------------------------------------------------------------
(* The least recently used *)

Distinct(list) == \A i, j \in 1 .. Len(list) : DescOf(list[i]) = DescOf(list[j]) => i = j

\* What leaves a list leaves the rest in order, and no closer to the end.
LEMMA WithoutRecent ==
  ASSUME NEW list \in Seq(Places), Distinct(list), NEW gone
  PROVE  /\ Without(list, gone) \in Seq(Places)
         /\ ToSet(Without(list, gone)) = ToSet(list) \ gone
         /\ Len(Without(list, gone)) <= Len(list)
         /\ ToSet(list) \cap gone # {} => Len(Without(list, gone)) < Len(list)
         /\ Distinct(Without(list, gone))
         /\ \A c, asked : c \notin gone /\ Recent(list, c, asked)
                            => Recent(Without(list, gone), c, asked)
<1>. DEFINE left == Without(list, gone)
<1>0. left \in Seq(Places) /\ \E h : Leaves(list, Len(list), gone, left, h)
  BY WithoutLeaves
<1>. HIDE DEF left
<1>1. PICK h : Leaves(list, Len(list), gone, left, h)
  BY <1>0
<1>2. /\ h \in [1 .. Len(left) -> 1 .. Len(list)]
      /\ \A j \in 1 .. Len(left) : left[j] = list[h[j]] /\ left[j] \notin gone
      /\ \A j, k \in 1 .. Len(left) : j < k => h[j] < h[k]
      /\ \A i \in 1 .. Len(list) : list[i] \notin gone => \E j \in 1 .. Len(left) : h[j] = i
      /\ Len(left) <= Len(list)
      /\ (\E i \in 1 .. Len(list) : list[i] \in gone) => Len(left) < Len(list)
  BY <1>1 DEF Leaves
<1>3. ToSet(left) = ToSet(list) \ gone
  <2>1. ToSet(left) = {left[j] : j \in 1 .. Len(left)} /\ ToSet(list) = {list[j] : j \in 1 .. Len(list)}
    BY <1>0 DEF ToSet
  <2>. QED
    BY <2>1, <1>2, SMTT(40)
<1>4. ToSet(list) \cap gone # {} => Len(left) < Len(list)
  BY <1>2 DEF ToSet
<1>5. Distinct(left)
  <2>. SUFFICES ASSUME NEW j \in 1 .. Len(left), NEW k \in 1 .. Len(left),
                       DescOf(left[j]) = DescOf(left[k]), j < k
                PROVE  FALSE
    BY <1>0 DEF Distinct
  <2>1. h[j] \in 1 .. Len(list) /\ h[k] \in 1 .. Len(list) /\ h[j] < h[k]
    BY <1>2
  <2>2. DescOf(list[h[j]]) = DescOf(list[h[k]])
    BY <1>2
  <2>. QED
    BY <2>1, <2>2 DEF Distinct
<1>6. ASSUME NEW c, NEW asked, c \notin gone, Recent(list, c, asked)
      PROVE  Recent(left, c, asked)
  <2>1. PICK i \in 1 .. Len(list) : list[i] = c /\ \A j \in 1 .. i : DescOf(list[j]) \in asked
    BY <1>6 DEF Recent
  <2>2. PICK j \in 1 .. Len(left) : h[j] = i
    BY <2>1, <1>2, <1>6
  <2>3. left[j] = c
    BY <2>1, <2>2, <1>2
  <2>4. ASSUME NEW k \in 1 .. j PROVE DescOf(left[k]) \in asked
    <3>1. k \in 1 .. Len(left) /\ (k < j \/ k = j)
      BY <1>0
    <3>2. h[k] \in 1 .. i
      BY <3>1, <2>2, <1>2
    <3>. QED
      BY <3>1, <3>2, <2>1, <1>2
  <2>. QED
    BY <2>3, <2>4 DEF Recent
<1>. QED
  BY <1>0, <1>2, <1>3, <1>4, <1>5, <1>6 DEF left

\* What is found or made is in front; all else is where it was or one further.
LEMMA InFront ==
  ASSUME NEW list \in Seq(Places), Distinct(list), NEW c \in Places,
         \A i \in 1 .. Len(list) : DescOf(list[i]) # DescOf(c)
  PROVE  /\ <<c>> \o list \in Seq(Places)
         /\ Len(<<c>> \o list) = Len(list) + 1
         /\ (<<c>> \o list)[1] = c
         /\ \A i \in 1 .. Len(list) : (<<c>> \o list)[i + 1] = list[i]
         /\ \A i \in 2 .. Len(list) + 1 : (<<c>> \o list)[i] = list[i - 1]
         /\ Distinct(<<c>> \o list)
<1>. DEFINE new == <<c>> \o list
<1>1. /\ new \in Seq(Places)
      /\ Len(new) = Len(list) + 1
      /\ new[1] = c
      /\ \A i \in 2 .. Len(list) + 1 : new[i] = list[i - 1]
  OBVIOUS
<1>. HIDE DEF new
<1>2. \A i \in 1 .. Len(list) : new[i + 1] = list[i]
  <2>. TAKE i \in 1 .. Len(list)
  <2>1. i + 1 \in 2 .. Len(list) + 1 /\ (i + 1) - 1 = i
    OBVIOUS
  <2>. QED
    BY <2>1, <1>1
<1>3. Distinct(new)
  <2>. SUFFICES ASSUME NEW i \in 1 .. Len(new), NEW j \in 1 .. Len(new),
                       DescOf(new[i]) = DescOf(new[j]), i < j
                PROVE  FALSE
    BY <1>1 DEF Distinct
  <2>1. j - 1 \in 1 .. Len(list) /\ new[j] = list[j - 1]
    BY <1>1
  <2>2. CASE i = 1
    BY <2>1, <2>2, <1>1
  <2>3. CASE i # 1
    <3>1. i - 1 \in 1 .. Len(list) /\ new[i] = list[i - 1] /\ i - 1 # j - 1
      BY <2>3, <1>1
    <3>. QED
      BY <3>1, <2>1 DEF Distinct
  <2>. QED
    BY <2>2, <2>3
<1>. QED
  BY <1>1, <1>2, <1>3 DEF new

\* LRUCache::Find: what is used stays among the last that were asked for.
LEMMA FindKeepsRecent ==
  ASSUME NEW list \in Seq(Places), Distinct(list), NEW c \in ToSet(list)
  PROVE  /\ Find(list, c) \in Seq(Places)
         /\ ToSet(Find(list, c)) = ToSet(list)
         /\ Len(Find(list, c)) <= Len(list)
         /\ Distinct(Find(list, c))
         /\ \A asked : DescOf(c) \in asked => Recent(Find(list, c), c, asked)
         /\ \A e, asked : DescOf(c) \in asked /\ Recent(list, e, asked)
                            => Recent(Find(list, c), e, asked)
<1>. DEFINE left == Without(list, {c})
            new == <<c>> \o left
<1>1. /\ left \in Seq(Places)
      /\ ToSet(left) = ToSet(list) \ {c}
      /\ Len(left) < Len(list)
      /\ Distinct(left)
      /\ \A e, asked : e # c /\ Recent(list, e, asked) => Recent(left, e, asked)
  BY WithoutRecent
<1>. HIDE DEF left
<1>2. c \in Places
  BY DEF ToSet
<1>3. \A i \in 1 .. Len(left) : DescOf(left[i]) # DescOf(c)
  <2>. SUFFICES ASSUME NEW i \in 1 .. Len(left), DescOf(left[i]) = DescOf(c) PROVE FALSE
    OBVIOUS
  <2>1. left[i] \in ToSet(list) \ {c}
    BY <1>1 DEF ToSet
  <2>2. PICK j \in 1 .. Len(list) : list[j] = left[i]
    BY <2>1 DEF ToSet
  <2>3. PICK k \in 1 .. Len(list) : list[k] = c
    BY DEF ToSet
  <2>. QED
    BY <2>1, <2>2, <2>3 DEF Distinct
<1>4. /\ new \in Seq(Places)
      /\ Len(new) = Len(left) + 1
      /\ new[1] = c
      /\ \A i \in 1 .. Len(left) : new[i + 1] = left[i]
      /\ \A i \in 2 .. Len(left) + 1 : new[i] = left[i - 1]
      /\ Distinct(new)
  BY <1>1, <1>2, <1>3, InFront
<1>. HIDE DEF new
<1>5. ToSet(new) = ToSet(left) \cup {c}
  <2>1. ToSet(new) = {new[i] : i \in 1 .. Len(new)} /\ ToSet(left) = {left[i] : i \in 1 .. Len(left)}
    <3>1. DOMAIN new = 1 .. Len(new) /\ DOMAIN left = 1 .. Len(left)
      BY <1>1, <1>4
    <3>. QED
      BY <3>1 DEF ToSet
  <2>2. \A i \in 1 .. Len(new) : i = 1 \/ i - 1 \in 1 .. Len(left)
    BY <1>1, <1>4
  <2>3. \A i \in 1 .. Len(left) : i + 1 \in 1 .. Len(new)
    BY <1>1, <1>4
  <2>4. 1 \in 1 .. Len(new)
    BY <1>1, <1>4
  <2>5. ASSUME NEW i \in 1 .. Len(new) PROVE new[i] \in ToSet(left) \cup {c}
    BY <2>1, <2>2, <1>4, <1>1
  <2>6. ASSUME NEW i \in 1 .. Len(left) PROVE left[i] \in ToSet(new)
    BY <2>1, <2>3, <1>4
  <2>. QED
    BY <2>1, <2>4, <2>5, <2>6, <1>4
<1>6. ASSUME NEW asked, DescOf(c) \in asked PROVE Recent(new, c, asked)
  BY <1>1, <1>4, <1>6 DEF Recent
<1>7. ASSUME NEW e, NEW asked, DescOf(c) \in asked, Recent(list, e, asked)
      PROVE  Recent(new, e, asked)
  <2>1. CASE e = c
    BY <2>1, <1>6, <1>7
  <2>2. CASE e # c
    <3>1. PICK i \in 1 .. Len(left) : /\ left[i] = e
                                      /\ \A j \in 1 .. i : DescOf(left[j]) \in asked
      BY <2>2, <1>1, <1>7 DEF Recent
    <3>2. i + 1 \in 1 .. Len(new) /\ new[i + 1] = e
      BY <3>1, <1>1, <1>4
    <3>3. ASSUME NEW j \in 1 .. i + 1 PROVE DescOf(new[j]) \in asked
      <4>1. CASE j = 1
        BY <4>1, <1>4, <1>7
      <4>2. CASE j # 1
        <5>1. j - 1 \in 1 .. i /\ new[j] = left[j - 1]
          BY <4>2, <1>1, <1>4
        <5>. QED
          BY <5>1, <3>1
      <4>. QED
        BY <4>1, <4>2
    <3>. QED
      BY <3>2, <3>3 DEF Recent
  <2>. QED
    BY <2>1, <2>2
<1>8. Find(list, c) = new
  BY DEF Find, new, left
<1>9. /\ ToSet(new) = ToSet(list)
      /\ Len(new) <= Len(list)
  BY <1>1, <1>4, <1>5
<1>. QED
  BY <1>4, <1>6, <1>7, <1>8, <1>9

\* What was used recently is not what makes room for a new container.
LEMMA InsertKeepsRecent ==
  ASSUME NEW list \in Seq(Places), Distinct(list), Len(list) <= Capacity,
         NEW c \in Places,
         \A i \in 1 .. Len(list) : DescOf(list[i]) # DescOf(c)
  PROVE  /\ Insert(list, c) \in Seq(Places)
         /\ ToSet(Insert(list, c)) \subseteq ToSet(list) \cup {c}
         /\ Len(Insert(list, c)) <= Capacity
         /\ Distinct(Insert(list, c))
         /\ \A asked : DescOf(c) \in asked => Recent(Insert(list, c), c, asked)
         /\ \A e, asked : /\ IsFiniteSet(asked) /\ Cardinality(asked) <= Capacity
                          /\ DescOf(c) \in asked
                          /\ Recent(list, e, asked)
                          => Recent(Insert(list, c), e, asked)
<1>. DEFINE all == <<c>> \o list
            n == IF Len(list) < Capacity THEN Len(list) + 1 ELSE Capacity
            new == SubSeq(all, 1, n)
<1>1. /\ all \in Seq(Places)
      /\ Len(all) = Len(list) + 1
      /\ all[1] = c
      /\ \A i \in 1 .. Len(list) : all[i + 1] = list[i]
      /\ \A i \in 2 .. Len(list) + 1 : all[i] = list[i - 1]
      /\ Distinct(all)
  BY InFront
<1>. HIDE DEF all
<1>2. Capacity \in Nat \ {0} /\ Len(list) \in Nat
  BY ScalerAssumption
<1>3. n \in 1 .. Len(list) + 1 /\ n <= Capacity
  BY <1>2
<1>. HIDE DEF n
<1>4. /\ new \in Seq(Places)
      /\ Len(new) = n
      /\ \A i \in 1 .. n : new[i] = all[i]
  BY <1>1, <1>2, <1>3
<1>5. Insert(list, c) = new
  BY DEF Insert, new, n, all
<1>. HIDE DEF new
<1>6. ToSet(new) \subseteq ToSet(list) \cup {c}
  <2>1. DOMAIN new = 1 .. n /\ DOMAIN list = 1 .. Len(list)
    BY <1>4
  <2>2. ASSUME NEW i \in 1 .. n PROVE new[i] = c \/ \E j \in 1 .. Len(list) : new[i] = list[j]
    <3>1. i = 1 \/ (i \in 2 .. Len(list) + 1 /\ i - 1 \in 1 .. Len(list))
      BY <1>2, <1>3
    <3>. QED
      BY <3>1, <1>4, <1>1
  <2>. QED
    BY <2>1, <2>2 DEF ToSet
<1>7. Distinct(new)
  <2>1. 1 .. n \subseteq 1 .. Len(all)
    BY <1>1, <1>2, <1>3
  <2>. QED
    BY <2>1, <1>1, <1>4 DEF Distinct
<1>8. ASSUME NEW asked, DescOf(c) \in asked PROVE Recent(new, c, asked)
  BY <1>1, <1>2, <1>3, <1>4, <1>8 DEF Recent
<1>9. ASSUME NEW e, NEW asked, IsFiniteSet(asked), Cardinality(asked) <= Capacity,
             DescOf(c) \in asked, Recent(list, e, asked)
      PROVE  Recent(new, e, asked)
  <2>1. PICK i \in 1 .. Len(list) : list[i] = e /\ \A j \in 1 .. i : DescOf(list[j]) \in asked
    BY <1>9 DEF Recent
  <2>2. \A j \in 1 .. i + 1 : j \in 1 .. Len(all) /\ DescOf(all[j]) \in asked
    <3>. TAKE j \in 1 .. i + 1
    <3>1. j = 1 \/ (j \in 2 .. Len(list) + 1 /\ j - 1 \in 1 .. i)
      BY <1>2
    <3>. QED
      BY <3>1, <2>1, <1>1, <1>2, <1>9
  <2>3. i + 1 <= Cardinality(asked)
    <3>. DEFINE f == [j \in 1 .. i + 1 |-> DescOf(all[j])]
    <3>1. f \in Injection(1 .. i + 1, asked)
      <4>1. f \in [1 .. i + 1 -> asked]
        BY <2>2
      <4>2. \A j, k \in 1 .. i + 1 : f[j] = f[k] => j = k
        BY <2>2, <1>1 DEF Distinct
      <4>. HIDE DEF f
      <4>. QED
        BY <4>1, <4>2 DEF Injection, IsInjective
    <3>2. Cardinality(1 .. i + 1) <= Cardinality(asked)
      <4>. HIDE DEF f
      <4>. QED BY <3>1, <1>9, FS_Injection
    <3>3. Cardinality(1 .. i + 1) = i + 1
      <4>1. 1 \in Int /\ i + 1 \in Int /\ (i + 1) - 1 + 1 = i + 1 /\ ~(1 > i + 1)
        BY <1>2
      <4>. QED
        BY <4>1, FS_Interval
    <3>. QED
      BY <3>2, <3>3
  <2>4. i + 1 \in 1 .. n
    <3>1. Cardinality(asked) \in Nat
      BY <1>9, FS_CardinalityType
    <3>. QED
      BY <3>1, <2>3, <1>2, <1>9 DEF n
  <2>5. new[i + 1] = e
    BY <2>1, <2>4, <1>1, <1>4
  <2>6. \A j \in 1 .. i + 1 : DescOf(new[j]) \in asked
    BY <2>2, <2>4, <1>3, <1>4
  <2>. QED
    BY <2>4, <2>5, <2>6, <1>4 DEF Recent
<1>. QED
  BY <1>3, <1>4, <1>5, <1>6, <1>7, <1>8, <1>9

-----------------------------------------------------------------------------
(* Calls *)

\* The plan of a call is a list of requests to one typeface.
LEMMA PlansAreRequests ==
  ASSUME NEW f \in Typefaces, NEW plan \in Measurings(f) \cup AtlasPlans(f) \cup CanvasPlans(f)
  PROVE  /\ plan \in Seq(Requests)
         /\ plan # <<>>
         /\ \A i \in DOMAIN plan : plan[i].desc[1] = f
<1>1. ASSUME NEW w \in Widths, NEW g \in Glyphs, NEW k \in Kinds,
             NEW d \in {Canonical(f, w), Transformed(f, w)}
      PROVE  Request(d, k, g) \in Requests /\ Request(d, k, g).desc[1] = f
  BY DEF Canonical, Transformed, Request, Requests, Descs, Looks
<1>2. 0 \in Widths /\ StrokeWidths \subseteq Widths /\ "image" \in Kinds /\ "metrics" \in Kinds
  BY DEF Widths, Kinds
<1>3. CASE plan \in Measurings(f)
  <2>1. PICK w \in Widths, g \in Glyphs :
          \E d \in {Canonical(f, w), Transformed(f, w)} : plan = <<Request(d, "metrics", g)>>
    BY <1>3 DEF Measurings
  <2>. QED
    BY <2>1, <1>1, <1>2
<1>4. CASE plan \in AtlasPlans(f)
  <2>1. CASE \E w \in Widths, g \in Glyphs : plan = <<Request(Transformed(f, w), "image", g)>>
    BY <2>1, <1>1, <1>2
  <2>2. CASE \E w \in StrokeWidths, g \in Glyphs :
               plan = <<Request(Transformed(f, w), "image", g), Request(Transformed(f, 0), "image", g)>>
    <3>1. PICK w \in StrokeWidths, g \in Glyphs :
               plan = <<Request(Transformed(f, w), "image", g), Request(Transformed(f, 0), "image", g)>>
      BY <2>2
    <3>2. /\ Request(Transformed(f, w), "image", g) \in Requests
          /\ Request(Transformed(f, 0), "image", g) \in Requests
          /\ Request(Transformed(f, w), "image", g).desc[1] = f
          /\ Request(Transformed(f, 0), "image", g).desc[1] = f
      BY <1>1, <1>2
    <3>. QED
      BY <3>1, <3>2
  <2>. QED
    BY <1>4, <2>1, <2>2 DEF AtlasPlans
<1>5. CASE plan \in CanvasPlans(f)
  <2>1. PICK g \in Glyphs, n \in 1 .. 2 :
          plan = <<Request(Canonical(f, 0), "metrics", g)>>
                   \o [i \in 1 .. n |-> Request(Transformed(f, 0), "image", g)]
    BY <1>5 DEF CanvasPlans
  <2>. DEFINE first == <<Request(Canonical(f, 0), "metrics", g)>>
              image == Request(Transformed(f, 0), "image", g)
              rest == [i \in 1 .. n |-> image]
  <2>2. /\ image \in Requests /\ image.desc[1] = f
        /\ first \in Seq(Requests) /\ first[1].desc[1] = f /\ Len(first) = 1
    BY <1>1, <1>2
  <2>. HIDE DEF first, image
  <2>3. rest \in Seq(Requests) /\ Len(rest) = n /\ \A i \in 1 .. n : rest[i] = image
    BY <2>2
  <2>. HIDE DEF rest
  <2>4. plan = first \o rest
    BY <2>1 DEF first, rest, image
  <2>5. /\ plan \in Seq(Requests) /\ Len(plan) = n + 1 /\ plan[1] = first[1]
        /\ \A i \in 2 .. n + 1 : plan[i] = image
    <3>. DEFINE e == Request(Canonical(f, 0), "metrics", g)
    <3>0. e \in Requests /\ first = <<e>>
      BY <1>1, <1>2 DEF first
    <3>. HIDE DEF e
    <3>1. /\ <<e>> \o rest \in Seq(Requests)
          /\ Len(<<e>> \o rest) = Len(rest) + 1
          /\ (<<e>> \o rest)[1] = e
          /\ \A i \in 2 .. Len(rest) + 1 : (<<e>> \o rest)[i] = rest[i - 1]
      BY <3>0, <2>3
    <3>2. \A i \in 2 .. n + 1 : i - 1 \in 1 .. n
      OBVIOUS
    <3>. QED
      BY <3>0, <3>1, <3>2, <2>3, <2>4
  <2>. QED
    BY <2>2, <2>5
<1>. QED
  BY <1>3, <1>4, <1>5

\* A plan asks for finitely many descriptors.
LEMMA PlansAreFinite ==
  ASSUME NEW plan \in Seq(Requests)
  PROVE  IsFiniteSet(DescsOf(plan)) /\ DescsOf(plan) \subseteq Descs
<1>. DEFINE desc == [i \in DOMAIN plan |-> plan[i].desc]
<1>1. desc \in Surjection(DOMAIN plan, DescsOf(plan))
  BY DEF DescsOf, Surjection
<1>2. IsFiniteSet(DOMAIN plan)
  <2>1. DOMAIN plan = 1 .. Len(plan) /\ Len(plan) \in Int /\ 1 \in Int
    OBVIOUS
  <2>. QED
    BY <2>1, FS_Interval
<1>3. DescsOf(plan) \subseteq Descs
  <2>1. \A i \in DOMAIN plan : plan[i].desc \in Descs
    <3>1. \A i \in DOMAIN plan : plan[i] \in Requests
      OBVIOUS
    <3>. QED
      BY <3>1 DEF Requests
  <2>. QED
    BY <2>1 DEF DescsOf
<1>. HIDE DEF desc
<1>. QED
  BY <1>1, <1>2, <1>3, FS_Surjection

\* So do all plans together.
LEMMA OthersAreFinite ==
  ASSUME TypesAreRight
  PROVE  LET others == UNION {DescsOf(calls[u].plan) : u \in Active}
         IN  IsFiniteSet(others) /\ others \subseteq Descs
<1>. DEFINE sets == {DescsOf(calls[u].plan) : u \in Active}
            of == [u \in Active |-> DescsOf(calls[u].plan)]
<1>1. \A u \in Active : IsFiniteSet(DescsOf(calls[u].plan)) /\ DescsOf(calls[u].plan) \subseteq Descs
  <2>. TAKE u \in Active
  <2>1. calls[u].plan \in Seq(Requests)
    BY DEF TypesAreRight, Active, Calls
  <2>. QED
    BY <2>1, PlansAreFinite
<1>2. IsFiniteSet(Active)
  BY ScalerAssumption, FS_Subset DEF Active
<1>3. of \in Surjection(Active, sets)
  BY DEF Surjection
<1>4. IsFiniteSet(sets)
  <2>. HIDE DEF of, sets
  <2>. QED BY <1>2, <1>3, FS_Surjection
<1>5. \A s \in sets : IsFiniteSet(s) /\ s \subseteq Descs
  BY <1>1
<1>6. IsFiniteSet(UNION sets) /\ UNION sets \subseteq Descs
  <2>. HIDE DEF sets
  <2>. QED BY <1>4, <1>5, FS_UNION
<1>. QED
  BY <1>6

\* A typeface that a font refers to is not destroyed.
LEMMA LifeStays ==
  ASSUME TypesAreRight, FontsKeepTypefaces, NEW t \in Threads, NEW scalers
  PROVE  AfterRelease(t, fonts, scalers) = life
<1>1. ASSUME NEW f \in Typefaces, life[f] = "alive" PROVE Owned(f, fonts, scalers)
  BY <1>1 DEF FontsKeepTypefaces, Owned
<1>. QED
  BY <1>1 DEF AfterRelease, TypesAreRight

\* Calls whose glyphs all live remember them.
LEMMA NothingIsForgotten ==
  ASSUME NEW now \in [Threads -> Calls], NEW living,
         \A t \in Threads : \A i \in DOMAIN now[t].got : now[t].got[i].from \in DOMAIN living
  PROVE  Forget(now, living) = now
<1>1. ASSUME NEW t \in Threads
      PROVE  [i \in DOMAIN now[t].got |-> IF now[t].got[i].from \in DOMAIN living THEN now[t].got[i]
                                         ELSE [now[t].got[i] EXCEPT !.from = Nowhere]]
             = now[t].got
  <2>1. now[t].got \in Seq(GivenGlyphs)
    BY DEF Calls
  <2>. QED
    BY <2>1
<1>2. \A t \in Threads : [now[t] EXCEPT !.got = now[t].got] = now[t]
  BY DEF Calls
<1>. QED
  BY <1>1, <1>2 DEF Forget

\* What was recent among fewer is recent among more, and it is in the list.
LEMMA RecentFacts ==
  ASSUME NEW list \in Seq(Places), NEW c, NEW asked, Recent(list, c, asked)
  PROVE  /\ c \in ToSet(list)
         /\ \A more : asked \subseteq more => Recent(list, c, more)
<1>1. PICK i \in 1 .. Len(list) : list[i] = c /\ \A j \in 1 .. i : DescOf(list[j]) \in asked
  BY DEF Recent
<1>2. c \in ToSet(list)
  BY <1>1 DEF ToSet
<1>3. ASSUME NEW more, asked \subseteq more PROVE Recent(list, c, more)
  BY <1>1, <1>3 DEF Recent
<1>. QED
  BY <1>2, <1>3

\* The containers of the cache and of the calls are finitely many.
LEMMA ContainersAreFinite ==
  ASSUME TypesAreRight, ContainersAreReferenced
  PROVE  IsFiniteSet(DOMAIN containers)
<1>. DEFINE held == {calls[t].held : t \in Threads}
            of == [t \in Threads |-> calls[t].held]
            entry == [i \in 1 .. Len(cache) |-> cache[i]]
<1>1. IsFiniteSet(held)
  <2>1. of \in Surjection(Threads, held)
    BY DEF Surjection
  <2>. HIDE DEF of, held
  <2>. QED BY <2>1, FS_Surjection, ScalerAssumption
<1>2. IsFiniteSet(ToSet(cache))
  <2>1. Len(cache) \in Int /\ 1 \in Int /\ DOMAIN cache = 1 .. Len(cache)
    BY DEF TypesAreRight
  <2>2. entry \in Surjection(1 .. Len(cache), ToSet(cache))
    BY <2>1 DEF Surjection, ToSet
  <2>3. IsFiniteSet(1 .. Len(cache))
    BY <2>1, FS_Interval
  <2>. HIDE DEF entry
  <2>. QED BY <2>2, <2>3, FS_Surjection
<1>3. DOMAIN containers \subseteq ToSet(cache) \cup held
  BY DEF ContainersAreReferenced, Referenced
<1>4. IsFiniteSet(ToSet(cache) \cup held)
  <2>. HIDE DEF held
  <2>. QED BY <1>1, <1>2, FS_Union
<1>. QED
  <2>. HIDE DEF held
  <2>. QED BY <1>3, <1>4, FS_Subset

-----------------------------------------------------------------------------
(* The steps *)

\* A call that begins.
Beginning(user, plan, asked) ==
    [Resting EXCEPT !.at = "lookup", !.user = user, !.plan = plan, !.asked = asked]

\* Its fields, and those of a thread at rest.
LEMMA NewCall ==
  /\ Resting \in Calls
  /\ \A user \in {"measure", "atlas", "canvas"}, plan \in Seq(Requests), asked \in SUBSET Descs :
        /\ Beginning(user, plan, asked) \in Calls
        /\ Beginning(user, plan, asked).at = "lookup"
        /\ Beginning(user, plan, asked).user = user
        /\ Beginning(user, plan, asked).plan = plan
        /\ Beginning(user, plan, asked).held = Nowhere
        /\ Beginning(user, plan, asked).got = <<>>
        /\ Beginning(user, plan, asked).asked = asked
<1>1. Resting \in Calls
  BY DEF Resting, Calls
<1>2. Resting.held = Nowhere /\ Resting.got = <<>>
  BY DEF Resting
<1>. QED
  BY <1>1, <1>2 DEF Calls, Beginning

\* A call begins: its descriptors are added to what is asked for during the
\* calls under way, and the cache has room for them all.
LEMMA StartKeeps ==
  ASSUME ScalerInv, NEW t \in Threads, NEW user \in {"measure", "atlas", "canvas"},
         NEW f \in fonts[t], NEW plan \in Measurings(f) \cup AtlasPlans(f) \cup CanvasPlans(f),
         Start(t, user, plan)
  PROVE  ScalerInv'
<1>. DEFINE others == UNION {DescsOf(calls[u].plan) : u \in Active}
            new == Beginning(user, plan, DescsOf(plan) \cup others)
<1>0. /\ TypesAreRight /\ CallsAreInOrder /\ FontsKeepTypefaces
      /\ ContainersAreReferenced /\ CallsUseRecent
  BY DEF ScalerInv
<1>1. f \in Typefaces
  BY <1>0 DEF TypesAreRight
<1>2. /\ plan \in Seq(Requests)
      /\ plan # <<>>
      /\ \A i \in DOMAIN plan : plan[i].desc[1] = f
  BY <1>1, PlansAreRequests
<1>3. /\ IsFiniteSet(DescsOf(plan)) /\ DescsOf(plan) \subseteq Descs
      /\ IsFiniteSet(others) /\ others \subseteq Descs
  BY <1>0, <1>2, PlansAreFinite, OthersAreFinite
<1>4. /\ calls[t].at = "idle" /\ calls[t] = Resting /\ t \notin Active
      /\ CacheIsLarge(t, plan)
      /\ UNCHANGED <<fonts, life, lock, cache, containers, heap>>
  BY <1>0 DEF Start, At, Active, CallsAreInOrder
<1>5. /\ calls'[t] = new
      /\ \A u \in Threads \ {t} :
             calls'[u] = IF u \in Active THEN [calls[u] EXCEPT !.asked = @ \cup DescsOf(plan)]
                         ELSE calls[u]
      /\ DOMAIN calls' = Threads
      /\ calls' = [u \in Threads |-> calls'[u]]
  BY DEF Start, Beginning
<1>6. /\ new \in Calls /\ new.at = "lookup" /\ new.plan = plan /\ new.held = Nowhere
      /\ new.got = <<>> /\ new.asked = DescsOf(plan) \cup others
  <2>. HIDE DEF others
  <2>1. DescsOf(plan) \cup others \in SUBSET Descs
    BY <1>3
  <2>2. plan \in Seq(Requests)
    BY <1>2
  <2>. HIDE DEF others
  <2>. QED BY <2>1, <2>2, NewCall
<1>7. \A u \in Threads \ {t} :
         /\ calls'[u] \in Calls
         /\ calls'[u].at = calls[u].at /\ calls'[u].plan = calls[u].plan
         /\ calls'[u].held = calls[u].held /\ calls'[u].got = calls[u].got
         /\ u \notin Active => calls'[u] = calls[u]
         /\ u \in Active => calls'[u].asked = calls[u].asked \cup DescsOf(plan)
  <2>. TAKE u \in Threads \ {t}
  <2>1. calls[u] \in Calls
    BY <1>0 DEF TypesAreRight
  <2>2. DescsOf(plan) \subseteq Descs
    BY <1>3
  <2>. HIDE DEF others
  <2>. QED
    BY <2>1, <2>2, <1>5 DEF Calls
<1>. HIDE DEF new
<1>8. Active' = Active \cup {t}
  BY <1>5, <1>6, <1>7 DEF Active
<1>9. TypesAreRight'
  BY <1>0, <1>4, <1>5, <1>6, <1>7 DEF TypesAreRight
<1>10. CallsAreInOrder'
  BY <1>0, <1>2, <1>4, <1>5, <1>6, <1>7 DEF CallsAreInOrder, Active, DescOf
<1>11. FontsKeepTypefaces'
  BY <1>0, <1>2, <1>4, <1>5, <1>6, <1>7 DEF FontsKeepTypefaces
<1>12. ContainersAreReferenced'
  <2>1. \A u \in Threads : calls'[u].held = calls[u].held
    BY <1>4, <1>5, <1>6, <1>7 DEF Resting
  <2>. QED
    BY <2>1, <1>0, <1>4 DEF ContainersAreReferenced, Referenced
<1>13. CallsUseRecent'
  <2>1. /\ Len(cache') <= Capacity
        /\ \A i, j \in 1 .. Len(cache') : DescOf(cache'[i]) = DescOf(cache'[j]) => i = j
    BY <1>0, <1>4 DEF CallsUseRecent
  <2>2. cache \in Seq(Places) /\ cache' = cache
    BY <1>0, <1>4 DEF TypesAreRight
  <2>3. \A u \in Threads : calls'[u].plan = plan \/ calls'[u].plan = calls[u].plan
    BY <1>5, <1>6, <1>7
  <2>4. \A u \in Threads \ Active : DescsOf(calls[u].plan) = {}
    BY <1>0 DEF CallsAreInOrder, Active, Resting, DescsOf
  <2>5. ASSUME NEW u \in Active
        PROVE  /\ IsFiniteSet(calls'[u].asked) /\ Cardinality(calls'[u].asked) <= Capacity
               /\ \A v \in Threads : DescsOf(calls'[v].plan) \subseteq calls'[u].asked
               /\ calls'[u].held # Nowhere => Recent(cache, calls'[u].held, calls'[u].asked)
               /\ \A i \in DOMAIN calls'[u].got :
                      /\ calls'[u].got[i].from # Nowhere
                      /\ DescOf(calls'[u].got[i].from) = calls'[u].got[i].desc
                      /\ Recent(cache, calls'[u].got[i].from, calls'[u].asked)
    <3>1. u \in Threads \ {t} /\ calls'[u].asked = calls[u].asked \cup DescsOf(plan)
      BY <1>4, <1>7 DEF Active
    <3>2. IsFiniteSet(calls'[u].asked)
      <4>1. IsFiniteSet(calls[u].asked)
        BY <1>0 DEF CallsUseRecent
      <4>2. IsFiniteSet(DescsOf(plan))
        BY <1>3
      <4>. QED
        BY <4>1, <4>2, <3>1, FS_Union
    <3>3. Cardinality(calls'[u].asked) <= Capacity
      BY <3>1, <1>4 DEF CacheIsLarge
    <3>4. \A v \in Threads : DescsOf(calls'[v].plan) \subseteq calls'[u].asked
      BY <3>1, <2>3, <1>0 DEF CallsUseRecent
    <3>5. calls'[u].held # Nowhere => Recent(cache, calls'[u].held, calls'[u].asked)
      BY <3>1, <2>2, <1>0, <1>7, RecentFacts DEF CallsUseRecent
    <3>6. ASSUME NEW i \in DOMAIN calls'[u].got
          PROVE  /\ calls'[u].got[i].from # Nowhere
                 /\ DescOf(calls'[u].got[i].from) = calls'[u].got[i].desc
                 /\ Recent(cache, calls'[u].got[i].from, calls'[u].asked)
      <4>1. calls'[u].got = calls[u].got /\ i \in DOMAIN calls[u].got
        BY <3>1, <1>7
      <4>2. /\ calls[u].got[i].from # Nowhere
            /\ DescOf(calls[u].got[i].from) = calls[u].got[i].desc
            /\ Recent(cache, calls[u].got[i].from, calls[u].asked)
        BY <4>1, <1>0 DEF CallsUseRecent
      <4>. QED
        BY <4>1, <4>2, <3>1, <2>2, RecentFacts
    <3>. QED
      BY <3>2, <3>3, <3>4, <3>5, <3>6
  <2>6. /\ IsFiniteSet(calls'[t].asked) /\ Cardinality(calls'[t].asked) <= Capacity
        /\ \A v \in Threads : DescsOf(calls'[v].plan) \subseteq calls'[t].asked
        /\ calls'[t].held = Nowhere /\ calls'[t].got = <<>>
    <3>1. IsFiniteSet(calls'[t].asked)
      <4>1. IsFiniteSet(DescsOf(plan)) /\ IsFiniteSet(others)
        BY <1>3
      <4>2. calls'[t].asked = DescsOf(plan) \cup others
        BY <1>5, <1>6
      <4>. HIDE DEF others
      <4>. QED BY <4>1, <4>2, FS_Union
    <3>2. Cardinality(calls'[t].asked) <= Capacity
      BY <1>4, <1>5, <1>6 DEF CacheIsLarge
    <3>3. \A v \in Threads : DescsOf(calls'[v].plan) \subseteq calls'[t].asked
      BY <2>3, <2>4, <1>5, <1>6
    <3>. QED
      BY <3>1, <3>2, <3>3, <1>5, <1>6
  <2>. QED
    BY <2>1, <2>2, <2>5, <2>6, <1>8 DEF CallsUseRecent
<1>. QED
  BY <1>9, <1>10, <1>11, <1>12, <1>13 DEF ScalerInv

\* What was given is in the cache, and lives as long as it is recent there.
LEMMA GivenIsCached ==
  ASSUME TypesAreRight, CallsAreInOrder, CallsUseRecent, NEW t \in Threads,
         NEW i \in DOMAIN calls[t].got
  PROVE  /\ t \in Active
         /\ calls[t].got[i].from \in ToSet(cache)
         /\ Recent(cache, calls[t].got[i].from, calls[t].asked)
         /\ DescOf(calls[t].got[i].from) = calls[t].got[i].desc
<1>1. t \in Active
  BY DEF CallsAreInOrder, Active, Resting
<1>2. cache \in Seq(Places)
  BY DEF TypesAreRight
<1>3. /\ Recent(cache, calls[t].got[i].from, calls[t].asked)
      /\ DescOf(calls[t].got[i].from) = calls[t].got[i].desc
  BY <1>1 DEF CallsUseRecent
<1>. QED
  BY <1>1, <1>2, <1>3, RecentFacts

\* A lookup finds a container or makes one, moves it to the front, and takes
\* nothing from a call.
LEMMA LookupFacts ==
  ASSUME ScalerInv, NEW t \in Threads, FindOrCreateScalerContext(t)
  PROVE  \E c \in Places :
           /\ DescOf(c) = Head(calls[t].plan).desc
           /\ life[TypefaceOf(c)] = "alive"
           /\ cache' \in Seq(Places) /\ Len(cache') <= Capacity /\ Distinct(cache')
           /\ c \in ToSet(cache')
           /\ \A asked : DescOf(c) \in asked => Recent(cache', c, asked)
           /\ \A u \in Active : \A e : Recent(cache, e, calls[u].asked) => Recent(cache', e, calls[u].asked)
           /\ calls' = [calls EXCEPT ![t].at = "use", ![t].held = c]
           /\ life' = life /\ lock' = Nobody /\ UNCHANGED <<fonts, heap>>
           /\ containers' \in [DOMAIN containers' -> Scalers]
           /\ DOMAIN containers' = (DOMAIN containers \cup {c}) \cap Referenced(cache', calls')
           /\ ToSet(cache') \subseteq DOMAIN containers'
           /\ c \in DOMAIN containers \/ c \notin {calls[u].held : u \in Threads}
           /\ \A e \in DOMAIN containers \cap DOMAIN containers' : containers'[e] = containers[e]
<1>0. /\ TypesAreRight /\ CallsAreInOrder /\ FontsKeepTypefaces
      /\ ContainersAreReferenced /\ CallsUseRecent
  BY DEF ScalerInv
<1>. DEFINE desc == Head(calls[t].plan).desc
            found == Cached(desc) # {}
            c == IF found THEN CHOOSE e \in Cached(desc) : TRUE ELSE UnusedFor(desc)
            list == IF found THEN Find(cache, c) ELSE Insert(cache, c)
            all == IF found THEN containers ELSE With(containers, c, NewContainer)
            now == [calls EXCEPT ![t].at = "use", ![t].held = c]
            rest == Living(all, list, now)
<1>1. /\ calls[t].at = "lookup" /\ ~Destroying(t)
      /\ cache' = list /\ containers' = rest /\ calls' = Forget(now, rest)
      /\ life' = AfterRelease(t, fonts, rest)
      /\ lock' = IF t \in {life'[f] : f \in Typefaces} THEN t ELSE Nobody
      /\ UNCHANGED <<fonts, heap>>
  BY DEF FindOrCreateScalerContext, At
<1>2. /\ calls[t].plan \in Seq(Requests) /\ calls[t].plan # <<>>
      /\ 1 \in DOMAIN calls[t].plan /\ desc = calls[t].plan[1].desc
      /\ desc \in Descs /\ desc \in DescsOf(calls[t].plan)
  <2>1. calls[t].plan \in Seq(Requests) /\ calls[t].plan # <<>>
    BY <1>0, <1>1 DEF TypesAreRight, Calls, CallsAreInOrder
  <2>2. 1 \in DOMAIN calls[t].plan /\ Head(calls[t].plan) = calls[t].plan[1]
        /\ calls[t].plan[1] \in Requests
    BY <2>1
  <2>. QED
    BY <2>1, <2>2 DEF Requests, DescsOf
<1>3. cache \in Seq(Places) /\ Distinct(cache) /\ Len(cache) <= Capacity
  BY <1>0 DEF TypesAreRight, CallsUseRecent, Distinct
<1>4. /\ c \in Places /\ DescOf(c) = desc
      /\ found => c \in ToSet(cache)
      /\ ~found => c \notin DOMAIN containers /\ \A i \in 1 .. Len(cache) : DescOf(cache[i]) # DescOf(c)
  <2>1. CASE found
    <3>1. c \in ToSet(cache) /\ DescOf(c) = desc
      BY <2>1 DEF Cached
    <3>2. c \in Places
      <4>. HIDE DEF c
      <4>. QED BY <3>1, <1>3 DEF ToSet
    <3>. QED
      BY <2>1, <3>1, <3>2
  <2>2. CASE ~found
    <3>1. c \in Places /\ c \notin DOMAIN containers /\ DescOf(c) = desc
      BY <2>2, <1>0, <1>2, ContainersAreFinite, UnusedForIsFree
    <3>2. \A i \in 1 .. Len(cache) : DescOf(cache[i]) # desc
      BY <2>2, <1>3 DEF Cached, ToSet
    <3>. QED
      BY <2>2, <3>1, <3>2
  <2>. QED
    BY <2>1, <2>2
<1>. HIDE DEF c
<1>5. /\ list \in Seq(Places) /\ Len(list) <= Capacity /\ Distinct(list)
      /\ ToSet(list) \subseteq ToSet(cache) \cup {c}
      /\ \A asked : desc \in asked => Recent(list, c, asked)
      /\ \A e, asked : /\ IsFiniteSet(asked) /\ Cardinality(asked) <= Capacity
                       /\ desc \in asked /\ Recent(cache, e, asked)
                       => Recent(list, e, asked)
  <2>1. CASE found
    <3>1. Len(Find(cache, c)) <= Len(cache) /\ Find(cache, c) \in Seq(Places)
      BY <2>1, <1>3, <1>4, FindKeepsRecent
    <3>2. Len(Find(cache, c)) <= Capacity
      BY <3>1, <1>3, ScalerAssumption
    <3>. QED
      BY <2>1, <3>2, <1>3, <1>4, FindKeepsRecent
  <2>2. CASE ~found
    BY <2>2, <1>3, <1>4, InsertKeepsRecent
  <2>. QED
    BY <2>1, <2>2
<1>6. \A u \in Active : \A e : Recent(cache, e, calls[u].asked) => Recent(list, e, calls[u].asked)
  <2>. TAKE u \in Active
  <2>1. /\ IsFiniteSet(calls[u].asked) /\ Cardinality(calls[u].asked) <= Capacity
        /\ desc \in calls[u].asked
    BY <1>0, <1>2 DEF CallsUseRecent
  <2>. HIDE DEF list, desc
  <2>. QED
    BY <2>1, <1>5
<1>7. c \in ToSet(list)
  <2>1. Recent(list, c, {desc})
    BY <1>5
  <2>2. list \in Seq(Places)
    BY <1>5
  <2>. HIDE DEF list
  <2>. QED
    BY <2>1, <2>2, RecentFacts
<1>8. /\ DOMAIN all = DOMAIN containers \cup {c}
      /\ \A e \in DOMAIN all : all[e] \in Scalers
      /\ \A e \in DOMAIN containers : all[e] = containers[e]
  <2>1. containers \in [DOMAIN containers -> Scalers] /\ ToSet(cache) \subseteq DOMAIN containers
    BY <1>0 DEF TypesAreRight, ContainersAreReferenced
  <2>2. NewContainer \in Scalers
    BY DEF NewContainer, NoImage, Nothing, Scalers, Images
  <2>3. CASE found
    BY <2>1, <2>3, <1>4
  <2>4. CASE ~found
    <3>1. /\ DOMAIN all = DOMAIN containers \cup {c}
          /\ all[c] = NewContainer
          /\ \A e \in DOMAIN containers \ {c} : all[e] = containers[e]
      <4>1. all = With(containers, c, NewContainer)
        BY <2>4
      <4>. HIDE DEF all
      <4>. QED
        BY <4>1 DEF With
    <3>. HIDE DEF all
    <3>. QED
      BY <3>1, <2>1, <2>2, <2>4, <1>4
  <2>. QED
    BY <2>3, <2>4
<1>9. /\ DOMAIN rest = DOMAIN all \cap Referenced(list, now)
      /\ \A e \in DOMAIN rest : rest[e] = all[e]
      /\ rest = [e \in DOMAIN rest |-> rest[e]]
  BY DEF Living, Restrict
<1>10. ToSet(list) \subseteq DOMAIN rest
  BY <1>0, <1>5, <1>8, <1>9 DEF ContainersAreReferenced, Referenced
<1>11. /\ now \in [Threads -> Calls]
       /\ \A u \in Threads : now[u].got = calls[u].got
  <2>. HIDE DEF rest, list, all
  <2>1. calls \in [Threads -> Calls]
    BY <1>0 DEF TypesAreRight
  <2>2. c \in Places
    BY <1>4
  <2>. QED BY <2>1, <2>2 DEF Calls
<1>12. ASSUME NEW u \in Threads, NEW i \in DOMAIN now[u].got
       PROVE  now[u].got[i].from \in DOMAIN rest
  <2>. DEFINE e == calls[u].got[i].from
  <2>1. now[u].got[i].from = e /\ i \in DOMAIN calls[u].got
    BY <1>11, <1>12
  <2>2. u \in Active /\ Recent(cache, e, calls[u].asked)
    BY <2>1, <1>0, GivenIsCached
  <2>3. Recent(list, e, calls[u].asked) /\ list \in Seq(Places)
    BY <2>2, <1>5, <1>6
  <2>4. e \in ToSet(list)
    <3>. HIDE DEF list, e
    <3>. QED BY <2>3, RecentFacts
  <2>. QED
    BY <2>1, <2>4, <1>10
<1>13. calls' = now
  <2>1. Forget(now, rest) = now
    <3>. HIDE DEF now, rest
    <3>. QED BY <1>11, <1>12, NothingIsForgotten
  <2>. QED
    BY <2>1, <1>1
<1>14. life' = life /\ lock' = Nobody
  <2>1. life' = life
    <3>. HIDE DEF rest
    <3>. QED BY <1>0, <1>1, LifeStays
  <2>. QED
    BY <2>1, <1>1 DEF Destroying
<1>15. life[TypefaceOf(c)] = "alive"
  BY <1>0, <1>2, <1>4, DescFacts DEF FontsKeepTypefaces, TypefaceOf
<1>16. c \in DOMAIN containers \/ c \notin {calls[u].held : u \in Threads}
  BY <1>0, <1>4, DescFacts DEF ContainersAreReferenced
<1>17. containers' \in [DOMAIN containers' -> Scalers]
  <2>. HIDE DEF rest, all
  <2>. QED BY <1>1, <1>8, <1>9
<1>18. /\ DOMAIN containers' = (DOMAIN containers \cup {c}) \cap Referenced(cache', calls')
       /\ ToSet(cache') \subseteq DOMAIN containers'
       /\ \A e \in DOMAIN containers \cap DOMAIN containers' : containers'[e] = containers[e]
  <2>. HIDE DEF rest, all, list, now
  <2>. QED BY <1>1, <1>8, <1>9, <1>10, <1>13
<1>19. cache' \in Seq(Places) /\ Len(cache') <= Capacity /\ Distinct(cache')
       /\ c \in ToSet(cache')
       /\ (\A asked : DescOf(c) \in asked => Recent(cache', c, asked))
       /\ \A u \in Active : \A e : Recent(cache, e, calls[u].asked) => Recent(cache', e, calls[u].asked)
  <2>. HIDE DEF list
  <2>. QED BY <1>1, <1>4, <1>5, <1>6, <1>7
<1>. QED
  <2>. HIDE DEF rest, all, list
  <2>. QED BY <1>1, <1>4, <1>13, <1>14, <1>15, <1>16, <1>17, <1>18, <1>19

\* So a lookup keeps the invariant.
LEMMA LookupKeeps ==
  ASSUME ScalerInv, NEW t \in Threads, FindOrCreateScalerContext(t)
  PROVE  ScalerInv'
<1>0. /\ TypesAreRight /\ CallsAreInOrder /\ FontsKeepTypefaces
      /\ ContainersAreReferenced /\ CallsUseRecent
  BY DEF ScalerInv
<1>1. PICK c \in Places :
           /\ DescOf(c) = Head(calls[t].plan).desc
           /\ life[TypefaceOf(c)] = "alive"
           /\ cache' \in Seq(Places) /\ Len(cache') <= Capacity /\ Distinct(cache')
           /\ c \in ToSet(cache')
           /\ \A asked : DescOf(c) \in asked => Recent(cache', c, asked)
           /\ \A u \in Active : \A e : Recent(cache, e, calls[u].asked) => Recent(cache', e, calls[u].asked)
           /\ calls' = [calls EXCEPT ![t].at = "use", ![t].held = c]
           /\ life' = life /\ lock' = Nobody /\ UNCHANGED <<fonts, heap>>
           /\ containers' \in [DOMAIN containers' -> Scalers]
           /\ DOMAIN containers' = (DOMAIN containers \cup {c}) \cap Referenced(cache', calls')
           /\ ToSet(cache') \subseteq DOMAIN containers'
           /\ c \in DOMAIN containers \/ c \notin {calls[u].held : u \in Threads}
           /\ \A e \in DOMAIN containers \cap DOMAIN containers' : containers'[e] = containers[e]
  BY LookupFacts
<1>2. /\ calls[t].at = "lookup" /\ t \in Active
      /\ calls[t].plan \in Seq(Requests) /\ calls[t].plan # <<>>
      /\ DescOf(c) \in DescsOf(calls[t].plan)
  <2>1. calls[t].at = "lookup" /\ calls[t].plan \in Seq(Requests) /\ calls[t].plan # <<>>
    BY <1>0 DEF FindOrCreateScalerContext, At, TypesAreRight, Calls, CallsAreInOrder
  <2>2. Head(calls[t].plan) = calls[t].plan[1] /\ 1 \in DOMAIN calls[t].plan
    BY <2>1
  <2>. QED
    BY <2>1, <2>2, <1>1 DEF Active, DescsOf
<1>3. /\ calls' \in [Threads -> Calls]
      /\ calls'[t].at = "use" /\ calls'[t].held = c
      /\ \A u \in Threads : /\ calls'[u].user = calls[u].user /\ calls'[u].plan = calls[u].plan
                            /\ calls'[u].got = calls[u].got /\ calls'[u].asked = calls[u].asked
                            /\ u # t => calls'[u] = calls[u]
  <2>1. calls \in [Threads -> Calls]
    BY <1>0 DEF TypesAreRight
  <2>. QED
    BY <2>1, <1>1, ZenonT(50) DEF Calls
<1>4. Active' = Active
  BY <1>2, <1>3 DEF Active
<1>5. TypesAreRight'
  <2>1. DOMAIN containers' \subseteq Places
    BY <1>0, <1>1 DEF TypesAreRight
  <2>. QED
    BY <2>1, <1>0, <1>1, <1>3 DEF TypesAreRight
<1>6. CallsAreInOrder'
  <2>1. c # Nowhere
    BY DescFacts
  <2>2. DescOf(c)' = DescOf(c)
    BY DEF DescOf
  <2>. QED
    BY <2>1, <2>2, <1>0, <1>1, <1>2, <1>3 DEF CallsAreInOrder, DescOf
<1>7. FontsKeepTypefaces'
  BY <1>0, <1>1, <1>3 DEF FontsKeepTypefaces
<1>8. ContainersAreReferenced'
  <2>1. ASSUME NEW u \in Threads, calls'[u].held # Nowhere PROVE calls'[u].held \in DOMAIN containers'
    <3>1. calls'[u].held \in DOMAIN containers \cup {c}
      BY <2>1, <1>0, <1>3 DEF ContainersAreReferenced
    <3>. QED
      BY <3>1, <1>1 DEF Referenced
  <2>2. \A e \in DOMAIN containers' : life'[TypefaceOf(e)] # "dead"
    BY <1>0, <1>1 DEF ContainersAreReferenced
  <2>. QED
    BY <2>1, <2>2, <1>1 DEF ContainersAreReferenced, TypefaceOf, DescOf
<1>9. CallsUseRecent'
  <2>1. ASSUME NEW u \in Active
        PROVE  /\ IsFiniteSet(calls'[u].asked) /\ Cardinality(calls'[u].asked) <= Capacity
               /\ \A v \in Threads : DescsOf(calls'[v].plan) \subseteq calls'[u].asked
               /\ calls'[u].held # Nowhere => Recent(cache', calls'[u].held, calls'[u].asked)
               /\ \A i \in DOMAIN calls'[u].got :
                      /\ calls'[u].got[i].from # Nowhere
                      /\ DescOf(calls'[u].got[i].from) = calls'[u].got[i].desc
                      /\ Recent(cache', calls'[u].got[i].from, calls'[u].asked)
    <3>1. /\ u \in Threads
          /\ IsFiniteSet(calls[u].asked) /\ Cardinality(calls[u].asked) <= Capacity
          /\ \A v \in Threads : DescsOf(calls[v].plan) \subseteq calls[u].asked
          /\ calls[u].held # Nowhere => Recent(cache, calls[u].held, calls[u].asked)
          /\ \A i \in DOMAIN calls[u].got :
                      /\ calls[u].got[i].from # Nowhere
                      /\ DescOf(calls[u].got[i].from) = calls[u].got[i].desc
                      /\ Recent(cache, calls[u].got[i].from, calls[u].asked)
      BY <1>0 DEF CallsUseRecent, Active
    <3>2. DescOf(c) \in calls[u].asked
      BY <3>1, <1>2
    <3>. QED
      <4>0. /\ \A e : Recent(cache, e, calls[u].asked) => Recent(cache', e, calls[u].asked)
            /\ Recent(cache', c, calls[u].asked)
        BY <3>2, <1>1
      <4>1. /\ calls'[u].held = calls[u].held \/ (u = t /\ calls'[u].held = c)
            /\ calls'[u].asked = calls[u].asked /\ calls'[u].got = calls[u].got
        BY <3>1, <1>3
      <4>2. calls'[u].held # Nowhere => Recent(cache', calls'[u].held, calls'[u].asked)
        BY <4>0, <4>1, <3>1
      <4>3. \A i \in DOMAIN calls'[u].got :
              /\ calls'[u].got[i].from # Nowhere
              /\ DescOf(calls'[u].got[i].from) = calls'[u].got[i].desc
              /\ Recent(cache', calls'[u].got[i].from, calls'[u].asked)
        BY <4>0, <4>1, <3>1
      <4>4. \A v \in Threads : DescsOf(calls'[v].plan) \subseteq calls'[u].asked
        BY <3>1, <1>3
      <4>. QED
        BY <4>2, <4>3, <4>4, <3>1, <1>3
  <2>. QED
    BY <2>1, <1>1, <1>4 DEF CallsUseRecent, Distinct, Recent, DescOf, DescsOf
<1>. QED
  BY <1>5, <1>6, <1>7, <1>8, <1>9 DEF ScalerInv

\* What preparing the next glyph of a call makes.
Made(t) == LET request == Head(calls[t].plan)
               c == calls[t].held
           IN  IF IsImage(request) THEN GenerateImage(c, request.glyph)
               ELSE [heap |-> heap, glyphs |-> containers[c]]

\* It is of the right types.
LEMMA MadeIsRight ==
  ASSUME TypesAreRight, NEW t \in Threads, calls[t].held \in DOMAIN containers,
         Head(calls[t].plan) \in Requests
  PROVE  /\ Made(t).glyphs \in Scalers
         /\ Made(t).heap \in [DOMAIN Made(t).heap -> Bitmaps]
         /\ DOMAIN Made(t).heap \subseteq Nat \ {0}
         /\ IsFiniteSet(DOMAIN Made(t).heap)
<1>. DEFINE c == calls[t].held
            g == Head(calls[t].plan).glyph
            b == Unused(DOMAIN heap)
            bitmap == [desc |-> DescOf(c), glyph |-> g]
<1>1. /\ c \in Places /\ DescOf(c) \in Descs /\ containers[c] \in Scalers /\ g \in Glyphs
      /\ heap \in [DOMAIN heap -> Bitmaps] /\ DOMAIN heap \subseteq Nat \ {0}
      /\ IsFiniteSet(DOMAIN heap)
  BY DescFacts DEF TypesAreRight, Requests
<1>2. b \in Nat \ {0} /\ b \notin DOMAIN heap
  BY <1>1, UnusedIsFree
<1>3. CASE ~IsImage(Head(calls[t].plan))
  BY <1>1, <1>3 DEF Made
<1>4. CASE IsImage(Head(calls[t].plan)) /\ TypefaceOf(c) \in Borrowing
  <2>1. /\ Made(t).heap = heap
        /\ Made(t).glyphs = [containers[c] EXCEPT !.images[g] = [at |-> Lent, needFree |-> FALSE],
                                                  !.drawn = {g}]
    BY <1>4 DEF Made, GenerateImage
  <2>2. [at |-> Lent, needFree |-> FALSE] \in Images
    BY DEF Images, Lent
  <2>. DEFINE lent == [containers[c] EXCEPT !.images[g] = [at |-> Lent, needFree |-> FALSE]]
  <2>3. lent \in Scalers
    BY <2>2, <1>1 DEF Scalers
  <2>. HIDE DEF lent
  <2>4. [lent EXCEPT !.drawn = {g}] \in Scalers
    BY <2>3, <1>1 DEF Scalers
  <2>. QED
    BY <2>1, <2>4, <1>1 DEF lent
<1>5. CASE IsImage(Head(calls[t].plan)) /\ TypefaceOf(c) \notin Borrowing
  <2>1. /\ Made(t).heap = With(heap, b, bitmap)
        /\ Made(t).glyphs = [containers[c] EXCEPT !.images[g] = [at |-> b, needFree |-> TRUE]]
    BY <1>5 DEF Made, GenerateImage
  <2>. HIDE DEF b
  <2>2. [at |-> b, needFree |-> TRUE] \in Images
    BY <1>2 DEF Images
  <2>3. bitmap \in Bitmaps
    BY <1>1 DEF Bitmaps
  <2>. HIDE DEF bitmap
  <2>4. /\ With(heap, b, bitmap) \in [DOMAIN heap \cup {b} -> Bitmaps]
        /\ DOMAIN With(heap, b, bitmap) = DOMAIN heap \cup {b}
    BY <2>3, <1>1 DEF With
  <2>5. IsFiniteSet(DOMAIN heap \cup {b})
    BY <1>1, FS_AddElement
  <2>6. Made(t).glyphs \in Scalers
    BY <2>1, <2>2, <1>1 DEF Scalers
  <2>. QED
    BY <2>1, <2>4, <2>5, <2>6, <1>1, <1>2
<1>. QED
  BY <1>3, <1>4, <1>5

\* A glyph is prepared: the call gets it, drops the container, and the cache
\* keeps it.
LEMMA PrepareFacts ==
  ASSUME ScalerInv, NEW t \in Threads, Prepare(t)
  PROVE  /\ calls[t].at = "use" /\ calls[t].held \in ToSet(cache)
         /\ calls[t].plan \in Seq(Requests) /\ calls[t].plan # <<>>
         /\ DescOf(calls[t].held) = Head(calls[t].plan).desc
         /\ calls' = [calls EXCEPT ![t] = [calls[t] EXCEPT
                         !.at = AfterUse(calls[t], Head(calls[t].plan)),
                         !.plan = Tail(@),
                         !.held = Nowhere,
                         !.got = Append(@, [from |-> calls[t].held,
                                            desc |-> Head(calls[t].plan).desc,
                                            kind |-> Head(calls[t].plan).kind,
                                            glyph |-> Head(calls[t].plan).glyph])]]
         /\ UNCHANGED <<fonts, life, lock, cache>>
         /\ heap' = Made(t).heap
         /\ containers' \in [DOMAIN containers' -> Scalers]
         /\ DOMAIN containers' = DOMAIN containers \cap Referenced(cache, calls')
         /\ ToSet(cache) \subseteq DOMAIN containers'
         /\ containers'[calls[t].held] = Made(t).glyphs
         /\ \A e \in DOMAIN containers' \ {calls[t].held} : containers'[e] = containers[e]
<1>0. /\ TypesAreRight /\ CallsAreInOrder /\ FontsKeepTypefaces
      /\ ContainersAreReferenced /\ CallsUseRecent
  BY DEF ScalerInv
<1>. DEFINE call == calls[t]
            request == Head(call.plan)
            c == call.held
            all == [containers EXCEPT ![c] = Made(t).glyphs]
            given == [from |-> c, desc |-> request.desc, kind |-> request.kind,
                      glyph |-> request.glyph]
            now == [calls EXCEPT ![t] = [call EXCEPT
                       !.at = AfterUse(call, request),
                       !.plan = Tail(@),
                       !.held = Nowhere,
                       !.got = Append(@, given)]]
            rest == Living(all, cache, now)
<1>1. /\ call.at = "use"
      /\ heap' = Made(t).heap /\ containers' = rest /\ calls' = Forget(now, rest)
      /\ life' = AfterRelease(t, fonts, rest) /\ UNCHANGED <<fonts, lock, cache>>
  BY DEF Prepare, At, Made
<1>2. /\ call \in Calls /\ call.plan \in Seq(Requests) /\ call.plan # <<>>
      /\ c # Nowhere /\ DescOf(c) = request.desc
      /\ c \in DOMAIN containers /\ request \in Requests
  <2>1. /\ call \in Calls /\ call.plan \in Seq(Requests) /\ call.plan # <<>>
        /\ c # Nowhere /\ DescOf(c) = request.desc
        /\ c \in DOMAIN containers
    BY <1>0, <1>1 DEF TypesAreRight, CallsAreInOrder, ContainersAreReferenced, Calls
  <2>. QED
    BY <2>1
<1>3. c \in ToSet(cache)
  <2>1. t \in Active /\ cache \in Seq(Places)
    BY <1>0, <1>1 DEF Active, TypesAreRight
  <2>. QED
    BY <2>1, <1>0, <1>2, RecentFacts DEF CallsUseRecent
<1>4. /\ Made(t).glyphs \in Scalers
      /\ containers \in [DOMAIN containers -> Scalers]
      /\ ToSet(cache) \subseteq DOMAIN containers
  BY <1>0, <1>2, MadeIsRight DEF TypesAreRight, ContainersAreReferenced
<1>5. /\ DOMAIN all = DOMAIN containers
      /\ \A e \in DOMAIN all : all[e] \in Scalers
      /\ all[c] = Made(t).glyphs
      /\ \A e \in DOMAIN containers \ {c} : all[e] = containers[e]
  BY <1>2, <1>4
<1>. HIDE DEF all
<1>6. /\ DOMAIN rest = DOMAIN all \cap Referenced(cache, now)
      /\ \A e \in DOMAIN rest : rest[e] = all[e]
      /\ rest = [e \in DOMAIN rest |-> rest[e]]
  BY DEF Living, Restrict
<1>7. ToSet(cache) \subseteq DOMAIN rest
  BY <1>4, <1>5, <1>6 DEF Referenced
<1>. HIDE DEF rest
<1>8. given \in GivenGlyphs /\ given.from = c
  <2>1. c \in Places \cup {Nowhere}
    BY <1>2 DEF Calls
  <2>. QED
    BY <2>1, <1>2 DEF GivenGlyphs, Requests
<1>. HIDE DEF given
<1>9. /\ AfterUse(call, request) \in {"idle", "lookup", "use", "read"}
      /\ Tail(call.plan) \in Seq(Requests)
      /\ Append(call.got, given) \in Seq(GivenGlyphs)
      /\ Len(Append(call.got, given)) = Len(call.got) + 1
      /\ \A i \in 1 .. Len(call.got) : Append(call.got, given)[i] = call.got[i]
      /\ Append(call.got, given)[Len(call.got) + 1] = given
      /\ DOMAIN Append(call.got, given) = 1 .. Len(call.got) + 1
      /\ DOMAIN call.got = 1 .. Len(call.got)
  <2>1. call.got \in Seq(GivenGlyphs)
    BY <1>2 DEF Calls
  <2>2. /\ Append(call.got, given) \in Seq(GivenGlyphs)
        /\ Len(Append(call.got, given)) = Len(call.got) + 1
        /\ \A i \in 1 .. Len(call.got) : Append(call.got, given)[i] = call.got[i]
        /\ Append(call.got, given)[Len(call.got) + 1] = given
        /\ DOMAIN Append(call.got, given) = 1 .. Len(call.got) + 1
        /\ DOMAIN call.got = 1 .. Len(call.got)
    BY <2>1, <1>8
  <2>3. Tail(call.plan) \in Seq(Requests)
    BY <1>2
  <2>. QED
    BY <2>2, <2>3 DEF AfterUse
<1>10. /\ now \in [Threads -> Calls]
       /\ now[t].got = Append(call.got, given)
       /\ \A u \in Threads \ {t} : now[u] = calls[u]
  <2>1. calls \in [Threads -> Calls]
    BY <1>0 DEF TypesAreRight
  <2>. QED
    BY <2>1, <1>9 DEF Calls
<1>11. ASSUME NEW u \in Threads, NEW i \in DOMAIN now[u].got
       PROVE  now[u].got[i].from \in DOMAIN rest
  <2>1. CASE u = t /\ i = Len(call.got) + 1
    BY <2>1, <1>3, <1>7, <1>8, <1>9, <1>10
  <2>2. CASE u # t \/ i \in 1 .. Len(call.got)
    <3>1. i \in DOMAIN calls[u].got /\ now[u].got[i] = calls[u].got[i]
      BY <2>2, <1>9, <1>10, <1>11
    <3>. QED
      BY <3>1, <1>0, <1>7, GivenIsCached
  <2>. QED
    BY <2>1, <2>2, <1>9, <1>10, <1>11
<1>12. calls' = now
  <2>1. Forget(now, rest) = now
    <3>. HIDE DEF now
    <3>. QED BY <1>10, <1>11, NothingIsForgotten
  <2>. QED
    BY <2>1, <1>1
<1>13. life' = life
  BY <1>0, <1>1, LifeStays
<1>14. /\ containers' \in [DOMAIN containers' -> Scalers]
       /\ DOMAIN containers' = DOMAIN containers \cap Referenced(cache, calls')
       /\ ToSet(cache) \subseteq DOMAIN containers'
       /\ containers'[c] = Made(t).glyphs
       /\ \A e \in DOMAIN containers' \ {c} : containers'[e] = containers[e]
  <2>. HIDE DEF now
  <2>. QED BY <1>1, <1>3, <1>5, <1>6, <1>7, <1>12
<1>. QED
  BY <1>1, <1>2, <1>3, <1>12, <1>13, <1>14 DEF now, given

\* The fields of the call, after a glyph was prepared for it.
LEMMA PreparedCall ==
  ASSUME ScalerInv, NEW t \in Threads, Prepare(t)
  PROVE  LET call == calls[t]
             given == [from |-> call.held, desc |-> Head(call.plan).desc,
                       kind |-> Head(call.plan).kind, glyph |-> Head(call.plan).glyph]
         IN  /\ calls' \in [Threads -> Calls]
             /\ \A u \in Threads \ {t} : calls'[u] = calls[u]
             /\ calls'[t].at = AfterUse(call, Head(call.plan))
             /\ calls'[t].user = call.user /\ calls'[t].asked = call.asked
             /\ calls'[t].plan = Tail(call.plan) /\ calls'[t].held = Nowhere
             /\ calls'[t].got = Append(call.got, given)
             /\ call \in Calls /\ given \in GivenGlyphs
             /\ Len(calls'[t].got) = Len(call.got) + 1
             /\ \A i \in 1 .. Len(call.got) : calls'[t].got[i] = call.got[i]
             /\ calls'[t].got[Len(call.got) + 1] = given
             /\ \A i \in DOMAIN Tail(call.plan) : /\ i + 1 \in DOMAIN call.plan
                                                  /\ Tail(call.plan)[i] = call.plan[i + 1]
<1>. DEFINE call == calls[t]
            given == [from |-> call.held, desc |-> Head(call.plan).desc,
                      kind |-> Head(call.plan).kind, glyph |-> Head(call.plan).glyph]
<1>1. /\ calls \in [Threads -> Calls] /\ call \in Calls
      /\ call.plan \in Seq(Requests) /\ call.plan # <<>>
      /\ call.got \in Seq(GivenGlyphs)
  BY PrepareFacts DEF ScalerInv, TypesAreRight, Calls
<1>2. given \in GivenGlyphs
  <2>1. Head(call.plan) \in Requests /\ call.held \in Places \cup {Nowhere}
    BY <1>1 DEF Calls
  <2>. QED
    BY <2>1 DEF GivenGlyphs, Requests
<1>. HIDE DEF given
<1>3. /\ AfterUse(call, Head(call.plan)) \in {"idle", "lookup", "use", "read"}
      /\ Tail(call.plan) \in Seq(Requests)
      /\ Append(call.got, given) \in Seq(GivenGlyphs)
      /\ Len(Append(call.got, given)) = Len(call.got) + 1
      /\ \A i \in 1 .. Len(call.got) : Append(call.got, given)[i] = call.got[i]
      /\ Append(call.got, given)[Len(call.got) + 1] = given
  BY <1>1, <1>2 DEF AfterUse
<1>4. calls' = [calls EXCEPT ![t] = [call EXCEPT
                    !.at = AfterUse(call, Head(call.plan)), !.plan = Tail(@),
                    !.held = Nowhere, !.got = Append(@, given)]]
  BY PrepareFacts DEF given
<1>5. \A i \in DOMAIN Tail(call.plan) : /\ i + 1 \in DOMAIN call.plan
                                        /\ Tail(call.plan)[i] = call.plan[i + 1]
  BY <1>1
<1>6. /\ calls' \in [Threads -> Calls]
      /\ \A u \in Threads \ {t} : calls'[u] = calls[u]
      /\ calls'[t].at = AfterUse(call, Head(call.plan))
      /\ calls'[t].user = call.user /\ calls'[t].asked = call.asked
      /\ calls'[t].plan = Tail(call.plan) /\ calls'[t].held = Nowhere
      /\ calls'[t].got = Append(call.got, given)
  <2>. DEFINE next == [call EXCEPT
                    !.at = AfterUse(call, Head(call.plan)), !.plan = Tail(call.plan),
                    !.held = Nowhere, !.got = Append(call.got, given)]
  <2>1. /\ next \in Calls
        /\ next.at = AfterUse(call, Head(call.plan))
        /\ next.user = call.user /\ next.asked = call.asked
        /\ next.plan = Tail(call.plan) /\ next.held = Nowhere
        /\ next.got = Append(call.got, given)
    BY <1>1, <1>3 DEF Calls
  <2>2. calls' = [calls EXCEPT ![t] = next]
    BY <1>4
  <2>. HIDE DEF next
  <2>. QED
    BY <2>1, <2>2, <1>1
<1>. QED
  BY <1>1, <1>2, <1>3, <1>5, <1>6 DEF given

\* So preparing a glyph keeps the invariant.
LEMMA PrepareKeeps ==
  ASSUME ScalerInv, NEW t \in Threads, Prepare(t)
  PROVE  ScalerInv'
<1>. DEFINE call == calls[t]
            given == [from |-> call.held, desc |-> Head(call.plan).desc,
                      kind |-> Head(call.plan).kind, glyph |-> Head(call.plan).glyph]
<1>0. /\ TypesAreRight /\ CallsAreInOrder /\ FontsKeepTypefaces
      /\ ContainersAreReferenced /\ CallsUseRecent
  BY DEF ScalerInv
<1>1. /\ calls' \in [Threads -> Calls]
      /\ \A u \in Threads \ {t} : calls'[u] = calls[u]
      /\ calls'[t].at = AfterUse(call, Head(call.plan))
      /\ calls'[t].asked = call.asked
      /\ calls'[t].plan = Tail(call.plan) /\ calls'[t].held = Nowhere
      /\ call \in Calls
      /\ Len(calls'[t].got) = Len(call.got) + 1
      /\ \A i \in 1 .. Len(call.got) : calls'[t].got[i] = call.got[i]
      /\ calls'[t].got[Len(call.got) + 1] = given
      /\ \A i \in DOMAIN Tail(call.plan) : /\ i + 1 \in DOMAIN call.plan
                                           /\ Tail(call.plan)[i] = call.plan[i + 1]
  BY PreparedCall
<1>2. /\ call.at = "use" /\ call.held \in ToSet(cache)
      /\ call.plan \in Seq(Requests) /\ call.plan # <<>>
      /\ DescOf(call.held) = Head(call.plan).desc
      /\ UNCHANGED <<fonts, life, lock, cache>>
      /\ heap' = Made(t).heap
      /\ containers' \in [DOMAIN containers' -> Scalers]
      /\ DOMAIN containers' = DOMAIN containers \cap Referenced(cache, calls')
      /\ ToSet(cache) \subseteq DOMAIN containers'
  BY PrepareFacts
<1>3. /\ Head(call.plan) \in Requests /\ Head(call.plan) = call.plan[1] /\ 1 \in DOMAIN call.plan
      /\ call.held \in DOMAIN containers /\ call.held \in Places
      /\ given.from = call.held /\ given.desc = Head(call.plan).desc
  BY <1>0, <1>2 DEF ContainersAreReferenced, TypesAreRight
<1>. HIDE DEF given
<1>4. /\ calls'[t].got \in Seq(GivenGlyphs)
      /\ DOMAIN calls'[t].got = 1 .. Len(call.got) + 1
      /\ DOMAIN call.got = 1 .. Len(call.got)
      /\ Len(call.got) \in Nat
      /\ calls'[t].at \in {"lookup", "read"}
      /\ calls'[t].at = "lookup" => Tail(call.plan) # <<>>
      /\ t \in Active /\ Active' = Active
  <2>1. calls'[t].got \in Seq(GivenGlyphs) /\ call.got \in Seq(GivenGlyphs)
    BY <1>1 DEF Calls
  <2>2. /\ calls'[t].at \in {"lookup", "read"}
        /\ calls'[t].at = "lookup" => Tail(call.plan) # <<>>
    BY <1>1 DEF AfterUse
  <2>3. t \in Active /\ Active' = Active
    <3>1. \A u \in Threads : calls'[u].at = "idle" <=> calls[u].at = "idle"
      BY <2>2, <1>1, <1>2
    <3>2. call.at # "idle"
      BY <1>2
    <3>. QED
      BY <3>1, <3>2 DEF Active
  <2>4. /\ DOMAIN calls'[t].got = 1 .. Len(call.got) + 1
        /\ DOMAIN call.got = 1 .. Len(call.got)
        /\ Len(call.got) \in Nat
    BY <2>1, <1>1
  <2>. QED
    BY <2>1, <2>2, <2>3, <2>4
<1>5. TypesAreRight'
  BY <1>0, <1>1, <1>2, <1>3, MadeIsRight DEF TypesAreRight
<1>6. CallsAreInOrder'
  <2>1. calls'[t].got # <<>>
    BY <1>4
  <2>. QED
    BY <2>1, <1>0, <1>1, <1>4, ZenonT(50) DEF CallsAreInOrder, DescOf
<1>7. FontsKeepTypefaces'
  <2>1. ASSUME NEW i \in DOMAIN calls'[t].got PROVE calls'[t].got[i].desc[1] \in fonts[t]
    <3>1. CASE i \in 1 .. Len(call.got)
      BY <3>1, <1>0, <1>1, <1>4 DEF FontsKeepTypefaces
    <3>2. CASE i = Len(call.got) + 1
      BY <3>2, <1>0, <1>1, <1>3 DEF FontsKeepTypefaces
    <3>. QED
      BY <3>1, <3>2, <2>1, <1>4
  <2>2. \A i \in DOMAIN calls'[t].plan : calls'[t].plan[i].desc[1] \in fonts[t]
    BY <1>0, <1>1 DEF FontsKeepTypefaces
  <2>. QED
    BY <2>1, <2>2, <1>0, <1>1, <1>2 DEF FontsKeepTypefaces
<1>8. ContainersAreReferenced'
  <2>1. ASSUME NEW u \in Threads, calls'[u].held # Nowhere PROVE calls'[u].held \in DOMAIN containers'
    <3>1. u # t /\ calls'[u].held \in DOMAIN containers
      BY <2>1, <1>0, <1>1 DEF ContainersAreReferenced
    <3>. QED
      BY <3>1, <1>2 DEF Referenced
  <2>. QED
    BY <2>1, <1>0, <1>2 DEF ContainersAreReferenced, TypefaceOf, DescOf, Referenced
<1>9. CallsUseRecent'
  <2>1. DescsOf(calls'[t].plan) \subseteq DescsOf(call.plan)
    BY <1>1 DEF DescsOf
  <2>2. \A u \in Threads : DescsOf(calls'[u].plan) \subseteq DescsOf(calls[u].plan)
    BY <2>1, <1>1
  <2>3. ASSUME NEW i \in DOMAIN calls'[t].got
        PROVE  /\ calls'[t].got[i].from # Nowhere
               /\ DescOf(calls'[t].got[i].from) = calls'[t].got[i].desc
               /\ Recent(cache, calls'[t].got[i].from, calls[t].asked)
    <3>1. CASE i \in 1 .. Len(call.got)
      BY <3>1, <1>0, <1>1, <1>4, SMTT(40) DEF CallsUseRecent
    <3>2. CASE i = Len(call.got) + 1
      <4>1. call.held # Nowhere /\ Recent(cache, call.held, call.asked)
        BY <1>0, <1>3, <1>4, DescFacts DEF CallsUseRecent
      <4>. QED
        BY <4>1, <3>2, <1>1, <1>2, <1>3
    <3>. QED
      BY <3>1, <3>2, <2>3, <1>4
  <2>4. ASSUME NEW u \in Active
        PROVE  /\ IsFiniteSet(calls'[u].asked) /\ Cardinality(calls'[u].asked) <= Capacity
               /\ \A v \in Threads : DescsOf(calls'[v].plan) \subseteq calls'[u].asked
               /\ calls'[u].held # Nowhere => Recent(cache, calls'[u].held, calls'[u].asked)
               /\ \A i \in DOMAIN calls'[u].got :
                      /\ calls'[u].got[i].from # Nowhere
                      /\ DescOf(calls'[u].got[i].from) = calls'[u].got[i].desc
                      /\ Recent(cache, calls'[u].got[i].from, calls'[u].asked)
    <3>1. u \in Threads /\ calls'[u].asked = calls[u].asked
      BY <1>1 DEF Active
    <3>2. /\ IsFiniteSet(calls[u].asked) /\ Cardinality(calls[u].asked) <= Capacity
          /\ \A v \in Threads : DescsOf(calls[v].plan) \subseteq calls[u].asked
          /\ calls[u].held # Nowhere => Recent(cache, calls[u].held, calls[u].asked)
          /\ \A i \in DOMAIN calls[u].got :
                      /\ calls[u].got[i].from # Nowhere
                      /\ DescOf(calls[u].got[i].from) = calls[u].got[i].desc
                      /\ Recent(cache, calls[u].got[i].from, calls[u].asked)
      BY <1>0 DEF CallsUseRecent
    <3>3. CASE u = t
      BY <3>1, <3>2, <3>3, <2>2, <2>3, <1>1
    <3>4. CASE u # t
      BY <3>1, <3>2, <3>4, <2>2, <1>1
    <3>. QED
      BY <3>3, <3>4
  <2>5. cache' = cache
    BY <1>2
  <2>6. /\ Len(cache') <= Capacity
        /\ \A i, j \in 1 .. Len(cache') : DescOf(cache'[i]) = DescOf(cache'[j]) => i = j
    BY <2>5, <1>0 DEF CallsUseRecent
  <2>7. \A u \in Active' :
            /\ IsFiniteSet(calls'[u].asked) /\ Cardinality(calls'[u].asked) <= Capacity
            /\ \A v \in Threads : DescsOf(calls'[v].plan) \subseteq calls'[u].asked
            /\ calls'[u].held # Nowhere => Recent(cache', calls'[u].held, calls'[u].asked)
            /\ \A i \in DOMAIN calls'[u].got :
                   /\ calls'[u].got[i].from # Nowhere
                   /\ DescOf(calls'[u].got[i].from) = calls'[u].got[i].desc
                   /\ Recent(cache', calls'[u].got[i].from, calls'[u].asked)
    BY <2>4, <2>5, <1>4
  <2>. QED
    BY <2>6, <2>7 DEF CallsUseRecent
<1>. QED
  BY <1>5, <1>6, <1>7, <1>8, <1>9 DEF ScalerInv

\* All but the last of what was given.
LEMMA FrontFacts ==
  ASSUME NEW got \in Seq(GivenGlyphs), got # <<>>
  PROVE  /\ Front(got) \in Seq(GivenGlyphs)
         /\ DOMAIN Front(got) = 1 .. Len(got) - 1
         /\ Len(Front(got)) = Len(got) - 1
         /\ \A i \in DOMAIN Front(got) : i \in DOMAIN got /\ Front(got)[i] = got[i]
         /\ Last(got) = got[Len(got)] /\ Len(got) \in DOMAIN got /\ Len(got) \in Nat \ {0}
<1>1. Len(got) \in Nat \ {0} /\ DOMAIN got = 1 .. Len(got)
  OBVIOUS
<1>2. \A i \in 1 .. Len(got) - 1 : got[i] \in GivenGlyphs
  BY <1>1
<1>3. Front(got) = [i \in 1 .. Len(got) - 1 |-> got[i]]
  BY DEF Front
<1>4. Front(got) \in Seq(GivenGlyphs) /\ Len(Front(got)) = Len(got) - 1
  BY <1>1, <1>2, <1>3
<1>. QED
  BY <1>1, <1>3, <1>4 DEF Last

\* A call that has read drops the last of what it was given, and may be done.
LEMMA ReadCall ==
  ASSUME ScalerInv, NEW t \in Threads, Read(t)
  PROVE  /\ calls[t].at = "read" /\ calls[t].got # <<>> /\ calls[t].got \in Seq(GivenGlyphs)
         /\ calls' \in [Threads -> Calls]
         /\ \A u \in Threads \ {t} : calls'[u] = calls[u]
         /\ calls'[t].plan = calls[t].plan /\ calls'[t].held = Nowhere /\ calls[t].held = Nowhere
         /\ calls'[t].got \in {Front(calls[t].got), <<>>}
         /\ \/ calls'[t] = Resting
            \/ /\ calls'[t].asked = calls[t].asked /\ calls'[t].user = calls[t].user
               /\ calls'[t].got = Front(calls[t].got)
               /\ \/ calls'[t].at = "lookup" /\ calls[t].plan # <<>>
                  \/ /\ calls'[t].at = "read" /\ calls[t].plan = <<>>
                     /\ \E i \in DOMAIN Front(calls[t].got) : IsImage(Front(calls[t].got)[i])
         /\ calls'[t] = Resting =>
               \A i \in DOMAIN Front(calls[t].got) : ~IsImage(Front(calls[t].got)[i])
<1>. DEFINE call == calls[t]
            left == Front(call.got)
<1>1. /\ calls \in [Threads -> Calls] /\ call \in Calls /\ call.at = "read"
      /\ call.got # <<>> /\ call.got \in Seq(GivenGlyphs) /\ call.held = Nowhere
  BY DEF ScalerInv, TypesAreRight, CallsAreInOrder, Calls, Read, At
<1>2. left \in Seq(GivenGlyphs)
  BY <1>1, FrontFacts
<1>3. calls' = [calls EXCEPT ![t] = AfterRead(call)]
  BY DEF Read
<1>. HIDE DEF left
<1>4. CASE call.plan # <<>>
  <2>1. AfterRead(call) = [call EXCEPT !.at = "lookup", !.got = left]
    BY <1>4 DEF AfterRead, left
  <2>2. /\ AfterRead(call) \in Calls /\ AfterRead(call).plan = call.plan
        /\ AfterRead(call).held = Nowhere /\ AfterRead(call).asked = call.asked
        /\ AfterRead(call).user = call.user /\ AfterRead(call).got = left
        /\ AfterRead(call).at = "lookup"
    BY <1>1, <1>2, <2>1 DEF Calls
  <2>3. AfterRead(call) # Resting
    BY <2>2 DEF Resting
  <2>. QED
    BY <1>1, <1>3, <1>4, <2>2, <2>3 DEF left
<1>5. CASE call.plan = <<>> /\ \E i \in DOMAIN left : IsImage(left[i])
  <2>1. AfterRead(call) = [call EXCEPT !.got = left]
    BY <1>5 DEF AfterRead, left
  <2>2. /\ AfterRead(call) \in Calls /\ AfterRead(call).plan = call.plan
        /\ AfterRead(call).held = Nowhere /\ AfterRead(call).asked = call.asked
        /\ AfterRead(call).user = call.user /\ AfterRead(call).got = left
        /\ AfterRead(call).at = "read"
    BY <1>1, <1>2, <2>1 DEF Calls
  <2>3. AfterRead(call) # Resting
    BY <2>2 DEF Resting
  <2>. QED
    BY <1>1, <1>3, <1>5, <2>2, <2>3 DEF left
<1>6. CASE call.plan = <<>> /\ \A i \in DOMAIN left : ~IsImage(left[i])
  <2>1. AfterRead(call) = Resting
    BY <1>6 DEF AfterRead, left
  <2>2. /\ Resting \in Calls /\ Resting.plan = <<>> /\ Resting.held = Nowhere
        /\ Resting.got = <<>>
    BY NewCall DEF Resting
  <2>. QED
    BY <1>1, <1>3, <1>6, <2>1, <2>2 DEF left
<1>. QED
  BY <1>4, <1>5, <1>6

\* The image that was read last is released if it has to be.
LEMMA ReadFacts ==
  ASSUME ScalerInv, NEW t \in Threads, Read(t)
  PROVE  /\ UNCHANGED <<fonts, life, lock, cache>>
         /\ DOMAIN containers' = DOMAIN containers
         /\ containers' \in [DOMAIN containers -> Scalers]
         /\ DOMAIN heap' \subseteq DOMAIN heap
         /\ heap' \in [DOMAIN heap' -> Bitmaps]
         /\ \A b \in DOMAIN heap' : heap'[b] = heap[b]
         /\ LET last == calls[t].got[Len(calls[t].got)]
            IN  /\ Last(calls[t].got) = last /\ last.from \in DOMAIN containers /\ last.glyph \in Glyphs
                /\ Releases(t) =>
                      /\ DOMAIN heap' = DOMAIN heap \ {ImageOf(last).at}
                      /\ containers' = [containers EXCEPT
                            ![last.from].images[last.glyph] = Freed(ImageOf(last), calls[t].user)]
                /\ ~Releases(t) => UNCHANGED <<heap, containers>>
<1>. DEFINE last == calls[t].got[Len(calls[t].got)]
            image == ImageOf(last)
<1>0. /\ TypesAreRight /\ CallsAreInOrder /\ ContainersAreReferenced /\ CallsUseRecent
  BY DEF ScalerInv
<1>1. /\ calls[t].got # <<>> /\ calls[t].got \in Seq(GivenGlyphs)
  BY ReadCall
<1>2. /\ Last(calls[t].got) = last /\ last \in GivenGlyphs /\ last.glyph \in Glyphs
      /\ last.from \in DOMAIN containers
  <2>1. Last(calls[t].got) = last /\ Len(calls[t].got) \in DOMAIN calls[t].got
    BY <1>1, FrontFacts
  <2>2. last \in GivenGlyphs
    BY <1>1, <2>1
  <2>3. last.from \in DOMAIN containers
    BY <2>1, <1>0, GivenIsCached DEF ContainersAreReferenced
  <2>. QED
    BY <2>1, <2>2, <2>3 DEF GivenGlyphs
<1>3. /\ UNCHANGED <<fonts, life, lock, cache>>
      /\ Releases(t) =>
            /\ heap' = Restrict(heap, DOMAIN heap \ {image.at})
            /\ containers' = [containers EXCEPT
                  ![last.from].images[last.glyph] = Freed(image, calls[t].user)]
      /\ ~Releases(t) => UNCHANGED <<heap, containers>>
  BY <1>2 DEF Read
<1>. HIDE DEF last
<1>4. /\ containers \in [DOMAIN containers -> Scalers] /\ heap \in [DOMAIN heap -> Bitmaps]
  BY <1>0 DEF TypesAreRight
<1>5. Freed(image, calls[t].user) \in Images
  <2>1. containers[last.from] \in Scalers
    BY <1>2, <1>4
  <2>2. image \in Images
    BY <2>1, <1>2 DEF ImageOf, Scalers
  <2>3. Nothing \in Int
    BY DEF Nothing
  <2>. HIDE DEF image
  <2>. QED
    BY <2>2, <2>3 DEF Freed, Images
<1>6. CASE Releases(t)
  <2>1. /\ DOMAIN heap' = DOMAIN heap \ {image.at}
        /\ \A b \in DOMAIN heap' : heap'[b] = heap[b]
        /\ heap' \in [DOMAIN heap' -> Bitmaps]
    BY <1>3, <1>4, <1>6 DEF Restrict
  <2>. DEFINE freed == Freed(image, calls[t].user)
              scaler == [containers[last.from] EXCEPT !.images[last.glyph] = freed]
  <2>2. containers' = [containers EXCEPT ![last.from] = scaler]
    BY <1>3, <1>6
  <2>. HIDE DEF freed
  <2>3. scaler \in Scalers
    BY <1>2, <1>4, <1>5 DEF Scalers, freed
  <2>. HIDE DEF scaler
  <2>4. containers' \in [DOMAIN containers -> Scalers] /\ DOMAIN containers' = DOMAIN containers
    BY <2>2, <2>3, <1>2, <1>4
  <2>. QED
    BY <2>1, <2>4, <1>2, <1>3, <1>6 DEF last
<1>7. CASE ~Releases(t)
  BY <1>2, <1>3, <1>4, <1>7 DEF last
<1>. QED
  BY <1>6, <1>7

\* So reading keeps the invariant.
LEMMA ReadKeeps ==
  ASSUME ScalerInv, NEW t \in Threads, Read(t)
  PROVE  ScalerInv'
<1>. DEFINE call == calls[t]
<1>0. /\ TypesAreRight /\ CallsAreInOrder /\ FontsKeepTypefaces
      /\ ContainersAreReferenced /\ CallsUseRecent
  BY DEF ScalerInv
<1>1. /\ call.at = "read" /\ call.got # <<>> /\ call.got \in Seq(GivenGlyphs)
      /\ calls' \in [Threads -> Calls]
      /\ \A u \in Threads \ {t} : calls'[u] = calls[u]
      /\ calls'[t].plan = call.plan /\ calls'[t].held = Nowhere /\ call.held = Nowhere
      /\ calls'[t].got \in {Front(call.got), <<>>}
      /\ \/ calls'[t] = Resting
         \/ /\ calls'[t].asked = call.asked
            /\ calls'[t].got = Front(call.got)
            /\ \/ calls'[t].at = "lookup" /\ call.plan # <<>>
               \/ /\ calls'[t].at = "read" /\ call.plan = <<>>
                  /\ \E i \in DOMAIN Front(call.got) : IsImage(Front(call.got)[i])
  BY ReadCall
<1>2. /\ UNCHANGED <<fonts, life, lock, cache>>
      /\ DOMAIN containers' = DOMAIN containers
      /\ containers' \in [DOMAIN containers -> Scalers]
      /\ DOMAIN heap' \subseteq DOMAIN heap
      /\ heap' \in [DOMAIN heap' -> Bitmaps]
  BY ReadFacts
<1>3. /\ \A i \in DOMAIN Front(call.got) : i \in DOMAIN call.got /\ Front(call.got)[i] = call.got[i]
      /\ \A i \in DOMAIN calls'[t].got : i \in DOMAIN call.got /\ calls'[t].got[i] = call.got[i]
  <2>1. \A i \in DOMAIN Front(call.got) : i \in DOMAIN call.got /\ Front(call.got)[i] = call.got[i]
    BY <1>1, FrontFacts
  <2>. QED
    BY <2>1, <1>1
<1>4. TypesAreRight'
  <2>1. IsFiniteSet(DOMAIN heap')
    BY <1>0, <1>2, FS_Subset DEF TypesAreRight
  <2>. QED
    BY <2>1, <1>0, <1>1, <1>2 DEF TypesAreRight
<1>5. CallsAreInOrder'
  <2>1. /\ calls'[t].at = "idle" => calls'[t] = Resting
        /\ calls'[t].at \in {"lookup", "use"} => calls'[t].plan # <<>>
        /\ calls'[t].at # "use"
        /\ calls'[t].at = "read" => calls'[t].got # <<>>
    BY <1>1 DEF Resting
  <2>. QED
    BY <2>1, <1>0, <1>1 DEF CallsAreInOrder, DescOf
<1>6. FontsKeepTypefaces'
  BY <1>0, <1>1, <1>2, <1>3 DEF FontsKeepTypefaces
<1>7. ContainersAreReferenced'
  <2>1. \A u \in Threads : calls'[u].held = calls[u].held
    BY <1>1
  <2>. QED
    BY <2>1, <1>0, <1>2 DEF ContainersAreReferenced, Referenced, TypefaceOf, DescOf
<1>8. CallsUseRecent'
  <2>1. \A u \in Threads : calls'[u].plan = calls[u].plan
    BY <1>1
  <2>2. ASSUME NEW u \in Active'
        PROVE  /\ IsFiniteSet(calls'[u].asked) /\ Cardinality(calls'[u].asked) <= Capacity
               /\ \A v \in Threads : DescsOf(calls'[v].plan) \subseteq calls'[u].asked
               /\ calls'[u].held # Nowhere => Recent(cache, calls'[u].held, calls'[u].asked)
               /\ \A i \in DOMAIN calls'[u].got :
                      /\ calls'[u].got[i].from # Nowhere
                      /\ DescOf(calls'[u].got[i].from) = calls'[u].got[i].desc
                      /\ Recent(cache, calls'[u].got[i].from, calls'[u].asked)
    <3>1. u \in Threads /\ u \in Active /\ calls'[u].asked = calls[u].asked
          /\ calls'[u].held = calls[u].held
          /\ \A i \in DOMAIN calls'[u].got : i \in DOMAIN calls[u].got /\ calls'[u].got[i] = calls[u].got[i]
      <4>1. CASE u = t
        BY <4>1, <1>1, <1>3 DEF Active, Resting
      <4>2. CASE u # t
        BY <4>2, <1>1 DEF Active
      <4>. QED
        BY <4>1, <4>2
    <3>. QED
      BY <3>1, <2>1, <1>0 DEF CallsUseRecent
  <2>3. cache' = cache
    BY <1>2
  <2>4. /\ Len(cache') <= Capacity
        /\ \A i, j \in 1 .. Len(cache') : DescOf(cache'[i]) = DescOf(cache'[j]) => i = j
    BY <2>3, <1>0 DEF CallsUseRecent
  <2>5. \A u \in Active' :
            /\ IsFiniteSet(calls'[u].asked) /\ Cardinality(calls'[u].asked) <= Capacity
            /\ \A v \in Threads : DescsOf(calls'[v].plan) \subseteq calls'[u].asked
            /\ calls'[u].held # Nowhere => Recent(cache', calls'[u].held, calls'[u].asked)
            /\ \A i \in DOMAIN calls'[u].got :
                   /\ calls'[u].got[i].from # Nowhere
                   /\ DescOf(calls'[u].got[i].from) = calls'[u].got[i].desc
                   /\ Recent(cache', calls'[u].got[i].from, calls'[u].asked)
    BY <2>2, <2>3
  <2>. QED
    BY <2>4, <2>5 DEF CallsUseRecent
<1>. QED
  BY <1>4, <1>5, <1>6, <1>7, <1>8 DEF ScalerInv

\* A purge takes the containers of a typeface that no call is for.
LEMMA PurgeFacts ==
  ASSUME ScalerInv, NEW t \in Threads, PurgeByTypeface(t)
  PROVE  \E f \in Typefaces :
           /\ life[f] \in Threads /\ life' = [life EXCEPT ![f] = "dead"]
           /\ cache' \in Seq(Places) /\ Len(cache') <= Capacity /\ Distinct(cache')
           /\ \A e \in ToSet(cache') : TypefaceOf(e) # f
           /\ \A u \in Active : \A e \in ToSet(cache) :
                 TypefaceOf(e) # f /\ Recent(cache, e, calls[u].asked)
                    => Recent(cache', e, calls[u].asked)
           /\ \A u \in Threads : \A i \in DOMAIN calls[u].got : calls[u].got[i].desc[1] # f
           /\ \A u \in Threads : calls[u].held # Nowhere => TypefaceOf(calls[u].held) # f
           /\ calls' = calls /\ UNCHANGED <<fonts, lock, heap>>
           /\ containers' \in [DOMAIN containers' -> Scalers]
           /\ DOMAIN containers' = DOMAIN containers \cap Referenced(cache', calls)
           /\ ToSet(cache') \subseteq DOMAIN containers'
           /\ \A e \in DOMAIN containers' : containers'[e] = containers[e]
<1>0. /\ TypesAreRight /\ CallsAreInOrder /\ FontsKeepTypefaces
      /\ ContainersAreReferenced /\ CallsUseRecent
  BY DEF ScalerInv
<1>1. PICK f \in Typefaces :
         /\ life[f] = t /\ life' = [life EXCEPT ![f] = "dead"]
         /\ cache' = Without(cache, EntriesOf(f))
         /\ containers' = Living(containers, Without(cache, EntriesOf(f)), calls)
         /\ calls' = Forget(calls, Living(containers, Without(cache, EntriesOf(f)), calls))
         /\ UNCHANGED <<fonts, lock, heap>>
  BY DEF PurgeByTypeface
<1>2. /\ cache \in Seq(Places) /\ Distinct(cache) /\ Len(cache) <= Capacity /\ Len(cache) \in Nat
      /\ calls \in [Threads -> Calls]
      /\ containers \in [DOMAIN containers -> Scalers] /\ ToSet(cache) \subseteq DOMAIN containers
  BY <1>0 DEF TypesAreRight, CallsUseRecent, Distinct, ContainersAreReferenced
<1>3. /\ cache' \in Seq(Places)
      /\ ToSet(cache') = ToSet(cache) \ EntriesOf(f)
      /\ Len(cache') <= Len(cache)
      /\ Distinct(cache')
      /\ \A e, asked : e \notin EntriesOf(f) /\ Recent(cache, e, asked) => Recent(cache', e, asked)
  BY <1>1, <1>2, WithoutRecent
<1>4. life[f] \in Threads /\ life[f] # "alive" /\ \A u \in Threads : f \notin fonts[u]
  BY <1>0, <1>1, ThreadsAssumption DEF FontsKeepTypefaces
<1>5. \A u \in Threads : \A i \in DOMAIN calls[u].got : calls[u].got[i].desc[1] # f
  BY <1>0, <1>4 DEF FontsKeepTypefaces
<1>6. ASSUME NEW u \in Threads, calls[u].held # Nowhere
      PROVE  TypefaceOf(calls[u].held) # f
  <2>1. /\ calls[u].plan \in Seq(Requests) /\ calls[u].plan # <<>>
        /\ DescOf(calls[u].held) = Head(calls[u].plan).desc
    BY <1>0, <1>2, <1>6 DEF CallsAreInOrder, Calls
  <2>2. Head(calls[u].plan) = calls[u].plan[1] /\ 1 \in DOMAIN calls[u].plan
    BY <2>1
  <2>. QED
    BY <2>1, <2>2, <1>0, <1>4 DEF FontsKeepTypefaces, TypefaceOf
<1>. DEFINE rest == Living(containers, cache', calls)
<1>7. /\ DOMAIN rest = DOMAIN containers \cap Referenced(cache', calls)
      /\ \A e \in DOMAIN rest : rest[e] = containers[e]
      /\ rest = [e \in DOMAIN rest |-> rest[e]]
  BY DEF Living, Restrict
<1>8. containers' = rest /\ calls' = Forget(calls, rest)
  BY <1>1
<1>. HIDE DEF rest
<1>9. ToSet(cache') \subseteq DOMAIN rest
  BY <1>2, <1>3, <1>7 DEF Referenced
<1>10. ASSUME NEW u \in Threads, NEW i \in DOMAIN calls[u].got
       PROVE  calls[u].got[i].from \in DOMAIN rest
  <2>1. /\ calls[u].got[i].from \in ToSet(cache)
        /\ DescOf(calls[u].got[i].from) = calls[u].got[i].desc
    BY <1>0, <1>10, GivenIsCached
  <2>2. calls[u].got[i].from \notin EntriesOf(f)
    BY <2>1, <1>5, <1>10 DEF EntriesOf, TypefaceOf
  <2>. QED
    BY <2>1, <2>2, <1>3, <1>9
<1>11. calls' = calls
  BY <1>2, <1>8, <1>10, NothingIsForgotten
<1>12. /\ \A e \in ToSet(cache') : TypefaceOf(e) # f
       /\ \A u \in Active : \A e \in ToSet(cache) :
                 TypefaceOf(e) # f /\ Recent(cache, e, calls[u].asked)
                    => Recent(cache', e, calls[u].asked)
  BY <1>3 DEF EntriesOf
<1>13. Len(cache') <= Capacity
  BY <1>2, <1>3, ScalerAssumption
<1>14. containers' \in [DOMAIN containers' -> Scalers]
  BY <1>2, <1>7, <1>8
<1>. QED
  BY <1>1, <1>3, <1>4, <1>5, <1>6, <1>7, <1>8, <1>9, <1>11, <1>12, <1>13, <1>14

\* So a purge keeps the invariant.
LEMMA PurgeKeeps ==
  ASSUME ScalerInv, NEW t \in Threads, PurgeByTypeface(t)
  PROVE  ScalerInv'
<1>0. /\ TypesAreRight /\ CallsAreInOrder /\ FontsKeepTypefaces
      /\ ContainersAreReferenced /\ CallsUseRecent
  BY DEF ScalerInv
<1>1. PICK f \in Typefaces :
           /\ life[f] \in Threads /\ life' = [life EXCEPT ![f] = "dead"]
           /\ cache' \in Seq(Places) /\ Len(cache') <= Capacity /\ Distinct(cache')
           /\ \A e \in ToSet(cache') : TypefaceOf(e) # f
           /\ \A u \in Active : \A e \in ToSet(cache) :
                 TypefaceOf(e) # f /\ Recent(cache, e, calls[u].asked)
                    => Recent(cache', e, calls[u].asked)
           /\ \A u \in Threads : \A i \in DOMAIN calls[u].got : calls[u].got[i].desc[1] # f
           /\ \A u \in Threads : calls[u].held # Nowhere => TypefaceOf(calls[u].held) # f
           /\ calls' = calls /\ UNCHANGED <<fonts, lock, heap>>
           /\ containers' \in [DOMAIN containers' -> Scalers]
           /\ DOMAIN containers' = DOMAIN containers \cap Referenced(cache', calls)
           /\ ToSet(cache') \subseteq DOMAIN containers'
           /\ \A e \in DOMAIN containers' : containers'[e] = containers[e]
  BY PurgeFacts
<1>2. /\ life' \in [Typefaces -> {"alive", "dead"} \cup Threads]
      /\ \A g \in Typefaces : life'[g] = "alive" <=> life[g] = "alive"
      /\ \A g \in Typefaces \ {f} : life'[g] = life[g]
  <2>1. life[f] # "alive"
    BY <1>1, ThreadsAssumption
  <2>2. life \in [Typefaces -> {"alive", "dead"} \cup Threads]
    BY <1>0 DEF TypesAreRight
  <2>3. life' = [life EXCEPT ![f] = "dead"]
    BY <1>1
  <2>. QED
    BY <2>1, <2>2, <2>3
<1>3. TypesAreRight'
  <2>1. DOMAIN containers' \subseteq DOMAIN containers
    BY <1>1
  <2>. QED
    BY <2>1, <1>0, <1>1, <1>2 DEF TypesAreRight
<1>4. CallsAreInOrder'
  BY <1>0, <1>1 DEF CallsAreInOrder, DescOf
<1>5. FontsKeepTypefaces'
  BY <1>0, <1>1, <1>2 DEF FontsKeepTypefaces
<1>6. ContainersAreReferenced'
  <2>1. ASSUME NEW u \in Threads, calls[u].held # Nowhere PROVE calls[u].held \in DOMAIN containers'
    BY <2>1, <1>0, <1>1 DEF ContainersAreReferenced, Referenced
  <2>2. ASSUME NEW e \in DOMAIN containers' PROVE life'[TypefaceOf(e)] # "dead"
    <3>1. e \in DOMAIN containers /\ e \in Places /\ e # Nowhere /\ TypefaceOf(e) \in Typefaces
      BY <1>0, <1>1, DescFacts DEF TypesAreRight
    <3>2. TypefaceOf(e) # f
      BY <1>1, <3>1 DEF Referenced
    <3>. QED
      BY <3>1, <3>2, <1>0, <1>2 DEF ContainersAreReferenced
  <2>3. DOMAIN containers' \subseteq Referenced(cache', calls')
    BY <1>1
  <2>. QED
    BY <2>1, <2>2, <2>3, <1>1 DEF ContainersAreReferenced, TypefaceOf, DescOf
<1>7. CallsUseRecent'
  <2>1. Active' = Active
    BY <1>1 DEF Active
  <2>2. ASSUME NEW u \in Active
        PROVE  /\ calls[u].held # Nowhere => Recent(cache', calls[u].held, calls[u].asked)
               /\ \A i \in DOMAIN calls[u].got : Recent(cache', calls[u].got[i].from, calls[u].asked)
    <3>1. cache \in Seq(Places) /\ u \in Threads
      BY <1>0 DEF TypesAreRight, Active
    <3>2. ASSUME calls[u].held # Nowhere PROVE Recent(cache', calls[u].held, calls[u].asked)
      <4>1. Recent(cache, calls[u].held, calls[u].asked) /\ TypefaceOf(calls[u].held) # f
        BY <3>1, <3>2, <1>0, <1>1 DEF CallsUseRecent
      <4>2. calls[u].held \in ToSet(cache)
        BY <4>1, <3>1, RecentFacts
      <4>. QED
        BY <4>1, <4>2, <1>1
    <3>3. ASSUME NEW i \in DOMAIN calls[u].got
          PROVE  Recent(cache', calls[u].got[i].from, calls[u].asked)
      <4>1. /\ calls[u].got[i].from \in ToSet(cache)
            /\ Recent(cache, calls[u].got[i].from, calls[u].asked)
            /\ DescOf(calls[u].got[i].from) = calls[u].got[i].desc
        BY <3>1, <3>3, <1>0, GivenIsCached
      <4>2. TypefaceOf(calls[u].got[i].from) # f
        BY <4>1, <3>1, <1>1 DEF TypefaceOf
      <4>. QED
        BY <4>1, <4>2, <1>1
    <3>. QED
      BY <3>2, <3>3
  <2>3. ASSUME NEW u \in Active
        PROVE  /\ IsFiniteSet(calls'[u].asked) /\ Cardinality(calls'[u].asked) <= Capacity
               /\ \A v \in Threads : DescsOf(calls'[v].plan) \subseteq calls'[u].asked
               /\ calls'[u].held # Nowhere => Recent(cache', calls'[u].held, calls'[u].asked)
               /\ \A i \in DOMAIN calls'[u].got :
                      /\ calls'[u].got[i].from # Nowhere
                      /\ DescOf(calls'[u].got[i].from) = calls'[u].got[i].desc
                      /\ Recent(cache', calls'[u].got[i].from, calls'[u].asked)
    BY <2>2, <1>0, <1>1 DEF CallsUseRecent
  <2>. QED
    BY <2>1, <2>3, <1>1 DEF CallsUseRecent, Distinct, Recent, DescOf, DescsOf
<1>. QED
  BY <1>3, <1>4, <1>5, <1>6, <1>7 DEF ScalerInv

\* The last font of a typeface goes when its thread is in no call.
LEMMA DropKeeps ==
  ASSUME ScalerInv, NEW t \in Threads, DropFont(t)
  PROVE  ScalerInv'
<1>0. /\ TypesAreRight /\ CallsAreInOrder /\ FontsKeepTypefaces
      /\ ContainersAreReferenced /\ CallsUseRecent
  BY DEF ScalerInv
<1>1. PICK f \in fonts[t] : fonts' = [fonts EXCEPT ![t] = @ \ {f}]
  BY DEF DropFont
<1>2. /\ calls[t] = Resting
      /\ life' = AfterRelease(t, fonts', containers)
      /\ UNCHANGED <<lock, cache, containers, heap, calls>>
  BY <1>0 DEF DropFont, At, CallsAreInOrder
<1>3. /\ fonts \in [Threads -> SUBSET Typefaces]
      /\ life \in [Typefaces -> {"alive", "dead"} \cup Threads]
  BY <1>0 DEF TypesAreRight
<1>4. /\ fonts' \in [Threads -> SUBSET Typefaces]
      /\ \A u \in Threads \ {t} : fonts'[u] = fonts[u]
      /\ fonts'[t] = fonts[t] \ {f}
  BY <1>1, <1>3
<1>5. \A g \in Typefaces : Owned(g, fonts', containers) <=> \E u \in Threads : g \in fonts'[u]
  BY DEF Owned, KeepsTypeface
<1>6. /\ life' \in [Typefaces -> {"alive", "dead"} \cup Threads]
      /\ \A g \in Typefaces : life'[g] = IF life[g] = "alive" /\ ~\E u \in Threads : g \in fonts'[u]
                                         THEN t ELSE life[g]
  BY <1>2, <1>3, <1>5 DEF AfterRelease
<1>7. t # "alive" /\ t # "dead"
  BY ThreadsAssumption
<1>8. TypesAreRight'
  BY <1>0, <1>2, <1>4, <1>6 DEF TypesAreRight
<1>9. CallsAreInOrder'
  BY <1>0, <1>2 DEF CallsAreInOrder, DescOf
<1>10. FontsKeepTypefaces'
  <2>1. \A g \in Typefaces : life'[g] = "alive" <=> \E u \in Threads : g \in fonts'[u]
    <3>. TAKE g \in Typefaces
    <3>1. life[g] = "alive" <=> \E u \in Threads : g \in fonts[u]
      BY <1>0 DEF FontsKeepTypefaces
    <3>2. (\E u \in Threads : g \in fonts'[u]) => \E u \in Threads : g \in fonts[u]
      BY <1>4
    <3>. QED
      BY <3>1, <3>2, <1>6, <1>7
  <2>2. calls[t].plan = <<>> /\ calls[t].got = <<>>
    BY <1>2 DEF Resting
  <2>. QED
    BY <2>1, <2>2, <1>0, <1>2, <1>4 DEF FontsKeepTypefaces
<1>11. ContainersAreReferenced'
  <2>1. ASSUME NEW e \in DOMAIN containers PROVE life'[TypefaceOf(e)] # "dead"
    <3>1. TypefaceOf(e) \in Typefaces /\ life[TypefaceOf(e)] # "dead"
      BY <1>0, DescFacts DEF TypesAreRight, ContainersAreReferenced
    <3>. QED
      BY <3>1, <1>6, <1>7
  <2>. QED
    BY <2>1, <1>0, <1>2 DEF ContainersAreReferenced, Referenced, TypefaceOf, DescOf
<1>12. CallsUseRecent'
  BY <1>0, <1>2 DEF CallsUseRecent, Active, Recent, DescOf, DescsOf
<1>. QED
  BY <1>8, <1>9, <1>10, <1>11, <1>12 DEF ScalerInv

-----------------------------------------------------------------------------
(* Theorems *)

\* The invariant holds in the beginning.
LEMMA ScalerInvInit == ScalerInit => ScalerInv
<1>. SUFFICES ASSUME ScalerInit PROVE ScalerInv
  OBVIOUS
<1>1. TypesAreRight
  <2>1. calls \in [Threads -> Calls]
    BY NewCall DEF ScalerInit
  <2>2. containers = [c \in {} |-> <<>>] /\ heap = [b \in {} |-> <<>>] /\ IsFiniteSet({})
    BY FS_EmptySet DEF ScalerInit
  <2>. QED
    BY <2>1, <2>2 DEF ScalerInit, TypesAreRight
<1>2. CallsAreInOrder
  BY DEF ScalerInit, CallsAreInOrder, Resting
<1>3. FontsKeepTypefaces
  <2>1. \E t : t \in Threads
    BY ScalerAssumption
  <2>. QED
    BY <2>1 DEF ScalerInit, FontsKeepTypefaces, Resting
<1>4. ContainersAreReferenced
  BY DEF ScalerInit, ContainersAreReferenced, Resting, ToSet
<1>5. CallsUseRecent
  BY ScalerAssumption DEF ScalerInit, CallsUseRecent, Active, Resting
<1>. QED
  BY <1>1, <1>2, <1>3, <1>4, <1>5 DEF ScalerInv

\* Every step keeps it.
LEMMA ScalerInvStep == ScalerInv /\ [ScalerNext]_scalerVars => ScalerInv'
<1>. SUFFICES ASSUME ScalerInv, [ScalerNext]_scalerVars PROVE ScalerInv'
  OBVIOUS
<1>1. ASSUME NEW t \in Threads, Measure(t) PROVE ScalerInv'
  <2>1. PICK f \in fonts[t] : \E plan \in Measurings(f) : Start(t, "measure", plan)
    BY <1>1 DEF Measure
  <2>2. PICK plan \in Measurings(f) : Start(t, "measure", plan)
    BY <2>1
  <2>. QED
    BY <2>2, StartKeeps
<1>2. ASSUME NEW t \in Threads, DrawToAtlas(t) PROVE ScalerInv'
  <2>1. PICK f \in fonts[t] : \E plan \in AtlasPlans(f) : Start(t, "atlas", plan)
    BY <1>2 DEF DrawToAtlas
  <2>2. PICK plan \in AtlasPlans(f) : Start(t, "atlas", plan)
    BY <2>1
  <2>. QED
    BY <2>2, StartKeeps
<1>3. ASSUME NEW t \in Threads, DrawInSoftware(t) PROVE ScalerInv'
  <2>1. PICK f \in fonts[t] : \E plan \in CanvasPlans(f) : Start(t, "canvas", plan)
    BY <1>3 DEF DrawInSoftware
  <2>2. PICK plan \in CanvasPlans(f) : Start(t, "canvas", plan)
    BY <2>1
  <2>. QED
    BY <2>2, StartKeeps
<1>4. ASSUME NEW t \in Threads, DropFont(t) PROVE ScalerInv'
  BY <1>4, DropKeeps
<1>5. ASSUME NEW t \in Threads, Go(t) PROVE ScalerInv'
  BY <1>5, LookupKeeps, PrepareKeeps, ReadKeeps, PurgeKeeps DEF Go
<1>6. CASE UNCHANGED scalerVars
  BY <1>6 DEF scalerVars, ScalerInv, TypesAreRight, CallsAreInOrder, FontsKeepTypefaces,
              ContainersAreReferenced, CallsUseRecent, Active, Referenced, Recent, DescOf,
              DescsOf, TypefaceOf
<1>. QED
  BY <1>1, <1>2, <1>3, <1>4, <1>5, <1>6 DEF ScalerNext

\* The inductive invariant, for any number of threads, typefaces, glyphs and
\* containers: what calls use is among the last that the cache was asked for.
THEOREM ScalerInvariantHolds == ScalerSpec => []ScalerInv
<1>1. ScalerInit => ScalerInv
  BY ScalerInvInit
<1>2. ScalerInv /\ [ScalerNext]_scalerVars => ScalerInv'
  BY ScalerInvStep
<1>. QED
  BY <1>1, <1>2, PTL DEF ScalerSpec

\* The types of the variables.
THEOREM ScalersAreTypeCorrect == ScalerSpec => []ScalerTypeOK
<1>1. ScalerInv => ScalerTypeOK
  BY DEF ScalerInv, TypesAreRight, ContainersAreReferenced, CallsUseRecent, ScalerTypeOK
<1>. QED
  BY <1>1, ScalerInvariantHolds, PTL

\* "If a ScalerContext is used, the typeface is guaranteed to exist", although
\* the scaler context does not keep it alive (TypefacesOutliveTheirScalers).
THEOREM TypefacesDoOutliveScalers == ScalerSpec => []TypefacesOutliveTheirScalers
<1>1. ScalerInv => TypefacesOutliveTheirScalers
  <2>. SUFFICES ASSUME ScalerInv, NEW t \in Threads, calls[t].held # Nowhere
                PROVE  life[TypefaceOf(calls[t].held)] = "alive"
    BY DEF TypefacesOutliveTheirScalers, ScalerInv, ContainersAreReferenced
  <2>1. /\ calls[t].plan \in Seq(Requests) /\ calls[t].plan # <<>>
        /\ DescOf(calls[t].held) = Head(calls[t].plan).desc
    BY DEF ScalerInv, TypesAreRight, Calls, CallsAreInOrder
  <2>2. /\ Head(calls[t].plan) = calls[t].plan[1] /\ 1 \in DOMAIN calls[t].plan
        /\ Head(calls[t].plan) \in Requests
    BY <2>1
  <2>3. TypefaceOf(calls[t].held) \in fonts[t] /\ TypefaceOf(calls[t].held) \in Typefaces
    BY <2>1, <2>2, DescFacts DEF ScalerInv, FontsKeepTypefaces, TypefaceOf, Requests
  <2>. QED
    BY <2>3 DEF ScalerInv, FontsKeepTypefaces
<1>. QED
  BY <1>1, ScalerInvariantHolds, PTL

\* Part of GlyphsAreReadRight that holds with any number of threads that draw.
GlyphsStayAlive ==
    \A t \in Threads : \A i \in DOMAIN calls[t].got :
        /\ calls[t].got[i].from # Nowhere
        /\ calls[t].got[i].from \in DOMAIN containers

\* A glyph that a call was given lives until it has read it, although neither
\* the call nor the lock keeps its container in the cache.
THEOREM GlyphsDoStayAlive == ScalerSpec => []GlyphsStayAlive
<1>1. ScalerInv => GlyphsStayAlive
  BY GivenIsCached DEF ScalerInv, GlyphsStayAlive, CallsUseRecent, ContainersAreReferenced
<1>. QED
  BY <1>1, ScalerInvariantHolds, PTL

-----------------------------------------------------------------------------
(* Images, when one thread draws and no paint strokes hairlines as wide as *)
(* a fill: with width 0 both images of an outline would be the same, and   *)
(* two drawing threads may replace each other's image.                     *)

OneThreadDraws == \A t, u \in Renderers : t = u

\* What is asked for images.
LEMMA PlansOfImages ==
  ASSUME 0 \notin StrokeWidths, NEW f \in Typefaces
  PROVE  /\ \A plan \in Measurings(f) : \A i \in DOMAIN plan : ~IsImage(plan[i])
         /\ \A plan \in AtlasPlans(f) :
               /\ \A i \in DOMAIN plan : IsImage(plan[i])
               /\ \A i, j \in DOMAIN plan : plan[i].desc = plan[j].desc => i = j
<1>1. ASSUME NEW plan \in Measurings(f), NEW i \in DOMAIN plan PROVE ~IsImage(plan[i])
  <2>1. PICK d \in {Canonical(f, w) : w \in Widths} \cup {Transformed(f, w) : w \in Widths},
             g \in Glyphs : plan = <<Request(d, "metrics", g)>>
    BY <1>1 DEF Measurings
  <2>. QED
    BY <1>1, <2>1 DEF Request, IsImage
<1>2. ASSUME NEW plan \in AtlasPlans(f)
      PROVE  /\ \A i \in DOMAIN plan : IsImage(plan[i])
             /\ \A i, j \in DOMAIN plan : plan[i].desc = plan[j].desc => i = j
  <2>1. CASE \E w \in Widths, g \in Glyphs : plan = <<Request(Transformed(f, w), "image", g)>>
    BY <2>1 DEF Request, IsImage
  <2>2. CASE \E w \in StrokeWidths, g \in Glyphs :
               plan = <<Request(Transformed(f, w), "image", g), Request(Transformed(f, 0), "image", g)>>
    <3>1. PICK w \in StrokeWidths, g \in Glyphs :
               plan = <<Request(Transformed(f, w), "image", g), Request(Transformed(f, 0), "image", g)>>
      BY <2>2
    <3>2. Transformed(f, w) # Transformed(f, 0)
      BY DEF Transformed
    <3>3. /\ Request(Transformed(f, w), "image", g).desc = Transformed(f, w)
          /\ Request(Transformed(f, 0), "image", g).desc = Transformed(f, 0)
          /\ IsImage(Request(Transformed(f, w), "image", g))
          /\ IsImage(Request(Transformed(f, 0), "image", g))
      BY DEF Request, IsImage
    <3>4. DOMAIN plan = {1, 2}
      BY <3>1
    <3>5. /\ plan[1] = Request(Transformed(f, w), "image", g)
          /\ plan[2] = Request(Transformed(f, 0), "image", g)
      BY <3>1
    <3>. QED
      BY <3>2, <3>3, <3>4, <3>5
  <2>. QED
    BY <2>1, <2>2 DEF AtlasPlans
<1>. QED
  BY <1>1, <1>2

\* Images stay as they are in a step that changes neither the bitmaps nor what
\* images were given and the containers they were given from.
LEMMA GivenStay ==
  ASSUME ImagesAreShown, BitmapsAreGiven, heap' = heap,
         \A t \in Threads : Given(t)' = Given(t),
         \A t \in Threads : \A i \in Given(t) :
             /\ calls'[t].got[i] = calls[t].got[i]
             /\ containers'[calls[t].got[i].from] = containers[calls[t].got[i].from]
  PROVE  ImagesAreShown' /\ BitmapsAreGiven'
<1>1. ASSUME NEW t \in Threads, NEW i \in Given(t)
      PROVE  /\ ImageGiven(t, i)' = ImageGiven(t, i)
             /\ Shows(calls[t].got[i])' = Shows(calls[t].got[i])
  BY ZenonT(50) DEF ImageOf, Shows, ImageGiven
<1>2. ImagesAreShown'
  BY <1>1 DEF ImagesAreShown
<1>3. BitmapsAreGiven'
  BY <1>1 DEF BitmapsAreGiven
<1>. QED
  BY <1>2, <1>3

\* In particular when nothing is given.
LEMMA ImagesStay ==
  ASSUME ImagesAreShown, BitmapsAreGiven, heap' = heap,
         \A t \in Threads : calls'[t].got = calls[t].got,
         \A t \in Threads : \A i \in DOMAIN calls[t].got :
             containers'[calls[t].got[i].from] = containers[calls[t].got[i].from]
  PROVE  ImagesAreShown' /\ BitmapsAreGiven'
<1>1. \A t \in Threads : Given(t)' = Given(t)
  BY DEF Given
<1>2. \A t \in Threads : \A i \in Given(t) : i \in DOMAIN calls[t].got
  BY DEF Given
<1>. QED
  BY <1>1, <1>2, GivenStay

\* A step that changes of the calls at most where they are, and not to read,
\* and what they hold, keeps the order of images.
LEMMA OrderStays ==
  ASSUME NEW t, NEW call, NEW now, ImagesOfACall(t, call),
         now.user = call.user, now.plan = call.plan, now.got = call.got,
         now.at = call.at \/ (call.at # "read" /\ now.at # "read")
  PROVE  ImagesOfACall(t, now)
  BY DEF ImagesOfACall

\* A call begins.
LEMMA StartKeepsImages ==
  ASSUME ImagesInv, 0 \notin StrokeWidths, NEW t \in Threads, NEW f \in fonts[t], NEW user, NEW plan,
         \/ user = "measure" /\ plan \in Measurings(f)
         \/ user = "atlas" /\ plan \in AtlasPlans(f) /\ t \in Renderers
         \/ user = "canvas" /\ plan \in CanvasPlans(f) /\ t \in Renderers,
         Start(t, user, plan)
  PROVE  ImagesDoNotMeet' /\ ImagesAreShown' /\ BitmapsAreGiven'
<1>. DEFINE new == Beginning(user, plan, DescsOf(plan) \cup UNION {DescsOf(calls[u].plan) : u \in Active})
<1>1. f \in Typefaces /\ calls \in [Threads -> Calls]
  BY DEF ImagesInv, ScalerInv, TypesAreRight
<1>2. /\ plan \in Seq(Requests)
      /\ calls[t] = Resting /\ UNCHANGED <<containers, heap>>
      /\ calls'[t] = new
      /\ \A u \in Threads \ {t} :
             calls'[u] = IF u \in Active THEN [calls[u] EXCEPT !.asked = @ \cup DescsOf(plan)]
                         ELSE calls[u]
  BY <1>1, PlansAreRequests
     DEF ImagesInv, ScalerInv, CallsAreInOrder, Start, Beginning, At
<1>3. new.user = user /\ new.plan = plan /\ new.got = <<>> /\ new.at = "lookup"
  BY DEF Beginning, Resting
<1>4. \A u \in Threads \ {t} :
         /\ calls'[u].at = calls[u].at /\ calls'[u].user = calls[u].user
         /\ calls'[u].plan = calls[u].plan /\ calls'[u].got = calls[u].got
  BY <1>1, <1>2 DEF Calls
<1>. HIDE DEF new
<1>5. ImagesOfACall(t, calls'[t])
  <2>1. calls'[t].got = <<>> /\ calls'[t].plan = plan /\ calls'[t].user = user /\ calls'[t].at = "lookup"
    BY <1>2, <1>3
  <2>2. DOMAIN calls'[t].got = {}
    BY <2>1
  <2>. QED
    BY <2>1, <2>2, <1>1, PlansOfImages DEF ImagesOfACall
<1>6. ImagesDoNotMeet'
  <2>1. ASSUME NEW u \in Threads \ {t} PROVE ImagesOfACall(u, calls'[u])
    <3>1. ImagesOfACall(u, calls[u])
      BY DEF ImagesInv, ImagesDoNotMeet
    <3>. QED
      BY <3>1, <1>4, OrderStays
  <2>2. \A u \in Threads : ImagesOfACall(u, calls'[u])
    BY <2>1, <1>5
  <2>. QED
    BY <2>2 DEF ImagesDoNotMeet, ImagesOfACall, IsImage
<1>7. \A u \in Threads : calls'[u].got = calls[u].got
  BY <1>2, <1>3, <1>4 DEF Resting
<1>. QED
  BY <1>2, <1>6, <1>7, ImagesStay DEF ImagesInv

\* What a call was given is in the containers, and its call is under way.
LEMMA GivenLives ==
  ASSUME ScalerInv, NEW t \in Threads, NEW i \in DOMAIN calls[t].got
  PROVE  /\ t \in Active
         /\ calls[t].got[i] \in GivenGlyphs
         /\ calls[t].got[i].from \in DOMAIN containers
         /\ calls[t].got[i].from \in ToSet(cache)
         /\ Recent(cache, calls[t].got[i].from, calls[t].asked)
         /\ DescOf(calls[t].got[i].from) = calls[t].got[i].desc
  BY GivenIsCached DEF ScalerInv, ContainersAreReferenced, TypesAreRight, Calls

\* A lookup makes or moves a container, and leaves those in use as they are.
LEMMA LookupKeepsImages ==
  ASSUME ImagesInv, NEW t \in Threads, FindOrCreateScalerContext(t)
  PROVE  ImagesDoNotMeet' /\ ImagesAreShown' /\ BitmapsAreGiven'
<1>0. ScalerInv /\ calls \in [Threads -> Calls]
  BY DEF ImagesInv, ScalerInv, TypesAreRight
<1>1. PICK c \in Places :
        /\ cache' \in Seq(Places)
        /\ \A u \in Active : \A e : Recent(cache, e, calls[u].asked) => Recent(cache', e, calls[u].asked)
        /\ calls' = [calls EXCEPT ![t].at = "use", ![t].held = c]
        /\ UNCHANGED heap
        /\ ToSet(cache') \subseteq DOMAIN containers'
        /\ \A e \in DOMAIN containers \cap DOMAIN containers' : containers'[e] = containers[e]
  BY <1>0, LookupFacts
<1>2. calls[t].at = "lookup"
  BY DEF FindOrCreateScalerContext, At
<1>3. \A u \in Threads : /\ calls'[u].user = calls[u].user /\ calls'[u].plan = calls[u].plan
                         /\ calls'[u].got = calls[u].got
                         /\ \/ calls'[u].at = calls[u].at
                            \/ calls[u].at # "read" /\ calls'[u].at # "read"
  BY <1>0, <1>1, <1>2 DEF Calls
<1>4. ImagesDoNotMeet'
  <2>1. ASSUME NEW u \in Threads PROVE ImagesOfACall(u, calls'[u])
    <3>1. ImagesOfACall(u, calls[u])
      BY DEF ImagesInv, ImagesDoNotMeet
    <3>. QED
      BY <3>1, <1>3, OrderStays
  <2>. QED
    BY <2>1 DEF ImagesDoNotMeet, ImagesOfACall, IsImage
<1>5. ASSUME NEW u \in Threads, NEW i \in DOMAIN calls[u].got
      PROVE  containers'[calls[u].got[i].from] = containers[calls[u].got[i].from]
  <2>1. Recent(cache', calls[u].got[i].from, calls[u].asked)
    BY <1>0, <1>1, GivenLives
  <2>2. calls[u].got[i].from \in DOMAIN containers'
    BY <2>1, <1>1, RecentFacts
  <2>. QED
    BY <2>2, <1>0, <1>1, GivenLives
<1>. QED
  BY <1>1, <1>3, <1>4, <1>5, ImagesStay DEF ImagesInv

\* The containers of a typeface that are purged are not in use.
LEMMA PurgeKeepsImages ==
  ASSUME ImagesInv, NEW t \in Threads, PurgeByTypeface(t)
  PROVE  ImagesDoNotMeet' /\ ImagesAreShown' /\ BitmapsAreGiven'
<1>0. ScalerInv
  BY DEF ImagesInv
<1>1. PICK f \in Typefaces :
        /\ cache' \in Seq(Places)
        /\ \A u \in Active : \A e \in ToSet(cache) :
              TypefaceOf(e) # f /\ Recent(cache, e, calls[u].asked)
                 => Recent(cache', e, calls[u].asked)
        /\ \A u \in Threads : \A i \in DOMAIN calls[u].got : calls[u].got[i].desc[1] # f
        /\ calls' = calls /\ UNCHANGED heap
        /\ ToSet(cache') \subseteq DOMAIN containers'
        /\ \A e \in DOMAIN containers' : containers'[e] = containers[e]
  BY <1>0, PurgeFacts
<1>2. ImagesDoNotMeet'
  BY <1>1 DEF ImagesInv, ImagesDoNotMeet, ImagesOfACall, IsImage
<1>3. ASSUME NEW u \in Threads, NEW i \in DOMAIN calls[u].got
      PROVE  containers'[calls[u].got[i].from] = containers[calls[u].got[i].from]
  <2>1. TypefaceOf(calls[u].got[i].from) # f
    BY <1>0, <1>1, GivenLives DEF TypefaceOf
  <2>2. Recent(cache', calls[u].got[i].from, calls[u].asked)
    BY <2>1, <1>0, <1>1, GivenLives
  <2>. QED
    BY <2>2, <1>1, RecentFacts
<1>. QED
  BY <1>1, <1>2, <1>3, ImagesStay DEF ImagesInv

\* Dropping a font is about typefaces only.
LEMMA DropKeepsImages ==
  ASSUME ImagesInv, UNCHANGED <<containers, heap, calls>>
  PROVE  ImagesDoNotMeet' /\ ImagesAreShown' /\ BitmapsAreGiven'
<1>1. ImagesDoNotMeet'
  BY DEF ImagesInv, ImagesDoNotMeet, ImagesOfACall, IsImage
<1>. QED
  BY <1>1, ImagesStay DEF ImagesInv

\* An image that is made is lent and shows what was drawn last, or is a bitmap
\* that was not there before.
LEMMA MadeImage ==
  ASSUME TypesAreRight, NEW t \in Threads, calls[t].held \in DOMAIN containers,
         Head(calls[t].plan) \in Requests, IsImage(Head(calls[t].plan))
  PROVE  LET c == calls[t].held
             g == Head(calls[t].plan).glyph
         IN  \/ /\ Made(t).heap = heap
                /\ Made(t).glyphs.images[g] = [at |-> Lent, needFree |-> FALSE]
                /\ Made(t).glyphs.drawn = {g}
             \/ \E b \in Nat \ {0} :
                /\ b \notin DOMAIN heap
                /\ DOMAIN Made(t).heap = DOMAIN heap \cup {b}
                /\ Made(t).heap[b] = [desc |-> DescOf(c), glyph |-> g]
                /\ \A z \in DOMAIN heap : Made(t).heap[z] = heap[z]
                /\ Made(t).glyphs.images[g] = [at |-> b, needFree |-> TRUE]
<1>. DEFINE c == calls[t].held
            g == Head(calls[t].plan).glyph
            b == Unused(DOMAIN heap)
            bitmap == [desc |-> DescOf(c), glyph |-> g]
<1>1. containers[c] \in Scalers /\ g \in Glyphs /\ IsFiniteSet(DOMAIN heap)
  BY DEF TypesAreRight, Requests
<1>2. b \in Nat \ {0} /\ b \notin DOMAIN heap
  BY <1>1, UnusedIsFree
<1>3. CASE TypefaceOf(c) \in Borrowing
  <2>1. /\ Made(t).heap = heap
        /\ Made(t).glyphs = [containers[c] EXCEPT !.images[g] = [at |-> Lent, needFree |-> FALSE],
                                                  !.drawn = {g}]
    BY <1>3 DEF Made, GenerateImage
  <2>2. /\ Made(t).glyphs.images[g] = [at |-> Lent, needFree |-> FALSE]
        /\ Made(t).glyphs.drawn = {g}
    BY <2>1, <1>1 DEF Scalers
  <2>. QED
    BY <2>1, <2>2
<1>4. CASE TypefaceOf(c) \notin Borrowing
  <2>1. /\ Made(t).heap = With(heap, b, bitmap)
        /\ Made(t).glyphs = [containers[c] EXCEPT !.images[g] = [at |-> b, needFree |-> TRUE]]
    BY <1>4 DEF Made, GenerateImage
  <2>. HIDE DEF b
  <2>2. Made(t).glyphs.images[g] = [at |-> b, needFree |-> TRUE]
    BY <2>1, <1>1 DEF Scalers
  <2>. HIDE DEF bitmap
  <2>3. /\ DOMAIN Made(t).heap = DOMAIN heap \cup {b}
        /\ Made(t).heap[b] = bitmap
        /\ \A z \in DOMAIN heap : Made(t).heap[z] = heap[z]
    BY <2>1, <1>2, Zenon DEF With
  <2>. QED
    BY <2>2, <2>3, <1>2 DEF bitmap
<1>. QED
  BY <1>3, <1>4

\* Only one thread is given images.
LEMMA OthersHaveNoImages ==
  ASSUME OneThreadDraws, TypesAreRight, ImagesDoNotMeet,
         NEW t \in Renderers, NEW u \in Threads \ {t}
  PROVE  Given(u) = {}
<1>1. calls[u].user \in {"none", "measure", "atlas", "canvas"}
  BY DEF TypesAreRight, Calls
<1>. QED
  BY <1>1 DEF OneThreadDraws, ImagesDoNotMeet, ImagesOfACall, Given

\* What is prepared for a call keeps to the order of images.
LEMMA PrepareKeepsOrder ==
  ASSUME ImagesInv, NEW t \in Threads, Prepare(t)
  PROVE  ImagesDoNotMeet'
<1>. DEFINE call == calls[t]
            n == Len(call.got)
            first == Head(call.plan)
            given == [from |-> call.held, desc |-> first.desc,
                      kind |-> first.kind, glyph |-> first.glyph]
<1>0. ScalerInv
  BY DEF ImagesInv
<1>1. /\ \A u \in Threads \ {t} : calls'[u] = calls[u]
      /\ calls'[t] \in Calls /\ call \in Calls
      /\ calls'[t].at = AfterUse(call, first)
      /\ calls'[t].user = call.user
      /\ calls'[t].plan = Tail(call.plan)
      /\ Len(calls'[t].got) = n + 1
      /\ \A i \in 1 .. n : calls'[t].got[i] = call.got[i]
      /\ calls'[t].got[n + 1] = given
      /\ \A i \in DOMAIN Tail(call.plan) : /\ i + 1 \in DOMAIN call.plan
                                           /\ Tail(call.plan)[i] = call.plan[i + 1]
  BY <1>0, PreparedCall
<1>2. call.at = "use" /\ call.plan \in Seq(Requests) /\ call.plan # <<>>
  BY <1>0, PrepareFacts
<1>3. first = call.plan[1] /\ 1 \in DOMAIN call.plan
  BY <1>2
<1>4. /\ n \in Nat /\ DOMAIN call.got = 1 .. n /\ DOMAIN calls'[t].got = 1 .. n + 1
      /\ DOMAIN Tail(call.plan) \subseteq Nat \ {0}
  BY <1>1, <1>2 DEF Calls
<1>5. given.desc = first.desc /\ (IsImage(given) <=> IsImage(first))
  BY DEF IsImage
<1>6. ImagesOfACall(t, call)
  BY DEF ImagesInv, ImagesDoNotMeet
<1>. HIDE DEF given, first, n
<1>7. \A i \in DOMAIN calls'[t].got : \/ i \in DOMAIN call.got /\ calls'[t].got[i] = call.got[i]
                                      \/ i = n + 1 /\ calls'[t].got[i] = given
  BY <1>1, <1>4
<1>8. \A i \in DOMAIN calls'[t].plan : /\ i + 1 \in DOMAIN call.plan /\ i \in Nat \ {0}
                                       /\ calls'[t].plan[i] = call.plan[i + 1]
  BY <1>1, <1>4
<1>9. ImagesOfACall(t, calls'[t])
  <2>1. call.user \in {"none", "measure"} =>
           /\ \A i \in DOMAIN calls'[t].plan : ~IsImage(calls'[t].plan[i])
           /\ \A i \in DOMAIN calls'[t].got : ~IsImage(calls'[t].got[i])
    BY <1>3, <1>5, <1>6, <1>7, <1>8 DEF ImagesOfACall
  <2>2. call.user = "canvas" =>
           \A i \in DOMAIN calls'[t].got :
              IsImage(calls'[t].got[i]) => i = Len(calls'[t].got) /\ calls'[t].at = "read"
    <3>1. SUFFICES ASSUME call.user = "canvas", NEW i \in DOMAIN calls'[t].got,
                          IsImage(calls'[t].got[i])
                   PROVE  i = n + 1 /\ calls'[t].at = "read"
      BY <1>1
    <3>2. i = n + 1 /\ IsImage(first)
      BY <3>1, <1>2, <1>5, <1>6, <1>7 DEF ImagesOfACall
    <3>. QED
      BY <3>1, <3>2, <1>1 DEF AfterUse
  <2>3. ASSUME call.user = "atlas"
        PROVE  /\ calls'[t].at = "read" => calls'[t].plan = <<>>
               /\ \A i \in DOMAIN calls'[t].plan : IsImage(calls'[t].plan[i])
               /\ \A i \in DOMAIN calls'[t].got : IsImage(calls'[t].got[i])
    BY <2>3, <1>1, <1>3, <1>5, <1>6, <1>7, <1>8 DEF ImagesOfACall, AfterUse
  <2>4. ASSUME call.user = "atlas"
        PROVE  \A i \in DOMAIN calls'[t].got, j \in DOMAIN calls'[t].plan :
                  calls'[t].got[i].desc # calls'[t].plan[j].desc
    <3>1. SUFFICES ASSUME NEW i \in DOMAIN calls'[t].got, NEW j \in DOMAIN calls'[t].plan
                   PROVE  calls'[t].got[i].desc # call.plan[j + 1].desc
      BY <1>8
    <3>2. j + 1 \in DOMAIN call.plan /\ j + 1 # 1
      BY <1>8
    <3>3. CASE i \in DOMAIN call.got /\ calls'[t].got[i] = call.got[i]
      BY <2>4, <3>2, <3>3, <1>6 DEF ImagesOfACall
    <3>4. CASE calls'[t].got[i] = given
      BY <2>4, <3>2, <3>4, <1>3, <1>5, <1>6 DEF ImagesOfACall
    <3>. QED
      BY <3>3, <3>4, <1>7
  <2>5. ASSUME call.user = "atlas", NEW i \in DOMAIN calls'[t].plan, NEW j \in DOMAIN calls'[t].plan,
               calls'[t].plan[i].desc = calls'[t].plan[j].desc
        PROVE  i = j
    <3>1. i + 1 = j + 1
      BY <2>5, <1>6, <1>8 DEF ImagesOfACall
    <3>. QED
      BY <3>1, <1>8
  <2>6. ASSUME call.user = "atlas", NEW i \in DOMAIN calls'[t].got, NEW j \in DOMAIN calls'[t].got,
               calls'[t].got[i].desc = calls'[t].got[j].desc
        PROVE  i = j
    BY <2>6, <1>3, <1>5, <1>6, <1>7 DEF ImagesOfACall
  <2>. QED
    BY <2>1, <2>2, <2>3, <2>4, <2>5, <2>6, <1>1, <1>6 DEF ImagesOfACall
<1>10. \A u \in Threads : ImagesOfACall(u, calls'[u])
  BY <1>1, <1>9 DEF ImagesInv, ImagesDoNotMeet
<1>. QED
  BY <1>10 DEF ImagesDoNotMeet, ImagesOfACall, IsImage

\* An image that is prepared is one more; those the call has are of other
\* containers.
LEMMA PrepareKeepsImages ==
  ASSUME ImagesInv, OneThreadDraws, NEW t \in Threads, Prepare(t)
  PROVE  ImagesAreShown' /\ BitmapsAreGiven'
<1>. DEFINE call == calls[t]
            first == Head(call.plan)
            c == call.held
            given == [from |-> c, desc |-> first.desc, kind |-> first.kind, glyph |-> first.glyph]
            Image(i) == containers'[calls'[t].got[i].from].images[calls'[t].got[i].glyph]
<1>0. /\ ScalerInv /\ TypesAreRight /\ ContainersAreReferenced
      /\ ImagesDoNotMeet /\ ImagesAreShown /\ BitmapsAreGiven
  BY DEF ImagesInv, ScalerInv
<1>. PICK n : n = Len(call.got)
  OBVIOUS
<1>1. /\ \A u \in Threads \ {t} : calls'[u] = calls[u]
      /\ calls'[t] \in Calls /\ call \in Calls
      /\ Len(calls'[t].got) = n + 1
      /\ \A i \in 1 .. n : calls'[t].got[i] = call.got[i]
      /\ calls'[t].got[n + 1] = given
  BY <1>0, PreparedCall
<1>2. /\ call.at = "use" /\ c \in ToSet(cache)
      /\ call.plan \in Seq(Requests) /\ call.plan # <<>>
      /\ DescOf(c) = first.desc
      /\ heap' = Made(t).heap
      /\ ToSet(cache) \subseteq DOMAIN containers'
      /\ containers'[c] = Made(t).glyphs
      /\ \A e \in DOMAIN containers' \ {c} : containers'[e] = containers[e]
  BY <1>0, PrepareFacts
<1>3. /\ first \in Requests /\ first = call.plan[1] /\ 1 \in DOMAIN call.plan
      /\ c \in DOMAIN containers
  BY <1>0, <1>2 DEF ContainersAreReferenced
<1>4. n \in Nat /\ DOMAIN call.got = 1 .. n /\ DOMAIN calls'[t].got = 1 .. n + 1
  BY <1>1 DEF Calls
<1>5. given.from = c /\ given.desc = first.desc /\ given.glyph = first.glyph
      /\ (IsImage(given) <=> IsImage(first))
  BY DEF IsImage
<1>. HIDE DEF given, first, c
<1>6. \A u \in Threads : \A i \in Given(u) : calls[u].got[i].from \in DOMAIN containers'
  BY <1>0, <1>2, GivenLives DEF Given
<1>7. \A u \in Threads \ {t} : Given(u)' = Given(u)
  BY <1>1 DEF Given
<1>8. \A u \in Threads : \A i \in Given(u) : calls'[u].got[i] = calls[u].got[i]
  BY <1>1, <1>4 DEF Given
<1>9. CASE ~IsImage(first)
  <2>1. Given(t)' = Given(t)
    BY <1>1, <1>4, <1>5, <1>9, SMTT(40) DEF Given, IsImage
  <2>2. heap' = heap /\ containers'[c] = containers[c]
    BY <1>2, <1>9 DEF Made, first, c
  <2>3. \A u \in Threads : \A i \in Given(u) :
           containers'[calls[u].got[i].from] = containers[calls[u].got[i].from]
    BY <2>2, <1>2, <1>6
  <2>. QED
    BY <2>1, <2>2, <2>3, <1>0, <1>7, <1>8, GivenStay
<1>10. CASE IsImage(first)
  <2>1. t \in Renderers /\ call.user \in {"atlas", "canvas"}
    BY <1>0, <1>1, <1>3, <1>10 DEF ImagesDoNotMeet, ImagesOfACall, Calls
  <2>2. \A u \in Threads \ {t} : Given(u) = {}
    BY <2>1, <1>0, OthersHaveNoImages
  <2>3. Given(t)' = Given(t) \cup {n + 1} /\ n + 1 \notin Given(t)
    <3>1. \A i : i \in Given(t) <=> i \in 1 .. n /\ calls[t].got[i].kind = "image"
      BY <1>4 DEF Given, IsImage
    <3>2. Given(t)' = {i \in 1 .. n + 1 : calls'[t].got[i].kind = "image"}
      BY <1>4 DEF Given, IsImage
    <3>3. calls'[t].got[n + 1].kind = "image"
      BY <1>1, <1>5, <1>10 DEF IsImage
    <3>. QED
      BY <3>1, <3>2, <3>3, <1>1, <1>4, SMTT(40)
  <2>4. \A i \in Given(t) : calls[t].got[i].from # c
    <3>1. SUFFICES ASSUME NEW i \in Given(t) PROVE calls[t].got[i].desc # first.desc
      BY <1>0, <1>2, GivenLives DEF Given
    <3>. QED
      BY <2>1, <1>0, <1>2, <1>3 DEF ImagesDoNotMeet, ImagesOfACall, Given
  <2>5. \A i \in Given(t) : /\ containers'[calls[t].got[i].from] = containers[calls[t].got[i].from]
                            /\ Image(i) = ImageGiven(t, i)
    BY <2>4, <1>2, <1>6, <1>8 DEF ImageGiven, ImageOf
  <2>6. Image(n + 1) = Made(t).glyphs.images[first.glyph]
    BY <1>1, <1>2, <1>5
  <2>. HIDE DEF Image
  <2>. DEFINE new == Image(n + 1).at
  <2>7. \/ /\ heap' = heap
           /\ new = Lent /\ Image(n + 1).needFree = FALSE
           /\ containers'[c].drawn = {first.glyph}
        \/ /\ new \in Nat /\ new \notin DOMAIN heap /\ DOMAIN heap' = DOMAIN heap \cup {new}
           /\ heap'[new] = [desc |-> DescOf(c), glyph |-> first.glyph]
           /\ \A z \in DOMAIN heap : heap'[z] = heap[z]
           /\ Image(n + 1).needFree = TRUE
    <3>1. CASE /\ Made(t).heap = heap
               /\ Made(t).glyphs.images[first.glyph] = [at |-> Lent, needFree |-> FALSE]
               /\ Made(t).glyphs.drawn = {first.glyph}
      BY <3>1, <2>6, <1>2
    <3>2. ASSUME NEW b \in Nat \ {0}, b \notin DOMAIN heap,
                 DOMAIN Made(t).heap = DOMAIN heap \cup {b},
                 Made(t).heap[b] = [desc |-> DescOf(c), glyph |-> first.glyph],
                 \A z \in DOMAIN heap : Made(t).heap[z] = heap[z],
                 Made(t).glyphs.images[first.glyph] = [at |-> b, needFree |-> TRUE]
          PROVE  /\ new \in Nat /\ new \notin DOMAIN heap
                 /\ DOMAIN heap' = DOMAIN heap \cup {new}
                 /\ heap'[new] = [desc |-> DescOf(c), glyph |-> first.glyph]
                 /\ \A z \in DOMAIN heap : heap'[z] = heap[z]
                 /\ Image(n + 1).needFree = TRUE
      <4>1. new = b /\ Image(n + 1).needFree = TRUE
        BY <3>2, <2>6
      <4>. QED
        BY <3>2, <4>1, <1>2
    <3>. QED
      BY <3>1, <3>2, <1>0, <1>3, <1>10, MadeImage DEF first, c
  <2>. HIDE DEF new
  <2>8. /\ DOMAIN heap \subseteq DOMAIN heap'
        /\ \A z \in DOMAIN heap : heap'[z] = heap[z]
    BY <2>7
  <2>9. \A i : Shows(calls[t].got[i])' =
                 IF Image(i).at = Lent
                 THEN /\ containers'[calls'[t].got[i].from].drawn = {calls'[t].got[i].glyph}
                      /\ ~Image(i).needFree
                 ELSE /\ Image(i).at \in DOMAIN heap'
                      /\ heap'[Image(i).at] = [desc |-> calls'[t].got[i].desc,
                                              glyph |-> calls'[t].got[i].glyph]
    BY DEF Shows, ImageOf, Image
  <2>10. ASSUME NEW i \in Given(t)' PROVE Shows(calls[t].got[i])' /\ (Image(i).at # Lent => Image(i).needFree)
    <3>1. CASE i \in Given(t)
      <4>1. Shows(calls[t].got[i]) /\ (Image(i).at # Lent => Image(i).needFree)
        BY <3>1, <2>5, <1>0 DEF ImagesAreShown
      <4>2. Image(i) = ImageOf(calls[t].got[i])
        BY <3>1, <2>5 DEF ImageGiven
      <4>3. IF Image(i).at = Lent
            THEN /\ containers[calls[t].got[i].from].drawn = {calls[t].got[i].glyph}
                 /\ ~Image(i).needFree
            ELSE /\ Image(i).at \in DOMAIN heap
                 /\ heap[Image(i).at] = [desc |-> calls[t].got[i].desc,
                                         glyph |-> calls[t].got[i].glyph]
        BY <4>1, <4>2, Zenon DEF Shows
      <4>4. /\ calls'[t].got[i] = calls[t].got[i]
            /\ containers'[calls[t].got[i].from] = containers[calls[t].got[i].from]
        BY <3>1, <2>5, <1>8
      <4>5. Shows(calls[t].got[i])'
        BY <4>3, <4>4, <2>8, <2>9
      <4>. QED
        BY <4>1, <4>5
    <3>2. CASE i = n + 1
      <4>1. /\ calls'[t].got[i].from = c /\ calls'[t].got[i].desc = DescOf(c)
            /\ calls'[t].got[i].glyph = first.glyph
        BY <3>2, <1>1, <1>2, <1>5
      <4>2. Lent \notin Nat
        BY DEF Lent
      <4>. QED
        BY <3>2, <4>1, <4>2, <2>7, <2>9, ZenonT(50) DEF new
    <3>. QED
      BY <3>1, <3>2, <2>3
  <2>11. \A i \in Given(t) : Image(i).at # Lent => Image(i).at \in DOMAIN heap
    <3>. TAKE i \in Given(t)
    <3>1. Shows(calls[t].got[i]) /\ Image(i) = ImageOf(calls[t].got[i])
      BY <2>5, <1>0 DEF ImagesAreShown, ImageGiven
    <3>. QED
      BY <3>1, Zenon DEF Shows
  <2>12. ASSUME NEW i \in Given(t)', NEW j \in Given(t)', Image(i).at = Image(j).at, Image(i).at # Lent
         PROVE  i = j
    <3>1. CASE i \in Given(t) /\ j \in Given(t)
      BY <2>12, <3>1, <2>5, <1>0 DEF ImagesAreShown
    <3>2. CASE i \in Given(t) /\ j = n + 1
      BY <2>12, <3>2, <2>7, <2>11 DEF new
    <3>3. CASE i = n + 1 /\ j \in Given(t)
      BY <2>12, <3>3, <2>7, <2>11 DEF new
    <3>. QED
      BY <3>1, <3>2, <3>3, <2>3
  <2>13. ASSUME NEW z \in DOMAIN heap' PROVE \E i \in Given(t)' : Image(i).at = z
    <3>1. CASE z \in DOMAIN heap
      <4>1. PICK i \in Given(t) : ImageGiven(t, i).at = z
        BY <3>1, <2>2, <1>0 DEF BitmapsAreGiven
      <4>. QED
        BY <4>1, <2>3, <2>5
    <3>2. CASE z \notin DOMAIN heap
      BY <3>2, <2>13, <2>3, <2>7 DEF new
    <3>. QED
      BY <3>1, <3>2
  <2>14. \A i : ImageGiven(t, i)' = Image(i)
    BY DEF ImageGiven, ImageOf, Image
  <2>15. ImagesAreShown'
    BY <2>2, <2>10, <2>12, <2>14, <1>7 DEF ImagesAreShown
  <2>16. BitmapsAreGiven'
    BY <2>13, <2>14 DEF BitmapsAreGiven
  <2>. QED
    BY <2>15, <2>16
<1>. QED
  BY <1>9, <1>10

\* Reading gives up the glyph got last, or all of them when none of the others
\* is an image.
LEMMA ReadKeepsOrder ==
  ASSUME ImagesInv, NEW t \in Threads, Read(t)
  PROVE  /\ ImagesDoNotMeet'
         /\ \A u \in Threads \ {t} : calls'[u] = calls[u]
         /\ Given(t)' = Given(t) \ {Len(calls[t].got)}
         /\ \A i \in Given(t)' : calls'[t].got[i] = calls[t].got[i]
<1>. DEFINE call == calls[t]
<1>. PICK n : n = Len(call.got)
  OBVIOUS
<1>0. ScalerInv
  BY DEF ImagesInv
<1>1. /\ call.at = "read" /\ call.got # <<>> /\ call.got \in Seq(GivenGlyphs)
      /\ \A u \in Threads \ {t} : calls'[u] = calls[u]
      /\ calls'[t].plan = call.plan
      /\ calls'[t].got \in {Front(call.got), <<>>}
      /\ \/ calls'[t] = Resting
         \/ /\ calls'[t].user = call.user
            /\ calls'[t].got = Front(call.got)
            /\ \/ calls'[t].at = "lookup" /\ call.plan # <<>>
               \/ calls'[t].at = "read" /\ call.plan = <<>>
      /\ calls'[t] = Resting => \A i \in DOMAIN Front(call.got) : ~IsImage(Front(call.got)[i])
  BY <1>0, ReadCall, Zenon
<1>2. /\ DOMAIN Front(call.got) = 1 .. n - 1 /\ Len(Front(call.got)) = n - 1
      /\ \A i \in 1 .. n - 1 : i \in DOMAIN call.got /\ Front(call.got)[i] = call.got[i]
      /\ n \in Nat \ {0} /\ DOMAIN call.got = 1 .. n
  BY <1>1, FrontFacts
<1>3. Resting.user = "none" /\ Resting.plan = <<>> /\ Resting.got = <<>>
  BY DEF Resting
<1>4. \A i \in DOMAIN calls'[t].got : /\ i \in 1 .. n - 1 /\ i \in DOMAIN call.got
                                      /\ calls'[t].got[i] = call.got[i]
  <2>1. calls'[t].got = Front(call.got) \/ DOMAIN calls'[t].got = {}
    BY <1>1
  <2>. QED
    BY <2>1, <1>2, Zenon
<1>5. ImagesOfACall(t, call)
  BY DEF ImagesInv, ImagesDoNotMeet
<1>6. ImagesOfACall(t, calls'[t])
  <2>1. CASE calls'[t] = Resting
    BY <2>1, <1>3 DEF ImagesOfACall
  <2>2. CASE calls'[t] # Resting
    <3>1. /\ calls'[t].user = call.user /\ calls'[t].plan = call.plan
          /\ \/ calls'[t].at = "lookup" /\ call.plan # <<>>
             \/ calls'[t].at = "read" /\ call.plan = <<>>
      BY <2>2, <1>1
    <3>2. call.user = "canvas" => \A i \in DOMAIN calls'[t].got : ~IsImage(calls'[t].got[i])
      BY <1>2, <1>4, <1>5 DEF ImagesOfACall
    <3>. QED
      BY <3>1, <3>2, <1>1, <1>4, <1>5 DEF ImagesOfACall
  <2>. QED
    BY <2>1, <2>2
<1>7. ImagesDoNotMeet'
  <2>1. \A u \in Threads : ImagesOfACall(u, calls'[u])
    BY <1>1, <1>6 DEF ImagesInv, ImagesDoNotMeet
  <2>. QED
    BY <2>1 DEF ImagesDoNotMeet, ImagesOfACall, IsImage
<1>8. Given(t)' = Given(t) \ {n}
  <2>1. Given(t)' = {i \in DOMAIN calls'[t].got : calls'[t].got[i].kind = "image"}
    BY DEF Given, IsImage
  <2>2. Given(t) = {i \in 1 .. n : call.got[i].kind = "image"}
    BY <1>2 DEF Given, IsImage
  <2>3. CASE calls'[t] = Resting
    <3>1. \A i \in 1 .. n - 1 : call.got[i].kind # "image"
      BY <2>3, <1>1, <1>2 DEF IsImage
    <3>2. DOMAIN calls'[t].got = {}
      BY <2>3, <1>3
    <3>. QED
      BY <3>1, <3>2, <2>1, <2>2, <1>2
  <2>4. CASE calls'[t] # Resting
    <3>1. DOMAIN calls'[t].got = 1 .. n - 1
      BY <2>4, <1>1, <1>2
    <3>. QED
      BY <3>1, <2>1, <2>2, <1>2, <1>4
  <2>. QED
    BY <2>3, <2>4
<1>9. \A i \in Given(t)' : calls'[t].got[i] = calls[t].got[i]
  <2>1. \A i \in Given(t)' : i \in DOMAIN calls'[t].got
    BY DEF Given
  <2>. QED
    BY <2>1, <1>4
<1>. QED
  BY <1>1, <1>7, <1>8, <1>9

\* An image that is freed is no other one that the call was given, and nobody
\* else was given any.
LEMMA ReadKeepsImages ==
  ASSUME ImagesInv, OneThreadDraws, NEW t \in Threads, Read(t)
  PROVE  ImagesAreShown' /\ BitmapsAreGiven'
<1>. DEFINE call == calls[t]
            last == call.got[Len(call.got)]
            Image(u, i) == containers'[calls'[u].got[i].from].images[calls'[u].got[i].glyph]
<1>. PICK n : n = Len(call.got)
  OBVIOUS
<1>0. /\ ScalerInv /\ TypesAreRight
      /\ ImagesDoNotMeet /\ ImagesAreShown /\ BitmapsAreGiven
  BY DEF ImagesInv, ScalerInv
<1>1. /\ \A u \in Threads \ {t} : calls'[u] = calls[u]
      /\ Given(t)' = Given(t) \ {n}
      /\ \A i \in Given(t)' : calls'[t].got[i] = calls[t].got[i]
  BY ReadKeepsOrder
<1>2. /\ last.from \in DOMAIN containers /\ last.glyph \in Glyphs
      /\ Releases(t) =>
            /\ DOMAIN heap' = DOMAIN heap \ {ImageOf(last).at}
            /\ containers' = [containers EXCEPT
                  ![last.from].images[last.glyph] = Freed(ImageOf(last), call.user)]
      /\ ~Releases(t) => UNCHANGED <<heap, containers>>
      /\ \A b \in DOMAIN heap' : heap'[b] = heap[b]
      /\ DOMAIN heap' \subseteq DOMAIN heap
      /\ Last(call.got) = last
  BY <1>0, ReadFacts
<1>3. /\ call.got # <<>> /\ call.got \in Seq(GivenGlyphs)
      /\ n \in DOMAIN call.got /\ call.got[n] = last
      /\ Releases(t) <=> IsImage(last) /\ ImageOf(last).needFree
      /\ call.user \in {"none", "measure", "atlas", "canvas"}
  BY <1>0, <1>2, ReadCall, FrontFacts DEF Releases, TypesAreRight, Calls
<1>. HIDE DEF last
<1>4. \A u \in Threads \ {t} : Given(u)' = Given(u)
  BY <1>1 DEF Given
<1>5. \A u \in Threads : \A i \in Given(u)' :
         i \in Given(u) /\ (u = t => i # n) /\ calls'[u].got[i] = calls[u].got[i]
  BY <1>1, <1>4
<1>6. n \in Given(t) <=> IsImage(last)
  BY <1>3 DEF Given
<1>7. \A u \in Threads : \A i \in Given(u) :
         /\ Shows(calls[u].got[i])
         /\ ImageOf(calls[u].got[i]).at # Lent => ImageOf(calls[u].got[i]).needFree
  BY <1>0 DEF ImagesAreShown, ImageGiven
<1>8. Releases(t) => ImageOf(last).at # Lent
  <2>1. Releases(t) => Shows(last) /\ ImageOf(last).needFree
    BY <1>3, <1>6, <1>7
  <2>. QED
    BY <2>1, Zenon DEF Shows
<1>9. n \in Given(t) /\ ~Releases(t) => ImageOf(last).at = Lent
  BY <1>3, <1>6, <1>7
<1>10. ASSUME Releases(t), NEW u \in Threads, NEW i \in Given(u)'
       PROVE  /\ calls[u].got[i].from # last.from
              /\ ImageOf(calls[u].got[i]).at # ImageOf(last).at
  <2>1. t \in Renderers /\ call.user \in {"atlas", "canvas"}
    BY <1>0, <1>3, <1>10 DEF ImagesDoNotMeet, ImagesOfACall
  <2>2. u = t /\ i \in Given(t) /\ i # n
    <3>1. Given(u) # {}
      BY <1>5
    <3>. QED
      BY <3>1, <2>1, <1>0, <1>5, OthersHaveNoImages
  <2>3. i \in DOMAIN call.got /\ IsImage(call.got[i])
    BY <2>2 DEF Given
  <2>4. call.got[i].desc # last.desc
    BY <2>1, <2>2, <2>3, <1>0, <1>3 DEF ImagesDoNotMeet, ImagesOfACall
  <2>5. call.got[i].from # last.from
    BY <2>3, <2>4, <1>0, <1>3, GivenLives
  <2>6. ImageOf(call.got[i]).at # ImageOf(last).at
    <3>1. n \in Given(t)
      BY <1>3, <1>6, <1>10
    <3>2. ImageGiven(t, n) = ImageOf(last) /\ ImageGiven(t, i) = ImageOf(call.got[i])
      BY <1>3 DEF ImageGiven
    <3>. QED
      BY <3>1, <3>2, <2>2, <1>0, <1>8, <1>10 DEF ImagesAreShown
  <2>. QED
    BY <2>2, <2>5, <2>6
<1>11. ASSUME NEW u \in Threads, NEW i \in Given(u)'
       PROVE  /\ containers'[calls[u].got[i].from] = containers[calls[u].got[i].from]
              /\ Image(u, i) = ImageOf(calls[u].got[i])
              /\ Image(u, i).at # Lent => Image(u, i).at \in DOMAIN heap'
  <2>1. containers'[calls[u].got[i].from] = containers[calls[u].got[i].from]
    <3>1. CASE ~Releases(t)
      BY <3>1, <1>2
    <3>2. CASE Releases(t)
      <4>1. calls[u].got[i].from \in DOMAIN containers
        BY <1>0, <1>5, GivenLives DEF Given
      <4>. QED
        BY <4>1, <3>2, <1>2, <1>10
    <3>. QED
      BY <3>1, <3>2
  <2>2. Image(u, i) = ImageOf(calls[u].got[i])
    BY <2>1, <1>5 DEF ImageOf
  <2>3. Shows(calls[u].got[i])
    BY <1>5, <1>7
  <2>4. ImageOf(calls[u].got[i]).at # Lent => ImageOf(calls[u].got[i]).at \in DOMAIN heap
    BY <2>3, Zenon DEF Shows
  <2>. HIDE DEF Image
  <2>5. \/ DOMAIN heap' = DOMAIN heap
        \/ Releases(t) /\ DOMAIN heap' = DOMAIN heap \ {ImageOf(last).at}
    BY <1>2
  <2>6. ImageOf(calls[u].got[i]).at # Lent => ImageOf(calls[u].got[i]).at \in DOMAIN heap'
    BY <2>4, <2>5, <1>10
  <2>. QED
    BY <2>1, <2>2, <2>6
<1>12. \A u \in Threads : \A i : Shows(calls[u].got[i])' =
                 IF Image(u, i).at = Lent
                 THEN /\ containers'[calls'[u].got[i].from].drawn = {calls'[u].got[i].glyph}
                      /\ ~Image(u, i).needFree
                 ELSE /\ Image(u, i).at \in DOMAIN heap'
                      /\ heap'[Image(u, i).at] = [desc |-> calls'[u].got[i].desc,
                                                glyph |-> calls'[u].got[i].glyph]
  BY DEF Shows, ImageOf
<1>13. \A u \in Threads : \A i : ImageGiven(u, i)' = Image(u, i)
  BY DEF ImageGiven, ImageOf
<1>. HIDE DEF Image
<1>14. ASSUME NEW u \in Threads, NEW i \in Given(u)'
       PROVE  Shows(calls[u].got[i])' /\ (Image(u, i).at # Lent => Image(u, i).needFree)
  <2>1. Shows(calls[u].got[i]) /\ (Image(u, i).at # Lent => Image(u, i).needFree)
    BY <1>5, <1>7, <1>11
  <2>2. Image(u, i) = ImageOf(calls[u].got[i])
    BY <1>11
  <2>3. IF Image(u, i).at = Lent
        THEN /\ containers[calls[u].got[i].from].drawn = {calls[u].got[i].glyph}
             /\ ~Image(u, i).needFree
        ELSE /\ Image(u, i).at \in DOMAIN heap
             /\ heap[Image(u, i).at] = [desc |-> calls[u].got[i].desc,
                                        glyph |-> calls[u].got[i].glyph]
    BY <2>1, <2>2, Zenon DEF Shows
  <2>4. /\ calls'[u].got[i] = calls[u].got[i]
        /\ containers'[calls[u].got[i].from] = containers[calls[u].got[i].from]
        /\ Image(u, i).at # Lent => Image(u, i).at \in DOMAIN heap'
    BY <1>5, <1>11
  <2>5. Shows(calls[u].got[i])'
    <3>1. Shows(calls[u].got[i])' =
             IF Image(u, i).at = Lent
             THEN /\ containers'[calls'[u].got[i].from].drawn = {calls'[u].got[i].glyph}
                  /\ ~Image(u, i).needFree
             ELSE /\ Image(u, i).at \in DOMAIN heap'
                  /\ heap'[Image(u, i).at] = [desc |-> calls'[u].got[i].desc,
                                            glyph |-> calls'[u].got[i].glyph]
      BY <1>12
    <3>2. \A b \in DOMAIN heap' : heap'[b] = heap[b]
      BY <1>2
    <3>. QED
      BY <3>1, <3>2, <2>3, <2>4
  <2>. QED
    BY <2>1, <2>5
<1>15. ImagesAreShown'
  <2>1. ASSUME NEW u \in Threads, NEW i \in Given(u)', NEW j \in Given(u)',
               Image(u, i).at = Image(u, j).at, Image(u, i).at # Lent
        PROVE  i = j
    BY <2>1, <1>0, <1>5, <1>11 DEF ImagesAreShown, ImageGiven
  <2>. QED
    BY <2>1, <1>13, <1>14 DEF ImagesAreShown
<1>16. ASSUME NEW b \in DOMAIN heap' PROVE \E u \in Threads : \E i \in Given(u)' : Image(u, i).at = b
  <2>1. PICK u \in Threads : \E i \in Given(u) : ImageGiven(u, i).at = b
    BY <1>0, <1>2 DEF BitmapsAreGiven
  <2>2. PICK i \in Given(u) : ImageGiven(u, i).at = b
    BY <2>1
  <2>3. ImageOf(calls[u].got[i]).at = b
    BY <2>2 DEF ImageGiven
  <2>4. b \in Nat
    BY <1>0, <1>2 DEF TypesAreRight
  <2>5. ~(u = t /\ i = n)
    <3>1. SUFFICES ASSUME u = t, i = n PROVE FALSE
      OBVIOUS
    <3>2. ImageOf(last).at = b /\ n \in Given(t)
      BY <3>1, <2>3, <1>3
    <3>3. ImageOf(last).at # Lent
      BY <3>2, <2>4 DEF Lent
    <3>. QED
      BY <3>2, <3>3, <1>2, <1>9
  <2>6. i \in Given(u)'
    BY <2>5, <1>1, <1>4
  <2>. QED
    BY <2>3, <2>6, <1>11
<1>17. BitmapsAreGiven'
  BY <1>13, <1>16 DEF BitmapsAreGiven
<1>. QED
  BY <1>15, <1>17

\* No image is there in the beginning.
LEMMA ImagesInvInit == ScalerInit => ImagesInv
<1>. SUFFICES ASSUME ScalerInit PROVE ImagesInv
  OBVIOUS
<1>1. \A t \in Threads : calls[t] = Resting
  BY DEF ScalerInit
<1>2. Resting.user = "none" /\ Resting.plan = <<>> /\ Resting.got = <<>>
  BY DEF Resting
<1>3. ImagesDoNotMeet
  BY <1>1, <1>2 DEF ImagesDoNotMeet, ImagesOfACall
<1>4. \A t \in Threads : Given(t) = {}
  BY <1>1, <1>2 DEF Given
<1>5. ImagesAreShown /\ BitmapsAreGiven
  BY <1>4 DEF ImagesAreShown, BitmapsAreGiven, ScalerInit
<1>. QED
  BY <1>3, <1>5, ScalerInvInit DEF ImagesInv

\* Every step keeps what is said of images.
LEMMA ImagesInvStep ==
  ASSUME OneThreadDraws, 0 \notin StrokeWidths, ImagesInv, [ScalerNext]_scalerVars
  PROVE  ImagesInv'
<1>. DEFINE Images3 == ImagesDoNotMeet /\ ImagesAreShown /\ BitmapsAreGiven
<1>1. ASSUME NEW t \in Threads, Measure(t) PROVE Images3'
  <2>1. PICK f \in fonts[t] : \E plan \in Measurings(f) : Start(t, "measure", plan)
    BY <1>1 DEF Measure
  <2>. QED
    BY <2>1, StartKeepsImages
<1>2. ASSUME NEW t \in Threads, DrawToAtlas(t) PROVE Images3'
  <2>1. PICK f \in fonts[t] : \E plan \in AtlasPlans(f) : Start(t, "atlas", plan)
    BY <1>2 DEF DrawToAtlas
  <2>2. t \in Renderers
    BY <1>2 DEF DrawToAtlas
  <2>. QED
    BY <2>1, <2>2, StartKeepsImages
<1>3. ASSUME NEW t \in Threads, DrawInSoftware(t) PROVE Images3'
  <2>1. PICK f \in fonts[t] : \E plan \in CanvasPlans(f) : Start(t, "canvas", plan)
    BY <1>3 DEF DrawInSoftware
  <2>2. t \in Renderers
    BY <1>3 DEF DrawInSoftware
  <2>. QED
    BY <2>1, <2>2, StartKeepsImages
<1>4. ASSUME NEW t \in Threads, DropFont(t) PROVE Images3'
  BY <1>4, DropKeepsImages DEF DropFont
<1>5. ASSUME NEW t \in Threads, Go(t) PROVE Images3'
  <2>1. CASE FindOrCreateScalerContext(t)
    BY <2>1, LookupKeepsImages
  <2>2. CASE Prepare(t)
    BY <2>2, PrepareKeepsOrder, PrepareKeepsImages
  <2>3. CASE Read(t)
    BY <2>3, ReadKeepsOrder, ReadKeepsImages
  <2>4. CASE PurgeByTypeface(t)
    BY <2>4, PurgeKeepsImages
  <2>. QED
    BY <1>5, <2>1, <2>2, <2>3, <2>4 DEF Go
<1>6. ASSUME UNCHANGED scalerVars PROVE Images3'
  <2>1. UNCHANGED <<containers, heap, calls>>
    BY <1>6 DEF scalerVars
  <2>. QED
    BY <2>1, DropKeepsImages
<1>7. Images3'
  <2>1. CASE ScalerNext
    <3>1. PICK t \in Threads : \/ Measure(t) \/ DrawToAtlas(t) \/ DrawInSoftware(t)
                             \/ DropFont(t) \/ Go(t)
      BY <2>1 DEF ScalerNext
    <3>. QED
      BY <3>1, <1>1, <1>2, <1>3, <1>4, <1>5
  <2>. QED
    BY <2>1, <1>6
<1>. QED
  BY <1>7, ScalerInvStep DEF ImagesInv

\* What follows from it at once.
LEMMA ImagesInvSuffices == ImagesInv => GlyphsAreReadRight
<1>. SUFFICES ASSUME ImagesInv PROVE GlyphsAreReadRight
  OBVIOUS
<1>0. ScalerInv /\ ImagesAreShown /\ BitmapsAreGiven /\ DOMAIN heap \subseteq Nat \ {0}
  BY DEF ImagesInv, ScalerInv, TypesAreRight
<1>1. ASSUME NEW t \in Threads, NEW i \in DOMAIN calls[t].got
      PROVE  /\ calls[t].got[i].from # Nowhere
             /\ calls[t].at = "read" /\ IsImage(calls[t].got[i]) => Shows(calls[t].got[i])
  <2>1. t \in Active
    BY <1>0, GivenLives
  <2>. QED
    BY <2>1, <1>0 DEF ImagesAreShown, Given, ScalerInv, CallsUseRecent
<1>2. ASSUME Active = {}, NEW b \in DOMAIN heap PROVE FALSE
  <2>1. PICK t \in Threads : Given(t) # {}
    BY <1>0, <1>2 DEF BitmapsAreGiven
  <2>2. \E i : i \in DOMAIN calls[t].got
    BY <2>1 DEF Given
  <2>. QED
    BY <2>2, <1>0, <1>2, GivenLives
<1>. QED
  BY <1>1, <1>2 DEF GlyphsAreReadRight

\* With one thread that draws and no stroke as wide as a fill, for any number
\* of threads that measure: an image that is read shows its glyph and was not
\* freed, and every bitmap is freed in the end (GlyphsAreReadRight).
THEOREM GlyphsDoGetReadRight ==
  ASSUME OneThreadDraws, 0 \notin StrokeWidths
  PROVE  ScalerSpec => []GlyphsAreReadRight
<1>1. ScalerInit => ImagesInv
  BY ImagesInvInit
<1>2. ImagesInv /\ [ScalerNext]_scalerVars => ImagesInv'
  BY ImagesInvStep
<1>3. ImagesInv => GlyphsAreReadRight
  BY ImagesInvSuffices
<1>. QED
  BY <1>1, <1>2, <1>3, PTL DEF ScalerSpec
=============================================================================

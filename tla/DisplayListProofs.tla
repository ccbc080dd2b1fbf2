------------------------- MODULE DisplayListProofs -------------------------
(***************************************************************************)
(* Proofs about DisplayList, for pictures of any width and recordings of   *)
(* any length: a culled replay keeps saves and restores paired, it shows   *)
(* inside of its rectangle what the whole list shows, and the bounds of a  *)
(* list cover what it shows, of all operations but the misplaced ones.     *)
(*                                                                         *)
(* The scopes of a list are nested (WellNested).  A replay therefore has a *)
(* stack of open scopes, which says what it has called and will call of    *)
(* each (Scoped), and what the canvas has in common with that of the whole *)
(* replay (Agree).  The canvas of the recorder follows the one of the      *)
(* whole replay (Tracks), so that the rectangles it records hold what is   *)
(* drawn (Covered).                                                        *)
(*                                                                         *)
(* Then proofs about DisplayListRTree, for lists of any length and any     *)
(* branch factor: each node of the tree stands for the items of its        *)
(* children (IsTree) and the root for all of them, so that a search finds  *)
(* the draws a replay asks for.                                            *)
(***************************************************************************)
EXTENDS DisplayList, DisplayListRTree, SequenceTheorems, Induction

-----------------------------------------------------------------------------
(* Regions                                                                 *)

\* What a rectangle holds has an end on either side.
LEMMA EndsExist ==
  ASSUME NEW lo \in Int, NEW hi \in Int, NEW S \in SUBSET (lo .. hi), S # {}
  PROVE  /\ Min(S) \in S /\ \A x \in S : Min(S) <= x
         /\ Max(S) \in S /\ \A x \in S : x <= Max(S)
<1>. DEFINE up == {x - lo : x \in S}
            down == {hi - x : x \in S}
<1>1. \A x \in S : x \in Int /\ lo <= x /\ x <= hi
  OBVIOUS
<1>2. up \in SUBSET Nat /\ down \in SUBSET Nat
  <2>1. \A x \in S : x - lo \in Nat /\ hi - x \in Nat
    BY <1>1
  <2>. QED
    BY <2>1
<1>3. up # {} /\ down # {}
  OBVIOUS
<1>4. \E x \in S : \A y \in S : x <= y
  <2>1. PICK k \in up : \A l \in up : k <= l
    <3>. HIDE DEF up
    <3>. QED BY <1>2, <1>3, SmallestExists
  <2>2. PICK x \in S : k = x - lo
    BY <2>1
  <2>3. ASSUME NEW y \in S PROVE x <= y
    <3>1. x - lo <= y - lo
      BY <2>1, <2>2
    <3>. QED
      BY <3>1, <1>1
  <2>. QED
    BY <2>3
<1>5. \E x \in S : \A y \in S : x >= y
  <2>1. PICK k \in down : \A l \in down : k <= l
    <3>. HIDE DEF down
    <3>. QED BY <1>2, <1>3, SmallestExists
  <2>2. PICK x \in S : k = hi - x
    BY <2>1
  <2>3. ASSUME NEW y \in S PROVE x >= y
    <3>1. hi - x <= hi - y
      BY <2>1, <2>2
    <3>. QED
      BY <3>1, <1>1
  <2>. QED
    BY <2>3
<1>6. Min(S) \in S /\ \A x \in S : Min(S) <= x
  BY <1>4 DEF Min
<1>7. Max(S) \in S /\ \A x \in S : Max(S) >= x
  BY <1>5 DEF Max
<1>. QED
  BY <1>1, <1>6, <1>7

\* The rectangle around a region holds it and nothing beyond its ends.
LEMMA HullHolds ==
  ASSUME NEW lo \in Int, NEW hi \in Int, NEW S \in SUBSET (lo .. hi)
  PROVE  S \subseteq Hull(S) /\ Hull(S) \subseteq lo .. hi
<1>1. CASE S = {}
  BY <1>1 DEF Hull
<1>2. CASE S # {}
  <2>1. PICK a \in S, b \in S : a = Min(S) /\ b = Max(S) /\ \A x \in S : a <= x /\ x <= b
    BY <1>2, EndsExist
  <2>2. Hull(S) = a .. b
    BY <1>2, <2>1 DEF Hull
  <2>. QED
    BY <2>1, <2>2
<1>. QED
  BY <1>1, <1>2

\* A region of the picture that is moved is in the rectangle around it.
LEMMA MovedInHull ==
  ASSUME NEW S \in SUBSET Picture, NEW by \in Int
  PROVE  Moved(S, by) \subseteq Int /\ Moved(S, by) \subseteq Hull(Moved(S, by))
<1>1. Width \in Nat
  BY DisplayListAssumption
<1>2. Moved(S, by) \in SUBSET (by .. by + Width - 1)
  BY <1>1 DEF Moved, Picture
<1>. QED
  BY <1>1, <1>2, HullHolds

-----------------------------------------------------------------------------
(* Canvas calls                                                            *)

DrawKinds == {"shape", "glyphs", "paint"}
Kinds == SaveTypes \cup StateTypes \cup DrawKinds \cup {"restore"}
Paints == {"plain", "filter", "blend"}
Operation == [type : Kinds, region : SUBSET Picture, by : Int, paint : Paints, restore : Nat]
Entry == [matrix : Int, world : Int, clip : SUBSET Int]
Stacks == {s \in Seq(Entry) : Len(s) > 0}

\* The entry that a save pushes, and what a call makes of the entry on top.
ClipOf(top, op, type, exact) ==
    IF exact THEN ExactClip(top.clip, type, Moved(op.region, top.matrix))
    ELSE TrackedClip(top.clip, type, Moved(op.region, top.matrix))

Pushed(top, op, exact) ==
    [matrix |-> top.matrix,
     world |-> IF op.type = "save" THEN top.world ELSE top.matrix,
     clip |-> IF op.type = "save" THEN top.clip ELSE ClipOf(top, op, "clip", exact)]

Changed(top, op, exact) ==
    [matrix |-> IF op.type = "translate" THEN top.matrix + op.by
                ELSE IF op.type = "resetMatrix" THEN top.world ELSE top.matrix,
     world |-> top.world,
     clip |-> IF op.type \in {"clip", "clipOut"} THEN ClipOf(top, op, op.type, exact) ELSE top.clip]

\* What calls put on the stack are entries again.
LEMMA EntryTypes ==
  ASSUME NEW top \in Entry, NEW op \in Operation, NEW exact \in BOOLEAN
  PROVE  Pushed(top, op, exact) \in Entry /\ Changed(top, op, exact) \in Entry
<1>1. \A type : ClipOf(top, op, type, exact) \in SUBSET Int
  BY DEF ClipOf, ExactClip, TrackedClip, Entry
<1>. QED
  BY <1>1 DEF Pushed, Changed, Entry, Operation

\* What the calls do to the stack.
LEMMA CalledStack ==
  ASSUME NEW s \in Stacks, NEW op \in Operation, NEW exact \in BOOLEAN
  PROVE  /\ op.type \in SaveTypes => Called(s, op, exact) = Append(s, Pushed(Top(s), op, exact))
         /\ op.type = "restore" => Called(s, op, exact) = IF Len(s) > 1 THEN Front(s) ELSE s
         /\ op.type \in StateTypes =>
                Called(s, op, exact) = [s EXCEPT ![Len(s)] = Changed(Top(s), op, exact)]
         /\ op.type \in DrawKinds => Called(s, op, exact) = s
<1>1. PICK top \in Entry : top = Top(s)
  BY DEF Stacks, Top
<1>2. top = [matrix |-> top.matrix, world |-> top.world, clip |-> top.clip]
  BY DEF Entry
<1>. DEFINE device == Moved(op.region, top.matrix)
<1>3. CASE op.type = "save"
  <2>1. Called(s, op, exact) = Append(s, top)
    BY <1>1, <1>3 DEF Called
  <2>2. Pushed(top, op, exact) = top
    BY <1>2, <1>3 DEF Pushed
  <2>. QED
    BY <1>1, <1>3, <2>1, <2>2 DEF StateTypes, DrawKinds
<1>4. CASE op.type = "saveLayer"
  <2>1. Called(s, op, exact) = Append(s, Pushed(top, op, exact))
    BY <1>1, <1>4 DEF Called, ClipOf, Pushed
  <2>. QED
    BY <1>1, <1>4, <2>1 DEF StateTypes, DrawKinds
<1>5. CASE op.type = "restore"
  BY <1>5 DEF Called, SaveTypes, StateTypes, DrawKinds
<1>6. CASE op.type = "translate"
  <2>1. Called(s, op, exact) = [s EXCEPT ![Len(s)] = [top EXCEPT !.matrix = @ + op.by]]
    BY <1>1, <1>6 DEF Called
  <2>2. Changed(top, op, exact) = [top EXCEPT !.matrix = @ + op.by]
    BY <1>2, <1>6 DEF Changed, Entry
  <2>. QED
    BY <1>1, <1>6, <2>1, <2>2 DEF SaveTypes, DrawKinds
<1>7. CASE op.type = "resetMatrix"
  <2>1. Called(s, op, exact) = [s EXCEPT ![Len(s)] = [top EXCEPT !.matrix = top.world]]
    BY <1>1, <1>7 DEF Called
  <2>2. Changed(top, op, exact) = [top EXCEPT !.matrix = top.world]
    BY <1>2, <1>7 DEF Changed, Entry
  <2>. QED
    BY <1>1, <1>7, <2>1, <2>2 DEF SaveTypes, DrawKinds
<1>8. CASE op.type \in {"clip", "clipOut"}
  <2>1. Called(s, op, exact) =
            [s EXCEPT ![Len(s)] = [top EXCEPT !.clip = ClipOf(top, op, op.type, exact)]]
    BY <1>1, <1>8 DEF Called, ClipOf
  <2>2. Changed(top, op, exact) = [top EXCEPT !.clip = ClipOf(top, op, op.type, exact)]
    BY <1>2, <1>8 DEF Changed, Entry
  <2>. QED
    BY <1>1, <1>8, <2>1, <2>2 DEF SaveTypes, DrawKinds
<1>9. CASE op.type \in DrawKinds
  BY <1>9 DEF Called, SaveTypes, StateTypes, DrawKinds
<1>. QED
  BY <1>3, <1>4, <1>5, <1>6, <1>7, <1>8, <1>9 DEF Operation, Kinds, SaveTypes, StateTypes

\* The levels of the stack after a call.
CalledAs(s, op, exact, t) ==
    /\ t \in Stacks /\ Len(s) \in Nat /\ Len(t) \in Nat /\ Len(s) > 0
    /\ op.type \in SaveTypes =>
         /\ Len(t) = Len(s) + 1 /\ \A l \in 1 .. Len(s) : t[l] = s[l]
         /\ t[Len(t)] = Pushed(s[Len(s)], op, exact)
    /\ op.type = "restore" => /\ Len(t) = IF Len(s) > 1 THEN Len(s) - 1 ELSE Len(s)
                              /\ \A l \in 1 .. Len(t) : t[l] = s[l]
    /\ op.type \in StateTypes =>
         /\ Len(t) = Len(s) /\ \A l \in 1 .. Len(s) - 1 : t[l] = s[l]
         /\ t[Len(t)] = Changed(s[Len(s)], op, exact)
    /\ op.type \in DrawKinds => t = s

\* A call changes the stack at its top only.
LEMMA CalledLevels ==
  ASSUME NEW s \in Stacks, NEW op \in Operation, NEW exact \in BOOLEAN,
         NEW t, t = Called(s, op, exact)
  PROVE  CalledAs(s, op, exact, t)
<1>. USE DEF CalledAs
<1>1. s \in Seq(Entry) /\ Len(s) \in Nat /\ Len(s) > 0
  BY DEF Stacks
<1>2. PICK n \in Nat : n = Len(s) /\ n > 0
  BY <1>1
<1>3. PICK top \in Entry : top = s[n] /\ top = Top(s)
  BY <1>1, <1>2 DEF Top
<1>4. PICK p \in Entry, c \in Entry : p = Pushed(top, op, exact) /\ c = Changed(top, op, exact)
  BY EntryTypes
<1>5. CASE op.type \in SaveTypes
  <2>1. t = Append(s, p)
    BY <1>3, <1>4, <1>5, CalledStack
  <2>2. t \in Seq(Entry) /\ Len(t) = n + 1 /\ t[n + 1] = p /\ \A l \in 1 .. n : t[l] = s[l]
    BY <2>1, <1>1, <1>2
  <2>. QED
    BY <2>2, <1>1, <1>2, <1>3, <1>4, <1>5 DEF Stacks, SaveTypes, StateTypes, DrawKinds
<1>6. CASE op.type = "restore"
  <2>1. CASE n > 1
    <3>1. t = SubSeq(s, 1, n - 1)
      BY <2>1, <1>2, <1>6, CalledStack DEF Front
    <3>2. t \in Seq(Entry) /\ Len(t) = n - 1 /\ \A l \in 1 .. n - 1 : t[l] = s[l]
      BY <3>1, <2>1, <1>1, <1>2
    <3>. QED
      BY <3>2, <2>1, <1>1, <1>2, <1>6 DEF Stacks, SaveTypes, StateTypes, DrawKinds
  <2>2. CASE n <= 1
    <3>1. t = s
      BY <2>2, <1>2, <1>6, CalledStack
    <3>. QED
      BY <3>1, <2>2, <1>1, <1>2, <1>6 DEF Stacks, SaveTypes, StateTypes, DrawKinds
  <2>. QED
    BY <2>1, <2>2
<1>7. CASE op.type \in StateTypes
  <2>1. t = [s EXCEPT ![n] = c]
    BY <1>2, <1>3, <1>4, <1>7, CalledStack
  <2>2. t \in Seq(Entry) /\ Len(t) = n /\ t[n] = c /\ \A l \in 1 .. n - 1 : t[l] = s[l]
    BY <2>1, <1>1, <1>2
  <2>. QED
    BY <2>2, <1>1, <1>2, <1>3, <1>4, <1>7 DEF Stacks, SaveTypes, StateTypes, DrawKinds
<1>8. CASE op.type \in DrawKinds
  <2>1. t = s
    BY <1>8, CalledStack
  <2>. QED
    BY <2>1, <1>1, <1>2, <1>8 DEF Stacks, SaveTypes, StateTypes, DrawKinds
<1>. QED
  BY <1>5, <1>6, <1>7, <1>8 DEF Operation, Kinds

-----------------------------------------------------------------------------
(* Saves and restores                                                      *)

Increasing(s) == \A d, e \in 1 .. Len(s) : d < e => s[d] < s[e]

IsSave(o, i) == o[i].type \in SaveTypes

\* The saves in open are the ones without a restore, and what was saved inside
\* of a scope that is closed was closed in it.
Nested(o, open) ==
    /\ o \in Seq(Operation)
    /\ open \in Seq(Nat) /\ Increasing(open)
    /\ \A d \in 1 .. Len(open) : /\ open[d] \in 1 .. Len(o)
                                 /\ IsSave(o, open[d]) /\ o[open[d]].restore = 0
    /\ \A i \in 1 .. Len(o) :
         IsSave(o, i) => \/ \E d \in 1 .. Len(open) : open[d] = i
                         \/ o[i].restore \in i + 1 .. Len(o) /\ o[o[i].restore].type = "restore"
    /\ \A i, k \in 1 .. Len(o) :
         (IsSave(o, i) /\ IsSave(o, k) /\ i < k /\ k < o[i].restore)
           => o[k].restore # 0 /\ o[k].restore < o[i].restore

\* The scopes of a list are nested, and only its end closes several of them.
WellNested(o) ==
    /\ o \in Seq(Operation)
    /\ \A i \in 1 .. Len(o) : IsSave(o, i) =>
         /\ o[i].restore \in i + 1 .. Len(o) + 1
         /\ o[i].restore <= Len(o) => o[o[i].restore].type = "restore"
    /\ \A i, k \in 1 .. Len(o) :
         (IsSave(o, i) /\ IsSave(o, k) /\ i < k /\ k < o[i].restore)
           => /\ o[k].restore <= o[i].restore
              /\ o[k].restore = o[i].restore => o[i].restore = Len(o) + 1

\* Every restore closes a save.
Matched(o) == \A j \in 1 .. Len(o) : o[j].type = "restore" =>
                  \E i \in 1 .. Len(o) : IsSave(o, i) /\ o[i].restore = j

\* The two lists of operations draw the same.
SameDrawing(o, q) == /\ Len(o) = Len(q)
                     /\ \A i \in 1 .. Len(o) : /\ o[i].type = q[i].type
                                               /\ o[i].region = q[i].region
                                               /\ o[i].by = q[i].by

\* An operation that saves nothing leaves the scopes alone.
LEMMA NestedPush ==
  ASSUME NEW o, NEW open, Nested(o, open),
         NEW op \in Operation, op.type \notin SaveTypes
  PROVE  Nested(Append(o, op), open)
<1>1. o \in Seq(Operation) /\ open \in Seq(Nat)
  BY DEF Nested
<1>2. PICK n \in Nat : n = Len(o)
  BY <1>1
<1>3. PICK q : q = Append(o, op)
  OBVIOUS
<1>4. /\ q \in Seq(Operation) /\ Len(q) = n + 1 /\ q[n + 1] = op
      /\ \A i \in 1 .. n : q[i] = o[i]
  BY <1>1, <1>2, <1>3
<1>5. \A i \in 1 .. n + 1 : i = n + 1 \/ i \in 1 .. n
  OBVIOUS
<1>6. \A i \in 1 .. n + 1 : IsSave(q, i) => i \in 1 .. n /\ IsSave(o, i)
  BY <1>4, <1>5 DEF IsSave
<1>7. \A d \in 1 .. Len(open) : /\ open[d] \in 1 .. n + 1
                                /\ IsSave(q, open[d]) /\ q[open[d]].restore = 0
  BY <1>2, <1>4 DEF Nested, IsSave
<1>8. ASSUME NEW i \in 1 .. n + 1, IsSave(q, i)
      PROVE  \/ \E d \in 1 .. Len(open) : open[d] = i
             \/ q[i].restore \in i + 1 .. n + 1 /\ q[q[i].restore].type = "restore"
  <2>1. i \in 1 .. n /\ IsSave(o, i) /\ q[i] = o[i]
    BY <1>4, <1>6, <1>8
  <2>2. CASE \E d \in 1 .. Len(open) : open[d] = i
    BY <2>2
  <2>3. CASE o[i].restore \in i + 1 .. n /\ o[o[i].restore].type = "restore"
    <3>1. PICK j \in i + 1 .. n : j = o[i].restore
      BY <2>3
    <3>2. q[j] = o[j] /\ j \in i + 1 .. n + 1
      BY <1>4, <3>1
    <3>. QED
      BY <2>1, <2>3, <3>1, <3>2
  <2>. QED
    BY <1>2, <2>1, <2>2, <2>3 DEF Nested
<1>9. ASSUME NEW i \in 1 .. n + 1, NEW k \in 1 .. n + 1,
             IsSave(q, i), IsSave(q, k), i < k, k < q[i].restore
      PROVE  q[k].restore # 0 /\ q[k].restore < q[i].restore
  <2>1. i \in 1 .. n /\ k \in 1 .. n /\ IsSave(o, i) /\ IsSave(o, k) /\ q[i] = o[i] /\ q[k] = o[k]
    BY <1>4, <1>6, <1>9
  <2>. QED
    BY <1>2, <1>9, <2>1 DEF Nested
<1>. QED
  BY <1>1, <1>3, <1>4, <1>7, <1>8, <1>9 DEF Nested

\* A save opens a scope.
LEMMA NestedSave ==
  ASSUME NEW o, NEW open, Nested(o, open),
         NEW op \in Operation, op.type \in SaveTypes, op.restore = 0
  PROVE  Nested(Append(o, op), Append(open, Len(o) + 1))
<1>1. o \in Seq(Operation) /\ open \in Seq(Nat)
  BY DEF Nested
<1>2. PICK n \in Nat, D \in Nat : n = Len(o) /\ D = Len(open)
  BY <1>1
<1>3. PICK q, p : q = Append(o, op) /\ p = Append(open, n + 1)
  OBVIOUS
<1>4. /\ q \in Seq(Operation) /\ Len(q) = n + 1 /\ q[n + 1] = op
      /\ \A i \in 1 .. n : q[i] = o[i]
      /\ p \in Seq(Nat) /\ Len(p) = D + 1 /\ p[D + 1] = n + 1
      /\ \A d \in 1 .. D : p[d] = open[d]
  BY <1>1, <1>2, <1>3
<1>5. /\ \A i \in 1 .. n + 1 : i = n + 1 \/ i \in 1 .. n
      /\ \A d \in 1 .. D + 1 : d = D + 1 \/ d \in 1 .. D
  OBVIOUS
<1>6. \A i \in 1 .. n : IsSave(q, i) <=> IsSave(o, i)
  BY <1>4 DEF IsSave
<1>7. \A d \in 1 .. D : open[d] \in 1 .. n /\ IsSave(o, open[d]) /\ o[open[d]].restore = 0
  BY <1>2 DEF Nested
<1>8. ASSUME NEW d \in 1 .. D + 1
      PROVE  p[d] \in 1 .. n + 1 /\ IsSave(q, p[d]) /\ q[p[d]].restore = 0
  BY <1>4, <1>5, <1>7 DEF IsSave
<1>9. Increasing(p)
  <2>. SUFFICES ASSUME NEW d \in 1 .. D + 1, NEW e \in 1 .. D + 1, d < e PROVE p[d] < p[e]
    BY <1>4 DEF Increasing
  <2>1. d \in 1 .. D
    OBVIOUS
  <2>2. CASE e = D + 1
    BY <2>1, <2>2, <1>4, <1>7
  <2>3. CASE e \in 1 .. D
    BY <2>1, <2>3, <1>2, <1>4 DEF Nested, Increasing
  <2>. QED
    BY <1>5, <2>2, <2>3
<1>10. ASSUME NEW i \in 1 .. n + 1, IsSave(q, i)
       PROVE  \/ \E d \in 1 .. D + 1 : p[d] = i
              \/ q[i].restore \in i + 1 .. n + 1 /\ q[q[i].restore].type = "restore"
  <2>1. CASE i = n + 1
    <3>1. D + 1 \in 1 .. D + 1
      OBVIOUS
    <3>. QED
      BY <2>1, <3>1, <1>4
  <2>2. CASE i \in 1 .. n
    <3>1. IsSave(o, i) /\ q[i] = o[i]
      BY <1>4, <1>6, <1>10, <2>2
    <3>2. CASE \E d \in 1 .. D : open[d] = i
      <4>1. PICK d \in 1 .. D : open[d] = i
        BY <3>2
      <4>2. d \in 1 .. D + 1 /\ p[d] = i
        BY <4>1, <1>4
      <4>. QED
        BY <4>2
    <3>3. CASE o[i].restore \in i + 1 .. n /\ o[o[i].restore].type = "restore"
      <4>1. PICK j \in i + 1 .. n : j = o[i].restore
        BY <3>3
      <4>2. q[j] = o[j] /\ j \in i + 1 .. n + 1
        BY <1>4, <4>1, <2>2
      <4>. QED
        BY <3>1, <3>3, <4>1, <4>2
    <3>. QED
      BY <1>2, <2>2, <3>1, <3>2, <3>3 DEF Nested
  <2>. QED
    BY <1>5, <2>1, <2>2
<1>11. ASSUME NEW i \in 1 .. n + 1, NEW k \in 1 .. n + 1,
              IsSave(q, i), IsSave(q, k), i < k, k < q[i].restore
       PROVE  q[k].restore # 0 /\ q[k].restore < q[i].restore
  <2>1. i \in 1 .. n /\ IsSave(o, i) /\ q[i] = o[i]
    BY <1>4, <1>6, <1>11
  <2>2. PICK j \in Nat : j = o[i].restore /\ k < j /\ j <= n
    <3>1. ~\E d \in 1 .. D : open[d] = i
      BY <1>7, <1>11, <2>1
    <3>. QED
      BY <1>2, <1>11, <2>1, <3>1 DEF Nested
  <2>3. k \in 1 .. n /\ IsSave(o, k) /\ q[k] = o[k]
    BY <2>2, <1>4, <1>6, <1>11
  <2>. QED
    BY <1>2, <1>11, <2>1, <2>3 DEF Nested
<1>12. Nested(q, p)
  BY <1>4, <1>8, <1>9, <1>10, <1>11 DEF Nested
<1>. QED
  BY <1>2, <1>3, <1>12

\* What a restore does to the list that ends with it.
LEMMA ClosedList ==
  ASSUME NEW q \in Seq(Operation), NEW save \in 1 .. Len(q), NEW at \in Nat
  PROVE  LET c == Closed(q, save, at)
         IN  /\ c \in Seq(Operation) /\ Len(c) = Len(q)
             /\ \A i \in 1 .. Len(q) : /\ c[i].restore = IF i = save THEN at ELSE q[i].restore
                                       /\ c[i].type = q[i].type
                                       /\ c[i].region = q[i].region
                                       /\ c[i].by = q[i].by
<1>1. PICK op \in Operation : op = q[save]
  OBVIOUS
<1>2. PICK new \in Operation : /\ new = [op EXCEPT !.restore = at]
                               /\ new.restore = at /\ new.type = op.type
                               /\ new.region = op.region /\ new.by = op.by
  <2>1. [op EXCEPT !.restore = at] \in Operation
    BY DEF Operation
  <2>. QED
    BY <2>1 DEF Operation
<1>3. PICK c : c = [q EXCEPT ![save] = new]
  OBVIOUS
<1>4. Closed(q, save, at) = c
  BY <1>1, <1>2, <1>3 DEF Closed
<1>5. /\ c \in Seq(Operation) /\ Len(c) = Len(q)
      /\ \A i \in 1 .. Len(q) : c[i] = IF i = save THEN new ELSE q[i]
  BY <1>3
<1>. QED
  BY <1>1, <1>2, <1>4, <1>5

\* A restore closes the scope that was opened last.
LEMMA NestedRestore ==
  ASSUME NEW o, NEW open, Nested(o, open), open # <<>>,
         NEW op \in Operation, op.type = "restore"
  PROVE  Nested(Closed(Append(o, op), Top(open), Len(o) + 1), Front(open))
<1>1. o \in Seq(Operation) /\ open \in Seq(Nat)
  BY DEF Nested
<1>2. PICK n \in Nat, D \in Nat : n = Len(o) /\ D = Len(open) /\ D > 0
  BY <1>1
<1>3. PICK a \in 1 .. n : a = open[D] /\ a = Top(open) /\ IsSave(o, a) /\ o[a].restore = 0
  BY <1>2 DEF Nested, Top
<1>4. PICK q, p : q = Append(o, op) /\ p = Front(open)
  OBVIOUS
<1>5. /\ q \in Seq(Operation) /\ Len(q) = n + 1 /\ q[n + 1] = op
      /\ \A i \in 1 .. n : q[i] = o[i]
  BY <1>1, <1>2, <1>4
<1>6. p = SubSeq(open, 1, D - 1)
  BY <1>2, <1>4 DEF Front
<1>7. /\ p \in Seq(Nat) /\ Len(p) = D - 1
      /\ \A d \in 1 .. D - 1 : p[d] = open[d]
  BY <1>1, <1>2, <1>6
<1>8. PICK c : c = Closed(q, a, n + 1)
  OBVIOUS
<1>9. /\ c \in Seq(Operation) /\ Len(c) = n + 1
      /\ \A i \in 1 .. n + 1 : /\ c[i].restore = IF i = a THEN n + 1 ELSE q[i].restore
                               /\ c[i].type = q[i].type
  BY <1>5, <1>8, ClosedList
<1>10. \A i \in 1 .. n + 1 : i = n + 1 \/ i \in 1 .. n
  OBVIOUS
<1>11. \A i \in 1 .. n + 1 : IsSave(c, i) => i \in 1 .. n /\ IsSave(o, i)
  BY <1>5, <1>9, <1>10 DEF IsSave, SaveTypes
<1>12. \A i \in 1 .. n : /\ IsSave(c, i) <=> IsSave(o, i)
                         /\ c[i].restore = IF i = a THEN n + 1 ELSE o[i].restore
  BY <1>5, <1>9 DEF IsSave
<1>13. /\ \A d \in 1 .. D : open[d] \in 1 .. n /\ IsSave(o, open[d]) /\ o[open[d]].restore = 0
       /\ \A d \in 1 .. D - 1 : open[d] < a
  <2>1. \A d \in 1 .. D : open[d] \in 1 .. n /\ IsSave(o, open[d]) /\ o[open[d]].restore = 0
    BY <1>2 DEF Nested
  <2>2. ASSUME NEW d \in 1 .. D - 1 PROVE open[d] < a
    <3>1. d \in 1 .. D /\ D \in 1 .. D /\ d < D
      BY <1>2
    <3>2. \A x, y \in 1 .. D : x < y => open[x] < open[y]
      BY <1>2 DEF Nested, Increasing
    <3>3. open[d] < open[D]
      BY <3>1, <3>2
    <3>. QED
      BY <3>3, <1>3
  <2>. QED
    BY <2>1, <2>2
<1>14. Increasing(p)
  <2>1. \A x, y \in 1 .. D : x < y => open[x] < open[y]
    BY <1>2 DEF Nested, Increasing
  <2>2. ASSUME NEW x \in 1 .. D - 1, NEW y \in 1 .. D - 1, x < y PROVE p[x] < p[y]
    <3>1. x \in 1 .. D /\ y \in 1 .. D
      BY <1>2
    <3>. QED
      BY <3>1, <2>1, <2>2, <1>7
  <2>3. Len(p) = D - 1
    BY <1>7
  <2>. QED
    BY <2>2, <2>3 DEF Increasing
<1>15. ASSUME NEW d \in 1 .. D - 1
       PROVE  p[d] \in 1 .. n + 1 /\ IsSave(c, p[d]) /\ c[p[d]].restore = 0
  <2>1. PICK k \in 1 .. n : k = open[d] /\ k < a /\ IsSave(o, k) /\ o[k].restore = 0
    BY <1>13
  <2>2. IsSave(c, k) /\ c[k].restore = 0
    BY <2>1, <1>12
  <2>. QED
    BY <2>1, <2>2, <1>7
<1>16. ASSUME NEW i \in 1 .. n + 1, IsSave(c, i)
       PROVE  \/ \E d \in 1 .. D - 1 : p[d] = i
              \/ c[i].restore \in i + 1 .. n + 1 /\ c[c[i].restore].type = "restore"
  <2>1. i \in 1 .. n /\ IsSave(o, i)
    BY <1>11, <1>16
  <2>2. CASE i = a
    <3>1. c[i].restore = n + 1
      BY <2>1, <2>2, <1>12
    <3>2. c[n + 1].type = "restore" /\ n + 1 \in i + 1 .. n + 1
      BY <1>5, <1>9, <2>1
    <3>. QED
      BY <3>1, <3>2
  <2>3. CASE i # a
    <3>1. c[i].restore = o[i].restore
      BY <2>1, <2>3, <1>12
    <3>2. CASE \E d \in 1 .. D : open[d] = i
      <4>1. PICK d \in 1 .. D : open[d] = i
        BY <3>2
      <4>2. d # D
        BY <4>1, <1>3, <2>3
      <4>3. d \in 1 .. D - 1
        BY <4>2
      <4>. QED
        BY <4>1, <4>3, <1>7
    <3>3. CASE o[i].restore \in i + 1 .. n /\ o[o[i].restore].type = "restore"
      <4>1. PICK j \in 1 .. n : j = o[i].restore /\ j \in i + 1 .. n + 1
        BY <3>3, <2>1
      <4>2. c[j].type = "restore"
        BY <3>3, <4>1, <1>5, <1>9
      <4>. QED
        BY <3>1, <4>1, <4>2
    <3>. QED
      BY <1>2, <2>1, <3>2, <3>3 DEF Nested
  <2>. QED
    BY <2>2, <2>3
<1>17. ASSUME NEW i \in 1 .. n + 1, NEW k \in 1 .. n + 1,
              IsSave(c, i), IsSave(c, k), i < k, k < c[i].restore
       PROVE  c[k].restore # 0 /\ c[k].restore < c[i].restore
  <2>1. i \in 1 .. n /\ k \in 1 .. n /\ IsSave(o, i) /\ IsSave(o, k)
    BY <1>11, <1>17
  <2>2. CASE i = a
    <3>1. k # a /\ c[k].restore = o[k].restore /\ c[i].restore = n + 1
      BY <1>12, <1>17, <2>1, <2>2
    <3>2. ~\E d \in 1 .. D : open[d] = k
      <4>. SUFFICES ASSUME NEW d \in 1 .. D, open[d] = k PROVE FALSE
        OBVIOUS
      <4>1. d # D
        BY <3>1, <2>2, <1>3
      <4>2. d \in 1 .. D - 1
        BY <4>1
      <4>3. k < a
        BY <4>2, <1>13
      <4>. QED
        BY <4>3, <2>1, <2>2, <1>17
    <3>3. o[k].restore \in k + 1 .. n
      BY <3>2, <2>1, <1>2 DEF Nested
    <3>. QED
      BY <3>1, <3>3, <2>1
  <2>3. CASE i # a
    <3>1. c[i].restore = o[i].restore
      BY <2>1, <2>3, <1>12
    <3>2. o[k].restore # 0 /\ o[k].restore < o[i].restore
      BY <3>1, <2>1, <1>2, <1>17 DEF Nested
    <3>3. k # a
      BY <3>2, <1>3
    <3>. QED
      BY <3>1, <3>2, <3>3, <2>1, <1>12
  <2>. QED
    BY <2>2, <2>3
<1>18. Nested(c, p)
  BY <1>7, <1>9, <1>14, <1>15, <1>16, <1>17 DEF Nested
<1>. QED
  BY <1>2, <1>3, <1>4, <1>8, <1>18

\* A finished list: what was still open ends with it.
LEMMA NestedFinish ==
  ASSUME NEW o, NEW open, Nested(o, open),
         NEW c, c = [i \in DOMAIN o |-> IF i \in ToSet(open)
                                        THEN [o[i] EXCEPT !.restore = Len(o) + 1]
                                        ELSE o[i]]
  PROVE  WellNested(c) /\ SameDrawing(o, c) /\ (Matched(o) => Matched(c))
<1>1. o \in Seq(Operation) /\ open \in Seq(Nat)
  BY DEF Nested
<1>2. PICK n \in Nat, D \in Nat : n = Len(o) /\ D = Len(open)
  BY <1>1
<1>3. \A i : i \in ToSet(open) <=> \E d \in 1 .. D : open[d] = i
  BY <1>1, <1>2 DEF ToSet
<1>4. ASSUME NEW i \in 1 .. n
      PROVE  LET new == [o[i] EXCEPT !.restore = n + 1]
             IN  new \in Operation /\ new.restore = n + 1 /\ new.type = o[i].type
                 /\ new.region = o[i].region /\ new.by = o[i].by
  <2>1. PICK op \in Operation : op = o[i]
    BY <1>1, <1>2
  <2>2. [op EXCEPT !.restore = n + 1] \in Operation
    BY DEF Operation
  <2>3. \A new : new = [op EXCEPT !.restore = n + 1] =>
                     /\ new.restore = n + 1 /\ new.type = op.type
                     /\ new.region = op.region /\ new.by = op.by
    BY DEF Operation
  <2>. QED
    BY <2>1, <2>2, <2>3
<1>5. c = [i \in 1 .. n |-> IF i \in ToSet(open) THEN [o[i] EXCEPT !.restore = n + 1] ELSE o[i]]
  BY <1>1, <1>2
<1>6. \A i \in 1 .. n : /\ c[i] \in Operation
                        /\ c[i].restore = IF i \in ToSet(open) THEN n + 1 ELSE o[i].restore
                        /\ c[i].type = o[i].type /\ c[i].region = o[i].region /\ c[i].by = o[i].by
  BY <1>1, <1>2, <1>4, <1>5
<1>7. c \in Seq(Operation) /\ Len(c) = n
  <2>1. c \in [1 .. n -> Operation]
    BY <1>5, <1>6
  <2>2. \A f \in [1 .. n -> Operation] : f \in Seq(Operation) /\ Len(f) = n
    OBVIOUS
  <2>. QED
    BY <2>1, <2>2, Zenon
<1>8. \A i \in 1 .. n : IsSave(c, i) <=> IsSave(o, i)
  BY <1>6 DEF IsSave
<1>9. ASSUME NEW i \in 1 .. n, IsSave(o, i), i \notin ToSet(open)
      PROVE  c[i].restore = o[i].restore /\ o[i].restore \in i + 1 .. n
             /\ o[o[i].restore].type = "restore"
  BY <1>2, <1>3, <1>6, <1>9 DEF Nested
<1>10. ASSUME NEW i \in 1 .. n, IsSave(c, i)
       PROVE  /\ c[i].restore \in i + 1 .. n + 1
              /\ c[i].restore <= n => c[c[i].restore].type = "restore"
  <2>1. CASE i \in ToSet(open)
    <3>1. c[i].restore = n + 1
      BY <2>1, <1>6
    <3>2. n + 1 \in i + 1 .. n + 1
      OBVIOUS
    <3>. QED
      BY <3>1, <3>2
  <2>2. CASE i \notin ToSet(open)
    <3>1. PICK j \in i + 1 .. n : j = o[i].restore /\ c[i].restore = j /\ o[j].type = "restore"
      BY <2>2, <1>8, <1>9, <1>10
    <3>2. j \in 1 .. n
      BY <3>1
    <3>3. c[j].type = "restore"
      BY <3>1, <3>2, <1>6
    <3>. QED
      BY <3>1, <3>3
  <2>. QED
    BY <2>1, <2>2
<1>11. ASSUME NEW i \in 1 .. n, NEW k \in 1 .. n,
              IsSave(c, i), IsSave(c, k), i < k, k < c[i].restore
       PROVE  /\ c[k].restore <= c[i].restore
              /\ c[k].restore = c[i].restore => c[i].restore = n + 1
  <2>1. CASE i \in ToSet(open)
    <3>1. c[i].restore = n + 1
      BY <2>1, <1>6
    <3>. QED
      BY <3>1, <1>10, <1>11
  <2>2. CASE i \notin ToSet(open)
    <3>1. IsSave(o, i) /\ IsSave(o, k) /\ c[i].restore = o[i].restore
      BY <2>2, <1>8, <1>9, <1>11
    <3>2. o[k].restore # 0 /\ o[k].restore < o[i].restore
      BY <3>1, <1>2, <1>11 DEF Nested
    <3>3. k \notin ToSet(open)
      BY <3>2, <1>2, <1>3 DEF Nested
    <3>4. c[k].restore = o[k].restore
      BY <3>1, <3>3, <1>9
    <3>5. o[k].restore \in Nat /\ o[i].restore \in Nat
      <4>1. o[k] \in Operation /\ o[i] \in Operation
        BY <1>1, <1>2
      <4>. QED
        BY <4>1 DEF Operation
    <3>. QED
      BY <3>1, <3>2, <3>4, <3>5
  <2>. QED
    BY <2>1, <2>2
<1>12. WellNested(c)
  BY <1>7, <1>10, <1>11 DEF WellNested
<1>13. SameDrawing(o, c)
  BY <1>2, <1>6, <1>7 DEF SameDrawing
<1>14. ASSUME Matched(o), NEW j \in 1 .. n, c[j].type = "restore"
       PROVE  \E i \in 1 .. n : IsSave(c, i) /\ c[i].restore = j
  <2>1. PICK i \in 1 .. n : IsSave(o, i) /\ o[i].restore = j
    BY <1>2, <1>6, <1>14 DEF Matched
  <2>2. i \notin ToSet(open)
    BY <2>1, <1>2, <1>3 DEF Nested
  <2>. QED
    BY <2>1, <2>2, <1>6, <1>8
<1>. QED
  BY <1>7, <1>12, <1>13, <1>14 DEF Matched

-----------------------------------------------------------------------------
(* What a list shows                                                       *)

Screens == [stack : Stacks, pixels : SUBSET (Nat \X Int), moved : SUBSET Nat]
Blank == [stack |-> FreshStack, pixels |-> {}, moved |-> {}]

\* What a draw paints.
Filled(op, top) ==
    IF op.type = "paint" THEN top.clip ELSE Moved(op.region, top.matrix) \cap top.clip

\* A replay begins with a blank screen.
LEMMA BlankScreen == Blank \in Screens
<1>1. Everywhere \in SUBSET Int
  BY DisplayListAssumption DEF Everywhere
<1>2. FreshStack \in Seq(Entry) /\ Len(FreshStack) = 1
  BY <1>1 DEF FreshStack, Entry
<1>3. PICK s \in Stacks : s = FreshStack
  BY <1>2 DEF Stacks
<1>4. [stack |-> s, pixels |-> {}, moved |-> {}] \in Screens
  BY DEF Screens
<1>. QED
  BY <1>3, <1>4 DEF Blank

\* What a call changes of a screen.
PaintedAs(r, op, i, a) ==
    /\ op.type \in DrawKinds =>
         /\ a.stack = r.stack
         /\ a.pixels = r.pixels \cup ({i} \X Filled(op, Top(r.stack)))
         /\ a.moved = r.moved \cup (IF Top(r.stack).matrix = 0 THEN {} ELSE {i})
    /\ op.type \notin DrawKinds =>
         /\ a.stack = Called(r.stack, op, TRUE)
         /\ a.pixels = r.pixels
         /\ a.moved = r.moved

\* One more call keeps the types of the screen, and changes it as PaintedAs says.
LEMMA PaintStep ==
  ASSUME NEW list, list.ops \in Seq(Operation), NEW i \in 1 .. Len(list.ops),
         NEW r \in Screens
  PROVE  /\ Paint(list, r, i) \in Screens
         /\ PaintedAs(r, list.ops[i], i, Paint(list, r, i))
<1>. USE DEF PaintedAs
<1>1. PICK op \in Operation : op = list.ops[i]
  OBVIOUS
<1>2. PICK s \in Stacks, x \in SUBSET (Nat \X Int), m \in SUBSET Nat :
          r = [stack |-> s, pixels |-> x, moved |-> m]
  BY DEF Screens
<1>3. PICK top \in Entry : top = Top(s)
  BY DEF Stacks, Top
<1>4. Top(r.stack) = top
  BY <1>2, <1>3
<1>5. CASE op.type \in DrawKinds
  <2>. DEFINE y == x \cup ({i} \X Filled(op, top))
              n == m \cup (IF top.matrix = 0 THEN {} ELSE {i})
  <2>1. Paint(list, r, i) = [stack |-> s, pixels |-> y, moved |-> n]
    BY <1>1, <1>2, <1>4, <1>5 DEF Paint, DrawKinds, Filled
  <2>2. Filled(op, top) \in SUBSET Int
    BY DEF Filled, Entry
  <2>3. y \in SUBSET (Nat \X Int) /\ n \in SUBSET Nat
    BY <2>2
  <2>. HIDE DEF y, n
  <2>4. [stack |-> s, pixels |-> y, moved |-> n] \in Screens
    BY <2>3 DEF Screens
  <2>5. /\ Paint(list, r, i) \in Screens /\ Paint(list, r, i).stack = r.stack
        /\ Paint(list, r, i).pixels = y /\ Paint(list, r, i).moved = n
    BY <2>1, <2>4, <1>2
  <2>6. /\ y = r.pixels \cup ({i} \X Filled(op, top))
        /\ n = r.moved \cup (IF top.matrix = 0 THEN {} ELSE {i})
    BY <1>2 DEF y, n
  <2>. QED
    BY <2>5, <2>6, <1>1, <1>4, <1>5
<1>6. CASE op.type \notin DrawKinds
  <2>1. PICK t \in Stacks : t = Called(s, op, TRUE)
    BY CalledLevels DEF CalledAs
  <2>2. Paint(list, r, i) = [stack |-> t, pixels |-> x, moved |-> m]
    BY <1>1, <1>2, <1>6, <2>1 DEF Paint, DrawKinds
  <2>3. [stack |-> t, pixels |-> x, moved |-> m] \in Screens
    BY DEF Screens
  <2>4. /\ Paint(list, r, i) \in Screens /\ Paint(list, r, i).stack = t
        /\ Paint(list, r, i).pixels = r.pixels /\ Paint(list, r, i).moved = r.moved
    BY <2>2, <2>3, <1>2
  <2>5. t = Called(r.stack, op, TRUE)
    BY <2>1, <1>2
  <2>. QED
    BY <2>4, <2>5, <1>1, <1>6
<1>. QED
  BY <1>5, <1>6

\* f shows the list's calls one by one.
Runs(f, list, calls, n) == /\ f[0] = Blank
                           /\ \A k \in 1 .. n : f[k] = Paint(list, f[k - 1], calls[k])

\* What calls show is the last of the screens that they make one after the other.
LEMMA ShownRuns ==
  ASSUME NEW list, list.ops \in Seq(Operation), NEW calls \in Seq(1 .. Len(list.ops))
  PROVE  \E f \in [0 .. Len(calls) -> Screens] :
            Runs(f, list, calls, Len(calls)) /\ f[Len(calls)] = Shown(list, calls)
<1>1. PICK n \in Nat : n = Len(calls)
  OBVIOUS
<1>. DEFINE step == [p \in (1 .. n) \X Screens |-> Paint(list, p[2], calls[p[1]])]
<1>2. \A k \in 1 .. n : calls[k] \in 1 .. Len(list.ops)
  BY <1>1
<1>3. \A k \in 1 .. n, r \in Screens : Paint(list, r, calls[k]) \in Screens
  BY <1>2, PaintStep
<1>4. \A k \in 1 .. n, r \in Screens : step[<<k, r>>] = Paint(list, r, calls[k])
  OBVIOUS
<1>5. \A k \in 0 .. n, r \in Screens : k # 0 => step[<<k, r>>] \in Screens
  <2>1. \A k \in 0 .. n : k # 0 => k \in 1 .. n
    OBVIOUS
  <2>. HIDE DEF step
  <2>. QED
    BY <2>1, <1>3, <1>4
<1>. HIDE DEF step
<1>6. PICK f \in [0 .. n -> Screens] : Recurs(f, 0, n, Blank, step)
  <2>1. 0 \in Int /\ n \in Int
    OBVIOUS
  <2>. QED
    BY <2>1, <1>5, BlankScreen, RecursionDefines, Zenon
<1>. DEFINE Defines(g) == g = [k \in 0 .. n |-> IF k = 0 THEN Blank
                                                ELSE Paint(list, g[k - 1], calls[k])]
            shown == CHOOSE g : Defines(g)
<1>7. ASSUME NEW k \in 0 .. n, k # 0
      PROVE  /\ k \in 1 .. n /\ k - 1 \in 0 .. n
             /\ step[<<k, f[k - 1]>>] = Paint(list, f[k - 1], calls[k])
  <2>1. k \in 1 .. n /\ k - 1 \in 0 .. n
    BY <1>7
  <2>. QED
    BY <2>1, <1>4
<1>8. Defines(f)
  BY <1>6, <1>7 DEF Recurs
<1>9. Defines(shown)
  BY <1>8
<1>10. Shown(list, calls) = shown[n]
  BY <1>1 DEF Shown, Blank
<1>. HIDE DEF shown
<1>11. Runs(shown, list, calls, n)
  <2>1. 0 \in 0 .. n /\ \A k \in 1 .. n : k \in 0 .. n /\ k # 0
    OBVIOUS
  <2>. QED
    BY <2>1, <1>9 DEF Runs
<1>. DEFINE I == {k \in Nat : k <= n => shown[k] \in Screens}
<1>12. 0 \in I
  BY <1>11, BlankScreen DEF Runs
<1>13. ASSUME NEW k \in Nat, k \in I PROVE k + 1 \in I
  <2>. SUFFICES ASSUME k + 1 <= n PROVE shown[k + 1] \in Screens
    OBVIOUS
  <2>1. k + 1 \in 1 .. n /\ (k + 1) - 1 = k /\ shown[k] \in Screens
    BY <1>13
  <2>2. shown[k + 1] = Paint(list, shown[k], calls[k + 1])
    BY <2>1, <1>11 DEF Runs
  <2>. QED
    BY <2>1, <2>2, <1>3
<1>14. \A k \in Nat : k \in I
  <2>. HIDE DEF I
  <2>. QED BY <1>12, <1>13, SetInduction
<1>15. \A k \in 0 .. n : shown[k] \in Screens
  BY <1>14
<1>16. shown \in [0 .. n -> Screens]
  <2>1. shown = [k \in 0 .. n |-> shown[k]]
    BY <1>9
  <2>. QED
    BY <2>1, <1>15
<1>. HIDE DEF Defines
<1>. QED
  BY <1>1, <1>10, <1>11, <1>16

\* One call more.
LEMMA ShownAppend ==
  ASSUME NEW list, list.ops \in Seq(Operation), NEW calls \in Seq(1 .. Len(list.ops))
  PROVE  /\ Shown(list, <<>>) = Blank /\ Shown(list, calls) \in Screens
         /\ \A i \in 1 .. Len(list.ops) :
              Shown(list, Append(calls, i)) = Paint(list, Shown(list, calls), i)
<1>1. PICK f \in [0 .. Len(calls) -> Screens] :
          Runs(f, list, calls, Len(calls)) /\ f[Len(calls)] = Shown(list, calls)
  BY ShownRuns
<1>2. PICK n \in Nat : n = Len(calls)
  OBVIOUS
<1>3. Shown(list, <<>>) = Blank
  <2>1. <<>> \in Seq(1 .. Len(list.ops)) /\ Len(<<>>) = 0
    OBVIOUS
  <2>2. PICK g \in [0 .. 0 -> Screens] : Runs(g, list, <<>>, 0) /\ g[0] = Shown(list, <<>>)
    BY <2>1, ShownRuns
  <2>. QED
    BY <2>2 DEF Runs
<1>4. ASSUME NEW i \in 1 .. Len(list.ops)
      PROVE  Shown(list, Append(calls, i)) = Paint(list, Shown(list, calls), i)
  <2>1. PICK more \in Seq(1 .. Len(list.ops)) :
            /\ more = Append(calls, i) /\ Len(more) = n + 1 /\ more[n + 1] = i
            /\ \A k \in 1 .. n : more[k] = calls[k]
    <3>1. \A S : \A s \in Seq(S), x \in S :
              /\ Append(s, x) \in Seq(S) /\ Len(Append(s, x)) = Len(s) + 1
              /\ Append(s, x)[Len(s) + 1] = x /\ \A k \in 1 .. Len(s) : Append(s, x)[k] = s[k]
      OBVIOUS
    <3>. QED
      BY <3>1, <1>2, SMTT(40)
  <2>2. PICK g \in [0 .. n + 1 -> Screens] :
            Runs(g, list, more, n + 1) /\ g[n + 1] = Shown(list, more)
    BY <2>1, ShownRuns
  <2>. DEFINE I == {k \in Nat : k <= n => f[k] = g[k]}
  <2>3. 0 \in I
    BY <1>1, <2>2 DEF Runs
  <2>4. ASSUME NEW k \in Nat, k \in I PROVE k + 1 \in I
    <3>. SUFFICES ASSUME k + 1 <= n PROVE f[k + 1] = g[k + 1]
      OBVIOUS
    <3>1. k + 1 \in 1 .. n /\ k + 1 \in 1 .. n + 1 /\ (k + 1) - 1 = k /\ f[k] = g[k]
      BY <2>4
    <3>2. f[k + 1] = Paint(list, f[k], calls[k + 1])
      BY <3>1, <1>1, <1>2 DEF Runs
    <3>3. g[k + 1] = Paint(list, g[k], more[k + 1])
      BY <3>1, <2>2 DEF Runs
    <3>. QED
      BY <3>1, <3>2, <3>3, <2>1
  <2>5. n \in I
    <3>. HIDE DEF I
    <3>1. \A k \in Nat : k \in I
      BY <2>3, <2>4, SetInduction
    <3>. QED
      BY <3>1
  <2>6. g[n + 1] = Paint(list, g[n], more[n + 1])
    <3>1. n + 1 \in 1 .. n + 1 /\ (n + 1) - 1 = n
      OBVIOUS
    <3>. QED
      BY <3>1, <2>2 DEF Runs
  <2>. QED
    BY <2>1, <2>2, <2>5, <2>6, <1>1, <1>2
<1>5. Shown(list, calls) \in Screens
  BY <1>1, <1>2
<1>. QED
  BY <1>3, <1>4, <1>5

\* What the first k operations of a list show.
View(list, k) == Shown(list, [i \in 1 .. k |-> i])

\* The view of one operation more is a call more.
LEMMA ViewStep ==
  ASSUME NEW list, list.ops \in Seq(Operation), NEW k \in 0 .. Len(list.ops)
  PROVE  /\ View(list, 0) = Blank /\ View(list, k) \in Screens
         /\ k # Len(list.ops) => View(list, k + 1) = Paint(list, View(list, k), k + 1)
<1>1. PICK n \in Nat : n = Len(list.ops)
  OBVIOUS
<1>. DEFINE First(m) == [i \in 1 .. m |-> i]
<1>2. \A m \in 0 .. n : First(m) \in Seq(1 .. n) /\ Len(First(m)) = m
  <2>. TAKE m \in 0 .. n
  <2>1. First(m) \in [1 .. m -> 1 .. n] /\ m \in Nat
    OBVIOUS
  <2>2. \A f \in [1 .. m -> 1 .. n] : f \in Seq(1 .. n) /\ Len(f) = m
    OBVIOUS
  <2>. QED
    BY <2>1, <2>2, Zenon
<1>3. First(0) = <<>>
  OBVIOUS
<1>4. View(list, 0) = Blank /\ View(list, k) \in Screens
  BY <1>1, <1>2, <1>3, ShownAppend DEF View
<1>5. ASSUME k # n PROVE View(list, k + 1) = Paint(list, View(list, k), k + 1)
  <2>1. k + 1 \in 1 .. n /\ k \in Nat
    BY <1>1, <1>5
  <2>2. First(k + 1) = Append(First(k), k + 1)
    <3>1. First(k) \in Seq(1 .. n) /\ Len(First(k)) = k
      BY <1>1, <1>2
    <3>2. Append(First(k), k + 1) = [i \in 1 .. k + 1 |-> IF i = k + 1 THEN k + 1 ELSE First(k)[i]]
      <4>. HIDE DEF First
      <4>. QED BY <3>1, <2>1
    <3>3. \A i \in 1 .. k + 1 : i = k + 1 \/ First(k)[i] = i
      BY <2>1
    <3>. QED
      BY <3>2, <3>3
  <2>3. First(k) \in Seq(1 .. n)
    BY <1>1, <1>2
  <2>4. Shown(list, Append(First(k), k + 1)) = Paint(list, Shown(list, First(k)), k + 1)
    <3>. HIDE DEF First
    <3>. QED BY <1>1, <2>1, <2>3, ShownAppend
  <2>. QED
    BY <2>2, <2>4 DEF View
<1>. QED
  BY <1>1, <1>4, <1>5

\* Lists that begin with the same drawing show the same.
LEMMA ViewSame ==
  ASSUME NEW a, a.ops \in Seq(Operation), NEW b, b.ops \in Seq(Operation),
         NEW n \in Nat, n <= Len(a.ops), n <= Len(b.ops),
         \A i \in 1 .. n : /\ a.ops[i].type = b.ops[i].type
                           /\ a.ops[i].region = b.ops[i].region
                           /\ a.ops[i].by = b.ops[i].by
  PROVE  View(a, n) = View(b, n)
<1>. DEFINE I == {k \in Nat : k <= n => View(a, k) = View(b, k)}
<1>1. 0 \in I
  BY ViewStep
<1>2. ASSUME NEW k \in Nat, k \in I PROVE k + 1 \in I
  <2>. SUFFICES ASSUME k + 1 <= n PROVE View(a, k + 1) = View(b, k + 1)
    OBVIOUS
  <2>1. /\ k + 1 \in 1 .. n /\ View(a, k) = View(b, k)
        /\ k \in 0 .. Len(a.ops) /\ k \in 0 .. Len(b.ops)
        /\ k # Len(a.ops) /\ k # Len(b.ops)
    <3>1. PICK la \in Nat, lb \in Nat : la = Len(a.ops) /\ lb = Len(b.ops) /\ n <= la /\ n <= lb
      OBVIOUS
    <3>2. k + 1 \in 1 .. n /\ k \in 0 .. la /\ k \in 0 .. lb /\ k # la /\ k # lb
      BY <3>1
    <3>3. View(a, k) = View(b, k)
      BY <1>2
    <3>. QED
      BY <3>1, <3>2, <3>3
  <2>2. View(a, k + 1) = Paint(a, View(a, k), k + 1) /\ View(b, k + 1) = Paint(b, View(b, k), k + 1)
    BY <2>1, ViewStep
  <2>3. PICK r : r = View(a, k)
    OBVIOUS
  <2>4. Paint(a, r, k + 1) = Paint(b, r, k + 1)
    BY <2>1 DEF Paint, Called
  <2>. QED
    BY <2>1, <2>2, <2>3, <2>4
<1>3. n \in I
  <2>. HIDE DEF I
  <2>1. \A k \in Nat : k \in I
    BY <1>1, <1>2, SetInduction
  <2>. QED
    BY <2>1
<1>. QED
  BY <1>3

-----------------------------------------------------------------------------
(* Replays                                                                 *)

Scope == [outer : Nat, restore : Nat, needed : BOOLEAN]
Replays(n) == [saves : Seq(Scope), scopeEnd : Nat, calls : Seq(1 .. n)]

\* The next target is the first one from a place on.
LEMMA NextTargetIs ==
  ASSUME NEW list, list.ops \in Seq(Operation),
         NEW targets \in SUBSET (1 .. Len(list.ops)), NEW i \in 1 .. Len(list.ops)
  PROVE  LET next == NextTarget(list, targets, i)
         IN  /\ next \in Nat
             /\ (next \in targets /\ next >= i) \/ next = Len(list.ops) + 2
             /\ \A t \in targets : t >= i => next <= t
<1>1. PICK n \in Nat : n = Len(list.ops)
  OBVIOUS
<1>. DEFINE S == {t \in targets : t >= i} \cup {n + 2}
<1>2. S \in SUBSET (0 .. n + 2) /\ S # {}
  <2>1. \A t \in targets : t \in 0 .. n + 2
    BY <1>1
  <2>2. n + 2 \in S /\ n + 2 \in 0 .. n + 2
    OBVIOUS
  <2>. QED
    BY <2>1, <2>2
<1>3. Min(S) \in S /\ \A x \in S : Min(S) <= x
  <2>. HIDE DEF S
  <2>1. 0 \in Int /\ n + 2 \in Int
    OBVIOUS
  <2>. QED
    BY <2>1, <1>2, EndsExist
<1>4. NextTarget(list, targets, i) = Min(S)
  BY <1>1 DEF NextTarget, Never
<1>5. PICK next \in S : next = Min(S) /\ \A x \in S : next <= x
  BY <1>3
<1>. QED
  BY <1>1, <1>4, <1>5

\* Sequences that grow and shrink at their end.
LEMMA Appended ==
  ASSUME NEW S, NEW s \in Seq(S), NEW x \in S
  PROVE  /\ Append(s, x) \in Seq(S) /\ Len(Append(s, x)) = Len(s) + 1
         /\ Append(s, x)[Len(s) + 1] = x
         /\ \A k \in 1 .. Len(s) : Append(s, x)[k] = s[k]
  OBVIOUS

\* What is left of a sequence without its last element.
LEMMA Shortened ==
  ASSUME NEW S, NEW s \in Seq(S), s # <<>>
  PROVE  /\ Len(s) \in Nat /\ Len(s) > 0 /\ Top(s) = s[Len(s)] /\ Top(s) \in S
         /\ Front(s) \in Seq(S) /\ Len(Front(s)) = Len(s) - 1
         /\ \A k \in 1 .. Len(s) - 1 : Front(s)[k] = s[k]
<1>1. Len(s) \in Nat /\ Len(s) > 0
  OBVIOUS
<1>2. Front(s) = SubSeq(s, 1, Len(s) - 1)
  BY DEF Front
<1>3. Top(s) = s[Len(s)] /\ Top(s) \in S
  BY <1>1 DEF Top
<1>4. PICK n \in Nat : n = Len(s) - 1 /\ n <= Len(s)
  <2>1. PICK m \in Nat : m = Len(s) /\ m > 0
    BY <1>1
  <2>2. m - 1 \in Nat /\ m - 1 <= m
    BY <2>1
  <2>. QED
    BY <2>1, <2>2
<1>5. /\ SubSeq(s, 1, n) \in Seq(S)
      /\ Len(SubSeq(s, 1, n)) = n
  BY <1>4
<1>6. \A k \in 1 .. n : SubSeq(s, 1, n)[k] = s[k]
  BY <1>4
<1>. QED
  BY <1>1, <1>2, <1>3, <1>4, <1>5, <1>6

\* Comparisons are Booleans.
LEMMA ComparisonIs ==
  ASSUME NEW a \in Nat, NEW b \in Nat
  PROVE  (\E c \in BOOLEAN : c = (a < b)) /\ (\E c \in BOOLEAN : c = (a = b))
<1>1. (a < b) \in BOOLEAN /\ (a = b) \in BOOLEAN
  OBVIOUS
<1>. QED
  BY <1>1, Zenon

\* Calling an operation adds it to the calls and changes nothing else.
LEMMA ReplayIfIs ==
  ASSUME NEW n \in Nat, NEW r \in Replays(n), NEW i \in 1 .. n, NEW needed \in BOOLEAN
  PROVE  LET a == ReplayIf(needed, r, i)
         IN  /\ a \in Replays(n)
             /\ a.saves = r.saves /\ a.scopeEnd = r.scopeEnd
             /\ a.calls = IF needed THEN Append(r.calls, i) ELSE r.calls
<1>1. PICK s \in Seq(Scope), e \in Nat, c \in Seq(1 .. n) :
          r = [saves |-> s, scopeEnd |-> e, calls |-> c]
  BY DEF Replays
<1>2. PICK d \in Seq(1 .. n) : d = Append(c, i)
  BY Appended
<1>3. CASE needed
  <2>1. ReplayIf(needed, r, i) = [saves |-> s, scopeEnd |-> e, calls |-> d]
    BY <1>1, <1>2, <1>3 DEF ReplayIf
  <2>2. [saves |-> s, scopeEnd |-> e, calls |-> d] \in Replays(n)
    BY DEF Replays
  <2>. QED
    BY <2>1, <2>2, <1>1, <1>2, <1>3
<1>4. CASE ~needed
  BY <1>4 DEF ReplayIf
<1>. QED
  BY <1>3, <1>4

\* What the steps of a replay do.
ReplaysSave(list, targets, r, i, a, needed) ==
    /\ needed <=> NextTarget(list, targets, i) < list.ops[i].restore
    /\ a.saves = Append(r.saves, [outer |-> r.scopeEnd, restore |-> list.ops[i].restore,
                                  needed |-> needed])
    /\ a.scopeEnd = list.ops[i].restore
    /\ a.calls = IF needed THEN Append(r.calls, i) ELSE r.calls

\* A save opens a scope, and is called if a target is in it.
LEMMA SaveStep ==
  ASSUME NEW list, list.ops \in Seq(Operation), NEW n \in Nat, n = Len(list.ops),
         NEW targets \in SUBSET (1 .. n), NEW i \in 1 .. n, NEW r \in Replays(n),
         list.ops[i].type \in SaveTypes,
         NEW a, a = ReplayStep(list, targets, r, i)
  PROVE  a \in Replays(n) /\ \E needed \in BOOLEAN : ReplaysSave(list, targets, r, i, a, needed)
<1>1. PICK s \in Seq(Scope), e \in Nat, c \in Seq(1 .. n) :
          r = [saves |-> s, scopeEnd |-> e, calls |-> c]
  BY DEF Replays
<1>2. PICK next \in Nat : next = NextTarget(list, targets, i)
  BY NextTargetIs
<1>3. PICK end \in Nat : end = list.ops[i].restore
  <2>1. list.ops[i] \in Operation
    OBVIOUS
  <2>. QED
    BY <2>1 DEF Operation
<1>4. PICK needed \in BOOLEAN : needed = (next < end)
  BY ComparisonIs, SMTT(40)
<1>5. PICK scope \in Scope : scope = [outer |-> e, restore |-> end, needed |-> needed]
  BY DEF Scope
<1>6. PICK t \in Seq(Scope) : t = Append(s, scope)
  BY Appended
<1>7. PICK b \in Replays(n) : b = [saves |-> t, scopeEnd |-> end, calls |-> c]
  BY DEF Replays
<1>8. a = OpenScope(r, i, end, needed)
  BY <1>2, <1>3, <1>4 DEF ReplayStep, SaveTypes, StateTypes
<1>9. a = ReplayIf(needed, b, i)
  BY <1>1, <1>5, <1>6, <1>7, <1>8 DEF OpenScope
<1>10. /\ a \in Replays(n) /\ a.saves = t /\ a.scopeEnd = end
       /\ a.calls = IF needed THEN Append(c, i) ELSE c
  BY <1>7, <1>9, ReplayIfIs
<1>11. r.saves = s /\ r.scopeEnd = e /\ r.calls = c
  BY <1>1
<1>12. a.calls = IF needed THEN Append(r.calls, i) ELSE r.calls
  BY <1>10, <1>11
<1>13. a.saves = Append(r.saves, [outer |-> r.scopeEnd, restore |-> list.ops[i].restore,
                                  needed |-> needed])
  BY <1>3, <1>5, <1>6, <1>10, <1>11
<1>14. needed <=> NextTarget(list, targets, i) < list.ops[i].restore
  BY <1>2, <1>3, <1>4
<1>. QED
  BY <1>3, <1>10, <1>12, <1>13, <1>14 DEF ReplaysSave

\* A restore closes the scope it belongs to, and is called if its save was.
LEMMA RestoreStep ==
  ASSUME NEW list, list.ops \in Seq(Operation), NEW n \in Nat, n = Len(list.ops),
         NEW targets \in SUBSET (1 .. n), NEW i \in 1 .. n, NEW r \in Replays(n),
         list.ops[i].type = "restore",
         NEW a, a = ReplayStep(list, targets, r, i)
  PROVE  /\ a \in Replays(n)
         /\ IF r.saves # <<>> /\ Top(r.saves).restore = i
            THEN /\ a.saves = Front(r.saves)
                 /\ a.scopeEnd = Top(r.saves).outer
                 /\ a.calls = IF Top(r.saves).needed THEN Append(r.calls, i) ELSE r.calls
            ELSE a = r
<1>1. PICK s \in Seq(Scope), e \in Nat, c \in Seq(1 .. n) :
          r = [saves |-> s, scopeEnd |-> e, calls |-> c]
  BY DEF Replays
<1>2. a = AtRestore(r, i)
  BY DEF ReplayStep, SaveTypes, StateTypes
<1>3. CASE s # <<>> /\ Top(s).restore = i
  <2>1. PICK top \in Scope : top = Top(s)
    BY <1>3, Shortened
  <2>2. PICK t \in Seq(Scope) : t = Front(s)
    BY <1>3, Shortened
  <2>3. PICK b \in Replays(n) : b = [saves |-> t, scopeEnd |-> top.outer, calls |-> c]
    BY DEF Replays, Scope
  <2>4. CloseScope(r) = b
    BY <2>1, <2>2, <2>3, <1>1 DEF CloseScope
  <2>5. a = ReplayIf(top.needed, b, i)
    BY <2>1, <2>4, <1>1, <1>2, <1>3 DEF AtRestore
  <2>6. top.needed \in BOOLEAN
    BY DEF Scope
  <2>7. /\ a \in Replays(n) /\ a.saves = t /\ a.scopeEnd = top.outer
        /\ a.calls = IF top.needed THEN Append(c, i) ELSE c
    BY <2>3, <2>5, <2>6, ReplayIfIs
  <2>. QED
    BY <2>1, <2>2, <2>7, <1>1, <1>3
<1>4. CASE ~(s # <<>> /\ Top(s).restore = i)
  BY <1>1, <1>2, <1>4 DEF AtRestore
<1>. QED
  BY <1>3, <1>4

\* State is called if a target is left in the innermost scope.
LEMMA StateStep ==
  ASSUME NEW list, list.ops \in Seq(Operation), NEW n \in Nat, n = Len(list.ops),
         NEW targets \in SUBSET (1 .. n), NEW i \in 1 .. n, NEW r \in Replays(n),
         list.ops[i].type \in StateTypes,
         NEW a, a = ReplayStep(list, targets, r, i)
  PROVE  /\ a \in Replays(n) /\ a.saves = r.saves /\ a.scopeEnd = r.scopeEnd
         /\ a.calls = IF NextTarget(list, targets, i) < r.scopeEnd
                      THEN Append(r.calls, i) ELSE r.calls
<1>1. PICK s \in Seq(Scope), e \in Nat, c \in Seq(1 .. n) :
          r = [saves |-> s, scopeEnd |-> e, calls |-> c]
  BY DEF Replays
<1>2. PICK next \in Nat : next = NextTarget(list, targets, i)
  BY NextTargetIs
<1>3. PICK needed \in BOOLEAN : needed = (next < e)
  BY ComparisonIs
<1>4. a = ReplayIf(needed, r, i)
  BY <1>1, <1>2, <1>3 DEF ReplayStep, SaveTypes, StateTypes
<1>5. /\ a \in Replays(n) /\ a.saves = r.saves /\ a.scopeEnd = r.scopeEnd
      /\ a.calls = IF needed THEN Append(r.calls, i) ELSE r.calls
  BY <1>4, ReplayIfIs
<1>6. needed <=> NextTarget(list, targets, i) < r.scopeEnd
  BY <1>1, <1>2, <1>3
<1>. QED
  BY <1>5, <1>6

\* A draw is called if it is a target.
LEMMA DrawStep ==
  ASSUME NEW list, list.ops \in Seq(Operation), NEW n \in Nat, n = Len(list.ops),
         NEW targets \in SUBSET (1 .. n), NEW i \in 1 .. n, NEW r \in Replays(n),
         list.ops[i].type \in DrawKinds,
         NEW a, a = ReplayStep(list, targets, r, i)
  PROVE  /\ a \in Replays(n) /\ a.saves = r.saves /\ a.scopeEnd = r.scopeEnd
         /\ a.calls = IF i = NextTarget(list, targets, i) THEN Append(r.calls, i) ELSE r.calls
<1>1. PICK next \in Nat : next = NextTarget(list, targets, i)
  BY NextTargetIs
<1>2. PICK needed \in BOOLEAN : needed = (i = next)
  BY ComparisonIs
<1>3. a = ReplayIf(needed, r, i)
  BY <1>1, <1>2 DEF ReplayStep, SaveTypes, StateTypes, DrawKinds
<1>4. /\ a \in Replays(n) /\ a.saves = r.saves /\ a.scopeEnd = r.scopeEnd
      /\ a.calls = IF needed THEN Append(r.calls, i) ELSE r.calls
  BY <1>3, ReplayIfIs
<1>5. needed <=> i = NextTarget(list, targets, i)
  BY <1>1, <1>2
<1>. QED
  BY <1>4, <1>5

\* Every step of a replay keeps its types.
LEMMA ReplayStepTypes ==
  ASSUME NEW list, list.ops \in Seq(Operation), NEW n \in Nat, n = Len(list.ops),
         NEW targets \in SUBSET (1 .. n), NEW i \in 1 .. n, NEW r \in Replays(n)
  PROVE  ReplayStep(list, targets, r, i) \in Replays(n)
<1>1. list.ops[i] \in Operation
  OBVIOUS
<1>2. list.ops[i].type \in Kinds
  BY <1>1 DEF Operation
<1>3. PICK a : a = ReplayStep(list, targets, r, i)
  OBVIOUS
<1>4. list.ops[i].type \in SaveTypes => a \in Replays(n)
  BY <1>3, SaveStep
<1>5. list.ops[i].type = "restore" => a \in Replays(n)
  BY <1>3, RestoreStep
<1>6. list.ops[i].type \in StateTypes => a \in Replays(n)
  BY <1>3, StateStep
<1>7. list.ops[i].type \in DrawKinds => a \in Replays(n)
  BY <1>3, DrawStep
<1>. QED
  BY <1>2, <1>3, <1>4, <1>5, <1>6, <1>7 DEF Kinds

\* f replays the list operation by operation.
Start(n) == [saves |-> <<>>, scopeEnd |-> n + 2, calls |-> <<>>]

Replayed(f, list, targets) ==
    /\ f[0] = Start(Len(list.ops))
    /\ \A i \in 1 .. Len(list.ops) : f[i] = ReplayStep(list, targets, f[i - 1], i)
    /\ f[Len(list.ops)].calls = Replay(list, targets)

\* A replay is the last of the states that its steps make one after the other.
LEMMA ReplayRuns ==
  ASSUME NEW list, list.ops \in Seq(Operation), NEW targets \in SUBSET (1 .. Len(list.ops))
  PROVE  \E f \in [0 .. Len(list.ops) -> Replays(Len(list.ops))] : Replayed(f, list, targets)
<1>1. PICK n \in Nat : n = Len(list.ops)
  OBVIOUS
<1>. DEFINE S == Replays(n)
            step == [p \in (1 .. n) \X S |-> ReplayStep(list, targets, p[2], p[1])]
<1>2. \A i \in 1 .. n, r \in S : ReplayStep(list, targets, r, i) \in S
  BY <1>1, ReplayStepTypes
<1>3. \A i \in 1 .. n, r \in S : step[<<i, r>>] = ReplayStep(list, targets, r, i)
  OBVIOUS
<1>4. \A i \in 0 .. n, r \in S : i # 0 => step[<<i, r>>] \in S
  <2>1. \A i \in 0 .. n : i # 0 => i \in 1 .. n
    OBVIOUS
  <2>. HIDE DEF step, S
  <2>. QED
    BY <2>1, <1>2, <1>3
<1>5. Start(n) \in S
  <2>1. <<>> \in Seq(Scope) /\ <<>> \in Seq(1 .. n) /\ n + 2 \in Nat
    OBVIOUS
  <2>. QED
    BY <2>1 DEF Start, Replays
<1>. HIDE DEF step, S
<1>6. PICK f \in [0 .. n -> S] : Recurs(f, 0, n, Start(n), step)
  <2>1. 0 \in Int /\ n \in Int
    OBVIOUS
  <2>. QED
    BY <2>1, <1>4, <1>5, RecursionDefines, Zenon
<1>. DEFINE Defines(g) == g = [i \in 0 .. n |-> IF i = 0 THEN Start(n)
                                                ELSE ReplayStep(list, targets, g[i - 1], i)]
            replay == CHOOSE g : Defines(g)
<1>7. ASSUME NEW k \in 0 .. n, k # 0
      PROVE  k \in 1 .. n /\ step[<<k, f[k - 1]>>] = ReplayStep(list, targets, f[k - 1], k)
  <2>1. k \in 1 .. n /\ k - 1 \in 0 .. n
    BY <1>7
  <2>. QED
    BY <2>1, <1>3
<1>8. Defines(f)
  BY <1>6, <1>7 DEF Recurs
<1>9. Defines(replay)
  BY <1>8
<1>10. Replay(list, targets) = replay[n].calls
  BY <1>1 DEF Replay, Start, Never
<1>. HIDE DEF replay
<1>11. /\ replay[0] = Start(n)
       /\ \A i \in 1 .. n : replay[i] = ReplayStep(list, targets, replay[i - 1], i)
  <2>1. 0 \in 0 .. n /\ \A i \in 1 .. n : i \in 0 .. n /\ i # 0
    OBVIOUS
  <2>. QED
    BY <2>1, <1>9
<1>. DEFINE I == {k \in Nat : k <= n => replay[k] \in S}
<1>12. 0 \in I
  BY <1>11, <1>5
<1>13. ASSUME NEW k \in Nat, k \in I PROVE k + 1 \in I
  <2>. SUFFICES ASSUME k + 1 <= n PROVE replay[k + 1] \in S
    OBVIOUS
  <2>1. k + 1 \in 1 .. n /\ (k + 1) - 1 = k /\ replay[k] \in S
    BY <1>13
  <2>2. replay[k + 1] = ReplayStep(list, targets, replay[k], k + 1)
    BY <2>1, <1>11
  <2>. QED
    BY <2>1, <2>2, <1>2
<1>14. \A k \in 0 .. n : replay[k] \in S
  <2>. HIDE DEF I
  <2>1. \A k \in Nat : k \in I
    BY <1>12, <1>13, SetInduction
  <2>. QED
    BY <2>1 DEF I
<1>15. replay \in [0 .. n -> S]
  <2>1. replay = [i \in 0 .. n |-> replay[i]]
    BY <1>9
  <2>. QED
    BY <2>1, <1>14
<1>. HIDE DEF Defines
<1>. QED
  BY <1>1, <1>10, <1>11, <1>15 DEF Replayed, S

-----------------------------------------------------------------------------
(* The scopes of a replay                                                  *)

\* The scopes that are open after an operation.
OpenAt(o, pos, i) ==
    /\ pos \in Seq(Nat) /\ Increasing(pos)
    /\ \A d \in 1 .. Len(pos) : pos[d] \in 1 .. i /\ IsSave(o, pos[d]) /\ o[pos[d]].restore > i
    /\ \A k \in 1 .. i : IsSave(o, k) /\ o[k].restore > i => \E d \in 1 .. Len(pos) : pos[d] = k

\* What the next operation makes of the open scopes: a save opens one, its restore
\* closes the innermost, and all others leave them as they are.
LEMMA OpenNext ==
  ASSUME NEW o, WellNested(o), NEW i \in Nat, i + 1 <= Len(o), NEW pos, OpenAt(o, pos, i)
  PROVE  /\ IsSave(o, i + 1) => OpenAt(o, Append(pos, i + 1), i + 1)
         /\ (~IsSave(o, i + 1) /\ \A k \in 1 .. i : IsSave(o, k) => o[k].restore # i + 1)
              => OpenAt(o, pos, i + 1)
         /\ \A k \in 1 .. i : (IsSave(o, k) /\ o[k].restore = i + 1)
              => /\ pos # <<>> /\ k = pos[Len(pos)] /\ o[i + 1].type = "restore"
                 /\ OpenAt(o, Front(pos), i + 1)
<1>1. PICK n \in Nat, D \in Nat : n = Len(o) /\ D = Len(pos) /\ i + 1 <= n
  BY DEF WellNested, OpenAt
<1>2. pos \in Seq(Nat) /\ \A d, e \in 1 .. D : d < e => pos[d] < pos[e]
  BY <1>1 DEF OpenAt, Increasing
<1>3. \A d \in 1 .. D : /\ pos[d] \in 1 .. i /\ pos[d] \in 1 .. i + 1 /\ pos[d] \in 1 .. n
                        /\ IsSave(o, pos[d]) /\ o[pos[d]].restore > i
  <2>1. \A d \in 1 .. D : pos[d] \in 1 .. i /\ IsSave(o, pos[d]) /\ o[pos[d]].restore > i
    BY <1>1 DEF OpenAt
  <2>2. \A x \in 1 .. i : x \in 1 .. i + 1 /\ x \in 1 .. n
    BY <1>1
  <2>. QED
    BY <2>1, <2>2
<1>4. \A k \in 1 .. i : IsSave(o, k) /\ o[k].restore > i => \E d \in 1 .. D : pos[d] = k
  BY <1>1 DEF OpenAt
<1>5. \A k \in 1 .. n : IsSave(o, k) => /\ o[k].restore \in k + 1 .. n + 1
                                        /\ o[k].restore <= n => o[o[k].restore].type = "restore"
  BY <1>1 DEF WellNested
<1>6. \A k \in 1 .. i + 1 : k = i + 1 \/ k \in 1 .. i
  OBVIOUS
<1>7. i + 1 \in 1 .. n /\ i + 1 \in 1 .. i + 1
  BY <1>1
<1>8. IsSave(o, i + 1) => o[i + 1].type # "restore"
  BY DEF IsSave, SaveTypes
<1>9. ASSUME IsSave(o, i + 1) PROVE OpenAt(o, Append(pos, i + 1), i + 1)
  <2>1. PICK p : p = Append(pos, i + 1)
    OBVIOUS
  <2>2. p \in Seq(Nat) /\ Len(p) = D + 1 /\ p[D + 1] = i + 1 /\ \A d \in 1 .. D : p[d] = pos[d]
    BY <2>1, <1>1, <1>2, Appended
  <2>3. \A d \in 1 .. D + 1 : d = D + 1 \/ d \in 1 .. D
    OBVIOUS
  <2>4. ASSUME NEW d \in 1 .. D PROVE o[pos[d]].restore > i + 1
    <3>1. PICK k \in 1 .. n, j \in Nat : k = pos[d] /\ IsSave(o, k) /\ j = o[k].restore /\ j > i
      BY <1>3, <1>5, SMTT(40)
    <3>2. j <= n => o[j].type = "restore"
      BY <3>1, <1>5
    <3>3. j # i + 1
      BY <3>2, <1>1, <1>8, <1>9
    <3>. QED
      BY <3>1, <3>3
  <2>5. o[i + 1].restore > i + 1
    BY <1>5, <1>7, <1>9
  <2>6. \A d \in 1 .. D + 1 : p[d] \in 1 .. i + 1 /\ IsSave(o, p[d]) /\ o[p[d]].restore > i + 1
    BY <2>2, <2>3, <2>4, <2>5, <1>3, <1>7, <1>9
  <2>7. ASSUME NEW d \in 1 .. D + 1, NEW e \in 1 .. D + 1, d < e PROVE p[d] < p[e]
    <3>1. d \in 1 .. D /\ p[d] = pos[d] /\ pos[d] \in 1 .. i
      <4>1. d \in 1 .. D
        BY <2>7
      <4>. QED
        BY <4>1, <2>2, <1>3
    <3>2. CASE e = D + 1
      BY <3>1, <3>2, <2>2
    <3>3. CASE e \in 1 .. D
      BY <3>1, <3>3, <2>2, <2>7, <1>2
    <3>. QED
      BY <2>3, <3>2, <3>3
  <2>8. ASSUME NEW k \in 1 .. i + 1, IsSave(o, k), o[k].restore > i + 1
        PROVE  \E d \in 1 .. D + 1 : p[d] = k
    <3>1. CASE k = i + 1
      <4>1. D + 1 \in 1 .. D + 1
        OBVIOUS
      <4>. QED
        BY <4>1, <3>1, <2>2
    <3>2. CASE k \in 1 .. i
      <4>1. k \in 1 .. n
        BY <3>2, <1>1
      <4>2. o[k].restore > i
        BY <4>1, <2>8, <1>5
      <4>3. PICK d \in 1 .. D : pos[d] = k
        BY <4>2, <3>2, <2>8, <1>4
      <4>4. d \in 1 .. D + 1
        OBVIOUS
      <4>. QED
        BY <4>3, <4>4, <2>2
    <3>. QED
      BY <3>1, <3>2, <1>6
  <2>. QED
    BY <2>1, <2>2, <2>6, <2>7, <2>8 DEF OpenAt, Increasing
<1>10. ASSUME ~IsSave(o, i + 1), \A k \in 1 .. i : IsSave(o, k) => o[k].restore # i + 1
       PROVE  OpenAt(o, pos, i + 1)
  <2>1. ASSUME NEW d \in 1 .. D PROVE o[pos[d]].restore > i + 1
    <3>1. PICK k \in 1 .. i : k = pos[d] /\ k \in 1 .. n /\ IsSave(o, k)
      BY <1>3
    <3>2. PICK j \in Nat : j = o[k].restore /\ j > i
      BY <3>1, <1>3, <1>5
    <3>3. j # i + 1
      BY <3>1, <3>2, <1>10
    <3>. QED
      BY <3>1, <3>2, <3>3
  <2>2. ASSUME NEW k \in 1 .. i + 1, IsSave(o, k), o[k].restore > i + 1
        PROVE  \E d \in 1 .. D : pos[d] = k
    <3>1. k \in 1 .. i /\ k \in 1 .. n
      BY <2>2, <1>1, <1>6, <1>10
    <3>2. o[k].restore > i
      BY <3>1, <2>2, <1>5
    <3>. QED
      BY <3>1, <3>2, <2>2, <1>4
  <2>. QED
    BY <1>1, <1>2, <1>3, <2>1, <2>2 DEF OpenAt, Increasing
<1>11. ASSUME NEW k \in 1 .. i, IsSave(o, k), o[k].restore = i + 1
       PROVE  /\ pos # <<>> /\ k = pos[D] /\ o[i + 1].type = "restore"
              /\ OpenAt(o, Front(pos), i + 1)
  <2>0. k \in 1 .. n /\ o[k].restore > i
    BY <1>1, <1>11
  <2>1. o[i + 1].type = "restore"
    BY <2>0, <1>1, <1>5, <1>11
  <2>2. PICK c \in 1 .. D : pos[c] = k
    BY <2>0, <1>4, <1>11
  <2>3. pos # <<>> /\ D \in 1 .. D
    BY <2>2, <1>1
  <2>4. ASSUME NEW d \in 1 .. D, d # c
        PROVE  pos[d] < k /\ o[pos[d]].restore > i + 1
    <3>1. PICK m \in 1 .. i, j \in Nat : /\ m = pos[d] /\ m \in 1 .. n /\ IsSave(o, m)
                                         /\ j = o[m].restore /\ j > i
      BY <1>3, <1>5, SMTT(40)
    <3>2. m # k
      <4>1. d < c \/ c < d
        BY <2>4
      <4>2. pos[d] # pos[c]
        BY <4>1, <3>1, <2>2, <1>2, <1>3
      <4>. QED
        BY <4>2, <3>1, <2>2
    <3>3. CASE m < k
      <4>1. k < j
        BY <3>1
      <4>2. i + 1 <= j /\ (i + 1 = j => j = n + 1)
        BY <3>1, <3>3, <4>1, <2>0, <1>1, <1>11 DEF WellNested
      <4>. QED
        BY <4>2, <3>1, <3>3, <1>1
    <3>4. CASE k < m
      <4>1. m < i + 1
        BY <3>1
      <4>2. j <= i + 1 /\ (j = i + 1 => i + 1 = n + 1)
        BY <3>1, <3>4, <4>1, <2>0, <1>1, <1>11 DEF WellNested
      <4>. QED
        BY <4>2, <3>1, <1>1
    <3>. QED
      BY <3>1, <3>2, <3>3, <3>4
  <2>5. c = D
    <3>1. ASSUME c # D PROVE FALSE
      <4>1. pos[D] < k
        BY <3>1, <2>3, <2>4
      <4>2. c < D
        BY <3>1
      <4>3. pos[c] < pos[D]
        BY <4>2, <2>3, <1>2
      <4>4. pos[D] \in Nat
        BY <2>3, <1>3
      <4>. QED
        BY <4>1, <4>3, <4>4, <2>2
    <3>. QED
      BY <3>1
  <2>6. PICK p : p = Front(pos)
    OBVIOUS
  <2>7. p \in Seq(Nat) /\ Len(p) = D - 1 /\ \A d \in 1 .. D - 1 : p[d] = pos[d]
    BY <2>3, <2>6, <1>1, <1>2, Shortened
  <2>8. \A d \in 1 .. D - 1 : d \in 1 .. D /\ d # c
    BY <2>5
  <2>9. \A d \in 1 .. D - 1 : p[d] \in 1 .. i + 1 /\ IsSave(o, p[d]) /\ o[p[d]].restore > i + 1
    BY <2>4, <2>7, <2>8, <1>3
  <2>10. ASSUME NEW m \in 1 .. i + 1, IsSave(o, m), o[m].restore > i + 1
         PROVE  \E d \in 1 .. D - 1 : p[d] = m
    <3>1. m \in 1 .. i /\ m \in 1 .. n
      BY <2>1, <2>10, <1>1, <1>6, <1>8
    <3>2. o[m].restore > i
      BY <3>1, <2>10, <1>5
    <3>3. PICK d \in 1 .. D : pos[d] = m
      BY <3>1, <3>2, <2>10, <1>4
    <3>4. m # k
      BY <2>10, <1>11
    <3>5. d # D
      BY <3>3, <3>4, <2>2, <2>5
    <3>6. d \in 1 .. D - 1
      BY <3>5
    <3>. QED
      BY <3>3, <3>6, <2>7
  <2>11. Increasing(p)
    <3>1. \A d, e \in 1 .. D - 1 : d < e => pos[d] < pos[e]
      BY <2>8, <1>2
    <3>. QED
      BY <3>1, <2>7 DEF Increasing
  <2>12. OpenAt(o, p, i + 1)
    BY <2>7, <2>9, <2>10, <2>11 DEF OpenAt
  <2>. QED
    BY <2>1, <2>2, <2>3, <2>5, <2>6, <2>12
<1>. QED
  BY <1>1, <1>9, <1>10, <1>11

\* Where the innermost of the first d scopes ends.
EndOf(o, pos, d) == IF d = 0 THEN Len(o) + 2 ELSE o[pos[d]].restore

\* A target is between two places.
Meets(targets, from, to) == \E t \in targets : from < t /\ t < to

\* The replay follows the scopes, has called the saves that hold a target, and
\* with each of them its restore.
Scoped(o, targets, r, i, pos) ==
    /\ OpenAt(o, pos, i)
    /\ Len(r.saves) = Len(pos)
    /\ \A d \in 1 .. Len(pos) : /\ r.saves[d].restore = o[pos[d]].restore
                                /\ r.saves[d].needed <=> pos[d] \in ToSet(r.calls)
                                /\ r.saves[d].outer = EndOf(o, pos, d - 1)
                                /\ pos[d] \in ToSet(r.calls)
                                     <=> Meets(targets, pos[d], o[pos[d]].restore)
    /\ r.scopeEnd = EndOf(o, pos, Len(pos))
    /\ ToSet(r.calls) \subseteq 1 .. i
    /\ \A k \in 1 .. i : (IsSave(o, k) /\ o[k].restore <= i)
                           => (k \in ToSet(r.calls) <=> o[k].restore \in ToSet(r.calls))

\* Targets are draws.
TargetsOf(o, targets) == \A t \in targets : t \in 1 .. Len(o) /\ o[t].type \in DrawKinds

\* Appending adds one element to what a sequence has.
LEMMA AppendedSet ==
  ASSUME NEW S, NEW s \in Seq(S), NEW x \in S
  PROVE  ToSet(Append(s, x)) = ToSet(s) \cup {x}
<1>1. PICK n \in Nat : n = Len(s)
  OBVIOUS
<1>2. PICK t \in Seq(S) : /\ t = Append(s, x) /\ Len(t) = n + 1 /\ t[n + 1] = x
                          /\ \A k \in 1 .. n : t[k] = s[k]
  <2>1. /\ Append(s, x) \in Seq(S) /\ Len(Append(s, x)) = Len(s) + 1
        /\ Append(s, x)[Len(s) + 1] = x
        /\ \A k \in 1 .. Len(s) : Append(s, x)[k] = s[k]
    BY Appended
  <2>. QED
    BY <1>1, <2>1
<1>3. /\ \A y : y \in ToSet(t) <=> \E k \in 1 .. n + 1 : t[k] = y
      /\ \A y : y \in ToSet(s) <=> \E k \in 1 .. n : s[k] = y
  BY <1>1, <1>2 DEF ToSet
<1>4. \A k \in 1 .. n + 1 : k = n + 1 \/ k \in 1 .. n
  OBVIOUS
<1>5. n + 1 \in 1 .. n + 1 /\ \A k \in 1 .. n : k \in 1 .. n + 1
  OBVIOUS
<1>6. \A y : y \in ToSet(t) <=> y \in ToSet(s) \/ y = x
  BY <1>2, <1>3, <1>4, <1>5
<1>. QED
  BY <1>2, <1>6

\* A place is the next target if it is one; otherwise the next target tells whether
\* one is met before an end.
LEMMA NextBefore ==
  ASSUME NEW list, WellNested(list.ops), NEW targets, TargetsOf(list.ops, targets),
         NEW i \in 1 .. Len(list.ops), NEW e \in Nat, e <= Len(list.ops) + 2
  PROVE  /\ (i = NextTarget(list, targets, i)) <=> i \in targets
         /\ i \notin targets => ((NextTarget(list, targets, i) < e) <=> Meets(targets, i, e))
<1>1. PICK n \in Nat : n = Len(list.ops)
  BY DEF WellNested
<1>2. list.ops \in Seq(Operation) /\ targets \in SUBSET (1 .. n)
  BY <1>1 DEF WellNested, TargetsOf
<1>3. PICK next \in Nat : /\ next = NextTarget(list, targets, i)
                          /\ (next \in targets /\ next >= i) \/ next = n + 2
                          /\ \A t \in targets : t >= i => next <= t
  BY <1>1, <1>2, NextTargetIs
<1>4. (i = next) <=> i \in targets
  BY <1>1, <1>2, <1>3
<1>5. ASSUME i \notin targets PROVE (next < e) <=> Meets(targets, i, e)
  <2>1. ASSUME next < e PROVE Meets(targets, i, e)
    <3>1. next \in targets /\ next >= i
      BY <2>1, <1>1, <1>3
    <3>2. next # i
      BY <3>1, <1>5
    <3>3. i < next
      BY <3>1, <3>2
    <3>. QED
      BY <3>1, <3>3, <2>1 DEF Meets
  <2>2. ASSUME Meets(targets, i, e) PROVE next < e
    <3>1. PICK t \in targets : i < t /\ t < e
      BY <2>2 DEF Meets
    <3>2. t \in Nat
      BY <1>2
    <3>3. next <= t
      BY <3>1, <3>2, <1>3
    <3>. QED
      BY <3>1, <3>2, <3>3
  <2>. QED
    BY <2>1, <2>2
<1>. QED
  BY <1>3, <1>4, <1>5

\* Where scopes end.
LEMMA EndIs ==
  ASSUME NEW o, WellNested(o), NEW i \in 0 .. Len(o), NEW pos, OpenAt(o, pos, i),
         NEW d \in 0 .. Len(pos)
  PROVE  EndOf(o, pos, d) \in Nat /\ i < EndOf(o, pos, d) /\ EndOf(o, pos, d) <= Len(o) + 2
<1>1. PICK n \in Nat, D \in Nat : n = Len(o) /\ D = Len(pos)
  BY DEF WellNested, OpenAt
<1>2. CASE d = 0
  BY <1>1, <1>2 DEF EndOf
<1>3. CASE d # 0
  <2>1. d \in 1 .. D
    BY <1>1, <1>3
  <2>2. PICK k \in 1 .. n : k = pos[d] /\ IsSave(o, k) /\ o[k].restore > i
    BY <2>1, <1>1 DEF OpenAt
  <2>3. o[k].restore \in k + 1 .. n + 1
    BY <2>2, <1>1 DEF WellNested
  <2>. QED
    BY <2>2, <2>3, <1>1, <1>3 DEF EndOf
<1>. QED
  BY <1>2, <1>3

\* A save that holds a target is replayed.
LEMMA ScopedSave ==
  ASSUME NEW list, WellNested(list.ops), NEW targets, TargetsOf(list.ops, targets),
         NEW i \in Nat, i + 1 <= Len(list.ops), NEW r \in Replays(Len(list.ops)), NEW pos,
         Scoped(list.ops, targets, r, i, pos), IsSave(list.ops, i + 1),
         NEW a, a = ReplayStep(list, targets, r, i + 1)
  PROVE  LET needed == Meets(targets, i + 1, list.ops[i + 1].restore)
         IN  /\ Scoped(list.ops, targets, a, i + 1, Append(pos, i + 1))
             /\ a.calls = IF needed THEN Append(r.calls, i + 1) ELSE r.calls
<1>1. PICK o : o = list.ops /\ o \in Seq(Operation)
  BY DEF WellNested
<1>2. PICK n \in Nat, D \in Nat : n = Len(o) /\ D = Len(pos) /\ i + 1 <= n
  BY <1>1 DEF Scoped, OpenAt
<1>3. i + 1 \in 1 .. n /\ targets \in SUBSET (1 .. n) /\ i \in 0 .. n
  BY <1>1, <1>2 DEF TargetsOf
<1>4. PICK end \in Nat : end = o[i + 1].restore /\ end > i + 1 /\ end <= n + 1
  BY <1>1, <1>2, <1>3 DEF WellNested
<1>5. i + 1 \notin targets
  BY <1>1 DEF TargetsOf, IsSave, SaveTypes, DrawKinds
<1>6. PICK s \in Seq(Scope), e \in Nat, c \in Seq(1 .. n) :
          r = [saves |-> s, scopeEnd |-> e, calls |-> c]
  BY <1>1, <1>2 DEF Replays
<1>7. PICK needed \in BOOLEAN : ReplaysSave(list, targets, r, i + 1, a, needed)
  <2>1. /\ list.ops[i + 1].type \in SaveTypes /\ list.ops \in Seq(Operation) /\ n = Len(list.ops)
        /\ r \in Replays(n)
    BY <1>1, <1>2 DEF IsSave
  <2>. QED
    BY <2>1, <1>3, SaveStep
<1>8. needed <=> Meets(targets, i + 1, end)
  <2>1. (NextTarget(list, targets, i + 1) < end) <=> Meets(targets, i + 1, end)
    BY <1>1, <1>2, <1>3, <1>4, <1>5, NextBefore
  <2>. QED
    BY <2>1, <1>1, <1>4, <1>7 DEF ReplaysSave
<1>9. /\ a.saves = Append(s, [outer |-> e, restore |-> end, needed |-> needed])
      /\ a.scopeEnd = end
      /\ a.calls = IF needed THEN Append(c, i + 1) ELSE c
  <2>1. r.saves = s /\ r.scopeEnd = e /\ r.calls = c /\ list.ops[i + 1].restore = end
    BY <1>1, <1>4, <1>6
  <2>. QED
    BY <2>1, <1>7 DEF ReplaysSave
<1>10. PICK p : /\ p = Append(pos, i + 1) /\ Len(p) = D + 1 /\ p[D + 1] = i + 1
                /\ \A d \in 1 .. D : p[d] = pos[d]
  <2>1. pos \in Seq(Nat) /\ i + 1 \in Nat
    BY DEF Scoped, OpenAt
  <2>2. /\ Len(Append(pos, i + 1)) = Len(pos) + 1
        /\ Append(pos, i + 1)[Len(pos) + 1] = i + 1
        /\ \A d \in 1 .. Len(pos) : Append(pos, i + 1)[d] = pos[d]
    BY <2>1, Appended
  <2>. QED
    BY <2>2, <1>2
<1>11. /\ Len(s) = D
       /\ \A d \in 1 .. D : /\ s[d].restore = o[pos[d]].restore
                            /\ s[d].needed <=> pos[d] \in ToSet(c)
                            /\ s[d].outer = EndOf(o, pos, d - 1)
                            /\ pos[d] \in ToSet(c) <=> Meets(targets, pos[d], o[pos[d]].restore)
                            /\ pos[d] \in 1 .. i
       /\ e = EndOf(o, pos, D)
       /\ ToSet(c) \subseteq 1 .. i
       /\ \A k \in 1 .. i : (IsSave(o, k) /\ o[k].restore <= i)
                              => (k \in ToSet(c) <=> o[k].restore \in ToSet(c))
  BY <1>1, <1>2, <1>6 DEF Scoped, OpenAt
<1>12. PICK scope \in Scope : /\ scope = [outer |-> e, restore |-> end, needed |-> needed]
                              /\ scope.outer = e /\ scope.restore = end /\ scope.needed = needed
  <2>1. [outer |-> e, restore |-> end, needed |-> needed] \in Scope
    BY DEF Scope
  <2>. QED
    BY <2>1
<1>13. /\ Len(a.saves) = D + 1 /\ a.saves[D + 1] = scope
       /\ \A d \in 1 .. D : a.saves[d] = s[d]
  <2>1. /\ Len(Append(s, scope)) = Len(s) + 1
        /\ Append(s, scope)[Len(s) + 1] = scope
        /\ \A d \in 1 .. Len(s) : Append(s, scope)[d] = s[d]
    BY Appended
  <2>2. a.saves = Append(s, scope)
    BY <1>9, <1>12
  <2>. QED
    BY <2>1, <2>2, <1>11
<1>14. PICK C : /\ C = ToSet(a.calls)
                /\ C = IF needed THEN ToSet(c) \cup {i + 1} ELSE ToSet(c)
  <2>1. ToSet(Append(c, i + 1)) = ToSet(c) \cup {i + 1}
    BY <1>3, AppendedSet
  <2>. QED
    BY <2>1, <1>9
<1>15. \A d \in 1 .. D + 1 : d = D + 1 \/ d \in 1 .. D
  OBVIOUS
<1>16. /\ \A d \in 1 .. D : EndOf(o, p, d) = EndOf(o, pos, d)
       /\ EndOf(o, p, 0) = EndOf(o, pos, 0)
       /\ EndOf(o, p, D + 1) = end
  BY <1>4, <1>10 DEF EndOf
<1>17. ASSUME NEW d \in 1 .. D + 1
       PROVE  /\ a.saves[d].restore = o[p[d]].restore
              /\ a.saves[d].needed <=> p[d] \in C
              /\ a.saves[d].outer = EndOf(o, p, d - 1)
              /\ p[d] \in C <=> Meets(targets, p[d], o[p[d]].restore)
  <2>1. CASE d = D + 1
    <3>1. i + 1 \in C <=> needed
      BY <1>11, <1>14
    <3>2. D = 0 \/ D \in 1 .. D
      OBVIOUS
    <3>3. EndOf(o, p, D) = e
      BY <3>2, <1>11, <1>16
    <3>. QED
      BY <2>1, <3>1, <3>3, <1>4, <1>8, <1>10, <1>12, <1>13, SMTT(40)
  <2>2. CASE d \in 1 .. D
    <3>1. pos[d] \in C <=> pos[d] \in ToSet(c)
      BY <2>2, <1>11, <1>14
    <3>2. d - 1 = 0 \/ d - 1 \in 1 .. D
      BY <2>2
    <3>3. EndOf(o, p, d - 1) = EndOf(o, pos, d - 1)
      BY <3>2, <1>16
    <3>. QED
      BY <2>2, <3>1, <3>3, <1>10, <1>11, <1>13
  <2>. QED
    BY <2>1, <2>2, <1>15
<1>18. C \subseteq 1 .. i + 1
  BY <1>11, <1>14
<1>19. ASSUME NEW k \in 1 .. i + 1, IsSave(o, k), o[k].restore <= i + 1
       PROVE  k \in C <=> o[k].restore \in C
  <2>1. k \in 1 .. n
    BY <1>2
  <2>2. PICK j \in k + 1 .. n + 1 : j = o[k].restore /\ (j <= n => o[j].type = "restore")
    BY <2>1, <1>1, <1>2, <1>19 DEF WellNested
  <2>3. j # i + 1
    BY <2>2, <1>1, <1>3 DEF IsSave, SaveTypes
  <2>4. k \in 1 .. i /\ j <= i
    BY <2>2, <2>3, <1>19
  <2>5. k \in ToSet(c) <=> j \in ToSet(c)
    BY <2>2, <2>4, <1>11, <1>19
  <2>. QED
    BY <2>2, <2>4, <2>5, <1>14
<1>20. OpenAt(o, p, i + 1)
  BY <1>1, <1>2, <1>10, OpenNext DEF Scoped
<1>21. Scoped(o, targets, a, i + 1, p)
  BY <1>9, <1>10, <1>13, <1>14, <1>16, <1>17, <1>18, <1>19, <1>20 DEF Scoped
<1>. QED
  BY <1>1, <1>4, <1>6, <1>8, <1>9, <1>10, <1>21

\* What is at most the next place and is not that place is not beyond this one.
LEMMA NotBeyond ==
  ASSUME NEW i \in Nat, NEW j \in Nat, j <= i + 1, j # i + 1
  PROVE  j <= i
OBVIOUS

\* The restore of a save is replayed if the save was.
LEMMA ScopedRestore ==
  ASSUME NEW list, WellNested(list.ops), NEW targets, TargetsOf(list.ops, targets),
         NEW i \in Nat, i + 1 <= Len(list.ops), NEW r \in Replays(Len(list.ops)), NEW pos,
         Scoped(list.ops, targets, r, i, pos),
         NEW k \in 1 .. i, IsSave(list.ops, k), list.ops[k].restore = i + 1,
         NEW a, a = ReplayStep(list, targets, r, i + 1)
  PROVE  /\ Scoped(list.ops, targets, a, i + 1, Front(pos))
         /\ a.calls = IF k \in ToSet(r.calls) THEN Append(r.calls, i + 1) ELSE r.calls
<1>1. PICK o : o = list.ops /\ o \in Seq(Operation)
  BY DEF WellNested
<1>2. PICK n \in Nat, D \in Nat : n = Len(o) /\ D = Len(pos) /\ i + 1 <= n
  BY <1>1 DEF Scoped, OpenAt
<1>3. i + 1 \in 1 .. n /\ targets \in SUBSET (1 .. n)
  BY <1>1, <1>2 DEF TargetsOf
<1>4. PICK s \in Seq(Scope), e \in Nat, c \in Seq(1 .. n) :
          r = [saves |-> s, scopeEnd |-> e, calls |-> c]
  BY <1>1, <1>2 DEF Replays
<1>5. /\ Len(s) = D
      /\ \A d \in 1 .. D : /\ s[d].restore = o[pos[d]].restore
                           /\ s[d].needed <=> pos[d] \in ToSet(c)
                           /\ s[d].outer = EndOf(o, pos, d - 1)
                           /\ pos[d] \in ToSet(c) <=> Meets(targets, pos[d], o[pos[d]].restore)
                           /\ pos[d] \in 1 .. i
      /\ ToSet(c) \subseteq 1 .. i
      /\ \A m \in 1 .. i : (IsSave(o, m) /\ o[m].restore <= i)
                             => (m \in ToSet(c) <=> o[m].restore \in ToSet(c))
  BY <1>1, <1>2, <1>4 DEF Scoped, OpenAt
<1>6. \A m \in 1 .. i : (IsSave(o, m) /\ o[m].restore = i + 1)
         => /\ pos # <<>> /\ m = pos[D] /\ o[i + 1].type = "restore"
            /\ OpenAt(o, Front(pos), i + 1)
  <2>1. OpenAt(o, pos, i) /\ WellNested(o)
    BY <1>1 DEF Scoped
  <2>. QED
    BY <2>1, <1>1, <1>2, OpenNext
<1>7. pos # <<>> /\ k = pos[D] /\ o[i + 1].type = "restore" /\ OpenAt(o, Front(pos), i + 1)
  BY <1>1, <1>6
<1>8. D > 0 /\ pos \in Seq(Nat) /\ D \in 1 .. D /\ s # <<>>
  BY <1>2, <1>5, <1>7 DEF Scoped, OpenAt
<1>9. PICK needed \in BOOLEAN : needed <=> k \in ToSet(c)
  OBVIOUS
<1>10. PICK top \in Scope : /\ top = Top(s) /\ top = s[D] /\ top.restore = i + 1
                            /\ top.needed <=> needed
                            /\ top.outer = EndOf(o, pos, D - 1)
  <2>1. Top(s) = s[D] /\ Top(s) \in Scope
    BY <1>5, <1>8, Shortened
  <2>. QED
    BY <2>1, <1>1, <1>5, <1>7, <1>8, <1>9, SMTT(40)
<1>11. /\ a.saves = Front(s)
       /\ a.scopeEnd = EndOf(o, pos, D - 1)
       /\ a.calls = IF needed THEN Append(c, i + 1) ELSE c
  <2>1. /\ list.ops[i + 1].type = "restore" /\ list.ops \in Seq(Operation) /\ n = Len(list.ops)
        /\ r \in Replays(n)
    BY <1>1, <1>2, <1>7
  <2>2. IF r.saves # <<>> /\ Top(r.saves).restore = i + 1
        THEN /\ a.saves = Front(r.saves)
             /\ a.scopeEnd = Top(r.saves).outer
             /\ a.calls = IF Top(r.saves).needed THEN Append(r.calls, i + 1) ELSE r.calls
        ELSE a = r
    BY <2>1, <1>3, RestoreStep
  <2>3. r.saves = s /\ r.calls = c
    BY <1>4
  <2>. QED
    BY <2>2, <2>3, <1>8, <1>10
<1>12. PICK p : /\ p = Front(pos) /\ p \in Seq(Nat) /\ Len(p) = D - 1
                /\ \A d \in 1 .. D - 1 : p[d] = pos[d]
  <2>1. /\ Front(pos) \in Seq(Nat) /\ Len(Front(pos)) = Len(pos) - 1
        /\ \A d \in 1 .. Len(pos) - 1 : Front(pos)[d] = pos[d]
    BY <1>7, <1>8, Shortened
  <2>. QED
    BY <2>1, <1>2
<1>13. Len(a.saves) = D - 1 /\ \A d \in 1 .. D - 1 : a.saves[d] = s[d]
  <2>1. Len(Front(s)) = Len(s) - 1 /\ \A d \in 1 .. Len(s) - 1 : Front(s)[d] = s[d]
    BY <1>8, Shortened
  <2>. QED
    BY <2>1, <1>5, <1>11
<1>14. PICK C : /\ C = ToSet(a.calls)
                /\ C = IF needed THEN ToSet(c) \cup {i + 1} ELSE ToSet(c)
  <2>1. ToSet(Append(c, i + 1)) = ToSet(c) \cup {i + 1}
    BY <1>3, AppendedSet, SMTT(60)
  <2>. QED
    BY <2>1, <1>11
<1>15. \A d \in 0 .. D - 1 : EndOf(o, p, d) = EndOf(o, pos, d)
  <2>1. \A d \in 0 .. D - 1 : d = 0 \/ d \in 1 .. D - 1
    OBVIOUS
  <2>. QED
    BY <2>1, <1>12 DEF EndOf
<1>16. ASSUME NEW d \in 1 .. D - 1
       PROVE  /\ a.saves[d].restore = o[p[d]].restore
              /\ a.saves[d].needed <=> p[d] \in C
              /\ a.saves[d].outer = EndOf(o, p, d - 1)
              /\ p[d] \in C <=> Meets(targets, p[d], o[p[d]].restore)
  <2>1. d \in 1 .. D /\ d - 1 \in 0 .. D - 1
    OBVIOUS
  <2>2. pos[d] \in C <=> pos[d] \in ToSet(c)
    BY <2>1, <1>5, <1>14
  <2>. QED
    BY <2>1, <2>2, <1>5, <1>12, <1>13, <1>15
<1>17. C \subseteq 1 .. i + 1
  BY <1>5, <1>14, SMTT(40)
<1>18. ASSUME NEW m \in 1 .. i + 1, IsSave(o, m), o[m].restore <= i + 1
       PROVE  m \in C <=> o[m].restore \in C
  <2>1. m # i + 1
    BY <1>7, <1>18 DEF IsSave, SaveTypes
  <2>2. m \in 1 .. i /\ m \in 1 .. n
    <3>1. m \in Nat /\ 1 <= m /\ m <= i
      BY <2>1
    <3>2. i + 1 <= n
      BY <1>2
    <3>. QED
      BY <3>1, <3>2
  <2>3. PICK j \in Nat : j = o[m].restore /\ j <= i + 1
    BY <2>2, <1>1, <1>2, <1>18 DEF WellNested
  <2>4. CASE j = i + 1
    <3>1. m = k
      BY <2>2, <2>3, <2>4, <1>6, <1>7, <1>18
    <3>2. i + 1 \in C <=> needed
      BY <1>5, <1>14
    <3>3. m \in C <=> m \in ToSet(c)
      BY <2>2, <1>14
    <3>. QED
      BY <3>1, <3>2, <3>3, <2>3, <2>4, <1>9
  <2>5. CASE j # i + 1
    <3>1. j <= i
      BY <2>3, <2>5, NotBeyond, ZenonT(50)
    <3>2. m \in ToSet(c) <=> j \in ToSet(c)
      BY <2>2, <2>3, <3>1, <1>5, <1>18
    <3>. QED
      BY <3>2, <2>2, <2>3, <2>5, <1>14
  <2>. QED
    BY <2>4, <2>5
<1>19. D - 1 \in 0 .. D - 1
  BY <1>8
<1>20. Scoped(o, targets, a, i + 1, p)
  BY <1>7, <1>11, <1>12, <1>13, <1>14, <1>15, <1>16, <1>17, <1>18, <1>19 DEF Scoped
<1>. QED
  BY <1>1, <1>4, <1>9, <1>11, <1>12, <1>20

\* Other operations leave the scopes alone.
LEMMA ScopedOther ==
  ASSUME NEW list, WellNested(list.ops), NEW targets, TargetsOf(list.ops, targets),
         NEW i \in Nat, i + 1 <= Len(list.ops), NEW r \in Replays(Len(list.ops)), NEW pos,
         Scoped(list.ops, targets, r, i, pos), ~IsSave(list.ops, i + 1),
         \A k \in 1 .. i : IsSave(list.ops, k) => list.ops[k].restore # i + 1,
         NEW a, a = ReplayStep(list, targets, r, i + 1)
  PROVE  /\ Scoped(list.ops, targets, a, i + 1, pos)
         /\ list.ops[i + 1].type \in StateTypes =>
              a.calls = IF Meets(targets, i + 1, EndOf(list.ops, pos, Len(pos)))
                        THEN Append(r.calls, i + 1) ELSE r.calls
         /\ list.ops[i + 1].type \in DrawKinds =>
              a.calls = IF i + 1 \in targets THEN Append(r.calls, i + 1) ELSE r.calls
<1>1. PICK o : o = list.ops /\ o \in Seq(Operation)
  BY DEF WellNested
<1>2. PICK n \in Nat, D \in Nat : n = Len(o) /\ D = Len(pos) /\ i + 1 <= n
  BY <1>1 DEF Scoped, OpenAt
<1>3. i + 1 \in 1 .. n /\ targets \in SUBSET (1 .. n) /\ i \in 0 .. n
  BY <1>1, <1>2 DEF TargetsOf
<1>4. PICK s \in Seq(Scope), e \in Nat, c \in Seq(1 .. n) :
          r = [saves |-> s, scopeEnd |-> e, calls |-> c]
  BY <1>1, <1>2 DEF Replays
<1>5. /\ OpenAt(o, pos, i) /\ WellNested(o)
      /\ Len(s) = D
      /\ \A d \in 1 .. D : /\ s[d].restore = o[pos[d]].restore
                           /\ s[d].needed <=> pos[d] \in ToSet(c)
                           /\ s[d].outer = EndOf(o, pos, d - 1)
                           /\ pos[d] \in ToSet(c) <=> Meets(targets, pos[d], o[pos[d]].restore)
                           /\ pos[d] \in 1 .. i /\ IsSave(o, pos[d])
      /\ e = EndOf(o, pos, D)
      /\ ToSet(c) \subseteq 1 .. i
      /\ \A m \in 1 .. i : (IsSave(o, m) /\ o[m].restore <= i)
                             => (m \in ToSet(c) <=> o[m].restore \in ToSet(c))
  BY <1>1, <1>2, <1>4 DEF Scoped, OpenAt
<1>6. OpenAt(o, pos, i + 1)
  BY <1>1, <1>2, <1>5, OpenNext
<1>7. /\ list.ops \in Seq(Operation) /\ n = Len(list.ops) /\ r \in Replays(n)
      /\ r.saves = s /\ r.scopeEnd = e /\ r.calls = c
  BY <1>1, <1>2, <1>4
<1>8. PICK op \in Operation : op = o[i + 1]
  BY <1>1, <1>2, <1>3
<1>9. e \in Nat /\ e <= n + 2
  <2>1. D \in 0 .. D
    OBVIOUS
  <2>. QED
    BY <2>1, <1>2, <1>3, <1>5, EndIs
<1>10. /\ a.saves = s /\ a.scopeEnd = e
       /\ a.calls = c \/ a.calls = Append(c, i + 1)
       /\ op.type \in StateTypes =>
            a.calls = IF Meets(targets, i + 1, e) THEN Append(c, i + 1) ELSE c
       /\ op.type \in DrawKinds =>
            a.calls = IF i + 1 \in targets THEN Append(c, i + 1) ELSE c
  <2>1. CASE op.type = "restore"
    <3>1. s # <<>> => Top(s).restore # i + 1
      <4>. SUFFICES ASSUME s # <<>> PROVE Top(s).restore # i + 1
        OBVIOUS
      <4>1. D > 0 /\ Top(s) = s[D]
        BY <1>5, Shortened
      <4>2. D \in 1 .. D
        BY <4>1
      <4>3. PICK m \in 1 .. i : m = pos[D] /\ IsSave(o, m) /\ s[D].restore = o[m].restore
        BY <4>2, <1>5
      <4>4. o[m].restore # i + 1
        BY <4>3, <1>1
      <4>. QED
        BY <4>1, <4>3, <4>4
    <3>2. IF r.saves # <<>> /\ Top(r.saves).restore = i + 1
          THEN /\ a.saves = Front(r.saves)
               /\ a.scopeEnd = Top(r.saves).outer
               /\ a.calls = IF Top(r.saves).needed THEN Append(r.calls, i + 1) ELSE r.calls
          ELSE a = r
      <4>1. list.ops[i + 1].type = "restore"
        BY <2>1, <1>1, <1>8
      <4>. QED
        BY <4>1, <1>3, <1>7, RestoreStep, SMTT(60)
    <3>3. a = r
      BY <3>1, <3>2, <1>7
    <3>. QED
      BY <3>3, <2>1, <1>7 DEF StateTypes, DrawKinds
  <2>2. CASE op.type \in StateTypes
    <3>1. /\ a.saves = r.saves /\ a.scopeEnd = r.scopeEnd
          /\ a.calls = IF NextTarget(list, targets, i + 1) < r.scopeEnd
                       THEN Append(r.calls, i + 1) ELSE r.calls
      <4>1. list.ops[i + 1].type \in StateTypes
        BY <2>2, <1>1, <1>8
      <4>. QED
        BY <4>1, <1>3, <1>7, StateStep, SMTT(60)
    <3>2. i + 1 \notin targets
      BY <2>2, <1>1, <1>8 DEF TargetsOf, StateTypes, DrawKinds
    <3>3. (NextTarget(list, targets, i + 1) < e) <=> Meets(targets, i + 1, e)
      BY <3>2, <1>1, <1>3, <1>7, <1>9, NextBefore
    <3>4. op.type \notin DrawKinds
      BY <2>2 DEF StateTypes, DrawKinds
    <3>. QED
      BY <3>1, <3>3, <3>4, <1>7
  <2>3. CASE op.type \in DrawKinds
    <3>1. /\ a.saves = r.saves /\ a.scopeEnd = r.scopeEnd
          /\ a.calls = IF i + 1 = NextTarget(list, targets, i + 1)
                       THEN Append(r.calls, i + 1) ELSE r.calls
      <4>1. list.ops[i + 1].type \in DrawKinds
        BY <2>3, <1>1, <1>8
      <4>. QED
        BY <4>1, <1>3, <1>7, DrawStep, SMTT(60)
    <3>2. (i + 1 = NextTarget(list, targets, i + 1)) <=> i + 1 \in targets
      BY <1>1, <1>3, <1>7, <1>9, NextBefore
    <3>3. op.type \notin StateTypes
      BY <2>3 DEF StateTypes, DrawKinds
    <3>. QED
      BY <3>1, <3>2, <3>3, <1>7
  <2>4. op.type \notin SaveTypes
    BY <1>1, <1>8 DEF IsSave
  <2>. QED
    BY <2>1, <2>2, <2>3, <2>4 DEF Operation, Kinds
<1>11. PICK C : /\ C = ToSet(a.calls) /\ C \subseteq ToSet(c) \cup {i + 1} /\ ToSet(c) \subseteq C
  <2>1. ToSet(Append(c, i + 1)) = ToSet(c) \cup {i + 1}
    BY <1>3, AppendedSet
  <2>. QED
    BY <2>1, <1>10
<1>12. \A m \in 1 .. i : m \in C <=> m \in ToSet(c)
  <2>1. \A m \in 1 .. i : m # i + 1
    OBVIOUS
  <2>. QED
    BY <2>1, <1>11
<1>13. \A d \in 1 .. D : /\ a.saves[d].restore = o[pos[d]].restore
                         /\ a.saves[d].needed <=> pos[d] \in C
                         /\ a.saves[d].outer = EndOf(o, pos, d - 1)
                         /\ pos[d] \in C <=> Meets(targets, pos[d], o[pos[d]].restore)
  BY <1>5, <1>10, <1>12
<1>14. C \subseteq 1 .. i + 1
  <2>1. \A x \in C : x = i + 1 \/ x \in 1 .. i
    BY <1>5, <1>11
  <2>2. \A x \in 1 .. i : x \in 1 .. i + 1
    OBVIOUS
  <2>. QED
    BY <2>1, <2>2
<1>15. ASSUME NEW m \in 1 .. i + 1, IsSave(o, m), o[m].restore <= i + 1
       PROVE  m \in C <=> o[m].restore \in C
  <2>1. m # i + 1
    BY <1>1, <1>15
  <2>2. m \in 1 .. i /\ m \in 1 .. n
    BY <2>1, <1>2
  <2>3. PICK j \in Nat : j = o[m].restore /\ j <= i + 1 /\ j \in m + 1 .. n + 1
    BY <2>2, <1>2, <1>5, <1>15 DEF WellNested
  <2>4. j # i + 1
    BY <2>2, <2>3, <1>1, <1>15
  <2>5. j \in 1 .. i
    <3>1. \A x \in Nat, y \in m + 1 .. n + 1 : (y = x /\ x <= i + 1 /\ x # i + 1) => x \in 1 .. i
      BY <2>2
    <3>. QED
      BY <3>1, <2>3, <2>4
  <2>6. m \in ToSet(c) <=> j \in ToSet(c)
    BY <2>2, <2>3, <2>5, <1>5, <1>15
  <2>. QED
    BY <2>2, <2>3, <2>5, <2>6, <1>12
<1>16. Scoped(o, targets, a, i + 1, pos)
  BY <1>2, <1>5, <1>6, <1>10, <1>11, <1>13, <1>14, <1>15 DEF Scoped
<1>. QED
  BY <1>1, <1>2, <1>5, <1>7, <1>8, <1>10, <1>16

-----------------------------------------------------------------------------
(* What a replay shows                                                     *)

\* The levels of the canvas after a call.
ScreenAs(r, m, op, i, a) ==
    /\ a \in Screens /\ Len(a.stack) \in Nat /\ m > 0
    /\ op.type \in SaveTypes =>
         /\ Len(a.stack) = m + 1 /\ \A l \in 1 .. m : a.stack[l] = r.stack[l]
         /\ a.stack[m + 1] = Pushed(r.stack[m], op, TRUE)
         /\ a.pixels = r.pixels /\ a.moved = r.moved
    /\ op.type = "restore" =>
         /\ Len(a.stack) = IF m > 1 THEN m - 1 ELSE m
         /\ \A l \in 1 .. Len(a.stack) : a.stack[l] = r.stack[l]
         /\ a.pixels = r.pixels /\ a.moved = r.moved
    /\ op.type \in StateTypes =>
         /\ Len(a.stack) = m /\ \A l \in 1 .. m - 1 : a.stack[l] = r.stack[l]
         /\ a.stack[m] = Changed(r.stack[m], op, TRUE)
         /\ a.pixels = r.pixels /\ a.moved = r.moved
    /\ op.type \in DrawKinds =>
         /\ a.stack = r.stack
         /\ a.pixels = r.pixels \cup ({i} \X Filled(op, r.stack[m]))
         /\ a.moved = r.moved \cup (IF r.stack[m].matrix = 0 THEN {} ELSE {i})

\* A call changes the levels of the screen as ScreenAs says.
LEMMA ScreenStep ==
  ASSUME NEW list, list.ops \in Seq(Operation), NEW i \in 1 .. Len(list.ops),
         NEW r \in Screens, NEW a, a = Paint(list, r, i),
         NEW m \in Nat, m = Len(r.stack), NEW op, op = list.ops[i]
  PROVE  ScreenAs(r, m, op, i, a)
<1>. USE DEF ScreenAs
<1>1. op \in Operation
  OBVIOUS
<1>2. PICK s \in Stacks : s = r.stack
  BY DEF Screens
<1>3. a \in Screens /\ PaintedAs(r, op, i, a)
  BY PaintStep
<1>4. PICK t : t = Called(s, op, TRUE) /\ CalledAs(s, op, TRUE, t)
  BY <1>1, CalledLevels
<1>5. /\ Len(t) \in Nat /\ m > 0
      /\ op.type \in SaveTypes =>
           /\ Len(t) = m + 1 /\ \A l \in 1 .. m : t[l] = s[l]
           /\ t[Len(t)] = Pushed(s[m], op, TRUE)
      /\ op.type = "restore" => /\ Len(t) = IF m > 1 THEN m - 1 ELSE m
                                /\ \A l \in 1 .. Len(t) : t[l] = s[l]
      /\ op.type \in StateTypes =>
           /\ Len(t) = m /\ \A l \in 1 .. m - 1 : t[l] = s[l]
           /\ t[Len(t)] = Changed(s[m], op, TRUE)
  BY <1>2, <1>4 DEF CalledAs
<1>6. CASE op.type \in DrawKinds
  <2>1. Top(r.stack) = r.stack[m]
    BY DEF Top
  <2>2. op.type \notin SaveTypes /\ op.type # "restore" /\ op.type \notin StateTypes
    BY <1>6 DEF SaveTypes, StateTypes, DrawKinds
  <2>. QED
    BY <2>1, <2>2, <1>3, <1>5, <1>6 DEF PaintedAs
<1>7. CASE op.type \notin DrawKinds
  <2>1. a.stack = t /\ a.pixels = r.pixels /\ a.moved = r.moved
    BY <1>2, <1>3, <1>4, <1>7 DEF PaintedAs
  <2>. QED
    BY <2>1, <1>2, <1>3, <1>5, <1>7
<1>. QED
  BY <1>6, <1>7

\* full and shown agree on the levels of the scopes that hold another target,
\* and on what the targets paint.
Agree(o, targets, calls, i, pos, full, shown) ==
    /\ full \in Screens /\ shown \in Screens
    /\ Len(full.stack) = Len(pos) + 1
    /\ Len(shown.stack) <= Len(pos) + 1
    /\ \A d \in 1 .. Len(pos) : pos[d] \in ToSet(calls) <=> d < Len(shown.stack)
    /\ \A l \in 0 .. Len(pos) : Meets(targets, i, EndOf(o, pos, l)) =>
          l < Len(shown.stack) /\ shown.stack[l + 1] = full.stack[l + 1]
    /\ \A t \in targets, p \in Int :
          t <= i => (<<t, p>> \in shown.pixels <=> <<t, p>> \in full.pixels)
    /\ \A t, p : <<t, p>> \in shown.pixels => t \in targets
    /\ \A t, p : <<t, p>> \in shown.pixels \cup full.pixels => t <= i

\* What is met later is met from here on.
LEMMA MeetsEarlier ==
  ASSUME NEW targets, NEW o, TargetsOf(o, targets), NEW i \in Nat, NEW e, Meets(targets, i + 1, e)
  PROVE  Meets(targets, i, e)
  BY DEF Meets, TargetsOf

\* A save keeps the agreement, whether it is called or left out.
LEMMA AgreeSave ==
  ASSUME NEW list, WellNested(list.ops), NEW targets, TargetsOf(list.ops, targets),
         NEW i \in Nat, i + 1 <= Len(list.ops), NEW calls \in Seq(1 .. Len(list.ops)), NEW pos,
         OpenAt(list.ops, pos, i), IsSave(list.ops, i + 1),
         NEW full, NEW shown, Agree(list.ops, targets, calls, i, pos, full, shown),
         NEW needed \in BOOLEAN,
         needed <=> Meets(targets, i + 1, list.ops[i + 1].restore),
         ToSet(calls) \subseteq 1 .. i
  PROVE  Agree(list.ops, targets, IF needed THEN Append(calls, i + 1) ELSE calls, i + 1,
               Append(pos, i + 1), Paint(list, full, i + 1),
               IF needed THEN Paint(list, shown, i + 1) ELSE shown)
<1>1. PICK o : o = list.ops /\ o \in Seq(Operation)
  BY DEF WellNested
<1>2. PICK n \in Nat, D \in Nat : n = Len(o) /\ D = Len(pos) /\ i + 1 <= n /\ pos \in Seq(Nat)
  <2>1. pos \in Seq(Nat)
    BY DEF OpenAt
  <2>2. Len(o) \in Nat /\ Len(pos) \in Nat /\ i + 1 <= Len(o)
    BY <1>1, <2>1
  <2>. QED
    BY <2>1, <2>2
<1>3. PICK j \in 1 .. n : j = i + 1 /\ j = 1 + i
  BY <1>2
<1>4. PICK op \in Operation : op = o[j] /\ op.type \in SaveTypes
  BY <1>1, <1>2, <1>3 DEF IsSave
<1>5. PICK end \in Nat : end = op.restore /\ end > j /\ end <= n + 1
  BY <1>1, <1>2, <1>3, <1>4 DEF WellNested, IsSave
<1>6. PICK p : /\ p = Append(pos, j) /\ Len(p) = D + 1 /\ p[D + 1] = j
               /\ \A d \in 1 .. D : p[d] = pos[d]
  <2>1. /\ Len(Append(pos, j)) = Len(pos) + 1
        /\ Append(pos, j)[Len(pos) + 1] = j
        /\ \A d \in 1 .. Len(pos) : Append(pos, j)[d] = pos[d]
    BY <1>2, Appended
  <2>. QED
    BY <2>1, <1>2
<1>7. PICK m \in Nat, M \in Nat : /\ m = Len(shown.stack) /\ M = Len(full.stack)
                                /\ M = D + 1 /\ m <= D + 1
                                  /\ full \in Screens /\ shown \in Screens
  <2>1. /\ full \in Screens /\ shown \in Screens
        /\ Len(full.stack) = D + 1 /\ Len(shown.stack) <= D + 1
    BY <1>2 DEF Agree
  <2>2. Len(shown.stack) \in Nat
    BY <2>1 DEF Screens, Stacks
  <2>. QED
    BY <2>1, <2>2
<1>8. /\ \A d \in 1 .. D : pos[d] \in ToSet(calls) <=> d < m
      /\ \A l \in 0 .. D : Meets(targets, i, EndOf(o, pos, l)) =>
            l < m /\ shown.stack[l + 1] = full.stack[l + 1]
      /\ \A t \in targets, x \in Int :
            t <= i => (<<t, x>> \in shown.pixels <=> <<t, x>> \in full.pixels)
      /\ \A t, x : <<t, x>> \in shown.pixels => t \in targets
      /\ \A t, x : <<t, x>> \in shown.pixels \cup full.pixels => t <= i
  BY <1>1, <1>2, <1>7 DEF Agree
<1>9. PICK F : /\ F = Paint(list, full, j) /\ F \in Screens
               /\ Len(F.stack) = M + 1 /\ \A l \in 1 .. M : F.stack[l] = full.stack[l]
               /\ F.stack[M + 1] = Pushed(full.stack[M], op, TRUE)
               /\ F.pixels = full.pixels
  <2>1. ScreenAs(full, M, op, j, Paint(list, full, j))
    BY <1>1, <1>2, <1>4, <1>7, ScreenStep
  <2>. QED
    BY <2>1, <1>4 DEF ScreenAs
<1>10. PICK P : /\ P = Paint(list, shown, j) /\ P \in Screens
                /\ Len(P.stack) = m + 1 /\ \A l \in 1 .. m : P.stack[l] = shown.stack[l]
                /\ P.stack[m + 1] = Pushed(shown.stack[m], op, TRUE)
                /\ P.pixels = shown.pixels
  <2>1. ScreenAs(shown, m, op, j, Paint(list, shown, j))
    BY <1>1, <1>2, <1>4, <1>7, ScreenStep
  <2>. QED
    BY <2>1, <1>4 DEF ScreenAs
<1>11. needed => /\ Meets(targets, i, EndOf(o, pos, D))
                 /\ m = D + 1 /\ shown.stack[D + 1] = full.stack[D + 1]
  <2>. SUFFICES ASSUME needed
                PROVE  /\ Meets(targets, i, EndOf(o, pos, D))
                       /\ m = D + 1 /\ shown.stack[D + 1] = full.stack[D + 1]
    OBVIOUS
  <2>1. PICK t \in targets : j < t /\ t < end
    BY <1>1, <1>3, <1>4, <1>5 DEF Meets
  <2>2. t \in Nat
    BY <1>1, <1>2 DEF TargetsOf
  <2>3. end <= EndOf(o, pos, D)
    <3>1. CASE D = 0
      BY <3>1, <1>2, <1>5 DEF EndOf
    <3>2. CASE D # 0
      <4>1. PICK k \in 1 .. i : k = pos[D] /\ k \in 1 .. n /\ IsSave(o, k) /\ o[k].restore > i
        <5>1. D \in 1 .. D
          BY <3>2
        <5>2. pos[D] \in 1 .. i /\ IsSave(o, pos[D]) /\ o[pos[D]].restore > i
          BY <5>1, <1>1, <1>2 DEF OpenAt
        <5>3. \A x \in 1 .. i : x \in 1 .. n
          BY <1>2
        <5>. QED
          BY <5>2, <5>3
      <4>2. PICK f \in Nat : /\ f = o[k].restore /\ f > i
                             /\ f <= n => o[f].type = "restore"
        <5>1. o[k].restore \in k + 1 .. n + 1 /\ (o[k].restore <= n => o[o[k].restore].type = "restore")
          BY <4>1, <1>1, <1>2 DEF WellNested
        <5>2. \A x \in k + 1 .. n + 1 : x \in Nat
          OBVIOUS
        <5>. QED
          BY <5>1, <5>2, <4>1
      <4>3. f # j
        BY <4>2, <1>2, <1>3, <1>4 DEF SaveTypes
      <4>4. k < j /\ j < f
        BY <4>1, <4>2, <4>3, <1>3
      <4>5. end <= f
        BY <4>1, <4>2, <4>4, <1>1, <1>2, <1>4, <1>5 DEF WellNested, IsSave
      <4>. QED
        BY <4>1, <4>2, <4>5, <3>2 DEF EndOf
    <3>. QED
      BY <3>1, <3>2
  <2>4. EndOf(o, pos, D) \in Nat
    <3>1. i \in 0 .. n /\ D \in 0 .. D
      BY <1>2
    <3>. QED
      BY <3>1, <1>1, <1>2, EndIs
  <2>5. i < t /\ t < EndOf(o, pos, D)
    BY <2>1, <2>2, <2>3, <2>4, <1>3
  <2>6. Meets(targets, i, EndOf(o, pos, D)) /\ D \in 0 .. D
    BY <2>5 DEF Meets
  <2>7. D < m /\ shown.stack[D + 1] = full.stack[D + 1]
    BY <2>6, <1>8
  <2>. QED
    BY <2>6, <2>7, <1>7
<1>12. PICK S : /\ S = IF needed THEN P ELSE shown
                /\ S \in Screens /\ S.pixels = shown.pixels
                /\ Len(S.stack) = IF needed THEN D + 2 ELSE m
                /\ \A l \in 1 .. m : S.stack[l] = shown.stack[l]
                /\ needed => S.stack[D + 2] = F.stack[D + 2]
  <2>1. CASE needed
    <3>1. /\ m = D + 1 /\ M = D + 1 /\ shown.stack[m] = full.stack[M]
          /\ m + 1 = D + 2 /\ M + 1 = D + 2
      BY <2>1, <1>7, <1>11
    <3>2. P.stack[D + 2] = F.stack[D + 2] /\ Len(P.stack) = D + 2
      BY <3>1, <1>9, <1>10
    <3>. QED
      BY <2>1, <3>2, <1>10
  <2>2. CASE ~needed
    BY <2>2, <1>7
  <2>. QED
    BY <2>1, <2>2
<1>13. PICK C : /\ C = ToSet(IF needed THEN Append(calls, j) ELSE calls)
                /\ C = IF needed THEN ToSet(calls) \cup {j} ELSE ToSet(calls)
  <2>1. needed => ToSet(Append(calls, j)) = ToSet(calls) \cup {j}
    BY <1>1, <1>2, AppendedSet
  <2>. QED
    BY <2>1
<1>14. ASSUME NEW d \in 1 .. D + 1 PROVE p[d] \in C <=> d < Len(S.stack)
  <2>1. CASE d = D + 1
    <3>1. j \notin ToSet(calls)
      BY <1>3
    <3>. QED
      BY <2>1, <3>1, <1>6, <1>7, <1>12, <1>13
  <2>2. CASE d # D + 1
    <3>1. d \in 1 .. D
      BY <2>2
    <3>2. p[d] = pos[d] /\ pos[d] \in 1 .. i
      BY <3>1, <1>1, <1>2, <1>6 DEF OpenAt
    <3>3. p[d] \in C <=> pos[d] \in ToSet(calls)
      BY <3>2, <1>3, <1>13
    <3>. QED
      BY <3>1, <3>3, <1>8, <1>11, <1>12
  <2>. QED
    BY <2>1, <2>2
<1>15. ASSUME NEW l \in 0 .. D + 1, Meets(targets, i + 1, EndOf(o, p, l))
       PROVE  l < Len(S.stack) /\ S.stack[l + 1] = F.stack[l + 1]
  <2>1. CASE l = D + 1
    <3>1. EndOf(o, p, l) = end
      BY <2>1, <1>1, <1>4, <1>5, <1>6 DEF EndOf
    <3>2. needed
      BY <3>1, <1>1, <1>3, <1>4, <1>5, <1>15
    <3>. QED
      BY <2>1, <3>2, <1>12
  <2>2. CASE l # D + 1
    <3>1. l \in 0 .. D
      BY <2>2
    <3>2. EndOf(o, p, l) = EndOf(o, pos, l)
      BY <3>1, <1>6 DEF EndOf
    <3>3. Meets(targets, i, EndOf(o, pos, l))
      BY <3>2, <1>1, <1>15, MeetsEarlier
    <3>4. l < m /\ shown.stack[l + 1] = full.stack[l + 1]
      BY <3>1, <3>3, <1>8
    <3>5. l + 1 \in 1 .. m /\ l + 1 \in 1 .. M
      BY <3>1, <3>4, <1>7
    <3>6. S.stack[l + 1] = F.stack[l + 1]
      BY <3>4, <3>5, <1>9, <1>12
    <3>7. l < Len(S.stack)
      BY <3>1, <3>4, <1>11, <1>12
    <3>. QED
      BY <3>6, <3>7
  <2>. QED
    BY <2>1, <2>2
<1>16. /\ \A t \in targets, x \in Int :
            t <= i + 1 => (<<t, x>> \in S.pixels <=> <<t, x>> \in F.pixels)
       /\ \A t, x : <<t, x>> \in S.pixels => t \in targets
       /\ \A t, x : <<t, x>> \in S.pixels \cup F.pixels => t <= i + 1
  <2>1. ASSUME NEW t \in targets, t <= i + 1 PROVE t <= i
    <3>1. t \in Nat /\ o[t].type \in DrawKinds
      BY <1>1, <1>2 DEF TargetsOf
    <3>2. t # j
      BY <3>1, <1>4 DEF SaveTypes, DrawKinds
    <3>. QED
      BY <3>1, <3>2, <2>1, <1>3
  <2>2. \A t, x : <<t, x>> \in S.pixels \cup F.pixels => t <= i + 1
    <3>1. \A t, x : <<t, x>> \in S.pixels \cup F.pixels => t \in Nat /\ t <= i
      BY <1>7, <1>8, <1>9, <1>12 DEF Screens
    <3>2. \A t \in Nat : t <= i => t <= i + 1
      OBVIOUS
    <3>. QED
      BY <3>1, <3>2
  <2>. QED
    BY <2>1, <2>2, <1>8, <1>9, <1>12
<1>17. Agree(o, targets, IF needed THEN Append(calls, j) ELSE calls, i + 1, p, F, S)
  BY <1>6, <1>7, <1>9, <1>12, <1>13, <1>14, <1>15, <1>16 DEF Agree
<1>. QED
  BY <1>1, <1>3, <1>6, <1>9, <1>10, <1>12, <1>17

\* So does the restore of a save, which is called if its save was.
LEMMA AgreeRestore ==
  ASSUME NEW list, WellNested(list.ops), NEW targets, TargetsOf(list.ops, targets),
         NEW i \in Nat, i + 1 <= Len(list.ops), NEW calls \in Seq(1 .. Len(list.ops)), NEW pos,
         OpenAt(list.ops, pos, i), list.ops[i + 1].type = "restore",
         NEW full, NEW shown, Agree(list.ops, targets, calls, i, pos, full, shown),
         pos # <<>>, NEW needed \in BOOLEAN, needed <=> pos[Len(pos)] \in ToSet(calls)
  PROVE  Agree(list.ops, targets, IF needed THEN Append(calls, i + 1) ELSE calls, i + 1,
               Front(pos), Paint(list, full, i + 1),
               IF needed THEN Paint(list, shown, i + 1) ELSE shown)
<1>1. PICK o : o = list.ops /\ o \in Seq(Operation)
  BY DEF WellNested
<1>2. PICK n \in Nat, D \in Nat : n = Len(o) /\ D = Len(pos) /\ i + 1 <= n /\ pos \in Seq(Nat)
  <2>1. pos \in Seq(Nat)
    BY DEF OpenAt
  <2>2. Len(o) \in Nat /\ Len(pos) \in Nat /\ i + 1 <= Len(o)
    BY <1>1, <2>1
  <2>. QED
    BY <2>1, <2>2
<1>3. PICK j \in 1 .. n : j = i + 1 /\ j = 1 + i
  BY <1>2
<1>4. PICK op \in Operation : op = o[j] /\ op.type = "restore"
  BY <1>1, <1>2, <1>3
<1>5. D > 0 /\ D \in 1 .. D
  BY <1>2
<1>6. PICK p : /\ p = Front(pos) /\ Len(p) = D - 1
               /\ \A d \in 1 .. D - 1 : p[d] = pos[d]
  <2>1. /\ Len(Front(pos)) = Len(pos) - 1
        /\ \A d \in 1 .. Len(pos) - 1 : Front(pos)[d] = pos[d]
    BY <1>2, Shortened
  <2>. QED
    BY <2>1, <1>2
<1>7. PICK m \in Nat, M \in Nat : /\ m = Len(shown.stack) /\ M = Len(full.stack)
                                /\ M = D + 1 /\ m <= D + 1
                                  /\ full \in Screens /\ shown \in Screens
  <2>1. /\ full \in Screens /\ shown \in Screens
        /\ Len(full.stack) = D + 1 /\ Len(shown.stack) <= D + 1
    BY <1>2 DEF Agree
  <2>2. Len(shown.stack) \in Nat
    BY <2>1 DEF Screens, Stacks
  <2>. QED
    BY <2>1, <2>2
<1>8. /\ \A d \in 1 .. D : pos[d] \in ToSet(calls) <=> d < m
      /\ \A l \in 0 .. D : Meets(targets, i, EndOf(o, pos, l)) =>
            l < m /\ shown.stack[l + 1] = full.stack[l + 1]
      /\ \A t \in targets, x \in Int :
            t <= i => (<<t, x>> \in shown.pixels <=> <<t, x>> \in full.pixels)
      /\ \A t, x : <<t, x>> \in shown.pixels => t \in targets
      /\ \A t, x : <<t, x>> \in shown.pixels \cup full.pixels => t <= i
  BY <1>1, <1>2, <1>7 DEF Agree
<1>9. needed <=> m = D + 1
  BY <1>2, <1>5, <1>7, <1>8
<1>10. PICK F : /\ F = Paint(list, full, j) /\ F \in Screens
                /\ Len(F.stack) = D /\ \A l \in 1 .. D : F.stack[l] = full.stack[l]
                /\ F.pixels = full.pixels
  <2>1. PICK F : F = Paint(list, full, j)
    OBVIOUS
  <2>2. ScreenAs(full, M, op, j, F)
    BY <2>1, <1>1, <1>2, <1>4, <1>7, ScreenStep
  <2>3. M > 1 /\ M - 1 = D
    BY <1>5, <1>7
  <2>4. F \in Screens /\ F.pixels = full.pixels /\ Len(F.stack) = M - 1
        /\ \A l \in 1 .. Len(F.stack) : F.stack[l] = full.stack[l]
    BY <2>2, <2>3, <1>4 DEF ScreenAs
  <2>. QED
    BY <2>1, <2>3, <2>4
<1>11. PICK S : /\ S = IF needed THEN Paint(list, shown, j) ELSE shown
                /\ S \in Screens /\ S.pixels = shown.pixels
                /\ Len(S.stack) = IF needed THEN D ELSE m
                /\ \A l \in 1 .. Len(S.stack) : S.stack[l] = shown.stack[l]
  <2>1. ScreenAs(shown, m, op, j, Paint(list, shown, j))
    BY <1>1, <1>2, <1>4, <1>7, ScreenStep
  <2>2. CASE needed
    <3>1. /\ Paint(list, shown, j) \in Screens /\ Paint(list, shown, j).pixels = shown.pixels
          /\ Len(Paint(list, shown, j).stack) = D
          /\ \A l \in 1 .. D : Paint(list, shown, j).stack[l] = shown.stack[l]
      BY <2>1, <2>2, <1>4, <1>5, <1>9 DEF ScreenAs
    <3>. QED
      BY <3>1, <2>2
  <2>3. CASE ~needed
    BY <2>3, <1>7
  <2>. QED
    BY <2>2, <2>3
<1>12. Len(S.stack) <= D /\ \A d \in 1 .. D - 1 : d < m <=> d < Len(S.stack)
  BY <1>7, <1>9, <1>11
<1>13. PICK C : /\ C = ToSet(IF needed THEN Append(calls, j) ELSE calls)
                /\ C = IF needed THEN ToSet(calls) \cup {j} ELSE ToSet(calls)
  <2>1. needed => ToSet(Append(calls, j)) = ToSet(calls) \cup {j}
    BY <1>1, <1>2, AppendedSet, SMTT(40)
  <2>. QED
    BY <2>1
<1>14. ASSUME NEW d \in 1 .. D - 1 PROVE p[d] \in C <=> d < Len(S.stack)
  <2>1. d \in 1 .. D
    OBVIOUS
  <2>2. p[d] = pos[d] /\ pos[d] \in 1 .. i
    BY <2>1, <1>1, <1>2, <1>6 DEF OpenAt
  <2>3. p[d] \in C <=> pos[d] \in ToSet(calls)
    BY <2>2, <1>3, <1>13
  <2>. QED
    BY <2>1, <2>3, <1>8, <1>12
<1>15. ASSUME NEW l \in 0 .. D - 1, Meets(targets, i + 1, EndOf(o, p, l))
       PROVE  l < Len(S.stack) /\ S.stack[l + 1] = F.stack[l + 1]
  <2>1. l \in 0 .. D /\ l + 1 \in 1 .. D
    OBVIOUS
  <2>2. EndOf(o, p, l) = EndOf(o, pos, l)
    <3>1. l = 0 \/ l \in 1 .. D - 1
      OBVIOUS
    <3>. QED
      BY <3>1, <1>6 DEF EndOf
  <2>3. Meets(targets, i, EndOf(o, pos, l))
    BY <2>2, <1>1, <1>15, MeetsEarlier
  <2>4. l < m /\ shown.stack[l + 1] = full.stack[l + 1]
    BY <2>1, <2>3, <1>8
  <2>5. l < Len(S.stack)
    BY <2>1, <2>4, <1>9, <1>11
  <2>6. S.stack[l + 1] = shown.stack[l + 1]
    <3>1. Len(S.stack) \in Nat
      BY <1>7, <1>11
    <3>2. l + 1 \in 1 .. Len(S.stack)
      BY <3>1, <2>1, <2>5
    <3>. QED
      BY <3>2, <1>11
  <2>. QED
    BY <2>1, <2>4, <2>5, <2>6, <1>10
<1>16. /\ \A t \in targets, x \in Int :
            t <= i + 1 => (<<t, x>> \in S.pixels <=> <<t, x>> \in F.pixels)
       /\ \A t, x : <<t, x>> \in S.pixels => t \in targets
       /\ \A t, x : <<t, x>> \in S.pixels \cup F.pixels => t <= i + 1
  <2>1. ASSUME NEW t \in targets, t <= i + 1 PROVE t <= i
    <3>1. t \in Nat /\ o[t].type \in DrawKinds
      BY <1>1, <1>2 DEF TargetsOf
    <3>2. t # j
      BY <3>1, <1>4 DEF DrawKinds
    <3>. QED
      BY <3>1, <3>2, <2>1, <1>3
  <2>2. \A t, x : <<t, x>> \in S.pixels \cup F.pixels => t <= i + 1
    <3>1. \A t, x : <<t, x>> \in S.pixels \cup F.pixels => t \in Nat /\ t <= i
      BY <1>7, <1>8, <1>10, <1>11 DEF Screens
    <3>2. \A t \in Nat : t <= i => t <= i + 1
      OBVIOUS
    <3>. QED
      BY <3>1, <3>2
  <2>. QED
    BY <2>1, <2>2, <1>8, <1>10, <1>11
<1>17. Agree(o, targets, IF needed THEN Append(calls, j) ELSE calls, i + 1, p, F, S)
  <2>1. /\ Len(F.stack) = Len(p) + 1 /\ Len(S.stack) <= Len(p) + 1
        /\ Len(p) = D - 1
    BY <1>5, <1>6, <1>10, <1>12
  <2>. QED
    BY <2>1, <1>10, <1>11, <1>13, <1>14, <1>15, <1>16 DEF Agree
<1>. QED
  BY <1>1, <1>3, <1>6, <1>10, <1>11, <1>17

\* A call of the state is made for as long as its scope holds a target, and a
\* draw if it is one.
LEMMA AgreeOther ==
  ASSUME NEW list, WellNested(list.ops), NEW targets, TargetsOf(list.ops, targets),
         NEW i \in Nat, i + 1 <= Len(list.ops), NEW calls \in Seq(1 .. Len(list.ops)), NEW pos,
         OpenAt(list.ops, pos, i), OpenAt(list.ops, pos, i + 1),
         list.ops[i + 1].type \in StateTypes \cup DrawKinds,
         NEW full, NEW shown, Agree(list.ops, targets, calls, i, pos, full, shown),
         NEW needed \in BOOLEAN,
         list.ops[i + 1].type \in StateTypes =>
            (needed <=> Meets(targets, i + 1, EndOf(list.ops, pos, Len(pos)))),
         list.ops[i + 1].type \in DrawKinds => (needed <=> i + 1 \in targets)
  PROVE  Agree(list.ops, targets, IF needed THEN Append(calls, i + 1) ELSE calls, i + 1,
               pos, Paint(list, full, i + 1),
               IF needed THEN Paint(list, shown, i + 1) ELSE shown)
<1>1. PICK o : o = list.ops /\ o \in Seq(Operation)
  BY DEF WellNested
<1>2. PICK n \in Nat, D \in Nat : n = Len(o) /\ D = Len(pos) /\ i + 1 <= n /\ pos \in Seq(Nat)
  <2>1. pos \in Seq(Nat)
    BY DEF OpenAt
  <2>2. Len(o) \in Nat /\ Len(pos) \in Nat /\ i + 1 <= Len(o)
    BY <1>1, <2>1
  <2>. QED
    BY <2>1, <2>2
<1>3. PICK j \in 1 .. n : j = i + 1 /\ j = 1 + i
  BY <1>2
<1>4. PICK op \in Operation : op = o[j] /\ op.type \in StateTypes \cup DrawKinds
  BY <1>1, <1>2, <1>3
<1>5. PICK m \in Nat, M \in Nat : /\ m = Len(shown.stack) /\ M = Len(full.stack)
                                /\ M = D + 1 /\ m <= D + 1
                                  /\ full \in Screens /\ shown \in Screens
  <2>1. /\ full \in Screens /\ shown \in Screens
        /\ Len(full.stack) = D + 1 /\ Len(shown.stack) <= D + 1
    BY <1>2 DEF Agree
  <2>2. Len(shown.stack) \in Nat
    BY <2>1 DEF Screens, Stacks
  <2>. QED
    BY <2>1, <2>2
<1>6. /\ \A d \in 1 .. D : pos[d] \in ToSet(calls) <=> d < m
      /\ \A l \in 0 .. D : Meets(targets, i, EndOf(o, pos, l)) =>
            l < m /\ shown.stack[l + 1] = full.stack[l + 1]
      /\ \A t \in targets, x \in Int :
            t <= i => (<<t, x>> \in shown.pixels <=> <<t, x>> \in full.pixels)
      /\ \A t, x : <<t, x>> \in shown.pixels => t \in targets
      /\ \A t, x : <<t, x>> \in shown.pixels \cup full.pixels => t <= i
  BY <1>1, <1>2, <1>5 DEF Agree
<1>7. PICK e \in Nat : e = EndOf(o, pos, D) /\ j < e
  <2>1. i + 1 \in 0 .. n /\ D \in 0 .. D
    BY <1>2
  <2>. QED
    BY <2>1, <1>1, <1>2, <1>3, EndIs
<1>8. needed => /\ Meets(targets, i, e)
                /\ m = D + 1 /\ shown.stack[D + 1] = full.stack[D + 1]
  <2>. SUFFICES ASSUME needed
                PROVE  /\ Meets(targets, i, e)
                       /\ m = D + 1 /\ shown.stack[D + 1] = full.stack[D + 1]
    OBVIOUS
  <2>1. CASE op.type \in StateTypes
    <3>1. Meets(targets, i + 1, e)
      BY <2>1, <1>1, <1>2, <1>3, <1>4, <1>7
    <3>. QED
      BY <3>1, <1>1, <1>5, <1>6, <1>7, MeetsEarlier
  <2>2. CASE op.type \in DrawKinds
    <3>1. j \in targets
      BY <2>2, <1>1, <1>3, <1>4
    <3>2. Meets(targets, i, e)
      BY <3>1, <1>3, <1>7 DEF Meets
    <3>. QED
      BY <3>2, <1>5, <1>6, <1>7
  <2>. QED
    BY <2>1, <2>2, <1>4
<1>9. PICK F : F = Paint(list, full, j) /\ ScreenAs(full, M, op, j, F)
  BY <1>1, <1>2, <1>4, <1>5, ScreenStep
<1>10. PICK P : P = Paint(list, shown, j) /\ ScreenAs(shown, m, op, j, P)
  BY <1>1, <1>2, <1>4, <1>5, ScreenStep
<1>11. PICK S : S = IF needed THEN P ELSE shown
  OBVIOUS
<1>12. /\ F \in Screens /\ S \in Screens
       /\ Len(F.stack) = M /\ Len(S.stack) = m
       /\ \A l \in 1 .. D : F.stack[l] = full.stack[l]
       /\ \A l \in 1 .. D : l <= m => S.stack[l] = shown.stack[l]
       /\ needed => S.stack[D + 1] = F.stack[D + 1]
       /\ ~needed => S = shown
  <2>1. M - 1 = D /\ (needed => m - 1 = D)
    BY <1>5, <1>8
  <2>2. CASE op.type \in StateTypes
    <3>1. /\ F \in Screens /\ Len(F.stack) = M /\ \A l \in 1 .. D : F.stack[l] = full.stack[l]
          /\ F.stack[M] = Changed(full.stack[M], op, TRUE)
      BY <2>1, <2>2, <1>9 DEF ScreenAs
    <3>2. /\ P \in Screens /\ Len(P.stack) = m /\ \A l \in 1 .. m - 1 : P.stack[l] = shown.stack[l]
          /\ P.stack[m] = Changed(shown.stack[m], op, TRUE)
      BY <2>2, <1>10 DEF ScreenAs
    <3>3. needed => P.stack[D + 1] = F.stack[D + 1]
      BY <3>1, <3>2, <1>5, <1>8
    <3>. QED
      BY <3>1, <3>2, <3>3, <2>1, <1>5, <1>11
  <2>3. CASE op.type \in DrawKinds
    <3>1. F \in Screens /\ F.stack = full.stack /\ P \in Screens /\ P.stack = shown.stack
      BY <2>3, <1>9, <1>10 DEF ScreenAs
    <3>. QED
      BY <3>1, <1>5, <1>8, <1>11
  <2>. QED
    BY <2>2, <2>3, <1>4
<1>13. PICK C : /\ C = ToSet(IF needed THEN Append(calls, j) ELSE calls)
                /\ C = IF needed THEN ToSet(calls) \cup {j} ELSE ToSet(calls)
  <2>1. needed => ToSet(Append(calls, j)) = ToSet(calls) \cup {j}
    BY <1>1, <1>2, AppendedSet, SMTT(60)
  <2>. QED
    BY <2>1
<1>14. ASSUME NEW d \in 1 .. D PROVE pos[d] \in C <=> d < m
  <2>1. pos[d] \in 1 .. i
    BY <1>1, <1>2 DEF OpenAt
  <2>2. pos[d] \in C <=> pos[d] \in ToSet(calls)
    BY <2>1, <1>3, <1>13
  <2>. QED
    BY <2>2, <1>6
<1>15. ASSUME NEW l \in 0 .. D, Meets(targets, i + 1, EndOf(o, pos, l))
       PROVE  l < m /\ S.stack[l + 1] = F.stack[l + 1]
  <2>1. Meets(targets, i, EndOf(o, pos, l))
    BY <1>1, <1>15, MeetsEarlier
  <2>2. l < m /\ shown.stack[l + 1] = full.stack[l + 1]
    BY <2>1, <1>6
  <2>3. CASE l = D
    <3>1. CASE needed
      BY <3>1, <2>2, <2>3, <1>12
    <3>2. CASE ~needed
      <4>1. op.type \in DrawKinds
        BY <3>2, <2>3, <1>1, <1>2, <1>3, <1>4, <1>15
      <4>2. F.stack = full.stack
        BY <4>1, <1>9 DEF ScreenAs
      <4>. QED
        BY <4>2, <3>2, <2>2, <1>12
    <3>. QED
      BY <3>1, <3>2
  <2>4. CASE l # D
    <3>1. l + 1 \in 1 .. D /\ l + 1 <= m
      BY <2>2, <2>4
    <3>. QED
      BY <3>1, <2>2, <1>12
  <2>. QED
    BY <2>3, <2>4
<1>16. /\ \A t \in targets, x \in Int :
            t <= i + 1 => (<<t, x>> \in S.pixels <=> <<t, x>> \in F.pixels)
       /\ \A t, x : <<t, x>> \in S.pixels => t \in targets
       /\ \A t, x : <<t, x>> \in S.pixels \cup F.pixels => t <= i + 1
  <2>1. \A t, x : <<t, x>> \in shown.pixels \cup full.pixels
                    => t \in Nat /\ t <= i /\ t <= i + 1 /\ t # j
    <3>1. \A t, x : <<t, x>> \in shown.pixels \cup full.pixels => t \in Nat /\ t <= i
      BY <1>5, <1>6 DEF Screens
    <3>2. \A t \in Nat : t <= i => t <= i + 1 /\ t # j
      BY <1>3
    <3>. QED
      BY <3>1, <3>2
  <2>2. \A t \in targets : t <= i + 1 => t <= i \/ t = j
    <3>1. \A t \in targets : t \in Nat
      BY <1>1 DEF TargetsOf
    <3>. QED
      BY <3>1, <1>3
  <2>3. CASE op.type \in StateTypes
    <3>1. F.pixels = full.pixels /\ S.pixels = shown.pixels
      BY <2>3, <1>9, <1>10, <1>11 DEF ScreenAs
    <3>2. j \notin targets
      BY <2>3, <1>1, <1>4 DEF TargetsOf, StateTypes, DrawKinds
    <3>. QED
      BY <3>1, <3>2, <2>1, <2>2, <1>6
  <2>4. CASE op.type \in DrawKinds
    <3>1. /\ F.pixels = full.pixels \cup ({j} \X Filled(op, full.stack[M]))
          /\ P.pixels = shown.pixels \cup ({j} \X Filled(op, shown.stack[m]))
      BY <2>4, <1>9, <1>10 DEF ScreenAs
    <3>2. needed <=> j \in targets
      BY <2>4, <1>1, <1>3, <1>4
    <3>3. needed => shown.stack[m] = full.stack[M]
      BY <1>5, <1>8
    <3>4. \A t, x : <<t, x>> \in F.pixels <=>
              <<t, x>> \in full.pixels \/ (t = j /\ x \in Filled(op, full.stack[M]))
      BY <3>1
    <3>5. \A t, x : <<t, x>> \in S.pixels <=>
              <<t, x>> \in shown.pixels \/ (needed /\ t = j /\ x \in Filled(op, full.stack[M]))
      BY <3>1, <3>3, <1>11
    <3>6. ASSUME NEW t \in targets, NEW x \in Int, t <= i + 1
          PROVE  <<t, x>> \in S.pixels <=> <<t, x>> \in F.pixels
      <4>1. CASE t = j
        BY <4>1, <3>2, <3>4, <3>5, <2>1
      <4>2. CASE t # j
        BY <4>2, <3>4, <3>5, <3>6, <2>2, <1>6
      <4>. QED
        BY <4>1, <4>2
    <3>7. \A t, x : <<t, x>> \in S.pixels => t \in targets
      BY <3>2, <3>5, <1>6
    <3>8. \A t, x : <<t, x>> \in S.pixels \cup F.pixels => t <= i + 1
      BY <3>4, <3>5, <2>1, <1>3
    <3>. QED
      BY <3>6, <3>7, <3>8
  <2>. QED
    BY <2>3, <2>4, <1>4
<1>17. Agree(o, targets, IF needed THEN Append(calls, j) ELSE calls, i + 1, pos, F, S)
  BY <1>2, <1>5, <1>12, <1>13, <1>14, <1>15, <1>16 DEF Agree
<1>. QED
  BY <1>1, <1>3, <1>9, <1>10, <1>11, <1>17

-----------------------------------------------------------------------------
(* Whole replays                                                           *)

\* What the replay of the first operations has done.
Follows(list, targets, r, i) ==
    \E pos : /\ Scoped(list.ops, targets, r, i, pos)
             /\ Matched(list.ops) => Agree(list.ops, targets, r.calls, i, pos,
                                           View(list, i), Shown(list, r.calls))

\* At the start nothing is open and nothing is shown.
LEMMA FollowsStart ==
  ASSUME NEW list, WellNested(list.ops), NEW targets, TargetsOf(list.ops, targets)
  PROVE  Follows(list, targets, Start(Len(list.ops)), 0)
<1>1. PICK o : o = list.ops /\ o \in Seq(Operation)
  BY DEF WellNested
<1>2. PICK n \in Nat : n = Len(o)
  BY <1>1
<1>3. PICK pos \in Seq(Nat) : pos = <<>> /\ Len(pos) = 0
  <2>1. <<>> \in Seq(Nat) /\ Len(<<>>) = 0
    OBVIOUS
  <2>. QED
    BY <2>1
<1>4. PICK c \in Seq(1 .. n) : c = <<>> /\ Len(c) = 0 /\ ToSet(c) = {}
  <2>1. <<>> \in Seq(1 .. n) /\ ToSet(<<>>) = {}
    BY DEF ToSet
  <2>. QED
    BY <2>1
<1>5. Start(n).saves = <<>> /\ Start(n).scopeEnd = n + 2 /\ Start(n).calls = c
  BY <1>4 DEF Start
<1>6. \A d : d \notin 1 .. 0
  OBVIOUS
<1>7. OpenAt(o, pos, 0)
  BY <1>3, <1>6 DEF OpenAt, Increasing
<1>8. Len(Start(n).saves) = 0
  BY <1>5
<1>9. Scoped(o, targets, Start(n), 0, pos)
  BY <1>2, <1>3, <1>4, <1>5, <1>6, <1>7, <1>8 DEF Scoped, EndOf
<1>10. View(list, 0) = Blank /\ Shown(list, c) = Blank /\ Blank \in Screens
  <2>1. 0 \in 0 .. Len(list.ops)
    BY <1>1
  <2>2. View(list, 0) = Blank
    BY <1>1, <2>1, ViewStep
  <2>3. Shown(list, c) = Blank
    BY <1>1, <1>2, <1>4, ShownAppend
  <2>. QED
    BY <2>2, <2>3, BlankScreen
<1>11. Len(Blank.stack) = 1 /\ Blank.pixels = {}
  BY DEF Blank, FreshStack
<1>12. Agree(o, targets, c, 0, pos, Blank, Blank)
  <2>1. \A d \in 1 .. 0 : FALSE
    BY <1>6
  <2>2. \A l \in 0 .. 0 : l < 1
    OBVIOUS
  <2>. QED
    BY <2>1, <2>2, <1>3, <1>10, <1>11 DEF Agree
<1>. QED
  BY <1>1, <1>2, <1>5, <1>9, <1>10, <1>12 DEF Follows

\* Each step of a replay keeps to the scopes and, if restores are matched, to the
\* drawing.
LEMMA FollowsStep ==
  ASSUME NEW list, WellNested(list.ops), NEW targets, TargetsOf(list.ops, targets),
         NEW i \in Nat, i + 1 <= Len(list.ops), NEW r \in Replays(Len(list.ops)),
         Follows(list, targets, r, i),
         NEW a, a = ReplayStep(list, targets, r, i + 1)
  PROVE  Follows(list, targets, a, i + 1)
<1>1. PICK o : o = list.ops /\ o \in Seq(Operation)
  BY DEF WellNested
<1>2. PICK n \in Nat : n = Len(o) /\ i + 1 <= n /\ i + 1 \in 1 .. n
  BY <1>1
<1>3. PICK pos : /\ Scoped(o, targets, r, i, pos)
                 /\ Matched(o) => Agree(o, targets, r.calls, i, pos,
                                        View(list, i), Shown(list, r.calls))
  BY <1>1 DEF Follows
<1>4. OpenAt(o, pos, i) /\ ToSet(r.calls) \subseteq 1 .. i
  BY <1>3 DEF Scoped
<1>5. PICK c \in Seq(1 .. n) : c = r.calls
  BY <1>1, <1>2 DEF Replays
<1>6. View(list, i + 1) = Paint(list, View(list, i), i + 1)
  <2>1. i \in 0 .. n /\ i # n
    BY <1>2
  <2>. QED
    BY <2>1, <1>1, <1>2, ViewStep
<1>7. Shown(list, Append(c, i + 1)) = Paint(list, Shown(list, c), i + 1)
  BY <1>1, <1>2, ShownAppend
<1>8. ASSUME NEW p, Scoped(o, targets, a, i + 1, p),
             NEW needed \in BOOLEAN, a.calls = IF needed THEN Append(c, i + 1) ELSE c,
             Matched(o) => Agree(o, targets, IF needed THEN Append(c, i + 1) ELSE c, i + 1, p,
                                 Paint(list, View(list, i), i + 1),
                                 IF needed THEN Paint(list, Shown(list, c), i + 1)
                                 ELSE Shown(list, c))
      PROVE  Follows(list, targets, a, i + 1)
  <2>1. Shown(list, a.calls) = IF needed THEN Paint(list, Shown(list, c), i + 1)
                               ELSE Shown(list, c)
    BY <1>7, <1>8
  <2>2. Matched(o) => Agree(o, targets, a.calls, i + 1, p, View(list, i + 1), Shown(list, a.calls))
    BY <2>1, <1>6, <1>8
  <2>. QED
    BY <2>2, <1>1, <1>8 DEF Follows
<1>9. CASE IsSave(o, i + 1)
  <2>1. PICK needed \in BOOLEAN : needed = Meets(targets, i + 1, o[i + 1].restore)
    BY DEF Meets
  <2>2. /\ Scoped(o, targets, a, i + 1, Append(pos, i + 1))
        /\ a.calls = IF needed THEN Append(c, i + 1) ELSE c
    <3>1. /\ Scoped(list.ops, targets, r, i, pos) /\ IsSave(list.ops, i + 1)
          /\ i + 1 <= Len(list.ops)
      BY <1>1, <1>3, <1>9
    <3>2. /\ Scoped(list.ops, targets, a, i + 1, Append(pos, i + 1))
          /\ a.calls = IF Meets(targets, i + 1, list.ops[i + 1].restore)
                       THEN Append(r.calls, i + 1) ELSE r.calls
      BY <3>1, ScopedSave
    <3>. QED
      BY <3>2, <1>1, <1>5, <2>1
  <2>3. Matched(o) => Agree(o, targets, IF needed THEN Append(c, i + 1) ELSE c, i + 1,
                            Append(pos, i + 1), Paint(list, View(list, i), i + 1),
                            IF needed THEN Paint(list, Shown(list, c), i + 1)
                            ELSE Shown(list, c))
    BY <1>1, <1>2, <1>3, <1>4, <1>5, <1>9, <2>1, AgreeSave
  <2>. QED
    BY <2>2, <2>3, <1>8
<1>10. CASE \E k \in 1 .. i : IsSave(o, k) /\ o[k].restore = i + 1
  <2>1. PICK k \in 1 .. i : IsSave(o, k) /\ o[k].restore = i + 1
    BY <1>10
  <2>2. /\ pos # <<>> /\ k = pos[Len(pos)] /\ o[i + 1].type = "restore"
    BY <2>1, <1>1, <1>2, <1>4, OpenNext
  <2>3. PICK needed \in BOOLEAN : needed <=> k \in ToSet(c)
    <3>1. CASE k \in ToSet(c)
      BY <3>1
    <3>2. CASE k \notin ToSet(c)
      BY <3>2
    <3>. QED
      BY <3>1, <3>2
  <2>4. /\ Scoped(o, targets, a, i + 1, Front(pos))
        /\ a.calls = IF needed THEN Append(c, i + 1) ELSE c
    <3>1. /\ Scoped(list.ops, targets, r, i, pos) /\ IsSave(list.ops, k)
          /\ list.ops[k].restore = i + 1 /\ i + 1 <= Len(list.ops)
      BY <1>1, <1>3, <2>1
    <3>2. /\ Scoped(list.ops, targets, a, i + 1, Front(pos))
          /\ a.calls = IF k \in ToSet(r.calls) THEN Append(r.calls, i + 1) ELSE r.calls
      BY <2>1, <3>1, ScopedRestore
    <3>. QED
      BY <3>2, <1>1, <1>5, <2>3
  <2>5. Matched(o) => Agree(o, targets, IF needed THEN Append(c, i + 1) ELSE c, i + 1,
                            Front(pos), Paint(list, View(list, i), i + 1),
                            IF needed THEN Paint(list, Shown(list, c), i + 1)
                            ELSE Shown(list, c))
    BY <1>1, <1>2, <1>3, <1>4, <1>5, <2>2, <2>3, AgreeRestore
  <2>. QED
    BY <2>4, <2>5, <1>8
<1>11. CASE /\ ~IsSave(o, i + 1)
            /\ \A k \in 1 .. i : IsSave(o, k) => o[k].restore # i + 1
  <2>1. /\ Scoped(o, targets, a, i + 1, pos)
        /\ o[i + 1].type \in StateTypes =>
             a.calls = IF Meets(targets, i + 1, EndOf(o, pos, Len(pos)))
                       THEN Append(c, i + 1) ELSE c
        /\ o[i + 1].type \in DrawKinds =>
             a.calls = IF i + 1 \in targets THEN Append(c, i + 1) ELSE c
    <3>1. /\ Scoped(list.ops, targets, r, i, pos) /\ ~IsSave(list.ops, i + 1)
          /\ \A k \in 1 .. i : IsSave(list.ops, k) => list.ops[k].restore # i + 1
          /\ i + 1 <= Len(list.ops)
      BY <1>1, <1>3, <1>11
    <3>2. /\ Scoped(list.ops, targets, a, i + 1, pos)
          /\ list.ops[i + 1].type \in StateTypes =>
               a.calls = IF Meets(targets, i + 1, EndOf(list.ops, pos, Len(pos)))
                         THEN Append(r.calls, i + 1) ELSE r.calls
          /\ list.ops[i + 1].type \in DrawKinds =>
               a.calls = IF i + 1 \in targets THEN Append(r.calls, i + 1) ELSE r.calls
      BY <3>1, ScopedOther
    <3>. QED
      BY <3>2, <1>1, <1>5
  <2>2. CASE o[i + 1].type = "restore"
    <3>1. ~Matched(o)
      <4>1. SUFFICES ASSUME NEW k \in 1 .. n, IsSave(o, k), o[k].restore = i + 1 PROVE FALSE
        BY <2>2, <1>2 DEF Matched
      <4>2. o[k].restore \in k + 1 .. n + 1
        BY <4>1, <1>1, <1>2 DEF WellNested
      <4>3. k \in 1 .. i
        BY <4>1, <4>2
      <4>. QED
        BY <4>1, <4>3, <1>11
    <3>. QED
      BY <3>1, <2>1, <1>1 DEF Follows
  <2>3. CASE o[i + 1].type \in StateTypes
    <3>1. PICK needed \in BOOLEAN : needed = Meets(targets, i + 1, EndOf(o, pos, Len(pos)))
      BY DEF Meets
    <3>2. OpenAt(o, pos, i + 1)
      BY <2>1 DEF Scoped
    <3>3. Matched(o) => Agree(o, targets, IF needed THEN Append(c, i + 1) ELSE c, i + 1,
                              pos, Paint(list, View(list, i), i + 1),
                              IF needed THEN Paint(list, Shown(list, c), i + 1)
                              ELSE Shown(list, c))
      <4>1. o[i + 1].type \in StateTypes \cup DrawKinds /\ o[i + 1].type \notin DrawKinds
        BY <2>3 DEF StateTypes, DrawKinds
      <4>. QED
        BY <4>1, <1>1, <1>2, <1>3, <1>4, <1>5, <3>1, <3>2, AgreeOther
    <3>. QED
      BY <2>1, <2>3, <3>1, <3>3, <1>8
  <2>4. CASE o[i + 1].type \in DrawKinds
    <3>1. PICK needed \in BOOLEAN : needed <=> i + 1 \in targets
      <4>1. CASE i + 1 \in targets
        BY <4>1
      <4>2. CASE i + 1 \notin targets
        BY <4>2
      <4>. QED
        BY <4>1, <4>2
    <3>2. OpenAt(o, pos, i + 1)
      BY <2>1 DEF Scoped
    <3>3. Matched(o) => Agree(o, targets, IF needed THEN Append(c, i + 1) ELSE c, i + 1,
                              pos, Paint(list, View(list, i), i + 1),
                              IF needed THEN Paint(list, Shown(list, c), i + 1)
                              ELSE Shown(list, c))
      <4>1. o[i + 1].type \in StateTypes \cup DrawKinds /\ o[i + 1].type \notin StateTypes
        BY <2>4 DEF StateTypes, DrawKinds
      <4>. QED
        BY <4>1, <1>1, <1>2, <1>3, <1>4, <1>5, <3>1, <3>2, AgreeOther
    <3>. QED
      BY <2>1, <2>4, <3>1, <3>3, <1>8
  <2>5. o[i + 1] \in Operation
    BY <1>1, <1>2
  <2>. QED
    BY <2>2, <2>3, <2>4, <2>5, <1>11 DEF Operation, Kinds, IsSave
<1>. QED
  BY <1>9, <1>10, <1>11

\* A replay restores what it saved and nothing else, and it shows of the
\* targets what the whole list shows of them.
LEMMA ReplayShows ==
  ASSUME NEW list, WellNested(list.ops), NEW targets, TargetsOf(list.ops, targets)
  PROVE  /\ \A i \in 1 .. Len(list.ops) :
              (IsSave(list.ops, i) /\ list.ops[i].restore <= Len(list.ops))
                => (i \in ToSet(Replay(list, targets))
                      <=> list.ops[i].restore \in ToSet(Replay(list, targets)))
         /\ Matched(list.ops) =>
              /\ \A t \in targets, p \in Int :
                   <<t, p>> \in Shown(list, Replay(list, targets)).pixels
                     <=> <<t, p>> \in View(list, Len(list.ops)).pixels
              /\ \A t, p : <<t, p>> \in Shown(list, Replay(list, targets)).pixels => t \in targets
<1>1. PICK o : o = list.ops /\ o \in Seq(Operation)
  BY DEF WellNested
<1>2. PICK n \in Nat : n = Len(o)
  BY <1>1
<1>3. targets \in SUBSET (1 .. n)
  BY <1>1, <1>2 DEF TargetsOf
<1>4. PICK f \in [0 .. n -> Replays(n)] : Replayed(f, list, targets)
  BY <1>1, <1>2, <1>3, ReplayRuns
<1>. DEFINE I == {k \in Nat : k <= n => Follows(list, targets, f[k], k)}
<1>5. 0 \in I
  BY <1>1, <1>2, <1>4, FollowsStart DEF Replayed
<1>6. ASSUME NEW k \in Nat, k \in I PROVE k + 1 \in I
  <2>. SUFFICES ASSUME k + 1 <= n PROVE Follows(list, targets, f[k + 1], k + 1)
    OBVIOUS
  <2>1. k + 1 \in 1 .. n /\ (k + 1) - 1 = k /\ k \in 0 .. n /\ Follows(list, targets, f[k], k)
    BY <1>6
  <2>2. f[k + 1] = ReplayStep(list, targets, f[k], k + 1)
    BY <2>1, <1>1, <1>2, <1>4 DEF Replayed
  <2>3. f[k] \in Replays(n)
    BY <2>1, <1>4
  <2>. QED
    BY <2>1, <2>2, <2>3, <1>1, <1>2, FollowsStep
<1>7. Follows(list, targets, f[n], n)
  <2>. HIDE DEF I
  <2>1. n \in I
    BY <1>5, <1>6, SetInduction
  <2>. QED
    BY <2>1 DEF I
<1>8. f[n].calls = Replay(list, targets)
  BY <1>1, <1>2, <1>4 DEF Replayed
<1>9. PICK pos : /\ Scoped(o, targets, f[n], n, pos)
                 /\ Matched(o) => Agree(o, targets, f[n].calls, n, pos,
                                        View(list, n), Shown(list, f[n].calls))
  BY <1>7, <1>1 DEF Follows
<1>10. \A i \in 1 .. n : (IsSave(o, i) /\ o[i].restore <= n)
          => (i \in ToSet(Replay(list, targets)) <=> o[i].restore \in ToSet(Replay(list, targets)))
  BY <1>8, <1>9 DEF Scoped
<1>11. ASSUME Matched(o)
       PROVE  /\ \A t \in targets, p \in Int :
                   <<t, p>> \in Shown(list, Replay(list, targets)).pixels
                     <=> <<t, p>> \in View(list, n).pixels
              /\ \A t, p : <<t, p>> \in Shown(list, Replay(list, targets)).pixels => t \in targets
  <2>1. Agree(o, targets, Replay(list, targets), n, pos, View(list, n),
              Shown(list, Replay(list, targets)))
    BY <1>8, <1>9, <1>11
  <2>2. \A t \in targets : t <= n
    BY <1>3
  <2>. QED
    BY <2>1, <2>2 DEF Agree
<1>. QED
  BY <1>1, <1>2, <1>10, <1>11

-----------------------------------------------------------------------------
(* The canvas of the recorder                                              *)

\* The recorder's canvas follows the one that draws the list: its matrices are
\* the same, and its clips hold theirs wherever content is recorded.
Holds(entry, exact, rect) ==
    /\ entry.matrix = exact.matrix
    /\ entry.world = exact.world
    /\ exact.clip \cap rect \subseteq entry.clip
    /\ entry.clip \subseteq Everywhere

Tracks(s, v, rect) ==
    /\ s \in Stacks /\ v \in Stacks /\ Len(s) = Len(v)
    /\ \A l \in 1 .. Len(s) : Holds(s[l], v[l], rect)

\* A tracked clip holds the exact one.
LEMMA ClipsHold ==
  ASSUME NEW a \in Entry, NEW b \in Entry, NEW rect, Holds(a, b, rect),
         NEW op \in Operation, NEW type
  PROVE  /\ ClipOf(b, op, type, TRUE) \cap rect \subseteq ClipOf(a, op, type, FALSE)
         /\ ClipOf(a, op, type, FALSE) \subseteq Everywhere
<1>1. PICK device : device = Moved(op.region, a.matrix) /\ device = Moved(op.region, b.matrix)
  BY DEF Holds
<1>2. device \subseteq Hull(device)
  <2>1. op.region \in SUBSET Picture /\ a.matrix \in Int
    BY DEF Operation, Entry
  <2>. QED
    BY <2>1, <1>1, MovedInHull
<1>3. /\ ClipOf(b, op, type, TRUE) = ExactClip(b.clip, type, device)
      /\ ClipOf(a, op, type, FALSE) = TrackedClip(a.clip, type, device)
  BY <1>1 DEF ClipOf
<1>4. b.clip \cap rect \subseteq a.clip /\ a.clip \subseteq Everywhere
  BY DEF Holds
<1>5. CASE type = "clipOut"
  BY <1>3, <1>4, <1>5 DEF ExactClip, TrackedClip
<1>6. CASE type # "clipOut"
  <2>1. ExactClip(b.clip, type, device) = b.clip \cap device
    BY <1>6 DEF ExactClip
  <2>2. TrackedClip(a.clip, type, device) = a.clip \cap Hull(device)
    BY <1>6 DEF TrackedClip
  <2>. QED
    BY <2>1, <2>2, <1>2, <1>3, <1>4
<1>. QED
  BY <1>5, <1>6

\* Entries that a call pushes or changes hold those of the canvas that draws.
LEMMA EntriesHold ==
  ASSUME NEW a \in Entry, NEW b \in Entry, NEW rect, Holds(a, b, rect),
         NEW op \in Operation
  PROVE  /\ Holds(Pushed(a, op, FALSE), Pushed(b, op, TRUE), rect)
         /\ Holds(Changed(a, op, FALSE), Changed(b, op, TRUE), rect)
<1>1. /\ ClipOf(b, op, "clip", TRUE) \cap rect \subseteq ClipOf(a, op, "clip", FALSE)
      /\ ClipOf(a, op, "clip", FALSE) \subseteq Everywhere
      /\ ClipOf(b, op, op.type, TRUE) \cap rect \subseteq ClipOf(a, op, op.type, FALSE)
      /\ ClipOf(a, op, op.type, FALSE) \subseteq Everywhere
  BY ClipsHold
<1>2. /\ a.matrix = b.matrix /\ a.world = b.world
      /\ b.clip \cap rect \subseteq a.clip /\ a.clip \subseteq Everywhere
  BY DEF Holds
<1>3. Holds(Pushed(a, op, FALSE), Pushed(b, op, TRUE), rect)
  BY <1>1, <1>2 DEF Holds, Pushed
<1>4. Holds(Changed(a, op, FALSE), Changed(b, op, TRUE), rect)
  BY <1>1, <1>2 DEF Holds, Changed
<1>. QED
  BY <1>3, <1>4

\* The canvas of the recorder goes on following after each call.
LEMMA TracksCall ==
  ASSUME NEW s, NEW v, NEW rect, Tracks(s, v, rect), NEW op \in Operation
  PROVE  Tracks(Called(s, op, FALSE), Called(v, op, TRUE), rect)
<1>1. PICK m \in Nat : m = Len(s) /\ m = Len(v) /\ m > 0
  BY DEF Tracks, Stacks
<1>2. PICK t : t = Called(s, op, FALSE)
  OBVIOUS
<1>3. PICK w : w = Called(v, op, TRUE)
  OBVIOUS
<1>4. s \in Stacks /\ v \in Stacks /\ \A l \in 1 .. m : Holds(s[l], v[l], rect)
  BY <1>1 DEF Tracks
<1>5. CalledAs(s, op, FALSE, t) /\ CalledAs(v, op, TRUE, w)
  BY <1>2, <1>3, <1>4, CalledLevels
<1>6. PICK a \in Entry, b \in Entry : a = s[m] /\ b = v[m] /\ Holds(a, b, rect)
  <2>1. m \in 1 .. m
    BY <1>1
  <2>2. s \in Seq(Entry) /\ v \in Seq(Entry)
    BY <1>4 DEF Stacks
  <2>3. \A q \in Seq(Entry) : Len(q) = m => q[m] \in Entry
    BY <2>1
  <2>4. s[m] \in Entry /\ v[m] \in Entry
    BY <2>2, <2>3, <1>1
  <2>. QED
    BY <2>1, <2>4, <1>4
<1>7. /\ Holds(Pushed(a, op, FALSE), Pushed(b, op, TRUE), rect)
      /\ Holds(Changed(a, op, FALSE), Changed(b, op, TRUE), rect)
  BY <1>6, EntriesHold
<1>8. t \in Stacks /\ w \in Stacks
  BY <1>5 DEF CalledAs
<1>9. CASE op.type \in SaveTypes
  <2>1. /\ Len(t) = m + 1 /\ Len(w) = m + 1
        /\ \A l \in 1 .. m : t[l] = s[l] /\ w[l] = v[l]
        /\ t[m + 1] = Pushed(a, op, FALSE) /\ w[m + 1] = Pushed(b, op, TRUE)
    BY <1>1, <1>5, <1>6, <1>9 DEF CalledAs
  <2>2. \A l \in 1 .. m + 1 : l = m + 1 \/ l \in 1 .. m
    OBVIOUS
  <2>3. \A l \in 1 .. m + 1 : Holds(t[l], w[l], rect)
    BY <2>1, <2>2, <1>4, <1>7
  <2>. QED
    BY <2>1, <2>3, <1>2, <1>3, <1>8 DEF Tracks
<1>10. CASE op.type = "restore"
  <2>1. PICK k \in Nat : k = (IF m > 1 THEN m - 1 ELSE m) /\ k <= m
    BY <1>1
  <2>2. /\ Len(t) = k /\ Len(w) = k
        /\ \A l \in 1 .. k : t[l] = s[l] /\ w[l] = v[l]
    BY <2>1, <1>1, <1>5, <1>10 DEF CalledAs
  <2>3. \A l \in 1 .. k : Holds(t[l], w[l], rect)
    BY <2>1, <2>2, <1>4
  <2>. QED
    BY <2>2, <2>3, <1>2, <1>3, <1>8 DEF Tracks
<1>11. CASE op.type \in StateTypes
  <2>1. /\ Len(t) = m /\ Len(w) = m
        /\ \A l \in 1 .. m - 1 : t[l] = s[l] /\ w[l] = v[l]
        /\ t[m] = Changed(a, op, FALSE) /\ w[m] = Changed(b, op, TRUE)
    BY <1>1, <1>5, <1>6, <1>11 DEF CalledAs
  <2>2. \A l \in 1 .. m : l = m \/ l \in 1 .. m - 1
    OBVIOUS
  <2>3. \A l \in 1 .. m : Holds(t[l], w[l], rect)
    BY <2>1, <2>2, <1>4, <1>7
  <2>. QED
    BY <2>1, <2>3, <1>2, <1>3, <1>8 DEF Tracks
<1>12. CASE op.type \in DrawKinds
  <2>1. t = s /\ w = v
    BY <1>5, <1>12 DEF CalledAs
  <2>. QED
    BY <2>1, <1>2, <1>3
<1>. QED
  BY <1>9, <1>10, <1>11, <1>12 DEF Operation, Kinds

\* The rectangle recorded for a draw holds what it paints of the content.
LEMMA DrawIsHeld ==
  ASSUME NEW a \in Entry, NEW b \in Entry, NEW rect, Holds(a, b, rect),
         NEW op \in Operation, op.type \in DrawKinds,
         NEW raw, raw = IF op.type = "shape" THEN Hull(op.region) ELSE a.clip,
         a.matrix # 0 => op.type = "shape",
         NEW p \in Filled(op, b), p \in rect
  PROVE  p \in Moved(raw, a.matrix) \cap a.clip
<1>1. PICK m \in Int : m = a.matrix /\ m = b.matrix
  BY DEF Holds, Entry
<1>2. b.clip \cap rect \subseteq a.clip /\ a.clip \subseteq Int
  BY DEF Holds, Entry
<1>3. CASE op.type = "shape"
  <2>1. p \in Moved(op.region, m) /\ p \in b.clip
    BY <1>1, <1>3 DEF Filled
  <2>2. op.region \subseteq Hull(op.region)
    <3>1. op.region \in SUBSET (0 .. Width - 1) /\ 0 \in Int /\ Width - 1 \in Int
      BY DisplayListAssumption DEF Operation, Picture
    <3>. QED
      BY <3>1, HullHolds
  <2>3. p \in Moved(raw, m)
    BY <2>1, <2>2, <1>3 DEF Moved
  <2>. QED
    BY <2>1, <2>3, <1>1, <1>2
<1>4. CASE op.type # "shape"
  <2>1. m = 0 /\ raw = a.clip
    BY <1>1, <1>4
  <2>2. p \in b.clip
    BY DEF Filled
  <2>3. p \in a.clip /\ p = p + 0
    BY <2>2, <1>2
  <2>4. p \in Moved(raw, 0)
    BY <2>1, <2>3 DEF Moved
  <2>. QED
    BY <2>1, <2>3, <2>4, <1>1
<1>. QED
  BY <1>3, <1>4

-----------------------------------------------------------------------------
(* The builder pairs saves and restores                                    *)

\* The rectangles are those of draws of the list.
ItemsAt(o, spatials) == \A s \in spatials : s.at \in 1 .. Len(o) /\ o[s.at].type \in DrawKinds

Paired == /\ Nested(ops, saveOps)
          /\ ItemsAt(ops, spatialOps)
          /\ \A list \in finished : WellNested(list.ops) /\ ItemsAt(list.ops, list.spatialOps)

\* The operations that calls record.
LEMMA OpIs ==
  ASSUME NEW type \in Kinds, NEW region \in SUBSET Picture, NEW by \in Int
  PROVE  /\ Op(type, region, by) \in Operation
         /\ Op(type, region, by).type = type /\ Op(type, region, by).restore = 0
         /\ Op(type, region, by).region = region
  BY DEF Op, Operation, Paints

\* The layer is recorded with its paint.
LEMMA LayerOpIs ==
  ASSUME NEW region \in SUBSET Picture, NEW paint \in LayerPaints
  PROVE  /\ LayerOp(region, paint) \in Operation
         /\ LayerOp(region, paint).type = "saveLayer" /\ LayerOp(region, paint).restore = 0
<1>1. paint \in Paints /\ "saveLayer" \in Kinds
  BY DisplayListAssumption DEF Paints, Kinds, SaveTypes
<1>2. LayerOp(region, paint) = [type |-> "saveLayer", region |-> region, by |-> 0,
                                paint |-> paint, restore |-> 0]
  BY DEF LayerOp, Op
<1>. QED
  BY <1>1, <1>2 DEF Operation

\* The shapes and the rectangles around them are regions of the picture.
LEMMA ShapesAre ==
  ASSUME NEW region \in Shapes
  PROVE  region \in SUBSET Picture /\ Hull(region) \in SUBSET Picture
<1>1. region \in SUBSET (0 .. Width - 1) /\ 0 \in Int /\ Width - 1 \in Int
  BY DisplayListAssumption
<1>2. Hull(region) \subseteq 0 .. Width - 1
  BY <1>1, HullHolds
<1>. QED
  BY <1>1, <1>2 DEF Picture

\* What a draw is asked for is a region of the picture.
LEMMA DrawableIs ==
  ASSUME NEW type, NEW region \in Drawable(type)
  PROVE  region \in SUBSET Picture
<1>1. CASE type = "paint"
  BY <1>1 DEF Drawable
<1>2. CASE type # "paint"
  BY <1>2, ShapesAre DEF Drawable
<1>. QED
  BY <1>1, <1>2

\* A longer list has the draws of the shorter one.
Adds(o, q, op) ==
    /\ o \in Seq(Operation) /\ q \in Seq(Operation) /\ op \in Operation
    /\ Len(q) = Len(o) + 1
    /\ \A i \in 1 .. Len(o) : /\ q[i].type = o[i].type
                              /\ q[i].region = o[i].region
                              /\ q[i].by = o[i].by
    /\ q[Len(o) + 1].type = op.type
    /\ q[Len(o) + 1].region = op.region
    /\ q[Len(o) + 1].by = op.by

\* Appending adds a draw to the list.
LEMMA AppendAdds ==
  ASSUME NEW o \in Seq(Operation), NEW op \in Operation
  PROVE  Adds(o, Append(o, op), op)
  BY Appended DEF Adds

\* Closing a save adds its restore, and changes nothing that is drawn.
LEMMA CloseAdds ==
  ASSUME NEW o \in Seq(Operation), NEW op \in Operation, NEW save \in 1 .. Len(o)
  PROVE  Adds(o, Closed(Append(o, op), save, Len(o) + 1), op)
<1>1. PICK n \in Nat : n = Len(o)
  OBVIOUS
<1>2. PICK q : q = Append(o, op)
  OBVIOUS
<1>3. q \in Seq(Operation) /\ Len(q) = n + 1 /\ q[n + 1] = op /\ \A i \in 1 .. n : q[i] = o[i]
  BY <1>1, <1>2, Appended
<1>4. PICK c : c = Closed(q, save, n + 1)
  OBVIOUS
<1>5. /\ c \in Seq(Operation) /\ Len(c) = n + 1
      /\ \A i \in 1 .. n + 1 : /\ c[i].type = q[i].type
                               /\ c[i].region = q[i].region
                               /\ c[i].by = q[i].by
  <2>1. save \in 1 .. n + 1 /\ n + 1 \in Nat
    BY <1>1
  <2>. QED
    BY <2>1, <1>3, <1>4, ClosedList
<1>6. n + 1 \in 1 .. n + 1 /\ \A i \in 1 .. n : i \in 1 .. n + 1
  BY <1>1
<1>7. Adds(o, c, op)
  BY <1>1, <1>3, <1>5, <1>6 DEF Adds
<1>. QED
  BY <1>1, <1>2, <1>4, <1>7

\* Rectangles stay those of draws.
LEMMA ItemsStay ==
  ASSUME NEW o, NEW q, NEW op, Adds(o, q, op), NEW spatials, ItemsAt(o, spatials)
  PROVE  ItemsAt(q, spatials)
<1>1. PICK n \in Nat : n = Len(o) /\ Len(q) = n + 1
  BY DEF Adds
<1>2. \A i \in 1 .. n : i \in 1 .. n + 1 /\ q[i].type = o[i].type
  BY <1>1 DEF Adds
<1>. QED
  BY <1>1, <1>2 DEF ItemsAt

\* A call of the application that adds one operation which saves nothing.
LEMMA PairedPush ==
  ASSUME Paired, NEW op \in Operation, op.type \notin SaveTypes,
         ops' = Append(ops, op), saveOps' = saveOps, finished' = finished,
         ItemsAt(ops', spatialOps')
  PROVE  Paired'
<1>1. Nested(ops', saveOps')
  BY NestedPush DEF Paired
<1>. QED
  BY <1>1 DEF Paired

\* A call that adds a save.
LEMMA PairedSave ==
  ASSUME Paired, NEW op \in Operation, op.type \in SaveTypes, op.restore = 0,
         ops' = Append(ops, op), saveOps' = Append(saveOps, Len(ops) + 1),
         finished' = finished, spatialOps' = spatialOps
  PROVE  Paired'
<1>1. Nested(ops', saveOps')
  BY NestedSave DEF Paired
<1>2. ops \in Seq(Operation)
  BY DEF Paired, Nested
<1>3. ItemsAt(ops', spatialOps')
  BY <1>2, AppendAdds, ItemsStay DEF Paired
<1>. QED
  BY <1>1, <1>3 DEF Paired

\* Recording keeps saves and restores paired.
LEMMA PairedInit ==
  ASSUME Init PROVE Paired
<1>1. \A d : d \notin 1 .. 0
  OBVIOUS
<1>2. ops = <<>> /\ saveOps = <<>> /\ spatialOps = {} /\ finished = {}
  BY DEF Init
<1>3. /\ <<>> \in Seq(Operation) /\ <<>> \in Seq(Nat) /\ Len(<<>>) = 0
  OBVIOUS
<1>4. Nested(<<>>, <<>>)
  BY <1>1, <1>3 DEF Nested, Increasing
<1>. QED
  BY <1>2, <1>4 DEF Paired, ItemsAt

\* Every step of the recorder keeps saves and restores paired.
LEMMA PairedStep ==
  ASSUME Paired, [Next]_vars
  PROVE  Paired'
<1>1. Nested(ops, saveOps) /\ ops \in Seq(Operation) /\ saveOps \in Seq(Nat)
  BY DEF Paired, Nested
<1>2. PICK n \in Nat : n = Len(ops)
  BY <1>1
<1>3. {} \in SUBSET Picture /\ 0 \in Int
  OBVIOUS
<1>4. Nested(<<>>, <<>>)
  <2>1. \A d : d \notin 1 .. 0
    OBVIOUS
  <2>2. /\ <<>> \in Seq(Operation) /\ <<>> \in Seq(Nat) /\ Len(<<>>) = 0
    OBVIOUS
  <2>. QED
    BY <2>1, <2>2 DEF Nested, Increasing
<1>5. /\ "save" \in SaveTypes /\ "saveLayer" \in SaveTypes
      /\ "restore" \notin SaveTypes /\ \A type \in StateTypes \cup DrawKinds : type \notin SaveTypes
      /\ "restore" \in Kinds
      /\ SaveTypes \subseteq Kinds /\ StateTypes \subseteq Kinds /\ DrawKinds \subseteq Kinds
  BY DEF SaveTypes, StateTypes, DrawKinds, Kinds
<1>6. ASSUME NEW rect \in Recorded, BeginRecording(rect) PROVE Paired'
  BY <1>4, <1>6 DEF Paired, BeginRecording, ItemsAt
<1>7. ASSUME Save PROVE Paired'
  <2>1. PICK op \in Operation : /\ op = Op("save", {}, 0)
                                /\ op.type = "save" /\ op.restore = 0
    BY <1>3, <1>5, OpIs
  <2>2. /\ ops' = Append(ops, op) /\ saveOps' = Append(saveOps, Len(ops) + 1)
        /\ finished' = finished /\ spatialOps' = spatialOps
    BY <1>7, <2>1 DEF Save, Push, Call, Unpainted
  <2>. QED
    BY <2>1, <2>2, <1>5, PairedSave
<1>8. ASSUME NEW region \in Shapes, NEW paint \in LayerPaints, SaveLayer(Hull(region), paint)
      PROVE  Paired'
  <2>1. PICK op \in Operation : /\ op = LayerOp(Hull(region), paint)
                                /\ op.type = "saveLayer" /\ op.restore = 0
    BY LayerOpIs, ShapesAre
  <2>2. /\ ops' = Append(ops, op) /\ saveOps' = Append(saveOps, Len(ops) + 1)
        /\ finished' = finished /\ spatialOps' = spatialOps
    BY <1>8, <2>1 DEF SaveLayer, Push, Call, Unpainted
  <2>. QED
    BY <2>1, <2>2, <1>5, PairedSave
<1>9. ASSUME NEW region \in Shapes, RejectedSaveLayer(Hull(region)) PROVE Paired'
  <2>1. PICK op \in Operation : /\ op = Op("save", {}, 0)
                                /\ op.type = "save" /\ op.restore = 0
    BY <1>3, <1>5, OpIs
  <2>2. PICK clip \in Operation : clip = Op("clip", {}, 0) /\ clip.type = "clip"
    <3>1. "clip" \in Kinds
      BY DEF Kinds, StateTypes
    <3>. QED
      BY <3>1, <1>3, OpIs
  <2>3. PICK q : q = Append(ops, op)
    OBVIOUS
  <2>4. /\ ops' = Append(q, clip) /\ saveOps' = Append(saveOps, Len(ops) + 1)
        /\ finished' = finished /\ spatialOps' = spatialOps
    BY <1>9, <2>1, <2>2, <2>3 DEF RejectedSaveLayer, Call, Unpainted
  <2>5. Nested(q, saveOps')
    BY <1>1, <1>5, <2>1, <2>3, <2>4, NestedSave
  <2>6. Nested(ops', saveOps')
    BY <2>2, <2>4, <2>5, NestedPush DEF SaveTypes
  <2>7. q \in Seq(Operation)
    BY <2>5 DEF Nested
  <2>8. ItemsAt(q, spatialOps)
    BY <1>1, <2>3, AppendAdds, ItemsStay DEF Paired
  <2>9. ItemsAt(ops', spatialOps')
    BY <2>4, <2>7, <2>8, AppendAdds, ItemsStay
  <2>. QED
    BY <2>4, <2>6, <2>9 DEF Paired
<1>10. ASSUME Restore PROVE Paired'
  <2>1. PICK op \in Operation : op = Op("restore", {}, 0) /\ op.type = "restore"
    BY <1>3, <1>5, OpIs
  <2>2. PICK q : q = Append(ops, op)
    OBVIOUS
  <2>3. q \in Seq(Operation) /\ Len(q) = n + 1
    BY <1>1, <1>2, <2>2, Appended
  <2>4. finished' = finished /\ spatialOps' = spatialOps
    BY <1>10 DEF Restore, Call, Unpainted
  <2>5. CASE saveOps = <<>>
    <3>1. ops' = Append(ops, op) /\ saveOps' = saveOps
      BY <1>10, <2>1, <2>5 DEF Restore
    <3>2. ItemsAt(ops', spatialOps')
      BY <3>1, <1>1, <2>4, AppendAdds, ItemsStay DEF Paired
    <3>. QED
      BY <3>1, <3>2, <1>5, <2>1, <2>4, PairedPush
  <2>6. CASE saveOps # <<>>
    <3>1. /\ ops' = Closed(Append(ops, op), Top(saveOps), Len(ops) + 1)
          /\ saveOps' = Front(saveOps)
      BY <1>10, <1>2, <2>1, <2>2, <2>3, <2>6 DEF Restore
    <3>2. Nested(ops', saveOps')
      BY <3>1, <1>1, <2>1, <2>6, NestedRestore
    <3>3. Top(saveOps) \in 1 .. Len(ops)
      <4>1. PICK d \in Nat : d = Len(saveOps) /\ d > 0 /\ Top(saveOps) = saveOps[d]
        BY <1>1, <2>6, Shortened
      <4>2. d \in 1 .. Len(saveOps)
        BY <4>1
      <4>. QED
        BY <4>1, <4>2, <1>1 DEF Nested
    <3>4. ItemsAt(ops', spatialOps')
      BY <3>1, <3>3, <1>1, <2>4, CloseAdds, ItemsStay DEF Paired
    <3>. QED
      BY <3>2, <3>4, <2>4 DEF Paired
  <2>. QED
    BY <2>5, <2>6
<1>11. ASSUME NEW op \in Operation, op.type \in StateTypes, StateCall(op) PROVE Paired'
  <2>1. /\ ops' = Append(ops, op) /\ saveOps' = saveOps /\ finished' = finished
        /\ spatialOps' = spatialOps
    BY <1>11 DEF StateCall, Push, Call, Unpainted
  <2>2. ItemsAt(ops', spatialOps')
    BY <2>1, <1>1, AppendAdds, ItemsStay DEF Paired
  <2>. QED
    BY <2>1, <2>2, <1>5, <1>11, PairedPush
<1>12. ASSUME NEW by \in Deltas, Translate(by) PROVE Paired'
  <2>1. by \in Int /\ "translate" \in Kinds /\ "translate" \in StateTypes
    BY DisplayListAssumption DEF Kinds, StateTypes
  <2>. QED
    BY <2>1, <1>3, <1>11, <1>12, OpIs DEF Translate
<1>13. ASSUME ResetMatrix PROVE Paired'
  <2>1. "resetMatrix" \in Kinds /\ "resetMatrix" \in StateTypes
    BY DEF Kinds, StateTypes
  <2>. QED
    BY <2>1, <1>3, <1>11, <1>13, OpIs DEF ResetMatrix
<1>14. ASSUME NEW region \in Shapes, ClipTo(region) \/ ClipOut(region) PROVE Paired'
  <2>1. /\ "clip" \in Kinds /\ "clip" \in StateTypes
        /\ "clipOut" \in Kinds /\ "clipOut" \in StateTypes
    BY DEF Kinds, StateTypes
  <2>2. region \in SUBSET Picture
    BY ShapesAre
  <2>. QED
    BY <2>1, <2>2, <1>3, <1>11, <1>14, OpIs DEF ClipTo, ClipOut
<1>15. ASSUME NEW type \in DrawTypes, NEW region \in Drawable(type), Draw(type, region) PROVE Paired'
  <2>1. type \in DrawKinds
    BY DisplayListAssumption DEF DrawKinds
  <2>2. PICK op \in Operation : op = Op(type, region, 0) /\ op.type = type
    BY <2>1, <1>3, <1>5, OpIs, DrawableIs
  <2>3. ops' = Append(ops, op) /\ saveOps' = saveOps /\ finished' = finished
    BY <1>15, <2>2 DEF Draw, Push, Call
  <2>4. \E rect : spatialOps' \subseteq spatialOps \cup {[at |-> n + 1, rect |-> rect]}
    BY <1>2, <1>15 DEF Draw, AccumulateOpBounds, Unpainted
  <2>5. ItemsAt(ops', spatialOps)
    BY <2>3, <1>1, AppendAdds, ItemsStay DEF Paired
  <2>6. n + 1 \in 1 .. Len(ops') /\ ops'[n + 1].type \in DrawKinds
    <3>1. Len(ops') = n + 1 /\ ops'[n + 1] = op
      BY <2>3, <1>1, <1>2, Appended
    <3>. QED
      BY <3>1, <2>1, <2>2
  <2>7. ItemsAt(ops', spatialOps')
    BY <2>4, <2>5, <2>6 DEF ItemsAt
  <2>. QED
    BY <2>1, <2>2, <2>3, <2>7, <1>5, PairedPush
<1>16. ASSUME FinishRecording PROVE Paired'
  <2>1. PICK list : /\ finished' = {list} /\ list.ops = ClosedAtTheEnd
                    /\ list.spatialOps = spatialOps
    <3>1. PICK list : list = [ops |-> ClosedAtTheEnd, spatialOps |-> spatialOps,
                              bounds |-> bounds, cullRect |-> cullRect]
      OBVIOUS
    <3>2. list.ops = ClosedAtTheEnd /\ list.spatialOps = spatialOps
      BY <3>1
    <3>. QED
      BY <3>1, <3>2, <1>16 DEF FinishRecording
  <2>2. ops' = <<>> /\ saveOps' = <<>> /\ spatialOps' = {}
    BY <1>16 DEF FinishRecording
  <2>3. WellNested(list.ops) /\ SameDrawing(ops, list.ops)
    BY <2>1, <1>1, NestedFinish DEF ClosedAtTheEnd
  <2>4. ItemsAt(list.ops, list.spatialOps)
    BY <2>1, <2>3 DEF Paired, ItemsAt, SameDrawing
  <2>. QED
    BY <2>1, <2>2, <2>3, <2>4, <1>4 DEF Paired, ItemsAt
<1>17. ASSUME UNCHANGED vars PROVE Paired'
  BY <1>17 DEF vars, Paired
<1>. QED
  BY <1>6, <1>7, <1>8, <1>9, <1>10, <1>12, <1>13, <1>14, <1>15, <1>16, <1>17 DEF Next

\* In every state of the recorder saves and restores are paired.
LEMMA PairedHolds == Spec => []Paired
<1>. QED
  BY PairedInit, PairedStep, PTL DEF Spec

\* A replay culled to a rectangle restores what it saved, and nothing else.
LEMMA PairedIsBalanced ==
  ASSUME Paired PROVE CulledReplayIsBalanced
<1>1. SUFFICES ASSUME NEW list \in finished, NEW rect \in Rects,
                      NEW i \in DOMAIN list.ops, NEW j \in DOMAIN list.ops,
                      list.ops[i].type \in SaveTypes, list.ops[i].restore = j
               PROVE  i \in ToSet(CulledReplay(list, rect))
                        <=> j \in ToSet(CulledReplay(list, rect))
  BY DEF CulledReplayIsBalanced
<1>2. PICK targets : targets = Search(list, rect)
  OBVIOUS
<1>3. WellNested(list.ops) /\ list.ops \in Seq(Operation)
  BY DEF Paired, WellNested
<1>4. TargetsOf(list.ops, targets)
  BY <1>2 DEF TargetsOf, Search, Paired, ItemsAt
<1>5. CASE targets = {}
  <2>1. CulledReplay(list, rect) = <<>>
    BY <1>2, <1>5 DEF CulledReplay
  <2>2. ToSet(<<>>) = {}
    BY DEF ToSet
  <2>. QED
    BY <2>1, <2>2
<1>6. CASE targets # {}
  <2>1. CulledReplay(list, rect) = Replay(list, targets)
    BY <1>2, <1>6 DEF CulledReplay
  <2>2. i \in 1 .. Len(list.ops) /\ j <= Len(list.ops)
    BY <1>3
  <2>3. IsSave(list.ops, i) /\ list.ops[i].restore <= Len(list.ops)
    BY <2>2, <1>1 DEF IsSave
  <2>. QED
    BY <2>1, <2>2, <2>3, <1>1, <1>3, <1>4, ReplayShows
<1>. QED
  BY <1>5, <1>6

\* In whatever list is handed out, a culled replay calls a save if and only if it
\* calls its restore.
THEOREM CulledReplaysAreBalanced == Spec => []CulledReplayIsBalanced
<1>. QED
  BY PairedHolds, PairedIsBalanced, PTL

-----------------------------------------------------------------------------
(* What the builder knows of the drawing                                   *)

\* What the operations show.
Drawn(o) == View([ops |-> o], Len(o))

\* Every pixel of the content that a draw shows is in a rectangle recorded for
\* it, but for the glyphs and DrawPaints under a matrix.
Covered(o, screen, spatials, rect) ==
    \A i, p : (<<i, p>> \in screen.pixels /\ p \in rect
                 /\ (i \in screen.moved => o[i].type = "shape"))
              => \E item \in spatials : item.at = i /\ p \in item.rect

Enclosed(spatials, box) ==
    box \subseteq Everywhere /\ \A item \in spatials : item.rect \subseteq box

\* The canvas, the operations, the open saves, the rectangles, the bounds and
\* the cull rectangle of a recording agree.
Sees(s, o, open, spatials, box, rect) ==
    /\ o \in Seq(Operation)
    /\ open \in Seq(Nat)
    /\ Tracks(s, Drawn(o).stack, rect)
    /\ Len(s) = Len(open) + 1
    /\ Matched(o)
    /\ \A i, p : <<i, p>> \in Drawn(o).pixels => i \in 1 .. Len(o)
    /\ Covered(o, Drawn(o), spatials, rect)
    /\ Enclosed(spatials, box)

\* A view depends on the operations of the list only.
LEMMA DrawnIs ==
  ASSUME NEW list, list.ops \in Seq(Operation), NEW k \in 0 .. Len(list.ops)
  PROVE  View(list, k) = View([ops |-> list.ops], k) /\ View(list, k) \in Screens
<1>1. PICK b : b = [ops |-> list.ops] /\ b.ops = list.ops
  <2>1. [ops |-> list.ops].ops = list.ops
    OBVIOUS
  <2>. QED
    BY <2>1
<1>2. PICK n \in Nat : n = Len(list.ops) /\ k \in Nat /\ k <= n
  OBVIOUS
<1>3. View(list, k) = View(b, k)
  <2>1. list.ops \in Seq(Operation) /\ b.ops \in Seq(Operation)
        /\ k <= Len(list.ops) /\ k <= Len(b.ops)
    BY <1>1, <1>2
  <2>. QED
    BY <1>1, <1>2, <2>1, ViewSame
<1>. QED
  BY <1>1, <1>3, ViewStep

\* Another operation is another call to the canvas that draws.
LEMMA DrawnAdds ==
  ASSUME NEW o, NEW q, NEW op, Adds(o, q, op)
  PROVE  /\ Drawn(o) \in Screens /\ Drawn(q) \in Screens
         /\ PaintedAs(Drawn(o), op, Len(o) + 1, Drawn(q))
<1>1. PICK n \in Nat : n = Len(o) /\ Len(q) = n + 1
  BY DEF Adds
<1>2. PICK a : a = [ops |-> o] /\ a.ops = o
  <2>1. [ops |-> o].ops = o
    OBVIOUS
  <2>. QED
    BY <2>1
<1>3. PICK b : b = [ops |-> q] /\ b.ops = q
  <2>1. [ops |-> q].ops = q
    OBVIOUS
  <2>. QED
    BY <2>1
<1>4. /\ o \in Seq(Operation) /\ q \in Seq(Operation) /\ op \in Operation
      /\ \A i \in 1 .. n : /\ q[i].type = o[i].type
                           /\ q[i].region = o[i].region
                           /\ q[i].by = o[i].by
      /\ q[n + 1].type = op.type /\ q[n + 1].region = op.region /\ q[n + 1].by = op.by
  BY <1>1 DEF Adds
<1>5. View(a, n) = View(b, n)
  <2>1. n <= Len(a.ops) /\ n <= Len(b.ops)
    BY <1>1, <1>2, <1>3
  <2>. QED
    BY <2>1, <1>2, <1>3, <1>4, ViewSame
<1>6. View(b, n + 1) = Paint(b, View(b, n), n + 1) /\ View(a, n) \in Screens
  <2>1. n \in 0 .. Len(b.ops) /\ n # Len(b.ops) /\ n \in 0 .. Len(a.ops)
    BY <1>1, <1>2, <1>3
  <2>2. a.ops \in Seq(Operation) /\ b.ops \in Seq(Operation)
    BY <1>2, <1>3, <1>4
  <2>3. View(b, n + 1) = Paint(b, View(b, n), n + 1)
    BY <2>1, <2>2, ViewStep
  <2>4. View(a, n) \in Screens
    BY <2>1, <2>2, ViewStep
  <2>. QED
    BY <2>3, <2>4
<1>7. PICK r \in Screens : r = View(a, n)
  BY <1>6
<1>8. PICK z : z = Paint(b, r, n + 1)
  OBVIOUS
<1>9. z \in Screens /\ PaintedAs(r, q[n + 1], n + 1, z)
  <2>1. n + 1 \in 1 .. Len(b.ops) /\ b.ops \in Seq(Operation)
    BY <1>1, <1>3, <1>4
  <2>. QED
    BY <2>1, <1>3, <1>7, <1>8, PaintStep
<1>10. PaintedAs(r, op, n + 1, z)
  <2>1. Called(r.stack, q[n + 1], TRUE) = Called(r.stack, op, TRUE)
    BY <1>4 DEF Called
  <2>2. Filled(q[n + 1], Top(r.stack)) = Filled(op, Top(r.stack))
    BY <1>4 DEF Filled
  <2>. QED
    BY <2>1, <2>2, <1>4, <1>9 DEF PaintedAs
<1>11. Drawn(o) = r /\ Drawn(q) = z
  BY <1>1, <1>2, <1>3, <1>5, <1>6, <1>7, <1>8 DEF Drawn
<1>. QED
  BY <1>1, <1>9, <1>10, <1>11

\* A call that draws nothing.
LEMMA SeesCall ==
  ASSUME NEW s, NEW o, NEW open, NEW spatials, NEW box, NEW rect,
         Sees(s, o, open, spatials, box, rect),
         NEW q, NEW op, Adds(o, q, op), op.type \notin DrawKinds, Matched(q),
         NEW left \in Seq(Nat), Len(Called(s, op, FALSE)) = Len(left) + 1
  PROVE  Sees(Called(s, op, FALSE), q, left, spatials, box, rect)
<1>1. PICK n \in Nat : n = Len(o) /\ Len(q) = n + 1
  BY DEF Adds
<1>2. q \in Seq(Operation) /\ op \in Operation /\ \A i \in 1 .. n : q[i].type = o[i].type
  BY <1>1 DEF Adds
<1>3. PICK r \in Screens, z \in Screens : r = Drawn(o) /\ z = Drawn(q)
  BY DrawnAdds
<1>4. PaintedAs(r, op, n + 1, z)
  BY <1>1, <1>3, DrawnAdds
<1>5. z.stack = Called(r.stack, op, TRUE) /\ z.pixels = r.pixels /\ z.moved = r.moved
  BY <1>4 DEF PaintedAs
<1>6. Tracks(Called(s, op, FALSE), z.stack, rect)
  BY <1>2, <1>3, <1>5, TracksCall DEF Sees
<1>7. \A i, p : <<i, p>> \in z.pixels => i \in 1 .. n /\ i \in 1 .. n + 1
  <2>1. \A i \in 1 .. n : i \in 1 .. n + 1
    OBVIOUS
  <2>. QED
    BY <2>1, <1>1, <1>3, <1>5 DEF Sees
<1>8. Covered(q, z, spatials, rect)
  <2>1. Covered(o, r, spatials, rect)
    BY <1>3 DEF Sees
  <2>. QED
    BY <2>1, <1>2, <1>5, <1>7 DEF Covered
<1>. QED
  BY <1>1, <1>2, <1>3, <1>6, <1>7, <1>8 DEF Sees

\* A draw, and the rectangle that is recorded for it.
LEMMA SeesDraw ==
  ASSUME NEW s, NEW o, NEW open, NEW spatials, NEW box, NEW rect,
         Sees(s, o, open, spatials, box, rect),
         NEW op \in Operation, op.type \in DrawKinds,
         NEW raw, raw = IF op.type = "shape" THEN Hull(op.region) ELSE Top(s).clip,
         NEW mapped, mapped = Moved(raw, Top(s).matrix) \cap Top(s).clip,
         NEW more, NEW wide,
         IF mapped = {} THEN more = spatials /\ wide = box
         ELSE /\ more = spatials \cup {[at |-> Len(o) + 1, rect |-> mapped]}
              /\ wide = Hull(box \cup mapped)
  PROVE  Sees(Called(s, op, FALSE), Append(o, op), open, more, wide, rect)
<1>1. PICK q : q = Append(o, op)
  OBVIOUS
<1>2. PICK n \in Nat : n = Len(o) /\ o \in Seq(Operation)
  BY DEF Sees
<1>3. Adds(o, q, op) /\ q \in Seq(Operation) /\ Len(q) = n + 1 /\ q[n + 1] = op
      /\ \A i \in 1 .. n : q[i].type = o[i].type
  BY <1>1, <1>2, AppendAdds, Appended
<1>4. PICK r \in Screens, z \in Screens : r = Drawn(o) /\ z = Drawn(q)
  BY <1>3, DrawnAdds
<1>5. PaintedAs(r, op, n + 1, z)
  BY <1>2, <1>3, <1>4, DrawnAdds
<1>6. /\ z.stack = r.stack
      /\ z.pixels = r.pixels \cup ({n + 1} \X Filled(op, Top(r.stack)))
      /\ z.moved = r.moved \cup (IF Top(r.stack).matrix = 0 THEN {} ELSE {n + 1})
  BY <1>5 DEF PaintedAs
<1>7. s \in Stacks /\ Tracks(s, r.stack, rect) /\ Called(s, op, FALSE) = s
  <2>1. Tracks(s, r.stack, rect) /\ s \in Stacks
    BY <1>4 DEF Sees, Tracks
  <2>. QED
    BY <2>1, CalledStack
<1>8. PICK a \in Entry, b \in Entry : a = Top(s) /\ b = Top(r.stack) /\ Holds(a, b, rect)
  <2>1. PICK m \in Nat : m = Len(s) /\ m = Len(r.stack) /\ m > 0
    BY <1>7 DEF Tracks, Stacks
  <2>2. \A t \in Seq(Entry) : Len(t) = m => t[m] \in Entry
    BY <2>1
  <2>3. s \in Seq(Entry) /\ r.stack \in Seq(Entry) /\ m \in 1 .. m
    BY <1>7, <2>1 DEF Tracks, Stacks
  <2>4. Holds(s[m], r.stack[m], rect)
    BY <1>7, <2>1, <2>3 DEF Tracks
  <2>. QED
    BY <2>1, <2>2, <2>3, <2>4 DEF Top
<1>9. Matched(q)
  <2>1. op.type # "restore"
    BY DEF DrawKinds
  <2>2. \A i \in 1 .. n : q[i] = o[i] /\ i \in 1 .. n + 1
    BY <1>1, <1>2, Appended
  <2>3. \A i \in 1 .. n + 1 : i = n + 1 \/ i \in 1 .. n
    OBVIOUS
  <2>4. Matched(o)
    BY DEF Sees
  <2>. QED
    BY <2>1, <2>2, <2>3, <2>4, <1>2, <1>3 DEF Matched, IsSave
<1>10. \A i, p : <<i, p>> \in z.pixels <=>
           <<i, p>> \in r.pixels \/ (i = n + 1 /\ p \in Filled(op, b))
  BY <1>6, <1>8
<1>11. \A i, p : <<i, p>> \in r.pixels => i \in 1 .. n
  BY <1>2, <1>4 DEF Sees
<1>12. \A i, p : <<i, p>> \in z.pixels => i \in 1 .. n + 1
  <2>1. n + 1 \in 1 .. n + 1 /\ \A i \in 1 .. n : i \in 1 .. n + 1
    BY <1>2
  <2>. QED
    BY <2>1, <1>10, <1>11
<1>13. spatials \subseteq more
  BY <1>2
<1>14. mapped = Moved(raw, a.matrix) \cap a.clip
  BY <1>8
<1>15. ASSUME NEW i, NEW p, <<i, p>> \in z.pixels, p \in rect,
              i \in z.moved => q[i].type = "shape"
       PROVE  \E item \in more : item.at = i /\ p \in item.rect
  <2>1. CASE i = n + 1
    <3>1. p \in Filled(op, b)
      BY <2>1, <1>2, <1>10, <1>11, <1>15
    <3>2. b.matrix # 0 => op.type = "shape"
      BY <2>1, <1>3, <1>6, <1>8, <1>15
    <3>3. a.matrix = b.matrix
      BY <1>8 DEF Holds
    <3>4. p \in mapped
      BY <3>1, <3>2, <3>3, <1>8, <1>14, <1>15, DrawIsHeld
    <3>5. PICK item : item = [at |-> n + 1, rect |-> mapped] /\ item \in more
      BY <3>4, <1>2
    <3>6. item.at = n + 1 /\ item.rect = mapped
      BY <3>5
    <3>. QED
      BY <2>1, <3>4, <3>5, <3>6
  <2>2. CASE i # n + 1
    <3>1. <<i, p>> \in r.pixels /\ i \in 1 .. n
      BY <2>2, <1>10, <1>11, <1>15
    <3>2. i \in r.moved => o[i].type = "shape"
      BY <3>1, <1>3, <1>6, <1>15
    <3>3. Covered(o, r, spatials, rect)
      BY <1>4 DEF Sees
    <3>. QED
      BY <3>1, <3>2, <3>3, <1>13, <1>15 DEF Covered
  <2>. QED
    BY <2>1, <2>2
<1>16. Covered(q, z, more, rect)
  BY <1>15 DEF Covered
<1>17. Enclosed(more, wide)
  <2>1. Enclosed(spatials, box)
    BY DEF Sees
  <2>2. CASE mapped = {}
    BY <2>1, <2>2
  <2>3. CASE mapped # {}
    <3>1. /\ more = spatials \cup {[at |-> n + 1, rect |-> mapped]}
          /\ wide = Hull(box \cup mapped)
      BY <2>3, <1>2
    <3>2. mapped \subseteq Everywhere /\ box \subseteq Everywhere
      BY <2>1, <1>8, <1>14 DEF Enclosed, Holds
    <3>3. box \cup mapped \subseteq wide /\ wide \subseteq Everywhere
      <4>1. (-2) * Width \in Int /\ 3 * Width \in Int
        BY DisplayListAssumption
      <4>2. box \cup mapped \in SUBSET ((-2) * Width .. 3 * Width)
        BY <3>2 DEF Everywhere
      <4>3. /\ box \cup mapped \subseteq Hull(box \cup mapped)
            /\ Hull(box \cup mapped) \subseteq (-2) * Width .. 3 * Width
        BY <4>1, <4>2, HullHolds
      <4>. QED
        BY <4>3, <3>1 DEF Everywhere
    <3>4. \A item \in spatials : item.rect \subseteq box
      BY <2>1 DEF Enclosed
    <3>5. \A item \in more : item.rect \subseteq wide
      <4>1. [at |-> n + 1, rect |-> mapped].rect = mapped
        OBVIOUS
      <4>. QED
        BY <4>1, <3>1, <3>3, <3>4
    <3>. QED
      BY <3>3, <3>5 DEF Enclosed
  <2>. QED
    BY <2>2, <2>3
<1>18. Len(s) = Len(open) + 1 /\ open \in Seq(Nat)
  BY DEF Sees
<1>19. Sees(s, q, open, more, wide, rect)
  BY <1>3, <1>4, <1>6, <1>7, <1>9, <1>12, <1>16, <1>17, <1>18 DEF Sees
<1>. QED
  BY <1>1, <1>7, <1>19

\* Every restore still closes a save.
LEMMA MatchedPush ==
  ASSUME NEW o \in Seq(Operation), Matched(o), NEW op \in Operation, op.type # "restore"
  PROVE  Matched(Append(o, op))
<1>1. PICK n \in Nat : n = Len(o)
  OBVIOUS
<1>2. PICK q : q = Append(o, op)
  OBVIOUS
<1>3. Len(q) = n + 1 /\ q[n + 1] = op /\ \A i \in 1 .. n : q[i] = o[i] /\ i \in 1 .. n + 1
  BY <1>1, <1>2, Appended
<1>4. \A i \in 1 .. n + 1 : i = n + 1 \/ i \in 1 .. n
  OBVIOUS
<1>. QED
  BY <1>1, <1>2, <1>3, <1>4 DEF Matched, IsSave

\* A restore that closes a save is matched.
LEMMA MatchedRestore ==
  ASSUME NEW o \in Seq(Operation), Matched(o), NEW op \in Operation, op.type = "restore",
         NEW save \in 1 .. Len(o), IsSave(o, save), o[save].restore = 0
  PROVE  Matched(Closed(Append(o, op), save, Len(o) + 1))
<1>1. PICK n \in Nat : n = Len(o)
  OBVIOUS
<1>2. PICK q : q = Append(o, op)
  OBVIOUS
<1>3. /\ q \in Seq(Operation) /\ Len(q) = n + 1 /\ q[n + 1] = op
      /\ \A i \in 1 .. n : q[i] = o[i] /\ i \in 1 .. n + 1
  BY <1>1, <1>2, Appended
<1>4. \A i \in 1 .. n + 1 : i = n + 1 \/ i \in 1 .. n
  OBVIOUS
<1>5. PICK c : c = Closed(q, save, n + 1)
  OBVIOUS
<1>6. /\ Len(c) = n + 1
      /\ \A i \in 1 .. n + 1 : /\ c[i].restore = IF i = save THEN n + 1 ELSE q[i].restore
                               /\ c[i].type = q[i].type
  <2>1. save \in 1 .. n + 1 /\ n + 1 \in Nat
    BY <1>1
  <2>. QED
    BY <2>1, <1>3, <1>5, ClosedList
<1>7. ASSUME NEW j \in 1 .. n + 1, c[j].type = "restore"
      PROVE  \E i \in 1 .. n + 1 : IsSave(c, i) /\ c[i].restore = j
  <2>1. CASE j = n + 1
    BY <2>1, <1>1, <1>3, <1>6 DEF IsSave
  <2>2. CASE j \in 1 .. n
    <3>1. o[j].type = "restore"
      BY <2>2, <1>3, <1>6, <1>7
    <3>2. PICK i \in 1 .. n : IsSave(o, i) /\ o[i].restore = j
      BY <3>1, <2>2, <1>1 DEF Matched
    <3>3. i # save
      BY <3>2, <2>2
    <3>. QED
      BY <3>2, <3>3, <1>3, <1>6 DEF IsSave
  <2>. QED
    BY <2>1, <2>2, <1>4
<1>. QED
  BY <1>1, <1>2, <1>5, <1>6, <1>7 DEF Matched

-----------------------------------------------------------------------------
(* The first recording of a recorder                                       *)

\* A second recording goes on with the canvas of the first, whose state its list
\* does not have.
ListSees(list) ==
    /\ Matched(list.ops)
    /\ Covered(list.ops, Drawn(list.ops), list.spatialOps, list.cullRect)
    /\ Enclosed(list.spatialOps, list.bounds)

Seen == /\ recordings \in Nat
        /\ recordings = 0 => stack = FreshStack /\ ~recording /\ finished = {}
        /\ recordings = 1 =>
             /\ recording => Sees(stack, ops, saveOps, spatialOps, bounds, cullRect)
             /\ \A list \in finished : ListSees(list)

\* A recording begins with nothing drawn and the clip of its content.
LEMMA SeesStart ==
  ASSUME NEW rect \in SUBSET Picture
  PROVE  Sees(Called(FreshStack, Op("clip", rect, 0), FALSE), <<>>, <<>>, {}, {}, rect)
<1>1. PICK op \in Operation : /\ op = Op("clip", rect, 0)
                              /\ op.type = "clip" /\ op.region = rect
  <2>1. "clip" \in Kinds /\ 0 \in Int
    BY DEF Kinds, StateTypes
  <2>. QED
    BY <2>1, OpIs
<1>2. PICK b \in Entry : /\ b = [matrix |-> 0, world |-> 0, clip |-> Everywhere]
                         /\ FreshStack = <<b>>
  <2>1. Everywhere \subseteq Int
    BY DisplayListAssumption DEF Everywhere
  <2>. QED
    <3>1. PICK b : b = [matrix |-> 0, world |-> 0, clip |-> Everywhere]
      OBVIOUS
    <3>2. b \in Entry
      BY <2>1, <3>1 DEF Entry
    <3>. QED
      BY <3>1, <3>2 DEF FreshStack
<1>3. PICK s \in Stacks : s = FreshStack /\ Len(s) = 1 /\ s[1] = b
  <2>1. <<b>> \in Seq(Entry) /\ Len(<<b>>) = 1 /\ <<b>>[1] = b
    BY <1>2
  <2>2. <<b>> \in Stacks
    BY <2>1 DEF Stacks
  <2>. QED
    BY <2>1, <2>2, <1>2
<1>4. PICK t \in Stacks : t = Called(s, op, FALSE) /\ Len(t) = 1 /\ t[1] = Changed(b, op, FALSE)
  <2>1. PICK t : t = Called(s, op, FALSE)
    OBVIOUS
  <2>2. CalledAs(s, op, FALSE, t)
    BY <2>1, CalledLevels
  <2>3. op.type \in StateTypes
    BY <1>1 DEF StateTypes
  <2>. QED
    BY <2>1, <2>2, <2>3, <1>3 DEF CalledAs
<1>5. Holds(Changed(b, op, FALSE), b, rect)
  <2>1. b.matrix = 0 /\ b.world = 0 /\ b.clip = Everywhere
    BY <1>2
  <2>2. rect \subseteq Moved(rect, 0) /\ Moved(rect, 0) \subseteq Hull(Moved(rect, 0))
    <3>1. \A p \in rect : p = p + 0
      BY DEF Picture
    <3>2. rect \subseteq Moved(rect, 0)
      BY <3>1 DEF Moved
    <3>. QED
      BY <3>2, MovedInHull
  <2>3. ClipOf(b, op, op.type, FALSE) = Everywhere \cap Hull(Moved(rect, 0))
    BY <2>1, <1>1 DEF ClipOf, TrackedClip
  <2>4. /\ Changed(b, op, FALSE).matrix = 0 /\ Changed(b, op, FALSE).world = 0
        /\ Changed(b, op, FALSE).clip = Everywhere \cap Hull(Moved(rect, 0))
    BY <2>1, <2>3, <1>1 DEF Changed
  <2>. QED
    BY <2>1, <2>2, <2>4 DEF Holds
<1>6. Drawn(<<>>) = Blank
  <2>1. PICK a : a = [ops |-> <<>>]
    OBVIOUS
  <2>2. a.ops = <<>> /\ <<>> \in Seq(Operation) /\ Len(<<>>) = 0
    BY <2>1
  <2>3. 0 \in 0 .. Len(a.ops)
    BY <2>2
  <2>4. View(a, 0) = Blank
    BY <2>2, <2>3, ViewStep
  <2>. QED
    BY <2>1, <2>2, <2>4 DEF Drawn
<1>7. Blank.stack = s /\ Blank.pixels = {}
  BY <1>3 DEF Blank
<1>8. Tracks(t, s, rect)
  <2>1. \A l \in 1 .. 1 : l = 1
    OBVIOUS
  <2>. QED
    BY <2>1, <1>3, <1>4, <1>5 DEF Tracks
<1>9. Matched(<<>>)
  BY DEF Matched
<1>10. /\ <<>> \in Seq(Operation) /\ <<>> \in Seq(Nat) /\ Len(<<>>) = 0
  OBVIOUS
<1>11. Covered(<<>>, Blank, {}, rect) /\ Enclosed({}, {})
  BY <1>7 DEF Covered, Enclosed
<1>12. Sees(t, <<>>, <<>>, {}, {}, rect)
  <2>1. \A i, p : <<i, p>> \in Drawn(<<>>).pixels => i \in 1 .. Len(<<>>)
    BY <1>6, <1>7
  <2>2. Tracks(t, Drawn(<<>>).stack, rect)
    BY <1>6, <1>7, <1>8
  <2>3. Len(t) = Len(<<>>) + 1
    <3>1. Len(t) = 1 /\ Len(<<>>) = 0
      BY <1>4
    <3>. QED
      BY <3>1
  <2>4. Covered(<<>>, Drawn(<<>>), {}, rect)
    BY <1>6, <1>11
  <2>. QED
    BY <2>1, <2>2, <2>3, <2>4, <1>9, <1>10, <1>11 DEF Sees
<1>. QED
  BY <1>1, <1>3, <1>4, <1>12

\* Saves, and what changes the state of the canvas.
LEMMA SeesSave ==
  ASSUME NEW s, NEW o, NEW open, NEW spatials, NEW box, NEW rect,
         Sees(s, o, open, spatials, box, rect),
         NEW op \in Operation, op.type \in SaveTypes
  PROVE  Sees(Called(s, op, FALSE), Append(o, op), Append(open, Len(o) + 1), spatials, box, rect)
<1>1. o \in Seq(Operation) /\ open \in Seq(Nat) /\ Matched(o) /\ Len(s) = Len(open) + 1
      /\ s \in Stacks /\ Len(o) + 1 \in Nat
  BY DEF Sees, Tracks
<1>2. PICK p \in Seq(Nat) : p = Append(open, Len(o) + 1) /\ Len(p) = Len(open) + 1
  BY <1>1, Appended
<1>3. PICK t : t = Called(s, op, FALSE)
  OBVIOUS
<1>4. CalledAs(s, op, FALSE, t)
  BY <1>1, <1>3, CalledLevels
<1>5. Len(t) = Len(p) + 1
  BY <1>1, <1>2, <1>4 DEF CalledAs
<1>6. op.type # "restore" /\ op.type \notin DrawKinds
  BY DEF SaveTypes, DrawKinds
<1>7. Matched(Append(o, op)) /\ Adds(o, Append(o, op), op)
  BY <1>1, <1>6, MatchedPush, AppendAdds
<1>. QED
  BY <1>2, <1>3, <1>5, <1>6, <1>7, SeesCall

\* State calls leave the open saves alone.
LEMMA SeesState ==
  ASSUME NEW s, NEW o, NEW open, NEW spatials, NEW box, NEW rect,
         Sees(s, o, open, spatials, box, rect),
         NEW op \in Operation, op.type \in StateTypes
  PROVE  Sees(Called(s, op, FALSE), Append(o, op), open, spatials, box, rect)
<1>1. o \in Seq(Operation) /\ open \in Seq(Nat) /\ Matched(o) /\ Len(s) = Len(open) + 1
      /\ s \in Stacks
  BY DEF Sees, Tracks
<1>2. PICK t : t = Called(s, op, FALSE)
  OBVIOUS
<1>3. CalledAs(s, op, FALSE, t)
  BY <1>1, <1>2, CalledLevels
<1>4. Len(t) = Len(open) + 1
  BY <1>1, <1>3 DEF CalledAs
<1>5. op.type # "restore" /\ op.type \notin DrawKinds
  BY DEF StateTypes, DrawKinds
<1>6. Matched(Append(o, op)) /\ Adds(o, Append(o, op), op)
  BY <1>1, <1>5, MatchedPush, AppendAdds
<1>. QED
  BY <1>1, <1>2, <1>4, <1>5, <1>6, SeesCall

\* A restore closes the innermost save; the first recording has one.
LEMMA SeesRestore ==
  ASSUME NEW s, NEW o, NEW open, NEW spatials, NEW box, NEW rect,
         Sees(s, o, open, spatials, box, rect), Nested(o, open), Len(s) > 1,
         NEW op \in Operation, op.type = "restore"
  PROVE  /\ open # <<>>
         /\ Sees(Called(s, op, FALSE), Closed(Append(o, op), Top(open), Len(o) + 1),
                 Front(open), spatials, box, rect)
<1>1. o \in Seq(Operation) /\ open \in Seq(Nat) /\ Matched(o) /\ Len(s) = Len(open) + 1
      /\ s \in Stacks
  BY DEF Sees, Tracks
<1>2. open # <<>>
  BY <1>1
<1>3. PICK p \in Seq(Nat), d \in Nat : /\ p = Front(open) /\ d = Len(open) /\ d > 0
                                       /\ Len(p) = d - 1 /\ Top(open) = open[d]
  BY <1>1, <1>2, Shortened
<1>4. PICK save \in 1 .. Len(o) : save = Top(open) /\ IsSave(o, save) /\ o[save].restore = 0
  <2>1. d \in 1 .. Len(open)
    BY <1>3
  <2>. QED
    BY <2>1, <1>3 DEF Nested
<1>5. PICK t : t = Called(s, op, FALSE)
  OBVIOUS
<1>6. CalledAs(s, op, FALSE, t)
  BY <1>1, <1>5, CalledLevels
<1>7. Len(t) = Len(p) + 1
  BY <1>1, <1>3, <1>6 DEF CalledAs
<1>8. op.type \notin DrawKinds
  BY DEF DrawKinds
<1>9. PICK q : q = Closed(Append(o, op), save, Len(o) + 1)
  OBVIOUS
<1>10. Matched(q) /\ Adds(o, q, op)
  BY <1>1, <1>4, <1>9, MatchedRestore, CloseAdds
<1>11. Sees(t, q, p, spatials, box, rect)
  BY <1>5, <1>7, <1>8, <1>10, SeesCall
<1>. QED
  BY <1>2, <1>3, <1>4, <1>5, <1>9, <1>11

\* Nothing is recorded at first.
LEMMA SeenInit ==
  ASSUME Init PROVE Seen
<1>1. stack = FreshStack /\ ~recording /\ finished = {} /\ recordings = 0
  BY DEF Init
<1>. QED
  BY <1>1 DEF Seen

\* Every step of the recorder keeps what the builder knows of the drawing.
LEMMA SeenStep ==
  ASSUME Paired, Seen, [Next]_vars
  PROVE  Seen'
<1>. DEFINE Now == Sees(stack, ops, saveOps, spatialOps, bounds, cullRect)
<1>1. Nested(ops, saveOps) /\ ops \in Seq(Operation) /\ saveOps \in Seq(Nat)
  BY DEF Paired, Nested
<1>2. {} \in SUBSET Picture /\ 0 \in Int
  OBVIOUS
<1>3. SaveTypes \subseteq Kinds /\ StateTypes \subseteq Kinds /\ DrawKinds \subseteq Kinds
      /\ "restore" \in Kinds
  BY DEF Kinds
<1>4. ASSUME recording, recordings' = recordings, finished' = finished, Now => Now'
      PROVE  Seen'
  <2>1. recordings \in Nat /\ recordings # 0
    BY <1>4 DEF Seen
  <2>2. recordings = 1 => Now'
    BY <1>4 DEF Seen
  <2>. HIDE DEF Now
  <2>3. recordings = 1 => \A list \in finished : ListSees(list)
    BY DEF Seen
  <2>. QED
    BY <2>1, <2>2, <2>3, <1>4 DEF Seen, Now
<1>5. ASSUME NEW rect \in Recorded, BeginRecording(rect) PROVE Seen'
  <2>1. rect \in SUBSET Picture
    BY DisplayListAssumption DEF Picture
  <2>2. recordings \in Nat /\ recordings' = recordings + 1
    BY <1>5 DEF Seen, BeginRecording
  <2>3. CASE recordings = 0
    <3>1. stack = FreshStack /\ finished' = {}
      BY <2>3, <1>5 DEF Seen, BeginRecording
    <3>2. Now'
      BY <3>1, <2>1, <1>5, SeesStart DEF BeginRecording
    <3>. HIDE DEF Now
    <3>. QED
      BY <2>2, <2>3, <3>1, <3>2 DEF Seen, Now
  <2>4. CASE recordings # 0
    <3>1. recordings' \in Nat /\ recordings' # 0 /\ recordings' # 1
      BY <2>2, <2>4
    <3>. QED
      BY <3>1 DEF Seen
  <2>. QED
    BY <2>3, <2>4
<1>6. ASSUME Save PROVE Seen'
  <2>1. PICK op \in Operation : op = Op("save", {}, 0) /\ op.type \in SaveTypes
    <3>1. "save" \in SaveTypes
      BY DEF SaveTypes
    <3>. QED
      BY <3>1, <1>2, <1>3, OpIs
  <2>2. /\ stack' = Called(stack, op, FALSE)
        /\ ops' = Append(ops, op) /\ saveOps' = Append(saveOps, Len(ops) + 1)
        /\ spatialOps' = spatialOps /\ bounds' = bounds /\ cullRect' = cullRect
        /\ recording /\ recordings' = recordings /\ finished' = finished
    BY <1>6, <2>1 DEF Save, Push, Call, Unpainted
  <2>3. Now => Now'
    BY <2>1, <2>2, SeesSave
  <2>. QED
    BY <2>2, <2>3, <1>4
<1>7. ASSUME NEW region \in Shapes, NEW paint \in LayerPaints, SaveLayer(Hull(region), paint)
      PROVE  Seen'
  <2>1. PICK op \in Operation : op = LayerOp(Hull(region), paint) /\ op.type \in SaveTypes
    <3>1. "saveLayer" \in SaveTypes
      BY DEF SaveTypes
    <3>. QED
      BY <3>1, LayerOpIs, ShapesAre
  <2>2. /\ stack' = Called(stack, op, FALSE)
        /\ ops' = Append(ops, op) /\ saveOps' = Append(saveOps, Len(ops) + 1)
        /\ spatialOps' = spatialOps /\ bounds' = bounds /\ cullRect' = cullRect
        /\ recording /\ recordings' = recordings /\ finished' = finished
    BY <1>7, <2>1 DEF SaveLayer, Push, Call, Unpainted
  <2>3. Now => Now'
    BY <2>1, <2>2, SeesSave
  <2>. QED
    BY <2>2, <2>3, <1>4
<1>8. ASSUME NEW region \in Shapes, RejectedSaveLayer(Hull(region)) PROVE Seen'
  <2>1. PICK op \in Operation : op = Op("save", {}, 0) /\ op.type \in SaveTypes
    <3>1. "save" \in SaveTypes
      BY DEF SaveTypes
    <3>. QED
      BY <3>1, <1>2, <1>3, OpIs
  <2>2. PICK clip \in Operation : clip = Op("clip", {}, 0) /\ clip.type \in StateTypes
    <3>1. "clip" \in StateTypes
      BY DEF StateTypes
    <3>. QED
      BY <3>1, <1>2, <1>3, OpIs
  <2>3. PICK q : q = Append(ops, op)
    OBVIOUS
  <2>4. PICK s : s = Called(stack, op, FALSE)
    OBVIOUS
  <2>5. /\ stack' = Called(s, clip, FALSE)
        /\ ops' = Append(q, clip) /\ saveOps' = Append(saveOps, Len(ops) + 1)
        /\ spatialOps' = spatialOps /\ bounds' = bounds /\ cullRect' = cullRect
        /\ recording /\ recordings' = recordings /\ finished' = finished
    BY <1>8, <2>1, <2>2, <2>3, <2>4 DEF RejectedSaveLayer, Call, Unpainted
  <2>6. Now => Sees(s, q, Append(saveOps, Len(ops) + 1), spatialOps, bounds, cullRect)
    BY <2>1, <2>3, <2>4, SeesSave
  <2>7. Now => Now'
    BY <2>2, <2>5, <2>6, SeesState
  <2>. QED
    BY <2>5, <2>7, <1>4
<1>9. ASSUME Restore PROVE Seen'
  <2>1. PICK op \in Operation : op = Op("restore", {}, 0) /\ op.type = "restore"
    BY <1>2, <1>3, OpIs
  <2>2. /\ stack' = Called(stack, op, FALSE) /\ Len(stack) > 1
        /\ spatialOps' = spatialOps /\ bounds' = bounds /\ cullRect' = cullRect
        /\ recording /\ recordings' = recordings /\ finished' = finished
    BY <1>9, <2>1 DEF Restore, Call, Unpainted
  <2>3. Len(Append(ops, op)) = Len(ops) + 1
    BY <1>1, Appended
  <2>4. saveOps # <<>> => /\ ops' = Closed(Append(ops, op), Top(saveOps), Len(ops) + 1)
                          /\ saveOps' = Front(saveOps)
    BY <1>9, <2>1, <2>3 DEF Restore
  <2>5. Now => Now'
    <3>. SUFFICES ASSUME Now PROVE Now'
      OBVIOUS
    <3>1. /\ saveOps # <<>>
          /\ Sees(Called(stack, op, FALSE), Closed(Append(ops, op), Top(saveOps), Len(ops) + 1),
                  Front(saveOps), spatialOps, bounds, cullRect)
      BY <1>1, <2>1, <2>2, SeesRestore
    <3>. QED
      BY <3>1, <2>2, <2>4
  <2>. QED
    BY <2>2, <2>5, <1>4
<1>10. ASSUME NEW op \in Operation, op.type \in StateTypes, StateCall(op) PROVE Seen'
  <2>1. /\ stack' = Called(stack, op, FALSE)
        /\ ops' = Append(ops, op) /\ saveOps' = saveOps
        /\ spatialOps' = spatialOps /\ bounds' = bounds /\ cullRect' = cullRect
        /\ recording /\ recordings' = recordings /\ finished' = finished
    BY <1>10 DEF StateCall, Push, Call, Unpainted
  <2>2. Now => Now'
    BY <2>1, <1>10, SeesState
  <2>. QED
    BY <2>1, <2>2, <1>4
<1>11. ASSUME NEW by \in Deltas, Translate(by) PROVE Seen'
  <2>1. by \in Int /\ "translate" \in Kinds /\ "translate" \in StateTypes
    BY DisplayListAssumption DEF Kinds, StateTypes
  <2>. QED
    BY <2>1, <1>2, <1>10, <1>11, OpIs DEF Translate
<1>12. ASSUME ResetMatrix PROVE Seen'
  <2>1. "resetMatrix" \in Kinds /\ "resetMatrix" \in StateTypes
    BY DEF Kinds, StateTypes
  <2>. QED
    BY <2>1, <1>2, <1>10, <1>12, OpIs DEF ResetMatrix
<1>13. ASSUME NEW region \in Shapes, ClipTo(region) \/ ClipOut(region) PROVE Seen'
  <2>1. /\ "clip" \in Kinds /\ "clip" \in StateTypes
        /\ "clipOut" \in Kinds /\ "clipOut" \in StateTypes
    BY DEF Kinds, StateTypes
  <2>2. region \in SUBSET Picture
    BY ShapesAre
  <2>. QED
    BY <2>1, <2>2, <1>2, <1>10, <1>13, OpIs DEF ClipTo, ClipOut
<1>14. ASSUME NEW type \in DrawTypes, NEW region \in Drawable(type), Draw(type, region) PROVE Seen'
  <2>1. type \in DrawKinds
    BY DisplayListAssumption DEF DrawKinds
  <2>2. PICK op \in Operation : op = Op(type, region, 0) /\ op.type = type /\ op.region = region
    BY <2>1, <1>2, <1>3, OpIs, DrawableIs
  <2>3. PICK raw : raw = RawBounds(type, region)
    OBVIOUS
  <2>4. PICK mapped : mapped = Moved(raw, Top(stack).matrix) \cap Top(stack).clip
    OBVIOUS
  <2>5. /\ stack' = Called(stack, op, FALSE)
        /\ ops' = Append(ops, op) /\ saveOps' = saveOps /\ cullRect' = cullRect
        /\ recording /\ recordings' = recordings /\ finished' = finished
    BY <1>14, <2>2 DEF Draw, Push, Call
  <2>6. IF mapped = {} THEN spatialOps' = spatialOps /\ bounds' = bounds
        ELSE /\ spatialOps' = spatialOps \cup {[at |-> Len(ops) + 1, rect |-> mapped]}
             /\ bounds' = Hull(bounds \cup mapped)
    BY <1>14, <2>3, <2>4 DEF Draw, AccumulateOpBounds, Unpainted
  <2>7. raw = IF op.type = "shape" THEN Hull(op.region) ELSE Top(stack).clip
    BY <2>2, <2>3 DEF RawBounds
  <2>8. Now => Sees(Called(stack, op, FALSE), Append(ops, op), saveOps, spatialOps', bounds',
                    cullRect)
    <3>. SUFFICES ASSUME Now
                  PROVE  Sees(Called(stack, op, FALSE), Append(ops, op), saveOps, spatialOps',
                              bounds', cullRect)
      OBVIOUS
    <3>1. PICK more, wide : more = spatialOps' /\ wide = bounds'
      OBVIOUS
    <3>2. op.type \in DrawKinds
      BY <2>1, <2>2
    <3>3. IF mapped = {} THEN more = spatialOps /\ wide = bounds
          ELSE /\ more = spatialOps \cup {[at |-> Len(ops) + 1, rect |-> mapped]}
               /\ wide = Hull(bounds \cup mapped)
      BY <2>6, <3>1
    <3>4. Sees(Called(stack, op, FALSE), Append(ops, op), saveOps, more, wide, cullRect)
      BY <2>4, <2>7, <3>2, <3>3, SeesDraw
    <3>. QED
      BY <3>1, <3>4
  <2>9. Now => Now'
    BY <2>5, <2>8
  <2>. QED
    BY <2>5, <2>9, <1>4
<1>15. ASSUME FinishRecording PROVE Seen'
  <2>1. PICK list : list = [ops |-> ClosedAtTheEnd, spatialOps |-> spatialOps,
                            bounds |-> bounds, cullRect |-> cullRect]
    OBVIOUS
  <2>2. /\ list.ops = ClosedAtTheEnd /\ list.spatialOps = spatialOps
        /\ list.bounds = bounds /\ list.cullRect = cullRect
    BY <2>1
  <2>3. finished' = {list} /\ ~recording' /\ recordings' = recordings /\ recording
    BY <2>1, <1>15 DEF FinishRecording
  <2>4. recordings \in Nat /\ recordings # 0 /\ (recordings = 1 => Now)
    BY <2>3 DEF Seen
  <2>5. PICK q : q = ClosedAtTheEnd
    OBVIOUS
  <2>6. /\ WellNested(q) /\ SameDrawing(ops, q) /\ (Matched(ops) => Matched(q))
    BY <2>5, <1>1, NestedFinish DEF ClosedAtTheEnd
  <2>7. PICK n \in Nat : n = Len(ops) /\ n = Len(q)
    BY <2>6, <1>1 DEF SameDrawing
  <2>8. Drawn(q) = Drawn(ops)
    <3>1. PICK a : a = [ops |-> ops]
      OBVIOUS
    <3>2. PICK b : b = [ops |-> q]
      OBVIOUS
    <3>3. a.ops = ops /\ b.ops = q
      BY <3>1, <3>2
    <3>4. q \in Seq(Operation)
      BY <2>6 DEF WellNested
    <3>5. \A i \in 1 .. n : /\ a.ops[i].type = b.ops[i].type
                            /\ a.ops[i].region = b.ops[i].region
                            /\ a.ops[i].by = b.ops[i].by
      BY <3>3, <2>6, <2>7 DEF SameDrawing
    <3>6. n <= Len(a.ops) /\ n <= Len(b.ops)
      BY <3>3, <2>7
    <3>7. View(a, n) = View(b, n)
      BY <3>3, <3>4, <3>5, <3>6, <1>1, ViewSame
    <3>. QED
      BY <3>1, <3>2, <3>7, <2>7 DEF Drawn
  <2>9. ASSUME Now PROVE ListSees(list)
    <3>1. Matched(q)
      BY <2>6, <2>9 DEF Sees
    <3>2. \A i, p : <<i, p>> \in Drawn(ops).pixels => i \in 1 .. n
      BY <2>7, <2>9 DEF Sees
    <3>3. \A i \in 1 .. n : ops[i].type = q[i].type
      BY <2>6, <2>7 DEF SameDrawing
    <3>4. Covered(ops, Drawn(ops), spatialOps, cullRect) /\ Enclosed(spatialOps, bounds)
      BY <2>9 DEF Sees
    <3>5. Covered(q, Drawn(q), spatialOps, cullRect)
      BY <2>8, <3>2, <3>3, <3>4 DEF Covered
    <3>. QED
      BY <2>2, <2>5, <3>1, <3>4, <3>5 DEF ListSees
  <2>. HIDE DEF Now
  <2>. QED
    BY <2>3, <2>4, <2>9 DEF Seen
<1>16. ASSUME UNCHANGED vars PROVE Seen'
  BY <1>16 DEF vars, Seen
<1>. QED
  BY <1>5, <1>6, <1>7, <1>8, <1>9, <1>11, <1>12, <1>13, <1>14, <1>15, <1>16 DEF Next

\* In every state of the recorder both invariants hold.
LEMMA SeenHolds == Spec => [](Paired /\ Seen)
<1>. QED
  BY PairedInit, PairedStep, SeenInit, SeenStep, PTL DEF Spec

\* The whole replay of a list shows what its operations show.
LEMMA WholeIs ==
  ASSUME NEW list, list.ops \in Seq(Operation)
  PROVE  /\ Shown(list, FullReplay(list)) = Drawn(list.ops)
         /\ Shown(list, FullReplay(list)) = View(list, Len(list.ops))
         /\ Drawn(list.ops) \in Screens
<1>1. PICK n \in Nat : n = Len(list.ops) /\ n \in 0 .. Len(list.ops)
  OBVIOUS
<1>2. FullReplay(list) = [i \in 1 .. n |-> i]
  BY <1>1 DEF FullReplay
<1>3. Shown(list, FullReplay(list)) = View(list, n)
  BY <1>2 DEF View
<1>4. View(list, n) = View([ops |-> list.ops], n) /\ View(list, n) \in Screens
  BY <1>1, DrawnIs
<1>. QED
  BY <1>1, <1>3, <1>4 DEF Drawn

\* What is in no layer with a filter shows where it is drawn.
LEMMA ComposedIs ==
  ASSUME NEW list, NEW calls, NEW i, Filters(list, i) = {}, list.ops[i].paint # "blend", NEW p
  PROVE  <<i, p>> \in Composed(list, calls) <=> <<i, p>> \in Shown(list, calls).pixels
<1>. DEFINE blends == {s \in ToSet(calls) : list.ops[s].paint = "blend"}
            changed == UNION {{s} \X ClipBefore(list, calls, s + 1) : s \in blends}
            drawn == Shown(list, calls).pixels \cup changed
            spread == {k \in {pair[1] : pair \in drawn} : Filters(list, k) /= {}}
            beyond == UNION {{k} \X ClipBefore(list, calls, Min(Filters(list, k))) : k \in spread}
<1>1. Composed(list, calls) = {pair \in drawn : pair[1] \notin spread} \cup beyond
  BY DEF Composed
<1>2. <<i, p>> \notin changed
  OBVIOUS
<1>3. i \notin spread
  OBVIOUS
<1>4. <<i, p>> \notin beyond
  <2>. HIDE DEF spread
  <2>. QED
    BY <1>3
<1>5. <<i, p>> \in drawn <=> <<i, p>> \in Shown(list, calls).pixels
  <2>. HIDE DEF changed
  <2>. QED
    BY <1>2
<1>. HIDE DEF drawn, spread, beyond
<1>. QED
  BY <1>1, <1>3, <1>4, <1>5

\* The operations that a list has right show where they are drawn, and the
\* glyphs and DrawPaints among them are drawn under no matrix.
LEMMA InPlaceIs ==
  ASSUME NEW list, list.ops \in Seq(Operation), NEW i \in DOMAIN list.ops \ Misplaced(list)
  PROVE  /\ \A calls, p : <<i, p>> \in Composed(list, calls)
                            <=> <<i, p>> \in Shown(list, calls).pixels
         /\ i \in Shown(list, FullReplay(list)).moved => list.ops[i].type = "shape"
<1>1. Filters(list, i) = {} /\ list.ops[i].paint # "blend"
  BY DEF Misplaced
<1>2. i \in Shown(list, FullReplay(list)).moved => list.ops[i].type = "shape"
  BY DEF Misplaced
<1>. QED
  BY <1>1, <1>2, ComposedIs

\* What is in a recorded rectangle is in the bounds.
LEMMA SeenIsInBounds ==
  ASSUME Paired, Seen, recordings <= 1 PROVE DrawingIsInBounds
<1>1. SUFFICES ASSUME NEW list \in finished,
                      NEW pair \in Composed(list, FullReplay(list))
                               \cap ((DOMAIN list.ops \ Misplaced(list)) \X list.cullRect)
               PROVE  pair[2] \in list.bounds
  BY DEF DrawingIsInBounds
<1>2. ListSees(list)
  <2>1. recordings = 0 \/ recordings = 1
    BY DEF Seen
  <2>. QED
    BY <2>1 DEF Seen
<1>3. list.ops \in Seq(Operation)
  BY DEF Paired, WellNested
<1>4. Shown(list, FullReplay(list)) = Drawn(list.ops)
  BY <1>3, WholeIs
<1>5. PICK i \in DOMAIN list.ops \ Misplaced(list), p \in list.cullRect :
        pair = <<i, p>> /\ <<i, p>> \in Composed(list, FullReplay(list))
  OBVIOUS
<1>6. /\ <<i, p>> \in Shown(list, FullReplay(list)).pixels
      /\ i \in Shown(list, FullReplay(list)).moved => list.ops[i].type = "shape"
  BY <1>3, <1>5, InPlaceIs
<1>7. PICK item \in list.spatialOps : item.at = i /\ p \in item.rect
  BY <1>2, <1>4, <1>6 DEF ListSees, Covered
<1>8. p \in list.bounds
  BY <1>2, <1>7 DEF ListSees, Enclosed
<1>. QED
  BY <1>5, <1>8

\* What is in a recorded rectangle that meets the cull rectangle is a target, and
\* targets show in a culled replay what they show in the whole one.
LEMMA SeenShowsTheRect ==
  ASSUME Paired, Seen, recordings <= 1 PROVE CulledReplayShowsTheRect
<1>1. SUFFICES ASSUME NEW list \in finished, NEW rect \in Rects
               PROVE  LET inside == (DOMAIN list.ops \ Misplaced(list)) \X (rect \cap list.cullRect)
                      IN  Composed(list, CulledReplay(list, rect)) \cap inside
                              = Composed(list, FullReplay(list)) \cap inside
  BY DEF CulledReplayShowsTheRect, SameInside
<1>2. PICK draws : draws = DOMAIN list.ops \ Misplaced(list)
  OBVIOUS
<1>3. ListSees(list) /\ WellNested(list.ops) /\ list.ops \in Seq(Operation)
  <2>1. recordings = 0 \/ recordings = 1
    BY DEF Seen
  <2>2. ListSees(list)
    BY <2>1 DEF Seen
  <2>. QED
    BY <2>2 DEF Paired, WellNested
<1>4. PICK whole \in Screens : /\ whole = Shown(list, FullReplay(list))
                               /\ whole = View(list, Len(list.ops)) /\ whole = Drawn(list.ops)
  BY <1>3, WholeIs
<1>5. PICK targets : targets = Search(list, rect)
  OBVIOUS
<1>6. TargetsOf(list.ops, targets)
  BY <1>5 DEF TargetsOf, Search, Paired, ItemsAt
<1>7. PICK culled : culled = Shown(list, CulledReplay(list, rect)).pixels
  OBVIOUS
<1>8. /\ \A t, p : <<t, p>> \in culled => t \in targets
      /\ \A t \in targets, p \in Int : <<t, p>> \in culled <=> <<t, p>> \in whole.pixels
  <2>1. CASE targets = {}
    <3>1. CulledReplay(list, rect) = <<>>
      BY <2>1, <1>5 DEF CulledReplay
    <3>2. Shown(list, <<>>) = Blank
      <4>1. <<>> \in Seq(1 .. Len(list.ops))
        OBVIOUS
      <4>. QED
        BY <4>1, <1>3, ShownAppend
    <3>3. culled = {}
      BY <3>1, <3>2, <1>7 DEF Blank
    <3>. QED
      BY <2>1, <3>3
  <2>2. CASE targets # {}
    <3>1. CulledReplay(list, rect) = Replay(list, targets)
      BY <2>2, <1>5 DEF CulledReplay
    <3>2. Matched(list.ops)
      BY <1>3 DEF ListSees
    <3>. QED
      BY <3>1, <3>2, <1>3, <1>4, <1>6, <1>7, ReplayShows
  <2>. QED
    BY <2>1, <2>2
<1>9. ASSUME NEW i \in draws, NEW p \in rect \cap list.cullRect
      PROVE  <<i, p>> \in culled <=> <<i, p>> \in whole.pixels
  <2>1. p \in Int
    <3>1. rect \subseteq Int
      BY DEF Rects, Picture
    <3>. QED
      BY <3>1
  <2>2. ASSUME <<i, p>> \in culled PROVE <<i, p>> \in whole.pixels
    BY <2>1, <2>2, <1>8
  <2>3. ASSUME <<i, p>> \in whole.pixels PROVE <<i, p>> \in culled
    <3>1. i \in whole.moved => list.ops[i].type = "shape"
      BY <1>2, <1>3, <1>4, InPlaceIs
    <3>2. PICK item \in list.spatialOps : item.at = i /\ p \in item.rect
      BY <2>3, <3>1, <1>3, <1>4 DEF ListSees, Covered
    <3>3. i \in targets
      BY <3>2, <1>5 DEF Search
    <3>. QED
      BY <3>3, <2>1, <2>3, <1>8
  <2>. QED
    BY <2>2, <2>3
<1>10. PICK a, b : a = Composed(list, CulledReplay(list, rect)) /\ b = Composed(list, FullReplay(list))
  OBVIOUS
<1>11. ASSUME NEW i \in draws, NEW p
       PROVE  (<<i, p>> \in a <=> <<i, p>> \in culled) /\ (<<i, p>> \in b <=> <<i, p>> \in whole.pixels)
  BY <1>2, <1>3, <1>4, <1>7, <1>10, InPlaceIs
<1>12. PICK inside : inside = draws \X (rect \cap list.cullRect)
  OBVIOUS
<1>13. a \cap inside = b \cap inside
  <2>1. \A pair \in inside : pair \in a <=> pair \in b
    <3>. TAKE pair \in inside
    <3>1. PICK i \in draws, p \in rect \cap list.cullRect : pair = <<i, p>>
      BY <1>12
    <3>. QED
      BY <3>1, <1>9, <1>11
  <2>. QED
    BY <2>1
<1>. QED
  BY <1>2, <1>10, <1>12, <1>13

\* The bounds of the list of a first recording cover what its operations show of
\* its content, but for the misplaced ones: glyphs and DrawPaints recorded under a
\* matrix, the contents of filtered layers, and what a blend mode does to a layer.
THEOREM DrawingsAreInBounds == Spec => [](recordings <= 1 => DrawingIsInBounds)
<1>. QED
  BY SeenHolds, SeenIsInBounds, PTL

\* Culled to a rectangle, the list of a first recording shows of its operations in
\* it what the whole list shows of them there, but for the misplaced ones.
THEOREM CulledReplaysShowTheRect == Spec => [](recordings <= 1 => CulledReplayShowsTheRect)
<1>. QED
  BY SeenHolds, SeenShowsTheRect, PTL

-----------------------------------------------------------------------------
(* The R-tree.  A deal: each child of a generation goes to some family, and *)
(* there are fewer families than children.                                  *)

\* There are parents for a generation of nodes, and at most half as many.
LEMMA FewFamilies ==
  ASSUME NEW n \in Nat, n > 0
  PROVE  /\ Families(n) \in Nat \ {0} /\ Families(n) <= n
         /\ n > 1 => Families(n) + Families(n) <= n
<1>1. PICK B \in Nat : B = BranchFactor /\ B >= 3
  BY RTreeAssumption
<1>2. PICK m \in Nat : m = n + B - 1
  BY <1>1
<1>3. PICK q \in Nat : q = m \div B
  BY <1>1
<1>4. q * B <= m /\ m < q * B + B
  BY <1>1, <1>3
<1>5. q > 0
  <2>1. q = 0 => m < B
    BY <1>4, <1>1
  <2>. QED
    BY <2>1, <1>2, <1>1
<1>6. PICK p \in Nat : q = p + 1
  <2>1. q - 1 \in Nat /\ q = (q - 1) + 1
    BY <1>5
  <2>. QED
    BY <2>1
<1>7. p * B <= n - 1
  <2>1. q * B = p * B + B
    BY <1>6, <1>1
  <2>. QED
    BY <2>1, <1>1, <1>2, <1>4
<1>8. 3 * p <= p * B
  BY <1>1
<1>9. 3 * p <= n - 1
  BY <1>7, <1>8, <1>1
<1>10. Families(n) = q
  BY <1>1, <1>2, <1>3 DEF Families
<1>. QED
  BY <1>5, <1>6, <1>9, <1>10

\* The members of a sequence with one more.
LEMMA MembersOfAppend ==
  ASSUME NEW S, NEW s \in Seq(S), NEW x \in S
  PROVE  /\ Append(s, x) \in Seq(S) /\ Append(s, x) # <<>>
         /\ Len(Append(s, x)) = Len(s) + 1
         /\ ToSet(Append(s, x)) = ToSet(s) \cup {x}
<1>1. PICK t : t = Append(s, x)
  OBVIOUS
<1>2. /\ t \in Seq(S) /\ t # <<>> /\ Len(t) = Len(s) + 1 /\ Len(s) \in Nat
      /\ \A i \in 1 .. Len(s) : t[i] = s[i]
      /\ t[Len(s) + 1] = x
  BY <1>1, AppendProperties
<1>3. PICK n \in Nat : n = Len(s)
  BY <1>2
<1>4. DOMAIN s = 1 .. n /\ DOMAIN t = 1 .. n + 1 /\ \A i \in 1 .. n : i \in 1 .. n + 1
  BY <1>2, <1>3
<1>5. \A i \in 1 .. n + 1 : i = n + 1 \/ i \in 1 .. n
  OBVIOUS
<1>6. n + 1 \in 1 .. n + 1
  OBVIOUS
<1>7. ToSet(t) = ToSet(s) \cup {x}
  BY <1>2, <1>3, <1>4, <1>5, <1>6, Zenon DEF ToSet
<1>. QED
  BY <1>1, <1>2, <1>7

\* The children in some families.
InFamilies(families) == UNION {ToSet(families[i]) : i \in DOMAIN families}

\* A family more, with one child.
LEMMA OpenedIs ==
  ASSUME NEW S, NEW families \in Seq(Seq(S)), NEW child \in S
  PROVE  /\ Opened(families, child) \in Seq(Seq(S)) /\ Opened(families, child) # <<>>
         /\ Len(Opened(families, child)) = Len(families) + 1
         /\ InFamilies(Opened(families, child)) = InFamilies(families) \cup {child}
<1>1. PICK one : one = <<child>>
  OBVIOUS
<1>2. one \in Seq(S) /\ ToSet(one) = {child}
  BY <1>1 DEF ToSet
<1>3. PICK t : t = Append(families, one)
  OBVIOUS
<1>4. PICK n \in Nat : n = Len(families)
  OBVIOUS
<1>5. /\ t \in Seq(Seq(S)) /\ t # <<>> /\ Len(t) = n + 1
      /\ \A i \in 1 .. n : t[i] = families[i]
      /\ t[n + 1] = one
  BY <1>2, <1>3, <1>4, AppendProperties
<1>6. DOMAIN families = 1 .. n /\ DOMAIN t = 1 .. n + 1
  BY <1>4, <1>5
<1>7. /\ \A i \in 1 .. n + 1 : i = n + 1 \/ i \in 1 .. n
      /\ n + 1 \in 1 .. n + 1
      /\ \A i \in 1 .. n : i \in 1 .. n + 1
  OBVIOUS
<1>8. ASSUME NEW x PROVE x \in InFamilies(t) <=> x \in InFamilies(families) \/ x = child
  <2>1. x \in InFamilies(t) <=> \E i \in 1 .. n + 1 : x \in ToSet(t[i])
    BY <1>6 DEF InFamilies
  <2>2. x \in InFamilies(families) <=> \E i \in 1 .. n : x \in ToSet(families[i])
    BY <1>6 DEF InFamilies
  <2>. QED
    BY <2>1, <2>2, <1>2, <1>5, <1>7
<1>9. InFamilies(t) = InFamilies(families) \cup {child}
  BY <1>8
<1>10. Opened(families, child) = t
  BY <1>1, <1>3 DEF Opened
<1>. QED
  BY <1>4, <1>5, <1>9, <1>10

\* A child more in the last family.
WithLast(families, child, t) ==
    t = [families EXCEPT ![Len(families)] = Append(@, child)]

\* It is the only child added.
LEMMA LastFamilyGrows ==
  ASSUME NEW S, NEW families \in Seq(Seq(S)), families # <<>>, NEW child \in S,
         NEW t, WithLast(families, child, t)
  PROVE  /\ t \in Seq(Seq(S)) /\ t # <<>> /\ Len(t) = Len(families)
         /\ t[Len(t)] # <<>>
         /\ InFamilies(t) = InFamilies(families) \cup {child}
<1>1. PICK n \in Nat : n = Len(families)
  OBVIOUS
<1>2. n \in 1 .. n /\ DOMAIN families = 1 .. n /\ \A i \in 1 .. n : families[i] \in Seq(S)
  BY <1>1
<1>3. PICK last : last = Append(families[n], child)
  OBVIOUS
<1>4. /\ last \in Seq(S) /\ last # <<>>
      /\ ToSet(last) = ToSet(families[n]) \cup {child}
  BY <1>2, <1>3, MembersOfAppend
<1>5. t = [i \in 1 .. n |-> IF i = n THEN last ELSE families[i]]
  BY <1>1, <1>2, <1>3 DEF WithLast
<1>6. DOMAIN t = 1 .. n /\ \A i \in 1 .. n : t[i] = IF i = n THEN last ELSE families[i]
  BY <1>5
<1>7. \A i \in 1 .. n : t[i] \in Seq(S)
  BY <1>2, <1>4, <1>6
<1>8. t \in Seq(Seq(S)) /\ Len(t) = n
  BY <1>5, <1>6, <1>7
<1>9. ASSUME NEW x PROVE x \in InFamilies(t) <=> x \in InFamilies(families) \/ x = child
  <2>1. x \in InFamilies(t) <=> \E i \in 1 .. n : x \in ToSet(t[i])
    BY <1>6 DEF InFamilies
  <2>2. x \in InFamilies(families) <=> \E i \in 1 .. n : x \in ToSet(families[i])
    BY <1>2 DEF InFamilies
  <2>3. ASSUME NEW i \in 1 .. n PROVE x \in ToSet(t[i]) <=> x \in ToSet(families[i]) \/ (i = n /\ x = child)
    <3>1. CASE i = n
      BY <3>1, <1>4, <1>6
    <3>2. CASE i # n
      BY <3>2, <1>6
    <3>. QED
      BY <3>1, <3>2
  <2>. QED
    BY <2>1, <2>2, <2>3, <1>2
<1>10. InFamilies(t) = InFamilies(families) \cup {child}
  BY <1>9
<1>11. t[Len(t)] # <<>> /\ t # <<>>
  <2>1. t[n] = last
    BY <1>2, <1>6
  <2>2. n # 0
    BY <1>2
  <2>. QED
    BY <2>1, <2>2, <1>4, <1>8
<1>. QED
  BY <1>1, <1>8, <1>10, <1>11

\* What dealing a child out keeps.
Dealing(S, r) ==
    r.d \in Int /\ r.families \in Seq(Seq(S)) /\ r.families # <<>>

\* A child went to a family.
Goes(S, r, child, count, after) ==
    /\ Dealing(S, after)
    /\ InFamilies(after.families) = InFamilies(r.families) \cup {child}
    /\ Len(after.families) <= Len(r.families) + 1
    /\ Last(r.families) = <<>> \/ r.d + Families(count) <= 0
          => /\ Len(after.families) = Len(r.families)
             /\ after.d = r.d + Families(count)
                          - (IF r.d + Families(count) > 0 THEN count ELSE 0)

\* A child is dealt to one family, and at most one family is opened for it.
LEMMA DealIs ==
  ASSUME NEW S, NEW r, Dealing(S, r), NEW child \in S, NEW count \in Nat, count > 0,
         NEW after, after = Deal(r, child, count)
  PROVE  Goes(S, r, child, count, after)
<1>1. PICK fs, was : fs = r.families /\ was = r.d
  OBVIOUS
<1>2. fs \in Seq(Seq(S)) /\ fs # <<>> /\ was \in Int /\ Len(fs) \in Nat
  BY <1>1 DEF Dealing
<1>3. PICK F \in Nat : F = Families(count)
  BY FewFamilies
<1>4. PICK d \in Int : d = was + F - (IF was + F > 0 THEN count ELSE 0)
  <2>1. was + F - count \in Int /\ was + F - 0 \in Int
    BY <1>2
  <2>2. was + F - (IF was + F > 0 THEN count ELSE 0) \in Int
    BY <2>1
  <2>. QED
    BY <2>2
<1>5. CASE was + F > 0 /\ Last(fs) # <<>>
  <2>1. PICK again \in Int : again = d + F - (IF d + F > 0 THEN count ELSE 0)
    BY <1>4
  <2>2. after = [d |-> again, families |-> Opened(fs, child)]
    BY <2>1, <1>1, <1>3, <1>4, <1>5 DEF Deal
  <2>3. /\ Opened(fs, child) \in Seq(Seq(S)) /\ Opened(fs, child) # <<>>
        /\ Len(Opened(fs, child)) = Len(fs) + 1
        /\ InFamilies(Opened(fs, child)) = InFamilies(fs) \cup {child}
    BY <1>2, OpenedIs
  <2>4. ~(was + F <= 0)
    BY <1>2, <1>5
  <2>. QED
    BY <2>1, <2>2, <2>3, <2>4, <1>1, <1>2, <1>3, <1>5 DEF Dealing, Goes
<1>6. CASE ~(was + F > 0 /\ Last(fs) # <<>>)
  <2>1. PICK t : t = [fs EXCEPT ![Len(fs)] = Append(@, child)]
    OBVIOUS
  <2>2. after = [d |-> d, families |-> t]
    BY <2>1, <1>1, <1>3, <1>4, <1>6 DEF Deal
  <2>3. /\ t \in Seq(Seq(S)) /\ t # <<>> /\ Len(t) = Len(fs)
        /\ InFamilies(t) = InFamilies(fs) \cup {child}
    <3>1. WithLast(fs, child, t)
      BY <2>1 DEF WithLast
    <3>. QED
      BY <3>1, <1>2, LastFamilyGrows
  <2>. QED
    BY <2>2, <2>3, <1>1, <1>2, <1>3, <1>4 DEF Dealing, Goes
<1>. QED
  BY <1>5, <1>6

\* The start of a deal.
NoneDealt == [d |-> 0, families |-> << <<>> >>]

\* The values a deal can have.
Dealings(S) == [d : Int, families : Seq(Seq(S)) \ {<<>>}]

\* The children are dealt out one after the other.
LEMMA DealtSteps ==
  ASSUME NEW S, NEW generation \in Seq(S), generation # <<>>, NEW n, n = Len(generation)
  PROVE  \E g : /\ g[0] = NoneDealt /\ Dealt(generation) = g[n].families
                /\ \A i \in 1 .. n : g[i] = Deal(g[i - 1], generation[i], n)
<1>1. n \in Nat /\ n > 0 /\ \A i \in 1 .. n : generation[i] \in S
  OBVIOUS
<1>. DEFINE step == [p \in (1 .. n) \X Dealings(S) |-> Deal(p[2], generation[p[1]], n)]
            Defines(g) == g = [i \in 0 .. n |-> IF i = 0 THEN NoneDealt
                                                ELSE Deal(g[i - 1], generation[i], n)]
            dealt == CHOOSE g : Defines(g)
<1>2. ASSUME NEW i \in 1 .. n, NEW r \in Dealings(S)
      PROVE  Deal(r, generation[i], n) \in Dealings(S) /\ step[<<i, r>>] = Deal(r, generation[i], n)
  <2>1. Dealing(S, r) /\ generation[i] \in S
    BY <1>1 DEF Dealings, Dealing
  <2>2. PICK after : after = Deal(r, generation[i], n)
    OBVIOUS
  <2>3. Dealing(S, after)
    BY <2>1, <2>2, <1>1, DealIs DEF Goes
  <2>4. after = [d |-> after.d, families |-> after.families]
    BY <2>2 DEF Deal
  <2>5. after \in Dealings(S)
    <3>1. after.d \in Int /\ after.families \in Seq(Seq(S)) \ {<<>>}
      BY <2>3 DEF Dealing
    <3>. HIDE <2>2
    <3>. QED
      BY <3>1, <2>4, Zenon DEF Dealings
  <2>. QED
    BY <2>2, <2>5
<1>3. NoneDealt \in Dealings(S) /\ \A i \in 0 .. n : i # 0 => i \in 1 .. n /\ i - 1 \in 0 .. n
  <2>1. << <<>> >> \in Seq(Seq(S)) \ {<<>>}
    OBVIOUS
  <2>2. NoneDealt \in Dealings(S)
    BY <2>1 DEF NoneDealt, Dealings
  <2>. QED
    BY <1>1, <2>2
<1>. HIDE DEF step
<1>4. \A i \in 0 .. n, r \in Dealings(S) : i # 0 => step[<<i, r>>] \in Dealings(S)
  BY <1>2, <1>3
<1>5. PICK g \in [0 .. n -> Dealings(S)] : Recurs(g, 0, n, NoneDealt, step)
  <2>1. 0 \in Int /\ n \in Int
    BY <1>1
  <2>. QED
    BY <2>1, <1>3, <1>4, RecursionDefines, Zenon
<1>6. Defines(g)
  <2>1. ASSUME NEW i \in 0 .. n, i # 0 PROVE g[i] = Deal(g[i - 1], generation[i], n)
    <3>1. g[i] = step[<<i, g[i - 1]>>] /\ i \in 1 .. n /\ g[i - 1] \in Dealings(S)
      BY <2>1, <1>3, <1>5 DEF Recurs
    <3>. QED
      BY <3>1, <1>2
  <2>2. g[0] = NoneDealt
    <3>1. 0 \in 0 .. n
      BY <1>1
    <3>. QED
      BY <3>1, <1>5 DEF Recurs
  <2>. QED
    BY <2>1, <2>2
<1>7. Defines(dealt)
  <2>1. \E f : Defines(f)
    BY <1>6
  <2>. HIDE DEF Defines
  <2>. QED
    BY <2>1
<1>8. Dealt(generation) = dealt[n].families
  BY DEF Dealt, NoneDealt
<1>. HIDE DEF dealt
<1>9. /\ dealt[0] = NoneDealt
      /\ \A i \in 1 .. n : dealt[i] = Deal(dealt[i - 1], generation[i], n)
  <2>1. 0 \in 0 .. n /\ \A i \in 1 .. n : i \in 0 .. n /\ i # 0
    BY <1>1
  <2>. QED
    BY <2>1, <1>7
<1>. HIDE DEF Defines
<1>. QED
  BY <1>8, <1>9

\* Every child goes to some family, and there are fewer families than children.
LEMMA DealtIs ==
  ASSUME NEW S, NEW generation \in Seq(S), generation # <<>>
  PROVE  /\ Dealt(generation) \in Seq(Seq(S)) /\ Dealt(generation) # <<>>
         /\ InFamilies(Dealt(generation)) = ToSet(generation)
         /\ Len(Dealt(generation)) <= Len(generation)
         /\ Len(generation) > 1 => Len(Dealt(generation)) < Len(generation)
<1>1. PICK n \in Nat : n = Len(generation)
  OBVIOUS
<1>2. n > 0 /\ \A i \in 1 .. n : generation[i] \in S
  BY <1>1
<1>3. PICK g : /\ g[0] = NoneDealt /\ Dealt(generation) = g[n].families
               /\ \A i \in 1 .. n : g[i] = Deal(g[i - 1], generation[i], n)
  BY <1>1, DealtSteps
<1>4. PICK F \in Nat : F = Families(n)
  BY <1>1, <1>2, FewFamilies
<1>5. F > 0 /\ F <= n /\ (n > 1 => F + F <= n)
  BY <1>2, <1>4, FewFamilies
<1>. DEFINE First(i) == {generation[j] : j \in 1 .. i}
            DealtOf(i) == /\ Dealing(S, g[i]) /\ InFamilies(g[i].families) = First(i)
                          /\ i = 1 => g[i].d = F - n /\ Len(g[i].families) = 1
                          /\ i > 0 => Len(g[i].families) <= i
                          /\ i > 1 => Len(g[i].families) < i
            I == {i \in Nat : i <= n => DealtOf(i)}
<1>6. 0 \in I
  <2>1. g[0].d = 0 /\ g[0].families = << <<>> >>
    BY <1>3 DEF NoneDealt
  <2>2. Dealing(S, g[0])
    BY <2>1 DEF Dealing
  <2>3. InFamilies(g[0].families) = {}
    BY <2>1 DEF InFamilies, ToSet
  <2>4. First(0) = {}
    OBVIOUS
  <2>. QED
    BY <2>2, <2>3, <2>4
<1>7. ASSUME NEW i \in Nat, i \in I PROVE i + 1 \in I
  <2>. SUFFICES ASSUME i + 1 <= n PROVE DealtOf(i + 1)
    OBVIOUS
  <2>1. DealtOf(i)
    BY <1>7
  <2>2. PICK m \in 1 .. n : m = i + 1
    OBVIOUS
  <2>3. m - 1 = i /\ g[m] = Deal(g[i], generation[m], n)
    BY <2>2, <1>3
  <2>4. PICK r, after, child : r = g[i] /\ after = g[m] /\ child = generation[m]
    OBVIOUS
  <2>15. child \in S
    BY <2>2, <2>4, <1>2
  <2>5. after = Deal(r, child, n)
    BY <2>3, <2>4
  <2>6. Dealing(S, r) /\ InFamilies(r.families) = First(i)
    BY <2>1, <2>4
  <2>7. /\ Dealing(S, after)
        /\ InFamilies(after.families) = InFamilies(r.families) \cup {child}
        /\ Len(after.families) <= Len(r.families) + 1
        /\ Last(r.families) = <<>> \/ r.d + F <= 0
              => /\ Len(after.families) = Len(r.families)
                 /\ after.d = r.d + F - (IF r.d + F > 0 THEN n ELSE 0)
    <3>1. n \in Nat /\ n > 0 /\ Dealing(S, r)
      BY <2>6, <1>2
    <3>2. Goes(S, r, child, n, after)
      BY <3>1, <2>5, <2>15, DealIs, Zenon
    <3>. QED
      BY <3>2, <1>4 DEF Goes
  <2>8. First(m) = First(i) \cup {child}
    <3>1. \A j \in 1 .. m : j = m \/ j \in 1 .. i
      BY <2>2
    <3>2. m \in 1 .. m /\ \A j \in 1 .. i : j \in 1 .. m
      BY <2>2
    <3>. QED
      BY <3>1, <3>2, <2>4
  <2>9. Len(r.families) \in Nat /\ Len(after.families) \in Nat /\ r.d \in Int
    BY <2>6, <2>7 DEF Dealing
  <2>10. PICK b, a \in Nat : b = Len(r.families) /\ a = Len(after.families)
    BY <2>9
  <2>11. m = 1 => after.d = F - n /\ a = 1
    <3>. SUFFICES ASSUME m = 1 PROVE after.d = F - n /\ a = 1
      OBVIOUS
    <3>1. i = 0
      BY <2>2
    <3>2. r = NoneDealt
      BY <3>1, <2>4, <1>3
    <3>3. r.d = 0 /\ r.families = << <<>> >> /\ Last(r.families) = <<>> /\ b = 1
      BY <3>2, <2>10 DEF NoneDealt, Last
    <3>4. a = b /\ after.d = 0 + F - (IF 0 + F > 0 THEN n ELSE 0)
      BY <3>3, <2>7, <2>10
    <3>. QED
      BY <3>3, <3>4, <1>5
  <2>12. m = 2 => a = 1
    <3>. SUFFICES ASSUME m = 2 PROVE a = 1
      OBVIOUS
    <3>1. i = 1 /\ n > 1
      BY <2>2
    <3>2. r.d = F - n /\ b = 1
      BY <3>1, <2>1, <2>4, <2>10
    <3>3. (F - n) + F <= 0
      BY <3>1, <1>5
    <3>. QED
      BY <3>2, <3>3, <2>7, <2>10
  <2>13. (m > 0 => a <= m) /\ (m > 1 => a < m)
    <3>1. a <= b + 1 /\ (i > 0 => b <= i) /\ (i > 1 => b < i)
      BY <2>1, <2>4, <2>7, <2>10
    <3>2. CASE m = 1
      BY <3>2, <2>11
    <3>3. CASE m = 2
      BY <3>3, <2>12
    <3>4. CASE m > 2
      BY <3>4, <3>1, <2>2
    <3>. QED
      BY <3>2, <3>3, <3>4, <2>2
  <2>14. DealtOf(m)
    BY <2>4, <2>6, <2>7, <2>8, <2>10, <2>11, <2>13
  <2>. QED
    BY <2>2, <2>14
<1>8. \A i \in Nat : i \in I
  <2>. HIDE DEF I
  <2>. QED BY <1>6, <1>7, SetInduction
<1>9. DealtOf(n)
  <2>1. n \in I
    <3>. HIDE DEF I
    <3>. QED BY <1>8
  <2>2. n <= n
    OBVIOUS
  <2>. HIDE DEF DealtOf
  <2>. QED
    BY <2>1, <2>2
<1>10. First(n) = ToSet(generation)
  BY <1>1 DEF ToSet
<1>11. /\ Dealing(S, g[n]) /\ InFamilies(g[n].families) = ToSet(generation)
       /\ Len(g[n].families) <= n /\ (n > 1 => Len(g[n].families) < n)
  BY <1>2, <1>9, <1>10
<1>. HIDE DEF DealtOf
<1>. QED
  BY <1>1, <1>3, <1>11 DEF Dealing

\* What a list has of a draw, and what a tree has of a node.
Items == [rect : SUBSET Picture, at : Nat]
TreeNodes == [leaf : BOOLEAN, children : Seq(Nat), bounds : SUBSET Picture]

\* A node stands for items, c[n], that are those of its children and lie
\* inside its bounds.
NodeIs(list, ns, c, n) ==
    /\ c[n] \subseteq DOMAIN list
    /\ ns[n].leaf => c[n] = ToSet(ns[n].children)
    /\ ~ ns[n].leaf => /\ ToSet(ns[n].children) \subseteq 1 .. n - 1
                       /\ c[n] = UNION {c[k] : k \in ToSet(ns[n].children)}
    /\ \A i \in c[n] : list[i].rect \subseteq ns[n].bounds

\* The nodes of a tree, children before their parents.
IsTree(list, ns, c) ==
    /\ ns \in Seq(TreeNodes)
    /\ \A n \in DOMAIN ns : NodeIs(list, ns, c, n)

\* While the tree grows, the generation that is about to get parents stands
\* for all items.
Growing(list, tree, c) ==
    /\ IsTree(list, tree.nodes, c)
    /\ tree.generation \in Seq(Nat) /\ tree.generation # <<>>
    /\ tree.nodes = <<>> => tree.generation = [i \in DOMAIN list |-> i]
    /\ tree.nodes # <<>> => /\ ToSet(tree.generation) \subseteq DOMAIN tree.nodes
                            /\ UNION {c[n] : n \in ToSet(tree.generation)} = DOMAIN list

\* The rectangles of some children hold the items these stand for.
Holding(list, children, rects, cov) ==
    \A k \in ToSet(children) : /\ rects[k] \in SUBSET Picture
                               /\ \A i \in cov[k] : list[i].rect \subseteq rects[k]

\* A node above them holds these as well.
Above(list, node, leaf, children, cov) ==
    /\ node \in TreeNodes /\ node.leaf = leaf /\ node.children = children
    /\ \A i \in UNION {cov[k] : k \in ToSet(children)} : list[i].rect \subseteq node.bounds

\* The joined bounds of a node cover what its children hold.
LEMMA NodeCovers ==
  ASSUME NEW leaf \in BOOLEAN, NEW children \in Seq(Nat), NEW rects, NEW cov, NEW list,
         Holding(list, children, rects, cov), NEW node, node = Node(leaf, children, rects)
  PROVE  Above(list, node, leaf, children, cov)
<1>0. \A k \in ToSet(children) : /\ rects[k] \in SUBSET Picture
                                 /\ \A i \in cov[k] : list[i].rect \subseteq rects[k]
  BY DEF Holding
<1>1. PICK under : under = UNION {rects[k] : k \in ToSet(children)}
  OBVIOUS
<1>2. under \in SUBSET Picture
  BY <1>0, <1>1
<1>3. under \subseteq Hull(under) /\ Hull(under) \in SUBSET Picture
  <2>1. 0 \in Int /\ Width - 1 \in Int /\ under \in SUBSET (0 .. Width - 1)
    BY <1>2, RTreeAssumption DEF Picture
  <2>2. under \subseteq Hull(under) /\ Hull(under) \subseteq 0 .. Width - 1
    BY <2>1, HullHolds
  <2>. QED
    BY <2>2 DEF Picture
<1>4. node = [leaf |-> leaf, children |-> children, bounds |-> Hull(under)]
  BY <1>1 DEF Node
<1>5. node.leaf = leaf /\ node.children = children /\ node.bounds = Hull(under)
  BY <1>4
<1>6. node \in TreeNodes
  BY <1>3, <1>4 DEF TreeNodes
<1>7. ASSUME NEW i \in UNION {cov[k] : k \in ToSet(children)}
      PROVE  list[i].rect \subseteq node.bounds
  <2>1. PICK k \in ToSet(children) : i \in cov[k]
    OBVIOUS
  <2>2. list[i].rect \subseteq rects[k]
    BY <2>1, <1>0
  <2>3. rects[k] \subseteq under
    BY <1>1
  <2>. QED
    BY <2>2, <2>3, <1>3, <1>5
<1>. QED
  BY <1>5, <1>6, <1>7 DEF Above

\* A generation more.
LEMMA GenerationAppended ==
  ASSUME NEW list \in Seq(Items), list # <<>>, NEW tree, NEW c, Growing(list, tree, c),
         NEW next, next = AppendGeneration(list, tree)
  PROVE  /\ \E e : Growing(list, next, e)
         /\ next.nodes # <<>>
         /\ Len(next.generation) <= Len(tree.generation)
         /\ Len(tree.generation) > 1 => Len(next.generation) < Len(tree.generation)
<1>1. PICK old, generation : old = tree.nodes /\ generation = tree.generation
  OBVIOUS
<1>2. /\ IsTree(list, old, c) /\ old \in Seq(TreeNodes)
      /\ generation \in Seq(Nat) /\ generation # <<>>
      /\ old = <<>> => generation = [i \in DOMAIN list |-> i]
      /\ old # <<>> => /\ ToSet(generation) \subseteq DOMAIN old
                       /\ UNION {c[n] : n \in ToSet(generation)} = DOMAIN list
  BY <1>1 DEF Growing, IsTree
<1>3. PICK families : families = Dealt(generation)
  OBVIOUS
<1>4. /\ families \in Seq(Seq(Nat)) /\ families # <<>>
      /\ InFamilies(families) = ToSet(generation)
      /\ Len(families) <= Len(generation)
      /\ Len(generation) > 1 => Len(families) < Len(generation)
  BY <1>2, <1>3, DealtIs
<1>5. PICK m, p \in Nat : m = Len(old) /\ p = Len(families)
  BY <1>2, <1>4
<1>6. /\ DOMAIN old = 1 .. m /\ DOMAIN families = 1 .. p /\ p > 0
      /\ \A j \in 1 .. p : families[j] \in Seq(Nat) /\ ToSet(families[j]) \subseteq ToSet(generation)
  <2>1. DOMAIN old = 1 .. m /\ DOMAIN families = 1 .. p /\ p > 0
    BY <1>2, <1>4, <1>5
  <2>2. \A j \in 1 .. p : families[j] \in Seq(Nat)
    BY <1>4, <2>1
  <2>3. \A j \in 1 .. p : ToSet(families[j]) \subseteq ToSet(generation)
    BY <1>4, <2>1 DEF InFamilies
  <2>. QED
    BY <2>1, <2>2, <2>3
<1>7. PICK leaf \in BOOLEAN : leaf <=> old = <<>>
  OBVIOUS
<1>8. PICK rects, cov :
        /\ rects = IF leaf THEN [i \in DOMAIN list |-> list[i].rect]
                   ELSE [i \in DOMAIN old |-> old[i].bounds]
        /\ cov = IF leaf THEN [i \in DOMAIN list |-> {i}] ELSE c
  OBVIOUS
<1>9. /\ \A k \in ToSet(generation) :
            /\ rects[k] \in SUBSET Picture
            /\ \A i \in cov[k] : list[i].rect \subseteq rects[k]
            /\ leaf => cov[k] = {k}
            /\ ~ leaf => cov[k] = c[k] /\ k \in 1 .. m
      /\ UNION {cov[k] : k \in ToSet(generation)} = DOMAIN list
  <2>1. CASE leaf
    <3>1. generation = [i \in DOMAIN list |-> i]
      BY <2>1, <1>2, <1>7
    <3>2. ToSet(generation) = DOMAIN list
      BY <3>1 DEF ToSet
    <3>3. \A k \in DOMAIN list : cov[k] = {k} /\ rects[k] = list[k].rect /\ list[k] \in Items
      BY <2>1, <1>8
    <3>4. \A k \in DOMAIN list : rects[k] \in SUBSET Picture
      BY <3>3 DEF Items
    <3>5. UNION {cov[k] : k \in DOMAIN list} = DOMAIN list
      <4>1. ASSUME NEW x PROVE x \in UNION {cov[k] : k \in DOMAIN list} <=> x \in DOMAIN list
        BY <3>3
      <4>. QED
        BY <4>1
    <3>. QED
      BY <2>1, <3>2, <3>3, <3>4, <3>5
  <2>2. CASE ~ leaf
    <3>1. /\ ToSet(generation) \subseteq 1 .. m
          /\ UNION {c[n] : n \in ToSet(generation)} = DOMAIN list
      BY <2>2, <1>2, <1>6, <1>7
    <3>2. cov = c
      BY <2>2, <1>8
    <3>3. \A k \in 1 .. m : rects[k] = old[k].bounds /\ old[k] \in TreeNodes
      BY <2>2, <1>2, <1>6, <1>8
    <3>4. \A k \in 1 .. m : \A i \in c[k] : list[i].rect \subseteq old[k].bounds
      BY <1>2, <1>6 DEF IsTree, NodeIs
    <3>5. \A k \in 1 .. m : rects[k] \in SUBSET Picture
      BY <3>3 DEF TreeNodes
    <3>. QED
      BY <2>2, <3>1, <3>2, <3>3, <3>4, <3>5
  <2>. QED
    BY <2>1, <2>2
<1>10. PICK parents : parents = [i \in DOMAIN families |-> Node(leaf, families[i], rects)]
  OBVIOUS
<1>11. PICK ns, young : ns = old \o parents /\ young = [i \in DOMAIN families |-> m + i]
  OBVIOUS
<1>12. next.nodes = ns /\ next.generation = young
  <2>1. leaf = (old = <<>>)
    BY <1>7
  <2>. QED
    BY <2>1, <1>1, <1>3, <1>5, <1>8, <1>10, <1>11 DEF AppendGeneration
<1>. DEFINE ofParent(j) == UNION {cov[k] : k \in ToSet(families[j])}
<1>13. \A j \in 1 .. p : /\ parents[j] \in TreeNodes
                         /\ parents[j].leaf = leaf /\ parents[j].children = families[j]
                         /\ \A i \in ofParent(j) : list[i].rect \subseteq parents[j].bounds
  <2>. TAKE j \in 1 .. p
  <2>1. parents[j] = Node(leaf, families[j], rects)
    BY <1>6, <1>10
  <2>2. Holding(list, families[j], rects, cov)
    BY <1>6, <1>9 DEF Holding
  <2>3. families[j] \in Seq(Nat)
    BY <1>6
  <2>4. Above(list, parents[j], leaf, families[j], cov)
    BY <2>1, <2>2, <2>3, NodeCovers, Zenon
  <2>. QED
    BY <2>4 DEF Above
<1>14. parents \in Seq(TreeNodes) /\ Len(parents) = p
  <2>1. parents \in [1 .. p -> TreeNodes]
    BY <1>6, <1>10, <1>13
  <2>. QED
    BY <2>1
<1>15. /\ ns \in Seq(TreeNodes) /\ Len(ns) = m + p
       /\ \A i \in 1 .. m + p : ns[i] = IF i <= m THEN old[i] ELSE parents[i - m]
  <2>1. /\ ns \in Seq(TreeNodes) /\ Len(ns) = Len(old) + Len(parents)
        /\ \A i \in 1 .. Len(old) + Len(parents) :
              ns[i] = IF i <= Len(old) THEN old[i] ELSE parents[i - Len(old)]
    <3>1. old \in Seq(TreeNodes) /\ parents \in Seq(TreeNodes)
      BY <1>2, <1>14
    <3>2. /\ old \o parents \in Seq(TreeNodes) /\ Len(old \o parents) = Len(old) + Len(parents)
          /\ \A i \in 1 .. Len(old) + Len(parents) :
                (old \o parents)[i] = IF i <= Len(old) THEN old[i] ELSE parents[i - Len(old)]
      BY <3>1, ConcatProperties
    <3>. QED
      BY <3>2, <1>11
  <2>. QED
    BY <2>1, <1>5, <1>14
<1>. DEFINE e == [n \in 1 .. m + p |-> IF n <= m THEN c[n] ELSE ofParent(n - m)]
<1>16. /\ DOMAIN ns = 1 .. m + p
       /\ \A n \in 1 .. m : n \in 1 .. m + p /\ ns[n] = old[n] /\ e[n] = c[n]
       /\ \A j \in 1 .. p : /\ m + j \in 1 .. m + p
                            /\ ns[m + j] = parents[j] /\ e[m + j] = ofParent(j)
  <2>1. DOMAIN ns = 1 .. m + p
    BY <1>15
  <2>2. ASSUME NEW n \in 1 .. m PROVE n \in 1 .. m + p /\ ns[n] = old[n] /\ e[n] = c[n]
    BY <1>15
  <2>3. ASSUME NEW j \in 1 .. p
        PROVE  /\ m + j \in 1 .. m + p
               /\ ns[m + j] = parents[j] /\ e[m + j] = ofParent(j)
    <3>1. PICK n \in 1 .. m + p : n = m + j
      OBVIOUS
    <3>2. ~ (n <= m) /\ n - m = j
      BY <3>1
    <3>3. ns[n] = parents[j] /\ e[n] = ofParent(j)
      BY <3>2, <1>15
    <3>. QED
      BY <3>1, <3>3
  <2>. QED
    BY <2>1, <2>2, <2>3
<1>. HIDE DEF e
<1>17. ASSUME NEW n \in 1 .. m PROVE NodeIs(list, ns, e, n)
  <2>1. NodeIs(list, old, c, n)
    BY <1>2, <1>6 DEF IsTree
  <2>2. \A k \in 1 .. n - 1 : e[k] = c[k]
    BY <1>16
  <2>3. ns[n] = old[n] /\ e[n] = c[n]
    BY <1>16
  <2>4. ~ old[n].leaf => UNION {e[k] : k \in ToSet(old[n].children)}
                         = UNION {c[k] : k \in ToSet(old[n].children)}
    BY <2>1, <2>2 DEF NodeIs
  <2>. QED
    BY <2>1, <2>3, <2>4 DEF NodeIs
<1>18. ASSUME NEW j \in 1 .. p PROVE NodeIs(list, ns, e, m + j)
  <2>1. /\ ns[m + j] = parents[j] /\ e[m + j] = ofParent(j)
        /\ parents[j].leaf = leaf /\ parents[j].children = families[j]
        /\ \A i \in ofParent(j) : list[i].rect \subseteq parents[j].bounds
    BY <1>13, <1>16
  <2>2. ToSet(families[j]) \subseteq ToSet(generation)
    BY <1>6
  <2>3. ofParent(j) \subseteq DOMAIN list
    BY <2>2, <1>9
  <2>4. leaf => ofParent(j) = ToSet(families[j])
    BY <2>2, <1>9
  <2>5. ~ leaf => /\ ToSet(families[j]) \subseteq 1 .. (m + j) - 1
                  /\ ofParent(j) = UNION {e[k] : k \in ToSet(families[j])}
    <3>. SUFFICES ASSUME ~ leaf
                  PROVE  /\ ToSet(families[j]) \subseteq 1 .. (m + j) - 1
                         /\ ofParent(j) = UNION {e[k] : k \in ToSet(families[j])}
      OBVIOUS
    <3>1. \A k \in ToSet(families[j]) : k \in 1 .. m /\ cov[k] = c[k]
      BY <2>2, <1>9
    <3>2. \A k \in ToSet(families[j]) : cov[k] = e[k]
      BY <3>1, <1>16
    <3>3. ToSet(families[j]) \subseteq 1 .. m
      BY <3>1
    <3>4. 1 .. m \subseteq 1 .. (m + j) - 1
      OBVIOUS
    <3>5. ofParent(j) = UNION {e[k] : k \in ToSet(families[j])}
      BY <3>2
    <3>. QED
      BY <3>3, <3>4, <3>5, Zenon
  <2>. HIDE DEF ofParent
  <2>6. PICK n, node, below : n = m + j /\ node = ns[m + j] /\ below = e[m + j]
    OBVIOUS
  <2>7. /\ below \subseteq DOMAIN list
        /\ node.leaf => below = ToSet(node.children)
        /\ ~ node.leaf => /\ ToSet(node.children) \subseteq 1 .. n - 1
                          /\ below = UNION {e[k] : k \in ToSet(node.children)}
        /\ \A i \in below : list[i].rect \subseteq node.bounds
    BY <2>1, <2>3, <2>4, <2>5, <2>6
  <2>8. ns[n] = node /\ e[n] = below
    BY <2>6
  <2>9. NodeIs(list, ns, e, n)
    BY <2>7, <2>8, Zenon DEF NodeIs
  <2>. QED
    BY <2>6, <2>9
<1>19. IsTree(list, ns, e)
  <2>1. \A n \in 1 .. m + p : n \in 1 .. m \/ \E j \in 1 .. p : n = m + j
    <3>. TAKE n \in 1 .. m + p
    <3>1. n > m => n - m \in 1 .. p /\ n = m + (n - m)
      OBVIOUS
    <3>2. ~ (n > m) => n \in 1 .. m
      OBVIOUS
    <3>. QED
      BY <3>1, <3>2
  <2>2. \A n \in 1 .. m + p : NodeIs(list, ns, e, n)
    BY <2>1, <1>17, <1>18
  <2>. QED
    BY <2>2, <1>15, <1>16 DEF IsTree
<1>20. /\ young \in Seq(Nat) /\ young # <<>> /\ Len(young) = p
       /\ ToSet(young) = {m + j : j \in 1 .. p}
  <2>1. young = [i \in 1 .. p |-> m + i]
    BY <1>6, <1>11
  <2>2. young \in [1 .. p -> Nat] /\ DOMAIN young = 1 .. p
    BY <2>1
  <2>3. young \in Seq(Nat) /\ Len(young) = p
    BY <2>2
  <2>4. young # <<>>
    BY <2>3, <1>6
  <2>5. ToSet(young) = {m + j : j \in 1 .. p}
    BY <2>1, <2>2 DEF ToSet
  <2>. QED
    BY <2>3, <2>4, <2>5
<1>21. UNION {e[n] : n \in ToSet(young)} = DOMAIN list
  <2>1. UNION {e[n] : n \in ToSet(young)} = UNION {ofParent(j) : j \in 1 .. p}
    <3>. HIDE DEF ofParent
    <3>1. {e[n] : n \in ToSet(young)} = {e[m + j] : j \in 1 .. p}
      BY <1>20
    <3>2. {e[m + j] : j \in 1 .. p} = {ofParent(j) : j \in 1 .. p}
      BY <1>16
    <3>. QED
      BY <3>1, <3>2
  <2>2. ASSUME NEW x PROVE x \in UNION {ofParent(j) : j \in 1 .. p}
                           <=> x \in UNION {cov[k] : k \in ToSet(generation)}
    <3>1. \A k : k \in ToSet(generation) <=> \E j \in 1 .. p : k \in ToSet(families[j])
      BY <1>4, <1>6 DEF InFamilies
    <3>. QED
      BY <3>1
  <2>. QED
    BY <2>1, <2>2, <1>9
<1>22. ns # <<>> /\ ToSet(young) \subseteq DOMAIN ns
  BY <1>6, <1>15, <1>16, <1>20
<1>23. Growing(list, next, e)
  BY <1>12, <1>19, <1>20, <1>21, <1>22 DEF Growing
<1>. QED
  BY <1>1, <1>4, <1>5, <1>12, <1>20, <1>22, <1>23

\* What is kept of a list of items is a list of items.
LEMMA KeptIs ==
  ASSUME NEW list \in Seq(Items)
  PROVE  Kept(list) \in Seq(Items)
<1>1. PICK n \in Nat : n = Len(list)
  OBVIOUS
<1>2. \A i \in 1 .. n : list[i] \in Items
  BY <1>1
<1>. DEFINE More(i, r) == IF list[i].rect = {} THEN r ELSE Append(r, list[i])
            step == [p \in (1 .. n) \X Seq(Items) |-> More(p[1], p[2])]
            Defines(g) == g = [i \in 0 .. n |-> IF i = 0 THEN <<>> ELSE More(i, g[i - 1])]
            kept == CHOOSE g : Defines(g)
<1>3. \A i \in 1 .. n, r \in Seq(Items) : More(i, r) \in Seq(Items) /\ step[<<i, r>>] = More(i, r)
  <2>. TAKE i \in 1 .. n, r \in Seq(Items)
  <2>1. Append(r, list[i]) \in Seq(Items)
    BY <1>2, AppendProperties
  <2>. QED
    BY <2>1
<1>. HIDE DEF More, step
<1>4. <<>> \in Seq(Items) /\ \A i \in 0 .. n : i # 0 => i \in 1 .. n /\ i - 1 \in 0 .. n
  OBVIOUS
<1>5. \A i \in 0 .. n, r \in Seq(Items) : i # 0 => step[<<i, r>>] \in Seq(Items)
  BY <1>3, <1>4
<1>6. PICK g \in [0 .. n -> Seq(Items)] : Recurs(g, 0, n, <<>>, step)
  <2>1. 0 \in Int /\ n \in Int
    OBVIOUS
  <2>. QED
    BY <2>1, <1>4, <1>5, RecursionDefines, Zenon
<1>7. Defines(g)
  <2>1. ASSUME NEW i \in 0 .. n, i # 0 PROVE g[i] = More(i, g[i - 1])
    <3>1. g[i] = step[<<i, g[i - 1]>>] /\ i \in 1 .. n /\ g[i - 1] \in Seq(Items)
      BY <2>1, <1>4, <1>6 DEF Recurs
    <3>. QED
      BY <3>1, <1>3
  <2>2. g[0] = <<>>
    <3>1. 0 \in 0 .. n
      OBVIOUS
    <3>. QED
      BY <3>1, <1>6 DEF Recurs
  <2>. QED
    BY <2>1, <2>2
<1>8. Defines(kept)
  <2>1. \E f : Defines(f)
    BY <1>7
  <2>. HIDE DEF Defines
  <2>. QED
    BY <2>1
<1>9. Kept(list) = kept[n]
  BY <1>1 DEF Kept, More
<1>. HIDE DEF kept
<1>. DEFINE I == {i \in Nat : i <= n => kept[i] \in Seq(Items)}
<1>10. 0 \in I
  BY <1>8
<1>11. ASSUME NEW i \in Nat, i \in I PROVE i + 1 \in I
  <2>. SUFFICES ASSUME i + 1 <= n PROVE kept[i + 1] \in Seq(Items)
    OBVIOUS
  <2>1. PICK m \in 1 .. n : m = i + 1
    OBVIOUS
  <2>2. m \in 0 .. n /\ m # 0 /\ m - 1 = i
    BY <2>1
  <2>3. kept[m] = More(m, kept[i])
    BY <2>2, <1>8
  <2>4. kept[i] \in Seq(Items)
    BY <1>11, <2>1
  <2>. QED
    BY <2>1, <2>3, <2>4, <1>3
<1>12. \A i \in Nat : i \in I
  <2>. HIDE DEF I
  <2>. QED BY <1>10, <1>11, SetInduction
<1>. QED
  BY <1>9, <1>12

\* The trees that growing one can go through.
Growths(list) ==
    {t \in [nodes : Seq(TreeNodes), generation : Seq(Nat)] : \E c : Growing(list, t, c)}

\* A round of the loop of BuildRTree.
Rounds(list, tree) == IF IsDone(tree) THEN tree ELSE AppendGeneration(list, tree)

\* The loop of BuildRTree ends with one node that stands for all items.
LEMMA GrownIs ==
  ASSUME NEW list \in Seq(Items), list # <<>>, NEW tree, tree = Grown(list)
  PROVE  /\ \E c : Growing(list, tree, c)
         /\ tree.nodes # <<>> /\ Len(tree.generation) = 1
<1>1. PICK n \in Nat : n = Len(list)
  OBVIOUS
<1>2. n > 0
  BY <1>1
<1>3. PICK none : none = [nodes |-> <<>>, generation |-> [i \in DOMAIN list |-> i]]
  OBVIOUS
<1>. DEFINE T == Growths(list)
            step == [p \in (1 .. n) \X T |-> Rounds(list, p[2])]
            Defines(g) == g = [k \in 0 .. n |-> IF k = 0 THEN none ELSE Rounds(list, g[k - 1])]
            grown == CHOOSE g : Defines(g)
<1>4. ASSUME NEW t \in T
      PROVE  /\ Rounds(list, t) \in T /\ Rounds(list, t).nodes # <<>>
             /\ t.generation \in Seq(Nat) /\ t.generation # <<>>
             /\ Rounds(list, t).generation \in Seq(Nat) /\ Rounds(list, t).generation # <<>>
             /\ Len(Rounds(list, t).generation) <= Len(t.generation)
             /\ Len(t.generation) > 1 => Len(Rounds(list, t).generation) < Len(t.generation)
  <2>1. PICK c : Growing(list, t, c)
    BY DEF Growths
  <2>2. t.generation \in Seq(Nat) /\ t.generation # <<>>
    BY <2>1 DEF Growing
  <2>3. CASE IsDone(t)
    <3>1. Rounds(list, t) = t
      BY <2>3 DEF Rounds
    <3>2. t.nodes # <<>> /\ Len(t.generation) <= 1
      BY <2>3 DEF IsDone
    <3>. QED
      BY <3>1, <3>2, <2>2
  <2>4. CASE ~ IsDone(t)
    <3>1. PICK next : next = AppendGeneration(list, t)
      OBVIOUS
    <3>2. /\ \E e : Growing(list, next, e)
          /\ next.nodes # <<>>
          /\ Len(next.generation) <= Len(t.generation)
          /\ Len(t.generation) > 1 => Len(next.generation) < Len(t.generation)
      BY <2>1, <3>1, GenerationAppended
    <3>3. next.nodes \in Seq(TreeNodes) /\ next.generation \in Seq(Nat) /\ next.generation # <<>>
      BY <3>2 DEF Growing, IsTree
    <3>4. next = [nodes |-> next.nodes, generation |-> next.generation]
      BY <3>1 DEF AppendGeneration
    <3>5. next \in T
      <4>1. next \in [nodes : Seq(TreeNodes), generation : Seq(Nat)]
        BY <3>3, <3>4, Zenon
      <4>. QED
        BY <4>1, <3>2 DEF Growths
    <3>6. Rounds(list, t) = next
      BY <2>4, <3>1 DEF Rounds
    <3>. HIDE <3>1
    <3>. QED
      BY <3>2, <3>3, <3>5, <3>6, <2>2
  <2>. QED
    BY <2>3, <2>4
<1>5. none \in T /\ Len(none.generation) = n
  <2>1. PICK first : first = [i \in 1 .. n |-> i]
    OBVIOUS
  <2>2. first \in Seq(Nat) /\ Len(first) = n /\ first # <<>>
    <3>1. first \in [1 .. n -> Nat]
      BY <2>1
    <3>. QED
      BY <3>1, <1>2
  <2>3. none = [nodes |-> <<>>, generation |-> first]
    BY <1>1, <1>3, <2>1, SMTT(40)
  <2>4. none \in [nodes : Seq(TreeNodes), generation : Seq(Nat)]
    BY <2>2, <2>3
  <2>5. IsTree(list, <<>>, list)
    BY DEF IsTree
  <2>6. Growing(list, none, list)
    BY <2>1, <2>2, <2>3, <2>5, <1>1 DEF Growing
  <2>. QED
    BY <2>2, <2>3, <2>4, <2>6 DEF Growths
<1>6. \A k \in 0 .. n : k # 0 => k \in 1 .. n /\ k - 1 \in 0 .. n
  OBVIOUS
<1>7. \A k \in 1 .. n, t \in T : step[<<k, t>>] = Rounds(list, t)
  OBVIOUS
<1>. HIDE DEF T, step
<1>8. \A k \in 0 .. n, t \in T : k # 0 => step[<<k, t>>] \in T
  BY <1>4, <1>6, <1>7
<1>9. PICK g \in [0 .. n -> T] : Recurs(g, 0, n, none, step)
  <2>1. 0 \in Int /\ n \in Int
    OBVIOUS
  <2>. QED
    BY <2>1, <1>5, <1>8, RecursionDefines, Zenon
<1>10. Defines(g)
  <2>1. ASSUME NEW k \in 0 .. n, k # 0 PROVE g[k] = Rounds(list, g[k - 1])
    <3>1. g[k] = step[<<k, g[k - 1]>>] /\ k \in 1 .. n /\ g[k - 1] \in T
      BY <2>1, <1>6, <1>9 DEF Recurs
    <3>. QED
      BY <3>1, <1>7
  <2>2. g[0] = none
    <3>1. 0 \in 0 .. n
      OBVIOUS
    <3>. QED
      BY <3>1, <1>9 DEF Recurs
  <2>. QED
    BY <2>1, <2>2
<1>11. Defines(grown)
  <2>1. \E f : Defines(f)
    BY <1>10
  <2>. HIDE DEF Defines
  <2>. QED
    BY <2>1
<1>12. tree = grown[n]
  BY <1>1, <1>3 DEF Grown, Rounds
<1>. HIDE DEF grown
<1>. DEFINE GrownTo(k) == /\ grown[k] \in T
                          /\ k > 0 => grown[k].nodes # <<>>
                          /\ Len(grown[k].generation) = 1 \/ Len(grown[k].generation) + k <= n
            I == {k \in Nat : k <= n => GrownTo(k)}
<1>13. 0 \in I
  <2>1. grown[0] = none
    BY <1>11
  <2>. QED
    BY <2>1, <1>5
<1>14. ASSUME NEW k \in Nat, k \in I PROVE k + 1 \in I
  <2>. SUFFICES ASSUME k + 1 <= n PROVE GrownTo(k + 1)
    OBVIOUS
  <2>1. PICK m \in 1 .. n : m = k + 1
    OBVIOUS
  <2>2. m \in 0 .. n /\ m # 0 /\ m - 1 = k
    BY <2>1
  <2>3. PICK t, u : t = grown[k] /\ u = grown[m]
    OBVIOUS
  <2>4. u = Rounds(list, t)
    BY <2>2, <2>3, <1>11
  <2>5. t \in T /\ (Len(t.generation) = 1 \/ Len(t.generation) + k <= n)
    BY <2>1, <2>3, <1>14
  <2>6. /\ u \in T /\ u.nodes # <<>>
        /\ t.generation \in Seq(Nat) /\ t.generation # <<>>
        /\ u.generation \in Seq(Nat) /\ u.generation # <<>>
        /\ Len(u.generation) <= Len(t.generation)
        /\ Len(t.generation) > 1 => Len(u.generation) < Len(t.generation)
    BY <2>4, <2>5, <1>4
  <2>7. PICK a, b \in Nat : a = Len(t.generation) /\ b = Len(u.generation)
    BY <2>6
  <2>8. a > 0 /\ b > 0
    BY <2>6, <2>7
  <2>9. b = 1 \/ b + m <= n
    <3>1. (a = 1 \/ a + k <= n) /\ b <= a /\ (a > 1 => b < a)
      BY <2>5, <2>6, <2>7
    <3>2. m = k + 1 /\ m \in Nat
      BY <2>1
    <3>. QED
      BY <3>1, <3>2, <2>8
  <2>10. GrownTo(m)
    BY <2>3, <2>6, <2>7, <2>9
  <2>. QED
    BY <2>1, <2>10
<1>15. \A k \in Nat : k \in I
  <2>. HIDE DEF I
  <2>. QED BY <1>13, <1>14, SetInduction
<1>16. GrownTo(n)
  <2>1. n \in I
    <3>. HIDE DEF I
    <3>. QED BY <1>15
  <2>. HIDE DEF GrownTo
  <2>. QED
    BY <2>1
<1>17. tree \in T /\ tree.nodes # <<>>
       /\ (Len(tree.generation) = 1 \/ Len(tree.generation) + n <= n)
  BY <1>2, <1>12, <1>16
<1>18. PICK c : Growing(list, tree, c)
  BY <1>17 DEF T, Growths
<1>19. tree.generation \in Seq(Nat) /\ tree.generation # <<>>
  BY <1>18 DEF Growing
<1>. QED
  BY <1>17, <1>18, <1>19

\* The root stands for all items of the list the tree was built from.
TreeInv ==
    /\ items \in Seq(Items)
    /\ items = <<>> => nodes = <<>>
    /\ items # <<>> => /\ nodes # <<>> /\ root \in DOMAIN nodes
                       /\ \E c : IsTree(items, nodes, c) /\ c[root] = DOMAIN items

\* What is built from a list is its tree.
LEMMA TreeIsBuilt ==
  ASSUME NEW list \in Seq(Items), list # <<>>, NEW built, built = BuiltTree(list)
  PROVE  /\ built.nodes # <<>> /\ built.root \in DOMAIN built.nodes
         /\ \E c : IsTree(list, built.nodes, c) /\ c[built.root] = DOMAIN list
<1>1. PICK tree : tree = Grown(list)
  OBVIOUS
<1>2. PICK c : Growing(list, tree, c)
  BY <1>1, GrownIs
<1>3. tree.nodes # <<>> /\ Len(tree.generation) = 1
  BY <1>1, GrownIs
<1>4. /\ IsTree(list, tree.nodes, c)
      /\ tree.generation \in Seq(Nat)
      /\ ToSet(tree.generation) \subseteq DOMAIN tree.nodes
      /\ UNION {c[n] : n \in ToSet(tree.generation)} = DOMAIN list
  BY <1>2, <1>3 DEF Growing
<1>5. PICK last : last = Head(tree.generation)
  OBVIOUS
<1>6. ToSet(tree.generation) = {last}
  <2>1. PICK generation \in Seq(Nat) : generation = tree.generation
    BY <1>4
  <2>2. DOMAIN generation = {1} /\ Head(generation) = generation[1]
    BY <2>1, <1>3
  <2>3. ToSet(generation) = {generation[1]}
    BY <2>2, Zenon DEF ToSet
  <2>. QED
    BY <2>1, <2>2, <2>3, <1>5
<1>7. c[last] = DOMAIN list /\ last \in DOMAIN tree.nodes
  BY <1>4, <1>6
<1>8. built = [nodes |-> tree.nodes, root |-> last]
  BY <1>1, <1>5 DEF BuiltTree
<1>9. built.nodes = tree.nodes /\ built.root = last
  BY <1>8
<1>. QED
  BY <1>3, <1>4, <1>7, <1>9

\* Another draw, and the tree that is built for the list with it.
LEMMA AddKeepsTree ==
  ASSUME TreeInv, NEW rect \in Rects \cup {{}}, Add(rect)
  PROVE  TreeInv'
<1>1. PICK new : new = [rect |-> rect, at |-> Len(items) + 1]
  OBVIOUS
<1>2. new \in Items
  <2>1. rect \in SUBSET Picture
    BY RTreeAssumption DEF Rects, Picture
  <2>2. Len(items) + 1 \in Nat
    BY DEF TreeInv
  <2>. QED
    BY <2>1, <2>2, <1>1 DEF Items
<1>3. PICK list : list = Kept(Append(items, new))
  OBVIOUS
<1>4. list \in Seq(Items)
  <2>1. Append(items, new) \in Seq(Items)
    BY <1>2, AppendProperties DEF TreeInv
  <2>. QED
    BY <2>1, <1>3, KeptIs
<1>5. PICK built : built = BuiltTree(list)
  OBVIOUS
<1>6. items' = list /\ nodes' = built.nodes /\ root' = built.root
  BY <1>1, <1>3, <1>5 DEF Add
<1>7. CASE list = <<>>
  <2>1. built.nodes = <<>>
    BY <1>5, <1>7 DEF BuiltTree
  <2>. QED
    BY <2>1, <1>4, <1>6, <1>7 DEF TreeInv
<1>8. CASE list # <<>>
  <2>1. /\ built.nodes # <<>> /\ built.root \in DOMAIN built.nodes
        /\ \E c : IsTree(list, built.nodes, c) /\ c[built.root] = DOMAIN list
    BY <1>4, <1>5, <1>8, TreeIsBuilt
  <2>. QED
    BY <2>1, <1>4, <1>6, <1>8 DEF TreeInv
<1>. QED
  BY <1>7, <1>8

\* What a search finds below a node: the items the node stands for that meet
\* the rectangle.
LEMMA SearchedItems ==
  ASSUME NEW c, IsTree(items, nodes, c), NEW start \in DOMAIN nodes, NEW rect
  PROVE  SearchRTreeItems(start, rect) = {i \in c[start] : items[i].rect \cap rect # {}}
<1>. DEFINE Hits(n) == {i \in c[n] : items[i].rect \cap rect # {}}
            Found(f, n) ==
              IF nodes[n].bounds \cap rect = {} THEN {}
              ELSE IF nodes[n].leaf
                   THEN {item \in ToSet(nodes[n].children) : items[item].rect \cap rect # {}}
                   ELSE UNION {f[child] : child \in ToSet(nodes[n].children)}
            Defines(f) == f = [n \in DOMAIN nodes |-> Found(f, n)]
            found == CHOOSE f : Defines(f)
<1>1. PICK size \in Nat : size = Len(nodes) /\ DOMAIN nodes = 1 .. size
  BY DEF IsTree
<1>2. ASSUME NEW n \in 1 .. size, NEW f, \A k \in 1 .. n - 1 : f[k] = Hits(k)
      PROVE  Found(f, n) = Hits(n)
  <2>1. NodeIs(items, nodes, c, n)
    BY <1>1 DEF IsTree
  <2>2. CASE nodes[n].bounds \cap rect = {}
    <3>1. \A i \in c[n] : items[i].rect \subseteq nodes[n].bounds
      BY <2>1 DEF NodeIs
    <3>2. Hits(n) = {}
      BY <3>1, <2>2
    <3>. QED
      BY <3>2, <2>2
  <2>3. CASE nodes[n].bounds \cap rect # {} /\ nodes[n].leaf
    <3>1. c[n] = ToSet(nodes[n].children)
      BY <2>1, <2>3 DEF NodeIs
    <3>. QED
      BY <3>1, <2>3
  <2>4. CASE nodes[n].bounds \cap rect # {} /\ ~ nodes[n].leaf
    <3>1. PICK children : children = ToSet(nodes[n].children)
      OBVIOUS
    <3>2. children \subseteq 1 .. n - 1 /\ c[n] = UNION {c[k] : k \in children}
      BY <3>1, <2>1, <2>4 DEF NodeIs
    <3>3. Found(f, n) = UNION {f[k] : k \in children}
      BY <3>1, <2>4
    <3>. HIDE DEF Found
    <3>4. \A k \in children : f[k] = Hits(k)
      BY <3>2, <1>2
    <3>5. ASSUME NEW x PROVE x \in Hits(n) <=> x \in UNION {f[k] : k \in children}
      BY <3>2, <3>4
    <3>. QED
      BY <3>3, <3>5
  <2>. QED
    BY <2>2, <2>3, <2>4
<1>3. \E f : Defines(f)
  <2>. DEFINE h == [n \in DOMAIN nodes |-> Hits(n)]
  <2>1. \A n \in 1 .. size : h[n] = Hits(n)
    BY <1>1
  <2>2. \A n \in 1 .. size : \A k \in 1 .. n - 1 : k \in 1 .. size
    OBVIOUS
  <2>. HIDE DEF Hits, Found
  <2>3. \A n \in 1 .. size : Found(h, n) = Hits(n)
    <3>. HIDE DEF h
    <3>. QED
      BY <2>1, <2>2, <1>2
  <2>4. Defines(h)
    BY <2>3, <1>1
  <2>. QED
    BY <2>4
<1>4. Defines(found)
  <2>. HIDE DEF Defines
  <2>. QED
    BY <1>3
<1>5. SearchRTreeItems(start, rect) = found[start]
  BY DEF SearchRTreeItems
<1>. HIDE DEF found, Hits, Found
<1>6. \A n \in 1 .. size : found[n] = Found(found, n)
  BY <1>1, <1>4
<1>. HIDE DEF Defines
<1>. DEFINE I == {k \in Nat : \A n \in 1 .. k : n <= size => found[n] = Hits(n)}
<1>7. 0 \in I
  OBVIOUS
<1>8. ASSUME NEW k \in Nat, k \in I PROVE k + 1 \in I
  <2>1. ASSUME NEW n \in 1 .. k + 1, n <= size PROVE found[n] = Hits(n)
    <3>1. n \in 1 .. size /\ \A j \in 1 .. n - 1 : j \in 1 .. k /\ j <= size
      BY <2>1
    <3>2. \A j \in 1 .. n - 1 : found[j] = Hits(j)
      BY <3>1, <1>8
    <3>. QED
      BY <3>1, <3>2, <1>2, <1>6
  <2>. QED
    BY <2>1
<1>9. size \in I
  <2>. HIDE DEF I
  <2>. QED BY <1>7, <1>8, SetInduction
<1>10. found[start] = Hits(start)
  BY <1>1, <1>9
<1>. QED
  BY <1>5, <1>10 DEF Hits

\* A search finds what a look at every item would.
LEMMA TreeIsSearchedRight ==
  ASSUME TreeInv
  PROVE  SearchFindsTheDraws
<1>. SUFFICES ASSUME NEW rect \in Rects \cup {{}}
              PROVE  SearchTree(rect) = {items[i].at : i \in {i \in DOMAIN items :
                                                            items[i].rect \cap rect # {}}}
  BY DEF SearchFindsTheDraws
<1>1. CASE rect = {}
  BY <1>1 DEF SearchTree
<1>2. CASE nodes = <<>>
  <2>1. items = <<>>
    BY <1>2 DEF TreeInv
  <2>2. DOMAIN items = {}
    BY <2>1
  <2>. QED
    BY <2>2, <1>2 DEF SearchTree
<1>3. CASE rect # {} /\ nodes # <<>>
  <2>1. root \in DOMAIN nodes
    BY <1>3 DEF TreeInv
  <2>2. PICK c : IsTree(items, nodes, c) /\ c[root] = DOMAIN items
    BY <1>3 DEF TreeInv
  <2>3. SearchRTreeItems(root, rect) = {i \in DOMAIN items : items[i].rect \cap rect # {}}
    BY <2>1, <2>2, SearchedItems
  <2>. QED
    BY <2>3, <1>3 DEF SearchTree
<1>. QED
  BY <1>1, <1>2, <1>3

\* Whatever is added, BuildRTree makes a tree whose root stands for every draw of
\* the list, and each of whose nodes covers the draws it stands for.
THEOREM TreeIsRight == TreeSpec => []TreeInv
<1>1. TreeInit => TreeInv
  <2>1. <<>> \in Seq(Items)
    OBVIOUS
  <2>. QED
    BY <2>1 DEF TreeInit, TreeInv
<1>2. TreeInv /\ [TreeNext]_treeVars => TreeInv'
  <2>. SUFFICES ASSUME TreeInv, [TreeNext]_treeVars PROVE TreeInv'
    OBVIOUS
  <2>1. CASE TreeNext
    BY <2>1, AddKeepsTree DEF TreeNext
  <2>2. CASE UNCHANGED treeVars
    BY <2>2 DEF TreeInv, treeVars
  <2>. QED
    BY <2>1, <2>2
<1>. QED
  BY <1>1, <1>2, PTL DEF TreeSpec

\* A search of the tree finds the draws a look at every draw of the list would
\* find: none is in a subtree that Search skips, and none was lost while the
\* children were dealt out.
THEOREM SearchIsExact == TreeSpec => []SearchFindsTheDraws
  BY TreeIsRight, TreeIsSearchedRight, PTL

\* What a replay asks for: the draws of a list that meet its cull rectangle.
SearchesAreReplays ==
    \A rect \in Rects \cup {{}} : SearchTree(rect) = Search([spatialOps |-> ToSet(items)], rect)

\* DisplayList takes a search for a look at every draw; so the tree may answer it.
THEOREM ReplaysMaySearchTheTree == TreeSpec => []SearchesAreReplays
<1>1. SearchFindsTheDraws => SearchesAreReplays
  <2>. SUFFICES ASSUME SearchFindsTheDraws, NEW rect \in Rects \cup {{}}
                PROVE  SearchTree(rect) = Search([spatialOps |-> ToSet(items)], rect)
    BY DEF SearchesAreReplays
  <2>1. SearchTree(rect) = {items[i].at : i \in {i \in DOMAIN items : items[i].rect \cap rect # {}}}
    BY DEF SearchFindsTheDraws
  <2>2. Search([spatialOps |-> ToSet(items)], rect)
          = {item.at : item \in {s \in ToSet(items) : s.rect \cap rect # {}}}
    BY DEF Search, ToSet
  <2>3. {s \in ToSet(items) : s.rect \cap rect # {}}
          = {items[i] : i \in {i \in DOMAIN items : items[i].rect \cap rect # {}}}
    BY DEF ToSet
  <2>. QED
    BY <2>1, <2>2, <2>3
<1>. QED
  BY <1>1, SearchIsExact, PTL
=============================================================================

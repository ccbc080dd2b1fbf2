------------------------- MODULE CanvasLayersProofs -------------------------
(***************************************************************************)
(* Proofs about a layer of CanvasLayers, for any clips, draws and passes:  *)
(* what each operation of HWLayer makes of it, that a draw is added inside *)
(* of the clips of the stack whether it is appended, merged into another   *)
(* one or opens a pass, and that nothing else shows a difference.          *)
(* "LayerShows" says what the recorded passes of a layer show, without the *)
(* depth test; that rendering shows just that is CanvasFrameProofs.        *)
(***************************************************************************)
EXTENDS CanvasLayers, SequenceTheorems, Induction

\* The first n values of f, one after the other.
Joined(f, n) ==
    LET joined[i \in 0 .. n] == IF i = 0 THEN <<>> ELSE joined[i - 1] \o f[i]
    IN  joined[n]

-----------------------------------------------------------------------------
(* What holds of a layer.  The lemmas name its parts: y is the layer,      *)
(* "table" the draws of the frame, l its place among the layers, "box" the *)
(* bounds of the layers, and "loads" says whether passes load colours.     *)

\* The clips of a layer that are not popped, those of its first levels, and
\* the last one of a set of clips.
StackTo(y, j) == UNION {ToSet(y.clips[i].draws) : i \in 1 .. j}
Stack(y) == StackTo(y, Len(y.clips))
IsLast(e, S) == IF S = {} THEN e = 0 ELSE e \in S /\ \A c \in S : c <= e

\* What a pass draws ahead of one of its draws, and what a layer refers to.
Before(y, k, i) == {y.history[j] : j \in 1 .. y.passes[k].replayed}
                     \cup {y.passes[k].ops[j] : j \in 1 .. i - 1}
Uses(y) == ToSet(y.history) \cup UNION {ToSet(y.passes[k].ops) \cup {y.passes[k].load} :
                                          k \in DOMAIN y.passes}

AreaOf(box, d) == IF d.type = "layer" THEN box[d.child]
                  ELSE UNION {d.items[i].pixels : i \in DOMAIN d.items}

Hides(d, p) == d.type = "clip" /\ p \in d.scissor /\ p \in d.writes

\* When the layer is rendered, is a clip as deep as a draw of that depth?  What
\* is on the stack gets its depth when it is popped, above that of any draw.
Blocks(y, table, c, depth) == c \in Stack(y) \/ table[c].depth >= depth

\* Does a draw of a pass get to a pixel through the clips ahead of it?
Reaches(y, table, k, i, p) ==
    LET d == table[y.passes[k].ops[i]]
    IN  /\ p \in d.scissor
        /\ \A c \in Before(y, k, i) : Hides(table[c], p) => ~ Blocks(y, table, c, d.depth)

\* What a layer shows: R has the textures of the layers.
Added(y, table, box, R, k, i, p) ==
    LET d == table[y.passes[k].ops[i]]
    IN  IF d.type # "clip" /\ Reaches(y, table, k, i, p) /\ p \in AreaOf(box, d)
        THEN Ink(d, p, R) ELSE <<>>
PassShows(y, table, box, R, k, p) ==
    Joined([i \in DOMAIN y.passes[k].ops |-> Added(y, table, box, R, k, i, p)],
           Len(y.passes[k].ops))
LayerShows(y, table, box, R, p) ==
    Joined([k \in DOMAIN y.passes |-> PassShows(y, table, box, R, k, p)], Len(y.passes))

Draws == [type : {"shape", "path", "clip", "layer", "load"}, dst : BOOLEAN,
          items : Seq([id : Nat, pixels : SUBSET Int]), child : Nat, writes : SUBSET Int,
          bounds : SUBSET Int, scissor : SUBSET Int, clip : Nat, depth : Nat]
Passes == [ops : Seq(Nat), replayed : Nat, firstDepth : Nat, load : Nat, copy : SUBSET Int]
Levels == [draws : Seq(Nat), bounds : SUBSET Int]
Layers == [origin : Int, bounds : SUBSET Int, depth : Nat, history : Seq(Nat),
           clips : Seq(Levels), passes : Seq(Passes), pending : Seq(Nat)]

\* The names in a layer are those of draws that may be there.
NamesAreRight(y, table, l, box) ==
    /\ y.passes # <<>> /\ y.clips # <<>>
    /\ \A i \in DOMAIN y.history :
          y.history[i] \in DOMAIN table /\ table[y.history[i]].type = "clip"
    /\ Stack(y) \subseteq ToSet(y.history)
    /\ ToSet(y.pending) \subseteq ToSet(y.history)
    /\ \A k \in DOMAIN y.passes :
         /\ y.passes[k].replayed <= Len(y.history)
         /\ \A i \in DOMAIN y.passes[k].ops :
              LET o == y.passes[k].ops[i]
              IN  /\ o \in DOMAIN table
                  /\ table[o].type # "load"
                  /\ table[o].type = "clip" => o \in ToSet(y.history)
                  /\ table[o].type = "layer" => table[o].child \in DOMAIN box /\ table[o].child > l

\* A draw is at one place only.
PlacesAreRight(y, table) ==
    \A j, k \in DOMAIN y.passes :
        \A a \in DOMAIN y.passes[j].ops, b \in DOMAIN y.passes[k].ops :
            y.passes[j].ops[a] = y.passes[k].ops[b] /\ table[y.passes[j].ops[a]].type # "clip"
                => j = k /\ a = b

\* Later levels have later clips and smaller bounds.
ClipsAreNested(y, table) ==
    /\ \A i, j \in DOMAIN y.clips : i < j =>
         /\ \A c \in ToSet(y.clips[i].draws), d \in ToSet(y.clips[j].draws) : c < d
         /\ y.clips[j].bounds \subseteq y.clips[i].bounds
    /\ \A j \in DOMAIN y.clips :
         /\ \A a, b \in DOMAIN y.clips[j].draws : a < b => y.clips[j].draws[a] < y.clips[j].draws[b]
         /\ y.clips[j].bounds \subseteq y.bounds
         /\ \A c \in ToSet(y.clips[j].draws) : y.clips[j].bounds \subseteq table[c].scissor

\* No depth is above that of the layer, but for clips that will get one.
DepthsAreRight(y, table) ==
    /\ \A c \in ToSet(y.history) \ Stack(y) : table[c].depth <= y.depth
    /\ \A k \in DOMAIN y.passes :
         /\ y.passes[k].firstDepth <= y.depth
         /\ \A i \in DOMAIN y.passes[k].ops :
              LET d == table[y.passes[k].ops[i]]
              IN  d.type # "clip" => /\ d.depth \in 1 .. y.depth
                                     /\ y.passes[k].firstDepth \in 1 .. d.depth

\* A draw is inside of its bounds; one that reads the destination opens a pass
\* and finds the destination in the copy of the pass before.
DrawsAreBounded(y, table, box) ==
    /\ IsFiniteSet(y.bounds)
    /\ \A k \in DOMAIN y.passes : \A i \in DOMAIN y.passes[k].ops :
         LET d == table[y.passes[k].ops[i]]
         IN  d.type # "clip" =>
               /\ AreaOf(box, d) \cap d.scissor \subseteq d.bounds
               /\ IsFiniteSet(d.bounds)
               /\ d.dst => k > 1 /\ i = 1 /\ d.bounds = y.passes[k - 1].copy

LoadsAreRight(y, table, loads) ==
    /\ y.passes[1].load = 0
    /\ \A k \in DOMAIN y.passes : k > 1 =>
         LET load == y.passes[k].load
         IN  IF ~ loads THEN load = 0
             ELSE /\ load \in DOMAIN table
                  /\ table[load].type = "load" /\ table[load].scissor = y.bounds
                  /\ table[load].depth > 0

\* In the last pass, a draw under the clip e that is still on the stack is
\* clipped by the clips of the stack up to e, and by no other.
ClipsAreDrawn(y, table) ==
    LET K == Len(y.passes)
    IN  /\ Stack(y) \subseteq ToSet(y.pending) \cup Before(y, K, Len(y.passes[K].ops) + 1)
        /\ \A i \in DOMAIN y.passes[K].ops :
             LET a == table[y.passes[K].ops[i]]
             IN  (a.type # "clip" /\ (a.clip = 0 \/ a.clip \in Stack(y))) =>
                   /\ \A c \in Stack(y) : c <= a.clip => c \in Before(y, K, i)
                   /\ \A c \in Before(y, K, i) : table[c].type = "clip" =>
                        (Blocks(y, table, c, a.depth) <=> c \in Stack(y) /\ c <= a.clip)

LayerInv(y, table, l, box, loads) ==
    /\ NamesAreRight(y, table, l, box)
    /\ PlacesAreRight(y, table)
    /\ ClipsAreNested(y, table)
    /\ DepthsAreRight(y, table)
    /\ DrawsAreBounded(y, table, box)
    /\ LoadsAreRight(y, table, loads)
    /\ ClipsAreDrawn(y, table)

-----------------------------------------------------------------------------
(* What holds of the frame *)

Boxes(ls) == [l \in DOMAIN ls |-> ls[l].bounds]

\* Every draw belongs to one layer, and every layer is drawn by one draw.
FrameInv(ls, table, loads) ==
    /\ \A l \in DOMAIN ls : LayerInv(ls[l], table, l, Boxes(ls), loads)
    /\ \A l, m \in DOMAIN ls : l # m => Uses(ls[l]) \cap Uses(ls[m]) \subseteq {0}
    /\ \A d \in DOMAIN table : table[d].type = "layer" => table[d].child \in DOMAIN ls
    /\ \A d, e \in DOMAIN table :
          table[d].type = "layer" /\ table[e].type = "layer" /\ table[d].child = table[e].child
             => d = e

\* A layer that is not the last of the stack ends with the draw of the next one.
EndsWith(y, table, child) ==
    LET calls == Last(y.passes).ops
        a == table[Last(calls)]
    IN  /\ y.pending = <<>> /\ calls # <<>>
        /\ a.type = "layer" /\ a.child = child
        /\ IsLast(a.clip, Stack(y)) /\ a.scissor = CurrentClipBounds(y)

OpenInv(stack, ls, table) ==
    /\ \A s, t \in DOMAIN stack : s < t => stack[s] < stack[t]
    /\ stack # <<>> => stack[1] = 1 /\ ls[1].bounds = Surface
    /\ \A s \in DOMAIN stack : s < Len(stack) => EndsWith(ls[stack[s]], table, stack[s + 1])

\* Do the clips of a layer, up to a level, let a pixel through?
Inside(y, table, j, p) == p \in y.clips[j].bounds /\ \A c \in StackTo(y, j) : p \notin table[c].writes
InsideAll(y, table, p) == Inside(y, table, Len(y.clips), p)

ViewIs(v, s, j, k) ==
    /\ v.matrix = saved[k].matrix /\ v.layer = layerStack[s]
    /\ v.bounds = layers[layerStack[s]].clips[j].bounds
    /\ IsLast(v.clip, StackTo(layers[layerStack[s]], j))

\* Do the clips of the layers below a layer of the stack let a pixel through?
Under(s, p) == \A r \in 1 .. s - 1 : InsideAll(layers[layerStack[r]], draws, p)

\* Save k is level j of layer s of the stack.  Its matrix and its clip are those
\* asked for, and it holds what its Restore must bring back.
ClipIs(s, j, k) ==
    LET y == layers[layerStack[s]]
    IN  /\ saved[k].matrix = matrices[s].world + matrices[s].elements[j]
        /\ saved[k].clip \subseteq globalClips[k] \cap Surface
        /\ globalClips[k] \subseteq y.clips[j].bounds
        /\ \A p \in Surface : p \in saved[k].clip <=> Inside(y, draws, j, p) /\ Under(s, p)
Undoes(s, j, k) ==
    /\ j > 1 => ViewIs(saved[k].view, s, j - 1, k - 1)
    /\ j = 1 /\ s > 1 => ViewIs(saved[k].view, s - 1, Len(layers[layerStack[s - 1]].clips), k - 1)
LevelOK(s, j, k) == ClipIs(s, j, k) /\ Undoes(s, j, k)

Saves(base) ==
    /\ base[1] = 0
    /\ base[Len(layerStack) + 1] = saveCount
    /\ \A s, t \in 1 .. Len(layerStack) + 1 : s < t => base[s] < base[t]
    /\ \A s \in DOMAIN layerStack :
         LET y == layers[layerStack[s]]
         IN  /\ base[s + 1] = base[s] + Len(y.clips)
             /\ matrices[s].world = y.origin
             /\ Len(matrices[s].elements) = Len(y.clips)
             /\ \A j \in DOMAIN y.clips : LevelOK(s, j, base[s] + j)

Views == [matrix : Int, bounds : SUBSET Int, clip : Nat, layer : Nat]
Saveds == [matrix : Int, clip : SUBSET Int, view : Views]
Logs == [pixels : SUBSET Int, clip : SUBSET Int, displaced : BOOLEAN]
LayerStates == [world : Int, elements : Seq(Int)]
StateTypes ==
    /\ saveCount \in Nat \ {0}
    /\ globalClips \in Seq(SUBSET Surface)
    /\ matrices \in Seq(LayerStates)
    /\ layerStack \in Seq(Nat) /\ \A s \in DOMAIN layerStack : layerStack[s] \in DOMAIN layers
    /\ layers \in Seq(Layers) /\ draws \in Seq(Draws) /\ msaa \in BOOLEAN
    /\ saved \in Seq(Saveds)
    /\ log \in Seq(Logs)
    /\ scene \in Scenes /\ ops \in 0 .. scene.ops /\ frames \in 0 .. scene.frames

SavesInv ==
    /\ Len(saved) = saveCount /\ Len(globalClips) = saveCount
    /\ IF layerStack = <<>>
       THEN /\ saveCount = 1 /\ matrices = InitialMatrices
            /\ saved[1].matrix = 0 /\ saved[1].clip = Surface /\ globalClips = <<Surface>>
            /\ layers = <<>> /\ draws = <<>> /\ log = <<>>
       ELSE /\ Len(matrices) = Len(layerStack)
            /\ \E base \in [1 .. Len(layerStack) + 1 -> 0 .. saveCount] : Saves(base)

\* R has the textures of the layers.
Pictures(ls, table, R) ==
    \A l \in DOMAIN ls : \A p \in ls[l].bounds :
        /\ R[l][p] \in Seq(Nat)
        /\ R[l][p] = LayerShows(ls[l], table, Boxes(ls), R, p)

-----------------------------------------------------------------------------
(* Values joined one after the other, and elements chosen from a sequence  *)

\* Two functions that start alike and go on alike are equal.
LEMMA StepsAgree ==
  ASSUME NEW n \in Nat, NEW f, NEW g, f[0] = g[0],
         \A i \in 1 .. n : f[i - 1] = g[i - 1] => f[i] = g[i]
  PROVE  \A i \in 0 .. n : f[i] = g[i]
<1>. DEFINE I == {i \in Nat : i <= n => f[i] = g[i]}
<1>1. 0 \in I
  OBVIOUS
<1>2. ASSUME NEW i \in Nat, i \in I PROVE i + 1 \in I
  <2>. SUFFICES ASSUME i + 1 <= n PROVE f[i + 1] = g[i + 1]
    OBVIOUS
  <2>1. i + 1 \in 1 .. n /\ (i + 1) - 1 = i /\ f[i] = g[i]
    BY <1>2
  <2>. QED
    BY <2>1
<1>3. \A i \in Nat : i \in I
  <2>. HIDE DEF I
  <2>. QED BY <1>1, <1>2, SetInduction
<1>. QED
  BY <1>3

\* The steps of Joined.
JoinsTo(g, f, n) == g[0] = <<>> /\ \A i \in 1 .. n : g[i] = g[i - 1] \o f[i]

\* Joined is the last value of a function that takes those steps.
LEMMA JoinedRuns ==
  ASSUME NEW S, NEW n \in Nat, NEW f, \A i \in 1 .. n : f[i] \in Seq(S)
  PROVE  \E g \in [0 .. n -> Seq(S)] : JoinsTo(g, f, n) /\ Joined(f, n) = g[n]
<1>. DEFINE step == [p \in (1 .. n) \X Seq(S) |-> p[2] \o f[p[1]]]
            Defines(g) == g = [i \in 0 .. n |-> IF i = 0 THEN <<>> ELSE g[i - 1] \o f[i]]
            joined == CHOOSE g : Defines(g)
<1>1. \A i \in 1 .. n, r \in Seq(S) : r \o f[i] \in Seq(S) /\ step[<<i, r>>] = r \o f[i]
  <2>. SUFFICES ASSUME NEW i \in 1 .. n, NEW r \in Seq(S)
                PROVE  r \o f[i] \in Seq(S) /\ step[<<i, r>>] = r \o f[i]
    OBVIOUS
  <2>1. f[i] \in Seq(S)
    OBVIOUS
  <2>2. r \o f[i] \in Seq(S)
    BY <2>1
  <2>. QED
    BY <2>2
<1>2. <<>> \in Seq(S) /\ \A i \in 0 .. n : i # 0 => i \in 1 .. n /\ i - 1 \in 0 .. n
  OBVIOUS
<1>. HIDE DEF step
<1>3. \A i \in 0 .. n, r \in Seq(S) : i # 0 => step[<<i, r>>] \in Seq(S)
  BY <1>1, <1>2
<1>4. PICK g \in [0 .. n -> Seq(S)] : Recurs(g, 0, n, <<>>, step)
  <2>1. 0 \in Int /\ n \in Int
    OBVIOUS
  <2>. QED
    BY <2>1, <1>2, <1>3, RecursionDefines, Zenon
<1>5. Defines(g) /\ JoinsTo(g, f, n)
  <2>1. ASSUME NEW i \in 0 .. n, i # 0 PROVE g[i] = g[i - 1] \o f[i]
    BY <2>1, <1>1, <1>2, <1>4 DEF Recurs
  <2>2. g[0] = <<>>
    <3>1. 0 \in 0 .. n
      OBVIOUS
    <3>. QED
      BY <3>1, <1>4 DEF Recurs
  <2>3. Defines(g)
    BY <2>1, <2>2
  <2>4. \A i \in 1 .. n : i \in 0 .. n /\ i # 0
    OBVIOUS
  <2>. QED
    BY <2>1, <2>2, <2>3, <2>4 DEF JoinsTo
<1>6. Defines(joined)
  BY <1>5
<1>7. Joined(f, n) = joined[n]
  BY DEF Joined
<1>. HIDE DEF joined
<1>8. joined[n] = g[n]
  <2>1. joined[0] = g[0]
    <3>1. 0 \in 0 .. n
      OBVIOUS
    <3>. QED
      BY <3>1, <1>5, <1>6
  <2>2. \A i \in 1 .. n : joined[i] = joined[i - 1] \o f[i] /\ g[i] = g[i - 1] \o f[i]
    <3>1. \A i \in 1 .. n : i \in 0 .. n /\ i # 0
      OBVIOUS
    <3>. QED
      BY <3>1, <1>5, <1>6
  <2>3. \A i \in 1 .. n : joined[i - 1] = g[i - 1] => joined[i] = g[i]
    BY <2>2
  <2>. HIDE DEF Defines
  <2>4. \A i \in 0 .. n : joined[i] = g[i]
    BY <2>1, <2>3, StepsAgree, ZenonT(50)
  <2>. QED
    BY <2>4
<1>. HIDE DEF Defines
<1>. QED
  BY <1>5, <1>7, <1>8

\* Two such functions agree as far as both go.
LEMMA JoinsSame ==
  ASSUME NEW n \in Nat, NEW f, NEW m \in 0 .. n,
         NEW g, JoinsTo(g, f, n), NEW h, JoinsTo(h, f, m)
  PROVE  g[m] = h[m]
<1>. DEFINE I == {i \in Nat : i <= m => g[i] = h[i]}
<1>1. 0 \in I
  BY DEF JoinsTo
<1>2. ASSUME NEW i \in Nat, i \in I PROVE i + 1 \in I
  <2>. SUFFICES ASSUME i + 1 <= m PROVE g[i + 1] = h[i + 1]
    OBVIOUS
  <2>1. i + 1 \in 1 .. n /\ i + 1 \in 1 .. m /\ (i + 1) - 1 = i /\ g[i] = h[i]
    BY <1>2
  <2>. QED
    BY <2>1 DEF JoinsTo
<1>3. \A i \in Nat : i \in I
  <2>. HIDE DEF I
  <2>. QED BY <1>1, <1>2, SetInduction
<1>4. m \in Nat /\ m <= m
  OBVIOUS
<1>. QED
  BY <1>3, <1>4

\* Any function with the steps of Joined ends with it.
LEMMA JoinedEnds ==
  ASSUME NEW S, NEW n \in Nat, NEW f, \A i \in 1 .. n : f[i] \in Seq(S),
         NEW m \in 0 .. n, NEW g, JoinsTo(g, f, n)
  PROVE  Joined(f, m) = g[m]
<1>1. m \in Nat /\ \A i \in 1 .. m : i \in 1 .. n
  OBVIOUS
<1>2. \A i \in 1 .. m : f[i] \in Seq(S)
  BY <1>1
<1>3. PICK h \in [0 .. m -> Seq(S)] : JoinsTo(h, f, m) /\ Joined(f, m) = h[m]
  BY <1>1, <1>2, JoinedRuns, Zenon
<1>4. JoinsTo(h, f, m)
  BY <1>3
<1>5. g[m] = h[m]
  BY <1>4, JoinsSame, Zenon
<1>. QED
  BY <1>3, <1>4

\* What Joined is, value by value.
LEMMA JoinedIs ==
  ASSUME NEW S, NEW n \in Nat, NEW f, \A i \in 1 .. n : f[i] \in Seq(S)
  PROVE  /\ Joined(f, n) \in Seq(S)
         /\ n = 0 => Joined(f, n) = <<>>
         /\ \A m \in Nat : n = m + 1 => Joined(f, n) = Joined(f, m) \o f[n]
<1>1. PICK g \in [0 .. n -> Seq(S)] : JoinsTo(g, f, n) /\ Joined(f, n) = g[n]
  BY JoinedRuns, Zenon
<1>2. n \in 0 .. n /\ \A m \in Nat : n = m + 1 => n \in 1 .. n /\ m \in 0 .. n /\ n - 1 = m
  OBVIOUS
<1>3. \A m \in 0 .. n : Joined(f, m) = g[m]
  BY <1>1, JoinedEnds, ZenonT(50)
<1>4. ASSUME NEW m \in Nat, n = m + 1 PROVE Joined(f, n) = Joined(f, m) \o f[n]
  <2>1. g[n] = g[n - 1] \o f[n]
    BY <1>1, <1>2, <1>4 DEF JoinsTo
  <2>2. n - 1 = m /\ Joined(f, m) = g[m]
    BY <1>2, <1>3, <1>4
  <2>. QED
    BY <2>1, <2>2, <1>1
<1>5. Joined(f, n) \in Seq(S) /\ (n = 0 => Joined(f, n) = <<>>)
  BY <1>1, <1>2 DEF JoinsTo
<1>. QED
  BY <1>4, <1>5

\* Joined does not depend on later values.
LEMMA JoinedAgree ==
  ASSUME NEW S, NEW n \in Nat, NEW f, NEW g,
         \A i \in 1 .. n : f[i] \in Seq(S) /\ g[i] = f[i]
  PROVE  Joined(g, n) = Joined(f, n)
<1>1. PICK h \in [0 .. n -> Seq(S)] : JoinsTo(h, f, n) /\ Joined(f, n) = h[n]
  BY JoinedRuns, Zenon
<1>2. JoinsTo(h, g, n)
  BY <1>1 DEF JoinsTo
<1>3. n \in 0 .. n /\ \A i \in 1 .. n : g[i] \in Seq(S)
  OBVIOUS
<1>4. Joined(g, n) = h[n]
  BY <1>2, <1>3, JoinedEnds, Zenon
<1>. QED
  BY <1>1, <1>4

\* One more value.
OneMore(S, f, g, n, m, x) ==
    /\ n \in Nat /\ m = n + 1
    /\ \A i \in 1 .. n : f[i] \in Seq(S) /\ g[i] = f[i]
    /\ g[m] = x /\ x \in Seq(S)

\* With one more value there is as much more.
LEMMA JoinedNext ==
  ASSUME NEW S, NEW f, NEW g, NEW n, NEW m, NEW x, OneMore(S, f, g, n, m, x)
  PROVE  Joined(g, m) = Joined(f, n) \o x
<1>1. n \in Nat /\ m \in Nat /\ m = n + 1
  BY DEF OneMore
<1>2. \A i \in 1 .. n : f[i] \in Seq(S) /\ g[i] = f[i]
  BY DEF OneMore
<1>3. g[m] = x /\ x \in Seq(S)
  BY DEF OneMore
<1>4. \A i \in 1 .. m : g[i] \in Seq(S)
  <2>1. \A i \in 1 .. m : i \in 1 .. n \/ i = m
    BY <1>1
  <2>. QED
    BY <2>1, <1>2, <1>3
<1>5. Joined(g, n) = Joined(f, n)
  BY <1>1, <1>2, JoinedAgree, Zenon
<1>6. Joined(g, m) = Joined(g, n) \o g[m]
  BY <1>1, <1>4, JoinedIs, Zenon
<1>. QED
  BY <1>3, <1>5, <1>6

\* Sequences may be put together in any order.
LEMMA ConcatThree ==
  ASSUME NEW S
  PROVE  \A s, t, u \in Seq(S) : (s \o t) \o u = s \o (t \o u)
<1>. TAKE s, t, u \in Seq(S)
<1>. QED
  BY ConcatAssociative

\* A value grows, and what comes after it is empty where that is to be seen.
MoreAt(S, f, g, n, at, more) ==
    /\ n \in Nat /\ at \in 1 .. n /\ more \in Seq(S)
    /\ \A i \in 1 .. n : f[i] \in Seq(S)
    /\ g[at] = f[at] \o more
    /\ \A i \in 1 .. n : i # at => g[i] = f[i]
    /\ more # <<>> => \A i \in at + 1 .. n : f[i] = <<>>

\* Such a value shows at the end.
LEMMA JoinedGrows ==
  ASSUME NEW S, NEW f, NEW g, NEW n, NEW at, NEW more, MoreAt(S, f, g, n, at, more)
  PROVE  Joined(g, n) = Joined(f, n) \o more
<1>0. n \in Nat /\ at \in 1 .. n /\ more \in Seq(S) /\ \A i \in 1 .. n : f[i] \in Seq(S)
  BY DEF MoreAt
<1>9. g[at] = f[at] \o more /\ \A i \in 1 .. n : i # at => g[i] = f[i]
  BY DEF MoreAt
<1>10. more # <<>> => \A i \in at + 1 .. n : f[i] = <<>>
  BY DEF MoreAt
<1>. USE <1>0
<1>1. \A i \in 1 .. n : g[i] \in Seq(S)
  <2>1. g[at] \in Seq(S)
    BY <1>9
  <2>. QED
    BY <2>1, <1>9
<1>2. \A m \in 0 .. n : m \in Nat /\ \A i \in 1 .. m : i \in 1 .. n
  OBVIOUS
<1>3. ASSUME NEW m \in 1 .. n, NEW k \in Nat, m = k + 1
      PROVE  /\ Joined(f, m) = Joined(f, k) \o f[m]
             /\ Joined(g, m) = Joined(g, k) \o g[m]
             /\ Joined(f, k) \in Seq(S) /\ Joined(g, k) \in Seq(S)
             /\ f[m] \in Seq(S) /\ g[m] \in Seq(S)
  <2>1. m \in Nat /\ m \in 0 .. n /\ k \in 0 .. n
    BY <1>3
  <2>2. /\ \A i \in 1 .. m : f[i] \in Seq(S) /\ g[i] \in Seq(S)
        /\ \A i \in 1 .. k : f[i] \in Seq(S) /\ g[i] \in Seq(S)
    BY <2>1, <1>1, <1>2
  <2>3. Joined(f, m) = Joined(f, k) \o f[m] /\ Joined(g, m) = Joined(g, k) \o g[m]
    BY <2>1, <2>2, <1>3, JoinedIs, Zenon
  <2>4. Joined(f, k) \in Seq(S) /\ Joined(g, k) \in Seq(S)
    BY <2>2, JoinedIs, Zenon
  <2>. QED
    BY <2>3, <2>4, <1>1
<1>4. PICK b \in Nat : at = b + 1
  <2>1. at - 1 \in Nat /\ at = (at - 1) + 1
    OBVIOUS
  <2>. QED
    BY <2>1
<1>5. Joined(g, b) = Joined(f, b)
  <2>1. \A i \in 1 .. b : i \in 1 .. n /\ i # at
    BY <1>4
  <2>2. \A i \in 1 .. b : f[i] \in Seq(S) /\ g[i] = f[i]
    BY <2>1, <1>9
  <2>. QED
    BY <2>2, JoinedAgree, Zenon
<1>6. Joined(g, at) = Joined(f, at) \o more
  <2>. DEFINE a == Joined(f, b)
  <2>1. /\ Joined(g, at) = a \o (f[at] \o more)
        /\ Joined(f, at) = a \o f[at]
        /\ a \in Seq(S) /\ f[at] \in Seq(S)
    BY <1>3, <1>4, <1>5, <1>9
  <2>. HIDE DEF a
  <2>2. PICK b1 \in Seq(S) : b1 = f[at]
    BY <2>1
  <2>3. PICK a1 \in Seq(S) : a1 = a
    BY <2>1
  <2>4. PICK m1 \in Seq(S) : m1 = more
    OBVIOUS
  <2>5. (a1 \o b1) \o m1 = a1 \o (b1 \o m1)
    BY ConcatThree
  <2>. QED
    BY <2>1, <2>2, <2>3, <2>4, <2>5
<1>7. CASE more = <<>>
  <2>1. \A i \in 1 .. n : f[i] \in Seq(S) /\ g[i] = f[i]
    BY <1>7, <1>9
  <2>2. Joined(g, n) = Joined(f, n)
    BY <2>1, JoinedAgree, Zenon
  <2>3. Joined(f, n) \in Seq(S)
    BY JoinedIs, Zenon
  <2>. QED
    BY <2>2, <2>3, <1>7
<1>8. CASE more # <<>>
  <2>. DEFINE I == {i \in Nat : i \in at .. n => Joined(g, i) = Joined(f, i) \o more}
  <2>1. 0 \in I
    OBVIOUS
  <2>2. ASSUME NEW i \in Nat, i \in I PROVE i + 1 \in I
    <3>. DEFINE m == i + 1
    <3>1. m \in Nat /\ m = i + 1
      OBVIOUS
    <3>. HIDE DEF m
    <3>. SUFFICES ASSUME m \in at .. n
                  PROVE  Joined(g, m) = Joined(f, m) \o more
      BY <3>1
    <3>2. CASE m = at
      BY <3>2, <1>6
    <3>3. CASE m # at
      <4>1. m \in 1 .. n /\ m \in at + 1 .. n /\ i \in at .. n
        BY <3>1, <3>3
      <4>2. Joined(g, i) = Joined(f, i) \o more
        BY <2>2, <4>1
      <4>3. f[m] = <<>> /\ g[m] = <<>>
        BY <4>1, <3>3, <1>8, <1>9, <1>10
      <4>4. /\ Joined(f, m) = Joined(f, i) \o <<>> /\ Joined(g, m) = Joined(g, i) \o <<>>
            /\ Joined(f, i) \in Seq(S) /\ Joined(g, i) \in Seq(S)
        BY <4>1, <4>3, <3>1, <1>3
      <4>. QED
        BY <4>2, <4>4
    <3>. QED
      BY <3>2, <3>3
  <2>3. \A i \in Nat : i \in I
    <3>. HIDE DEF I
    <3>. QED BY <2>1, <2>2, SetInduction
  <2>4. n \in at .. n
    OBVIOUS
  <2>. QED
    BY <2>3, <2>4
<1>. QED
  BY <1>7, <1>8

\* What is empty at the end can be left away.
EmptyFrom(S, f, n, m) ==
    /\ n \in Nat /\ m \in 0 .. n
    /\ \A i \in 1 .. n : f[i] \in Seq(S)
    /\ \A i \in m + 1 .. n : f[i] = <<>>

\* Values that are empty add nothing.
LEMMA JoinedTail ==
  ASSUME NEW S, NEW f, NEW n, NEW m, EmptyFrom(S, f, n, m)
  PROVE  Joined(f, n) = Joined(f, m)
<1>0. /\ n \in Nat /\ m \in 0 .. n /\ \A i \in 1 .. n : f[i] \in Seq(S)
      /\ \A i \in m + 1 .. n : f[i] = <<>>
  BY DEF EmptyFrom
<1>. USE <1>0
<1>. DEFINE I == {i \in Nat : i \in m .. n => Joined(f, i) = Joined(f, m)}
<1>1. 0 \in I
  <2>1. 0 \in m .. n => m = 0
    OBVIOUS
  <2>. QED
    BY <2>1
<1>2. ASSUME NEW i \in Nat, i \in I PROVE i + 1 \in I
  <2>. DEFINE k == i + 1
  <2>1. k \in Nat /\ k = i + 1
    OBVIOUS
  <2>. HIDE DEF k
  <2>. SUFFICES ASSUME k \in m .. n PROVE Joined(f, k) = Joined(f, m)
    BY <2>1
  <2>2. CASE k = m
    BY <2>2
  <2>3. CASE k # m
    <3>1. k \in m + 1 .. n /\ i \in m .. n /\ \A j \in 1 .. k : j \in 1 .. n
      BY <2>1, <2>3
    <3>2. Joined(f, i) = Joined(f, m) /\ f[k] = <<>>
      BY <1>2, <3>1
    <3>3. \A j \in 1 .. k : f[j] \in Seq(S)
      BY <3>1
    <3>4. \A j \in 1 .. i : f[j] \in Seq(S)
      BY <2>1, <3>3
    <3>5. Joined(f, k) = Joined(f, i) \o f[k] /\ Joined(f, i) \in Seq(S)
      BY <2>1, <3>3, <3>4, JoinedIs, Zenon
    <3>. QED
      BY <3>2, <3>5
  <2>. QED
    BY <2>2, <2>3
<1>3. \A i \in Nat : i \in I
  <2>. HIDE DEF I
  <2>. QED BY <1>1, <1>2, SetInduction
<1>4. n \in m .. n
  OBVIOUS
<1>. QED
  BY <1>3, <1>4

\* The members of two sequences put together.
LEMMA ToSetConcat ==
  ASSUME NEW S, NEW s \in Seq(S), NEW t \in Seq(S)
  PROVE  ToSet(s \o t) = ToSet(s) \cup ToSet(t)
<1>1. /\ s \o t \in Seq(S) /\ Len(s \o t) = Len(s) + Len(t)
      /\ \A i \in 1 .. Len(s) + Len(t) :
            (s \o t)[i] = IF i <= Len(s) THEN s[i] ELSE t[i - Len(s)]
      /\ DOMAIN (s \o t) = 1 .. Len(s) + Len(t)
      /\ DOMAIN s = 1 .. Len(s) /\ DOMAIN t = 1 .. Len(t)
  BY ConcatProperties
<1>2. ToSet(s \o t) \subseteq ToSet(s) \cup ToSet(t)
  <2>. SUFFICES ASSUME NEW i \in 1 .. Len(s) + Len(t)
                PROVE  (s \o t)[i] \in ToSet(s) \cup ToSet(t)
    BY <1>1 DEF ToSet
  <2>1. CASE i <= Len(s)
    BY <2>1, <1>1 DEF ToSet
  <2>2. CASE i > Len(s)
    <3>1. i - Len(s) \in 1 .. Len(t) /\ (s \o t)[i] = t[i - Len(s)]
      BY <2>2, <1>1
    <3>. QED
      BY <3>1 DEF ToSet
  <2>. QED
    BY <2>1, <2>2
<1>3. ASSUME NEW i \in 1 .. Len(s) PROVE s[i] \in ToSet(s \o t)
  <2>1. i \in 1 .. Len(s) + Len(t) /\ (s \o t)[i] = s[i]
    BY <1>1
  <2>. QED
    BY <2>1, <1>1 DEF ToSet
<1>4. ASSUME NEW i \in 1 .. Len(t) PROVE t[i] \in ToSet(s \o t)
  <2>1. PICK j \in 1 .. Len(s) + Len(t) : (s \o t)[j] = t[i]
    <3>1. /\ Len(s) + i \in 1 .. Len(s) + Len(t) /\ ~ (Len(s) + i <= Len(s))
          /\ (Len(s) + i) - Len(s) = i
      OBVIOUS
    <3>2. (s \o t)[Len(s) + i] = t[i]
      BY <1>1, <3>1
    <3>. QED
      BY <3>1, <3>2
  <2>. QED
    BY <2>1, <1>1 DEF ToSet
<1>. QED
  <2>1. ToSet(s) \subseteq ToSet(s \o t)
    BY <1>1, <1>3 DEF ToSet
  <2>2. ToSet(t) \subseteq ToSet(s \o t)
    BY <1>1, <1>4 DEF ToSet
  <2>. QED
    BY <1>2, <2>1, <2>2, Zenon

\* The members of a sequence with one more element.
LEMMA ToSetAppend ==
  ASSUME NEW S, NEW s \in Seq(S), NEW x \in S
  PROVE  ToSet(Append(s, x)) = ToSet(s) \cup {x}
<1>1. /\ Append(s, x) \in Seq(S) /\ Len(Append(s, x)) = Len(s) + 1 /\ Len(s) \in Nat
      /\ \A i \in 1 .. Len(s) : Append(s, x)[i] = s[i]
      /\ Append(s, x)[Len(s) + 1] = x
  BY AppendProperties
<1>2. PICK t : t = Append(s, x)
  OBVIOUS
<1>3. DOMAIN t = 1 .. Len(s) + 1 /\ DOMAIN s = 1 .. Len(s)
  BY <1>1, <1>2
<1>4. \A i \in 1 .. Len(s) + 1 : i \in 1 .. Len(s) \/ i = Len(s) + 1
  BY <1>1
<1>5. 1 .. Len(s) \subseteq 1 .. Len(s) + 1 /\ Len(s) + 1 \in 1 .. Len(s) + 1
  BY <1>1
<1>6. ToSet(t) = ToSet(s) \cup {x}
  BY <1>1, <1>2, <1>3, <1>4, <1>5 DEF ToSet
<1>. QED
  BY <1>2, <1>6

\* The members of the joined values.
LEMMA JoinedMembers ==
  ASSUME NEW S, NEW n \in Nat, NEW f, \A i \in 1 .. n : f[i] \in Seq(S)
  PROVE  ToSet(Joined(f, n)) = UNION {ToSet(f[i]) : i \in 1 .. n}
<1>. DEFINE I == {i \in Nat : i <= n => ToSet(Joined(f, i)) = UNION {ToSet(f[j]) : j \in 1 .. i}}
<1>1. 0 \in I
  <2>1. Joined(f, 0) = <<>>
    <3>1. \A i \in 1 .. 0 : f[i] \in Seq(S)
      OBVIOUS
    <3>. QED
      BY <3>1, JoinedIs
  <2>2. ToSet(<<>>) = {} /\ UNION {ToSet(f[j]) : j \in 1 .. 0} = {}
    BY DEF ToSet
  <2>. QED
    BY <2>1, <2>2
<1>2. ASSUME NEW i \in Nat, i \in I PROVE i + 1 \in I
  <2>. DEFINE k == i + 1
  <2>1. k \in Nat /\ k = i + 1 /\ i <= k
    OBVIOUS
  <2>. HIDE DEF k
  <2>. SUFFICES ASSUME k <= n
                PROVE  ToSet(Joined(f, k)) = UNION {ToSet(f[j]) : j \in 1 .. k}
    BY <2>1
  <2>2. (\A j \in 1 .. k : f[j] \in Seq(S)) /\ (\A j \in 1 .. i : f[j] \in Seq(S)) /\ f[k] \in Seq(S)
    BY <2>1
  <2>3. Joined(f, k) = Joined(f, i) \o f[k] /\ Joined(f, i) \in Seq(S)
    BY <2>1, <2>2, JoinedIs, Zenon
  <2>4. ToSet(Joined(f, k)) = ToSet(Joined(f, i)) \cup ToSet(f[k])
    BY <2>2, <2>3, ToSetConcat
  <2>5. ToSet(Joined(f, i)) = UNION {ToSet(f[j]) : j \in 1 .. i}
    BY <1>2, <2>1
  <2>6. \A j \in 1 .. k : j \in 1 .. i \/ j = k
    BY <2>1
  <2>7. k \in 1 .. k /\ \A j \in 1 .. i : j \in 1 .. k
    BY <2>1
  <2>. QED
    BY <2>4, <2>5, <2>6, <2>7, Zenon
<1>3. \A i \in Nat : i \in I
  <2>. HIDE DEF I
  <2>. QED BY <1>1, <1>2, SetInduction
<1>. QED
  BY <1>3

\* A sequence of numbers that grow.
Grows(s) == \A a, b \in DOMAIN s : a < b => s[a] < s[b]

\* Growing values one after the other grow.
LEMMA JoinedSorted ==
  ASSUME NEW n \in Nat, NEW f, \A i \in 1 .. n : f[i] \in Seq(Nat) /\ Grows(f[i]),
         \A i, j \in 1 .. n : i < j => \A a \in ToSet(f[i]), b \in ToSet(f[j]) : a < b
  PROVE  Grows(Joined(f, n))
<1>. DEFINE I == {i \in Nat : i <= n => Grows(Joined(f, i))}
<1>1. 0 \in I
  <2>1. Joined(f, 0) = <<>>
    <3>1. \A i \in 1 .. 0 : f[i] \in Seq(Nat)
      OBVIOUS
    <3>. QED
      BY <3>1, JoinedIs
  <2>. QED
    BY <2>1 DEF Grows
<1>2. ASSUME NEW i \in Nat, i \in I PROVE i + 1 \in I
  <2>. DEFINE k == i + 1
  <2>1. k \in Nat /\ k = i + 1 /\ i <= k
    OBVIOUS
  <2>. HIDE DEF k
  <2>. SUFFICES ASSUME k <= n PROVE Grows(Joined(f, k))
    BY <2>1
  <2>. DEFINE s == Joined(f, i)  t == f[k]
  <2>2. (\A j \in 1 .. k : f[j] \in Seq(Nat)) /\ (\A j \in 1 .. i : f[j] \in Seq(Nat))
        /\ t \in Seq(Nat) /\ Grows(t)
    BY <2>1
  <2>3. Joined(f, k) = s \o t /\ s \in Seq(Nat)
    BY <2>1, <2>2, JoinedIs, Zenon
  <2>4. Grows(s)
    BY <1>2, <2>1
  <2>5. \A a \in ToSet(s), b \in ToSet(t) : a < b
    <3>1. ToSet(s) = UNION {ToSet(f[j]) : j \in 1 .. i}
      BY <2>2, JoinedMembers, Zenon
    <3>2. \A j \in 1 .. i : j \in 1 .. n /\ k \in 1 .. n /\ j < k
      BY <2>1
    <3>. QED
      BY <3>1, <3>2
  <2>. HIDE DEF s, t
  <2>6. /\ s \o t \in Seq(Nat) /\ Len(s \o t) = Len(s) + Len(t)
        /\ \A j \in 1 .. Len(s) + Len(t) :
              (s \o t)[j] = IF j <= Len(s) THEN s[j] ELSE t[j - Len(s)]
    BY <2>2, <2>3, ConcatProperties
  <2>7. ASSUME NEW a \in DOMAIN (s \o t), NEW b \in DOMAIN (s \o t), a < b
        PROVE  (s \o t)[a] < (s \o t)[b]
    <3>1. a \in 1 .. Len(s) + Len(t) /\ b \in 1 .. Len(s) + Len(t) /\ Len(s) \in Nat /\ Len(t) \in Nat
      BY <2>2, <2>3, <2>6
    <3>2. CASE b <= Len(s)
      <4>1. a \in DOMAIN s /\ b \in DOMAIN s
        BY <2>3, <2>7, <3>1, <3>2
      <4>. QED
        BY <4>1, <3>1, <3>2, <2>4, <2>6, <2>7 DEF Grows
    <3>3. CASE a > Len(s)
      <4>1. a - Len(s) \in DOMAIN t /\ b - Len(s) \in DOMAIN t /\ a - Len(s) < b - Len(s)
        BY <2>2, <2>7, <3>1, <3>3
      <4>2. (s \o t)[a] = t[a - Len(s)] /\ (s \o t)[b] = t[b - Len(s)]
        BY <2>6, <2>7, <3>1, <3>3
      <4>. QED
        BY <4>1, <4>2, <2>2 DEF Grows
    <3>4. CASE a <= Len(s) /\ b > Len(s)
      <4>1. a \in DOMAIN s /\ b - Len(s) \in DOMAIN t
        BY <2>2, <2>3, <3>1, <3>4
      <4>2. (s \o t)[a] = s[a] /\ (s \o t)[b] = t[b - Len(s)]
        BY <2>6, <3>1, <3>4
      <4>3. s[a] \in ToSet(s) /\ t[b - Len(s)] \in ToSet(t)
        BY <4>1 DEF ToSet
      <4>. QED
        BY <4>2, <4>3, <2>5
    <3>. QED
      BY <3>1, <3>2, <3>3, <3>4
  <2>. QED
    BY <2>3, <2>7 DEF Grows
<1>3. \A i \in Nat : i \in I
  <2>. HIDE DEF I
  <2>. QED BY <1>1, <1>2, SetInduction
<1>. QED
  BY <1>3

\* FlattenSeq is Joined.
LEMMA FlattenIsJoined ==
  ASSUME NEW S, NEW ss \in Seq(Seq(S))
  PROVE  FlattenSeq(ss) = Joined(ss, Len(ss))
<1>1. PICK n \in Nat : n = Len(ss)
  OBVIOUS
<1>2. \A i \in 1 .. n : ss[i] \in Seq(S)
  BY <1>1
<1>3. CASE n = 0
  <2>1. FlattenSeq(ss) = ss
    BY <1>1, <1>3 DEF FlattenSeq
  <2>3. ss = <<>>
    BY <1>1, <1>3, EmptySeq
  <2>2. Joined(ss, n) = <<>>
    BY <1>2, <1>3, JoinedIs, Zenon
  <2>. QED
    BY <2>1, <2>2, <2>3, <1>1
<1>4. CASE n > 0
  <2>. DEFINE Defines(h) == h = [i \in 1 .. n |-> IF i = 1 THEN ss[i] ELSE h[i - 1] \o ss[i]]
              flatten == CHOOSE h : Defines(h)
              g == [i \in 1 .. n |-> Joined(ss, i)]
  <2>1. ASSUME NEW i \in 1 .. n
        PROVE  g[i] = IF i = 1 THEN ss[i] ELSE g[i - 1] \o ss[i]
    <3>1. PICK m \in Nat : i = m + 1 /\ i \in Nat /\ m = i - 1 /\ (i # 1 => m \in 1 .. n)
      <4>1. i - 1 \in Nat /\ i = (i - 1) + 1 /\ i \in Nat /\ (i # 1 => i - 1 \in 1 .. n)
        OBVIOUS
      <4>. QED
        BY <4>1
    <3>2. (\A j \in 1 .. i : ss[j] \in Seq(S)) /\ (\A j \in 1 .. m : ss[j] \in Seq(S))
      BY <1>2, <3>1
    <3>3. Joined(ss, i) = Joined(ss, m) \o ss[i] /\ (m = 0 => Joined(ss, m) = <<>>)
      BY <3>1, <3>2, JoinedIs, Zenon
    <3>4. i = 1 => m = 0 /\ <<>> \o ss[i] = ss[i]
      BY <1>2, <3>1
    <3>. QED
      BY <3>1, <3>3, <3>4
  <2>2. Defines(g)
    BY <2>1
  <2>3. Defines(flatten)
    BY <2>2
  <2>4. FlattenSeq(ss) = flatten[n]
    BY <1>1, <1>4 DEF FlattenSeq
  <2>. HIDE DEF flatten, g
  <2>. DEFINE I == {i \in Nat : i + 1 <= n => flatten[i + 1] = g[i + 1]}
  <2>5. 0 \in I
    <3>1. 1 \in 1 .. n
      BY <1>4
    <3>2. flatten[1] = ss[1] /\ g[1] = ss[1]
      BY <3>1, <2>2, <2>3
    <3>. QED
      BY <3>2
  <2>6. ASSUME NEW i \in Nat, i \in I PROVE i + 1 \in I
    <3>. DEFINE k == (i + 1) + 1
    <3>1. k = (i + 1) + 1
      OBVIOUS
    <3>. HIDE DEF k
    <3>. SUFFICES ASSUME k <= n PROVE flatten[k] = g[k]
      BY <3>1
    <3>2. k \in 1 .. n /\ k # 1 /\ k - 1 = i + 1
      BY <3>1
    <3>3. flatten[k - 1] = g[k - 1]
      BY <2>6, <3>1, <3>2
    <3>4. flatten[k] = flatten[k - 1] \o ss[k]
      BY <2>3, <3>2
    <3>5. g[k] = g[k - 1] \o ss[k]
      BY <2>1, <3>2
    <3>. QED
      BY <3>3, <3>4, <3>5
  <2>7. \A i \in Nat : i \in I
    <3>. HIDE DEF I
    <3>. QED BY <2>5, <2>6, SetInduction
  <2>8. PICK m \in Nat : m + 1 = n /\ m + 1 <= n /\ n \in 1 .. n
    <3>1. n - 1 \in Nat /\ (n - 1) + 1 = n /\ (n - 1) + 1 <= n /\ n \in 1 .. n
      BY <1>4
    <3>. QED
      BY <3>1
  <2>9. flatten[n] = g[n]
    <3>1. m \in I
      BY <2>7
    <3>2. flatten[m + 1] = g[m + 1]
      BY <3>1, <2>8
    <3>. QED
      BY <3>2, <2>8
  <2>. QED
    BY <2>4, <2>8, <2>9, <1>1 DEF g
<1>. QED
  BY <1>3, <1>4

\* Chosen is Joined.
Picked(s, places) == [i \in 1 .. Len(s) |-> IF i \in places THEN <<s[i]>> ELSE <<>>]

\* What is chosen from a sequence is Joined, too.
LEMMA ChosenIsJoined ==
  ASSUME NEW S, NEW s \in Seq(S), NEW places
  PROVE  /\ Chosen(s, places) = Joined(Picked(s, places), Len(s))
         /\ \A i \in 1 .. Len(s) : Picked(s, places)[i] \in Seq(S)
<1>1. PICK n \in Nat : n = Len(s)
  OBVIOUS
<1>. DEFINE f == Picked(s, places)
            Defines(h) == h = [i \in 0 .. n |-> IF i = 0 THEN <<>>
                                                ELSE IF i \in places THEN Append(h[i - 1], s[i])
                                                ELSE h[i - 1]]
            r == CHOOSE h : Defines(h)
<1>2. \A i \in 1 .. n : s[i] \in S
  BY <1>1
<1>3. \A i \in 1 .. n : f[i] = (IF i \in places THEN <<s[i]>> ELSE <<>>) /\ f[i] \in Seq(S)
  BY <1>1, <1>2 DEF Picked
<1>. HIDE DEF f
<1>4. PICK g \in [0 .. n -> Seq(S)] : JoinsTo(g, f, n) /\ Joined(f, n) = g[n]
  BY <1>3, JoinedRuns, Zenon
<1>5. ASSUME NEW i \in 0 .. n, i # 0
      PROVE  g[i] = IF i \in places THEN Append(g[i - 1], s[i]) ELSE g[i - 1]
  <2>1. i \in 1 .. n /\ i - 1 \in 0 .. n
    BY <1>5
  <2>2. g[i] = g[i - 1] \o f[i] /\ g[i - 1] \in Seq(S)
    BY <2>1, <1>4 DEF JoinsTo
  <2>3. CASE i \in places
    <3>1. f[i] = <<s[i]>> /\ s[i] \in S
      BY <2>1, <2>3, <1>2, <1>3
    <3>. QED
      BY <3>1, <2>2, <2>3, AppendIsConcat
  <2>4. CASE i \notin places
    <3>1. f[i] = <<>>
      BY <2>1, <2>4, <1>3
    <3>. QED
      BY <3>1, <2>2, <2>4
  <2>. QED
    BY <2>3, <2>4
<1>6. g[0] = <<>>
  BY <1>4 DEF JoinsTo
<1>7. Defines(g)
  BY <1>5, <1>6
<1>8. Defines(r)
  BY <1>7
<1>9. Chosen(s, places) = r[n]
  BY <1>1 DEF Chosen
<1>. HIDE DEF r
<1>. DEFINE I == {i \in Nat : i <= n => r[i] = g[i]}
<1>10. 0 \in I
  <2>1. 0 \in 0 .. n
    OBVIOUS
  <2>. QED
    BY <2>1, <1>7, <1>8
<1>11. ASSUME NEW i \in Nat, i \in I PROVE i + 1 \in I
  <2>. DEFINE k == i + 1
  <2>1. k = i + 1
    OBVIOUS
  <2>. HIDE DEF k
  <2>. SUFFICES ASSUME k <= n PROVE r[k] = g[k]
    BY <2>1
  <2>2. k \in 0 .. n /\ k # 0 /\ k - 1 = i
    BY <2>1
  <2>3. r[k - 1] = g[k - 1]
    BY <1>11, <2>1, <2>2
  <2>4. r[k] = IF k \in places THEN Append(r[k - 1], s[k]) ELSE r[k - 1]
    BY <1>8, <2>2
  <2>5. g[k] = IF k \in places THEN Append(g[k - 1], s[k]) ELSE g[k - 1]
    BY <1>5, <2>2
  <2>. QED
    <3>1. CASE k \in places
      <4>1. r[k] = Append(r[k - 1], s[k]) /\ g[k] = Append(g[k - 1], s[k])
        BY <3>1, <2>4, <2>5
      <4>. QED
        BY <4>1, <2>3, Zenon
    <3>2. CASE k \notin places
      BY <3>2, <2>3, <2>4, <2>5
    <3>. QED
      BY <3>1, <3>2
<1>12. \A i \in Nat : i \in I
  <2>. HIDE DEF I
  <2>. QED BY <1>10, <1>11, SetInduction
<1>. QED
  <2>1. r[n] = g[n]
    BY <1>12
  <2>. QED
    BY <1>1, <1>3, <1>4, <1>9, <2>1 DEF f

\* What is chosen are the elements at those places.
LEMMA ChosenIs ==
  ASSUME NEW S, NEW s \in Seq(S), NEW places
  PROVE  /\ Chosen(s, places) \in Seq(S)
         /\ ToSet(Chosen(s, places)) = {s[i] : i \in DOMAIN s \cap places}
<1>. DEFINE f == Picked(s, places)
<1>1. PICK n \in Nat : n = Len(s)
  OBVIOUS
<1>2. Chosen(s, places) = Joined(f, n) /\ \A i \in 1 .. n : f[i] \in Seq(S)
  BY <1>1, ChosenIsJoined, Zenon
<1>3. \A i \in 1 .. n : ToSet(f[i]) = IF i \in places THEN {s[i]} ELSE {}
  BY <1>1 DEF Picked, ToSet
<1>. HIDE DEF f
<1>4. Joined(f, n) \in Seq(S)
  BY <1>2, JoinedIs, Zenon
<1>5. ToSet(Joined(f, n)) = UNION {ToSet(f[i]) : i \in 1 .. n}
  BY <1>2, JoinedMembers, Zenon
<1>6. DOMAIN s = 1 .. n
  BY <1>1
<1>7. UNION {ToSet(f[i]) : i \in 1 .. n} = {s[i] : i \in DOMAIN s \cap places}
  BY <1>3, <1>6
<1>. QED
  BY <1>2, <1>4, <1>5, <1>7

\* One more value is chosen, or not.
OneChosen(S, s, t, n, x, places, others, more) ==
    /\ s \in Seq(S) /\ x \in S /\ t = Append(s, x) /\ n = Len(s) + 1
    /\ \A i \in 1 .. Len(s) : i \in others <=> i \in places
    /\ more = IF n \in others THEN <<x>> ELSE <<>>

\* A sequence that is one element longer has that one chosen last.
LEMMA ChosenNext ==
  ASSUME NEW S, NEW s, NEW t, NEW m, NEW x, NEW places, NEW others, NEW more,
         OneChosen(S, s, t, m, x, places, others, more)
  PROVE  Chosen(t, others) = Chosen(s, places) \o more
<1>. DEFINE f == Picked(s, places)  g == Picked(t, others)
<1>0. /\ s \in Seq(S) /\ x \in S /\ t = Append(s, x) /\ m = Len(s) + 1
      /\ \A i \in 1 .. Len(s) : i \in others <=> i \in places
      /\ more = IF m \in others THEN <<x>> ELSE <<>>
  BY DEF OneChosen
<1>1. PICK n \in Nat : n = Len(s)
  BY <1>0
<1>2. m \in Nat /\ m = n + 1 /\ m > 0 /\ m \in 1 .. m
  BY <1>0, <1>1
<1>3. /\ t \in Seq(S) /\ Len(t) = m /\ t[m] = x
      /\ \A i \in 1 .. n : t[i] = s[i] /\ i \in 1 .. m
  BY <1>0, <1>1, <1>2, AppendProperties
<1>4. /\ Chosen(s, places) = Joined(f, n) /\ \A i \in 1 .. n : f[i] \in Seq(S)
  BY <1>0, <1>1, ChosenIsJoined, Zenon
<1>5. Chosen(t, others) = Joined(g, m) /\ \A i \in 1 .. m : g[i] \in Seq(S)
  BY <1>3, ChosenIsJoined, Zenon
<1>6. \A i \in 1 .. n : g[i] = f[i]
  BY <1>0, <1>1, <1>3 DEF Picked
<1>7. g[m] = more
  BY <1>0, <1>2, <1>3 DEF Picked
<1>. HIDE DEF f, g
<1>8. Joined(g, n) = Joined(f, n)
  BY <1>4, <1>6, JoinedAgree, Zenon
<1>9. Joined(g, m) = Joined(g, n) \o g[m]
  BY <1>2, <1>5, JoinedIs, Zenon
<1>. QED
  BY <1>4, <1>5, <1>7, <1>8, <1>9

-----------------------------------------------------------------------------
(* What the operations of HWLayer make of a layer                          *)

\* The types of the parts of a layer.
LEMMA LayerTypes ==
  ASSUME NEW y \in Layers
  PROVE  /\ y.origin \in Int /\ y.bounds \in SUBSET Int /\ y.depth \in Nat
         /\ y.history \in Seq(Nat) /\ y.pending \in Seq(Nat)
         /\ y.clips \in Seq(Levels) /\ y.passes \in Seq(Passes)
         /\ \A i \in DOMAIN y.clips :
               y.clips[i].draws \in Seq(Nat) /\ y.clips[i].bounds \in SUBSET Int
         /\ \A k \in DOMAIN y.passes :
               /\ y.passes[k].ops \in Seq(Nat) /\ y.passes[k].replayed \in Nat
               /\ y.passes[k].firstDepth \in Nat /\ y.passes[k].load \in Nat
               /\ y.passes[k].copy \in SUBSET Int
<1>1. /\ y.origin \in Int /\ y.bounds \in SUBSET Int /\ y.depth \in Nat
      /\ y.history \in Seq(Nat) /\ y.pending \in Seq(Nat)
      /\ y.clips \in Seq(Levels) /\ y.passes \in Seq(Passes)
  BY DEF Layers
<1>2. \A i \in DOMAIN y.clips : y.clips[i] \in Levels
  BY <1>1
<1>3. \A k \in DOMAIN y.passes : y.passes[k] \in Passes
  BY <1>1
<1>. QED
  BY <1>1, <1>2, <1>3 DEF Levels, Passes

\* PushClipStack opens a level without clips.
LEMMA PushIs ==
  ASSUME NEW y \in Layers, y.clips # <<>>
  PROVE  LET z == PushClipStack(y)
             n == Len(y.clips)
         IN  /\ z \in Layers
             /\ z.origin = y.origin /\ z.bounds = y.bounds /\ z.depth = y.depth
             /\ z.history = y.history /\ z.passes = y.passes /\ z.pending = y.pending
             /\ n \in Nat /\ n > 0 /\ n \in 1 .. n /\ Len(z.clips) = n + 1
             /\ \A i \in 1 .. n : z.clips[i] = y.clips[i]
             /\ z.clips[n + 1].draws = <<>> /\ z.clips[n + 1].bounds = y.clips[n].bounds
<1>. DEFINE n == Len(y.clips)
            level == [draws |-> <<>>, bounds |-> CurrentClipBounds(y)]
            z == [y EXCEPT !.clips = Append(y.clips, level)]
<1>1. n \in Nat /\ n > 0 /\ n \in 1 .. n /\ y.clips \in Seq(Levels) /\ n \in DOMAIN y.clips
  BY LayerTypes, EmptySeq
<1>2. level \in Levels /\ level.draws = <<>> /\ level.bounds = y.clips[n].bounds
  BY <1>1, LayerTypes DEF Levels, CurrentClipBounds, Last
<1>. HIDE DEF level
<1>3. /\ Append(y.clips, level) \in Seq(Levels)
      /\ Len(Append(y.clips, level)) = n + 1
      /\ \A i \in 1 .. n : Append(y.clips, level)[i] = y.clips[i]
      /\ Append(y.clips, level)[n + 1] = level
  BY <1>1, <1>2, AppendProperties
<1>4. z \in Layers /\ z.clips = Append(y.clips, level)
      /\ z.origin = y.origin /\ z.bounds = y.bounds /\ z.depth = y.depth
      /\ z.history = y.history /\ z.passes = y.passes /\ z.pending = y.pending
  BY <1>3 DEF Layers
<1>5. z = PushClipStack(y)
  BY DEF PushClipStack, level
<1>. HIDE DEF z
<1>. QED
  BY <1>1, <1>2, <1>3, <1>4, <1>5

\* AddRectClip makes the bounds of the last level smaller.
LEMMA RectIs ==
  ASSUME NEW y \in Layers, y.clips # <<>>, NEW rect
  PROVE  LET z == AddRectClip(y, rect)
             n == Len(y.clips)
         IN  /\ z \in Layers
             /\ z.origin = y.origin /\ z.bounds = y.bounds /\ z.depth = y.depth
             /\ z.history = y.history /\ z.passes = y.passes /\ z.pending = y.pending
             /\ n \in Nat /\ n > 0 /\ n \in 1 .. n /\ Len(z.clips) = n
             /\ \A i \in 1 .. n : z.clips[i].draws = y.clips[i].draws
             /\ \A i \in 1 .. n : i < n => z.clips[i].bounds = y.clips[i].bounds
             /\ z.clips[n].bounds = y.clips[n].bounds \cap rect
<1>. DEFINE n == Len(y.clips)
            level == [y.clips[n] EXCEPT !.bounds = y.clips[n].bounds \cap rect]
            z == [y EXCEPT !.clips = [y.clips EXCEPT ![n] = level]]
<1>1. n \in Nat /\ n > 0 /\ n \in 1 .. n /\ y.clips \in Seq(Levels) /\ n \in DOMAIN y.clips
  BY LayerTypes, EmptySeq
<1>2. level \in Levels /\ level.draws = y.clips[n].draws
      /\ level.bounds = y.clips[n].bounds \cap rect
  <2>1. y.clips[n] \in Levels
    BY <1>1
  <2>. QED
    BY <2>1 DEF Levels
<1>3. z = AddRectClip(y, rect)
  BY DEF AddRectClip
<1>. HIDE DEF level
<1>4. /\ [y.clips EXCEPT ![n] = level] \in Seq(Levels)
      /\ Len([y.clips EXCEPT ![n] = level]) = n
      /\ \A i \in 1 .. n : i < n => [y.clips EXCEPT ![n] = level][i] = y.clips[i]
      /\ [y.clips EXCEPT ![n] = level][n] = level
  BY <1>1, <1>2, ExceptSeq
<1>5. z \in Layers /\ z.clips = [y.clips EXCEPT ![n] = level]
      /\ z.origin = y.origin /\ z.bounds = y.bounds /\ z.depth = y.depth
      /\ z.history = y.history /\ z.passes = y.passes /\ z.pending = y.pending
  BY <1>4 DEF Layers
<1>. HIDE DEF z
<1>6. \A i \in 1 .. n : i < n \/ i = n
  BY <1>1
<1>7. \A i \in 1 .. n : z.clips[i].draws = y.clips[i].draws
  BY <1>2, <1>4, <1>5, <1>6
<1>. QED
  BY <1>1, <1>2, <1>3, <1>4, <1>5, <1>7

\* PopClipStack drops the last level; its clips take up depths.
LEMMA PopIs ==
  ASSUME NEW y \in Layers, Len(y.clips) > 1
  PROVE  LET z == PopClipStack(y)
             n == Len(y.clips)
         IN  /\ z \in Layers
             /\ z.origin = y.origin /\ z.bounds = y.bounds
             /\ z.history = y.history /\ z.passes = y.passes /\ z.pending = y.pending
             /\ n \in Nat /\ n > 1 /\ n \in 1 .. n /\ Len(z.clips) = n - 1
             /\ z.depth = y.depth + Len(y.clips[n].draws)
             /\ \A i \in 1 .. n - 1 : z.clips[i] = y.clips[i]
<1>. DEFINE n == Len(y.clips)
            z == [y EXCEPT !.clips = Front(y.clips), !.depth = y.depth + Len(Last(y.clips).draws)]
<1>1. n \in Nat /\ n > 1 /\ n \in 1 .. n /\ y.clips \in Seq(Levels) /\ n \in DOMAIN y.clips
  BY LayerTypes
<1>2. /\ Front(y.clips) \in Seq(Levels) /\ Len(Front(y.clips)) = n - 1
      /\ \A i \in 1 .. n - 1 : Front(y.clips)[i] = y.clips[i]
  BY <1>1 DEF Front
<1>3. Last(y.clips) = y.clips[n] /\ y.depth + Len(y.clips[n].draws) \in Nat
  BY <1>1, LayerTypes DEF Last
<1>4. z \in Layers /\ z.clips = Front(y.clips) /\ z.depth = y.depth + Len(y.clips[n].draws)
      /\ z.origin = y.origin /\ z.bounds = y.bounds
      /\ z.history = y.history /\ z.passes = y.passes /\ z.pending = y.pending
  BY <1>2, <1>3 DEF Layers
<1>5. z = PopClipStack(y)
  BY DEF PopClipStack
<1>. HIDE DEF z
<1>. QED
  BY <1>1, <1>2, <1>4, <1>5

\* AddClip puts a clip on the last level, and into the history and the pending ones.
LEMMA AddClipIs ==
  ASSUME NEW y \in Layers, y.clips # <<>>, NEW id \in Nat
  PROVE  LET z == AddClip(y, id)
             n == Len(y.clips)
         IN  /\ z \in Layers
             /\ z.origin = y.origin /\ z.bounds = y.bounds /\ z.depth = y.depth
             /\ z.history = Append(y.history, id) /\ z.passes = y.passes
             /\ z.pending = Append(y.pending, id)
             /\ n \in Nat /\ n > 0 /\ n \in 1 .. n /\ Len(z.clips) = n
             /\ \A i \in 1 .. n : z.clips[i].bounds = y.clips[i].bounds
             /\ \A i \in 1 .. n : i < n => z.clips[i].draws = y.clips[i].draws
             /\ z.clips[n].draws = Append(y.clips[n].draws, id)
<1>. DEFINE n == Len(y.clips)
            level == [y.clips[n] EXCEPT !.draws = Append(y.clips[n].draws, id)]
            z == [y EXCEPT !.pending = Append(y.pending, id), !.history = Append(y.history, id),
                           !.clips = [y.clips EXCEPT ![n] = level]]
<1>1. n \in Nat /\ n > 0 /\ n \in 1 .. n /\ y.clips \in Seq(Levels) /\ n \in DOMAIN y.clips
  BY LayerTypes, EmptySeq
<1>2. level \in Levels /\ level.draws = Append(y.clips[n].draws, id)
      /\ level.bounds = y.clips[n].bounds
  <2>1. y.clips[n] \in Levels /\ y.clips[n].draws \in Seq(Nat)
    BY <1>1, LayerTypes
  <2>2. Append(y.clips[n].draws, id) \in Seq(Nat)
    BY <2>1
  <2>. QED
    BY <2>1, <2>2 DEF Levels
<1>3. z = AddClip(y, id)
  BY DEF AddClip
<1>. HIDE DEF level
<1>4. /\ [y.clips EXCEPT ![n] = level] \in Seq(Levels)
      /\ Len([y.clips EXCEPT ![n] = level]) = n
      /\ \A i \in 1 .. n : i < n => [y.clips EXCEPT ![n] = level][i] = y.clips[i]
      /\ [y.clips EXCEPT ![n] = level][n] = level
  BY <1>1, <1>2, ExceptSeq
<1>5. Append(y.pending, id) \in Seq(Nat) /\ Append(y.history, id) \in Seq(Nat)
  BY LayerTypes, AppendProperties
<1>6. z \in Layers /\ z.clips = [y.clips EXCEPT ![n] = level]
      /\ z.origin = y.origin /\ z.bounds = y.bounds /\ z.depth = y.depth
      /\ z.history = Append(y.history, id) /\ z.passes = y.passes /\ z.pending = Append(y.pending, id)
  BY <1>4, <1>5 DEF Layers
<1>. HIDE DEF z
<1>7. \A i \in 1 .. n : i < n \/ i = n
  BY <1>1
<1>8. \A i \in 1 .. n : z.clips[i].bounds = y.clips[i].bounds
  BY <1>2, <1>4, <1>6, <1>7
<1>. QED
  BY <1>1, <1>2, <1>3, <1>4, <1>6, <1>8

\* FlushPendingClip moves the pending clips to the last pass.
LEMMA FlushIs ==
  ASSUME NEW y \in Layers, y.passes # <<>>
  PROVE  LET z == FlushPendingClip(y)
             n == Len(y.passes)
         IN  /\ z \in Layers
             /\ z.origin = y.origin /\ z.bounds = y.bounds /\ z.depth = y.depth
             /\ z.history = y.history /\ z.clips = y.clips /\ z.pending = <<>>
             /\ n \in Nat /\ n > 0 /\ n \in 1 .. n /\ Len(z.passes) = n
             /\ \A k \in 1 .. n : k < n => z.passes[k] = y.passes[k]
             /\ z.passes[n].ops = y.passes[n].ops \o y.pending
             /\ z.passes[n].replayed = y.passes[n].replayed
             /\ z.passes[n].firstDepth = y.passes[n].firstDepth
             /\ z.passes[n].load = y.passes[n].load
             /\ z.passes[n].copy = y.passes[n].copy
<1>. DEFINE n == Len(y.passes)
            pass == [y.passes[n] EXCEPT !.ops = y.passes[n].ops \o y.pending]
            z == [y EXCEPT !.passes = [y.passes EXCEPT ![n] = pass], !.pending = <<>>]
<1>1. n \in Nat /\ n > 0 /\ n \in 1 .. n /\ y.passes \in Seq(Passes) /\ n \in DOMAIN y.passes
  BY LayerTypes, EmptySeq
<1>2. pass \in Passes /\ pass.ops = y.passes[n].ops \o y.pending
      /\ pass.replayed = y.passes[n].replayed /\ pass.firstDepth = y.passes[n].firstDepth
      /\ pass.load = y.passes[n].load /\ pass.copy = y.passes[n].copy
  <2>1. y.passes[n] \in Passes /\ y.passes[n].ops \in Seq(Nat) /\ y.pending \in Seq(Nat)
    BY <1>1, LayerTypes
  <2>2. y.passes[n].ops \o y.pending \in Seq(Nat)
    BY <2>1
  <2>. QED
    BY <2>1, <2>2 DEF Passes
<1>3. z = FlushPendingClip(y)
  BY DEF FlushPendingClip
<1>. HIDE DEF pass
<1>4. /\ [y.passes EXCEPT ![n] = pass] \in Seq(Passes)
      /\ Len([y.passes EXCEPT ![n] = pass]) = n
      /\ \A k \in 1 .. n : k < n => [y.passes EXCEPT ![n] = pass][k] = y.passes[k]
      /\ [y.passes EXCEPT ![n] = pass][n] = pass
  BY <1>1, <1>2, ExceptSeq
<1>5. z \in Layers /\ z.passes = [y.passes EXCEPT ![n] = pass]
      /\ z.origin = y.origin /\ z.bounds = y.bounds /\ z.depth = y.depth
      /\ z.history = y.history /\ z.clips = y.clips /\ z.pending = <<>>
  BY <1>4, EmptySeq DEF Layers
<1>. HIDE DEF z
<1>. QED
  BY <1>1, <1>2, <1>3, <1>4, <1>5

-----------------------------------------------------------------------------
(* A layer keeps its invariant and what it shows                           *)

\* The same but for the depth.
Alike(d, e) ==
    /\ d.type = e.type /\ d.dst = e.dst /\ d.items = e.items /\ d.child = e.child
    /\ d.writes = e.writes /\ d.bounds = e.bounds /\ d.scissor = e.scissor /\ d.clip = e.clip

\* The types of the parts of a draw.
LEMMA DrawTypes ==
  ASSUME NEW table \in Seq(Draws), NEW d \in DOMAIN table
  PROVE  /\ table[d].type \in {"shape", "path", "clip", "layer", "load"} /\ table[d].dst \in BOOLEAN
         /\ table[d].items \in Seq([id : Nat, pixels : SUBSET Int]) /\ table[d].child \in Nat
         /\ table[d].writes \in SUBSET Int /\ table[d].bounds \in SUBSET Int
         /\ table[d].scissor \in SUBSET Int /\ table[d].clip \in Nat /\ table[d].depth \in Nat
         /\ table[d] \in Draws
<1>1. table[d] \in Draws
  OBVIOUS
<1>. QED
  BY <1>1 DEF Draws

\* The clips that get a depth get one above the given depth; the rest is as before.
LEMMA WithDepthsIs ==
  ASSUME NEW table \in Seq(Draws), NEW depth \in Nat, NEW clips \in Seq(Nat)
  PROVE  LET W == WithDepths(table, depth, clips)
         IN  /\ W \in Seq(Draws) /\ DOMAIN W = DOMAIN table /\ Len(W) = Len(table)
             /\ \A d \in DOMAIN table : Alike(W[d], table[d])
             /\ \A d \in DOMAIN table : d \notin ToSet(clips) => W[d] = table[d]
             /\ \A d \in DOMAIN table : d \in ToSet(clips) =>
                   W[d].depth > depth /\ W[d].depth <= depth + Len(clips)
<1>. DEFINE W == WithDepths(table, depth, clips)
            Depth(d) == depth + Len(clips) + 1 - (CHOOSE i \in DOMAIN clips : clips[i] = d)
<1>1. DOMAIN clips = 1 .. Len(clips) /\ Len(clips) \in Nat /\ DOMAIN table = 1 .. Len(table)
      /\ Len(table) \in Nat
  OBVIOUS
<1>2. \A d \in DOMAIN table :
         W[d] = IF \E i \in DOMAIN clips : clips[i] = d THEN [table[d] EXCEPT !.depth = Depth(d)]
                ELSE table[d]
  BY DEF WithDepths
<1>3. ASSUME NEW d \in DOMAIN table, \E i \in DOMAIN clips : clips[i] = d
      PROVE  Depth(d) \in Nat /\ Depth(d) > depth /\ Depth(d) <= depth + Len(clips)
  <2>1. (CHOOSE i \in DOMAIN clips : clips[i] = d) \in 1 .. Len(clips)
    BY <1>1, <1>3
  <2>. QED
    BY <2>1, <1>1
<1>. HIDE DEF Depth
<1>4. ASSUME NEW d \in DOMAIN table
      PROVE  /\ W[d] \in Draws /\ Alike(W[d], table[d])
             /\ (\E i \in DOMAIN clips : clips[i] = d) => W[d].depth = Depth(d)
  <2>1. table[d] \in Draws
    OBVIOUS
  <2>2. CASE \E i \in DOMAIN clips : clips[i] = d
    <3>1. W[d] = [table[d] EXCEPT !.depth = Depth(d)] /\ Depth(d) \in Nat
      BY <1>2, <1>3, <2>2
    <3>. HIDE DEF W
    <3>. QED
      BY <3>1, <2>1 DEF Draws, Alike
  <2>3. CASE ~ \E i \in DOMAIN clips : clips[i] = d
    <3>1. W[d] = table[d]
      BY <1>2, <2>3
    <3>. HIDE DEF W
    <3>. QED
      BY <3>1, <2>1, <2>3 DEF Alike
  <2>. QED
    BY <2>2, <2>3
<1>5. DOMAIN W = 1 .. Len(table)
  BY <1>1 DEF WithDepths
<1>6. W = [d \in 1 .. Len(table) |-> W[d]]
  BY <1>1 DEF WithDepths
<1>. HIDE DEF W
<1>7. W \in Seq(Draws) /\ Len(W) = Len(table)
  BY <1>1, <1>4, <1>5, <1>6
<1>8. \A d : d \in ToSet(clips) <=> \E i \in DOMAIN clips : clips[i] = d
  BY DEF ToSet
<1>9. \A d \in DOMAIN table : d \notin ToSet(clips) => W[d] = table[d]
  BY <1>2, <1>8
<1>10. \A d \in DOMAIN table : d \in ToSet(clips) =>
                   W[d].depth > depth /\ W[d].depth <= depth + Len(clips)
  BY <1>3, <1>4, <1>8
<1>. QED
  BY <1>1, <1>4, <1>5, <1>7, <1>9, <1>10 DEF W

\* What is drawn ahead of a draw exists.
LEMMA BeforeIs ==
  ASSUME NEW y \in Layers, NEW table \in Seq(Draws), NEW l, NEW box,
         NamesAreRight(y, table, l, box), NEW k \in DOMAIN y.passes,
         NEW i \in 1 .. Len(y.passes[k].ops) + 1
  PROVE  /\ Before(y, k, i) \subseteq DOMAIN table
         /\ \A c \in Before(y, k, i) : table[c].type = "clip" => c \in ToSet(y.history)
<1>1. y.history \in Seq(Nat) /\ y.passes[k].ops \in Seq(Nat) /\ y.passes[k].replayed \in Nat
  BY LayerTypes
<1>2. \A j \in 1 .. y.passes[k].replayed : j \in DOMAIN y.history
  BY <1>1 DEF NamesAreRight
<1>3. \A j \in 1 .. i - 1 : j \in DOMAIN y.passes[k].ops
  BY <1>1
<1>. QED
  BY <1>1, <1>2, <1>3 DEF Before, NamesAreRight, ToSet

\* When two layers show the same at a pixel.
LEMMA ShowsSame ==
  ASSUME NEW y, NEW table, NEW box, NEW R, NEW z, NEW other, NEW box2, NEW Q, NEW p,
         DOMAIN z.passes = DOMAIN y.passes, Len(z.passes) = Len(y.passes),
         \A k \in DOMAIN y.passes :
            /\ z.passes[k].ops = y.passes[k].ops
            /\ \A i \in DOMAIN y.passes[k].ops :
                  Added(z, other, box2, Q, k, i, p) = Added(y, table, box, R, k, i, p)
  PROVE  LayerShows(z, other, box2, Q, p) = LayerShows(y, table, box, R, p)
<1>1. ASSUME NEW k \in DOMAIN y.passes
      PROVE  PassShows(z, other, box2, Q, k, p) = PassShows(y, table, box, R, k, p)
  <2>1. [i \in DOMAIN z.passes[k].ops |-> Added(z, other, box2, Q, k, i, p)]
          = [i \in DOMAIN y.passes[k].ops |-> Added(y, table, box, R, k, i, p)]
    OBVIOUS
  <2>. QED
    BY <2>1 DEF PassShows
<1>2. [k \in DOMAIN z.passes |-> PassShows(z, other, box2, Q, k, p)]
        = [k \in DOMAIN y.passes |-> PassShows(y, table, box, R, k, p)]
  BY <1>1
<1>. QED
  BY <1>2 DEF LayerShows

\* Two layers show the same.
ShowAlike(z, other, box2, y, table, box) ==
    \A R, p : LayerShows(z, other, box2, R, p) = LayerShows(y, table, box, R, p)

\* A layer with other levels, but the same clips.
SameButLevels(z, y) ==
    /\ z.bounds = y.bounds /\ z.depth = y.depth /\ z.history = y.history
    /\ z.passes = y.passes /\ z.pending = y.pending /\ z.clips # <<>>
    /\ Stack(z) = Stack(y)

\* New levels and smaller bounds change nothing else.
LEMMA LayerKeeps ==
  ASSUME NEW y, NEW z, NEW table, NEW l, NEW box, NEW loads,
         LayerInv(y, table, l, box, loads), SameButLevels(z, y), ClipsAreNested(z, table)
  PROVE  /\ LayerInv(z, table, l, box, loads)
         /\ ShowAlike(z, table, box, y, table, box)
<1>. USE DEF SameButLevels
<1>1. \A k, i : Before(z, k, i) = Before(y, k, i)
  BY DEF Before
<1>2. \A c, depth : Blocks(z, table, c, depth) = Blocks(y, table, c, depth)
  BY DEF Blocks
<1>3. NamesAreRight(z, table, l, box)
  BY DEF LayerInv, NamesAreRight
<1>4. PlacesAreRight(z, table) /\ DepthsAreRight(z, table) /\ DrawsAreBounded(z, table, box)
      /\ LoadsAreRight(z, table, loads)
  BY DEF LayerInv, PlacesAreRight, DepthsAreRight, DrawsAreBounded, LoadsAreRight
<1>5. ClipsAreDrawn(z, table)
  BY <1>1, <1>2 DEF LayerInv, ClipsAreDrawn
<1>6. \A k, i, p : Reaches(z, table, k, i, p) = Reaches(y, table, k, i, p)
  BY <1>1, <1>2 DEF Reaches
<1>7. \A R, k, i, p : Added(z, table, box, R, k, i, p) = Added(y, table, box, R, k, i, p)
  BY <1>6 DEF Added
<1>8. ShowAlike(z, table, box, y, table, box)
  BY <1>7, ShowsSame DEF ShowAlike
<1>. QED
  BY <1>3, <1>4, <1>5, <1>8 DEF LayerInv

\* The clips of the levels that are there before and after.
LEMMA StackToSame ==
  ASSUME NEW y, NEW z, NEW j \in Nat,
         \A i \in 1 .. j : z.clips[i].draws = y.clips[i].draws
  PROVE  StackTo(z, j) = StackTo(y, j)
  BY DEF StackTo

\* One more level has its own clips more.
LEMMA StackToNext ==
  ASSUME NEW y, NEW j \in Nat
  PROVE  StackTo(y, j + 1) = StackTo(y, j) \cup ToSet(y.clips[j + 1].draws)
<1>1. \A i \in 1 .. j + 1 : i \in 1 .. j \/ i = j + 1
  OBVIOUS
<1>2. j + 1 \in 1 .. j + 1 /\ \A i \in 1 .. j : i \in 1 .. j + 1
  OBVIOUS
<1>. QED
  BY <1>1, <1>2, Zenon DEF StackTo

\* A new level keeps the invariant of the layer and what it shows.
LEMMA PushKeeps ==
  ASSUME NEW y \in Layers, NEW table, NEW l, NEW box, NEW loads,
         LayerInv(y, table, l, box, loads)
  PROVE  /\ LayerInv(PushClipStack(y), table, l, box, loads)
         /\ ShowAlike(PushClipStack(y), table, box, y, table, box)
         /\ Stack(PushClipStack(y)) = Stack(y)
         /\ \A j \in 1 .. Len(y.clips) : StackTo(PushClipStack(y), j) = StackTo(y, j)
<1>. DEFINE z == PushClipStack(y)  n == Len(y.clips)
<1>1. /\ z \in Layers
      /\ z.origin = y.origin /\ z.bounds = y.bounds /\ z.depth = y.depth
      /\ z.history = y.history /\ z.passes = y.passes /\ z.pending = y.pending
      /\ n \in Nat /\ n > 0 /\ n \in 1 .. n /\ Len(z.clips) = n + 1
      /\ \A i \in 1 .. n : z.clips[i] = y.clips[i]
      /\ z.clips[n + 1].draws = <<>> /\ z.clips[n + 1].bounds = y.clips[n].bounds
  BY PushIs DEF LayerInv, NamesAreRight
<1>. HIDE DEF z
<1>2. DOMAIN y.clips = 1 .. n /\ DOMAIN z.clips = 1 .. n + 1 /\ z.clips # <<>>
  BY <1>1, LayerTypes
<1>3. \A j \in 1 .. n : StackTo(z, j) = StackTo(y, j)
  BY <1>1, StackToSame
<1>4. Stack(z) = Stack(y)
  <2>1. StackTo(z, n + 1) = StackTo(z, n) \cup ToSet(z.clips[n + 1].draws)
    BY <1>1, StackToNext
  <2>2. ToSet(z.clips[n + 1].draws) = {}
    BY <1>1 DEF ToSet
  <2>. QED
    BY <1>1, <1>3, <2>1, <2>2 DEF Stack
<1>5. ClipsAreNested(z, table)
  <2>0. ClipsAreNested(y, table)
    BY DEF LayerInv
  <2>1. \A i \in 1 .. n + 1 : i \in 1 .. n \/ i = n + 1
    BY <1>1
  <2>2. ASSUME NEW i \in DOMAIN z.clips, NEW j \in DOMAIN z.clips, i < j
        PROVE  /\ \A c \in ToSet(z.clips[i].draws), d \in ToSet(z.clips[j].draws) : c < d
               /\ z.clips[j].bounds \subseteq z.clips[i].bounds
    <3>1. i \in 1 .. n
      BY <1>1, <1>2, <2>2
    <3>2. CASE j \in 1 .. n
      BY <3>1, <3>2, <1>1, <1>2, <2>0, <2>2 DEF ClipsAreNested
    <3>3. CASE j = n + 1
      <4>1. ToSet(z.clips[j].draws) = {}
        BY <1>1, <3>3 DEF ToSet
      <4>2. i = n \/ i < n
        BY <3>1, <1>1
      <4>3. y.clips[n].bounds \subseteq y.clips[i].bounds
        BY <4>2, <3>1, <1>1, <1>2, <2>0 DEF ClipsAreNested
      <4>. QED
        BY <4>1, <4>3, <3>1, <3>3, <1>1
    <3>. QED
      BY <3>2, <3>3, <2>1, <1>2
  <2>3. ASSUME NEW j \in DOMAIN z.clips
        PROVE  /\ \A a, b \in DOMAIN z.clips[j].draws : a < b => z.clips[j].draws[a] < z.clips[j].draws[b]
               /\ z.clips[j].bounds \subseteq z.bounds
               /\ \A c \in ToSet(z.clips[j].draws) : z.clips[j].bounds \subseteq table[c].scissor
    <3>2. CASE j \in 1 .. n
      BY <3>2, <1>1, <1>2, <2>0 DEF ClipsAreNested
    <3>3. CASE j = n + 1
      <4>1. ToSet(z.clips[j].draws) = {} /\ DOMAIN z.clips[j].draws = {}
        BY <1>1, <3>3 DEF ToSet
      <4>2. z.clips[j].bounds \subseteq z.bounds
        BY <3>3, <1>1, <1>2, <2>0 DEF ClipsAreNested
      <4>. QED
        BY <4>1, <4>2
    <3>. QED
      BY <3>2, <3>3, <2>1, <1>2
  <2>. QED
    BY <2>2, <2>3 DEF ClipsAreNested
<1>6. /\ LayerInv(z, table, l, box, loads)
      /\ ShowAlike(z, table, box, y, table, box)
  <2>1. SameButLevels(z, y)
    BY <1>1, <1>2, <1>4 DEF SameButLevels
  <2>. QED
    BY <2>1, <1>5, LayerKeeps
<1>. QED
  BY <1>3, <1>4, <1>6 DEF z

\* So does a clip by a rectangle.
LEMMA RectKeeps ==
  ASSUME NEW y \in Layers, NEW table, NEW l, NEW box, NEW loads, NEW rect,
         LayerInv(y, table, l, box, loads)
  PROVE  /\ LayerInv(AddRectClip(y, rect), table, l, box, loads)
         /\ ShowAlike(AddRectClip(y, rect), table, box, y, table, box)
         /\ Stack(AddRectClip(y, rect)) = Stack(y)
         /\ \A j \in 1 .. Len(y.clips) : StackTo(AddRectClip(y, rect), j) = StackTo(y, j)
<1>. DEFINE z == AddRectClip(y, rect)  n == Len(y.clips)
<1>1. /\ z \in Layers
      /\ z.origin = y.origin /\ z.bounds = y.bounds /\ z.depth = y.depth
      /\ z.history = y.history /\ z.passes = y.passes /\ z.pending = y.pending
      /\ n \in Nat /\ n > 0 /\ n \in 1 .. n /\ Len(z.clips) = n
      /\ \A i \in 1 .. n : z.clips[i].draws = y.clips[i].draws
      /\ \A i \in 1 .. n : i < n => z.clips[i].bounds = y.clips[i].bounds
      /\ z.clips[n].bounds = y.clips[n].bounds \cap rect
  BY RectIs DEF LayerInv, NamesAreRight
<1>. HIDE DEF z
<1>2. DOMAIN y.clips = 1 .. n /\ DOMAIN z.clips = 1 .. n /\ z.clips # <<>>
  BY <1>1, LayerTypes
<1>3. \A j \in 1 .. n : StackTo(z, j) = StackTo(y, j)
  BY <1>1, StackToSame
<1>4. Stack(z) = Stack(y)
  BY <1>1, <1>3 DEF Stack
<1>5. \A i \in 1 .. n : z.clips[i].bounds \subseteq y.clips[i].bounds
  <2>1. \A i \in 1 .. n : i < n \/ i = n
    BY <1>1
  <2>. QED
    BY <1>1, <2>1
<1>6. ClipsAreNested(z, table)
  <2>0. ClipsAreNested(y, table)
    BY DEF LayerInv
  <2>2. ASSUME NEW i \in 1 .. n, NEW j \in 1 .. n, i < j
        PROVE  /\ \A c \in ToSet(z.clips[i].draws), d \in ToSet(z.clips[j].draws) : c < d
               /\ z.clips[j].bounds \subseteq z.clips[i].bounds
    <3>1. /\ \A c \in ToSet(y.clips[i].draws), d \in ToSet(y.clips[j].draws) : c < d
          /\ y.clips[j].bounds \subseteq y.clips[i].bounds
      BY <1>2, <2>0, <2>2 DEF ClipsAreNested
    <3>2. i < n
      BY <1>1, <2>2
    <3>. QED
      BY <3>1, <3>2, <1>1, <1>5
  <2>3. ASSUME NEW j \in 1 .. n
        PROVE  /\ \A a, b \in DOMAIN z.clips[j].draws : a < b => z.clips[j].draws[a] < z.clips[j].draws[b]
               /\ z.clips[j].bounds \subseteq z.bounds
               /\ \A c \in ToSet(z.clips[j].draws) : z.clips[j].bounds \subseteq table[c].scissor
    <3>1. /\ \A a, b \in DOMAIN y.clips[j].draws : a < b => y.clips[j].draws[a] < y.clips[j].draws[b]
          /\ y.clips[j].bounds \subseteq y.bounds
          /\ \A c \in ToSet(y.clips[j].draws) : y.clips[j].bounds \subseteq table[c].scissor
      BY <1>2, <2>0 DEF ClipsAreNested
    <3>2. z.clips[j].draws = y.clips[j].draws /\ z.clips[j].bounds \subseteq y.clips[j].bounds
      BY <1>1, <1>5
    <3>. QED
      BY <3>1, <3>2, <1>1
  <2>. QED
    BY <1>2, <2>2, <2>3 DEF ClipsAreNested
<1>7. /\ LayerInv(z, table, l, box, loads)
      /\ ShowAlike(z, table, box, y, table, box)
  <2>1. SameButLevels(z, y)
    BY <1>1, <1>2, <1>4 DEF SameButLevels
  <2>. QED
    BY <2>1, <1>6, LayerKeeps
<1>. QED
  BY <1>3, <1>4, <1>7 DEF z

\* When a draw adds the same to two layers.
LEMMA AddedSame ==
  ASSUME NEW y, NEW table, NEW z, NEW other, NEW box, NEW box2, NEW k, NEW i, NEW R, NEW p,
         z.passes[k].ops[i] = y.passes[k].ops[i],
         Before(z, k, i) = Before(y, k, i),
         LET o == y.passes[k].ops[i]
         IN  \/ other[o].type = "clip" /\ table[o].type = "clip"
             \/ /\ other[o] = table[o] /\ AreaOf(box2, table[o]) = AreaOf(box, table[o])
                /\ \A c \in Before(y, k, i) :
                      /\ Alike(other[c], table[c])
                      /\ Blocks(z, other, c, table[o].depth) <=> Blocks(y, table, c, table[o].depth)
  PROVE  Added(z, other, box2, R, k, i, p) = Added(y, table, box, R, k, i, p)
<1>. DEFINE o == y.passes[k].ops[i]
<1>1. CASE other[o].type = "clip" /\ table[o].type = "clip"
  BY <1>1 DEF Added
<1>2. CASE /\ other[o] = table[o] /\ AreaOf(box2, table[o]) = AreaOf(box, table[o])
           /\ \A c \in Before(y, k, i) :
                /\ Alike(other[c], table[c])
                /\ Blocks(z, other, c, table[o].depth) <=> Blocks(y, table, c, table[o].depth)
  <2>1. \A c \in Before(y, k, i) : Hides(other[c], p) <=> Hides(table[c], p)
    BY <1>2 DEF Hides, Alike
  <2>2. Reaches(z, other, k, i, p) <=> Reaches(y, table, k, i, p)
    BY <1>2, <2>1 DEF Reaches
  <2>. QED
    BY <1>2, <2>2 DEF Added
<1>. QED
  BY <1>1, <1>2

\* No layer changes when what it refers to is the same.
LEMMA LayerStays ==
  ASSUME NEW y \in Layers, NEW table \in Seq(Draws), NEW l, NEW box, NEW loads,
         LayerInv(y, table, l, box, loads),
         NEW other, NEW box2, DOMAIN table \subseteq DOMAIN other,
         \A d \in Uses(y) \cap DOMAIN table : other[d] = table[d],
         \A m \in DOMAIN box : m \in DOMAIN box2 /\ box2[m] = box[m]
  PROVE  /\ LayerInv(y, other, l, box2, loads)
         /\ ShowAlike(y, other, box2, y, table, box)
<1>0. /\ NamesAreRight(y, table, l, box) /\ PlacesAreRight(y, table) /\ ClipsAreNested(y, table)
      /\ DepthsAreRight(y, table) /\ DrawsAreBounded(y, table, box)
      /\ LoadsAreRight(y, table, loads) /\ ClipsAreDrawn(y, table)
  BY DEF LayerInv
<1>1. \A c \in ToSet(y.history) : c \in DOMAIN table /\ other[c] = table[c]
  BY <1>0 DEF Uses, NamesAreRight, ToSet
<1>2. \A k \in DOMAIN y.passes : \A i \in DOMAIN y.passes[k].ops :
         LET o == y.passes[k].ops[i]
         IN  o \in DOMAIN table /\ other[o] = table[o]
             /\ (table[o].type = "layer" => table[o].child \in DOMAIN box)
  <2>1. \A k \in DOMAIN y.passes : \A i \in DOMAIN y.passes[k].ops : y.passes[k].ops[i] \in Uses(y)
    BY DEF Uses, ToSet
  <2>. QED
    BY <1>0, <2>1 DEF NamesAreRight
<1>3. \A k \in DOMAIN y.passes : y.passes[k].load \in Uses(y)
  BY DEF Uses
<1>4. \A k \in DOMAIN y.passes : \A i \in 1 .. Len(y.passes[k].ops) + 1 :
         \A c \in Before(y, k, i) : c \in DOMAIN table /\ other[c] = table[c]
  <2>. SUFFICES ASSUME NEW k \in DOMAIN y.passes, NEW i \in 1 .. Len(y.passes[k].ops) + 1,
                       NEW c \in Before(y, k, i)
                PROVE  c \in DOMAIN table /\ other[c] = table[c]
    OBVIOUS
  <2>1. y.history \in Seq(Nat) /\ y.passes[k].ops \in Seq(Nat) /\ y.passes[k].replayed \in Nat
        /\ y.passes[k].replayed <= Len(y.history)
    BY <1>0, LayerTypes DEF NamesAreRight
  <2>2. \A j \in 1 .. y.passes[k].replayed : y.history[j] \in ToSet(y.history)
    BY <2>1 DEF ToSet
  <2>3. \A j \in 1 .. i - 1 : j \in DOMAIN y.passes[k].ops
    BY <2>1
  <2>. QED
    BY <1>1, <1>2, <2>2, <2>3 DEF Before
<1>5. Stack(y) \subseteq ToSet(y.history)
  BY <1>0 DEF NamesAreRight
<1>6. NamesAreRight(y, other, l, box2)
  <2>1. \A i \in DOMAIN y.history : y.history[i] \in ToSet(y.history)
    BY DEF ToSet
  <2>2. \A k \in DOMAIN y.passes :
         /\ y.passes[k].replayed <= Len(y.history)
         /\ \A i \in DOMAIN y.passes[k].ops :
              LET o == y.passes[k].ops[i]
              IN  /\ o \in DOMAIN other
                  /\ other[o].type # "load"
                  /\ other[o].type = "clip" => o \in ToSet(y.history)
                  /\ other[o].type = "layer" => other[o].child \in DOMAIN box2 /\ other[o].child > l
    BY <1>0, <1>2 DEF NamesAreRight
  <2>. QED
    BY <1>0, <1>1, <2>1, <2>2 DEF NamesAreRight
<1>7. PlacesAreRight(y, other)
  BY <1>0, <1>2 DEF PlacesAreRight
<1>8. ClipsAreNested(y, other)
  <2>1. \A j \in DOMAIN y.clips : ToSet(y.clips[j].draws) \subseteq Stack(y)
    <3>1. DOMAIN y.clips = 1 .. Len(y.clips)
      BY LayerTypes
    <3>. QED
      BY <3>1 DEF Stack, StackTo
  <2>2. \A j \in DOMAIN y.clips : \A c \in ToSet(y.clips[j].draws) : other[c] = table[c]
    BY <1>1, <1>5, <2>1
  <2>. QED
    BY <1>0, <2>2 DEF ClipsAreNested
<1>9. DepthsAreRight(y, other)
  BY <1>0, <1>1, <1>2 DEF DepthsAreRight
<1>10. DrawsAreBounded(y, other, box2)
  <2>1. \A k \in DOMAIN y.passes : \A i \in DOMAIN y.passes[k].ops :
           LET o == y.passes[k].ops[i]
           IN  other[o] = table[o] /\ AreaOf(box2, table[o]) = AreaOf(box, table[o])
    BY <1>2 DEF AreaOf
  <2>2. ASSUME NEW k \in DOMAIN y.passes, NEW i \in DOMAIN y.passes[k].ops,
               other[y.passes[k].ops[i]].type # "clip"
        PROVE  LET d == other[y.passes[k].ops[i]]
               IN  /\ AreaOf(box2, d) \cap d.scissor \subseteq d.bounds
                   /\ IsFiniteSet(d.bounds)
                   /\ d.dst => k > 1 /\ i = 1 /\ d.bounds = y.passes[k - 1].copy
    <3>. DEFINE d == table[y.passes[k].ops[i]]
    <3>1. other[y.passes[k].ops[i]] = d /\ AreaOf(box2, d) = AreaOf(box, d) /\ d.type # "clip"
      BY <2>1, <2>2
    <3>2. /\ AreaOf(box, d) \cap d.scissor \subseteq d.bounds
          /\ IsFiniteSet(d.bounds)
          /\ d.dst => k > 1 /\ i = 1 /\ d.bounds = y.passes[k - 1].copy
      BY <1>0, <3>1 DEF DrawsAreBounded
    <3>. HIDE DEF d
    <3>. QED
      BY <3>1, <3>2
  <2>. QED
    BY <1>0, <2>2 DEF DrawsAreBounded
<1>11. LoadsAreRight(y, other, loads)
  BY <1>0, <1>3 DEF LoadsAreRight
<1>12. DOMAIN y.passes = 1 .. Len(y.passes) /\ Len(y.passes) \in DOMAIN y.passes
  <2>1. y.passes # <<>>
    BY <1>0 DEF NamesAreRight
  <2>. QED
    BY <2>1, LayerTypes, EmptySeq
<1>13. \A k \in DOMAIN y.passes : \A i \in DOMAIN y.passes[k].ops :
          i \in 1 .. Len(y.passes[k].ops) + 1
  BY LayerTypes
<1>14. ClipsAreDrawn(y, other)
  <2>. DEFINE K == Len(y.passes)
  <2>1. ASSUME NEW i \in DOMAIN y.passes[K].ops,
               other[y.passes[K].ops[i]].type # "clip",
               other[y.passes[K].ops[i]].clip = 0 \/ other[y.passes[K].ops[i]].clip \in Stack(y)
        PROVE  LET a == other[y.passes[K].ops[i]]
               IN  /\ \A c \in Stack(y) : c <= a.clip => c \in Before(y, K, i)
                   /\ \A c \in Before(y, K, i) : other[c].type = "clip" =>
                        (Blocks(y, other, c, a.depth) <=> c \in Stack(y) /\ c <= a.clip)
    <3>. DEFINE a == table[y.passes[K].ops[i]]
    <3>1. other[y.passes[K].ops[i]] = a
      BY <1>2, <1>12
    <3>2. /\ \A c \in Stack(y) : c <= a.clip => c \in Before(y, K, i)
          /\ \A c \in Before(y, K, i) : table[c].type = "clip" =>
                (Blocks(y, table, c, a.depth) <=> c \in Stack(y) /\ c <= a.clip)
      BY <1>0, <2>1, <3>1 DEF ClipsAreDrawn
    <3>3. \A c \in Before(y, K, i) : other[c] = table[c]
      BY <1>4, <1>12, <1>13
    <3>. HIDE DEF a
    <3>4. \A c \in Before(y, K, i) : Blocks(y, other, c, a.depth) <=> Blocks(y, table, c, a.depth)
      BY <3>3 DEF Blocks
    <3>. QED
      BY <3>1, <3>2, <3>3, <3>4
  <2>. QED
    BY <1>0, <2>1 DEF ClipsAreDrawn
<1>15. ShowAlike(y, other, box2, y, table, box)
  <2>. SUFFICES ASSUME NEW R, NEW p
                PROVE  LayerShows(y, other, box2, R, p) = LayerShows(y, table, box, R, p)
    BY DEF ShowAlike
  <2>1. ASSUME NEW k \in DOMAIN y.passes, NEW i \in DOMAIN y.passes[k].ops
        PROVE  Added(y, other, box2, R, k, i, p) = Added(y, table, box, R, k, i, p)
    <3>. DEFINE o == y.passes[k].ops[i]
    <3>1. other[o] = table[o] /\ AreaOf(box2, table[o]) = AreaOf(box, table[o])
      BY <1>2 DEF AreaOf
    <3>2. \A c \in Before(y, k, i) : other[c] = table[c]
      BY <1>4, <1>13
    <3>3. \A c \in Before(y, k, i) : Alike(other[c], table[c])
             /\ (Blocks(y, other, c, table[o].depth) <=> Blocks(y, table, c, table[o].depth))
      BY <3>2 DEF Alike, Blocks
    <3>. QED
      <4>1. /\ other[o] = table[o] /\ AreaOf(box2, table[o]) = AreaOf(box, table[o])
            /\ \A c \in Before(y, k, i) :
                  /\ Alike(other[c], table[c])
                  /\ Blocks(y, other, c, table[o].depth) <=> Blocks(y, table, c, table[o].depth)
        BY <3>1, <3>3
      <4>. QED
        BY <4>1, AddedSame, SMTT(40)
  <2>. QED
    BY <2>1, ShowsSame
<1>. QED
  BY <1>6, <1>7, <1>8, <1>9, <1>10, <1>11, <1>14, <1>15 DEF LayerInv

\* Clips only come to be used by the layers they are recorded for.
ClipNames(table) == \A d \in DOMAIN table : table[d].clip \in 0 .. Len(table)

\* So does a popped level: the depths its clips get hide no draw but those under them.
LEMMA PopKeeps ==
  ASSUME NEW y \in Layers, NEW table \in Seq(Draws), NEW l, NEW box, NEW loads,
         LayerInv(y, table, l, box, loads), Len(y.clips) > 1
  PROVE  LET z == PopClipStack(y)
             other == PoppedDepths(table, y)
         IN  /\ other \in Seq(Draws) /\ DOMAIN other = DOMAIN table /\ Len(other) = Len(table)
             /\ \A d \in DOMAIN table : Alike(other[d], table[d])
             /\ \A d \in DOMAIN table : d \notin Stack(y) => other[d] = table[d]
             /\ LayerInv(z, other, l, box, loads)
             /\ ShowAlike(z, other, box, y, table, box)
             /\ \A j \in 1 .. Len(y.clips) - 1 : StackTo(z, j) = StackTo(y, j)
<1>. DEFINE z == PopClipStack(y)  other == PoppedDepths(table, y)  n == Len(y.clips)
            popped == ToSet(y.clips[n].draws)
<1>1. /\ z \in Layers
      /\ z.origin = y.origin /\ z.bounds = y.bounds
      /\ z.history = y.history /\ z.passes = y.passes /\ z.pending = y.pending
      /\ n \in Nat /\ n > 1 /\ n \in 1 .. n /\ Len(z.clips) = n - 1
      /\ z.depth = y.depth + Len(y.clips[n].draws)
      /\ \A i \in 1 .. n - 1 : z.clips[i] = y.clips[i]
  BY PopIs
<1>0. /\ NamesAreRight(y, table, l, box) /\ PlacesAreRight(y, table) /\ ClipsAreNested(y, table)
      /\ DepthsAreRight(y, table) /\ DrawsAreBounded(y, table, box)
      /\ LoadsAreRight(y, table, loads) /\ ClipsAreDrawn(y, table)
  BY DEF LayerInv
<1>2. /\ DOMAIN y.clips = 1 .. n /\ DOMAIN z.clips = 1 .. n - 1 /\ z.clips # <<>>
      /\ y.clips[n].draws \in Seq(Nat) /\ y.depth \in Nat /\ Len(y.clips[n].draws) \in Nat
      /\ z.depth \in Nat
  <2>. HIDE DEF z
  <2>1. /\ DOMAIN y.clips = 1 .. n /\ DOMAIN z.clips = 1 .. n - 1
        /\ y.clips[n].draws \in Seq(Nat) /\ y.depth \in Nat /\ z.depth \in Nat
    BY <1>1, LayerTypes
  <2>2. z.clips # <<>>
    BY <1>1, <2>1
  <2>. QED
    BY <2>1, <2>2
<1>3. /\ other \in Seq(Draws) /\ DOMAIN other = DOMAIN table /\ Len(other) = Len(table)
      /\ \A d \in DOMAIN table : Alike(other[d], table[d])
      /\ \A d \in DOMAIN table : d \notin popped => other[d] = table[d]
      /\ \A d \in DOMAIN table : d \in popped => other[d].depth > y.depth /\ other[d].depth <= z.depth
  <2>1. other = WithDepths(table, y.depth, y.clips[n].draws)
    BY DEF PoppedDepths, Last
  <2>. HIDE DEF other, z
  <2>. QED
    BY <2>1, <1>1, <1>2, WithDepthsIs
<1>. HIDE DEF z, other
<1>4. \A j \in 1 .. n - 1 : StackTo(z, j) = StackTo(y, j)
  <2>1. \A j \in 1 .. n - 1 : j \in Nat /\ \A i \in 1 .. j : i \in 1 .. n - 1
    BY <1>1
  <2>. QED
    BY <1>1, <2>1, StackToSame
<1>5. Stack(y) = Stack(z) \cup popped /\ \A c \in Stack(z), d \in popped : c < d
  <2>1. PICK m \in Nat : m = n - 1 /\ n = m + 1 /\ m \in 1 .. n - 1
    <3>1. n - 1 \in Nat /\ n = (n - 1) + 1 /\ n - 1 \in 1 .. n - 1
      BY <1>1
    <3>. QED
      BY <3>1
  <2>2. Stack(z) = StackTo(y, m)
    BY <1>1, <1>4, <2>1 DEF Stack
  <2>3. StackTo(y, m + 1) = StackTo(y, m) \cup ToSet(y.clips[m + 1].draws)
    BY StackToNext
  <2>4. \A i \in 1 .. m : i \in 1 .. n /\ n \in 1 .. n /\ i < n
    BY <2>1
  <2>5. \A c \in StackTo(y, m), d \in popped : c < d
    BY <1>0, <1>2, <2>4 DEF ClipsAreNested, StackTo
  <2>. QED
    BY <2>1, <2>2, <2>3, <2>5 DEF Stack
<1>6. Stack(y) \subseteq ToSet(y.history) /\ Stack(y) \subseteq Nat
      /\ \A c \in ToSet(y.history) : c \in DOMAIN table /\ table[c].type = "clip"
  BY <1>0 DEF NamesAreRight, ToSet
<1>7. \A c \in popped : c \notin Stack(z)
  BY <1>5, <1>6
<1>. HIDE DEF popped
<1>8. \A d \in DOMAIN table : table[d].type # "clip" => other[d] = table[d] /\ d \notin popped
  BY <1>3, <1>5, <1>6
<1>9. \A d \in DOMAIN table : /\ other[d].type = table[d].type /\ other[d].scissor = table[d].scissor
                              /\ other[d].child = table[d].child /\ other[d].clip = table[d].clip
  BY <1>3 DEF Alike
<1>10. \A k \in DOMAIN y.passes : \A i \in DOMAIN y.passes[k].ops :
          y.passes[k].ops[i] \in DOMAIN table
  BY <1>0 DEF NamesAreRight
<1>11. \A k, i : Before(z, k, i) = Before(y, k, i)
  BY <1>1 DEF Before
<1>12. \A c \in DOMAIN table, depth \in 0 .. y.depth :
          Blocks(z, other, c, depth) <=> Blocks(y, table, c, depth)
  <2>. SUFFICES ASSUME NEW c \in DOMAIN table, NEW depth \in 0 .. y.depth
                PROVE  Blocks(z, other, c, depth) <=> Blocks(y, table, c, depth)
    OBVIOUS
  <2>1. CASE c \in popped
    <3>1. other[c].depth > y.depth /\ other[c].depth \in Nat
      BY <1>3, <2>1, DrawTypes
    <3>2. other[c].depth >= depth
      BY <1>2, <3>1
    <3>. QED
      BY <3>2, <2>1, <1>5 DEF Blocks
  <2>2. CASE c \notin popped
    BY <2>2, <1>3, <1>5 DEF Blocks
  <2>. QED
    BY <2>1, <2>2
<1>13. NamesAreRight(z, other, l, box)
  <2>1. \A i \in DOMAIN z.history : z.history[i] \in DOMAIN other /\ other[z.history[i]].type = "clip"
    BY <1>0, <1>1, <1>3, <1>9 DEF NamesAreRight
  <2>2. Stack(z) \subseteq ToSet(z.history) /\ ToSet(z.pending) \subseteq ToSet(z.history)
    BY <1>0, <1>1, <1>5, <1>6 DEF NamesAreRight
  <2>3. \A k \in DOMAIN z.passes :
         /\ z.passes[k].replayed <= Len(z.history)
         /\ \A i \in DOMAIN z.passes[k].ops :
              LET o == z.passes[k].ops[i]
              IN  /\ o \in DOMAIN other
                  /\ other[o].type # "load"
                  /\ other[o].type = "clip" => o \in ToSet(z.history)
                  /\ other[o].type = "layer" => other[o].child \in DOMAIN box /\ other[o].child > l
    BY <1>0, <1>1, <1>3, <1>9, SMTT(40) DEF NamesAreRight
  <2>. QED
    BY <1>0, <1>1, <1>2, <2>1, <2>2, <2>3 DEF NamesAreRight
<1>14. PlacesAreRight(z, other)
  BY <1>0, <1>1, <1>9, <1>10 DEF PlacesAreRight
<1>15. ClipsAreNested(z, other)
  <2>1. \A j \in DOMAIN z.clips : j \in DOMAIN y.clips /\ z.clips[j] = y.clips[j]
    BY <1>1, <1>2
  <2>2. \A j \in DOMAIN y.clips : \A c \in ToSet(y.clips[j].draws) : c \in Stack(y)
    BY <1>2 DEF Stack, StackTo
  <2>3. \A j \in DOMAIN y.clips : \A c \in ToSet(y.clips[j].draws) : other[c].scissor = table[c].scissor
    BY <1>6, <1>9, <2>2
  <2>. QED
    BY <1>0, <1>1, <2>1, <2>3 DEF ClipsAreNested
<1>16. DepthsAreRight(z, other)
  <2>1. ASSUME NEW c \in ToSet(z.history) \ Stack(z) PROVE other[c].depth <= z.depth
    <3>1. CASE c \in popped
      BY <3>1, <1>1, <1>3, <1>6
    <3>2. CASE c \notin popped
      <4>1. other[c].depth = table[c].depth /\ table[c].depth <= y.depth /\ table[c].depth \in Nat
        BY <3>2, <2>1, <1>0, <1>1, <1>3, <1>5, <1>6, DrawTypes DEF DepthsAreRight
      <4>. QED
        BY <4>1, <1>1, <1>2
    <3>. QED
      BY <3>1, <3>2
  <2>2. ASSUME NEW k \in DOMAIN z.passes, NEW i \in DOMAIN z.passes[k].ops,
               other[z.passes[k].ops[i]].type # "clip"
        PROVE  /\ other[z.passes[k].ops[i]].depth \in 1 .. z.depth
               /\ z.passes[k].firstDepth \in 1 .. other[z.passes[k].ops[i]].depth
    <3>. DEFINE o == y.passes[k].ops[i]
    <3>1. z.passes[k].ops[i] = o /\ o \in DOMAIN table /\ other[o] = table[o]
          /\ table[o].type # "clip"
      BY <1>1, <1>8, <1>9, <1>10, <2>2
    <3>2. table[o].depth \in 1 .. y.depth /\ y.passes[k].firstDepth \in 1 .. table[o].depth
      BY <3>1, <1>0, <1>1, <2>2 DEF DepthsAreRight
    <3>. HIDE DEF o
    <3>3. table[o].depth \in 1 .. z.depth
      BY <3>2, <1>1, <1>2
    <3>. QED
      BY <3>1, <3>2, <3>3, <1>1
  <2>3. \A k \in DOMAIN z.passes : z.passes[k].firstDepth <= z.depth
    <3>1. \A k \in DOMAIN y.passes : y.passes[k].firstDepth \in Nat /\ y.passes[k].firstDepth <= y.depth
      BY <1>0, LayerTypes DEF DepthsAreRight
    <3>2. z.depth \in Nat /\ y.depth \in Nat /\ y.depth <= z.depth
      BY <1>1, <1>2
    <3>. QED
      BY <3>1, <3>2, <1>1
  <2>. QED
    BY <2>1, <2>2, <2>3 DEF DepthsAreRight
<1>17. DrawsAreBounded(z, other, box)
  <2>1. \A k \in DOMAIN y.passes : \A i \in DOMAIN y.passes[k].ops :
           other[y.passes[k].ops[i]].type # "clip" =>
              other[y.passes[k].ops[i]] = table[y.passes[k].ops[i]]
    BY <1>8, <1>9, <1>10
  <2>2. ASSUME NEW k \in DOMAIN z.passes, NEW i \in DOMAIN z.passes[k].ops,
               other[z.passes[k].ops[i]].type # "clip"
        PROVE  LET d == other[z.passes[k].ops[i]]
               IN  /\ AreaOf(box, d) \cap d.scissor \subseteq d.bounds
                   /\ IsFiniteSet(d.bounds)
                   /\ d.dst => k > 1 /\ i = 1 /\ d.bounds = z.passes[k - 1].copy
    <3>. DEFINE d == table[y.passes[k].ops[i]]
    <3>1. other[z.passes[k].ops[i]] = d /\ d.type # "clip"
      BY <1>1, <2>1, <2>2
    <3>2. /\ AreaOf(box, d) \cap d.scissor \subseteq d.bounds
          /\ IsFiniteSet(d.bounds)
          /\ d.dst => k > 1 /\ i = 1 /\ d.bounds = y.passes[k - 1].copy
      BY <1>0, <1>1, <2>2, <3>1 DEF DrawsAreBounded
    <3>. HIDE DEF d
    <3>. QED
      BY <3>1, <3>2, <1>1
  <2>. QED
    BY <1>0, <1>1, <2>2 DEF DrawsAreBounded
<1>18. LoadsAreRight(z, other, loads)
  <2>1. \A d \in DOMAIN table : table[d].type = "load" => other[d] = table[d]
    BY <1>8
  <2>. QED
    BY <2>1, <1>0, <1>1, <1>3 DEF LoadsAreRight
<1>19. /\ DOMAIN y.passes = 1 .. Len(y.passes) /\ Len(y.passes) \in DOMAIN y.passes
       /\ \A k \in DOMAIN y.passes : \A i \in DOMAIN y.passes[k].ops :
             i \in 1 .. Len(y.passes[k].ops) + 1
  <2>1. y.passes # <<>>
    BY <1>0 DEF NamesAreRight
  <2>. QED
    BY <2>1, LayerTypes, EmptySeq
<1>20. \A k \in DOMAIN y.passes : \A i \in DOMAIN y.passes[k].ops :
          Before(y, k, i) \subseteq DOMAIN table
  BY <1>0, <1>19, BeforeIs
<1>21. \A k \in DOMAIN y.passes : \A i \in DOMAIN y.passes[k].ops :
          table[y.passes[k].ops[i]].type # "clip" =>
             /\ table[y.passes[k].ops[i]].depth \in 0 .. y.depth
             /\ \A c \in Before(y, k, i) :
                   Blocks(z, other, c, table[y.passes[k].ops[i]].depth)
                      <=> Blocks(y, table, c, table[y.passes[k].ops[i]].depth)
  <2>1. \A k \in DOMAIN y.passes : \A i \in DOMAIN y.passes[k].ops :
          table[y.passes[k].ops[i]].type # "clip" =>
             table[y.passes[k].ops[i]].depth \in 0 .. y.depth
    BY <1>0 DEF DepthsAreRight
  <2>. QED
    BY <2>1, <1>12, <1>20
<1>22. ClipsAreDrawn(z, other)
  <2>. DEFINE K == Len(y.passes)
  <2>1. ASSUME NEW i \in DOMAIN y.passes[K].ops,
               other[y.passes[K].ops[i]].type # "clip",
               other[y.passes[K].ops[i]].clip = 0 \/ other[y.passes[K].ops[i]].clip \in Stack(z)
        PROVE  LET a == other[y.passes[K].ops[i]]
               IN  /\ \A c \in Stack(z) : c <= a.clip => c \in Before(z, K, i)
                   /\ \A c \in Before(z, K, i) : other[c].type = "clip" =>
                        (Blocks(z, other, c, a.depth) <=> c \in Stack(z) /\ c <= a.clip)
    <3>. DEFINE a == table[y.passes[K].ops[i]]
    <3>1. other[y.passes[K].ops[i]] = a /\ a.type # "clip" /\ (a.clip = 0 \/ a.clip \in Stack(z))
      BY <1>8, <1>9, <1>10, <1>19, <2>1
    <3>2. /\ \A c \in Stack(y) : c <= a.clip => c \in Before(y, K, i)
          /\ \A c \in Before(y, K, i) : table[c].type = "clip" =>
                (Blocks(y, table, c, a.depth) <=> c \in Stack(y) /\ c <= a.clip)
      BY <1>0, <1>5, <3>1 DEF ClipsAreDrawn
    <3>3. \A c \in Before(y, K, i) :
             /\ c \in DOMAIN table
             /\ Blocks(z, other, c, a.depth) <=> Blocks(y, table, c, a.depth)
      BY <1>19, <1>20, <1>21, <3>1
    <3>4. \A c \in popped : ~ (c <= a.clip)
      <4>1. \A c \in popped : c \in Nat
        BY <1>5, <1>6
      <4>2. \A c \in popped : c \in DOMAIN table
        BY <1>5, <1>6
      <4>3. \A c \in popped : c > 0
        BY <4>2
      <4>. QED
        BY <3>1, <1>5, <1>6, <4>1, <4>3
    <3>. HIDE DEF a
    <3>5. \A c \in Stack(z) : c <= a.clip => c \in Before(z, K, i)
      BY <3>2, <1>5, <1>11
    <3>6. \A c \in Before(z, K, i) : other[c].type = "clip" =>
             (Blocks(z, other, c, a.depth) <=> c \in Stack(z) /\ c <= a.clip)
      BY <3>2, <3>3, <3>4, <1>5, <1>9, <1>11
    <3>. QED
      BY <3>1, <3>5, <3>6
  <2>2. Stack(z) \subseteq ToSet(z.pending) \cup Before(z, K, Len(y.passes[K].ops) + 1)
    BY <1>0, <1>1, <1>5, <1>11 DEF ClipsAreDrawn
  <2>. QED
    BY <1>1, <2>1, <2>2 DEF ClipsAreDrawn
<1>23. ShowAlike(z, other, box, y, table, box)
  <2>. SUFFICES ASSUME NEW R, NEW p
                PROVE  LayerShows(z, other, box, R, p) = LayerShows(y, table, box, R, p)
    BY DEF ShowAlike
  <2>1. ASSUME NEW k \in DOMAIN y.passes, NEW i \in DOMAIN y.passes[k].ops
        PROVE  Added(z, other, box, R, k, i, p) = Added(y, table, box, R, k, i, p)
    <3>. DEFINE o == y.passes[k].ops[i]
    <3>1. o \in DOMAIN table /\ z.passes[k].ops[i] = o /\ Before(z, k, i) = Before(y, k, i)
      BY <1>1, <1>10, <1>11
    <3>2. CASE table[o].type = "clip"
      <4>1. other[o].type = "clip"
        BY <3>1, <3>2, <1>9
      <4>. QED
        BY <3>1, <3>2, <4>1, AddedSame
    <3>3. CASE table[o].type # "clip"
      <4>1. other[o] = table[o]
        BY <3>1, <3>3, <1>8
      <4>2. \A c \in Before(y, k, i) : Alike(other[c], table[c])
               /\ (Blocks(z, other, c, table[o].depth) <=> Blocks(y, table, c, table[o].depth))
        BY <3>3, <1>3, <1>20, <1>21
      <4>. QED
        BY <3>1, <4>1, <4>2, AddedSame
    <3>. QED
      BY <3>2, <3>3
  <2>. QED
    BY <1>1, <2>1, ShowsSame
<1>24. LayerInv(z, other, l, box, loads)
  BY <1>13, <1>14, <1>15, <1>16, <1>17, <1>18, <1>22 DEF LayerInv
<1>25. \A d \in DOMAIN table : d \notin Stack(y) => other[d] = table[d]
  BY <1>3, <1>5
<1>. QED
  BY <1>3, <1>4, <1>23, <1>24, <1>25 DEF z, other

\* A new clip keeps the invariant of the layer and what it shows.
LEMMA AddClipKeeps ==
  ASSUME NEW y \in Layers, NEW table \in Seq(Draws), NEW l, NEW box, NEW loads,
         LayerInv(y, table, l, box, loads), ClipNames(table),
         NEW d \in Draws, d.type = "clip", d.scissor = CurrentClipBounds(y)
  PROVE  LET z == AddClip(y, Len(table) + 1)
             other == Append(table, d)
         IN  /\ LayerInv(z, other, l, box, loads)
             /\ ShowAlike(z, other, box, y, table, box)
             /\ \A j \in 1 .. Len(y.clips) : j < Len(y.clips) => StackTo(z, j) = StackTo(y, j)
             /\ Stack(z) = Stack(y) \cup {Len(table) + 1}
<1>1. PICK id \in Nat : id = Len(table) + 1 /\ id > 0 /\ \A c \in DOMAIN table : c < id /\ c \in Nat
  <2>1. Len(table) + 1 \in Nat /\ Len(table) + 1 > 0 /\ \A c \in DOMAIN table : c < Len(table) + 1 /\ c \in Nat
    OBVIOUS
  <2>. QED
    BY <2>1
<1>. DEFINE z == AddClip(y, id)  other == Append(table, d)  n == Len(y.clips)
<1>0. /\ NamesAreRight(y, table, l, box) /\ PlacesAreRight(y, table) /\ ClipsAreNested(y, table)
      /\ DepthsAreRight(y, table) /\ DrawsAreBounded(y, table, box)
      /\ LoadsAreRight(y, table, loads) /\ ClipsAreDrawn(y, table)
  BY DEF LayerInv
<1>2. /\ z \in Layers
      /\ z.origin = y.origin /\ z.bounds = y.bounds /\ z.depth = y.depth
      /\ z.history = Append(y.history, id) /\ z.passes = y.passes
      /\ z.pending = Append(y.pending, id)
      /\ n \in Nat /\ n > 0 /\ n \in 1 .. n /\ Len(z.clips) = n
      /\ \A i \in 1 .. n : z.clips[i].bounds = y.clips[i].bounds
      /\ \A i \in 1 .. n : i < n => z.clips[i].draws = y.clips[i].draws
      /\ z.clips[n].draws = Append(y.clips[n].draws, id)
  BY <1>0, AddClipIs DEF NamesAreRight
<1>3. /\ other \in Seq(Draws) /\ Len(other) = id /\ other[id] = d
      /\ \A c \in DOMAIN table : c \in DOMAIN other /\ other[c] = table[c]
      /\ id \in DOMAIN other /\ id \notin DOMAIN table
  BY <1>1, AppendProperties
<1>. HIDE DEF z, other
<1>4. /\ DOMAIN y.clips = 1 .. n /\ DOMAIN z.clips = 1 .. n /\ z.clips # <<>>
      /\ y.clips[n].draws \in Seq(Nat) /\ y.history \in Seq(Nat) /\ y.pending \in Seq(Nat)
  BY <1>2, LayerTypes
<1>5. /\ ToSet(z.history) = ToSet(y.history) \cup {id} /\ ToSet(z.pending) = ToSet(y.pending) \cup {id}
      /\ ToSet(z.clips[n].draws) = ToSet(y.clips[n].draws) \cup {id}
      /\ Len(z.history) = Len(y.history) + 1 /\ DOMAIN z.history = 1 .. Len(y.history) + 1
      /\ z.history[Len(y.history) + 1] = id
      /\ \A i \in 1 .. Len(y.history) : z.history[i] = y.history[i]
      /\ DOMAIN y.history = 1 .. Len(y.history) /\ Len(y.history) \in Nat
  <2>1. \A s \in Seq(Nat) : ToSet(Append(s, id)) = ToSet(s) \cup {id}
    BY <1>1, ToSetAppend
  <2>. QED
    BY <2>1, <1>2, <1>4, AppendProperties, SMTT(40)
<1>6. \A j \in 1 .. n : j < n => StackTo(z, j) = StackTo(y, j)
  <2>1. \A j \in 1 .. n : j < n => j \in Nat /\ \A i \in 1 .. j : i \in 1 .. n /\ i < n
    BY <1>2
  <2>. QED
    BY <1>2, <2>1, StackToSame
<1>7. Stack(z) = Stack(y) \cup {id}
  <2>1. PICK m \in Nat : n = m + 1 /\ m \in 0 .. n /\ \A i \in 1 .. m : i \in 1 .. n /\ i < n
    <3>1. n - 1 \in Nat /\ n = n - 1 + 1 /\ n - 1 \in 0 .. n /\ \A i \in 1 .. n - 1 : i \in 1 .. n /\ i < n
      BY <1>2
    <3>. QED
      BY <3>1
  <2>2. StackTo(z, m) = StackTo(y, m)
    BY <1>2, <2>1, StackToSame
  <2>3. /\ StackTo(y, n) = StackTo(y, m) \cup ToSet(y.clips[n].draws)
        /\ StackTo(z, n) = StackTo(z, m) \cup ToSet(z.clips[n].draws)
    BY <2>1, StackToNext
  <2>. QED
    BY <2>2, <2>3, <1>2, <1>5 DEF Stack
<1>8. /\ \A c \in ToSet(y.history) : c \in DOMAIN table /\ table[c].type = "clip"
      /\ Stack(y) \subseteq ToSet(y.history) /\ id \notin Stack(y)
  BY <1>0, <1>1, <1>3 DEF NamesAreRight, ToSet
<1>9. \A k \in DOMAIN y.passes : \A i \in DOMAIN y.passes[k].ops :
         /\ y.passes[k].ops[i] \in DOMAIN table
         /\ other[y.passes[k].ops[i]] = table[y.passes[k].ops[i]]
  BY <1>0, <1>3 DEF NamesAreRight
<1>10. \A k \in DOMAIN y.passes : \A i : Before(z, k, i) = Before(y, k, i)
  <2>. SUFFICES ASSUME NEW k \in DOMAIN y.passes, NEW i PROVE Before(z, k, i) = Before(y, k, i)
    OBVIOUS
  <2>1. \A j \in 1 .. y.passes[k].replayed : z.history[j] = y.history[j]
    <3>1. y.passes[k].replayed \in Nat /\ y.passes[k].replayed <= Len(y.history)
      BY <1>0, LayerTypes DEF NamesAreRight
    <3>. QED
      BY <3>1, <1>5
  <2>2. {z.history[j] : j \in 1 .. y.passes[k].replayed} = {y.history[j] : j \in 1 .. y.passes[k].replayed}
    BY <2>1
  <2>3. z.passes[k] = y.passes[k]
    BY <1>2
  <2>. QED
    BY <2>2, <2>3 DEF Before
<1>11. /\ DOMAIN y.passes = 1 .. Len(y.passes) /\ Len(y.passes) \in DOMAIN y.passes
       /\ \A k \in DOMAIN y.passes : \A i \in DOMAIN y.passes[k].ops :
             i \in 1 .. Len(y.passes[k].ops) + 1
       /\ \A k \in DOMAIN y.passes : Len(y.passes[k].ops) + 1 \in 1 .. Len(y.passes[k].ops) + 1
  <2>1. y.passes # <<>>
    BY <1>0 DEF NamesAreRight
  <2>. QED
    BY <2>1, LayerTypes, EmptySeq
<1>12. \A k \in DOMAIN y.passes : \A i \in 1 .. Len(y.passes[k].ops) + 1 :
          Before(y, k, i) \subseteq DOMAIN table
  BY <1>0, BeforeIs
<1>13. \A c \in DOMAIN table : \A depth : Blocks(z, other, c, depth) <=> Blocks(y, table, c, depth)
  BY <1>3, <1>7 DEF Blocks
<1>14. NamesAreRight(z, other, l, box)
  <2>1. \A i \in DOMAIN z.history : z.history[i] \in DOMAIN other /\ other[z.history[i]].type = "clip"
    <3>1. \A i \in DOMAIN z.history : \/ i \in DOMAIN y.history /\ z.history[i] = y.history[i]
                                      \/ z.history[i] = id
      BY <1>5
    <3>. QED
      BY <3>1, <1>0, <1>3 DEF NamesAreRight
  <2>2. Stack(z) \subseteq ToSet(z.history) /\ ToSet(z.pending) \subseteq ToSet(z.history)
    BY <1>0, <1>5, <1>7 DEF NamesAreRight
  <2>3. \A k \in DOMAIN z.passes :
         /\ z.passes[k].replayed <= Len(z.history)
         /\ \A i \in DOMAIN z.passes[k].ops :
              LET o == z.passes[k].ops[i]
              IN  /\ o \in DOMAIN other
                  /\ other[o].type # "load"
                  /\ other[o].type = "clip" => o \in ToSet(z.history)
                  /\ other[o].type = "layer" => other[o].child \in DOMAIN box /\ other[o].child > l
    <3>1. \A k \in DOMAIN z.passes : z.passes[k].replayed <= Len(z.history)
      <4>1. \A k \in DOMAIN y.passes : y.passes[k].replayed \in Nat /\ y.passes[k].replayed <= Len(y.history)
        BY <1>0, LayerTypes DEF NamesAreRight
      <4>. QED
        BY <4>1, <1>2, <1>5
    <3>. QED
      <4>1. ASSUME NEW k \in DOMAIN z.passes, NEW i \in DOMAIN z.passes[k].ops
            PROVE  LET o == z.passes[k].ops[i]
                   IN  /\ o \in DOMAIN other
                       /\ other[o].type # "load"
                       /\ other[o].type = "clip" => o \in ToSet(z.history)
                       /\ other[o].type = "layer" => other[o].child \in DOMAIN box /\ other[o].child > l
        <5>. DEFINE o == y.passes[k].ops[i]
        <5>1. k \in DOMAIN y.passes /\ i \in DOMAIN y.passes[k].ops /\ z.passes[k].ops[i] = o
          BY <1>2
        <5>2. o \in DOMAIN other /\ other[o] = table[o]
          BY <5>1, <1>3, <1>9
        <5>3. /\ table[o].type # "load"
              /\ table[o].type = "clip" => o \in ToSet(y.history)
              /\ table[o].type = "layer" => table[o].child \in DOMAIN box /\ table[o].child > l
          BY <5>1, <1>0 DEF NamesAreRight
        <5>. QED
          BY <5>1, <5>2, <5>3, <1>5
      <4>. QED
        BY <3>1, <4>1
  <2>. QED
    BY <1>0, <1>2, <1>4, <2>1, <2>2, <2>3 DEF NamesAreRight
<1>15. PlacesAreRight(z, other)
  BY <1>0, <1>2, <1>9 DEF PlacesAreRight
<1>16. ClipsAreNested(z, other)
  <2>1. \A j \in 1 .. n : ToSet(y.clips[j].draws) \subseteq Stack(y)
    BY DEF Stack, StackTo
  <2>2. \A j \in 1 .. n : \A c \in ToSet(y.clips[j].draws) : c \in DOMAIN table /\ other[c] = table[c]
    BY <1>3, <1>8, <2>1
  <2>3. \A j \in 1 .. n : j < n \/ j = n
    BY <1>2
  <2>4. ASSUME NEW i \in 1 .. n, NEW j \in 1 .. n, i < j
        PROVE  /\ \A a \in ToSet(z.clips[i].draws), b \in ToSet(z.clips[j].draws) : a < b
               /\ z.clips[j].bounds \subseteq z.clips[i].bounds
    <3>1. i < n
      BY <1>2, <2>4
    <3>2. /\ \A a \in ToSet(y.clips[i].draws), b \in ToSet(y.clips[j].draws) : a < b
          /\ y.clips[j].bounds \subseteq y.clips[i].bounds
      BY <1>0, <1>4, <2>4 DEF ClipsAreNested
    <3>3. ToSet(z.clips[j].draws) \subseteq ToSet(y.clips[j].draws) \cup {id}
      BY <1>2, <1>5, <2>3
    <3>4. \A a \in ToSet(y.clips[i].draws) : a < id
      BY <1>1, <2>2
    <3>. QED
      BY <1>2, <3>1, <3>2, <3>3, <3>4
  <2>5. ASSUME NEW j \in 1 .. n
        PROVE  /\ \A a, b \in DOMAIN z.clips[j].draws : a < b => z.clips[j].draws[a] < z.clips[j].draws[b]
               /\ z.clips[j].bounds \subseteq z.bounds
               /\ \A c \in ToSet(z.clips[j].draws) : z.clips[j].bounds \subseteq other[c].scissor
    <3>1. /\ \A a, b \in DOMAIN y.clips[j].draws : a < b => y.clips[j].draws[a] < y.clips[j].draws[b]
          /\ y.clips[j].bounds \subseteq y.bounds
          /\ \A c \in ToSet(y.clips[j].draws) : y.clips[j].bounds \subseteq table[c].scissor
      BY <1>0, <1>4 DEF ClipsAreNested
    <3>2. CASE j < n
      BY <3>1, <3>2, <1>2, <2>2
    <3>3. CASE j = n
      <4>. DEFINE s == y.clips[n].draws
      <4>1. /\ DOMAIN z.clips[n].draws = 1 .. Len(s) + 1 /\ Len(s) \in Nat
            /\ z.clips[n].draws[Len(s) + 1] = id
            /\ \A a \in 1 .. Len(s) : z.clips[n].draws[a] = s[a] /\ s[a] < id /\ a \in DOMAIN s
        <5>1. s \in Seq(Nat) /\ z.clips[n].draws = Append(s, id)
          BY <1>2, <1>4
        <5>2. \A a \in 1 .. Len(s) : s[a] \in ToSet(y.clips[n].draws)
          BY <5>1 DEF ToSet
        <5>. HIDE DEF s
        <5>3. \A a \in 1 .. Len(s) : s[a] < id
          BY <5>2, <1>1, <1>2, <2>2
        <5>. QED
          BY <5>1, <5>3, AppendProperties
      <4>. HIDE DEF s
      <4>2. ASSUME NEW a \in DOMAIN z.clips[n].draws, NEW b \in DOMAIN z.clips[n].draws, a < b
            PROVE  z.clips[n].draws[a] < z.clips[n].draws[b]
        <5>1. a \in 1 .. Len(s)
          BY <4>1, <4>2
        <5>2. CASE b = Len(s) + 1
          BY <4>1, <5>1, <5>2
        <5>3. CASE b \in 1 .. Len(s)
          <6>1. s[a] < s[b]
            BY <3>1, <3>3, <4>1, <4>2, <5>1, <5>3 DEF s
          <6>. QED
            BY <6>1, <4>1, <5>1, <5>3
        <5>. QED
          BY <4>1, <4>2, <5>2, <5>3
      <4>3. other[id].scissor = y.clips[n].bounds
        BY <1>3 DEF CurrentClipBounds, Last
      <4>. QED
        BY <3>1, <3>3, <4>2, <4>3, <1>2, <1>5, <2>2
    <3>. QED
      BY <3>2, <3>3, <2>3
  <2>. QED
    BY <1>4, <2>4, <2>5 DEF ClipsAreNested
<1>17. DepthsAreRight(z, other)
  <2>1. \A c \in ToSet(z.history) \ Stack(z) : c \in ToSet(y.history) \ Stack(y) /\ other[c] = table[c]
    BY <1>3, <1>5, <1>7, <1>8
  <2>. QED
    BY <2>1, <1>0, <1>2, <1>9 DEF DepthsAreRight
<1>18. DrawsAreBounded(z, other, box)
  <2>2. ASSUME NEW k \in DOMAIN z.passes, NEW i \in DOMAIN z.passes[k].ops,
               other[z.passes[k].ops[i]].type # "clip"
        PROVE  LET e == other[z.passes[k].ops[i]]
               IN  /\ AreaOf(box, e) \cap e.scissor \subseteq e.bounds
                   /\ IsFiniteSet(e.bounds)
                   /\ e.dst => k > 1 /\ i = 1 /\ e.bounds = z.passes[k - 1].copy
    <3>. DEFINE e == table[y.passes[k].ops[i]]
    <3>1. other[z.passes[k].ops[i]] = e /\ e.type # "clip"
      BY <1>2, <1>9, <2>2
    <3>2. /\ AreaOf(box, e) \cap e.scissor \subseteq e.bounds
          /\ IsFiniteSet(e.bounds)
          /\ e.dst => k > 1 /\ i = 1 /\ e.bounds = y.passes[k - 1].copy
      BY <1>0, <1>2, <2>2, <3>1 DEF DrawsAreBounded
    <3>. HIDE DEF e
    <3>. QED
      BY <3>1, <3>2, <1>2
  <2>. QED
    BY <1>0, <1>2, <2>2 DEF DrawsAreBounded
<1>19. LoadsAreRight(z, other, loads)
  BY <1>0, <1>2, <1>3 DEF LoadsAreRight
<1>20. ClipsAreDrawn(z, other)
  <2>. DEFINE K == Len(y.passes)
  <2>1. ASSUME NEW i \in DOMAIN y.passes[K].ops,
               other[y.passes[K].ops[i]].type # "clip",
               other[y.passes[K].ops[i]].clip = 0 \/ other[y.passes[K].ops[i]].clip \in Stack(z)
        PROVE  LET a == other[y.passes[K].ops[i]]
               IN  /\ \A c \in Stack(z) : c <= a.clip => c \in Before(z, K, i)
                   /\ \A c \in Before(z, K, i) : other[c].type = "clip" =>
                        (Blocks(z, other, c, a.depth) <=> c \in Stack(z) /\ c <= a.clip)
    <3>. DEFINE a == table[y.passes[K].ops[i]]
    <3>1. other[y.passes[K].ops[i]] = a /\ a.type # "clip" /\ (a.clip = 0 \/ a.clip \in Stack(z))
      BY <1>9, <1>11, <2>1
    <3>2. a.clip \in Nat /\ a.clip < id
      <4>1. a.clip \in 0 .. Len(table)
        BY <1>9, <1>11 DEF ClipNames
      <4>. QED
        BY <4>1, <1>1
    <3>3. /\ \A c \in Stack(y) : c <= a.clip => c \in Before(y, K, i)
          /\ \A c \in Before(y, K, i) : table[c].type = "clip" =>
                (Blocks(y, table, c, a.depth) <=> c \in Stack(y) /\ c <= a.clip)
      <4>1. a.clip = 0 \/ a.clip \in Stack(y)
        BY <1>7, <3>1, <3>2
      <4>2. ClipsAreDrawn(y, table)
        BY <1>0
      <4>. QED
        BY <4>1, <4>2, <3>1 DEF ClipsAreDrawn
    <3>4. Before(z, K, i) = Before(y, K, i) /\ \A c \in Before(y, K, i) : c \in DOMAIN table
      BY <1>10, <1>11, <1>12
    <3>. HIDE DEF a
    <3>5. \A c \in Stack(z) : c <= a.clip => c \in Before(z, K, i)
      BY <1>7, <3>2, <3>3, <3>4
    <3>6. \A c \in Before(z, K, i) : other[c].type = "clip" =>
             (Blocks(z, other, c, a.depth) <=> c \in Stack(z) /\ c <= a.clip)
      BY <1>3, <1>7, <1>13, <3>3, <3>4
    <3>. QED
      BY <3>1, <3>5, <3>6
  <2>2. Stack(z) \subseteq ToSet(z.pending) \cup Before(z, K, Len(y.passes[K].ops) + 1)
    BY <1>0, <1>5, <1>7, <1>10, <1>11 DEF ClipsAreDrawn
  <2>. QED
    BY <1>2, <2>1, <2>2 DEF ClipsAreDrawn
<1>21. ShowAlike(z, other, box, y, table, box)
  <2>. SUFFICES ASSUME NEW R, NEW p
                PROVE  LayerShows(z, other, box, R, p) = LayerShows(y, table, box, R, p)
    BY DEF ShowAlike
  <2>1. ASSUME NEW k \in DOMAIN y.passes, NEW i \in DOMAIN y.passes[k].ops
        PROVE  Added(z, other, box, R, k, i, p) = Added(y, table, box, R, k, i, p)
    <3>. DEFINE o == y.passes[k].ops[i]
    <3>1. z.passes[k].ops[i] = o /\ Before(z, k, i) = Before(y, k, i) /\ other[o] = table[o]
      BY <1>2, <1>9, <1>10
    <3>2. \A c \in Before(y, k, i) : c \in DOMAIN table
      BY <1>11, <1>12
    <3>3. \A c \in Before(y, k, i) : Alike(other[c], table[c])
             /\ (Blocks(z, other, c, table[o].depth) <=> Blocks(y, table, c, table[o].depth))
      BY <3>2, <1>3, <1>13 DEF Alike
    <3>. QED
      BY <3>1, <3>3, AddedSame
  <2>. QED
    BY <1>2, <2>1, ShowsSame
<1>. QED
  BY <1>1, <1>6, <1>7, <1>14, <1>15, <1>16, <1>17, <1>18, <1>19, <1>20, <1>21 DEF LayerInv, z, other

-----------------------------------------------------------------------------
(* What is shown is a sequence of draws                                    *)

\* The textures of the layers hold colours.
Colours(box, R) == \A m \in DOMAIN box : \A p \in box[m] : R[m][p] \in Seq(Nat)

\* A draw leaves names of draws on the pixels of its area, and on no others.
LEMMA InkIs ==
  ASSUME NEW box, NEW R, Colours(box, R), NEW d \in Draws,
         d.type = "layer" => d.child \in DOMAIN box, NEW p
  PROVE  /\ p \in AreaOf(box, d) => Ink(d, p, R) \in Seq(Nat)
         /\ d.type # "layer" => Ink(d, p, R) \in Seq(Nat)
         /\ d.type # "layer" /\ p \notin AreaOf(box, d) => Ink(d, p, R) = <<>>
<1>1. CASE d.type = "layer"
  BY <1>1 DEF Ink, AreaOf, Colours
<1>2. CASE d.type # "layer"
  <2>. DEFINE s == [i \in DOMAIN d.items |-> d.items[i].id]
              places == {i \in DOMAIN d.items : p \in d.items[i].pixels}
  <2>1. d.items \in Seq([id : Nat, pixels : SUBSET Int])
    BY DEF Draws
  <2>2. s \in Seq(Nat)
    <3>1. \A i \in 1 .. Len(d.items) : d.items[i].id \in Nat
      <4>1. PICK items \in Seq([id : Nat, pixels : SUBSET Int]) : items = d.items
        BY <2>1
      <4>2. \A i \in 1 .. Len(items) : items[i] \in [id : Nat, pixels : SUBSET Int]
        BY ElementOfSeq, Zenon
      <4>3. \A i \in 1 .. Len(items) : items[i].id \in Nat
        BY <4>2
      <4>. QED
        BY <4>1, <4>3
    <3>2. DOMAIN d.items = 1 .. Len(d.items) /\ Len(d.items) \in Nat
      BY <2>1
    <3>. QED
      BY <3>1, <3>2
  <2>3. Ink(d, p, R) = Chosen(s, places)
    BY <1>2 DEF Ink
  <2>. HIDE DEF s
  <2>4. Chosen(s, places) \in Seq(Nat) /\ ToSet(Chosen(s, places)) = {s[i] : i \in DOMAIN s \cap places}
    BY <2>2, ChosenIs
  <2>5. ASSUME p \notin AreaOf(box, d) PROVE Chosen(s, places) = <<>>
    <3>1. places = {}
      BY <1>2, <2>5 DEF AreaOf
    <3>2. ToSet(Chosen(s, places)) = {}
      BY <2>4, <3>1
    <3>3. PICK t \in Seq(Nat) : t = Chosen(s, places)
      BY <2>4
    <3>4. DOMAIN t = {} /\ Len(t) \in Nat
      <4>1. {t[i] : i \in DOMAIN t} = {}
        BY <3>2, <3>3 DEF ToSet
      <4>2. DOMAIN t = {}
        BY <4>1
      <4>. QED
        BY <4>2
    <3>5. t = <<>>
      BY <3>4, EmptySeq
    <3>. QED
      BY <3>3, <3>5
  <2>. QED
    BY <1>2, <2>3, <2>4, <2>5
<1>. QED
  BY <1>1, <1>2

\* What is added, and what is shown, is a sequence of draws.
LEMMA ShowsAreColours ==
  ASSUME NEW y \in Layers, NEW table \in Seq(Draws), NEW l, NEW box,
         NamesAreRight(y, table, l, box), NEW R, Colours(box, R), NEW p
  PROVE  /\ \A k \in DOMAIN y.passes : \A i \in DOMAIN y.passes[k].ops :
               Added(y, table, box, R, k, i, p) \in Seq(Nat)
         /\ \A k \in DOMAIN y.passes : PassShows(y, table, box, R, k, p) \in Seq(Nat)
         /\ LayerShows(y, table, box, R, p) \in Seq(Nat)
<1>1. ASSUME NEW k \in DOMAIN y.passes, NEW i \in DOMAIN y.passes[k].ops
      PROVE  Added(y, table, box, R, k, i, p) \in Seq(Nat)
  <2>. DEFINE o == y.passes[k].ops[i]
  <2>1. o \in DOMAIN table /\ (table[o].type = "layer" => table[o].child \in DOMAIN box)
    BY DEF NamesAreRight
  <2>2. table[o] \in Draws
    BY <2>1
  <2>3. p \in AreaOf(box, table[o]) => Ink(table[o], p, R) \in Seq(Nat)
    BY <2>1, <2>2, InkIs
  <2>4. <<>> \in Seq(Nat)
    OBVIOUS
  <2>. HIDE DEF o
  <2>. QED
    BY <2>3, <2>4 DEF Added, o
<1>2. ASSUME NEW k \in DOMAIN y.passes PROVE PassShows(y, table, box, R, k, p) \in Seq(Nat)
  <2>. DEFINE f == [i \in DOMAIN y.passes[k].ops |-> Added(y, table, box, R, k, i, p)]
              n == Len(y.passes[k].ops)
  <2>1. n \in Nat /\ DOMAIN y.passes[k].ops = 1 .. n
    BY LayerTypes
  <2>2. \A i \in 1 .. n : f[i] \in Seq(Nat)
    BY <1>1, <2>1
  <2>. HIDE DEF f, n
  <2>3. Joined(f, n) \in Seq(Nat)
    BY <2>1, <2>2, JoinedIs, Zenon
  <2>. QED
    BY <2>3 DEF PassShows, f, n
<1>3. LayerShows(y, table, box, R, p) \in Seq(Nat)
  <2>. DEFINE f == [k \in DOMAIN y.passes |-> PassShows(y, table, box, R, k, p)]
              n == Len(y.passes)
  <2>1. n \in Nat /\ DOMAIN y.passes = 1 .. n
    BY LayerTypes
  <2>2. \A i \in 1 .. n : f[i] \in Seq(Nat)
    BY <1>2, <2>1
  <2>. HIDE DEF f, n
  <2>3. Joined(f, n) \in Seq(Nat)
    BY <2>1, <2>2, JoinedIs, Zenon
  <2>. QED
    BY <2>3 DEF LayerShows, f, n
<1>. QED
  BY <1>1, <1>2, <1>3

\* A layer shows more when its last pass shows more.
LastPassGrows(z, other, y, table, box, R, p, more) ==
    /\ more \in Seq(Nat)
    /\ DOMAIN z.passes = DOMAIN y.passes /\ Len(z.passes) = Len(y.passes)
    /\ \A k \in DOMAIN y.passes : k # Len(y.passes) =>
          PassShows(z, other, box, R, k, p) = PassShows(y, table, box, R, k, p)
    /\ PassShows(z, other, box, R, Len(y.passes), p)
         = PassShows(y, table, box, R, Len(y.passes), p) \o more

\* What the layer shows more is what the last pass shows more.
LEMMA ShowsMore ==
  ASSUME NEW y \in Layers, NEW table \in Seq(Draws), NEW l, NEW box,
         NamesAreRight(y, table, l, box), NEW R, Colours(box, R), NEW p,
         NEW z, NEW other, NEW more,
         LastPassGrows(z, other, y, table, box, R, p, more)
  PROVE  LayerShows(z, other, box, R, p) = LayerShows(y, table, box, R, p) \o more
<1>. DEFINE f == [k \in DOMAIN y.passes |-> PassShows(y, table, box, R, k, p)]
            g == [k \in DOMAIN y.passes |-> PassShows(z, other, box, R, k, p)]
            n == Len(y.passes)
<1>1. n \in Nat /\ DOMAIN y.passes = 1 .. n /\ n \in 1 .. n
  <2>1. y.passes # <<>>
    BY DEF NamesAreRight
  <2>. QED
    BY <2>1, LayerTypes, EmptySeq
<1>2. \A i \in 1 .. n : f[i] \in Seq(Nat)
  BY <1>1, ShowsAreColours
<1>3. /\ LayerShows(y, table, box, R, p) = Joined(f, n)
      /\ LayerShows(z, other, box, R, p) = Joined(g, n)
  BY DEF LayerShows, LastPassGrows
<1>4. g[n] = f[n] \o more /\ \A i \in 1 .. n : i # n => g[i] = f[i]
  BY <1>1 DEF LastPassGrows
<1>. HIDE DEF f, g, n
<1>5. MoreAt(Nat, f, g, n, n, more)
  BY <1>1, <1>2, <1>4 DEF MoreAt, LastPassGrows
<1>6. Joined(g, n) = Joined(f, n) \o more
  BY <1>5, JoinedGrows
<1>. QED
  BY <1>3, <1>6

\* A pass shows what it did when its draws add what they did.
LEMMA PassSame ==
  ASSUME NEW y, NEW table, NEW box, NEW R, NEW z, NEW other, NEW p, NEW k,
         z.passes[k].ops = y.passes[k].ops,
         \A i \in DOMAIN y.passes[k].ops :
            Added(z, other, box, R, k, i, p) = Added(y, table, box, R, k, i, p)
  PROVE  PassShows(z, other, box, R, k, p) = PassShows(y, table, box, R, k, p)
<1>1. [i \in DOMAIN z.passes[k].ops |-> Added(z, other, box, R, k, i, p)]
       = [i \in DOMAIN y.passes[k].ops |-> Added(y, table, box, R, k, i, p)]
  OBVIOUS
<1>. QED
  BY <1>1 DEF PassShows

\* A draw under the last clip of the stack gets to the pixels inside of all
\* the clips.
LEMMA ReachesInside ==
  ASSUME NEW y \in Layers, NEW table, NEW l, NEW box, NEW loads,
         NamesAreRight(y, table, l, box), ClipsAreNested(y, table), ClipsAreDrawn(y, table),
         NEW i \in DOMAIN y.passes[Len(y.passes)].ops,
         LET d == table[y.passes[Len(y.passes)].ops[i]]
         IN  d.type # "clip" /\ IsLast(d.clip, Stack(y)) /\ d.scissor = CurrentClipBounds(y),
         NEW p
  PROVE  Reaches(y, table, Len(y.passes), i, p) <=> InsideAll(y, table, p)
<1>. DEFINE K == Len(y.passes)  d == table[y.passes[K].ops[i]]  n == Len(y.clips)
<1>1. n \in Nat /\ n \in 1 .. n /\ DOMAIN y.clips = 1 .. n
  <2>1. y.clips # <<>>
    BY DEF NamesAreRight
  <2>. QED
    BY <2>1, LayerTypes, EmptySeq
<1>2. d.scissor = y.clips[n].bounds /\ d.type # "clip"
      /\ IsLast(d.clip, Stack(y))
  BY DEF CurrentClipBounds, Last
<1>3. d.clip = 0 \/ d.clip \in Stack(y)
  BY <1>2 DEF IsLast
<1>4. /\ \A c \in Stack(y) : c <= d.clip => c \in Before(y, K, i)
      /\ \A c \in Before(y, K, i) : table[c].type = "clip" =>
            (Blocks(y, table, c, d.depth) <=> c \in Stack(y) /\ c <= d.clip)
  BY <1>2, <1>3 DEF ClipsAreDrawn
<1>5. \A c \in Stack(y) : c <= d.clip
  BY <1>2 DEF IsLast
<1>6. \A c \in Stack(y) : table[c].type = "clip"
  BY DEF NamesAreRight, ToSet
<1>7. \A c \in Stack(y) : y.clips[n].bounds \subseteq table[c].scissor
  <2>. SUFFICES ASSUME NEW c \in Stack(y) PROVE y.clips[n].bounds \subseteq table[c].scissor
    OBVIOUS
  <2>1. PICK j \in 1 .. n : c \in ToSet(y.clips[j].draws)
    BY <1>1 DEF Stack, StackTo
  <2>2. y.clips[j].bounds \subseteq table[c].scissor
    BY <1>1, <2>1 DEF ClipsAreNested
  <2>3. j < n \/ j = n
    BY <1>1
  <2>4. y.clips[n].bounds \subseteq y.clips[j].bounds
    BY <1>1, <2>3 DEF ClipsAreNested
  <2>. QED
    BY <2>2, <2>4
<1>8. Stack(y) = StackTo(y, n)
  BY DEF Stack
<1>. DEFINE B == Before(y, K, i)  S == Stack(y)
<1>9. \A c \in B : Hides(table[c], p) => (Blocks(y, table, c, d.depth) <=> c \in S)
  BY <1>4, <1>5 DEF Hides
<1>10. \A c \in S : c \in B
  BY <1>4, <1>5
<1>11. \A c \in S : p \in d.scissor => (Hides(table[c], p) <=> p \in table[c].writes)
  BY <1>2, <1>6, <1>7 DEF Hides
<1>12. Reaches(y, table, K, i, p) <=> p \in d.scissor /\ \A c \in B : Hides(table[c], p) => ~ Blocks(y, table, c, d.depth)
  BY DEF Reaches
<1>13. InsideAll(y, table, p) <=> p \in y.clips[n].bounds /\ \A c \in S : p \notin table[c].writes
  BY <1>8 DEF InsideAll, Inside
<1>. HIDE DEF B, S, d
<1>. QED
  BY <1>2, <1>9, <1>10, <1>11, <1>12, <1>13

-----------------------------------------------------------------------------
(* The ways of AddDraw: a draw appended, a pass split, a draw merged       *)

\* Clips that join the last pass show nothing.
LEMMA FlushKeeps ==
  ASSUME NEW y \in Layers, NEW table \in Seq(Draws), NEW l, NEW box, NEW loads,
         LayerInv(y, table, l, box, loads), NEW R, Colours(box, R)
  PROVE  LET z == FlushPendingClip(y)
         IN  /\ LayerInv(z, table, l, box, loads)
             /\ \A p : LayerShows(z, table, box, R, p) = LayerShows(y, table, box, R, p)
             /\ Uses(z) = Uses(y)
<1>. DEFINE z == FlushPendingClip(y)  K == Len(y.passes)  n == Len(y.passes[K].ops)
            pending == y.pending
<1>0. /\ NamesAreRight(y, table, l, box) /\ PlacesAreRight(y, table) /\ ClipsAreNested(y, table)
      /\ DepthsAreRight(y, table) /\ DrawsAreBounded(y, table, box)
      /\ LoadsAreRight(y, table, loads) /\ ClipsAreDrawn(y, table)
  BY DEF LayerInv
<1>1. /\ z \in Layers
      /\ z.origin = y.origin /\ z.bounds = y.bounds /\ z.depth = y.depth
      /\ z.history = y.history /\ z.clips = y.clips /\ z.pending = <<>>
      /\ K \in Nat /\ K > 0 /\ K \in 1 .. K /\ Len(z.passes) = K
      /\ \A k \in 1 .. K : k < K => z.passes[k] = y.passes[k]
      /\ z.passes[K].ops = y.passes[K].ops \o pending
      /\ z.passes[K].replayed = y.passes[K].replayed
      /\ z.passes[K].firstDepth = y.passes[K].firstDepth
      /\ z.passes[K].load = y.passes[K].load
      /\ z.passes[K].copy = y.passes[K].copy
  BY <1>0, FlushIs DEF NamesAreRight
<1>. HIDE DEF z, pending
<1>2. /\ DOMAIN y.passes = 1 .. K /\ DOMAIN z.passes = 1 .. K /\ z.passes # <<>>
      /\ pending \in Seq(Nat) /\ y.passes[K].ops \in Seq(Nat)
      /\ n \in Nat /\ DOMAIN y.passes[K].ops = 1 .. n
      /\ \A k \in 1 .. K : k < K \/ k = K
  <2>1. /\ DOMAIN y.passes = 1 .. K /\ DOMAIN z.passes = 1 .. K
        /\ pending \in Seq(Nat) /\ y.passes[K].ops \in Seq(Nat)
        /\ n \in Nat /\ DOMAIN y.passes[K].ops = 1 .. n
    BY <1>1, LayerTypes, SMTT(40) DEF pending
  <2>2. z.passes # <<>> /\ \A k \in 1 .. K : k < K \/ k = K
    BY <1>1, <2>1
  <2>. QED
    BY <2>1, <2>2
<1>3. /\ \A k \in 1 .. K : /\ z.passes[k].replayed = y.passes[k].replayed
                           /\ z.passes[k].firstDepth = y.passes[k].firstDepth
                           /\ z.passes[k].load = y.passes[k].load
                           /\ z.passes[k].copy = y.passes[k].copy
      /\ \A k \in 1 .. K : k # K => z.passes[k].ops = y.passes[k].ops
  BY <1>1, <1>2
<1>4. PICK m \in Nat : /\ m = n + Len(pending) /\ DOMAIN z.passes[K].ops = 1 .. m /\ n \in 0 .. m
                       /\ Len(z.passes[K].ops) = m
                       /\ \A i \in 1 .. n : i \in 1 .. m /\ z.passes[K].ops[i] = y.passes[K].ops[i]
                       /\ \A i \in n + 1 .. m : z.passes[K].ops[i] \in ToSet(pending)
                       /\ \A c \in ToSet(pending) : \E i \in n + 1 .. m : z.passes[K].ops[i] = c
                       /\ \A i \in 1 .. m : i \in 1 .. n \/ i \in n + 1 .. m
  <2>. DEFINE s == y.passes[K].ops  m == n + Len(pending)
  <2>1. /\ Len(s \o pending) = Len(s) + Len(pending) /\ s \o pending \in Seq(Nat)
        /\ \A i \in 1 .. Len(s) + Len(pending) :
              (s \o pending)[i] = IF i <= Len(s) THEN s[i] ELSE pending[i - Len(s)]
        /\ Len(s) \in Nat /\ Len(pending) \in Nat /\ n = Len(s)
    BY <1>2, ConcatProperties
  <2>2. PICK t : t = s \o pending
    OBVIOUS
  <2>3. t = z.passes[K].ops /\ DOMAIN t = 1 .. m /\ Len(t) = m
    BY <2>1, <2>2, <1>1
  <2>11. PICK pl \in Nat : pl = Len(pending) /\ m = n + pl
    BY <2>1
  <2>12. \A i \in n + 1 .. n + pl : i \in 1 .. n + pl /\ ~ i <= n /\ i - n \in 1 .. pl
    BY <2>1
  <2>13. \A j \in 1 .. pl : n + j \in n + 1 .. n + pl /\ n + j \in 1 .. n + pl /\ ~ n + j <= n /\ (n + j) - n = j
    BY <2>1
  <2>4. \A i \in n + 1 .. m : t[i] = pending[i - n] /\ i - n \in DOMAIN pending
    <3>. SUFFICES ASSUME NEW i \in n + 1 .. m PROVE t[i] = pending[i - n] /\ i - n \in DOMAIN pending
      OBVIOUS
    <3>1. i \in 1 .. Len(s) + Len(pending) /\ ~ i <= Len(s) /\ i - n \in 1 .. Len(pending)
      BY <2>1, <2>11, <2>12
    <3>. QED
      BY <3>1, <2>1, <2>2, <1>2
  <2>5. \A i \in 1 .. n : i \in 1 .. m /\ t[i] = s[i]
    BY <2>1, <2>2
  <2>6. \A j \in DOMAIN pending : n + j \in n + 1 .. m /\ t[n + j] = pending[j]
    <3>1. \A j \in 1 .. pl : t[n + j] = pending[(n + j) - n]
      BY <2>1, <2>2, <2>11, <2>13
    <3>2. DOMAIN pending = 1 .. pl
      BY <2>11, <1>2
    <3>. QED
      BY <3>1, <3>2, <2>11, <2>13
  <2>7. \A i \in 1 .. m : i \in 1 .. n \/ i \in n + 1 .. m
    BY <2>1
  <2>8. m \in Nat /\ n \in 0 .. m
    BY <2>1
  <2>9. \A c \in ToSet(pending) : \E i \in n + 1 .. m : t[i] = c
    BY <2>6 DEF ToSet
  <2>10. \A i \in n + 1 .. m : t[i] \in ToSet(pending)
    BY <2>4 DEF ToSet
  <2>. HIDE DEF m, s
  <2>. QED
    BY <2>3, <2>5, <2>7, <2>8, <2>9, <2>10 DEF m, s
<1>. HIDE DEF n
<1>5. \A c \in ToSet(pending) : c \in ToSet(y.history) /\ c \in DOMAIN table /\ table[c].type = "clip"
  <2>1. \A c \in ToSet(y.history) : c \in DOMAIN table /\ table[c].type = "clip"
    BY <1>0 DEF NamesAreRight, ToSet
  <2>. QED
    BY <1>0, <2>1 DEF NamesAreRight, pending
<1>6. \A i \in n + 1 .. m : /\ z.passes[K].ops[i] \in ToSet(y.history)
                            /\ z.passes[K].ops[i] \in DOMAIN table
                            /\ table[z.passes[K].ops[i]].type = "clip"
  BY <1>4, <1>5
\* Every draw of the layer but those clips was at its place before.
<1>7. \A k \in DOMAIN z.passes : \A i \in DOMAIN z.passes[k].ops :
         \/ /\ i \in DOMAIN y.passes[k].ops /\ z.passes[k].ops[i] = y.passes[k].ops[i]
            /\ k = K => i \in 1 .. n
         \/ /\ k = K /\ i \in n + 1 .. m /\ z.passes[k].ops[i] \in ToSet(y.history)
            /\ z.passes[k].ops[i] \in DOMAIN table /\ table[z.passes[k].ops[i]].type = "clip"
  <2>. SUFFICES ASSUME NEW k \in 1 .. K, NEW i \in DOMAIN z.passes[k].ops
                PROVE  \/ /\ i \in DOMAIN y.passes[k].ops /\ z.passes[k].ops[i] = y.passes[k].ops[i]
                          /\ k = K => i \in 1 .. n
                       \/ /\ k = K /\ i \in n + 1 .. m /\ z.passes[k].ops[i] \in ToSet(y.history)
                          /\ z.passes[k].ops[i] \in DOMAIN table /\ table[z.passes[k].ops[i]].type = "clip"
    BY <1>2
  <2>1. CASE k # K
    BY <2>1, <1>3
  <2>2. CASE k = K
    <3>1. i \in 1 .. m
      BY <2>2, <1>4
    <3>2. CASE i \in 1 .. n
      BY <2>2, <3>2, <1>2, <1>4
    <3>3. CASE i \in n + 1 .. m
      BY <2>2, <3>3, <1>6
    <3>. QED
      BY <3>1, <3>2, <3>3, <1>4
  <2>. QED
    BY <2>1, <2>2
<1>8. \A k \in 1 .. K : \A i \in DOMAIN y.passes[k].ops :
         i \in DOMAIN z.passes[k].ops /\ z.passes[k].ops[i] = y.passes[k].ops[i]
  <2>. SUFFICES ASSUME NEW k \in 1 .. K, NEW i \in DOMAIN y.passes[k].ops
                PROVE  i \in DOMAIN z.passes[k].ops /\ z.passes[k].ops[i] = y.passes[k].ops[i]
    OBVIOUS
  <2>1. CASE k # K
    BY <2>1, <1>3
  <2>2. CASE k = K
    BY <2>2, <1>2, <1>4
  <2>. QED
    BY <2>1, <2>2
<1>9. \A k \in 1 .. K : \A i \in 1 .. Len(y.passes[k].ops) + 1 : Before(z, k, i) = Before(y, k, i)
  <2>. SUFFICES ASSUME NEW k \in 1 .. K, NEW i \in 1 .. Len(y.passes[k].ops) + 1
                PROVE  Before(z, k, i) = Before(y, k, i)
    OBVIOUS
  <2>1. y.passes[k].ops \in Seq(Nat) /\ DOMAIN y.passes[k].ops = 1 .. Len(y.passes[k].ops)
    BY <1>2, LayerTypes
  <2>2. \A j \in 1 .. i - 1 : j \in DOMAIN y.passes[k].ops
    BY <2>1
  <2>3. {z.passes[k].ops[j] : j \in 1 .. i - 1} = {y.passes[k].ops[j] : j \in 1 .. i - 1}
    BY <2>2, <1>8
  <2>4. z.history = y.history /\ z.passes[k].replayed = y.passes[k].replayed
    BY <1>1, <1>3
  <2>. QED
    BY <2>3, <2>4 DEF Before
<1>10. Stack(z) = Stack(y)
  BY <1>1 DEF Stack, StackTo
<1>11. NamesAreRight(z, table, l, box)
  <2>1. ASSUME NEW k \in DOMAIN z.passes, NEW i \in DOMAIN z.passes[k].ops
        PROVE  LET o == z.passes[k].ops[i]
               IN  /\ o \in DOMAIN table
                   /\ table[o].type # "load"
                   /\ table[o].type = "clip" => o \in ToSet(z.history)
                   /\ table[o].type = "layer" => table[o].child \in DOMAIN box /\ table[o].child > l
    <3>. DEFINE o == z.passes[k].ops[i]
    <3>1. CASE i \in DOMAIN y.passes[k].ops /\ o = y.passes[k].ops[i]
      BY <3>1, <1>0, <1>1, <1>2, SMTT(40) DEF NamesAreRight
    <3>2. CASE o \in ToSet(y.history) /\ o \in DOMAIN table /\ table[o].type = "clip"
      <4>. HIDE DEF o
      <4>1. "clip" # "load" /\ "clip" # "layer"
        OBVIOUS
      <4>2. /\ o \in DOMAIN table
            /\ table[o].type # "load"
            /\ table[o].type = "clip" => o \in ToSet(z.history)
            /\ table[o].type = "layer" => table[o].child \in DOMAIN box /\ table[o].child > l
        BY <4>1, <3>2, <1>1
      <4>. QED
        BY <4>2 DEF o
    <3>. QED
      BY <3>1, <3>2, <1>7
  <2>2. \A k \in DOMAIN z.passes : z.passes[k].replayed <= Len(z.history)
    BY <1>0, <1>1, <1>2, <1>3 DEF NamesAreRight
  <2>3. ToSet(z.pending) = {}
    BY <1>1 DEF ToSet
  <2>. QED
    BY <1>0, <1>1, <1>2, <1>10, <2>1, <2>2, <2>3 DEF NamesAreRight
<1>12. PlacesAreRight(z, table)
  <2>. SUFFICES ASSUME NEW j \in DOMAIN z.passes, NEW k \in DOMAIN z.passes,
                       NEW a \in DOMAIN z.passes[j].ops, NEW b \in DOMAIN z.passes[k].ops,
                       z.passes[j].ops[a] = z.passes[k].ops[b],
                       table[z.passes[j].ops[a]].type # "clip"
                PROVE  j = k /\ a = b
    BY DEF PlacesAreRight
  <2>1. /\ a \in DOMAIN y.passes[j].ops /\ z.passes[j].ops[a] = y.passes[j].ops[a]
        /\ b \in DOMAIN y.passes[k].ops /\ z.passes[k].ops[b] = y.passes[k].ops[b]
    BY <1>7
  <2>2. j \in DOMAIN y.passes /\ k \in DOMAIN y.passes
    BY <1>2
  <2>3. y.passes[j].ops[a] = y.passes[k].ops[b] /\ table[y.passes[j].ops[a]].type # "clip"
    BY <2>1
  <2>. QED
    BY <2>1, <2>2, <2>3, <1>0 DEF PlacesAreRight
<1>13. ClipsAreNested(z, table)
  BY <1>0, <1>1 DEF ClipsAreNested
<1>14. DepthsAreRight(z, table)
  <2>1. ASSUME NEW k \in DOMAIN z.passes, NEW i \in DOMAIN z.passes[k].ops,
               table[z.passes[k].ops[i]].type # "clip"
        PROVE  /\ table[z.passes[k].ops[i]].depth \in 1 .. z.depth
               /\ z.passes[k].firstDepth \in 1 .. table[z.passes[k].ops[i]].depth
    <3>1. i \in DOMAIN y.passes[k].ops /\ z.passes[k].ops[i] = y.passes[k].ops[i]
      BY <1>7, <2>1
    <3>2. k \in DOMAIN y.passes /\ z.passes[k].firstDepth = y.passes[k].firstDepth
      BY <1>2, <1>3
    <3>. QED
      BY <3>1, <3>2, <2>1, <1>0, <1>1 DEF DepthsAreRight
  <2>2. \A k \in DOMAIN z.passes : z.passes[k].firstDepth <= z.depth
    BY <1>0, <1>1, <1>2, <1>3 DEF DepthsAreRight
  <2>3. \A c \in ToSet(z.history) \ Stack(z) : table[c].depth <= z.depth
    BY <1>0, <1>1, <1>10 DEF DepthsAreRight
  <2>. QED
    BY <2>1, <2>2, <2>3 DEF DepthsAreRight
<1>15. DrawsAreBounded(z, table, box)
  <2>1. ASSUME NEW k \in DOMAIN z.passes, NEW i \in DOMAIN z.passes[k].ops,
               table[z.passes[k].ops[i]].type # "clip"
        PROVE  LET d == table[z.passes[k].ops[i]]
               IN  /\ AreaOf(box, d) \cap d.scissor \subseteq d.bounds
                   /\ IsFiniteSet(d.bounds)
                   /\ d.dst => k > 1 /\ i = 1 /\ d.bounds = z.passes[k - 1].copy
    <3>. DEFINE d == table[y.passes[k].ops[i]]
    <3>1. i \in DOMAIN y.passes[k].ops /\ z.passes[k].ops[i] = y.passes[k].ops[i]
      BY <1>7, <2>1
    <3>2. k \in DOMAIN y.passes /\ (k > 1 => z.passes[k - 1].copy = y.passes[k - 1].copy)
      <4>1. k \in 1 .. K /\ (k > 1 => k - 1 \in 1 .. K)
        BY <1>1, <1>2
      <4>. QED
        BY <4>1, <1>2, <1>3
    <3>3. /\ AreaOf(box, d) \cap d.scissor \subseteq d.bounds
          /\ IsFiniteSet(d.bounds)
          /\ d.dst => k > 1 /\ i = 1 /\ d.bounds = y.passes[k - 1].copy
      BY <3>1, <3>2, <2>1, <1>0 DEF DrawsAreBounded
    <3>. HIDE DEF d
    <3>4. /\ AreaOf(box, d) \cap d.scissor \subseteq d.bounds
          /\ IsFiniteSet(d.bounds)
          /\ d.dst => k > 1 /\ i = 1 /\ d.bounds = z.passes[k - 1].copy
      BY <3>2, <3>3
    <3>. QED
      BY <3>1, <3>4 DEF d
  <2>2. IsFiniteSet(z.bounds)
    BY <1>0, <1>1 DEF DrawsAreBounded
  <2>. QED
    BY <2>1, <2>2 DEF DrawsAreBounded
<1>16. LoadsAreRight(z, table, loads)
  <2>1. z.passes[1].load = 0
    <3>1. 1 \in 1 .. K
      BY <1>1
    <3>. QED
      BY <3>1, <1>0, <1>3 DEF LoadsAreRight
  <2>2. \A k \in 1 .. K : z.passes[k].load = y.passes[k].load
    BY <1>3
  <2>. QED
    BY <2>1, <2>2, <1>0, <1>1, <1>2 DEF LoadsAreRight
<1>17. ClipsAreDrawn(z, table)
  <2>1. Before(z, K, m + 1) = Before(y, K, n + 1) \cup ToSet(pending)
    <3>1. {z.passes[K].ops[j] : j \in 1 .. m} = {y.passes[K].ops[j] : j \in 1 .. n} \cup ToSet(pending)
      <4>. DEFINE A == {z.passes[K].ops[j] : j \in 1 .. m}  B == {y.passes[K].ops[j] : j \in 1 .. n}
      <4>1. \A j \in n + 1 .. m : j \in 1 .. m
        BY <1>2
      <4>2. ASSUME NEW c \in A PROVE c \in B \cup ToSet(pending)
        <5>1. PICK j \in 1 .. m : z.passes[K].ops[j] = c
          BY <4>2
        <5>2. CASE j \in 1 .. n
          BY <5>1, <5>2, <1>4
        <5>3. CASE j \in n + 1 .. m
          BY <5>1, <5>3, <1>4
        <5>. QED
          BY <5>1, <5>2, <5>3, <1>4
      <4>3. \A c \in B : c \in A
        BY <1>4
      <4>4. ASSUME NEW c \in ToSet(pending) PROVE c \in A
        <5>1. PICK i \in n + 1 .. m : z.passes[K].ops[i] = c
          BY <1>4
        <5>. QED
          BY <5>1, <4>1
      <4>. HIDE DEF A, B
      <4>. QED
        BY <4>2, <4>3, <4>4 DEF A, B
    <3>2. (m + 1) - 1 = m /\ (n + 1) - 1 = n
      BY <1>2
    <3>3. z.history = y.history /\ z.passes[K].replayed = y.passes[K].replayed
      BY <1>1
    <3>. QED
      BY <3>1, <3>2, <3>3 DEF Before
  <2>2. Stack(z) \subseteq ToSet(z.pending) \cup Before(z, K, m + 1)
    <3>1. Stack(y) \subseteq ToSet(pending) \cup Before(y, K, n + 1)
      BY <1>0 DEF ClipsAreDrawn, pending, n
    <3>. QED
      BY <2>1, <3>1, <1>10
  <2>3. ASSUME NEW i \in DOMAIN z.passes[K].ops, table[z.passes[K].ops[i]].type # "clip",
               table[z.passes[K].ops[i]].clip = 0 \/ table[z.passes[K].ops[i]].clip \in Stack(z)
        PROVE  LET a == table[z.passes[K].ops[i]]
               IN  /\ \A c \in Stack(z) : c <= a.clip => c \in Before(z, K, i)
                   /\ \A c \in Before(z, K, i) : table[c].type = "clip" =>
                        (Blocks(z, table, c, a.depth) <=> c \in Stack(z) /\ c <= a.clip)
    <3>. DEFINE a == table[y.passes[K].ops[i]]
    <3>1. i \in DOMAIN y.passes[K].ops /\ z.passes[K].ops[i] = y.passes[K].ops[i]
      BY <1>7, <1>1, <1>2, <2>3
    <3>2. /\ \A c \in Stack(y) : c <= a.clip => c \in Before(y, K, i)
          /\ \A c \in Before(y, K, i) : table[c].type = "clip" =>
                (Blocks(y, table, c, a.depth) <=> c \in Stack(y) /\ c <= a.clip)
      BY <3>1, <2>3, <1>0, <1>10 DEF ClipsAreDrawn
    <3>3. Before(z, K, i) = Before(y, K, i)
      <4>1. i \in 1 .. Len(y.passes[K].ops) + 1
        BY <3>1, <1>2 DEF n
      <4>. QED
        BY <4>1, <1>1, <1>9
    <3>. HIDE DEF a
    <3>4. /\ \A c \in Stack(z) : c <= a.clip => c \in Before(z, K, i)
          /\ \A c \in Before(z, K, i) : table[c].type = "clip" =>
                (Blocks(z, table, c, a.depth) <=> c \in Stack(z) /\ c <= a.clip)
      BY <3>2, <3>3, <1>10 DEF Blocks
    <3>. QED
      BY <3>1, <3>4 DEF a
  <2>. QED
    BY <2>2, <2>3, <1>1, <1>4 DEF ClipsAreDrawn
<1>18. ASSUME NEW p PROVE LayerShows(z, table, box, R, p) = LayerShows(y, table, box, R, p)
  <2>1. ASSUME NEW k \in 1 .. K, NEW i \in DOMAIN y.passes[k].ops
        PROVE  Added(z, table, box, R, k, i, p) = Added(y, table, box, R, k, i, p)
    <3>1. z.passes[k].ops[i] = y.passes[k].ops[i]
      BY <1>8
    <3>2. Before(z, k, i) = Before(y, k, i)
      <4>1. y.passes[k].ops \in Seq(Nat) /\ i \in 1 .. Len(y.passes[k].ops) + 1
        BY <1>2, LayerTypes
      <4>. QED
        BY <4>1, <1>9
    <3>3. \A c \in Before(y, k, i) : \A depth : Blocks(z, table, c, depth) <=> Blocks(y, table, c, depth)
      BY <1>10 DEF Blocks
    <3>. QED
      BY <3>1, <3>2, <3>3, AddedSame DEF Alike
  <2>2. \A k \in 1 .. K : k # K => PassShows(z, table, box, R, k, p) = PassShows(y, table, box, R, k, p)
    BY <2>1, <1>3, PassSame
  <2>3. PassShows(z, table, box, R, K, p) = PassShows(y, table, box, R, K, p) \o <<>>
    <3>. DEFINE f == [i \in DOMAIN z.passes[K].ops |-> Added(z, table, box, R, K, i, p)]
                g == [i \in DOMAIN y.passes[K].ops |-> Added(y, table, box, R, K, i, p)]
    <3>1. /\ PassShows(z, table, box, R, K, p) = Joined(f, m)
          /\ PassShows(y, table, box, R, K, p) = Joined(g, n)
      BY <1>4 DEF PassShows, n
    <3>2. \A i \in 1 .. m : f[i] \in Seq(Nat)
      BY <1>1, <1>2, <1>4, <1>11, ShowsAreColours
    <3>3. \A i \in n + 1 .. m : f[i] = <<>>
      <4>1. \A i \in n + 1 .. m : i \in 1 .. m
        BY <1>2
      <4>. QED
        BY <4>1, <1>4, <1>6 DEF Added
    <3>4. \A i \in 1 .. n : f[i] \in Seq(Nat) /\ g[i] = f[i]
      BY <1>1, <1>2, <1>4, <2>1, <3>2
    <3>. HIDE DEF f, g
    <3>8. EmptyFrom(Nat, f, m, n)
      BY <1>4, <3>2, <3>3 DEF EmptyFrom
    <3>5. Joined(f, m) = Joined(f, n)
      BY <3>8, JoinedTail
    <3>6. Joined(g, n) = Joined(f, n)
      BY <1>2, <3>4, JoinedAgree, Zenon
    <3>7. PassShows(y, table, box, R, K, p) \in Seq(Nat)
      BY <1>0, <1>1, <1>2, ShowsAreColours
    <3>. QED
      BY <3>1, <3>5, <3>6, <3>7
  <2>7. NamesAreRight(y, table, l, box)
    BY <1>0
  <2>8. PICK none : none = <<>>
    OBVIOUS
  <2>4. LastPassGrows(z, table, y, table, box, R, p, none)
    <3>1. none \in Seq(Nat)
      BY <2>8
    <3>. QED
      BY <2>2, <2>3, <2>8, <3>1, <1>1, <1>2 DEF LastPassGrows
  <2>5. LayerShows(z, table, box, R, p) = LayerShows(y, table, box, R, p) \o none
    BY <2>4, <2>7, ShowsMore
  <2>6. LayerShows(y, table, box, R, p) \in Seq(Nat)
    BY <1>0, ShowsAreColours
  <2>. QED
    BY <2>5, <2>6, <2>8
<1>19. Uses(z) = Uses(y)
  <2>1. \A k \in 1 .. K : k # K => ToSet(z.passes[k].ops) = ToSet(y.passes[k].ops)
    BY <1>3
  <2>2. ToSet(z.passes[K].ops) = ToSet(y.passes[K].ops) \cup ToSet(pending)
    BY <1>1, <1>2, ToSetConcat
  <2>3. \A k \in 1 .. K : ToSet(z.passes[k].ops) \cup {z.passes[k].load}
                            \subseteq ToSet(y.passes[k].ops) \cup {y.passes[k].load} \cup ToSet(y.history)
    BY <2>1, <2>2, <1>3, <1>5
  <2>4. \A k \in 1 .. K : ToSet(y.passes[k].ops) \cup {y.passes[k].load}
                            \subseteq ToSet(z.passes[k].ops) \cup {z.passes[k].load}
    BY <2>1, <2>2, <1>3
  <2>5. Uses(z) \subseteq Uses(y)
    <3>1. \A k \in DOMAIN z.passes : ToSet(z.passes[k].ops) \cup {z.passes[k].load} \subseteq Uses(y)
      BY <2>3, <1>2 DEF Uses
    <3>2. ToSet(z.history) \subseteq Uses(y)
      BY <1>1 DEF Uses
    <3>. QED
      BY <3>1, <3>2 DEF Uses
  <2>6. Uses(y) \subseteq Uses(z)
    <3>1. \A k \in DOMAIN y.passes : ToSet(y.passes[k].ops) \cup {y.passes[k].load} \subseteq Uses(z)
      BY <2>4, <1>2 DEF Uses
    <3>2. ToSet(y.history) \subseteq Uses(z)
      BY <1>1 DEF Uses
    <3>. QED
      BY <3>1, <3>2 DEF Uses
  <2>. QED
    BY <2>5, <2>6
<1>. QED
  BY <1>11, <1>12, <1>13, <1>14, <1>15, <1>16, <1>17, <1>18, <1>19 DEF LayerInv, z

\* A draw becomes the last of the last pass and gets the next depth.
LEMMA AppendedIs ==
  ASSUME NEW y \in Layers, y.passes # <<>>, NEW table \in Seq(Draws), NEW d \in Draws
  PROVE  LET r == Appended([layer |-> y, draws |-> table], d)
             z == r.layer
             K == Len(y.passes)
         IN  /\ z \in Layers
             /\ z.origin = y.origin /\ z.bounds = y.bounds /\ z.depth = y.depth + 1
             /\ z.history = y.history /\ z.clips = y.clips /\ z.pending = y.pending
             /\ K \in Nat /\ K > 0 /\ K \in 1 .. K /\ Len(z.passes) = K
             /\ \A k \in 1 .. K : k < K => z.passes[k] = y.passes[k]
             /\ z.passes[K].ops = Append(y.passes[K].ops, Len(table) + 1)
             /\ z.passes[K].replayed = y.passes[K].replayed
             /\ z.passes[K].firstDepth = IF y.passes[K].firstDepth = 0 THEN y.depth + 1
                                         ELSE y.passes[K].firstDepth
             /\ z.passes[K].load = y.passes[K].load
             /\ z.passes[K].copy = y.passes[K].copy
             /\ r.draws = Append(table, [d EXCEPT !.depth = y.depth + 1])
<1>. DEFINE n == Len(y.passes)
            pass == [y.passes[n] EXCEPT !.ops = Append(@, Len(table) + 1),
                                        !.firstDepth = IF @ = 0 THEN y.depth + 1 ELSE @]
            z == [y EXCEPT !.depth = y.depth + 1, !.passes = [y.passes EXCEPT ![n] = pass]]
            other == Append(table, [d EXCEPT !.depth = y.depth + 1])
<1>1. n \in Nat /\ n > 0 /\ n \in 1 .. n /\ y.passes \in Seq(Passes) /\ n \in DOMAIN y.passes
  BY LayerTypes, EmptySeq
<1>2. pass \in Passes /\ pass.ops = Append(y.passes[n].ops, Len(table) + 1)
      /\ pass.replayed = y.passes[n].replayed
      /\ pass.firstDepth = (IF y.passes[n].firstDepth = 0 THEN y.depth + 1 ELSE y.passes[n].firstDepth)
      /\ pass.load = y.passes[n].load /\ pass.copy = y.passes[n].copy
  <2>1. y.passes[n] \in Passes /\ y.passes[n].ops \in Seq(Nat) /\ y.depth + 1 \in Nat
        /\ Len(table) + 1 \in Nat
    BY <1>1, LayerTypes
  <2>2. Append(y.passes[n].ops, Len(table) + 1) \in Seq(Nat)
    BY <2>1
  <2>. QED
    BY <2>1, <2>2 DEF Passes
<1>3. DOMAIN y = {"origin", "bounds", "depth", "history", "clips", "passes", "pending"}
  BY DEF Layers
<1>4. Appended([layer |-> y, draws |-> table], d) = [layer |-> z, draws |-> other]
  BY <1>1, <1>3 DEF Appended
<1>. HIDE DEF pass
<1>5. /\ [y.passes EXCEPT ![n] = pass] \in Seq(Passes)
      /\ Len([y.passes EXCEPT ![n] = pass]) = n
      /\ \A k \in 1 .. n : k < n => [y.passes EXCEPT ![n] = pass][k] = y.passes[k]
      /\ [y.passes EXCEPT ![n] = pass][n] = pass
  BY <1>1, <1>2, ExceptSeq
<1>6. z \in Layers /\ z.passes = [y.passes EXCEPT ![n] = pass] /\ z.depth = y.depth + 1
      /\ z.origin = y.origin /\ z.bounds = y.bounds
      /\ z.history = y.history /\ z.clips = y.clips /\ z.pending = y.pending
  <2>1. y.depth + 1 \in Nat
    BY LayerTypes
  <2>. QED
    BY <1>5, <2>1 DEF Layers
<1>. HIDE DEF z, other
<1>7. Appended([layer |-> y, draws |-> table], d).layer = z
      /\ Appended([layer |-> y, draws |-> table], d).draws = other
  BY <1>4
<1>. QED
  BY <1>1, <1>2, <1>5, <1>6, <1>7 DEF other

\* A draw as AddDraw prepares it.
CanAdd(y, table, l, box, d) ==
    /\ d \in Draws /\ d.type \in {"shape", "path", "layer"}
    /\ d.scissor = CurrentClipBounds(y) /\ IsLast(d.clip, Stack(y))
    /\ AreaOf(box, d) \cap d.scissor \subseteq d.bounds /\ IsFiniteSet(d.bounds)
    /\ d.type = "layer" => d.child \in DOMAIN box /\ d.child > l
    /\ d.type = "shape" => \E item \in [id : Nat, pixels : SUBSET Int] : d.items = <<item>>

\* What the draw is to add to the layer.
Inked(y, table, box, d, R, p) ==
    IF InsideAll(y, table, p) /\ p \in AreaOf(box, d) THEN Ink(d, p, R) ELSE <<>>

\* A layer and the draws of the frame once a draw was added to the layer.
Adds(y, table, z, other, l, box, loads, d, R) ==
    /\ z \in Layers /\ other \in Seq(Draws) /\ DOMAIN table \subseteq DOMAIN other
    /\ LayerInv(z, other, l, box, loads)
    /\ z.origin = y.origin /\ z.bounds = y.bounds /\ z.clips = y.clips /\ z.pending = <<>>
    /\ Uses(z) \subseteq Uses(y) \cup (DOMAIN other \ DOMAIN table)
    /\ \A c \in DOMAIN table :
          /\ c \notin Uses(y) => other[c] = table[c]
          /\ other[c].type = table[c].type /\ other[c].child = table[c].child
          /\ other[c].clip = table[c].clip
          /\ table[c].type = "clip" => other[c] = table[c]
    /\ \A c \in DOMAIN other \ DOMAIN table :
          /\ other[c].clip \in {0, d.clip}
          /\ other[c].type # "load" =>
                other[c].type = d.type /\ other[c].child = d.child /\ c = Len(other)
    /\ \A p : LayerShows(z, other, box, R, p)
                = LayerShows(y, table, box, R, p) \o Inked(y, table, box, d, R, p)

\* The draw is the last one of the layer.
Ends(z, other, d) ==
    /\ Last(z.passes).ops # <<>> /\ Last(Last(z.passes).ops) \in DOMAIN other
    /\ Alike(other[Last(Last(z.passes).ops)], d)

\* It adds what it is to add: the clips ahead of it are those of the stack.
LEMMA AppendAdds ==
  ASSUME NEW y \in Layers, NEW table \in Seq(Draws), NEW l, NEW box, NEW loads,
         LayerInv(y, table, l, box, loads), y.pending = <<>>,
         NEW d, CanAdd(y, table, l, box, d),
         d.dst => /\ Len(y.passes) > 1 /\ y.passes[Len(y.passes)].ops = <<>>
                  /\ d.bounds = y.passes[Len(y.passes) - 1].copy,
         NEW R, Colours(box, R)
  PROVE  LET r == Appended([layer |-> y, draws |-> table], d)
         IN  /\ Adds(y, table, r.layer, r.draws, l, box, loads, d, R)
             /\ Ends(r.layer, r.draws, d)
             /\ DOMAIN r.draws = DOMAIN table \cup {Len(table) + 1}
<1>1. PICK id \in Nat : id = Len(table) + 1 /\ id > 0 /\ \A c \in DOMAIN table : c < id /\ c \in Nat
  <2>1. Len(table) + 1 \in Nat /\ Len(table) + 1 > 0 /\ \A c \in DOMAIN table : c < Len(table) + 1 /\ c \in Nat
    OBVIOUS
  <2>. QED
    BY <2>1
<1>. DEFINE r == Appended([layer |-> y, draws |-> table], d)
            z == r.layer
            e == [d EXCEPT !.depth = y.depth + 1]
            other == Append(table, e)
            K == Len(y.passes)
            n == Len(y.passes[K].ops)
<1>0. /\ NamesAreRight(y, table, l, box) /\ PlacesAreRight(y, table) /\ ClipsAreNested(y, table)
      /\ DepthsAreRight(y, table) /\ DrawsAreBounded(y, table, box)
      /\ LoadsAreRight(y, table, loads) /\ ClipsAreDrawn(y, table)
  BY DEF LayerInv
<1>2. d \in Draws /\ d.type \in {"shape", "path", "layer"}
      /\ d.scissor = CurrentClipBounds(y) /\ IsLast(d.clip, Stack(y))
      /\ AreaOf(box, d) \cap d.scissor \subseteq d.bounds /\ IsFiniteSet(d.bounds)
      /\ (d.type = "layer" => d.child \in DOMAIN box /\ d.child > l)
  BY DEF CanAdd
<1>3. /\ z \in Layers
      /\ z.origin = y.origin /\ z.bounds = y.bounds /\ z.depth = y.depth + 1
      /\ z.history = y.history /\ z.clips = y.clips /\ z.pending = <<>>
      /\ K \in Nat /\ K > 0 /\ K \in 1 .. K /\ Len(z.passes) = K
      /\ \A k \in 1 .. K : k < K => z.passes[k] = y.passes[k]
      /\ z.passes[K].ops = Append(y.passes[K].ops, id)
      /\ z.passes[K].replayed = y.passes[K].replayed
      /\ z.passes[K].firstDepth = IF y.passes[K].firstDepth = 0 THEN y.depth + 1
                                  ELSE y.passes[K].firstDepth
      /\ z.passes[K].load = y.passes[K].load
      /\ z.passes[K].copy = y.passes[K].copy
      /\ r.draws = other
  BY <1>0, <1>1, <1>2, AppendedIs DEF NamesAreRight
<1>4. y.depth \in Nat /\ y.depth + 1 \in Nat
  BY LayerTypes
<1>5. e \in Draws /\ Alike(e, d) /\ e.depth = y.depth + 1
  BY <1>2, <1>4 DEF Draws, Alike
<1>. HIDE DEF r, e
<1>6. /\ other \in Seq(Draws) /\ other[id] = e /\ id \in DOMAIN other
      /\ \A c \in DOMAIN table : c \in DOMAIN other /\ other[c] = table[c] /\ c # id
  BY <1>1, <1>5, AppendProperties
<1>. HIDE DEF z, other
<1>7. /\ DOMAIN y.passes = 1 .. K /\ DOMAIN z.passes = 1 .. K /\ z.passes # <<>>
      /\ y.passes[K].ops \in Seq(Nat)
      /\ n \in Nat /\ DOMAIN y.passes[K].ops = 1 .. n
      /\ DOMAIN z.passes[K].ops = 1 .. n + 1 /\ Len(z.passes[K].ops) = n + 1
      /\ z.passes[K].ops[n + 1] = id
      /\ \A i \in 1 .. n : z.passes[K].ops[i] = y.passes[K].ops[i]
      /\ \A k \in 1 .. K : k < K \/ k = K
      /\ \A i \in 1 .. n + 1 : i \in 1 .. n \/ i = n + 1
      /\ \A i \in 1 .. n : i \in 1 .. n + 1
      /\ n + 1 \in 1 .. n + 1
  <2>5. DOMAIN y.passes = 1 .. K /\ DOMAIN z.passes = 1 .. K
    BY <1>3, LayerTypes
  <2>6. y.passes[K].ops \in Seq(Nat)
    BY <2>5, <1>3, LayerTypes
  <2>1. /\ DOMAIN y.passes = 1 .. K /\ DOMAIN z.passes = 1 .. K
        /\ y.passes[K].ops \in Seq(Nat)
        /\ n \in Nat /\ DOMAIN y.passes[K].ops = 1 .. n
    BY <2>5, <2>6
  <2>2. z.passes # <<>> /\ \A k \in 1 .. K : k < K \/ k = K
    BY <1>3, <2>1
  <2>3. /\ DOMAIN z.passes[K].ops = 1 .. n + 1 /\ Len(z.passes[K].ops) = n + 1
        /\ z.passes[K].ops[n + 1] = id
        /\ \A i \in 1 .. n : z.passes[K].ops[i] = y.passes[K].ops[i]
    BY <1>3, <2>1, AppendProperties
  <2>4. /\ \A i \in 1 .. n + 1 : i \in 1 .. n \/ i = n + 1
        /\ \A i \in 1 .. n : i \in 1 .. n + 1
        /\ n + 1 \in 1 .. n + 1
    BY <2>1
  <2>. QED
    BY <2>1, <2>2, <2>3, <2>4
<1>. HIDE DEF n
<1>8. /\ \A k \in 1 .. K : /\ z.passes[k].replayed = y.passes[k].replayed
                           /\ z.passes[k].load = y.passes[k].load
                           /\ z.passes[k].copy = y.passes[k].copy
      /\ \A k \in 1 .. K : k # K => z.passes[k].ops = y.passes[k].ops
                                    /\ z.passes[k].firstDepth = y.passes[k].firstDepth
  BY <1>3, <1>7
\* Every draw of the layer was at its place before, or is the new one.
<1>9. \A k \in DOMAIN z.passes : \A i \in DOMAIN z.passes[k].ops :
         \/ /\ i \in DOMAIN y.passes[k].ops /\ z.passes[k].ops[i] = y.passes[k].ops[i]
            /\ y.passes[k].ops[i] \in DOMAIN table
            /\ other[y.passes[k].ops[i]] = table[y.passes[k].ops[i]]
            /\ z.passes[k].ops[i] # id
         \/ k = K /\ i = n + 1 /\ z.passes[k].ops[i] = id
  <2>. SUFFICES ASSUME NEW k \in 1 .. K, NEW i \in DOMAIN z.passes[k].ops,
                       ~ (k = K /\ i = n + 1)
                PROVE  /\ i \in DOMAIN y.passes[k].ops /\ z.passes[k].ops[i] = y.passes[k].ops[i]
                       /\ y.passes[k].ops[i] \in DOMAIN table
                       /\ other[y.passes[k].ops[i]] = table[y.passes[k].ops[i]]
                       /\ z.passes[k].ops[i] # id
    BY <1>7
  <2>1. i \in DOMAIN y.passes[k].ops /\ z.passes[k].ops[i] = y.passes[k].ops[i]
    <3>1. CASE k # K
      BY <3>1, <1>8
    <3>2. CASE k = K
      BY <3>2, <1>7
    <3>. QED
      BY <3>1, <3>2
  <2>2. y.passes[k].ops[i] \in DOMAIN table
    BY <2>1, <1>0, <1>7 DEF NamesAreRight
  <2>. QED
    BY <2>1, <2>2, <1>6
<1>10. \A k \in 1 .. K : \A i \in 1 .. Len(y.passes[k].ops) + 1 : Before(z, k, i) = Before(y, k, i)
  <2>. SUFFICES ASSUME NEW k \in 1 .. K, NEW i \in 1 .. Len(y.passes[k].ops) + 1
                PROVE  Before(z, k, i) = Before(y, k, i)
    OBVIOUS
  <2>1. y.passes[k].ops \in Seq(Nat) /\ DOMAIN y.passes[k].ops = 1 .. Len(y.passes[k].ops)
    BY <1>7, LayerTypes
  <2>2. \A j \in 1 .. i - 1 : j \in DOMAIN y.passes[k].ops
    BY <2>1
  <2>5. \A j \in DOMAIN y.passes[k].ops : z.passes[k].ops[j] = y.passes[k].ops[j]
    BY <1>7, <1>8
  <2>3. {z.passes[k].ops[j] : j \in 1 .. i - 1} = {y.passes[k].ops[j] : j \in 1 .. i - 1}
    BY <2>2, <2>5
  <2>4. z.history = y.history /\ z.passes[k].replayed = y.passes[k].replayed
    BY <1>3, <1>8
  <2>. QED
    BY <2>3, <2>4 DEF Before
<1>11. Stack(z) = Stack(y)
  BY <1>3 DEF Stack, StackTo
<1>12. /\ \A c \in ToSet(y.history) : c \in DOMAIN table /\ table[c].type = "clip" /\ other[c] = table[c]
       /\ Stack(y) \subseteq ToSet(y.history) /\ id \notin ToSet(y.history)
  <2>1. \A c \in ToSet(y.history) : c \in DOMAIN table /\ table[c].type = "clip"
    BY <1>0 DEF NamesAreRight, ToSet
  <2>. QED
    BY <2>1, <1>0, <1>6 DEF NamesAreRight
<1>13. \A k \in 1 .. K : \A i \in 1 .. Len(y.passes[k].ops) + 1 : \A c \in Before(y, k, i) :
          c \in DOMAIN table /\ other[c] = table[c] /\ (table[c].type = "clip" => c \in ToSet(y.history))
  BY <1>0, <1>6, <1>7, BeforeIs
<1>14. \A c \in DOMAIN table : \A depth : Blocks(z, other, c, depth) <=> Blocks(y, table, c, depth)
  BY <1>6, <1>11 DEF Blocks
<1>15. e.type # "clip" /\ e.type # "load" /\ e.type = d.type /\ e.child = d.child /\ e.scissor = d.scissor
       /\ e.bounds = d.bounds /\ e.dst = d.dst /\ e.clip = d.clip /\ e.items = d.items
       /\ AreaOf(box, e) = AreaOf(box, d)
  BY <1>2, <1>5 DEF Alike, AreaOf
<1>16. NamesAreRight(z, other, l, box)
  <2>1. ASSUME NEW k \in DOMAIN z.passes, NEW i \in DOMAIN z.passes[k].ops
        PROVE  LET o == z.passes[k].ops[i]
               IN  /\ o \in DOMAIN other
                   /\ other[o].type # "load"
                   /\ other[o].type = "clip" => o \in ToSet(z.history)
                   /\ other[o].type = "layer" => other[o].child \in DOMAIN box /\ other[o].child > l
    <3>. DEFINE o == y.passes[k].ops[i]
    <3>1. CASE /\ i \in DOMAIN y.passes[k].ops /\ z.passes[k].ops[i] = o
               /\ o \in DOMAIN table /\ other[o] = table[o]
      <4>1. /\ table[o].type # "load"
            /\ table[o].type = "clip" => o \in ToSet(y.history)
            /\ table[o].type = "layer" => table[o].child \in DOMAIN box /\ table[o].child > l
        BY <3>1, <1>0, <1>7 DEF NamesAreRight
      <4>. HIDE DEF o
      <4>. QED
        BY <4>1, <3>1, <1>3, <1>6
    <3>2. CASE z.passes[k].ops[i] = id
      BY <3>2, <1>2, <1>6, <1>15
    <3>. QED
      BY <3>1, <3>2, <1>9
  <2>2. \A k \in DOMAIN z.passes : z.passes[k].replayed <= Len(z.history)
    BY <1>0, <1>3, <1>7, <1>8 DEF NamesAreRight
  <2>3. ToSet(z.pending) = {}
    BY <1>3 DEF ToSet
  <2>4. \A i \in DOMAIN z.history : z.history[i] \in DOMAIN other /\ other[z.history[i]].type = "clip"
    BY <1>3, <1>6, <1>12 DEF ToSet
  <2>5. z.clips # <<>> /\ Stack(z) \subseteq ToSet(z.history)
    BY <1>0, <1>3, <1>11, <1>12 DEF NamesAreRight
  <2>. QED
    BY <1>7, <2>1, <2>2, <2>3, <2>4, <2>5 DEF NamesAreRight
<1>17. PlacesAreRight(z, other)
  <2>. SUFFICES ASSUME NEW j \in DOMAIN z.passes, NEW k \in DOMAIN z.passes,
                       NEW a \in DOMAIN z.passes[j].ops, NEW b \in DOMAIN z.passes[k].ops,
                       z.passes[j].ops[a] = z.passes[k].ops[b],
                       other[z.passes[j].ops[a]].type # "clip"
                PROVE  j = k /\ a = b
    BY DEF PlacesAreRight
  <2>1. CASE z.passes[j].ops[a] = id
    BY <2>1, <1>9
  <2>2. CASE z.passes[j].ops[a] # id
    <3>1. /\ a \in DOMAIN y.passes[j].ops /\ z.passes[j].ops[a] = y.passes[j].ops[a]
          /\ b \in DOMAIN y.passes[k].ops /\ z.passes[k].ops[b] = y.passes[k].ops[b]
          /\ other[y.passes[j].ops[a]] = table[y.passes[j].ops[a]]
      BY <2>2, <1>9
    <3>2. j \in DOMAIN y.passes /\ k \in DOMAIN y.passes
      BY <1>7
    <3>3. y.passes[j].ops[a] = y.passes[k].ops[b] /\ table[y.passes[j].ops[a]].type # "clip"
      BY <3>1
    <3>. QED
      BY <3>1, <3>2, <3>3, <1>0 DEF PlacesAreRight
  <2>. QED
    BY <2>1, <2>2
<1>18. ClipsAreNested(z, other)
  <2>1. \A j \in DOMAIN y.clips : \A c \in ToSet(y.clips[j].draws) : other[c] = table[c]
    <3>1. \A j \in 1 .. Len(y.clips) : ToSet(y.clips[j].draws) \subseteq Stack(y)
      BY DEF Stack, StackTo
    <3>2. DOMAIN y.clips = 1 .. Len(y.clips)
      BY LayerTypes
    <3>. QED
      BY <3>1, <3>2, <1>12
  <2>. QED
    BY <2>1, <1>0, <1>3 DEF ClipsAreNested
<1>19. DepthsAreRight(z, other)
  <2>1. ASSUME NEW k \in DOMAIN z.passes, NEW i \in DOMAIN z.passes[k].ops,
               other[z.passes[k].ops[i]].type # "clip"
        PROVE  /\ other[z.passes[k].ops[i]].depth \in 1 .. z.depth
               /\ z.passes[k].firstDepth \in 1 .. other[z.passes[k].ops[i]].depth
    <3>. DEFINE o == y.passes[k].ops[i]
    <3>1. CASE /\ i \in DOMAIN y.passes[k].ops /\ z.passes[k].ops[i] = o
               /\ other[o] = table[o]
      <4>1. table[o].depth \in 1 .. y.depth /\ y.passes[k].firstDepth \in 1 .. table[o].depth
        BY <3>1, <2>1, <1>0, <1>7 DEF DepthsAreRight
      <4>2. z.passes[k].firstDepth = y.passes[k].firstDepth
        BY <4>1, <1>3, <1>7, <1>8
      <4>. HIDE DEF o
      <4>. QED
        BY <4>1, <4>2, <3>1, <1>3, <1>4
    <3>2. CASE k = K /\ z.passes[k].ops[i] = id
      <4>1. other[z.passes[k].ops[i]].depth = y.depth + 1
        BY <3>2, <1>5, <1>6
      <4>2. y.passes[K].firstDepth \in Nat /\ y.passes[K].firstDepth <= y.depth
        BY <1>0, <1>3, <1>7, LayerTypes DEF DepthsAreRight
      <4>. QED
        BY <4>1, <4>2, <3>2, <1>3, <1>4
    <3>. QED
      BY <3>1, <3>2, <1>9
  <2>2. ASSUME NEW k \in DOMAIN z.passes PROVE z.passes[k].firstDepth <= z.depth
    <3>1. y.passes[k].firstDepth \in Nat /\ y.passes[k].firstDepth <= y.depth
      BY <1>0, <1>7, LayerTypes DEF DepthsAreRight
    <3>2. z.passes[k].firstDepth = y.passes[k].firstDepth \/ z.passes[k].firstDepth = y.depth + 1
      BY <1>3, <1>7, <1>8
    <3>. QED
      BY <3>1, <3>2, <1>3, <1>4
  <2>3. ASSUME NEW c \in ToSet(z.history) \ Stack(z) PROVE other[c].depth <= z.depth
    <3>1. other[c] = table[c] /\ c \in DOMAIN table /\ table[c].depth <= y.depth
      BY <1>0, <1>3, <1>11, <1>12 DEF DepthsAreRight
    <3>2. table[c].depth \in Nat
      BY <3>1, DrawTypes
    <3>. QED
      BY <3>1, <3>2, <1>3, <1>4
  <2>. QED
    BY <2>1, <2>2, <2>3 DEF DepthsAreRight
<1>20. DrawsAreBounded(z, other, box)
  <2>1. ASSUME NEW k \in DOMAIN z.passes, NEW i \in DOMAIN z.passes[k].ops,
               other[z.passes[k].ops[i]].type # "clip"
        PROVE  LET c == other[z.passes[k].ops[i]]
               IN  /\ AreaOf(box, c) \cap c.scissor \subseteq c.bounds
                   /\ IsFiniteSet(c.bounds)
                   /\ c.dst => k > 1 /\ i = 1 /\ c.bounds = z.passes[k - 1].copy
    <3>. DEFINE o == y.passes[k].ops[i]  c == table[o]
    <3>0. k \in 1 .. K /\ (k > 1 => z.passes[k - 1].copy = y.passes[k - 1].copy)
      <4>1. k \in 1 .. K /\ (k > 1 => k - 1 \in 1 .. K)
        BY <1>3, <1>7
      <4>. QED
        BY <4>1, <1>8
    <3>1. CASE /\ i \in DOMAIN y.passes[k].ops /\ z.passes[k].ops[i] = o
               /\ other[o] = table[o]
      <4>1. /\ AreaOf(box, c) \cap c.scissor \subseteq c.bounds
            /\ IsFiniteSet(c.bounds)
            /\ c.dst => k > 1 /\ i = 1 /\ c.bounds = y.passes[k - 1].copy
        <5>1. k \in DOMAIN y.passes /\ i \in DOMAIN y.passes[k].ops /\ c.type # "clip"
          BY <3>0, <3>1, <2>1, <1>7
        <5>. QED
          BY <5>1, <1>0 DEF DrawsAreBounded
      <4>. HIDE DEF c
      <4>2. /\ AreaOf(box, c) \cap c.scissor \subseteq c.bounds
            /\ IsFiniteSet(c.bounds)
            /\ c.dst => k > 1 /\ i = 1 /\ c.bounds = z.passes[k - 1].copy
        BY <3>0, <4>1
      <4>. QED
        BY <3>1, <4>2 DEF c
    <3>2. CASE k = K /\ i = n + 1 /\ z.passes[k].ops[i] = id
      <4>1. other[z.passes[k].ops[i]] = e
        BY <3>2, <1>6
      <4>2. d.dst => n + 1 = 1 /\ K > 1 /\ d.bounds = y.passes[K - 1].copy
        <5>1. d.dst => n = 0
          BY <1>7 DEF n
        <5>. QED
          BY <5>1, <1>7
      <4>3. /\ AreaOf(box, e) \cap e.scissor \subseteq e.bounds /\ IsFiniteSet(e.bounds)
            /\ e.dst => K > 1 /\ n + 1 = 1 /\ e.bounds = y.passes[K - 1].copy
        BY <4>2, <1>2, <1>15
      <4>. QED
        BY <4>1, <4>3, <3>0, <3>2
    <3>. QED
      BY <3>1, <3>2, <1>9
  <2>2. IsFiniteSet(z.bounds)
    BY <1>0, <1>3 DEF DrawsAreBounded
  <2>. QED
    BY <2>1, <2>2 DEF DrawsAreBounded
<1>21. LoadsAreRight(z, other, loads)
  <2>1. 1 \in 1 .. K
    BY <1>3
  <2>2. \A k \in 1 .. K : z.passes[k].load = y.passes[k].load
    BY <1>8
  <2>3. z.passes[1].load = 0
    BY <2>1, <2>2, <1>0 DEF LoadsAreRight
  <2>4. ASSUME NEW k \in DOMAIN z.passes, k > 1
        PROVE  LET load == z.passes[k].load
               IN  IF ~ loads THEN load = 0
                   ELSE /\ load \in DOMAIN other
                        /\ other[load].type = "load" /\ other[load].scissor = z.bounds
                        /\ other[load].depth > 0
    <3>. DEFINE load == y.passes[k].load
    <3>1. z.passes[k].load = load
      BY <2>2, <1>7
    <3>2. IF ~ loads THEN load = 0
          ELSE /\ load \in DOMAIN table
               /\ table[load].type = "load" /\ table[load].scissor = y.bounds
               /\ table[load].depth > 0
      BY <2>4, <1>0, <1>7 DEF LoadsAreRight
    <3>. HIDE DEF load
    <3>. QED
      BY <3>1, <3>2, <1>3, <1>6
  <2>. QED
    BY <2>3, <2>4 DEF LoadsAreRight
<1>22. Stack(y) \subseteq Before(y, K, n + 1)
  <2>1. ToSet(y.pending) = {}
    BY DEF ToSet
  <2>. QED
    BY <2>1, <1>0 DEF ClipsAreDrawn, n
<1>23. Before(z, K, n + 1) = Before(y, K, n + 1) /\ Before(y, K, n + 1) \subseteq Before(z, K, n + 2)
  <2>1. n + 1 \in 1 .. Len(y.passes[K].ops) + 1
    BY <1>7 DEF n
  <2>2. Before(z, K, n + 1) = Before(y, K, n + 1)
    BY <2>1, <1>3, <1>10
  <2>3. \A j \in 1 .. (n + 1) - 1 : j \in 1 .. (n + 2) - 1
    BY <1>7
  <2>4. Before(z, K, n + 1) \subseteq Before(z, K, n + 2)
    BY <2>3 DEF Before
  <2>. QED
    BY <2>2, <2>4
<1>24. ClipsAreDrawn(z, other)
  <2>2. Stack(z) \subseteq ToSet(z.pending) \cup Before(z, K, Len(z.passes[K].ops) + 1)
    <3>1. Len(z.passes[K].ops) + 1 = n + 2
      BY <1>7
    <3>. QED
      BY <3>1, <1>11, <1>22, <1>23
  <2>3. ASSUME NEW i \in DOMAIN z.passes[K].ops, other[z.passes[K].ops[i]].type # "clip",
               other[z.passes[K].ops[i]].clip = 0 \/ other[z.passes[K].ops[i]].clip \in Stack(z)
        PROVE  LET a == other[z.passes[K].ops[i]]
               IN  /\ \A c \in Stack(z) : c <= a.clip => c \in Before(z, K, i)
                   /\ \A c \in Before(z, K, i) : other[c].type = "clip" =>
                        (Blocks(z, other, c, a.depth) <=> c \in Stack(z) /\ c <= a.clip)
    <3>. DEFINE o == y.passes[K].ops[i]  a == table[o]
    <3>1. CASE /\ i \in DOMAIN y.passes[K].ops /\ z.passes[K].ops[i] = o
               /\ other[o] = table[o]
      <4>1. /\ \A c \in Stack(y) : c <= a.clip => c \in Before(y, K, i)
            /\ \A c \in Before(y, K, i) : table[c].type = "clip" =>
                  (Blocks(y, table, c, a.depth) <=> c \in Stack(y) /\ c <= a.clip)
        BY <3>1, <2>3, <1>0, <1>11 DEF ClipsAreDrawn
      <4>2. i \in 1 .. Len(y.passes[K].ops) + 1
        BY <3>1, <1>7 DEF n
      <4>3. Before(z, K, i) = Before(y, K, i)
            /\ \A c \in Before(y, K, i) : c \in DOMAIN table /\ other[c] = table[c]
        BY <4>2, <1>3, <1>10, <1>13
      <4>. HIDE DEF a
      <4>4. /\ \A c \in Stack(z) : c <= a.clip => c \in Before(z, K, i)
            /\ \A c \in Before(z, K, i) : other[c].type = "clip" =>
                  (Blocks(z, other, c, a.depth) <=> c \in Stack(z) /\ c <= a.clip)
        BY <4>1, <4>3, <1>11, <1>14
      <4>. QED
        BY <3>1, <4>4 DEF a
    <3>2. CASE i = n + 1 /\ z.passes[K].ops[i] = id
      <4>1. other[z.passes[K].ops[i]] = e
        BY <3>2, <1>6
      <4>2. \A c \in Stack(z) : c <= e.clip /\ c \in Before(z, K, i)
        BY <3>2, <1>2, <1>11, <1>15, <1>22, <1>23 DEF IsLast
      <4>3. ASSUME NEW c \in Before(z, K, i), other[c].type = "clip", c \notin Stack(z)
            PROVE  ~ Blocks(z, other, c, e.depth)
        <5>1. n + 1 \in 1 .. Len(y.passes[K].ops) + 1
          BY <1>7 DEF n
        <5>2. c \in DOMAIN table /\ other[c] = table[c] /\ c \in ToSet(y.history)
          BY <5>1, <4>3, <3>2, <1>3, <1>13, <1>23
        <5>3. table[c].depth <= y.depth /\ table[c].depth \in Nat
          BY <5>2, <4>3, <1>0, <1>11, DrawTypes DEF DepthsAreRight
        <5>. QED
          BY <5>2, <5>3, <4>3, <1>4, <1>5 DEF Blocks
      <4>4. \A c \in Before(z, K, i) : other[c].type = "clip" =>
                (Blocks(z, other, c, e.depth) <=> c \in Stack(z) /\ c <= e.clip)
        BY <4>2, <4>3 DEF Blocks
      <4>. QED
        BY <4>1, <4>2, <4>4
    <3>. QED
      BY <3>1, <3>2, <1>3, <1>7, <1>9
  <2>. QED
    BY <2>2, <2>3, <1>3 DEF ClipsAreDrawn
<1>25. ASSUME NEW p
       PROVE  LayerShows(z, other, box, R, p) = LayerShows(y, table, box, R, p) \o Inked(y, table, box, d, R, p)
  <2>. DEFINE ink == Inked(y, table, box, d, R, p)
              f == [i \in DOMAIN y.passes[K].ops |-> Added(y, table, box, R, K, i, p)]
              g == [i \in DOMAIN z.passes[K].ops |-> Added(z, other, box, R, K, i, p)]
  <2>1. ASSUME NEW k \in 1 .. K, NEW i \in DOMAIN y.passes[k].ops
        PROVE  Added(z, other, box, R, k, i, p) = Added(y, table, box, R, k, i, p)
    <3>1. z.passes[k].ops[i] = y.passes[k].ops[i] /\ other[y.passes[k].ops[i]] = table[y.passes[k].ops[i]]
      <4>1. i \in DOMAIN z.passes[k].ops /\ ~ (k = K /\ i = n + 1)
        BY <1>7, <1>8
      <4>. QED
        BY <4>1, <1>7, <1>9
    <3>2. i \in 1 .. Len(y.passes[k].ops) + 1
      <4>1. y.passes[k].ops \in Seq(Nat)
        BY <1>7, LayerTypes
      <4>. QED
        BY <4>1
    <3>3. Before(z, k, i) = Before(y, k, i)
          /\ \A c \in Before(y, k, i) : c \in DOMAIN table /\ other[c] = table[c]
      BY <3>2, <1>10, <1>13
    <3>4. \A c \in Before(y, k, i) : \A depth : Blocks(z, other, c, depth) <=> Blocks(y, table, c, depth)
      BY <3>3, <1>14
    <3>. QED
      BY <3>1, <3>3, <3>4, AddedSame DEF Alike
  <2>2. \A k \in 1 .. K : k # K => PassShows(z, other, box, R, k, p) = PassShows(y, table, box, R, k, p)
    BY <2>1, <1>8, PassSame
  <2>3. ink \in Seq(Nat)
    <3>1. p \in AreaOf(box, d) => Ink(d, p, R) \in Seq(Nat)
      BY <1>2, InkIs
    <3>2. <<>> \in Seq(Nat)
      OBVIOUS
    <3>. QED
      BY <3>1, <3>2 DEF Inked
  <2>4. Added(z, other, box, R, K, n + 1, p) = ink
    <3>1. z.passes[K].ops[n + 1] = id /\ other[id] = e /\ n + 1 \in DOMAIN z.passes[K].ops
      BY <1>6, <1>7
    <3>2. Reaches(z, other, K, n + 1, p) <=> InsideAll(z, other, p)
      <4>1. e.type # "clip" /\ IsLast(e.clip, Stack(z)) /\ e.scissor = CurrentClipBounds(z)
        BY <1>2, <1>3, <1>11, <1>15 DEF CurrentClipBounds
      <4>. QED
        BY <3>1, <4>1, <1>3, <1>16, <1>18, <1>24, ReachesInside
    <3>3. InsideAll(z, other, p) <=> InsideAll(y, table, p)
      <4>1. StackTo(z, Len(z.clips)) = Stack(y) /\ StackTo(y, Len(y.clips)) = Stack(y)
        BY <1>11 DEF Stack
      <4>. QED
        BY <4>1, <1>3, <1>12 DEF InsideAll, Inside
    <3>4. Ink(e, p, R) = Ink(d, p, R)
      BY <1>15 DEF Ink
    <3>. QED
      BY <3>1, <3>2, <3>3, <3>4, <1>15 DEF Added, Inked
  <2>5. PassShows(z, other, box, R, K, p) = PassShows(y, table, box, R, K, p) \o ink
    <3>1. /\ PassShows(z, other, box, R, K, p) = Joined(g, n + 1)
          /\ PassShows(y, table, box, R, K, p) = Joined(f, n)
      BY <1>7 DEF PassShows, n
    <3>2. \A i \in 1 .. n : f[i] \in Seq(Nat) /\ g[i] = f[i]
      BY <2>1, <1>0, <1>3, <1>7, ShowsAreColours
    <3>3. g[n + 1] = ink
      BY <2>4, <1>7
    <3>. HIDE DEF f, g, ink
    <3>4. PICK m : m = n + 1
      OBVIOUS
    <3>5. OneMore(Nat, f, g, n, m, ink)
      BY <2>3, <3>2, <3>3, <3>4, <1>7 DEF OneMore
    <3>6. Joined(g, m) = Joined(f, n) \o ink
      BY <3>5, JoinedNext
    <3>. QED
      BY <3>1, <3>4, <3>6
  <2>. HIDE DEF ink
  <2>6. LastPassGrows(z, other, y, table, box, R, p, ink)
    BY <2>2, <2>3, <2>5, <1>3, <1>7 DEF LastPassGrows
  <2>7. NamesAreRight(y, table, l, box)
    BY <1>0
  <2>8. LayerShows(z, other, box, R, p) = LayerShows(y, table, box, R, p) \o ink
    BY <2>6, <2>7, ShowsMore
  <2>. QED
    BY <2>8 DEF ink
<1>26. Uses(z) \subseteq Uses(y) \cup {id}
  <2>1. ToSet(z.passes[K].ops) = ToSet(y.passes[K].ops) \cup {id}
    BY <1>3, <1>7, ToSetAppend
  <2>2. \A k \in DOMAIN z.passes : ToSet(z.passes[k].ops) \cup {z.passes[k].load} \subseteq Uses(y) \cup {id}
    <3>1. \A k \in 1 .. K : ToSet(y.passes[k].ops) \cup {y.passes[k].load} \subseteq Uses(y)
      BY <1>7 DEF Uses
    <3>. QED
      BY <3>1, <2>1, <1>3, <1>7, <1>8
  <2>3. ToSet(z.history) \subseteq Uses(y)
    BY <1>3 DEF Uses
  <2>. QED
    BY <2>2, <2>3 DEF Uses
<1>27. Last(z.passes).ops # <<>> /\ Last(Last(z.passes).ops) = id
  <2>1. Last(z.passes) = z.passes[K]
    BY <1>3 DEF Last
  <2>2. z.passes[K].ops # <<>>
    BY <1>7
  <2>3. Last(z.passes[K].ops) = id
    BY <1>7 DEF Last
  <2>. QED
    BY <2>1, <2>2, <2>3
<1>28. LayerInv(z, other, l, box, loads)
  BY <1>16, <1>17, <1>18, <1>19, <1>20, <1>21, <1>24 DEF LayerInv
<1>29. /\ Len(other) = id /\ DOMAIN other = DOMAIN table \cup {id}
       /\ id \notin DOMAIN table
  <2>1. Len(other) = Len(table) + 1
    BY <1>5, AppendProperties DEF other
  <2>2. DOMAIN other = 1 .. Len(table) + 1 /\ DOMAIN table = 1 .. Len(table)
    BY <2>1, <1>6
  <2>3. 1 .. Len(table) + 1 = 1 .. Len(table) \cup {Len(table) + 1} /\ Len(table) + 1 \notin 1 .. Len(table)
    OBVIOUS
  <2>. QED
    BY <2>1, <2>2, <2>3, <1>1
<1>30. Adds(y, table, z, other, l, box, loads, d, R)
  <2>1. \A c \in DOMAIN other \ DOMAIN table : c = Len(other) /\ other[c] = e
    BY <1>6, <1>29
  <2>2. \A c \in DOMAIN other \ DOMAIN table :
          /\ other[c].clip \in {0, d.clip}
          /\ other[c].type # "load" =>
                other[c].type = d.type /\ other[c].child = d.child /\ c = Len(other)
    BY <2>1, <1>15
  <2>3. Uses(z) \subseteq Uses(y) \cup (DOMAIN other \ DOMAIN table)
    BY <1>26, <1>29
  <2>. QED
    BY <2>2, <2>3, <1>3, <1>6, <1>25, <1>28, <1>29 DEF Adds
<1>31. Ends(z, other, d)
  BY <1>5, <1>6, <1>27 DEF Ends
<1>. QED
  BY <1>1, <1>3, <1>29, <1>30, <1>31 DEF z, r

\* A pass is closed, with a copy of the bounds of the draw, and another one opened.
LEMMA SplitIs ==
  ASSUME NEW y \in Layers, y.passes # <<>>, NEW table \in Seq(Draws), NEW d \in Draws, msaa \in BOOLEAN
  PROVE  LET r == Split([layer |-> y, draws |-> table], d)
             z == r.layer
             K == Len(y.passes)
             load == LoadDraw(y)
         IN  /\ r = [layer |-> z, draws |-> r.draws] /\ z \in Layers
             /\ z.origin = y.origin /\ z.bounds = y.bounds
             /\ z.depth = IF msaa THEN y.depth + 1 ELSE y.depth
             /\ z.history = y.history /\ z.clips = y.clips /\ z.pending = y.pending
             /\ K \in Nat /\ K > 0 /\ K \in 1 .. K /\ Len(z.passes) = K + 1
             /\ \A k \in 1 .. K : k < K => z.passes[k] = y.passes[k]
             /\ z.passes[K].ops = y.passes[K].ops
             /\ z.passes[K].replayed = y.passes[K].replayed
             /\ z.passes[K].firstDepth = y.passes[K].firstDepth
             /\ z.passes[K].load = y.passes[K].load
             /\ z.passes[K].copy = d.bounds
             /\ z.passes[K + 1].ops = <<>> /\ z.passes[K + 1].firstDepth = 0
             /\ z.passes[K + 1].replayed = Len(y.history)
             /\ z.passes[K + 1].load = IF msaa THEN Len(table) + 1 ELSE 0
             /\ r.draws = IF msaa THEN Append(table, load) ELSE table
             /\ load \in Draws /\ load.type = "load" /\ load.scissor = y.bounds
             /\ load.depth = y.depth + 1 /\ load.clip = 0
<1>. DEFINE n == Len(y.passes)
            last == [y.passes[n] EXCEPT !.copy = d.bounds]
            closed == [y.passes EXCEPT ![n] = last]
            pass == [NewPass EXCEPT !.replayed = Len(y.history), !.load = IF msaa THEN Len(table) + 1 ELSE 0]
            z == [y EXCEPT !.depth = IF msaa THEN y.depth + 1 ELSE y.depth, !.passes = Append(closed, pass)]
            other == IF msaa THEN Append(table, LoadDraw(y)) ELSE table
<1>1. n \in Nat /\ n > 0 /\ n \in 1 .. n /\ y.passes \in Seq(Passes) /\ n \in DOMAIN y.passes
  BY LayerTypes, EmptySeq
<1>2. DOMAIN y = {"origin", "bounds", "depth", "history", "clips", "passes", "pending"}
  BY DEF Layers
<1>3. Split([layer |-> y, draws |-> table], d) = [layer |-> z, draws |-> other]
  BY <1>1, <1>2 DEF Split
<1>4. /\ LoadDraw(y) \in Draws /\ LoadDraw(y).type = "load" /\ LoadDraw(y).scissor = y.bounds
      /\ LoadDraw(y).depth = y.depth + 1 /\ LoadDraw(y).clip = 0
  <2>1. y.bounds \in SUBSET Int /\ y.depth + 1 \in Nat /\ <<>> \in Seq([id : Nat, pixels : SUBSET Int])
    BY LayerTypes
  <2>2. LoadDraw(y) = [type |-> "load", dst |-> FALSE, items |-> <<>>, child |-> 0, writes |-> {},
                       bounds |-> y.bounds, scissor |-> y.bounds, clip |-> 0, depth |-> y.depth + 1]
    <3>1. NewDraw = [type |-> "path", dst |-> FALSE, items |-> <<>>, child |-> 0, writes |-> {},
                     bounds |-> Everywhere, scissor |-> {}, clip |-> 0, depth |-> 0]
      BY DEF NewDraw
    <3>2. LoadDraw(y) = [NewDraw EXCEPT !.type = "load", !.scissor = y.bounds,
                                        !.bounds = y.bounds, !.depth = y.depth + 1]
      BY Zenon DEF LoadDraw
    <3>. QED
      BY <3>1, <3>2
  <2>. QED
    BY <2>1, <2>2 DEF Draws
<1>5. last \in Passes /\ last.ops = y.passes[n].ops
      /\ last.replayed = y.passes[n].replayed /\ last.firstDepth = y.passes[n].firstDepth
      /\ last.load = y.passes[n].load /\ last.copy = d.bounds
  <2>1. y.passes[n] \in Passes /\ d.bounds \in SUBSET Int
    BY <1>1 DEF Draws
  <2>. QED
    BY <2>1 DEF Passes
<1>6. pass \in Passes /\ pass.ops = <<>> /\ pass.firstDepth = 0 /\ pass.replayed = Len(y.history)
      /\ pass.load = IF msaa THEN Len(table) + 1 ELSE 0
  <2>1. Len(y.history) \in Nat /\ Len(table) + 1 \in Nat /\ <<>> \in Seq(Nat)
    BY LayerTypes
  <2>. QED
    BY <2>1 DEF Passes, NewPass
<1>. HIDE DEF last, pass
<1>7. /\ closed \in Seq(Passes) /\ Len(closed) = n
      /\ \A k \in 1 .. n : k < n => closed[k] = y.passes[k]
      /\ closed[n] = last
  BY <1>1, <1>5, ExceptSeq
<1>. HIDE DEF closed
<1>8. /\ Append(closed, pass) \in Seq(Passes) /\ Len(Append(closed, pass)) = n + 1
      /\ \A k \in 1 .. n : Append(closed, pass)[k] = closed[k]
      /\ Append(closed, pass)[n + 1] = pass
  BY <1>6, <1>7, AppendProperties
<1>9. z \in Layers /\ z.passes = Append(closed, pass)
      /\ z.depth = (IF msaa THEN y.depth + 1 ELSE y.depth)
      /\ z.origin = y.origin /\ z.bounds = y.bounds
      /\ z.history = y.history /\ z.clips = y.clips /\ z.pending = y.pending
  <2>1. (IF msaa THEN y.depth + 1 ELSE y.depth) \in Nat
    BY LayerTypes
  <2>. QED
    BY <1>8, <2>1 DEF Layers
<1>. HIDE DEF z, other
<1>10. Split([layer |-> y, draws |-> table], d).layer = z
       /\ Split([layer |-> y, draws |-> table], d).draws = other
  BY <1>3
<1>. QED
  BY <1>1, <1>3, <1>4, <1>5, <1>6, <1>7, <1>8, <1>9, <1>10 DEF other

\* A new pass replays all the clips, and shows what was shown.
\* The layer and the draws once a pass was closed and another one opened.
Splits(y, table, l, box, d, R) ==
    LET r == Split([layer |-> y, draws |-> table], d)
        z == r.layer
        K == Len(y.passes)
    IN  /\ r = [layer |-> z, draws |-> r.draws]
        /\ z \in Layers /\ r.draws \in Seq(Draws)
        /\ r.draws = table \/ r.draws = Append(table, LoadDraw(y))
        /\ LoadDraw(y) \in Draws /\ LoadDraw(y).type = "load" /\ LoadDraw(y).clip = 0
        /\ LayerInv(z, r.draws, l, box, msaa)
        /\ z.origin = y.origin /\ z.bounds = y.bounds /\ z.clips = y.clips /\ z.pending = <<>>
        /\ Len(z.passes) > 1 /\ z.passes[Len(z.passes)].ops = <<>>
        /\ z.passes[Len(z.passes) - 1].copy = d.bounds
        /\ Uses(z) \subseteq Uses(y) \cup {Len(table) + 1}
        /\ \A p : LayerShows(z, r.draws, box, R, p) = LayerShows(y, table, box, R, p)

\* The layer shows the same after that: all the clips are replayed.
LEMMA SplitKeeps ==
  ASSUME NEW y \in Layers, NEW table \in Seq(Draws), NEW l, NEW box, msaa \in BOOLEAN,
         LayerInv(y, table, l, box, msaa), y.pending = <<>>, NEW d \in Draws,
         NEW R, Colours(box, R)
  PROVE  Splits(y, table, l, box, d, R)
<1>1. PICK id \in Nat : id = Len(table) + 1 /\ id > 0 /\ \A c \in DOMAIN table : c < id /\ c \in Nat
  <2>1. Len(table) + 1 \in Nat /\ Len(table) + 1 > 0 /\ \A c \in DOMAIN table : c < Len(table) + 1 /\ c \in Nat
    OBVIOUS
  <2>. QED
    BY <2>1
<1>. DEFINE r == Split([layer |-> y, draws |-> table], d)
            z == r.layer
            load == LoadDraw(y)
            other == r.draws
            K == Len(y.passes)
<1>0. /\ NamesAreRight(y, table, l, box) /\ PlacesAreRight(y, table) /\ ClipsAreNested(y, table)
      /\ DepthsAreRight(y, table) /\ DrawsAreBounded(y, table, box)
      /\ LoadsAreRight(y, table, msaa) /\ ClipsAreDrawn(y, table)
  BY DEF LayerInv
<1>2. PICK N \in Nat : N = K + 1
  BY LayerTypes
<1>3. /\ z \in Layers
      /\ z.origin = y.origin /\ z.bounds = y.bounds
      /\ z.depth = IF msaa THEN y.depth + 1 ELSE y.depth
      /\ z.history = y.history /\ z.clips = y.clips /\ z.pending = <<>>
      /\ K \in Nat /\ K > 0 /\ K \in 1 .. K /\ Len(z.passes) = N
      /\ \A k \in 1 .. K : k < K => z.passes[k] = y.passes[k]
      /\ z.passes[K].ops = y.passes[K].ops
      /\ z.passes[K].replayed = y.passes[K].replayed
      /\ z.passes[K].firstDepth = y.passes[K].firstDepth
      /\ z.passes[K].load = y.passes[K].load
      /\ z.passes[K].copy = d.bounds
      /\ z.passes[N].ops = <<>> /\ z.passes[N].firstDepth = 0
      /\ z.passes[N].replayed = Len(y.history)
      /\ z.passes[N].load = IF msaa THEN id ELSE 0
      /\ other = IF msaa THEN Append(table, load) ELSE table
      /\ load \in Draws /\ load.type = "load" /\ load.scissor = y.bounds
      /\ load.depth = y.depth + 1 /\ load.clip = 0
  BY <1>0, <1>1, <1>2, SplitIs, ZenonT(50) DEF NamesAreRight
<1>24. r = [layer |-> r.layer, draws |-> r.draws]
  BY <1>0, SplitIs DEF NamesAreRight
<1>. HIDE DEF r, load
<1>4. y.depth \in Nat /\ y.depth + 1 \in Nat
  BY LayerTypes
<1>5. /\ other \in Seq(Draws)
      /\ msaa => other[id] = load /\ id \in DOMAIN other
      /\ \A c \in DOMAIN table : c \in DOMAIN other /\ other[c] = table[c] /\ c # id
  <2>1. CASE msaa
    BY <2>1, <1>1, <1>3, AppendProperties
  <2>2. CASE ~ msaa
    BY <2>2, <1>1, <1>3
  <2>. QED
    BY <2>1, <2>2
<1>. HIDE DEF z, other
<1>6. /\ DOMAIN y.passes = 1 .. K /\ DOMAIN z.passes = 1 .. N /\ z.passes # <<>>
      /\ \A k \in 1 .. K : k < K \/ k = K
      /\ \A k \in 1 .. N : k \in 1 .. K \/ k = N
      /\ \A k \in 1 .. K : k \in 1 .. N /\ k # N
      /\ N \in 1 .. N /\ N > 1 /\ N - 1 = K
      /\ \A k \in 1 .. N : k > 1 => k - 1 \in 1 .. K
      /\ DOMAIN z.passes[N].ops = {} /\ Len(z.passes[N].ops) = 0
  <2>1. DOMAIN y.passes = 1 .. K /\ DOMAIN z.passes = 1 .. N
    BY <1>3, LayerTypes
  <2>2. /\ \A k \in 1 .. K : k < K \/ k = K
        /\ \A k \in 1 .. N : k \in 1 .. K \/ k = N
        /\ \A k \in 1 .. K : k \in 1 .. N /\ k # N
        /\ N \in 1 .. N /\ N > 1 /\ N - 1 = K
        /\ \A k \in 1 .. N : k > 1 => k - 1 \in 1 .. K
    BY <1>2, <1>3
  <2>3. z.passes # <<>>
    BY <2>1, <2>2
  <2>4. DOMAIN z.passes[N].ops = {} /\ Len(z.passes[N].ops) = 0
    BY <1>3
  <2>. QED
    BY <2>1, <2>2, <2>3, <2>4
<1>7. \A k \in 1 .. K : /\ z.passes[k].ops = y.passes[k].ops
                        /\ z.passes[k].replayed = y.passes[k].replayed
                        /\ z.passes[k].load = y.passes[k].load
                        /\ z.passes[k].firstDepth = y.passes[k].firstDepth
                        /\ k < K => z.passes[k].copy = y.passes[k].copy
  BY <1>3, <1>6
\* Every draw of the layer was at its place before.
<1>8. \A k \in DOMAIN z.passes : \A i \in DOMAIN z.passes[k].ops :
         /\ k \in DOMAIN y.passes /\ i \in DOMAIN y.passes[k].ops /\ z.passes[k].ops = y.passes[k].ops
         /\ y.passes[k].ops[i] \in DOMAIN table
         /\ other[y.passes[k].ops[i]] = table[y.passes[k].ops[i]]
  <2>. SUFFICES ASSUME NEW k \in 1 .. N, NEW i \in DOMAIN z.passes[k].ops
                PROVE  /\ k \in DOMAIN y.passes /\ i \in DOMAIN y.passes[k].ops
                       /\ z.passes[k].ops = y.passes[k].ops
                       /\ y.passes[k].ops[i] \in DOMAIN table
                       /\ other[y.passes[k].ops[i]] = table[y.passes[k].ops[i]]
    BY <1>6
  <2>1. k \in 1 .. K
    BY <1>6
  <2>2. i \in DOMAIN y.passes[k].ops /\ z.passes[k].ops = y.passes[k].ops
    BY <2>1, <1>7
  <2>3. y.passes[k].ops[i] \in DOMAIN table
    BY <2>1, <2>2, <1>0, <1>6 DEF NamesAreRight
  <2>. QED
    BY <2>1, <2>2, <2>3, <1>5, <1>6
<1>9. \A k \in 1 .. K : \A i : Before(z, k, i) = Before(y, k, i)
  BY <1>3, <1>7, SMTT(40) DEF Before
<1>10. Stack(z) = Stack(y)
  BY <1>3 DEF Stack, StackTo
<1>11. /\ \A c \in ToSet(y.history) : c \in DOMAIN table /\ table[c].type = "clip" /\ other[c] = table[c]
       /\ Stack(y) \subseteq ToSet(y.history) /\ id \notin ToSet(y.history)
  <2>1. \A c \in ToSet(y.history) : c \in DOMAIN table /\ table[c].type = "clip"
    BY <1>0 DEF NamesAreRight, ToSet
  <2>. QED
    BY <2>1, <1>0, <1>5 DEF NamesAreRight
<1>12. NamesAreRight(z, other, l, box)
  <2>1. ASSUME NEW k \in DOMAIN z.passes, NEW i \in DOMAIN z.passes[k].ops
        PROVE  LET o == z.passes[k].ops[i]
               IN  /\ o \in DOMAIN other
                   /\ other[o].type # "load"
                   /\ other[o].type = "clip" => o \in ToSet(z.history)
                   /\ other[o].type = "layer" => other[o].child \in DOMAIN box /\ other[o].child > l
    <3>. DEFINE o == y.passes[k].ops[i]
    <3>1. /\ k \in DOMAIN y.passes /\ i \in DOMAIN y.passes[k].ops /\ z.passes[k].ops[i] = o
          /\ o \in DOMAIN table /\ other[o] = table[o]
      BY <1>8
    <3>2. /\ table[o].type # "load"
          /\ table[o].type = "clip" => o \in ToSet(y.history)
          /\ table[o].type = "layer" => table[o].child \in DOMAIN box /\ table[o].child > l
      BY <3>1, <1>0 DEF NamesAreRight
    <3>. HIDE DEF o
    <3>. QED
      BY <3>1, <3>2, <1>3, <1>5
  <2>2. ASSUME NEW k \in DOMAIN z.passes PROVE z.passes[k].replayed <= Len(z.history)
    <3>1. CASE k \in 1 .. K
      BY <3>1, <1>0, <1>3, <1>6, <1>7 DEF NamesAreRight
    <3>2. CASE k = N
      <4>1. Len(y.history) \in Nat
        BY LayerTypes
      <4>. QED
        BY <3>2, <4>1, <1>3
    <3>. QED
      BY <3>1, <3>2, <1>6
  <2>3. ToSet(z.pending) = {}
    BY <1>3 DEF ToSet
  <2>4. \A i \in DOMAIN z.history : z.history[i] \in DOMAIN other /\ other[z.history[i]].type = "clip"
    BY <1>3, <1>5, <1>11 DEF ToSet
  <2>5. z.clips # <<>> /\ Stack(z) \subseteq ToSet(z.history)
    BY <1>0, <1>3, <1>10, <1>11 DEF NamesAreRight
  <2>. QED
    BY <1>6, <2>1, <2>2, <2>3, <2>4, <2>5 DEF NamesAreRight
<1>13. PlacesAreRight(z, other)
  <2>. SUFFICES ASSUME NEW j \in DOMAIN z.passes, NEW k \in DOMAIN z.passes,
                       NEW a \in DOMAIN z.passes[j].ops, NEW b \in DOMAIN z.passes[k].ops,
                       z.passes[j].ops[a] = z.passes[k].ops[b],
                       other[z.passes[j].ops[a]].type # "clip"
                PROVE  j = k /\ a = b
    BY DEF PlacesAreRight
  <2>1. /\ j \in DOMAIN y.passes /\ k \in DOMAIN y.passes
        /\ a \in DOMAIN y.passes[j].ops /\ z.passes[j].ops = y.passes[j].ops
        /\ b \in DOMAIN y.passes[k].ops /\ z.passes[k].ops = y.passes[k].ops
        /\ other[y.passes[j].ops[a]] = table[y.passes[j].ops[a]]
    BY <1>8
  <2>2. y.passes[j].ops[a] = y.passes[k].ops[b] /\ table[y.passes[j].ops[a]].type # "clip"
    BY <2>1
  <2>. QED
    BY <2>1, <2>2, <1>0 DEF PlacesAreRight
<1>14. ClipsAreNested(z, other)
  <2>1. \A j \in DOMAIN y.clips : \A c \in ToSet(y.clips[j].draws) : other[c] = table[c]
    <3>1. \A j \in 1 .. Len(y.clips) : ToSet(y.clips[j].draws) \subseteq Stack(y)
      BY DEF Stack, StackTo
    <3>2. DOMAIN y.clips = 1 .. Len(y.clips)
      BY LayerTypes
    <3>. QED
      BY <3>1, <3>2, <1>11
  <2>. QED
    BY <2>1, <1>0, <1>3, ZenonT(50) DEF ClipsAreNested
<1>15. z.depth \in Nat /\ y.depth <= z.depth
  BY <1>3, <1>4
<1>16. DepthsAreRight(z, other)
  <2>1. ASSUME NEW k \in DOMAIN z.passes, NEW i \in DOMAIN z.passes[k].ops,
               other[z.passes[k].ops[i]].type # "clip"
        PROVE  /\ other[z.passes[k].ops[i]].depth \in 1 .. z.depth
               /\ z.passes[k].firstDepth \in 1 .. other[z.passes[k].ops[i]].depth
    <3>. DEFINE o == y.passes[k].ops[i]
    <3>1. /\ k \in DOMAIN y.passes /\ i \in DOMAIN y.passes[k].ops /\ z.passes[k].ops[i] = o
          /\ o \in DOMAIN table /\ other[o] = table[o]
      BY <1>8
    <3>2. table[o].depth \in 1 .. y.depth /\ y.passes[k].firstDepth \in 1 .. table[o].depth
      BY <3>1, <2>1, <1>0 DEF DepthsAreRight
    <3>3. z.passes[k].firstDepth = y.passes[k].firstDepth
      BY <3>1, <1>6, <1>7
    <3>. HIDE DEF o
    <3>. QED
      BY <3>1, <3>2, <3>3, <1>4, <1>15
  <2>2. ASSUME NEW k \in DOMAIN z.passes PROVE z.passes[k].firstDepth <= z.depth
    <3>1. CASE k \in 1 .. K
      <4>1. y.passes[k].firstDepth \in Nat /\ y.passes[k].firstDepth <= y.depth
        BY <3>1, <1>0, <1>6, LayerTypes DEF DepthsAreRight
      <4>. QED
        BY <3>1, <4>1, <1>4, <1>7, <1>15
    <3>2. CASE k = N
      BY <3>2, <1>3, <1>15
    <3>. QED
      BY <3>1, <3>2, <1>6
  <2>3. ASSUME NEW c \in ToSet(z.history) \ Stack(z) PROVE other[c].depth <= z.depth
    <3>1. other[c] = table[c] /\ c \in DOMAIN table /\ table[c].depth <= y.depth
      BY <1>0, <1>3, <1>10, <1>11 DEF DepthsAreRight
    <3>2. table[c].depth \in Nat
      BY <3>1, DrawTypes
    <3>. QED
      BY <3>1, <3>2, <1>4, <1>15
  <2>. QED
    BY <2>1, <2>2, <2>3 DEF DepthsAreRight
<1>17. DrawsAreBounded(z, other, box)
  <2>1. ASSUME NEW k \in DOMAIN z.passes, NEW i \in DOMAIN z.passes[k].ops,
               other[z.passes[k].ops[i]].type # "clip"
        PROVE  LET c == other[z.passes[k].ops[i]]
               IN  /\ AreaOf(box, c) \cap c.scissor \subseteq c.bounds
                   /\ IsFiniteSet(c.bounds)
                   /\ c.dst => k > 1 /\ i = 1 /\ c.bounds = z.passes[k - 1].copy
    <3>. DEFINE o == y.passes[k].ops[i]  c == table[o]
    <3>1. /\ k \in DOMAIN y.passes /\ i \in DOMAIN y.passes[k].ops /\ z.passes[k].ops[i] = o
          /\ o \in DOMAIN table /\ other[o] = c
      BY <1>8
    <3>2. k > 1 => z.passes[k - 1].copy = y.passes[k - 1].copy
      <4>1. k \in 1 .. K /\ (k > 1 => k - 1 \in 1 .. K /\ k - 1 < K)
        BY <3>1, <1>3, <1>6
      <4>. QED
        BY <4>1, <1>7
    <3>3. /\ AreaOf(box, c) \cap c.scissor \subseteq c.bounds
          /\ IsFiniteSet(c.bounds)
          /\ c.dst => k > 1 /\ i = 1 /\ c.bounds = y.passes[k - 1].copy
      <4>1. c.type # "clip"
        BY <3>1, <2>1
      <4>2. DrawsAreBounded(y, table, box)
        BY <1>0
      <4>. QED
        BY <4>1, <4>2, <3>1 DEF DrawsAreBounded
    <3>. HIDE DEF c
    <3>4. /\ AreaOf(box, c) \cap c.scissor \subseteq c.bounds
          /\ IsFiniteSet(c.bounds)
          /\ c.dst => k > 1 /\ i = 1 /\ c.bounds = z.passes[k - 1].copy
      BY <3>2, <3>3
    <3>. QED
      BY <3>1, <3>4
  <2>2. IsFiniteSet(z.bounds)
    BY <1>0, <1>3 DEF DrawsAreBounded
  <2>. QED
    BY <2>1, <2>2 DEF DrawsAreBounded
<1>18. LoadsAreRight(z, other, msaa)
  <2>1. z.passes[1].load = 0
    <3>1. 1 \in 1 .. K
      BY <1>3
    <3>. QED
      BY <3>1, <1>0, <1>7 DEF LoadsAreRight
  <2>2. ASSUME NEW k \in DOMAIN z.passes, k > 1
        PROVE  LET x == z.passes[k].load
               IN  IF ~ msaa THEN x = 0
                   ELSE /\ x \in DOMAIN other
                        /\ other[x].type = "load" /\ other[x].scissor = z.bounds
                        /\ other[x].depth > 0
    <3>1. CASE k \in 1 .. K
      <4>. DEFINE x == y.passes[k].load
      <4>1. z.passes[k].load = x
        BY <3>1, <1>7
      <4>2. IF ~ msaa THEN x = 0
            ELSE /\ x \in DOMAIN table
                 /\ table[x].type = "load" /\ table[x].scissor = y.bounds
                 /\ table[x].depth > 0
        BY <2>2, <3>1, <1>0, <1>6 DEF LoadsAreRight
      <4>. HIDE DEF x
      <4>. QED
        BY <4>1, <4>2, <1>3, <1>5
    <3>2. CASE k = N
      <4>1. y.depth + 1 > 0
        BY <1>4
      <4>. QED
        BY <3>2, <4>1, <1>3, <1>5
    <3>. QED
      BY <3>1, <3>2, <1>6
  <2>. QED
    BY <2>1, <2>2 DEF LoadsAreRight
<1>19. ClipsAreDrawn(z, other)
  <2>1. Stack(z) \subseteq Before(z, N, 1)
    <3>1. ToSet(z.history) \subseteq Before(z, N, 1)
      <4>1. z.passes[N].replayed = Len(z.history) /\ DOMAIN z.history = 1 .. Len(z.history)
        BY <1>3, LayerTypes, SMTT(40)
      <4>. QED
        BY <4>1 DEF Before, ToSet
    <3>. QED
      BY <3>1, <1>3, <1>10, <1>11
  <2>2. Stack(z) \subseteq ToSet(z.pending) \cup Before(z, N, Len(z.passes[N].ops) + 1)
    <3>1. Len(z.passes[N].ops) + 1 = 1
      BY <1>6
    <3>. QED
      BY <2>1, <3>1
  <2>. QED
    BY <2>2, <1>3, <1>6 DEF ClipsAreDrawn
<1>20. ASSUME NEW p PROVE LayerShows(z, other, box, R, p) = LayerShows(y, table, box, R, p)
  <2>. DEFINE f == [k \in DOMAIN y.passes |-> PassShows(y, table, box, R, k, p)]
              g == [k \in DOMAIN z.passes |-> PassShows(z, other, box, R, k, p)]
  <2>1. ASSUME NEW k \in 1 .. K, NEW i \in DOMAIN y.passes[k].ops
        PROVE  Added(z, other, box, R, k, i, p) = Added(y, table, box, R, k, i, p)
    <3>1. z.passes[k].ops[i] = y.passes[k].ops[i] /\ other[y.passes[k].ops[i]] = table[y.passes[k].ops[i]]
      <4>1. k \in DOMAIN z.passes /\ i \in DOMAIN z.passes[k].ops
        BY <1>6, <1>7
      <4>. QED
        BY <4>1, <1>8
    <3>2. i \in 1 .. Len(y.passes[k].ops) + 1 /\ k \in DOMAIN y.passes
      <4>1. y.passes[k].ops \in Seq(Nat)
        BY <1>6, LayerTypes
      <4>. QED
        BY <4>1, <1>6
    <3>3. Before(z, k, i) = Before(y, k, i)
          /\ \A c \in Before(y, k, i) : c \in DOMAIN table /\ other[c] = table[c]
      BY <3>2, <1>0, <1>5, <1>9, BeforeIs
    <3>4. \A c \in Before(y, k, i) : \A depth : Blocks(z, other, c, depth) <=> Blocks(y, table, c, depth)
      BY <3>3, <1>10 DEF Blocks
    <3>. QED
      BY <3>1, <3>3, <3>4, AddedSame DEF Alike
  <2>2. \A k \in 1 .. K : g[k] = f[k]
    <3>1. \A k \in 1 .. K : PassShows(z, other, box, R, k, p) = PassShows(y, table, box, R, k, p)
      BY <2>1, <1>7, PassSame
    <3>. QED
      BY <3>1, <1>6
  <2>3. \A k \in 1 .. K : f[k] \in Seq(Nat)
    BY <1>0, <1>6, ShowsAreColours
  <2>4. g[N] = <<>>
    <3>1. PassShows(z, other, box, R, N, p) = <<>>
      <4>. DEFINE none == [i \in DOMAIN z.passes[N].ops |-> Added(z, other, box, R, N, i, p)]
      <4>1. PassShows(z, other, box, R, N, p) = Joined(none, 0)
        BY <1>6 DEF PassShows
      <4>. HIDE DEF none
      <4>2. 0 \in Nat /\ \A i \in 1 .. 0 : none[i] \in Seq(Nat)
        OBVIOUS
      <4>3. Joined(none, 0) = <<>>
        BY <4>2, JoinedIs, Zenon
      <4>. QED
        BY <4>1, <4>3
    <3>. QED
      BY <3>1, <1>6
  <2>5. /\ LayerShows(y, table, box, R, p) = Joined(f, K)
        /\ LayerShows(z, other, box, R, p) = Joined(g, N)
    BY <1>3 DEF LayerShows
  <2>6. PICK none \in Seq(Nat) : none = <<>>
    <3>1. <<>> \in Seq(Nat)
      OBVIOUS
    <3>. QED
      BY <3>1
  <2>. HIDE DEF f, g
  <2>7. OneMore(Nat, f, g, K, N, none)
    BY <2>2, <2>3, <2>4, <2>6, <1>2, <1>3 DEF OneMore
  <2>8. Joined(g, N) = Joined(f, K) \o none
    BY <2>7, JoinedNext
  <2>9. LayerShows(y, table, box, R, p) \in Seq(Nat)
    BY <1>0, ShowsAreColours
  <2>. QED
    BY <2>5, <2>6, <2>8, <2>9
<1>21. Uses(z) \subseteq Uses(y) \cup {id}
  <2>1. \A k \in 1 .. K : ToSet(y.passes[k].ops) \cup {y.passes[k].load} \subseteq Uses(y)
    BY <1>6 DEF Uses
  <2>2. 0 \in Uses(y)
    <3>1. 1 \in 1 .. K /\ y.passes[1].load = 0
      BY <1>0, <1>3 DEF LoadsAreRight
    <3>. QED
      BY <2>1, <3>1
  <2>3. ToSet(z.passes[N].ops) = {}
    BY <1>6 DEF ToSet
  <2>4. \A k \in DOMAIN z.passes : ToSet(z.passes[k].ops) \cup {z.passes[k].load} \subseteq Uses(y) \cup {id}
    BY <2>1, <2>2, <2>3, <1>3, <1>6, <1>7
  <2>5. ToSet(z.history) \subseteq Uses(y)
    BY <1>3 DEF Uses
  <2>. QED
    BY <2>4, <2>5 DEF Uses
<1>22. LayerInv(z, other, l, box, msaa)
  BY <1>12, <1>13, <1>14, <1>16, <1>17, <1>18, <1>19 DEF LayerInv
<1>23. /\ Len(z.passes) > 1 /\ z.passes[Len(z.passes)].ops = <<>>
       /\ z.passes[Len(z.passes) - 1].copy = d.bounds
  BY <1>3, <1>6
<1>. QED
  BY <1>1, <1>3, <1>5, <1>20, <1>21, <1>22, <1>23, <1>24 DEF r, z, other, load, Splits

\* A finite set of numbers has a first and a last one.
LEMMA FiniteEnds ==
  ASSUME NEW S \in SUBSET Int, IsFiniteSet(S), S # {}
  PROVE  /\ \E x \in S : \A y \in S : x >= y
         /\ \E x \in S : \A y \in S : x <= y
<1>1. \E x \in S : \A y \in S : x >= y
  <2>. DEFINE F == {{y \in S : y >= x} : x \in S}
  <2>1. F \in SUBSET FiniteSubsetsOf(Int) /\ F # {}
    <3>1. \A T \in F : T \subseteq S
      OBVIOUS
    <3>2. \A T \in F : IsFiniteSet(T) /\ T \subseteq Int
      BY <3>1, FS_Subset
    <3>3. F # {}
      OBVIOUS
    <3>. HIDE DEF F
    <3>. QED
      BY <3>2, <3>3 DEF FiniteSubsetsOf
  <2>2. PICK T \in F : \A U \in F : U \subseteq T => U = T
    <3>. HIDE DEF F
    <3>. QED
      BY <2>1, MinimalSet
  <2>3. PICK x \in S : T = {y \in S : y >= x}
    BY <2>2
  <2>4. ASSUME NEW y \in S PROVE x >= y
    <3>. SUFFICES ASSUME y > x PROVE FALSE
      OBVIOUS
    <3>. DEFINE U == {u \in S : u >= y}
    <3>1. U \in F
      OBVIOUS
    <3>2. U \subseteq T
      <4>1. ASSUME NEW u \in S, u >= y PROVE u >= x
        BY <4>1
      <4>. QED
        BY <2>3, <4>1
    <3>3. x \in T /\ x \notin U
      BY <2>3
    <3>. HIDE DEF U, F
    <3>. QED
      BY <2>2, <3>1, <3>2, <3>3
  <2>. QED
    BY <2>4
<1>2. \E x \in S : \A y \in S : x <= y
  <2>. DEFINE F == {{y \in S : y <= x} : x \in S}
  <2>1. F \in SUBSET FiniteSubsetsOf(Int) /\ F # {}
    <3>1. \A T \in F : T \subseteq S
      OBVIOUS
    <3>2. \A T \in F : IsFiniteSet(T) /\ T \subseteq Int
      BY <3>1, FS_Subset
    <3>3. F # {}
      OBVIOUS
    <3>. HIDE DEF F
    <3>. QED
      BY <3>2, <3>3 DEF FiniteSubsetsOf
  <2>2. PICK T \in F : \A U \in F : U \subseteq T => U = T
    <3>. HIDE DEF F
    <3>. QED
      BY <2>1, MinimalSet
  <2>3. PICK x \in S : T = {y \in S : y <= x}
    BY <2>2
  <2>4. ASSUME NEW y \in S PROVE x <= y
    <3>. SUFFICES ASSUME y < x PROVE FALSE
      OBVIOUS
    <3>. DEFINE U == {u \in S : u <= y}
    <3>1. U \in F
      OBVIOUS
    <3>2. U \subseteq T
      <4>1. ASSUME NEW u \in S, u <= y PROVE u <= x
        BY <4>1
      <4>. QED
        BY <2>3, <4>1
    <3>3. x \in T /\ x \notin U
      BY <2>3
    <3>. HIDE DEF U, F
    <3>. QED
      BY <2>2, <3>1, <3>2, <3>3
  <2>. QED
    BY <2>4
<1>. QED
  BY <1>1, <1>2

\* The bounds of finite sets are finite, and around them.
LEMMA BoundsAre ==
  ASSUME NEW S \in SUBSET Int, IsFiniteSet(S)
  PROVE  S \subseteq Bounds(S) /\ Bounds(S) \in SUBSET Int /\ IsFiniteSet(Bounds(S))
<1>1. CASE S = {}
  BY <1>1, FS_EmptySet DEF Bounds
<1>2. CASE S # {}
  <2>1. \E x \in S : \A y \in S : x <= y
    BY <1>2, FiniteEnds
  <2>2. \E x \in S : \A y \in S : x >= y
    BY <1>2, FiniteEnds
  <2>3. Min(S) \in S /\ \A y \in S : Min(S) <= y
    BY <2>1 DEF Min
  <2>4. Max(S) \in S /\ \A y \in S : Max(S) >= y
    BY <2>2 DEF Max
  <2>5. PICK a \in Int, b \in Int : a = Min(S) /\ b = Max(S) /\ \A y \in S : a <= y /\ y <= b
    BY <2>3, <2>4
  <2>6. Bounds(S) = a .. b
    BY <1>2, <2>5 DEF Bounds
  <2>7. IsFiniteSet(a .. b)
    BY FS_Interval
  <2>. QED
    BY <2>5, <2>6, <2>7
<1>. QED
  BY <1>1, <1>2

\* TryMerge puts the item of a draw into one that is there.
LEMMA MergedIs ==
  ASSUME NEW y \in Layers, NEW table \in Seq(Draws), NEW t \in DOMAIN table, NEW d \in Draws,
         NEW item \in [id : Nat, pixels : SUBSET Int], d.items = <<item>>,
         IsFiniteSet(table[t].bounds), IsFiniteSet(d.bounds)
  PROVE  LET r == Merged([layer |-> y, draws |-> table], t, d)
         IN  /\ r.layer = y /\ r.draws \in Seq(Draws) /\ Len(r.draws) = Len(table)
             /\ \A c \in DOMAIN table : c # t => r.draws[c] = table[c]
             /\ r.draws[t].type = table[t].type /\ r.draws[t].dst = table[t].dst
             /\ r.draws[t].child = table[t].child /\ r.draws[t].scissor = table[t].scissor
             /\ r.draws[t].clip = table[t].clip /\ r.draws[t].depth = table[t].depth
             /\ r.draws[t].items = Append(table[t].items, item)
             /\ table[t].bounds \cup d.bounds \subseteq r.draws[t].bounds
             /\ IsFiniteSet(r.draws[t].bounds)
<1>. DEFINE a == table[t]
            merged == [a EXCEPT !.items = @ \o d.items, !.bounds = Bounds(@ \cup d.bounds)]
            other == [table EXCEPT ![t] = merged]
            r == Merged([layer |-> y, draws |-> table], t, d)
<1>1. r = [[layer |-> y, draws |-> table] EXCEPT !.draws = other]
  BY Zenon DEF Merged
<1>2. a \in Draws /\ a.items \in Seq([id : Nat, pixels : SUBSET Int]) /\ a.bounds \in SUBSET Int
      /\ d.bounds \in SUBSET Int
  <2>1. table[t] \in Draws
    BY ElementOfSeq
  <2>2. a \in Draws
    BY <2>1
  <2>3. d.bounds \in SUBSET Int
    BY DEF Draws
  <2>. HIDE DEF a
  <2>. QED
    BY <2>2, <2>3 DEF Draws
<1>3. a.items \o d.items = Append(a.items, item)
      /\ Append(a.items, item) \in Seq([id : Nat, pixels : SUBSET Int])
  <2>1. PICK items \in Seq([id : Nat, pixels : SUBSET Int]) : items = a.items
    BY <1>2
  <2>2. items \o <<item>> = Append(items, item) /\ Append(items, item) \in Seq([id : Nat, pixels : SUBSET Int])
    BY AppendIsConcat, AppendProperties
  <2>. QED
    BY <2>1, <2>2
<1>4. PICK B : B = Bounds(a.bounds \cup d.bounds)
  OBVIOUS
<1>5. B \in SUBSET Int /\ IsFiniteSet(B) /\ a.bounds \cup d.bounds \subseteq B
  <2>1. IsFiniteSet(a.bounds \cup d.bounds)
    BY FS_Union
  <2>. QED
    BY <1>2, <1>4, <2>1, BoundsAre
<1>6. PICK items : items = a.items \o d.items
  OBVIOUS
<1>7. merged = [a EXCEPT !.items = items, !.bounds = B]
  BY <1>4, <1>6
<1>8. /\ merged \in Draws /\ merged.type = a.type /\ merged.dst = a.dst
      /\ merged.child = a.child /\ merged.scissor = a.scissor
      /\ merged.clip = a.clip /\ merged.depth = a.depth
      /\ merged.items = items /\ merged.bounds = B
  <2>1. items \in Seq([id : Nat, pixels : SUBSET Int])
    BY <1>3, <1>6
  <2>. HIDE DEF merged, a
  <2>. QED
    BY <2>1, <1>2, <1>5, <1>7 DEF Draws
<1>. HIDE DEF merged
<1>9. /\ other \in Seq(Draws) /\ Len(other) = Len(table) /\ other[t] = merged
      /\ \A c \in DOMAIN table : c # t => other[c] = table[c]
  BY <1>8, ExceptSeq
<1>. HIDE DEF other
<1>10. [[layer |-> y, draws |-> table] EXCEPT !.draws = other] = [layer |-> y, draws |-> other]
  OBVIOUS
<1>11. r.layer = y /\ r.draws = other
  BY <1>1, <1>10
<1>. HIDE DEF r
<1>. QED
  BY <1>3, <1>5, <1>6, <1>8, <1>9, <1>11 DEF r, a

\* A sequence with no members is empty.
LEMMA NoMembers ==
  ASSUME NEW S, NEW s \in Seq(S), ToSet(s) = {}
  PROVE  s = <<>>
<1>1. {s[i] : i \in DOMAIN s} = {}
  BY DEF ToSet
<1>2. DOMAIN s = {}
  BY <1>1
<1>3. Len(s) \in Nat /\ DOMAIN s = 1 .. Len(s)
  OBVIOUS
<1>. QED
  BY <1>2, <1>3, EmptySeq

\* The names of the items of a draw.
LEMMA ItemIds ==
  ASSUME NEW items \in Seq([id : Nat, pixels : SUBSET Int])
  PROVE  /\ [i \in DOMAIN items |-> items[i].id] \in Seq(Nat)
         /\ Len([i \in DOMAIN items |-> items[i].id]) = Len(items)
         /\ \A i \in DOMAIN items : items[i].id \in Nat /\ items[i].pixels \in SUBSET Int
         /\ Len(items) \in Nat /\ DOMAIN items = 1 .. Len(items)
<1>1. Len(items) \in Nat /\ DOMAIN items = 1 .. Len(items)
  OBVIOUS
<1>2. \A i \in 1 .. Len(items) : items[i] \in [id : Nat, pixels : SUBSET Int]
  BY ElementOfSeq, Zenon
<1>3. \A i \in 1 .. Len(items) : items[i].id \in Nat /\ items[i].pixels \in SUBSET Int
  BY <1>2
<1>. QED
  BY <1>1, <1>3

\* What a draw of one item, and a merged draw, leave on a pixel.
LEMMA ItemInk ==
  ASSUME NEW d, d.type # "layer", NEW item \in [id : Nat, pixels : SUBSET Int], d.items = <<item>>,
         NEW box, NEW R, NEW p
  PROVE  /\ AreaOf(box, d) = item.pixels
         /\ Ink(d, p, R) = IF p \in item.pixels THEN <<item.id>> ELSE <<>>
<1>1. DOMAIN d.items = {1} /\ d.items[1] = item
  OBVIOUS
<1>2. AreaOf(box, d) = item.pixels
  BY <1>1 DEF AreaOf
<1>. DEFINE places == {i \in DOMAIN d.items : p \in d.items[i].pixels}
            s == [i \in DOMAIN d.items |-> d.items[i].id]
<1>3. Ink(d, p, R) = Chosen(s, places)
  BY DEF Ink
<1>4. PICK none \in Seq(Nat) : none = <<>>
  <2>1. <<>> \in Seq(Nat)
    OBVIOUS
  <2>. QED
    BY <2>1
<1>5. PICK x \in Nat : x = item.id
  OBVIOUS
<1>6. s = Append(none, x)
  <2>1. s = <<x>>
    <3>1. <<item>> \in Seq([id : Nat, pixels : SUBSET Int]) /\ Len(<<item>>) = 1
      OBVIOUS
    <3>2. s \in Seq(Nat) /\ Len(s) = 1
      BY <3>1, ItemIds
    <3>3. s[1] = x
      BY <1>1, <1>5
    <3>. HIDE DEF s
    <3>. QED
      BY <3>2, <3>3
  <2>. QED
    BY <2>1, <1>4
<1>7. 1 \in places <=> p \in item.pixels
  BY <1>1
<1>. HIDE DEF places, s
<1>8. Chosen(none, places) = none
  <2>1. Chosen(none, places) \in Seq(Nat) /\ ToSet(Chosen(none, places)) = {none[i] : i \in DOMAIN none \cap places}
    BY ChosenIs
  <2>2. DOMAIN none = {}
    BY <1>4
  <2>3. ToSet(Chosen(none, places)) = {}
    BY <2>1, <2>2
  <2>. QED
    BY <2>1, <2>3, <1>4, NoMembers
<1>12. PICK more : more = IF 1 \in places THEN <<x>> ELSE <<>>
  OBVIOUS
<1>9. OneChosen(Nat, none, s, 1, x, places, places, more)
  <2>1. Len(none) = 0
    BY <1>4
  <2>. QED
    BY <2>1, <1>6, <1>12 DEF OneChosen
<1>10. Chosen(s, places) = Chosen(none, places) \o more
  BY <1>9, ChosenNext
<1>11. Chosen(s, places) = IF p \in item.pixels THEN <<x>> ELSE <<>>
  BY <1>4, <1>7, <1>8, <1>10, <1>12
<1>. QED
  BY <1>2, <1>3, <1>5, <1>11

TakesItem(a, b, d, items, item) ==
    /\ a.type = "shape" /\ b.type = "shape" /\ d.type = "shape"
    /\ items \in Seq([id : Nat, pixels : SUBSET Int]) /\ a.items = items
    /\ item \in [id : Nat, pixels : SUBSET Int] /\ d.items = <<item>>
    /\ b.items = Append(items, item)

\* The items of both draws are on the pixels, in their order.
LEMMA MergedInk ==
  ASSUME NEW a, NEW b, NEW d, NEW items, NEW item, TakesItem(a, b, d, items, item)
  PROVE  /\ \A box : AreaOf(box, b) = AreaOf(box, a) \cup AreaOf(box, d)
         /\ \A p, R : Ink(b, p, R) = Ink(a, p, R) \o Ink(d, p, R)
<1>. SUFFICES ASSUME NEW box, NEW R, NEW p
              PROVE  /\ AreaOf(box, b) = AreaOf(box, a) \cup AreaOf(box, d)
                     /\ Ink(b, p, R) = Ink(a, p, R) \o Ink(d, p, R)
  OBVIOUS
<1>0. /\ a.type = "shape" /\ b.type = "shape" /\ d.type = "shape"
      /\ items \in Seq([id : Nat, pixels : SUBSET Int]) /\ a.items = items
      /\ item \in [id : Nat, pixels : SUBSET Int] /\ d.items = <<item>>
      /\ b.items = Append(items, item)
  BY DEF TakesItem
<1>1. PICK n \in Nat : n = Len(items)
  BY <1>0
<1>2. PICK m \in Nat : m = n + 1
  OBVIOUS
<1>3. /\ DOMAIN items = 1 .. n /\ DOMAIN b.items = 1 .. m /\ b.items[m] = item
      /\ \A i \in 1 .. n : b.items[i] = items[i]
  BY <1>0, <1>1, <1>2, AppendProperties
<1>4. \A i \in 1 .. m : i \in 1 .. n \/ i = m
  BY <1>2
<1>5. \A i \in 1 .. n : i \in 1 .. m
  BY <1>2
<1>6. m \in 1 .. m /\ m \notin 1 .. n
  BY <1>2
<1>7. AreaOf(box, b) = AreaOf(box, a) \cup item.pixels
  <2>1. AreaOf(box, b) = UNION {b.items[i].pixels : i \in 1 .. m}
    BY <1>0, <1>3 DEF AreaOf
  <2>2. AreaOf(box, a) = UNION {items[i].pixels : i \in 1 .. n}
    BY <1>0, <1>3 DEF AreaOf
  <2>3. \A q : q \in UNION {b.items[i].pixels : i \in 1 .. m}
                 <=> q \in UNION {items[i].pixels : i \in 1 .. n} \/ q \in item.pixels
    <3>. TAKE q
    <3>1. q \in UNION {b.items[i].pixels : i \in 1 .. m} <=> \E i \in 1 .. m : q \in b.items[i].pixels
      OBVIOUS
    <3>2. q \in UNION {items[i].pixels : i \in 1 .. n} <=> \E i \in 1 .. n : q \in items[i].pixels
      OBVIOUS
    <3>. QED
      BY <3>1, <3>2, <1>3, <1>4, <1>5, <1>6
  <2>. QED
    BY <2>1, <2>2, <2>3
<1>8. /\ AreaOf(box, d) = item.pixels
      /\ Ink(d, p, R) = IF p \in item.pixels THEN <<item.id>> ELSE <<>>
  BY <1>0, ItemInk
<1>. DEFINE s == [i \in DOMAIN items |-> items[i].id]
            t == [i \in DOMAIN b.items |-> b.items[i].id]
            places == {i \in DOMAIN a.items : p \in a.items[i].pixels}
            others == {i \in DOMAIN b.items : p \in b.items[i].pixels}
<1>9. Ink(a, p, R) = Chosen(s, places) /\ Ink(b, p, R) = Chosen(t, others)
  BY <1>0 DEF Ink
<1>10. PICK x \in Nat : x = item.id
  BY <1>0
<1>11. s \in Seq(Nat) /\ Len(s) = n
  BY <1>0, <1>1, ItemIds
<1>12. t = Append(s, x)
  <2>1. Append(items, item) \in Seq([id : Nat, pixels : SUBSET Int])
    BY <1>0, AppendProperties
  <2>2. t \in Seq(Nat) /\ Len(t) = m
    <3>1. Len(Append(items, item)) = m
      BY <1>0, <1>1, <1>2, AppendProperties
    <3>. QED
      BY <3>1, <2>1, <1>0, ItemIds
  <2>3. Append(s, x) \in Seq(Nat) /\ Len(Append(s, x)) = n + 1 /\ Append(s, x)[n + 1] = x
        /\ \A i \in 1 .. n : Append(s, x)[i] = s[i]
    <3>1. s \in Seq(Nat) /\ Len(s) = n
      BY <1>11
    <3>. HIDE DEF s
    <3>. QED
      BY <3>1, AppendProperties
  <2>4. \A i \in 1 .. m : t[i] = Append(s, x)[i]
    BY <2>3, <1>0, <1>2, <1>3, <1>4, <1>5, <1>6, <1>10
  <2>. HIDE DEF s, t
  <2>. QED
    BY <2>2, <2>3, <2>4, <1>2, SeqEqual
<1>13. \A i \in 1 .. Len(s) : i \in others <=> i \in places
  BY <1>0, <1>3, <1>5, <1>11
<1>14. m \in others <=> p \in item.pixels
  BY <1>0, <1>2, <1>3, <1>6, <1>11
<1>. HIDE DEF s, t, places, others
<1>17. PICK more : more = IF m \in others THEN <<x>> ELSE <<>>
  OBVIOUS
<1>16. OneChosen(Nat, s, t, m, x, places, others, more)
  BY <1>2, <1>11, <1>12, <1>13, <1>17 DEF OneChosen
<1>15. Chosen(t, others) = Chosen(s, places) \o more
  BY <1>16, ChosenNext
<1>. QED
  BY <1>7, <1>8, <1>9, <1>10, <1>14, <1>15, <1>17

\* A draw takes in another one: only its items and its bounds are new.
Takes(table, other, t) ==
    /\ t \in DOMAIN table /\ DOMAIN other = DOMAIN table
    /\ \A c \in DOMAIN table : c # t => other[c] = table[c]
    /\ other[t].type = table[t].type /\ other[t].dst = table[t].dst
    /\ other[t].child = table[t].child /\ other[t].scissor = table[t].scissor
    /\ other[t].clip = table[t].clip /\ other[t].depth = table[t].depth
    /\ table[t].type = "shape"

\* All the rest of the layer stays.
LEMMA TakesKeeps ==
  ASSUME NEW y \in Layers, NEW table \in Seq(Draws), NEW l, NEW box, NEW loads,
         LayerInv(y, table, l, box, loads), NEW other, NEW t, Takes(table, other, t)
  PROVE  /\ NamesAreRight(y, other, l, box) /\ PlacesAreRight(y, other) /\ ClipsAreNested(y, other)
         /\ DepthsAreRight(y, other) /\ LoadsAreRight(y, other, loads) /\ ClipsAreDrawn(y, other)
         /\ \A k \in DOMAIN y.passes : \A i \in DOMAIN y.passes[k].ops : \A p :
               Reaches(y, other, k, i, p) <=> Reaches(y, table, k, i, p)
<1>0. /\ NamesAreRight(y, table, l, box) /\ PlacesAreRight(y, table) /\ ClipsAreNested(y, table)
      /\ DepthsAreRight(y, table) /\ DrawsAreBounded(y, table, box)
      /\ LoadsAreRight(y, table, loads) /\ ClipsAreDrawn(y, table)
  BY DEF LayerInv
<1>1. DOMAIN other = DOMAIN table /\ t \in DOMAIN table /\ table[t].type = "shape" /\ other[t].type = "shape"
      /\ \A c \in DOMAIN table : c # t => other[c] = table[c]
  BY DEF Takes
<1>2. \A c \in DOMAIN table :
         /\ other[c].type = table[c].type /\ other[c].dst = table[c].dst
         /\ other[c].child = table[c].child /\ other[c].scissor = table[c].scissor
         /\ other[c].clip = table[c].clip /\ other[c].depth = table[c].depth
  <2>. SUFFICES ASSUME NEW c \in DOMAIN table
                PROVE  /\ other[c].type = table[c].type /\ other[c].dst = table[c].dst
                       /\ other[c].child = table[c].child /\ other[c].scissor = table[c].scissor
                       /\ other[c].clip = table[c].clip /\ other[c].depth = table[c].depth
    OBVIOUS
  <2>1. CASE c = t
    BY <2>1 DEF Takes
  <2>2. CASE c # t
    BY <2>2, <1>1
  <2>. QED
    BY <2>1, <2>2
<1>3. \A c \in DOMAIN table : \A p : Hides(other[c], p) <=> Hides(table[c], p)
  <2>. SUFFICES ASSUME NEW c \in DOMAIN table, NEW p PROVE Hides(other[c], p) <=> Hides(table[c], p)
    OBVIOUS
  <2>1. CASE c = t
    BY <2>1, <1>1 DEF Hides
  <2>2. CASE c # t
    BY <2>2, <1>1
  <2>. QED
    BY <2>1, <2>2
<1>4. \A c \in DOMAIN table : \A depth : Blocks(y, other, c, depth) <=> Blocks(y, table, c, depth)
  BY <1>2 DEF Blocks
<1>5. \A k \in DOMAIN y.passes : \A i \in DOMAIN y.passes[k].ops : y.passes[k].ops[i] \in DOMAIN table
  BY <1>0 DEF NamesAreRight
<1>6. \A k \in DOMAIN y.passes : \A i \in 1 .. Len(y.passes[k].ops) + 1 : Before(y, k, i) \subseteq DOMAIN table
  BY <1>0, BeforeIs
<1>7. \A k \in DOMAIN y.passes : \A i \in DOMAIN y.passes[k].ops : i \in 1 .. Len(y.passes[k].ops) + 1
  BY LayerTypes
<1>8. /\ \A c \in ToSet(y.history) : c \in DOMAIN table
      /\ \A j \in DOMAIN y.clips : \A c \in ToSet(y.clips[j].draws) : c \in DOMAIN table
  <2>1. \A c \in ToSet(y.history) : c \in DOMAIN table
    BY <1>0 DEF NamesAreRight, ToSet
  <2>2. DOMAIN y.clips = 1 .. Len(y.clips)
    BY LayerTypes
  <2>3. \A j \in DOMAIN y.clips : ToSet(y.clips[j].draws) \subseteq ToSet(y.history)
    BY <2>2, <1>0 DEF NamesAreRight, Stack, StackTo
  <2>. QED
    BY <2>1, <2>3
<1>9. NamesAreRight(y, other, l, box)
  <2>1. ASSUME NEW k \in DOMAIN y.passes, NEW i \in DOMAIN y.passes[k].ops
        PROVE  LET o == y.passes[k].ops[i]
               IN  /\ o \in DOMAIN other
                   /\ other[o].type # "load"
                   /\ other[o].type = "clip" => o \in ToSet(y.history)
                   /\ other[o].type = "layer" => other[o].child \in DOMAIN box /\ other[o].child > l
    <3>. DEFINE o == y.passes[k].ops[i]
    <3>1. /\ o \in DOMAIN table
          /\ table[o].type # "load"
          /\ table[o].type = "clip" => o \in ToSet(y.history)
          /\ table[o].type = "layer" => table[o].child \in DOMAIN box /\ table[o].child > l
      BY <1>0 DEF NamesAreRight
    <3>. HIDE DEF o
    <3>2. /\ o \in DOMAIN other
          /\ other[o].type # "load"
          /\ other[o].type = "clip" => o \in ToSet(y.history)
          /\ other[o].type = "layer" => other[o].child \in DOMAIN box /\ other[o].child > l
      BY <3>1, <1>1, <1>2
    <3>. QED
      BY <3>2 DEF o
  <2>2. \A i \in DOMAIN y.history : y.history[i] \in DOMAIN other /\ other[y.history[i]].type = "clip"
    BY <1>0, <1>1, <1>2 DEF NamesAreRight
  <2>. QED
    BY <1>0, <2>1, <2>2 DEF NamesAreRight
<1>10. PlacesAreRight(y, other)
  BY <1>0, <1>2, <1>5 DEF PlacesAreRight
<1>11. ClipsAreNested(y, other)
  BY <1>0, <1>2, <1>8 DEF ClipsAreNested
<1>12. DepthsAreRight(y, other)
  <2>1. \A c \in ToSet(y.history) \ Stack(y) : other[c].depth <= y.depth
    BY <1>0, <1>2, <1>8 DEF DepthsAreRight
  <2>2. ASSUME NEW k \in DOMAIN y.passes, NEW i \in DOMAIN y.passes[k].ops, other[y.passes[k].ops[i]].type # "clip"
        PROVE  /\ other[y.passes[k].ops[i]].depth \in 1 .. y.depth
               /\ y.passes[k].firstDepth \in 1 .. other[y.passes[k].ops[i]].depth
    <3>. DEFINE o == y.passes[k].ops[i]
    <3>1. o \in DOMAIN table /\ other[o].type = table[o].type /\ other[o].depth = table[o].depth
      BY <1>2, <1>5
    <3>2. table[o].depth \in 1 .. y.depth /\ y.passes[k].firstDepth \in 1 .. table[o].depth
      BY <3>1, <2>2, <1>0 DEF DepthsAreRight
    <3>. QED
      BY <3>1, <3>2
  <2>3. \A k \in DOMAIN y.passes : y.passes[k].firstDepth <= y.depth
    BY <1>0 DEF DepthsAreRight
  <2>. QED
    BY <2>1, <2>2, <2>3 DEF DepthsAreRight
<1>13. LoadsAreRight(y, other, loads)
  <2>1. ASSUME NEW k \in DOMAIN y.passes, k > 1
        PROVE  LET load == y.passes[k].load
               IN  IF ~ loads THEN load = 0
                   ELSE /\ load \in DOMAIN other
                        /\ other[load].type = "load" /\ other[load].scissor = y.bounds
                        /\ other[load].depth > 0
    <3>. DEFINE load == y.passes[k].load
    <3>1. IF ~ loads THEN load = 0
          ELSE /\ load \in DOMAIN table
               /\ table[load].type = "load" /\ table[load].scissor = y.bounds
               /\ table[load].depth > 0
      BY <2>1, <1>0 DEF LoadsAreRight
    <3>. HIDE DEF load
    <3>2. IF ~ loads THEN load = 0
          ELSE /\ load \in DOMAIN other
               /\ other[load].type = "load" /\ other[load].scissor = y.bounds
               /\ other[load].depth > 0
      BY <3>1, <1>1, <1>2
    <3>. QED
      BY <3>2 DEF load
  <2>. QED
    BY <2>1, <1>0 DEF LoadsAreRight
<1>14. ClipsAreDrawn(y, other)
  <2>. DEFINE K == Len(y.passes)
  <2>0. K \in DOMAIN y.passes
    <3>1. y.passes # <<>>
      BY <1>0 DEF NamesAreRight
    <3>. QED
      BY <3>1, LayerTypes, EmptySeq
  <2>1. ASSUME NEW i \in DOMAIN y.passes[K].ops,
               other[y.passes[K].ops[i]].type # "clip",
               other[y.passes[K].ops[i]].clip = 0 \/ other[y.passes[K].ops[i]].clip \in Stack(y)
        PROVE  LET a == other[y.passes[K].ops[i]]
               IN  /\ \A c \in Stack(y) : c <= a.clip => c \in Before(y, K, i)
                   /\ \A c \in Before(y, K, i) : other[c].type = "clip" =>
                        (Blocks(y, other, c, a.depth) <=> c \in Stack(y) /\ c <= a.clip)
    <3>. DEFINE o == y.passes[K].ops[i]  a == table[o]  b == other[o]
    <3>1. b.type = a.type /\ b.clip = a.clip /\ b.depth = a.depth
      BY <2>0, <1>2, <1>5
    <3>2. /\ \A c \in Stack(y) : c <= a.clip => c \in Before(y, K, i)
          /\ \A c \in Before(y, K, i) : table[c].type = "clip" =>
               (Blocks(y, table, c, a.depth) <=> c \in Stack(y) /\ c <= a.clip)
      BY <2>1, <3>1, <1>0 DEF ClipsAreDrawn
    <3>3. \A c \in Before(y, K, i) : c \in DOMAIN table
      BY <2>0, <1>6, <1>7
    <3>. HIDE DEF a, b, K
    <3>4. /\ \A c \in Stack(y) : c <= b.clip => c \in Before(y, K, i)
          /\ \A c \in Before(y, K, i) : other[c].type = "clip" =>
               (Blocks(y, other, c, b.depth) <=> c \in Stack(y) /\ c <= b.clip)
      BY <3>1, <3>2, <3>3, <1>2, <1>4
    <3>. QED
      BY <3>4 DEF b, K
  <2>2. Stack(y) \subseteq ToSet(y.pending) \cup Before(y, K, Len(y.passes[K].ops) + 1)
    BY <1>0 DEF ClipsAreDrawn
  <2>. QED
    BY <2>1, <2>2 DEF ClipsAreDrawn
<1>15. ASSUME NEW k \in DOMAIN y.passes, NEW i \in DOMAIN y.passes[k].ops, NEW p
       PROVE  Reaches(y, other, k, i, p) <=> Reaches(y, table, k, i, p)
  <2>. DEFINE o == y.passes[k].ops[i]  a == table[o]  b == other[o]
  <2>1. b.scissor = a.scissor /\ b.depth = a.depth
    BY <1>2, <1>5
  <2>2. \A c \in Before(y, k, i) : c \in DOMAIN table
    BY <1>6, <1>7
  <2>3. Reaches(y, other, k, i, p)
          <=> p \in b.scissor /\ \A c \in Before(y, k, i) : Hides(other[c], p) => ~ Blocks(y, other, c, b.depth)
    BY DEF Reaches
  <2>4. Reaches(y, table, k, i, p)
          <=> p \in a.scissor /\ \A c \in Before(y, k, i) : Hides(table[c], p) => ~ Blocks(y, table, c, a.depth)
    BY DEF Reaches
  <2>. HIDE DEF a, b
  <2>. QED
    BY <2>1, <2>2, <2>3, <2>4, <1>3, <1>4
<1>. QED
  BY <1>9, <1>10, <1>11, <1>12, <1>13, <1>14, <1>15

\* A draw of the last pass that can take d in: what TryMerge looks for.
CanTake(y, table, box, at, d) ==
    LET calls == y.passes[Len(y.passes)].ops
    IN  /\ at \in DOMAIN calls
        /\ MergeIfPossible(table[calls[at]], d) /\ d.dst = FALSE
        /\ \A i \in DOMAIN calls : i > at => table[calls[i]].bounds \cap d.bounds = {}

\* The draw adds what it is to add although it comes before the draws it joins late:
\* those touch none of its pixels.
LEMMA MergeAdds ==
  ASSUME NEW y \in Layers, NEW table \in Seq(Draws), NEW l, NEW box, NEW loads,
         LayerInv(y, table, l, box, loads), y.pending = <<>>,
         NEW d, CanAdd(y, table, l, box, d), NEW at, CanTake(y, table, box, at, d),
         NEW R, Colours(box, R)
  PROVE  LET r == Merged([layer |-> y, draws |-> table], y.passes[Len(y.passes)].ops[at], d)
         IN  Adds(y, table, r.layer, r.draws, l, box, loads, d, R)
<1>. DEFINE K == Len(y.passes)
            calls == y.passes[K].ops
            t == calls[at]
            r == Merged([layer |-> y, draws |-> table], t, d)
            other == r.draws
            n == Len(calls)
<1>0. /\ NamesAreRight(y, table, l, box) /\ PlacesAreRight(y, table) /\ ClipsAreNested(y, table)
      /\ DepthsAreRight(y, table) /\ DrawsAreBounded(y, table, box)
      /\ LoadsAreRight(y, table, loads) /\ ClipsAreDrawn(y, table)
  BY DEF LayerInv
<1>1. K \in Nat /\ K \in DOMAIN y.passes /\ DOMAIN y.passes = 1 .. K /\ calls \in Seq(Nat)
      /\ n \in Nat /\ DOMAIN calls = 1 .. n
  <2>1. y.passes # <<>>
    BY <1>0 DEF NamesAreRight
  <2>2. K \in Nat /\ K \in DOMAIN y.passes /\ DOMAIN y.passes = 1 .. K
    BY <2>1, LayerTypes, EmptySeq
  <2>3. calls \in Seq(Nat)
    BY <2>2, LayerTypes
  <2>. HIDE DEF calls
  <2>. QED
    BY <2>2, <2>3
<1>2. /\ at \in 1 .. n
      /\ table[t].type = "shape" /\ d.type = "shape" /\ table[t].clip = d.clip
      /\ table[t].scissor = d.scissor /\ table[t].dst = d.dst /\ d.dst = FALSE
      /\ \A i \in 1 .. n : i > at => table[calls[i]].bounds \cap d.bounds = {}
  BY <1>1 DEF CanTake, MergeIfPossible
<1>3. t \in DOMAIN table
  BY <1>0, <1>1, <1>2 DEF NamesAreRight
<1>4. /\ d \in Draws /\ d.scissor = CurrentClipBounds(y) /\ IsLast(d.clip, Stack(y))
      /\ AreaOf(box, d) \cap d.scissor \subseteq d.bounds /\ IsFiniteSet(d.bounds)
  BY DEF CanAdd
<1>5. PICK item \in [id : Nat, pixels : SUBSET Int] : d.items = <<item>>
  BY <1>2 DEF CanAdd
<1>6. IsFiniteSet(table[t].bounds) /\ AreaOf(box, table[t]) \cap table[t].scissor \subseteq table[t].bounds
  BY <1>0, <1>1, <1>2 DEF DrawsAreBounded
<1>7. /\ r.layer = y /\ other \in Seq(Draws) /\ Len(other) = Len(table)
      /\ \A c \in DOMAIN table : c # t => other[c] = table[c]
      /\ other[t].type = table[t].type /\ other[t].dst = table[t].dst
      /\ other[t].child = table[t].child /\ other[t].scissor = table[t].scissor
      /\ other[t].clip = table[t].clip /\ other[t].depth = table[t].depth
      /\ other[t].items = Append(table[t].items, item)
      /\ table[t].bounds \cup d.bounds \subseteq other[t].bounds
      /\ IsFiniteSet(other[t].bounds)
  <2>. HIDE DEF t
  <2>. QED
    BY <1>3, <1>4, <1>5, <1>6, MergedIs, ZenonT(50)
<1>. HIDE DEF r, other, t, calls, K, n
<1>8. Takes(table, other, t)
  <2>1. DOMAIN other = DOMAIN table
    BY <1>7
  <2>. QED
    BY <2>1, <1>2, <1>3, <1>7 DEF Takes
<1>9. /\ NamesAreRight(y, other, l, box) /\ PlacesAreRight(y, other) /\ ClipsAreNested(y, other)
      /\ DepthsAreRight(y, other) /\ LoadsAreRight(y, other, loads) /\ ClipsAreDrawn(y, other)
      /\ \A k \in DOMAIN y.passes : \A i \in DOMAIN y.passes[k].ops : \A p :
            Reaches(y, other, k, i, p) <=> Reaches(y, table, k, i, p)
  BY <1>8, TakesKeeps
<1>10. \A p : /\ AreaOf(box, other[t]) = AreaOf(box, table[t]) \cup AreaOf(box, d)
              /\ Ink(other[t], p, R) = Ink(table[t], p, R) \o Ink(d, p, R)
  <2>. TAKE p
  <2>1. PICK items \in Seq([id : Nat, pixels : SUBSET Int]) : table[t].items = items
    BY <1>3, DrawTypes
  <2>2. table[t].type = "shape" /\ other[t].type = "shape" /\ d.type = "shape"
    BY <1>2, <1>7
  <2>3. other[t].items = Append(items, item)
    BY <2>1, <1>7
  <2>4. TakesItem(table[t], other[t], d, items, item)
    BY <2>1, <2>2, <2>3, <1>5 DEF TakesItem
  <2>5. PICK a, b : a = table[t] /\ b = other[t]
    OBVIOUS
  <2>6. TakesItem(a, b, d, items, item)
    BY <2>4, <2>5
  <2>7. /\ AreaOf(box, b) = AreaOf(box, a) \cup AreaOf(box, d)
        /\ Ink(b, p, R) = Ink(a, p, R) \o Ink(d, p, R)
    BY <2>6, MergedInk
  <2>. QED
    BY <2>5, <2>7
<1>11. DrawsAreBounded(y, other, box)
  <2>1. ASSUME NEW k \in DOMAIN y.passes, NEW i \in DOMAIN y.passes[k].ops,
               other[y.passes[k].ops[i]].type # "clip"
        PROVE  LET c == other[y.passes[k].ops[i]]
               IN  /\ AreaOf(box, c) \cap c.scissor \subseteq c.bounds
                   /\ IsFiniteSet(c.bounds)
                   /\ c.dst => k > 1 /\ i = 1 /\ c.bounds = y.passes[k - 1].copy
    <3>. DEFINE o == y.passes[k].ops[i]  c == other[o]
    <3>1. CASE o = t
      <4>1. AreaOf(box, other[t]) \cap other[t].scissor \subseteq other[t].bounds
        BY <1>2, <1>4, <1>6, <1>7, <1>10
      <4>2. other[t].dst = FALSE
        BY <1>2, <1>7
      <4>. QED
        BY <4>1, <4>2, <3>1, <1>7
    <3>2. CASE o # t
      <4>1. o \in DOMAIN table /\ other[o] = table[o]
        BY <3>2, <1>0, <1>7 DEF NamesAreRight
      <4>. QED
        <5>1. table[o].type # "clip"
          BY <4>1, <2>1
        <5>2. DrawsAreBounded(y, table, box)
          BY <1>0
        <5>3. /\ AreaOf(box, table[o]) \cap table[o].scissor \subseteq table[o].bounds
              /\ IsFiniteSet(table[o].bounds)
              /\ table[o].dst => k > 1 /\ i = 1 /\ table[o].bounds = y.passes[k - 1].copy
          BY <5>1, <5>2 DEF DrawsAreBounded
        <5>. QED
          BY <4>1, <5>3
    <3>. QED
      BY <3>1, <3>2
  <2>2. IsFiniteSet(y.bounds)
    BY <1>0 DEF DrawsAreBounded
  <2>. QED
    BY <2>1, <2>2 DEF DrawsAreBounded
<1>12. LayerInv(y, other, l, box, loads)
  BY <1>9, <1>11 DEF LayerInv
<1>13. t \in Uses(y)
  <2>1. t \in ToSet(y.passes[K].ops)
    BY <1>1, <1>2 DEF ToSet, t, calls
  <2>. QED
    BY <2>1, <1>1 DEF Uses
<1>14. ASSUME NEW p
       PROVE  LayerShows(y, other, box, R, p) = LayerShows(y, table, box, R, p) \o Inked(y, table, box, d, R, p)
  <2>. DEFINE ink == Inked(y, table, box, d, R, p)
              f == [i \in DOMAIN calls |-> Added(y, table, box, R, K, i, p)]
              g == [i \in DOMAIN calls |-> Added(y, other, box, R, K, i, p)]
  <2>1. ASSUME NEW k \in DOMAIN y.passes, NEW i \in DOMAIN y.passes[k].ops, ~ (k = K /\ i = at)
        PROVE  Added(y, other, box, R, k, i, p) = Added(y, table, box, R, k, i, p)
    <3>. DEFINE o == y.passes[k].ops[i]
    <3>1. o # t
      <4>. SUFFICES ASSUME o = t PROVE FALSE
        OBVIOUS
      <4>1. y.passes[k].ops[i] = y.passes[K].ops[at] /\ table[y.passes[k].ops[i]].type # "clip"
        BY <1>2 DEF t, calls
      <4>2. k = K /\ i = at
        <5>1. K \in DOMAIN y.passes /\ at \in DOMAIN y.passes[K].ops
          BY <1>1, <1>2 DEF calls
        <5>2. PlacesAreRight(y, table)
          BY <1>0
        <5>. QED
          BY <4>1, <5>1, <5>2 DEF PlacesAreRight
      <4>. QED
        BY <4>2, <2>1
    <3>2. other[o] = table[o]
      BY <3>1, <1>0, <1>7 DEF NamesAreRight
    <3>3. Reaches(y, other, k, i, p) <=> Reaches(y, table, k, i, p)
      BY <1>9
    <3>. QED
      BY <3>2, <3>3 DEF Added
  <2>2. \A k \in DOMAIN y.passes : k # K => PassShows(y, other, box, R, k, p) = PassShows(y, table, box, R, k, p)
    BY <2>1, PassSame
  <2>3. /\ p \in AreaOf(box, d) => Ink(d, p, R) \in Seq(Nat)
        /\ p \notin AreaOf(box, d) => Ink(d, p, R) = <<>>
    <3>1. d.type = "layer" => d.child \in DOMAIN box
      BY <1>2
    <3>2. d.type # "layer"
      BY <1>2
    <3>. QED
      BY <3>1, <3>2, <1>4, InkIs
  <2>4. ink \in Seq(Nat)
    <3>1. <<>> \in Seq(Nat)
      OBVIOUS
    <3>. QED
      BY <3>1, <2>3 DEF Inked
  <2>5. /\ Ink(table[t], p, R) \in Seq(Nat)
        /\ p \notin AreaOf(box, table[t]) => Ink(table[t], p, R) = <<>>
    <3>1. table[t] \in Draws
      BY <1>3, DrawTypes
    <3>2. table[t].type = "layer" => table[t].child \in DOMAIN box
      BY <1>2
    <3>3. table[t].type # "layer"
      BY <1>2
    <3>. QED
      BY <3>1, <3>2, <3>3, InkIs
  <2>6. Reaches(y, table, K, at, p) <=> InsideAll(y, table, p)
    <3>1. table[y.passes[K].ops[at]].type # "clip" /\ IsLast(table[y.passes[K].ops[at]].clip, Stack(y))
          /\ table[y.passes[K].ops[at]].scissor = CurrentClipBounds(y)
      BY <1>2, <1>4 DEF t, calls
    <3>2. at \in DOMAIN y.passes[Len(y.passes)].ops
      BY <1>1, <1>2 DEF calls, K
    <3>3. Reaches(y, table, Len(y.passes), at, p) <=> InsideAll(y, table, p)
      BY <3>1, <3>2, <1>0, ReachesInside DEF K
    <3>. QED
      BY <3>3 DEF K
  <2>7. Added(y, other, box, R, K, at, p) = Added(y, table, box, R, K, at, p) \o ink
    <3>1. Reaches(y, other, K, at, p) <=> InsideAll(y, table, p)
      BY <2>6, <1>1, <1>2, <1>9 DEF calls
    <3>. DEFINE a == Ink(table[t], p, R)  b == Ink(d, p, R)
    <3>2. Added(y, table, box, R, K, at, p)
            = IF InsideAll(y, table, p) /\ p \in AreaOf(box, table[t]) THEN a ELSE <<>>
      BY <2>6, <1>2 DEF Added, t, calls
    <3>3. Added(y, other, box, R, K, at, p)
            = IF InsideAll(y, table, p) /\ (p \in AreaOf(box, table[t]) \/ p \in AreaOf(box, d))
              THEN a \o b ELSE <<>>
      BY <3>1, <1>2, <1>7, <1>10 DEF Added, t, calls
    <3>4. ink = IF InsideAll(y, table, p) /\ p \in AreaOf(box, d) THEN b ELSE <<>>
      BY DEF Inked
    <3>5. a \in Seq(Nat) /\ (p \notin AreaOf(box, table[t]) => a = <<>>)
          /\ (p \in AreaOf(box, d) => b \in Seq(Nat)) /\ (p \notin AreaOf(box, d) => b = <<>>)
      BY <2>3, <2>5
    <3>6. <<>> \in Seq(Nat) /\ \A s \in Seq(Nat) : s \o <<>> = s /\ <<>> \o s = s
      OBVIOUS
    <3>. HIDE DEF a, b, ink
    <3>. QED
      BY <3>2, <3>3, <3>4, <3>5, <3>6
  <2>8. ASSUME ink # <<>>, NEW i \in 1 .. n, i > at PROVE f[i] = <<>>
    <3>. DEFINE a == table[calls[i]]
    <3>1. p \in d.bounds
      <4>1. InsideAll(y, table, p) /\ p \in AreaOf(box, d)
        BY <2>8 DEF Inked
      <4>2. p \in y.clips[Len(y.clips)].bounds
        BY <4>1 DEF InsideAll, Inside
      <4>3. p \in d.scissor
        BY <4>2, <1>4 DEF CurrentClipBounds, Last
      <4>. QED
        BY <4>1, <4>3, <1>4
    <3>2. p \notin a.bounds
      BY <3>1, <2>8, <1>2
    <3>3. a.type # "clip" => AreaOf(box, a) \cap a.scissor \subseteq a.bounds
      BY <1>0, <1>1 DEF DrawsAreBounded, calls
    <3>4. Reaches(y, table, K, i, p) => p \in a.scissor
      BY DEF Reaches, calls
    <3>5. f[i] = Added(y, table, box, R, K, i, p)
      BY <1>1
    <3>. QED
      BY <3>2, <3>3, <3>4, <3>5 DEF Added, calls
  <2>9. PassShows(y, other, box, R, K, p) = PassShows(y, table, box, R, K, p) \o ink
    <3>1. /\ PassShows(y, other, box, R, K, p) = Joined(g, n)
          /\ PassShows(y, table, box, R, K, p) = Joined(f, n)
      BY DEF PassShows, n, calls
    <3>2. \A i \in 1 .. n : f[i] \in Seq(Nat)
      BY <1>0, <1>1, ShowsAreColours DEF calls
    <3>3. g[at] = f[at] \o ink
      BY <2>7, <1>1, <1>2
    <3>4. \A i \in 1 .. n : i # at => g[i] = f[i]
      BY <2>1, <1>1 DEF calls
    <3>5. ink # <<>> => \A i \in at + 1 .. n : f[i] = <<>>
      <4>1. \A i \in at + 1 .. n : i \in 1 .. n /\ i > at
        BY <1>1, <1>2
      <4>. HIDE DEF f, ink
      <4>. QED
        BY <4>1, <2>8
    <3>. HIDE DEF f, g, ink
    <3>6. MoreAt(Nat, f, g, n, at, ink)
      BY <2>4, <3>2, <3>3, <3>4, <3>5, <1>1, <1>2 DEF MoreAt
    <3>7. Joined(g, n) = Joined(f, n) \o ink
      BY <3>6, JoinedGrows
    <3>. QED
      BY <3>1, <3>7
  <2>. HIDE DEF ink
  <2>10. LastPassGrows(y, other, y, table, box, R, p, ink)
    BY <2>2, <2>4, <2>9, <1>1 DEF LastPassGrows, K
  <2>11. NamesAreRight(y, table, l, box)
    BY <1>0
  <2>12. LayerShows(y, other, box, R, p) = LayerShows(y, table, box, R, p) \o ink
    BY <2>10, <2>11, ShowsMore
  <2>. QED
    BY <2>12 DEF ink
<1>15. DOMAIN other = DOMAIN table
  BY <1>7
<1>16. \A c \in DOMAIN table :
          /\ c \notin Uses(y) => other[c] = table[c]
          /\ other[c].type = table[c].type /\ other[c].child = table[c].child
          /\ other[c].clip = table[c].clip
          /\ table[c].type = "clip" => other[c] = table[c]
  <2>. SUFFICES ASSUME NEW c \in DOMAIN table
                PROVE  /\ c \notin Uses(y) => other[c] = table[c]
                       /\ other[c].type = table[c].type /\ other[c].child = table[c].child
                       /\ other[c].clip = table[c].clip
                       /\ table[c].type = "clip" => other[c] = table[c]
    OBVIOUS
  <2>1. CASE c = t
    BY <2>1, <1>2, <1>7, <1>13
  <2>2. CASE c # t
    BY <2>2, <1>7
  <2>. QED
    BY <2>1, <2>2
<1>17. Adds(y, table, y, other, l, box, loads, d, R)
  BY <1>7, <1>12, <1>14, <1>15, <1>16 DEF Adds
<1>. QED
  BY <1>7, <1>17 DEF r, other, t, calls, K

\* The clip of a draw is the last one of the stack.
LEMMA LastClipIs ==
  ASSUME NEW y \in Layers, NEW table, ClipsAreNested(y, table)
  PROVE  IsLast(LastClipDraw(y), Stack(y)) /\ LastClipDraw(y) \in Nat
<1>. DEFINE n == Len(y.clips)
            f == [i \in DOMAIN y.clips |-> y.clips[i].draws]
            s == ClipDraws(y)
<1>1. n \in Nat /\ DOMAIN y.clips = 1 .. n /\ \A i \in 1 .. n : y.clips[i].draws \in Seq(Nat)
  BY LayerTypes
<1>2. f \in Seq(Seq(Nat)) /\ Len(f) = n /\ \A i \in 1 .. n : f[i] \in Seq(Nat)
  BY <1>1
<1>3. \A i \in 1 .. n : f[i] = y.clips[i].draws
  BY <1>1
<1>4. s = FlattenSeq(f)
  BY DEF ClipDraws
<1>. HIDE DEF f, s, n
<1>5. s = Joined(f, n)
  BY <1>2, <1>4, FlattenIsJoined
<1>6. s \in Seq(Nat)
  BY <1>1, <1>2, <1>5, JoinedIs, Zenon
<1>7. ToSet(s) = Stack(y)
  <2>1. ToSet(s) = UNION {ToSet(f[i]) : i \in 1 .. n}
    BY <1>1, <1>2, <1>5, JoinedMembers, Zenon
  <2>2. {ToSet(f[i]) : i \in 1 .. n} = {ToSet(y.clips[i].draws) : i \in 1 .. n}
    BY <1>3
  <2>. QED
    BY <2>1, <2>2 DEF Stack, StackTo, n
<1>8. Grows(s)
  <2>1. \A i \in 1 .. n : f[i] \in Seq(Nat) /\ Grows(f[i])
    BY <1>1, <1>2, <1>3 DEF ClipsAreNested, Grows
  <2>2. \A i, j \in 1 .. n : i < j => \A a \in ToSet(f[i]), b \in ToSet(f[j]) : a < b
    BY <1>1, <1>3 DEF ClipsAreNested
  <2>3. Grows(Joined(f, n))
    BY <2>1, <2>2, <1>1, JoinedSorted, Zenon
  <2>. QED
    BY <2>3, <1>5
<1>9. CASE s = <<>>
  <2>1. LastClipDraw(y) = 0
    BY <1>9 DEF LastClipDraw, s
  <2>2. Stack(y) = {}
    BY <1>7, <1>9 DEF ToSet
  <2>. QED
    BY <2>1, <2>2 DEF IsLast
<1>10. CASE s # <<>>
  <2>1. Len(s) \in Nat /\ Len(s) \in 1 .. Len(s) /\ DOMAIN s = 1 .. Len(s)
    BY <1>6, <1>10, EmptySeq
  <2>2. LastClipDraw(y) = s[Len(s)]
    BY <1>10 DEF LastClipDraw, s, Last
  <2>3. s[Len(s)] \in Nat /\ s[Len(s)] \in Stack(y)
    BY <2>1, <1>6, <1>7 DEF ToSet
  <2>4. ASSUME NEW c \in Stack(y) PROVE c <= s[Len(s)]
    <3>1. PICK i \in 1 .. Len(s) : c = s[i]
      BY <2>1, <1>7 DEF ToSet
    <3>2. i = Len(s) \/ i < Len(s)
      <4>1. PICK m \in Nat : m = Len(s)
        BY <2>1
      <4>2. i \in 1 .. m
        BY <4>1
      <4>3. i = m \/ i < m
        BY <4>2
      <4>. QED
        BY <4>1, <4>3
    <3>3. i < Len(s) => s[i] < s[Len(s)]
      BY <2>1, <1>8 DEF Grows
    <3>4. s[i] \in Nat
      BY <1>6, <2>1
    <3>. QED
      BY <3>1, <3>2, <3>3, <3>4, <2>3
  <2>. QED
    BY <2>2, <2>3, <2>4 DEF IsLast
<1>. QED
  BY <1>9, <1>10

SameClips(z, other, y, table) ==
    /\ z.clips = y.clips
    /\ \A c \in Stack(y) : other[c].writes = table[c].writes

\* The clips of a layer let through the same when they are the same.
LEMMA InsideSame ==
  ASSUME NEW y, NEW table, NEW z, NEW other, SameClips(z, other, y, table)
  PROVE  /\ Stack(z) = Stack(y)
         /\ \A p : InsideAll(z, other, p) <=> InsideAll(y, table, p)
         /\ \A box, d, R, p : Inked(z, other, box, d, R, p) = Inked(y, table, box, d, R, p)
<1>0. z.clips = y.clips /\ \A c \in Stack(y) : other[c].writes = table[c].writes
  BY DEF SameClips
<1>1. StackTo(z, Len(y.clips)) = StackTo(y, Len(y.clips)) /\ Stack(z) = Stack(y)
  BY <1>0 DEF Stack, StackTo
<1>2. \A p : InsideAll(z, other, p) <=> InsideAll(y, table, p)
  BY <1>0, <1>1 DEF InsideAll, Inside, Stack
<1>. QED
  BY <1>1, <1>2 DEF Inked

\* A new layer shows nothing.
LEMMA NewLayerIs ==
  ASSUME NEW origin \in Int, NEW bounds \in SUBSET Int, IsFiniteSet(bounds),
         NEW table, NEW l, NEW box, NEW loads
  PROVE  LET z == NewLayer(origin, bounds)
         IN  /\ z \in Layers /\ z.origin = origin /\ z.bounds = bounds
             /\ Len(z.clips) = 1 /\ z.clips[1].bounds = bounds
             /\ LayerInv(z, table, l, box, loads)
             /\ Uses(z) = {0}
             /\ StackTo(z, 1) = {} /\ Stack(z) = {}
             /\ \A R, p : LayerShows(z, table, box, R, p) = <<>>
<1>. DEFINE z == NewLayer(origin, bounds)
<1>1. z.origin = origin /\ z.bounds = bounds /\ z.depth = 0 /\ z.history = <<>>
      /\ z.clips = <<[draws |-> <<>>, bounds |-> bounds]>> /\ z.passes = <<NewPass>> /\ z.pending = <<>>
  BY DEF NewLayer
<1>2. /\ Len(z.clips) = 1 /\ DOMAIN z.clips = {1} /\ z.clips # <<>>
      /\ z.clips[1] = [draws |-> <<>>, bounds |-> bounds]
      /\ Len(z.passes) = 1 /\ DOMAIN z.passes = {1} /\ z.passes # <<>> /\ z.passes[1] = NewPass
      /\ DOMAIN z.history = {} /\ DOMAIN z.pending = {}
  BY <1>1
<1>3. /\ z.passes[1].ops = <<>> /\ z.passes[1].replayed = 0 /\ z.passes[1].firstDepth = 0
      /\ z.passes[1].load = 0 /\ z.passes[1].copy = {}
      /\ z.clips[1].draws = <<>> /\ z.clips[1].bounds = bounds
      /\ DOMAIN z.passes[1].ops = {} /\ DOMAIN z.clips[1].draws = {}
      /\ Len(z.history) = 0
  BY <1>1, <1>2 DEF NewPass
<1>4. z \in Layers
  <2>1. NewPass \in Passes
    BY DEF NewPass, Passes
  <2>2. [draws |-> <<>>, bounds |-> bounds] \in Levels
    BY DEF Levels
  <2>3. \A S, x : x \in S => <<x>> \in Seq(S)
    OBVIOUS
  <2>4. <<NewPass>> \in Seq(Passes) /\ <<[draws |-> <<>>, bounds |-> bounds]>> \in Seq(Levels)
    BY <2>1, <2>2, <2>3
  <2>. QED
    BY <2>4 DEF NewLayer, Layers
<1>. HIDE DEF z
<1>5. /\ ToSet(z.history) = {} /\ ToSet(z.pending) = {} /\ ToSet(z.clips[1].draws) = {}
      /\ ToSet(z.passes[1].ops) = {}
  BY <1>2, <1>3 DEF ToSet
<1>6. StackTo(z, 1) = {} /\ Stack(z) = {}
  <2>1. StackTo(z, 1) = {}
    <3>1. \A i \in 1 .. 1 : i = 1
      OBVIOUS
    <3>. QED
      BY <3>1, <1>5 DEF StackTo
  <2>. QED
    BY <2>1, <1>2 DEF Stack
<1>7. Uses(z) = {0}
  BY <1>2, <1>3, <1>5 DEF Uses
<1>8. LayerInv(z, table, l, box, loads)
  <2>1. NamesAreRight(z, table, l, box)
    BY <1>2, <1>3, <1>5, <1>6 DEF NamesAreRight
  <2>2. PlacesAreRight(z, table)
    BY <1>2, <1>3 DEF PlacesAreRight
  <2>3. ClipsAreNested(z, table)
    BY <1>1, <1>2, <1>3, <1>5 DEF ClipsAreNested
  <2>4. DepthsAreRight(z, table)
    BY <1>1, <1>2, <1>3, <1>5 DEF DepthsAreRight
  <2>5. DrawsAreBounded(z, table, box)
    BY <1>1, <1>2, <1>3 DEF DrawsAreBounded
  <2>6. LoadsAreRight(z, table, loads)
    BY <1>2, <1>3 DEF LoadsAreRight
  <2>7. ClipsAreDrawn(z, table)
    BY <1>2, <1>3, <1>6 DEF ClipsAreDrawn
  <2>. QED
    BY <2>1, <2>2, <2>3, <2>4, <2>5, <2>6, <2>7 DEF LayerInv
<1>9. ASSUME NEW R, NEW p PROVE LayerShows(z, table, box, R, p) = <<>>
  <2>. DEFINE f == [k \in DOMAIN z.passes |-> PassShows(z, table, box, R, k, p)]
              g == [i \in DOMAIN z.passes[1].ops |-> Added(z, table, box, R, 1, i, p)]
  <2>1. PassShows(z, table, box, R, 1, p) = Joined(g, 0)
    <3>1. Len(z.passes[1].ops) = 0
      BY <1>3
    <3>. QED
      BY <3>1 DEF PassShows
  <2>2. Joined(g, 0) = <<>>
    <3>. HIDE DEF g
    <3>1. \A i \in 1 .. 0 : g[i] \in Seq(Nat)
      OBVIOUS
    <3>. QED
      BY <3>1, JoinedIs, Zenon
  <2>3. f[1] = <<>> /\ LayerShows(z, table, box, R, p) = Joined(f, 1)
    BY <2>1, <2>2, <1>2 DEF LayerShows
  <2>. HIDE DEF f, g
  <2>4. EmptyFrom(Nat, f, 1, 0)
    <3>1. \A i \in 1 .. 1 : i = 1
      OBVIOUS
    <3>2. \A i \in 0 + 1 .. 1 : i = 1
      OBVIOUS
    <3>3. <<>> \in Seq(Nat)
      OBVIOUS
    <3>4. \A i \in 1 .. 1 : f[i] \in Seq(Nat)
      BY <3>1, <3>3, <2>3
    <3>5. \A i \in 0 + 1 .. 1 : f[i] = <<>>
      BY <3>2, <2>3
    <3>6. 1 \in Nat /\ 0 \in 0 .. 1
      OBVIOUS
    <3>. QED
      BY <3>4, <3>5, <3>6, Zenon DEF EmptyFrom
  <2>5. Joined(f, 1) = Joined(f, 0)
    BY <2>4, JoinedTail
  <2>6. Joined(f, 0) = <<>>
    <3>1. \A i \in 1 .. 0 : f[i] \in Seq(Nat)
      OBVIOUS
    <3>. QED
      BY <3>1, JoinedIs, Zenon
  <2>. QED
    BY <2>3, <2>5, <2>6
<1>. QED
  BY <1>1, <1>2, <1>3, <1>4, <1>6, <1>7, <1>8, <1>9 DEF z

\* A draw that reads the destination opens a pass of its own.
LEMMA SplitAdds ==
  ASSUME NEW y \in Layers, NEW table \in Seq(Draws), NEW l, NEW box, msaa \in BOOLEAN,
         LayerInv(y, table, l, box, msaa), y.pending = <<>>,
         NEW d, CanAdd(y, table, l, box, d), NEW R, Colours(box, R)
  PROVE  LET r == Appended(Split([layer |-> y, draws |-> table], d), d)
         IN  /\ Adds(y, table, r.layer, r.draws, l, box, msaa, d, R)
             /\ Ends(r.layer, r.draws, d)
<1>. DEFINE s == Split([layer |-> y, draws |-> table], d)
            x == s.layer
            mid == s.draws
            r == Appended(s, d)
            z == r.layer
            other == r.draws
<1>0. d \in Draws
  BY DEF CanAdd
<1>1. /\ s = [layer |-> x, draws |-> mid]
      /\ x \in Layers /\ mid \in Seq(Draws)
      /\ mid = table \/ mid = Append(table, LoadDraw(y))
      /\ LoadDraw(y) \in Draws /\ LoadDraw(y).type = "load" /\ LoadDraw(y).clip = 0
      /\ LayerInv(x, mid, l, box, msaa)
      /\ x.origin = y.origin /\ x.bounds = y.bounds /\ x.clips = y.clips /\ x.pending = <<>>
      /\ Len(x.passes) > 1 /\ x.passes[Len(x.passes)].ops = <<>>
      /\ x.passes[Len(x.passes) - 1].copy = d.bounds
      /\ Uses(x) \subseteq Uses(y) \cup {Len(table) + 1}
      /\ \A p : LayerShows(x, mid, box, R, p) = LayerShows(y, table, box, R, p)
  <2>1. Splits(y, table, l, box, d, R)
    BY <1>0, SplitKeeps
  <2>. QED
    BY <2>1 DEF Splits
<1>. HIDE DEF s, x, mid
<1>3. /\ DOMAIN table \subseteq DOMAIN mid
      /\ \A c \in DOMAIN table : mid[c] = table[c]
      /\ \A c \in DOMAIN mid \ DOMAIN table : c = Len(table) + 1 /\ mid[c].type = "load" /\ mid[c].clip = 0
      /\ Len(table) + 1 \in DOMAIN mid \/ Len(mid) = Len(table)
  <2>1. CASE mid = table
    BY <2>1
  <2>2. CASE mid = Append(table, LoadDraw(y))
    <3>. DEFINE load == LoadDraw(y)
    <3>. HIDE DEF load
    <3>1. load \in Draws /\ load.type = "load" /\ load.clip = 0 /\ mid = Append(table, load)
      BY <1>1, <2>2 DEF load
    <3>2. /\ Len(mid) = Len(table) + 1 /\ mid[Len(table) + 1] = load
          /\ \A c \in 1 .. Len(table) : mid[c] = table[c]
      BY <3>1, AppendProperties
    <3>3. DOMAIN mid = 1 .. Len(table) + 1 /\ DOMAIN table = 1 .. Len(table)
      BY <1>1, <3>2
    <3>4. 1 .. Len(table) + 1 = 1 .. Len(table) \cup {Len(table) + 1} /\ Len(table) + 1 \notin 1 .. Len(table)
      OBVIOUS
    <3>. QED
      BY <3>1, <3>2, <3>3, <3>4
  <2>. QED
    BY <2>1, <2>2, <1>1
<1>4. CurrentClipBounds(x) = CurrentClipBounds(y) /\ Stack(x) = Stack(y)
  BY <1>1 DEF CurrentClipBounds, Stack, StackTo
<1>5. CanAdd(x, mid, l, box, d)
  BY <1>4 DEF CanAdd
<1>6. /\ Adds(x, mid, z, other, l, box, msaa, d, R)
      /\ Ends(z, other, d)
      /\ DOMAIN other = DOMAIN mid \cup {Len(mid) + 1}
  <2>1. d.dst => /\ Len(x.passes) > 1 /\ x.passes[Len(x.passes)].ops = <<>>
                 /\ d.bounds = x.passes[Len(x.passes) - 1].copy
    BY <1>1
  <2>2. LET q == Appended([layer |-> x, draws |-> mid], d)
        IN  /\ Adds(x, mid, q.layer, q.draws, l, box, msaa, d, R)
            /\ Ends(q.layer, q.draws, d)
            /\ DOMAIN q.draws = DOMAIN mid \cup {Len(mid) + 1}
    BY <2>1, <1>1, <1>5, AppendAdds
  <2>. QED
    BY <2>2, <1>1
<1>. HIDE DEF r, z, other
<1>7. /\ z \in Layers /\ other \in Seq(Draws) /\ DOMAIN mid \subseteq DOMAIN other
      /\ LayerInv(z, other, l, box, msaa)
      /\ z.origin = x.origin /\ z.bounds = x.bounds /\ z.clips = x.clips /\ z.pending = <<>>
      /\ Uses(z) \subseteq Uses(x) \cup (DOMAIN other \ DOMAIN mid)
      /\ \A c \in DOMAIN mid :
            /\ c \notin Uses(x) => other[c] = mid[c]
            /\ other[c].type = mid[c].type /\ other[c].child = mid[c].child
            /\ other[c].clip = mid[c].clip
            /\ mid[c].type = "clip" => other[c] = mid[c]
      /\ \A c \in DOMAIN other \ DOMAIN mid :
            /\ other[c].clip \in {0, d.clip}
            /\ other[c].type # "load" =>
                  other[c].type = d.type /\ other[c].child = d.child /\ c = Len(other)
      /\ \A p : LayerShows(z, other, box, R, p)
                  = LayerShows(x, mid, box, R, p) \o Inked(x, mid, box, d, R, p)
  BY <1>6 DEF Adds
<1>8. Len(table) + 1 \in DOMAIN other \ DOMAIN table
  <2>1. Len(table) + 1 \notin DOMAIN table
    OBVIOUS
  <2>. QED
    BY <2>1, <1>3, <1>6
<1>9. \A p : Inked(x, mid, box, d, R, p) = Inked(y, table, box, d, R, p)
  <2>1. \A c \in Stack(y) : mid[c].writes = table[c].writes
    <3>1. Stack(y) \subseteq DOMAIN table
      BY DEF LayerInv, NamesAreRight, ToSet
    <3>. QED
      BY <3>1, <1>3
  <2>2. SameClips(x, mid, y, table)
    BY <2>1, <1>1 DEF SameClips
  <2>. QED
    BY <2>2, InsideSame
<1>10. Adds(y, table, z, other, l, box, msaa, d, R)
  <2>1. ASSUME NEW c \in DOMAIN table
        PROVE  /\ c \notin Uses(y) => other[c] = table[c]
               /\ other[c].type = table[c].type /\ other[c].child = table[c].child
               /\ other[c].clip = table[c].clip
               /\ table[c].type = "clip" => other[c] = table[c]
    <3>1. c \in DOMAIN mid /\ mid[c] = table[c] /\ c # Len(table) + 1
      BY <1>3, <1>8
    <3>2. c \notin Uses(y) => c \notin Uses(x)
      BY <3>1, <1>1
    <3>. QED
      BY <3>1, <3>2, <1>7
  <2>2. ASSUME NEW c \in DOMAIN other \ DOMAIN table
        PROVE  /\ other[c].clip \in {0, d.clip}
               /\ other[c].type # "load" =>
                     other[c].type = d.type /\ other[c].child = d.child /\ c = Len(other)
    <3>1. CASE c \in DOMAIN mid
      BY <3>1, <1>3, <1>7
    <3>2. CASE c \notin DOMAIN mid
      BY <3>2, <1>7
    <3>. QED
      BY <3>1, <3>2
  <2>3. Uses(z) \subseteq Uses(y) \cup (DOMAIN other \ DOMAIN table)
    BY <1>1, <1>3, <1>7, <1>8
  <2>4. DOMAIN table \subseteq DOMAIN other
    BY <1>3, <1>7
  <2>. QED
    BY <2>1, <2>2, <2>3, <2>4, <1>1, <1>7, <1>9 DEF Adds
<1>. QED
  BY <1>6, <1>10 DEF z, other, r, s

\* What a caller of AddDraw hands over.
CanDraw(y, l, box, draw, bounds) ==
    /\ draw \in Draws /\ draw.type \in {"shape", "path", "layer"}
    /\ bounds \in SUBSET Int
    /\ AreaOf(box, draw) \cap CurrentClipBounds(y) \subseteq bounds
    /\ draw.type = "layer" => draw.child \in DOMAIN box /\ draw.child > l
    /\ draw.type = "shape" => \E item \in [id : Nat, pixels : SUBSET Int] : draw.items = <<item>>

\* The draw as it is added.
Prepared(d, y, draw, bounds) ==
    /\ d \in Draws
    /\ d.type = draw.type /\ d.dst = draw.dst /\ d.items = draw.items /\ d.child = draw.child
    /\ d.scissor = CurrentClipBounds(y) /\ IsLast(d.clip, Stack(y)) /\ d.bounds = bounds \cap y.bounds

\* What AddDraw sets the scissor, the clip and the bounds of can be added.
LEMMA PreparedIs ==
  ASSUME NEW y \in Layers, NEW table, NEW l, NEW box, NEW loads, LayerInv(y, table, l, box, loads),
         NEW draw, NEW bounds, CanDraw(y, l, box, draw, bounds)
  PROVE  LET d == [draw EXCEPT !.scissor = CurrentClipBounds(y), !.clip = LastClipDraw(y),
                               !.bounds = bounds \cap y.bounds]
         IN  Prepared(d, y, draw, bounds) /\ CanAdd(y, table, l, box, d)
<1>. DEFINE d == [draw EXCEPT !.scissor = CurrentClipBounds(y), !.clip = LastClipDraw(y),
                              !.bounds = bounds \cap y.bounds]
            n == Len(y.clips)
<1>1. NamesAreRight(y, table, l, box) /\ ClipsAreNested(y, table) /\ DrawsAreBounded(y, table, box)
  BY DEF LayerInv
<1>2. n \in DOMAIN y.clips /\ CurrentClipBounds(y) = y.clips[n].bounds
      /\ y.clips[n].bounds \subseteq y.bounds /\ y.clips[n].bounds \in SUBSET Int
  <2>1. y.clips # <<>>
    BY <1>1 DEF NamesAreRight
  <2>2. n \in DOMAIN y.clips
    BY <2>1, LayerTypes, EmptySeq
  <2>. QED
    BY <2>2, <1>1, LayerTypes DEF CurrentClipBounds, Last, ClipsAreNested
<1>3. IsLast(LastClipDraw(y), Stack(y)) /\ LastClipDraw(y) \in Nat
  BY <1>1, LastClipIs
<1>4. IsFiniteSet(bounds \cap y.bounds) /\ bounds \cap y.bounds \in SUBSET Int
  <2>1. IsFiniteSet(y.bounds) /\ bounds \cap y.bounds \subseteq y.bounds
    BY <1>1 DEF DrawsAreBounded
  <2>. QED
    BY <2>1, FS_Subset DEF CanDraw
<1>5. draw \in Draws
  BY DEF CanDraw
<1>6. /\ d \in Draws
      /\ d.type = draw.type /\ d.dst = draw.dst /\ d.items = draw.items /\ d.child = draw.child
      /\ d.scissor = CurrentClipBounds(y) /\ d.clip = LastClipDraw(y) /\ d.bounds = bounds \cap y.bounds
  BY <1>2, <1>3, <1>4, <1>5 DEF Draws
<1>. HIDE DEF d
<1>7. Prepared(d, y, draw, bounds)
  BY <1>3, <1>6 DEF Prepared
<1>8. AreaOf(box, d) = AreaOf(box, draw)
  BY <1>6 DEF AreaOf
<1>9. AreaOf(box, d) \cap d.scissor \subseteq d.bounds
  BY <1>2, <1>6, <1>8 DEF CanDraw
<1>10. CanAdd(y, table, l, box, d)
  BY <1>3, <1>4, <1>6, <1>9 DEF CanAdd, CanDraw
<1>. QED
  BY <1>7, <1>10 DEF d

\* A draw is added to a layer as it is to the layer with its clips flushed.
LEMMA AddsFlushed ==
  ASSUME NEW y \in Layers, NEW table \in Seq(Draws), NEW l, NEW box, NEW loads,
         LayerInv(y, table, l, box, loads), NEW R, Colours(box, R), NEW d, NEW z, NEW other,
         Adds(FlushPendingClip(y), table, z, other, l, box, loads, d, R)
  PROVE  Adds(y, table, z, other, l, box, loads, d, R)
<1>. DEFINE x == FlushPendingClip(y)
<1>1. /\ \A p : LayerShows(x, table, box, R, p) = LayerShows(y, table, box, R, p)
      /\ Uses(x) = Uses(y)
  BY FlushKeeps
<1>2. x.clips = y.clips /\ x.origin = y.origin /\ x.bounds = y.bounds
  BY FlushIs DEF LayerInv, NamesAreRight
<1>. HIDE DEF x
<1>3. SameClips(x, table, y, table)
  BY <1>2 DEF SameClips
<1>4. \A p : Inked(x, table, box, d, R, p) = Inked(y, table, box, d, R, p)
  BY <1>3, InsideSame
<1>5. Adds(x, table, z, other, l, box, loads, d, R)
  BY DEF x
<1>. QED
  BY <1>1, <1>2, <1>4, <1>5 DEF Adds

\* A draw outside of the layer adds nothing.
LEMMA NothingAdds ==
  ASSUME NEW y \in Layers, NEW table \in Seq(Draws), NEW l, NEW box, NEW loads,
         LayerInv(y, table, l, box, loads), y.pending = <<>>,
         NEW d, CanAdd(y, table, l, box, d), d.bounds = {},
         NEW R, Colours(box, R)
  PROVE  Adds(y, table, y, table, l, box, loads, d, R)
<1>1. ASSUME NEW p PROVE LayerShows(y, table, box, R, p) = LayerShows(y, table, box, R, p) \o Inked(y, table, box, d, R, p)
  <2>1. ~ (InsideAll(y, table, p) /\ p \in AreaOf(box, d))
    <3>. SUFFICES ASSUME InsideAll(y, table, p), p \in AreaOf(box, d) PROVE FALSE
      OBVIOUS
    <3>1. p \in y.clips[Len(y.clips)].bounds
      BY DEF InsideAll, Inside
    <3>2. p \in d.scissor /\ AreaOf(box, d) \cap d.scissor \subseteq d.bounds
      BY <3>1 DEF CanAdd, CurrentClipBounds, Last
    <3>. QED
      BY <3>2
  <2>2. Inked(y, table, box, d, R, p) = <<>>
    BY <2>1 DEF Inked
  <2>3. LayerShows(y, table, box, R, p) \in Seq(Nat)
    BY ShowsAreColours DEF LayerInv
  <2>4. PICK s \in Seq(Nat) : s = LayerShows(y, table, box, R, p)
    BY <2>3
  <2>5. s \o <<>> = s
    OBVIOUS
  <2>. QED
    BY <2>2, <2>4, <2>5
<1>. QED
  BY <1>1 DEF Adds

\* HWLayer::AddDraw, on its three ways, adds the draw inside of the clips of the stack.
LEMMA AddDrawAdds ==
  ASSUME NEW id \in DOMAIN layers, layers[id] \in Layers, draws \in Seq(Draws), msaa \in BOOLEAN,
         NEW box, LayerInv(layers[id], draws, id, box, msaa),
         NEW draw, NEW bounds, CanDraw(layers[id], id, box, draw, bounds),
         NEW R, Colours(box, R)
  PROVE  LET r == AddDraw(id, draw, bounds)
         IN  \E d : /\ Prepared(d, layers[id], draw, bounds)
                    /\ Adds(layers[id], draws, r.layer, r.draws, id, box, msaa, d, R)
                    /\ draw.type = "layer" /\ bounds \cap layers[id].bounds # {} => Ends(r.layer, r.draws, d)
<1>. DEFINE y == layers[id]
            x == FlushPendingClip(y)
            d == [draw EXCEPT !.scissor = CurrentClipBounds(x), !.clip = LastClipDraw(x),
                              !.bounds = bounds \cap x.bounds]
            start == [layer |-> x, draws |-> draws]
            queue == Last(x.passes).ops
            target == MergeTarget(draws, queue, d)
            r == AddDraw(id, draw, bounds)
<1>3. r = IF d.dst
          THEN IF d.bounds = {} THEN start ELSE Appended(Split(start, d), d)
          ELSE IF target = {} THEN Appended(start, d)
          ELSE Merged(start, queue[CHOOSE i \in target : TRUE], d)
  BY Zenon DEF AddDraw
<1>. HIDE DEF x, d, r, y
<1>1. y \in Layers /\ y = layers[id]
  BY DEF y
<1>2. LayerInv(y, draws, id, box, msaa) /\ CanDraw(y, id, box, draw, bounds)
  BY <1>1
<1>4. /\ x \in Layers /\ x.clips = y.clips /\ x.bounds = y.bounds /\ x.pending = <<>> /\ x.passes # <<>>
  <2>1. y.passes # <<>>
    BY <1>2 DEF LayerInv, NamesAreRight
  <2>2. /\ x \in Layers /\ x.clips = y.clips /\ x.bounds = y.bounds /\ x.pending = <<>>
        /\ Len(y.passes) > 0 /\ Len(y.passes) \in Nat /\ Len(x.passes) = Len(y.passes)
    BY <2>1, <1>1, FlushIs DEF x
  <2>3. x.passes # <<>>
    BY <2>2
  <2>. QED
    BY <2>2, <2>3
<1>5. LayerInv(x, draws, id, box, msaa)
  BY <1>1, <1>2, FlushKeeps DEF x
<1>6. CurrentClipBounds(x) = CurrentClipBounds(y) /\ Stack(x) = Stack(y)
  BY <1>4 DEF CurrentClipBounds, Stack, StackTo
<1>7. CanDraw(x, id, box, draw, bounds)
  BY <1>2, <1>6 DEF CanDraw
<1>8. Prepared(d, x, draw, bounds) /\ CanAdd(x, draws, id, box, d)
  BY <1>4, <1>5, <1>7, PreparedIs DEF d
<1>9. Prepared(d, y, draw, bounds)
  BY <1>4, <1>6, <1>8 DEF Prepared
<1>10. d.type = draw.type /\ d.bounds = bounds \cap y.bounds
  BY <1>9 DEF Prepared
<1>11. CASE d.dst /\ d.bounds = {}
  <2>1. r.layer = x /\ r.draws = draws
    BY <1>3, <1>11
  <2>2. Adds(x, draws, x, draws, id, box, msaa, d, R)
    BY <1>4, <1>5, <1>8, <1>11, NothingAdds
  <2>3. Adds(y, draws, x, draws, id, box, msaa, d, R)
    BY <2>2, <1>1, <1>2, AddsFlushed DEF x
  <2>. QED
    BY <2>1, <2>3, <1>1, <1>9, <1>10, <1>11 DEF r
<1>12. CASE d.dst /\ d.bounds # {}
  <2>1. r = Appended(Split([layer |-> x, draws |-> draws], d), d)
    BY <1>3, <1>12
  <2>2. Adds(x, draws, r.layer, r.draws, id, box, msaa, d, R) /\ Ends(r.layer, r.draws, d)
    BY <2>1, <1>4, <1>5, <1>8, SplitAdds
  <2>3. Adds(y, draws, r.layer, r.draws, id, box, msaa, d, R)
    BY <2>2, <1>1, <1>2, AddsFlushed DEF x
  <2>. QED
    BY <2>2, <2>3, <1>1, <1>9 DEF r
<1>13. CASE ~ d.dst /\ target = {}
  <2>1. r = Appended([layer |-> x, draws |-> draws], d)
    BY <1>3, <1>13
  <2>2. Adds(x, draws, r.layer, r.draws, id, box, msaa, d, R) /\ Ends(r.layer, r.draws, d)
    BY <2>1, <1>4, <1>5, <1>8, <1>13, AppendAdds
  <2>3. Adds(y, draws, r.layer, r.draws, id, box, msaa, d, R)
    BY <2>2, <1>1, <1>2, AddsFlushed DEF x
  <2>. QED
    BY <2>2, <2>3, <1>1, <1>9 DEF r
<1>14. CASE ~ d.dst /\ target # {}
  <2>1. PICK at \in target : at = CHOOSE i \in target : TRUE
    BY <1>14
  <2>2. queue = x.passes[Len(x.passes)].ops
    BY DEF Last
  <2>3. /\ at \in DOMAIN queue
        /\ MergeIfPossible(draws[queue[at]], d)
        /\ \A j \in at + 1 .. Len(queue) : draws[queue[j]].bounds \cap d.bounds = {}
    BY <2>1 DEF MergeTarget
  <2>4. d.dst = FALSE
    BY <1>14, <1>8 DEF CanAdd, Draws
  <2>5. CanTake(x, draws, box, at, d)
    <3>1. queue \in Seq(Nat)
      <4>1. Len(x.passes) \in DOMAIN x.passes
        BY <1>4, LayerTypes, EmptySeq
      <4>. QED
        BY <4>1, <2>2, <1>4, LayerTypes
    <3>2. ASSUME NEW i \in DOMAIN queue, i > at PROVE i \in at + 1 .. Len(queue)
      <4>1. PICK m \in Nat : m = Len(queue) /\ DOMAIN queue = 1 .. m
        BY <3>1
      <4>2. i \in 1 .. m /\ at \in 1 .. m
        BY <4>1, <2>3
      <4>. QED
        BY <4>1, <4>2, <3>2
    <3>. QED
      BY <3>2, <2>2, <2>3, <2>4 DEF CanTake
  <2>6. r = Merged([layer |-> x, draws |-> draws], x.passes[Len(x.passes)].ops[at], d)
    BY <2>1, <2>2, <1>3, <1>14
  <2>7. Adds(x, draws, r.layer, r.draws, id, box, msaa, d, R)
    BY <2>5, <2>6, <1>4, <1>5, <1>8, MergeAdds
  <2>8. Adds(y, draws, r.layer, r.draws, id, box, msaa, d, R)
    BY <2>7, <1>1, <1>2, AddsFlushed DEF x
  <2>9. draw.type # "layer"
    BY <2>3, <1>10 DEF MergeIfPossible
  <2>. QED
    BY <2>8, <2>9, <1>1, <1>9 DEF r
<1>15. d.dst \in BOOLEAN
  BY <1>8 DEF CanAdd, Draws
<1>. QED
  BY <1>11, <1>12, <1>13, <1>14, <1>15 DEF r
=============================================================================

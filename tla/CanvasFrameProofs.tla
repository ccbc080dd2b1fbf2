-------------------------- MODULE CanvasFrameProofs -------------------------
(***************************************************************************)
(* Proofs about CanvasLayers, for surfaces, frames, layers, clips and      *)
(* draws of any number and size: the frame on the surface is the one the   *)
(* calls asked for, and a Restore brings back what its Save kept.  First   *)
(* the recording: the invariant of the frame, the stacks and the saves,    *)
(* kept by each call.  Then the rendering: the depths, passes and textures *)
(* make of the recorded draws what the invariant says of them.             *)
(***************************************************************************)
EXTENDS CanvasLayersProofs, TLAPS

-----------------------------------------------------------------------------
(* A step of one layer in a frame                                          *)

\* What a layer refers to exists.
LEMMA UsesAreThere ==
  ASSUME NEW y \in Layers, NEW table, NEW l, NEW box, NEW loads, LayerInv(y, table, l, box, loads)
  PROVE  /\ Uses(y) \subseteq DOMAIN table \cup {0}
         /\ \A k \in DOMAIN y.passes : \A i \in DOMAIN y.passes[k].ops : y.passes[k].ops[i] \in Uses(y)
<1>0. NamesAreRight(y, table, l, box) /\ LoadsAreRight(y, table, loads)
  BY DEF LayerInv
<1>1. ToSet(y.history) \subseteq DOMAIN table
  BY <1>0 DEF NamesAreRight, ToSet
<1>2. ASSUME NEW k \in DOMAIN y.passes
      PROVE  ToSet(y.passes[k].ops) \cup {y.passes[k].load} \subseteq DOMAIN table \cup {0}
  <2>1. ToSet(y.passes[k].ops) \subseteq DOMAIN table
    BY <1>0 DEF NamesAreRight, ToSet
  <2>2. y.passes[k].load \in DOMAIN table \cup {0}
    <3>1. k = 1 \/ k > 1
      BY LayerTypes
    <3>. QED
      BY <3>1, <1>0 DEF LoadsAreRight
  <2>. QED
    BY <2>1, <2>2
<1>3. \A k \in DOMAIN y.passes : \A i \in DOMAIN y.passes[k].ops : y.passes[k].ops[i] \in Uses(y)
  BY DEF Uses, ToSet
<1>. QED
  BY <1>1, <1>2, <1>3 DEF Uses

\* One layer of a frame changes, and others may be added.
Changes(ls, table, new, other, id, loads) ==
    /\ ls \in Seq(Layers) /\ new \in Seq(Layers) /\ table \in Seq(Draws) /\ other \in Seq(Draws)
    /\ id \in DOMAIN ls /\ DOMAIN ls \subseteq DOMAIN new /\ DOMAIN table \subseteq DOMAIN other
    /\ \A m \in DOMAIN ls : m # id => new[m] = ls[m]
    /\ new[id].bounds = ls[id].bounds
    /\ LayerInv(new[id], other, id, Boxes(new), loads)
    /\ Uses(new[id]) \subseteq Uses(ls[id]) \cup (DOMAIN other \ DOMAIN table)
    /\ \A c \in DOMAIN table : /\ c \notin Uses(ls[id]) => other[c] = table[c]
                               /\ other[c].type = table[c].type /\ other[c].child = table[c].child
    /\ \A m \in DOMAIN new \ DOMAIN ls :
          LayerInv(new[m], other, m, Boxes(new), loads) /\ Uses(new[m]) \subseteq {0}
    /\ \A c \in DOMAIN other \ DOMAIN table : other[c].type = "layer" =>
          /\ other[c].child \in DOMAIN new \ DOMAIN ls
          /\ \A e \in DOMAIN other \ DOMAIN table : other[e].type = "layer" => e = c

\* The invariant of the frame is kept, and the other layers show the same.
LEMMA FrameStep ==
  ASSUME NEW ls, NEW table, NEW new, NEW other, NEW id, NEW loads,
         FrameInv(ls, table, loads), Changes(ls, table, new, other, id, loads)
  PROVE  /\ FrameInv(new, other, loads)
         /\ \A m \in DOMAIN ls : m # id =>
               /\ \A c \in Uses(ls[m]) \cap DOMAIN table : other[c] = table[c]
               /\ ShowAlike(new[m], other, Boxes(new), ls[m], table, Boxes(ls))
<1>. DEFINE box == Boxes(ls)  box2 == Boxes(new)
<1>1. /\ ls \in Seq(Layers) /\ new \in Seq(Layers) /\ table \in Seq(Draws) /\ other \in Seq(Draws)
      /\ id \in DOMAIN ls /\ DOMAIN ls \subseteq DOMAIN new /\ DOMAIN table \subseteq DOMAIN other
      /\ \A m \in DOMAIN ls : m # id => new[m] = ls[m]
      /\ new[id].bounds = ls[id].bounds
      /\ LayerInv(new[id], other, id, box2, loads)
      /\ Uses(new[id]) \subseteq Uses(ls[id]) \cup (DOMAIN other \ DOMAIN table)
      /\ \A c \in DOMAIN table : /\ c \notin Uses(ls[id]) => other[c] = table[c]
                                 /\ other[c].type = table[c].type /\ other[c].child = table[c].child
      /\ \A m \in DOMAIN new \ DOMAIN ls :
            LayerInv(new[m], other, m, box2, loads) /\ Uses(new[m]) \subseteq {0}
      /\ \A c \in DOMAIN other \ DOMAIN table : other[c].type = "layer" =>
            /\ other[c].child \in DOMAIN new \ DOMAIN ls
            /\ \A e \in DOMAIN other \ DOMAIN table : other[e].type = "layer" => e = c
  BY DEF Changes
<1>2. /\ \A l \in DOMAIN ls : LayerInv(ls[l], table, l, box, loads)
      /\ \A l, m \in DOMAIN ls : l # m => Uses(ls[l]) \cap Uses(ls[m]) \subseteq {0}
      /\ \A d \in DOMAIN table : table[d].type = "layer" => table[d].child \in DOMAIN ls
      /\ \A d, e \in DOMAIN table :
            table[d].type = "layer" /\ table[e].type = "layer" /\ table[d].child = table[e].child
               => d = e
  BY DEF FrameInv
<1>3. \A m \in DOMAIN box : m \in DOMAIN box2 /\ box2[m] = box[m]
  BY <1>1 DEF Boxes
<1>. HIDE DEF box, box2
<1>4. \A m \in DOMAIN ls : ls[m] \in Layers
  BY <1>1
<1>5. 0 \notin DOMAIN table /\ 0 \notin DOMAIN other
  BY <1>1
<1>6. ASSUME NEW m \in DOMAIN ls, m # id
      PROVE  /\ \A c \in Uses(ls[m]) \cap DOMAIN table : other[c] = table[c]
             /\ LayerInv(ls[m], other, m, box2, loads)
             /\ ShowAlike(ls[m], other, box2, ls[m], table, box)
  <2>1. \A c \in Uses(ls[m]) \cap DOMAIN table : other[c] = table[c]
    <3>1. Uses(ls[m]) \cap Uses(ls[id]) \subseteq {0}
      BY <1>1, <1>2, <1>6
    <3>. QED
      BY <3>1, <1>1, <1>5
  <2>2. LayerInv(ls[m], table, m, box, loads) /\ ls[m] \in Layers
    BY <1>2, <1>4
  <2>. QED
    BY <2>1, <2>2, <1>1, <1>3, LayerStays, ZenonT(50)
<1>7. \A m \in DOMAIN new : LayerInv(new[m], other, m, box2, loads)
  BY <1>1, <1>6
<1>8. \A m \in DOMAIN ls : Uses(ls[m]) \subseteq DOMAIN table \cup {0}
  BY <1>2, <1>4, UsesAreThere
<1>9. ASSUME NEW l \in DOMAIN new, NEW m \in DOMAIN new, l # m
      PROVE  Uses(new[l]) \cap Uses(new[m]) \subseteq {0}
  <2>1. CASE l \notin DOMAIN ls \/ m \notin DOMAIN ls
    BY <2>1, <1>1
  <2>2. CASE l \in DOMAIN ls /\ m \in DOMAIN ls
    <3>0. Uses(ls[l]) \cap Uses(ls[m]) \subseteq {0}
      BY <2>2, <1>2, <1>9
    <3>1. CASE l # id /\ m # id
      BY <3>0, <3>1, <2>2, <1>1
    <3>2. CASE l = id
      <4>1. new[m] = ls[m] /\ Uses(ls[m]) \subseteq DOMAIN table \cup {0}
        BY <3>2, <2>2, <1>1, <1>8, <1>9
      <4>. QED
        BY <4>1, <3>0, <3>2, <1>1, <1>5
    <3>3. CASE m = id
      <4>1. new[l] = ls[l] /\ Uses(ls[l]) \subseteq DOMAIN table \cup {0}
        BY <3>3, <2>2, <1>1, <1>8, <1>9
      <4>. QED
        BY <4>1, <3>0, <3>3, <1>1, <1>5
    <3>. QED
      BY <3>1, <3>2, <3>3
  <2>. QED
    BY <2>1, <2>2
<1>10. ASSUME NEW d \in DOMAIN other, other[d].type = "layer"
       PROVE  /\ other[d].child \in DOMAIN new
              /\ d \in DOMAIN table => table[d].type = "layer" /\ other[d].child = table[d].child
                                       /\ other[d].child \in DOMAIN ls
              /\ d \notin DOMAIN table => other[d].child \notin DOMAIN ls
  BY <1>1, <1>2, <1>10
<1>11. ASSUME NEW d \in DOMAIN other, NEW e \in DOMAIN other,
              other[d].type = "layer", other[e].type = "layer", other[d].child = other[e].child
       PROVE  d = e
  <2>1. CASE d \in DOMAIN table
    <3>1. e \in DOMAIN table
      BY <2>1, <1>10, <1>11
    <3>. QED
      BY <2>1, <3>1, <1>2, <1>10, <1>11
  <2>2. CASE d \notin DOMAIN table
    <3>1. e \notin DOMAIN table
      BY <2>2, <1>10, <1>11
    <3>. QED
      BY <2>2, <3>1, <1>1, <1>11
  <2>. QED
    BY <2>1, <2>2
<1>12. FrameInv(new, other, loads)
  BY <1>7, <1>9, <1>10, <1>11 DEF FrameInv, box2
<1>13. \A m \in DOMAIN ls : m # id =>
               /\ \A c \in Uses(ls[m]) \cap DOMAIN table : other[c] = table[c]
               /\ ShowAlike(new[m], other, box2, ls[m], table, box)
  BY <1>1, <1>6
<1>. QED
  BY <1>12, <1>13 DEF box, box2

\* Where nothing else is shown, the pictures stay.
LEMMA PicturesStay ==
  ASSUME NEW ls, NEW table, NEW new, NEW other, NEW id, NEW loads,
         FrameInv(ls, table, loads), Changes(ls, table, new, other, id, loads),
         DOMAIN new = DOMAIN ls, ShowAlike(new[id], other, Boxes(new), ls[id], table, Boxes(ls)),
         NEW R, Pictures(ls, table, R)
  PROVE  Pictures(new, other, R)
<1>1. \A m \in DOMAIN ls : ShowAlike(new[m], other, Boxes(new), ls[m], table, Boxes(ls))
  BY FrameStep
<1>2. \A m \in DOMAIN ls : new[m].bounds = ls[m].bounds
  BY DEF Changes
<1>. QED
  BY <1>1, <1>2 DEF Pictures, ShowAlike

\* The layers that are not the last of the stack still end with the next one.
LEMMA OpenStays ==
  ASSUME NEW stack, NEW ls, NEW table, NEW new, NEW other, NEW loads,
         FrameInv(ls, table, loads), OpenInv(stack, ls, table), stack # <<>>,
         stack \in Seq(Nat), \A s \in DOMAIN stack : stack[s] \in DOMAIN ls,
         Changes(ls, table, new, other, stack[Len(stack)], loads)
  PROVE  OpenInv(stack, new, other)
<1>. DEFINE n == Len(stack)  id == stack[n]
<1>1. n \in Nat /\ n \in 1 .. n /\ DOMAIN stack = 1 .. n /\ 1 \in 1 .. n
  BY EmptySeq
<1>2. /\ \A s, t \in DOMAIN stack : s < t => stack[s] < stack[t]
      /\ stack[1] = 1 /\ ls[1].bounds = Surface
      /\ \A s \in DOMAIN stack : s < n => EndsWith(ls[stack[s]], table, stack[s + 1])
  BY DEF OpenInv
<1>3. /\ ls \in Seq(Layers)
      /\ id \in DOMAIN ls /\ \A m \in DOMAIN ls : m # id => new[m] = ls[m]
      /\ new[id].bounds = ls[id].bounds
  BY DEF Changes
<1>4. new[1].bounds = Surface
  <2>1. 1 \in DOMAIN ls
    BY <1>1, <1>2
  <2>. QED
    BY <2>1, <1>2, <1>3
<1>5. ASSUME NEW s \in DOMAIN stack, s < n PROVE EndsWith(new[stack[s]], other, stack[s + 1])
  <2>. DEFINE m == stack[s]  y == ls[m]  K == Len(y.passes)  calls == y.passes[K].ops  a == calls[Len(calls)]
  <2>1. m \in DOMAIN ls /\ m # id /\ y \in Layers
    <3>1. m < id /\ m \in Nat /\ id \in Nat
      BY <1>1, <1>2, <1>5
    <3>. QED
      BY <3>1, <1>3
  <2>2. new[m] = y /\ \A c \in Uses(y) \cap DOMAIN table : other[c] = table[c]
    BY <2>1, <1>3, FrameStep
  <2>3. LayerInv(y, table, m, Boxes(ls), loads)
    BY <2>1 DEF FrameInv
  <2>4. EndsWith(y, table, stack[s + 1])
    BY <1>2, <1>5
  <2>5. calls # <<>> /\ K \in DOMAIN y.passes /\ Len(calls) \in DOMAIN calls /\ Last(Last(y.passes).ops) = a
    <3>1. calls # <<>> /\ Last(Last(y.passes).ops) = a
      BY <2>4 DEF EndsWith, Last
    <3>2. y.passes # <<>>
      BY <2>3 DEF LayerInv, NamesAreRight
    <3>3. K \in DOMAIN y.passes
      BY <3>2, <2>1, LayerTypes, EmptySeq
    <3>4. calls \in Seq(Nat)
      BY <3>3, <2>1, LayerTypes
    <3>. HIDE DEF calls, K
    <3>. QED
      BY <3>1, <3>3, <3>4, EmptySeq
  <2>6. a \in Uses(y) \cap DOMAIN table
    <3>1. a \in Uses(y)
      BY <2>1, <2>3, <2>5, UsesAreThere
    <3>2. a \in DOMAIN table
      BY <2>3, <2>5 DEF LayerInv, NamesAreRight
    <3>. QED
      BY <3>1, <3>2
  <2>7. other[a] = table[a]
    BY <2>2, <2>6
  <2>. HIDE DEF a, calls, y
  <2>8. EndsWith(y, other, stack[s + 1])
    BY <2>4, <2>5, <2>7 DEF EndsWith
  <2>. QED
    BY <2>2, <2>8
<1>. QED
  BY <1>2, <1>4, <1>5 DEF OpenInv

-----------------------------------------------------------------------------
(* The invariant of the recording, and levels that stay                    *)

StateInv ==
    /\ StateTypes
    /\ FrameInv(layers, draws, msaa)
    /\ ClipNames(draws)
    /\ OpenInv(layerStack, layers, draws)
    /\ SavesInv

\* The clips on the stack of a layer are clips of the frame.
LEMMA StackedClips ==
  ASSUME StateTypes, FrameInv(layers, draws, msaa), NEW l \in DOMAIN layers
  PROVE  /\ layers[l] \in Layers /\ LayerInv(layers[l], draws, l, Boxes(layers), msaa)
         /\ \A c \in Stack(layers[l]) : c \in DOMAIN draws /\ draws[c].type = "clip" /\ c \in Uses(layers[l])
         /\ \A j \in 1 .. Len(layers[l].clips) : StackTo(layers[l], j) \subseteq Stack(layers[l])
<1>. DEFINE y == layers[l]
<1>1. y \in Layers
  BY DEF StateTypes
<1>2. LayerInv(y, draws, l, Boxes(layers), msaa)
  BY DEF FrameInv
<1>3. \A c \in Stack(y) : c \in DOMAIN draws /\ draws[c].type = "clip" /\ c \in Uses(y)
  <2>1. /\ \A i \in DOMAIN y.history :
            y.history[i] \in DOMAIN draws /\ draws[y.history[i]].type = "clip"
        /\ Stack(y) \subseteq ToSet(y.history)
    BY <1>2 DEF LayerInv, NamesAreRight
  <2>. QED
    BY <2>1 DEF ToSet, Uses
<1>4. ASSUME NEW j \in 1 .. Len(y.clips) PROVE StackTo(y, j) \subseteq Stack(y)
  <2>1. Len(y.clips) \in Nat
    BY <1>1, LayerTypes
  <2>2. 1 .. j \subseteq 1 .. Len(y.clips)
    BY <2>1, <1>4
  <2>. HIDE DEF y
  <2>. QED
    BY <2>2 DEF StackTo, Stack
<1>. QED
  BY <1>1, <1>2, <1>3, <1>4

\* The layers of the stack below t stay, the layer t up to its level J, and the
\* saves up to k.
SameUpTo(t, J, k) ==
    /\ \A r \in 1 .. t - 1 :
         /\ layerStack'[r] = layerStack[r] /\ matrices'[r] = matrices[r]
         /\ layers'[layerStack[r]].clips = layers[layerStack[r]].clips
         /\ layers'[layerStack[r]].origin = layers[layerStack[r]].origin
    /\ J > 0 => /\ layerStack'[t] = layerStack[t] /\ matrices'[t].world = matrices[t].world
                /\ layers'[layerStack[t]].origin = layers[layerStack[t]].origin
    /\ \A j \in 1 .. J :
         /\ layers'[layerStack[t]].clips[j] = layers[layerStack[t]].clips[j]
         /\ matrices'[t].elements[j] = matrices[t].elements[j]
    /\ \A i \in 1 .. k : saved'[i] = saved[i] /\ globalClips'[i] = globalClips[i]
    /\ \A c \in DOMAIN draws : draws[c].type = "clip" => draws'[c].writes = draws[c].writes

\* Is (s, j) one of those levels?
UpTo(s, j, t, J) ==
    \/ s \in 1 .. t - 1 /\ j \in 1 .. Len(layers[layerStack[s]].clips)
    \/ s = t /\ j \in 1 .. J

MayKeep(t, J) ==
    /\ t \in 1 .. Len(layerStack) + 1 /\ J \in Nat
    /\ J > 0 => t \in DOMAIN layerStack /\ J <= Len(layers[layerStack[t]].clips)

\* Those levels are there afterwards and let through what they did.
LEMMA LevelsStay ==
  ASSUME StateTypes, FrameInv(layers, draws, msaa), NEW t, NEW J, NEW k, MayKeep(t, J), SameUpTo(t, J, k)
  PROVE  /\ \A s, j : UpTo(s, j, t, J) =>
               /\ s \in DOMAIN layerStack /\ layerStack'[s] = layerStack[s]
               /\ layers'[layerStack[s]].clips[j] = layers[layerStack[s]].clips[j]
               /\ StackTo(layers'[layerStack[s]], j) = StackTo(layers[layerStack[s]], j)
               /\ \A p : Inside(layers'[layerStack[s]], draws', j, p)
                           <=> Inside(layers[layerStack[s]], draws, j, p)
         /\ \A s \in 1 .. t : \A p : Under(s, p)' <=> Under(s, p)
<1>1. /\ t \in 1 .. Len(layerStack) + 1 /\ J \in Nat /\ Len(layerStack) \in Nat
      /\ DOMAIN layerStack = 1 .. Len(layerStack)
      /\ J > 0 => t \in DOMAIN layerStack /\ J <= Len(layers[layerStack[t]].clips)
  BY DEF MayKeep, StateTypes
<1>2. ASSUME NEW s, NEW j, UpTo(s, j, t, J)
      PROVE  /\ s \in DOMAIN layerStack /\ layerStack'[s] = layerStack[s]
             /\ layers'[layerStack[s]].clips[j] = layers[layerStack[s]].clips[j]
             /\ StackTo(layers'[layerStack[s]], j) = StackTo(layers[layerStack[s]], j)
             /\ \A p : Inside(layers'[layerStack[s]], draws', j, p)
                         <=> Inside(layers[layerStack[s]], draws, j, p)
  <2>. DEFINE y == layers[layerStack[s]]  z == layers'[layerStack[s]]
  <2>1. s \in DOMAIN layerStack
    BY <1>1, <1>2 DEF UpTo
  <2>2. layerStack'[s] = layerStack[s] /\ \A i \in 1 .. j : z.clips[i] = y.clips[i]
    <3>1. CASE s \in 1 .. t - 1 /\ j \in 1 .. Len(layers[layerStack[s]].clips)
      BY <3>1 DEF SameUpTo
    <3>2. CASE s = t /\ j \in 1 .. J
      BY <3>2, <1>1 DEF SameUpTo
    <3>. QED
      BY <1>2, <3>1, <3>2 DEF UpTo
  <2>3. j \in 1 .. Len(y.clips) /\ j \in Nat
    <3>0. layerStack[s] \in DOMAIN layers /\ y \in Layers
      BY <2>1 DEF StateTypes
    <3>1. Len(y.clips) \in Nat
      BY <3>0, LayerTypes
    <3>. QED
      BY <3>1, <1>1, <1>2 DEF UpTo
  <2>4. StackTo(z, j) = StackTo(y, j)
    <3>. HIDE DEF y, z
    <3>. QED
      BY <2>2, <2>3, StackToSame
  <2>5. \A c \in StackTo(y, j) : draws'[c].writes = draws[c].writes
    <3>1. layerStack[s] \in DOMAIN layers
      BY <2>1 DEF StateTypes
    <3>2. \A c \in StackTo(y, j) : c \in DOMAIN draws /\ draws[c].type = "clip"
      BY <3>1, <2>3, StackedClips
    <3>. QED
      BY <3>2 DEF SameUpTo
  <2>6. j \in 1 .. j
    BY <2>3
  <2>. HIDE DEF y, z
  <2>7. \A p : Inside(z, draws', j, p) <=> Inside(y, draws, j, p)
    BY <2>2, <2>4, <2>5, <2>6 DEF Inside
  <2>. QED
    BY <2>1, <2>2, <2>4, <2>6, <2>7 DEF y, z
<1>3. ASSUME NEW s \in 1 .. t, NEW p PROVE Under(s, p)' <=> Under(s, p)
  <2>1. ASSUME NEW r \in 1 .. s - 1
        PROVE  InsideAll(layers'[layerStack'[r]], draws', p) <=> InsideAll(layers[layerStack[r]], draws, p)
    <3>. DEFINE y == layers[layerStack[r]]  z == layers'[layerStack[r]]  n == Len(y.clips)
    <3>1. r \in 1 .. t - 1 /\ r \in DOMAIN layerStack
      BY <1>1
    <3>2. z.clips = y.clips /\ layerStack'[r] = layerStack[r]
      BY <3>1 DEF SameUpTo
    <3>3. n \in Nat /\ n > 0
      <4>1. layerStack[r] \in DOMAIN layers
        BY <3>1 DEF StateTypes
      <4>2. y \in Layers /\ y.clips # <<>>
        BY <4>1, StackedClips DEF LayerInv, NamesAreRight
      <4>. QED
        BY <4>2, LayerTypes, EmptySeq
    <3>4. UpTo(r, n, t, J)
      BY <3>1, <3>3 DEF UpTo
    <3>5. Inside(z, draws', n, p) <=> Inside(y, draws, n, p)
      BY <3>4, <1>2
    <3>. HIDE DEF y, z
    <3>6. InsideAll(z, draws', p) <=> InsideAll(y, draws, p)
      BY <3>2, <3>5 DEF InsideAll
    <3>. QED
      BY <3>2, <3>6 DEF y, z
  <2>. QED
    BY <2>1 DEF Under
<1>. QED
  BY <1>2, <1>3

\* A view of such a level is one afterwards.
LEMMA ViewStays ==
  ASSUME StateTypes, FrameInv(layers, draws, msaa), NEW t, NEW J, NEW k, MayKeep(t, J), SameUpTo(t, J, k),
         NEW s, NEW j, UpTo(s, j, t, J), NEW i \in 1 .. k, NEW v, ViewIs(v, s, j, i)
  PROVE  ViewIs(v, s, j, i)'
<1>1. /\ s \in DOMAIN layerStack /\ layerStack'[s] = layerStack[s]
      /\ layers'[layerStack[s]].clips[j] = layers[layerStack[s]].clips[j]
      /\ StackTo(layers'[layerStack[s]], j) = StackTo(layers[layerStack[s]], j)
  BY LevelsStay
<1>2. saved'[i] = saved[i]
  BY DEF SameUpTo
<1>. QED
  BY <1>1, <1>2 DEF ViewIs

\* The level before level j of layer s is one of those that stay.
LastBefore(s, j, t, J) ==
    /\ s \in Nat /\ j \in Nat
    /\ j > 1 => UpTo(s, j - 1, t, J)
    /\ j = 1 /\ s > 1 => s - 1 \in 1 .. t - 1

\* What a save brings back stays right.
LEMMA UndoesStays ==
  ASSUME StateTypes, FrameInv(layers, draws, msaa), NEW t, NEW J, NEW k, MayKeep(t, J), SameUpTo(t, J, k),
         NEW s, NEW j, LastBefore(s, j, t, J), NEW i, j > 1 \/ s > 1 => i - 1 \in 1 .. k,
         saved'[i].view = saved[i].view, Undoes(s, j, i)
  PROVE  Undoes(s, j, i)'
<1>1. ASSUME j > 1 PROVE ViewIs(saved[i].view, s, j - 1, i - 1)'
  <2>1. ViewIs(saved[i].view, s, j - 1, i - 1)
    BY <1>1 DEF Undoes
  <2>2. PICK v : v = saved[i].view
    OBVIOUS
  <2>3. ViewIs(v, s, j - 1, i - 1)'
    BY <1>1, <2>1, <2>2, ViewStays DEF LastBefore
  <2>. QED
    BY <2>2, <2>3 DEF ViewIs
<1>2. ASSUME j = 1, s > 1 PROVE ViewIs(saved[i].view, s - 1, Len(layers[layerStack[s - 1]].clips), i - 1)'
  <2>. DEFINE n == Len(layers[layerStack[s - 1]].clips)
  <2>1. ViewIs(saved[i].view, s - 1, n, i - 1)
    BY <1>2 DEF Undoes
  <2>2. PICK v : v = saved[i].view
    OBVIOUS
  <2>3. s - 1 \in 1 .. t - 1 /\ s - 1 \in DOMAIN layerStack
    BY <1>2 DEF LastBefore, MayKeep, StateTypes
  <2>4. layers[layerStack[s - 1]] \in Layers /\ layers[layerStack[s - 1]].clips # <<>>
    <3>1. layerStack[s - 1] \in DOMAIN layers
      BY <2>3 DEF StateTypes
    <3>. QED
      BY <3>1, StackedClips DEF LayerInv, NamesAreRight
  <2>5. n \in 1 .. n
    BY <2>4, LayerTypes, EmptySeq
  <2>6. UpTo(s - 1, n, t, J)
    BY <2>3, <2>5 DEF UpTo
  <2>7. \E N : N = n /\ ViewIs(v, s - 1, N, i - 1)'
    <3>1. ViewIs(v, s - 1, n, i - 1) /\ i - 1 \in 1 .. k
      BY <1>2, <2>1, <2>2
    <3>2. PICK r, q, N : r = s - 1 /\ q = i - 1 /\ N = n
      OBVIOUS
    <3>. HIDE DEF n
    <3>3. ViewIs(v, r, N, q) /\ q \in 1 .. k /\ UpTo(r, N, t, J)
      BY <3>1, <3>2, <2>6
    <3>4. ViewIs(v, r, N, q)'
      BY <3>3, ViewStays
    <3>5. ViewIs(v, s - 1, N, i - 1)'
      BY <3>2, <3>4
    <3>. QED
      BY <3>2, <3>5
  <2>8. layerStack'[s - 1] = layerStack[s - 1] /\ layers'[layerStack[s - 1]].clips = layers[layerStack[s - 1]].clips
    BY <2>3 DEF SameUpTo
  <2>. QED
    BY <2>2, <2>7, <2>8 DEF ViewIs
<1>. QED
  BY <1>1, <1>2 DEF Undoes

\* Both, and the clip, for a level that stays.
LEMMA LevelStays ==
  ASSUME StateTypes, FrameInv(layers, draws, msaa), NEW t, NEW J, NEW k, MayKeep(t, J), SameUpTo(t, J, k),
         NEW s, NEW j, UpTo(s, j, t, J), NEW i \in 1 .. k, j > 1 \/ s > 1 => i > 1,
         k \in Nat, LevelOK(s, j, i)
  PROVE  LevelOK(s, j, i)'
<1>1. /\ s \in DOMAIN layerStack /\ layerStack'[s] = layerStack[s]
      /\ layers'[layerStack[s]].clips[j] = layers[layerStack[s]].clips[j]
      /\ \A p : Inside(layers'[layerStack[s]], draws', j, p)
                  <=> Inside(layers[layerStack[s]], draws, j, p)
  BY LevelsStay
<1>2. s \in 1 .. t /\ s \in Nat /\ j \in Nat /\ j > 0
  BY LayerTypes, SMTT(40) DEF UpTo, MayKeep, StateTypes
<1>3. \A p : Under(s, p)' <=> Under(s, p)
  BY <1>2, LevelsStay
<1>4. saved'[i] = saved[i] /\ globalClips'[i] = globalClips[i]
  BY DEF SameUpTo
<1>5. matrices'[s].world + matrices'[s].elements[j] = matrices[s].world + matrices[s].elements[j]
  BY DEF SameUpTo, UpTo, MayKeep
<1>6. ClipIs(s, j, i)'
  BY <1>1, <1>3, <1>4, <1>5 DEF ClipIs, LevelOK
<1>7. LastBefore(s, j, t, J)
  <2>1. t \in Nat /\ J \in Nat
    BY DEF MayKeep, StateTypes
  <2>2. ASSUME j > 1 PROVE UpTo(s, j - 1, t, J)
    <3>1. CASE s = t /\ j \in 1 .. J
      BY <2>1, <2>2, <3>1 DEF UpTo
    <3>2. CASE s \in 1 .. t - 1 /\ j \in 1 .. Len(layers[layerStack[s]].clips)
      <4>1. layers[layerStack[s]] \in Layers
        BY <1>1, StackedClips DEF StateTypes
      <4>2. Len(layers[layerStack[s]].clips) \in Nat
        BY <4>1, LayerTypes
      <4>. QED
        BY <4>2, <2>2, <3>2 DEF UpTo
    <3>. QED
      BY <3>1, <3>2 DEF UpTo
  <2>. QED
    BY <1>2, <2>1, <2>2 DEF LastBefore
<1>8. j > 1 \/ s > 1 => i - 1 \in 1 .. k
  OBVIOUS
<1>9. Undoes(s, j, i)'
  BY <1>4, <1>7, <1>8, UndoesStays DEF LevelOK
<1>. QED
  BY <1>6, <1>9 DEF LevelOK

\* The last layer of the stack becomes t, with J2 levels, the first J as before.
Becomes(base, t, J, J2) ==
    /\ MayKeep(t, J) /\ SameUpTo(t, J, base[t] + J)
    /\ J2 \in Nat \ {0} /\ J <= J2
    /\ DOMAIN layerStack' = 1 .. t /\ Len(layerStack') = t /\ Len(matrices') = t
    /\ LET z == layers'[layerStack'[t]]
       IN  /\ DOMAIN z.clips = 1 .. J2 /\ Len(z.clips) = J2
           /\ matrices'[t].world = z.origin /\ Len(matrices'[t].elements) = J2
    /\ saveCount' = base[t] + J2 /\ Len(saved') = saveCount' /\ Len(globalClips') = saveCount'
    /\ \A j \in J + 1 .. J2 : LevelOK(t, j, base[t] + j)'

IsBase(base) ==
    /\ layerStack # <<>>
    /\ base \in [1 .. Len(layerStack) + 1 -> 0 .. saveCount] /\ Saves(base)

\* The saves are right afterwards if the new levels are.
LEMMA SavesBecome ==
  ASSUME StateTypes, FrameInv(layers, draws, msaa), NEW base, IsBase(base),
         NEW t, NEW J, NEW J2, Becomes(base, t, J, J2)
  PROVE  SavesInv'
<1>. DEFINE base2 == [r \in 1 .. t + 1 |-> IF r <= t THEN base[r] ELSE base[t] + J2]
<1>1. /\ t \in 1 .. Len(layerStack) + 1 /\ J \in Nat /\ Len(layerStack) \in Nat /\ t \in Nat
      /\ DOMAIN layerStack = 1 .. Len(layerStack) /\ t # 0
      /\ J > 0 => t \in DOMAIN layerStack /\ J <= Len(layers[layerStack[t]].clips)
  BY DEF Becomes, MayKeep, StateTypes
<1>2. /\ base[1] = 0 /\ saveCount \in Nat
      /\ \A r \in 1 .. Len(layerStack) + 1 : base[r] \in Nat
      /\ \A r, q \in 1 .. Len(layerStack) + 1 : r < q => base[r] < base[q]
      /\ \A s \in DOMAIN layerStack :
           LET y == layers[layerStack[s]]
           IN  /\ base[s + 1] = base[s] + Len(y.clips)
               /\ matrices[s].world = y.origin
               /\ Len(matrices[s].elements) = Len(y.clips)
               /\ \A j \in DOMAIN y.clips : LevelOK(s, j, base[s] + j)
  <2>1. saveCount \in Nat /\ Len(layerStack) \in Nat
    BY DEF StateTypes
  <2>2. base \in [1 .. Len(layerStack) + 1 -> 0 .. saveCount] /\ Saves(base)
    BY DEF IsBase
  <2>3. \A r \in 1 .. Len(layerStack) + 1 : base[r] \in Nat
    BY <2>1, <2>2
  <2>. QED
    BY <2>1, <2>2, <2>3 DEF Saves
<1>3. /\ J2 \in Nat \ {0} /\ J <= J2 /\ SameUpTo(t, J, base[t] + J) /\ MayKeep(t, J)
      /\ DOMAIN layerStack' = 1 .. t /\ Len(layerStack') = t /\ Len(matrices') = t
      /\ LET z == layers'[layerStack'[t]]
         IN  /\ DOMAIN z.clips = 1 .. J2 /\ Len(z.clips) = J2
             /\ matrices'[t].world = z.origin /\ Len(matrices'[t].elements) = J2
      /\ saveCount' = base[t] + J2 /\ Len(saved') = saveCount' /\ Len(globalClips') = saveCount'
      /\ \A j \in J + 1 .. J2 : LevelOK(t, j, base[t] + j)'
  BY DEF Becomes
<1>4. base[t] \in Nat
  BY <1>1, <1>2
<1>5. ASSUME NEW s, NEW j, UpTo(s, j, t, J) PROVE LevelOK(s, j, base[s] + j)'
  <2>1. s \in DOMAIN layerStack /\ s \in 1 .. t /\ j \in DOMAIN layers[layerStack[s]].clips /\ j \in Nat /\ j > 0
    <3>1. s \in DOMAIN layerStack
      BY <1>1, <1>5 DEF UpTo
    <3>2. layers[layerStack[s]] \in Layers
      BY <3>1, StackedClips DEF StateTypes
    <3>3. Len(layers[layerStack[s]].clips) \in Nat /\ DOMAIN layers[layerStack[s]].clips = 1 .. Len(layers[layerStack[s]].clips)
      BY <3>2, LayerTypes
    <3>. QED
      BY <3>1, <3>3, <1>1, <1>5 DEF UpTo
  <2>2. PICK b \in Nat : b = base[s]
    BY <2>1, <1>1, <1>2
  <2>3. LevelOK(s, j, b + j)
    BY <2>1, <2>2, <1>2
  <2>4. b + j \in 1 .. base[t] + J
    <3>1. CASE s = t
      BY <3>1, <2>1, <2>2, <1>1, <1>4, <1>5 DEF UpTo
    <3>2. CASE s # t
      <4>1. s + 1 \in 1 .. t /\ t \in 1 .. Len(layerStack) + 1
        BY <3>2, <2>1, <1>1
      <4>2. base[s + 1] <= base[t]
        BY <4>1, <1>1, <1>2
      <4>3. base[s + 1] = b + Len(layers[layerStack[s]].clips)
        BY <2>1, <2>2, <1>2
      <4>4. j <= Len(layers[layerStack[s]].clips) /\ Len(layers[layerStack[s]].clips) \in Nat
        <5>1. layers[layerStack[s]] \in Layers
          BY <2>1, StackedClips DEF StateTypes
        <5>. QED
          BY <5>1, <2>1, LayerTypes
      <4>. QED
        BY <4>2, <4>3, <4>4, <2>1, <2>2, <1>1, <1>4, SMTT(40)
    <3>. QED
      BY <3>1, <3>2
  <2>5. j > 1 \/ s > 1 => b + j > 1
    <3>1. s > 1 => base[1] < base[s]
      BY <2>1, <1>1, <1>2
    <3>. QED
      BY <3>1, <2>1, <2>2, <1>1, <1>2
  <2>6. PICK i, k : i = b + j /\ k = base[t] + J
    OBVIOUS
  <2>7. k \in Nat /\ i \in 1 .. k /\ LevelOK(s, j, i) /\ (j > 1 \/ s > 1 => i > 1) /\ SameUpTo(t, J, k)
    BY <2>3, <2>4, <2>5, <2>6, <1>1, <1>3, <1>4
  <2>8. LevelOK(s, j, i)'
    BY <2>7, <1>3, <1>5, LevelStays
  <2>. QED
    BY <2>2, <2>6, <2>8
<1>6. PICK b2 : b2 = base2
  OBVIOUS
<1>7. /\ b2 \in [1 .. t + 1 -> 0 .. saveCount'] /\ b2[t + 1] = saveCount'
      /\ \A r \in 1 .. t : b2[r] = base[r]
  <2>1. \A r \in 1 .. t : base[r] \in Nat /\ base[r] <= base[t]
    BY <1>1, <1>2
  <2>2. saveCount' \in Nat /\ base[t] <= saveCount'
    BY <1>3, <1>4
  <2>3. ASSUME NEW r \in 1 .. t + 1 PROVE base2[r] \in 0 .. saveCount'
    BY <2>1, <2>2, <2>3, <1>1, <1>3
  <2>4. base2 \in [1 .. t + 1 -> 0 .. saveCount']
    BY <2>3
  <2>5. base2[t + 1] = saveCount' /\ \A r \in 1 .. t : base2[r] = base[r]
    BY <1>1, <1>3
  <2>. QED
    BY <1>6, <2>4, <2>5
<1>8. b2[1] = 0 /\ \A r, q \in 1 .. t + 1 : r < q => b2[r] < b2[q]
  <2>1. b2[1] = 0
    BY <1>1, <1>2, <1>7
  <2>2. ASSUME NEW r \in 1 .. t + 1, NEW q \in 1 .. t + 1, r < q PROVE b2[r] < b2[q]
    <3>1. CASE q \in 1 .. t
      <4>1. r \in 1 .. t /\ r \in 1 .. Len(layerStack) + 1 /\ q \in 1 .. Len(layerStack) + 1
        BY <3>1, <2>2, <1>1
      <4>2. base[r] < base[q]
        BY <4>1, <2>2, <1>2
      <4>. QED
        BY <3>1, <4>1, <4>2, <1>7
    <3>2. CASE q = t + 1
      <4>0. r \in 1 .. t
        BY <3>2, <2>2, <1>1
      <4>1. r \in 1 .. t /\ base[r] <= base[t] /\ base[r] \in Nat
        <5>1. r \in 1 .. Len(layerStack) + 1 /\ t \in 1 .. Len(layerStack) + 1 /\ (r = t \/ r < t)
          BY <4>0, <1>1
        <5>2. base[r] \in Nat /\ (r < t => base[r] < base[t])
          BY <5>1, <1>2
        <5>. QED
          BY <4>0, <5>1, <5>2, <1>4
      <4>. QED
        BY <3>2, <4>1, <1>1, <1>3, <1>4, <1>7
    <3>. QED
      BY <3>1, <3>2, <1>1
  <2>. QED
    BY <2>1, <2>2
<1>9. ASSUME NEW s \in 1 .. t
      PROVE  LET z == layers'[layerStack'[s]]
             IN  /\ b2[s + 1] = b2[s] + Len(z.clips)
                 /\ matrices'[s].world = z.origin
                 /\ Len(matrices'[s].elements) = Len(z.clips)
                 /\ \A j \in DOMAIN z.clips : LevelOK(s, j, b2[s] + j)'
  <2>. DEFINE z == layers'[layerStack'[s]]
  <2>1. CASE s = t
    <3>1. b2[s + 1] = b2[s] + Len(z.clips) /\ matrices'[s].world = z.origin
          /\ Len(matrices'[s].elements) = Len(z.clips) /\ DOMAIN z.clips = 1 .. J2
      BY <2>1, <1>3, <1>7
    <3>2. ASSUME NEW j \in 1 .. J2 PROVE LevelOK(s, j, b2[s] + j)'
      <4>1. PICK b : b = base[s] /\ b = b2[s]
        BY <1>7
      <4>2. CASE j \in 1 .. J
        <5>1. UpTo(s, j, t, J)
          BY <2>1, <4>2 DEF UpTo
        <5>2. LevelOK(s, j, base[s] + j)'
          BY <5>1, <1>5
        <5>. QED
          BY <4>1, <5>2
      <4>3. CASE j \in J + 1 .. J2
        <5>1. LevelOK(t, j, base[t] + j)'
          BY <4>3, <1>3
        <5>. QED
          BY <2>1, <4>1, <5>1
      <4>. QED
        BY <4>2, <4>3, <1>1, <1>3
    <3>. QED
      BY <3>1, <3>2
  <2>2. CASE s # t
    <3>. DEFINE y == layers[layerStack[s]]
    <3>1. s \in 1 .. t - 1 /\ s \in DOMAIN layerStack /\ s + 1 \in 1 .. t
      BY <2>2, <1>1
    <3>2. layerStack'[s] = layerStack[s] /\ z.clips = y.clips /\ z.origin = y.origin /\ matrices'[s] = matrices[s]
      BY <3>1, <1>3 DEF SameUpTo
    <3>3. b2[s + 1] = b2[s] + Len(z.clips) /\ matrices'[s].world = z.origin
          /\ Len(matrices'[s].elements) = Len(z.clips)
      BY <3>1, <3>2, <1>2, <1>7
    <3>4. DOMAIN y.clips = 1 .. Len(y.clips)
      <4>1. y \in Layers
        BY <3>1, StackedClips DEF StateTypes
      <4>. HIDE DEF y
      <4>. QED
        BY <4>1, LayerTypes
    <3>5. ASSUME NEW j \in DOMAIN z.clips PROVE LevelOK(s, j, b2[s] + j)'
      <4>1. PICK b : b = base[s] /\ b = b2[s]
        BY <1>7
      <4>2. UpTo(s, j, t, J)
        BY <3>1, <3>2, <3>4, <3>5 DEF UpTo
      <4>3. LevelOK(s, j, base[s] + j)'
        BY <4>2, <1>5
      <4>. QED
        BY <4>1, <4>3
    <3>. QED
      BY <3>3, <3>5
  <2>. QED
    BY <2>1, <2>2
<1>. HIDE DEF base2
<1>10. Saves(b2)'
  BY <1>3, <1>7, <1>8, <1>9 DEF Saves
<1>11. layerStack' # <<>>
  BY <1>1, <1>3
<1>. QED
  BY <1>3, <1>7, <1>10, <1>11 DEF SavesInv

-----------------------------------------------------------------------------
(* The top of the stacks, and steps that show nothing                      *)

\* The top of the stacks while a frame is recorded: layer "id" is the last of n,
\* it has J levels, and the last of them is save K.
AtTop(n, id, J, K, base) ==
    /\ n \in Nat \ {0} /\ n = Len(layerStack) /\ DOMAIN layerStack = 1 .. n
    /\ layerStack[n] = id /\ Current = id /\ id \in DOMAIN layers /\ id \in Nat
    /\ layers[id] \in Layers /\ LayerInv(layers[id], draws, id, Boxes(layers), msaa)
    /\ J \in Nat \ {0} /\ J = Len(layers[id].clips) /\ DOMAIN layers[id].clips = 1 .. J
    /\ CurrentClipBounds(layers[id]) = layers[id].clips[J].bounds
    /\ K \in Nat \ {0} /\ K = saveCount /\ K = Len(saved) /\ K = Len(globalClips)
    /\ Asked = saved[K] /\ Last(globalClips) = globalClips[K]
    /\ n = Len(matrices) /\ Last(matrices) = matrices[n] /\ J = Len(matrices[n].elements)
    /\ Last(matrices[n].elements) = matrices[n].elements[J]
    /\ matrices[n].world = layers[id].origin
    /\ IsBase(base) /\ base[n] \in Nat /\ K = base[n] + J /\ K = base[n + 1]
    /\ n > 1 \/ J > 1 => K > 1
    /\ LevelOK(n, J, K) /\ (J > 1 => LevelOK(n, J - 1, K - 1))

\* While a frame is recorded there is a top.
LEMMA TopIs ==
  ASSUME StateInv, layerStack # <<>>
  PROVE  \E n, id, J, K, base : AtTop(n, id, J, K, base)
<1>0. StateTypes /\ FrameInv(layers, draws, msaa) /\ SavesInv
  BY DEF StateInv
<1>1. PICK base : IsBase(base) /\ Len(saved) = saveCount /\ Len(globalClips) = saveCount
                  /\ Len(matrices) = Len(layerStack)
  BY <1>0 DEF SavesInv, IsBase
<1>2. PICK n : n = Len(layerStack)
  OBVIOUS
<1>3. n \in Nat \ {0} /\ DOMAIN layerStack = 1 .. n /\ n \in DOMAIN layerStack /\ Current = layerStack[n]
  <2>1. layerStack \in Seq(Nat)
    BY <1>0 DEF StateTypes
  <2>. QED
    BY <2>1, <1>2, EmptySeq DEF Current, Last
<1>4. PICK id : id = layerStack[n]
  OBVIOUS
<1>5. id \in DOMAIN layers /\ id \in Nat
  <2>1. layers \in Seq(Layers) /\ layerStack[n] \in DOMAIN layers
    BY <1>0, <1>3 DEF StateTypes
  <2>. QED
    BY <2>1, <1>4
<1>6. layers[id] \in Layers /\ LayerInv(layers[id], draws, id, Boxes(layers), msaa)
  BY <1>0, <1>5, StackedClips
<1>7. PICK J : J = Len(layers[id].clips)
  OBVIOUS
<1>8. J \in Nat \ {0} /\ DOMAIN layers[id].clips = 1 .. J
      /\ CurrentClipBounds(layers[id]) = layers[id].clips[J].bounds
  <2>1. PICK y : y = layers[id]
    OBVIOUS
  <2>2. y \in Layers /\ y.clips # <<>> /\ J = Len(y.clips)
    BY <2>1, <1>6, <1>7 DEF LayerInv, NamesAreRight
  <2>3. J \in Nat \ {0} /\ DOMAIN y.clips = 1 .. J /\ CurrentClipBounds(y) = y.clips[J].bounds
    BY <2>2, LayerTypes, EmptySeq DEF CurrentClipBounds, Last
  <2>. QED
    BY <2>1, <2>3
<1>9. PICK K : K = saveCount
  OBVIOUS
<1>10. /\ K \in Nat \ {0} /\ K = Len(saved) /\ K = Len(globalClips)
       /\ Asked = saved[K] /\ Last(globalClips) = globalClips[K]
  BY <1>0, <1>1, <1>9 DEF StateTypes, Asked, Last
<1>11. /\ base \in [1 .. n + 1 -> 0 .. saveCount] /\ Saves(base)
  BY <1>1, <1>2 DEF IsBase
<1>12. /\ base[1] = 0 /\ base[n + 1] = K
       /\ base[n + 1] = base[n] + J
       /\ matrices[n].world = layers[id].origin
       /\ Len(matrices[n].elements) = J
       /\ \A j \in 1 .. J : LevelOK(n, j, base[n] + j)
       /\ n > 1 => base[1] < base[n]
  BY <1>2, <1>3, <1>4, <1>7, <1>8, <1>9, <1>11 DEF Saves
<1>13. base[n] \in Nat
  <2>1. n \in 1 .. n + 1 /\ saveCount \in Nat
    BY <1>3, <1>0 DEF StateTypes
  <2>2. base[n] \in 0 .. saveCount
    BY <1>11, <2>1
  <2>. QED
    BY <2>1, <2>2
<1>14. n = Len(matrices) /\ Last(matrices) = matrices[n]
       /\ Last(matrices[n].elements) = matrices[n].elements[J]
  BY <1>1, <1>2, <1>12 DEF Last
<1>15. LevelOK(n, J, K)
  <2>1. J \in 1 .. J /\ base[n] + J = K
    BY <1>8, <1>12
  <2>2. LevelOK(n, J, base[n] + J)
    BY <2>1, <1>12
  <2>. QED
    BY <2>1, <2>2
<1>16. ASSUME J > 1 PROVE LevelOK(n, J - 1, K - 1)
  <2>0. PICK b \in Nat : b = base[n]
    BY <1>13
  <2>1. J - 1 \in 1 .. J /\ base[n] + (J - 1) = K - 1
    <3>1. K = b + J
      BY <2>0, <1>12
    <3>2. b + (J - 1) = K - 1 /\ J - 1 \in 1 .. J
      BY <3>1, <1>8, <1>10, <1>16
    <3>. QED
      BY <2>0, <3>2
  <2>2. LevelOK(n, J - 1, base[n] + (J - 1))
    BY <2>1, <1>12
  <2>. QED
    BY <2>1, <2>2
<1>17. n > 1 \/ J > 1 => K > 1
  BY <1>3, <1>8, <1>12, <1>13
<1>18. AtTop(n, id, J, K, base)
  BY <1>1, <1>2, <1>3, <1>4, <1>5, <1>6, <1>7, <1>8, <1>9, <1>10, <1>12, <1>13, <1>14, <1>15, <1>16, <1>17 DEF AtTop
<1>. QED
  BY <1>18

\* The calls, the layer and the canvas agree on the matrix, and the clip of the
\* canvas is inside of that of the layer.
LEMMA TopAgrees ==
  ASSUME StateInv, NEW n, NEW id, NEW J, NEW K, NEW base, AtTop(n, id, J, K, base)
  PROVE  /\ TotalMatrix \in Int /\ Asked.matrix = TotalMatrix
         /\ matrices[n].elements \in Seq(Int) /\ matrices[n].world \in Int
         /\ matrices[n].world + matrices[n].elements[J] = TotalMatrix
         /\ CurrentLayer.origin + CurrentMatrix = TotalMatrix
         /\ \A pixels : InLayer(pixels) = Moved(pixels, TotalMatrix)
         /\ Asked.clip \subseteq Last(globalClips) \cap Surface
         /\ Last(globalClips) \subseteq CurrentClipBounds(layers[id])
         /\ CurrentClipBounds(layers[id]) \subseteq layers[id].bounds /\ IsFiniteSet(layers[id].bounds)
         /\ layers[id].bounds \in SUBSET Int
         /\ \A p \in Surface : p \in Asked.clip <=> InsideAll(layers[id], draws, p) /\ Under(n, p)
<1>1. /\ Last(matrices) = matrices[n] /\ J = Len(matrices[n].elements) /\ J \in Nat \ {0}
      /\ Last(matrices[n].elements) = matrices[n].elements[J] /\ Current = id
      /\ n = Len(matrices) /\ n \in Nat \ {0} /\ layerStack[n] = id
      /\ matrices[n].world = layers[id].origin /\ Asked = saved[K] /\ Last(globalClips) = globalClips[K]
      /\ LevelOK(n, J, K) /\ J = Len(layers[id].clips) /\ DOMAIN layers[id].clips = 1 .. J
      /\ CurrentClipBounds(layers[id]) = layers[id].clips[J].bounds
      /\ layers[id] \in Layers /\ LayerInv(layers[id], draws, id, Boxes(layers), msaa)
  BY DEF AtTop
<1>2. matrices[n] \in LayerStates
  <2>1. matrices \in Seq(LayerStates)
    BY DEF StateInv, StateTypes
  <2>2. n \in 1 .. Len(matrices)
    BY <1>1
  <2>. QED
    BY Zenon, <2>1, <2>2, ElementOfSeq
<1>3. matrices[n].elements \in Seq(Int) /\ matrices[n].world \in Int /\ matrices[n].elements[J] \in Int
  <2>1. matrices[n].elements \in Seq(Int) /\ matrices[n].world \in Int
    BY <1>2 DEF LayerStates
  <2>. QED
    BY <2>1, <1>1, ElementOfSeq
<1>4. TotalMatrix = matrices[n].world + matrices[n].elements[J] /\ CurrentMatrix = matrices[n].elements[J]
  BY <1>1 DEF TotalMatrix, CurrentMatrix
<1>5. CurrentLayer.origin + CurrentMatrix = TotalMatrix
  BY <1>1, <1>4 DEF CurrentLayer
<1>6. ClipIs(n, J, K)
  BY <1>1 DEF LevelOK
<1>7. /\ Asked.matrix = TotalMatrix
      /\ Asked.clip \subseteq Last(globalClips) \cap Surface
      /\ Last(globalClips) \subseteq CurrentClipBounds(layers[id])
      /\ \A p \in Surface : p \in Asked.clip <=> InsideAll(layers[id], draws, p) /\ Under(n, p)
  BY <1>1, <1>4, <1>6 DEF ClipIs, InsideAll
<1>8. CurrentClipBounds(layers[id]) \subseteq layers[id].bounds /\ IsFiniteSet(layers[id].bounds)
      /\ layers[id].bounds \in SUBSET Int
  <2>1. layers[id].bounds \in SUBSET Int
    BY <1>1, LayerTypes
  <2>. QED
    <3>1. PICK y : y = layers[id]
      OBVIOUS
    <3>2. ClipsAreNested(y, draws) /\ DrawsAreBounded(y, draws, Boxes(layers)) /\ J \in DOMAIN y.clips
          /\ CurrentClipBounds(y) = y.clips[J].bounds
      BY <3>1, <1>1 DEF LayerInv
    <3>3. CurrentClipBounds(y) \subseteq y.bounds /\ IsFiniteSet(y.bounds)
      BY <3>2 DEF ClipsAreNested, DrawsAreBounded
    <3>. QED
      BY <2>1, <3>1, <3>3
<1>9. \A pixels : InLayer(pixels) = Moved(pixels, TotalMatrix)
  BY <1>5 DEF InLayer
<1>. QED
  BY <1>3, <1>4, <1>5, <1>7, <1>8, <1>9

\* A layer and the draws may become z and "other", and show the same.
Quiet(id, z, other) ==
    /\ z \in Layers /\ other \in Seq(Draws) /\ DOMAIN draws \subseteq DOMAIN other
    /\ z.bounds = layers[id].bounds
    /\ LayerInv(z, other, id, Boxes(layers), msaa)
    /\ ShowAlike(z, other, Boxes(layers), layers[id], draws, Boxes(layers))
    /\ Uses(z) \subseteq Uses(layers[id]) \cup (DOMAIN other \ DOMAIN draws)
    /\ \A c \in DOMAIN draws :
         /\ c \notin Uses(layers[id]) => other[c] = draws[c]
         /\ other[c].type = draws[c].type /\ other[c].child = draws[c].child
         /\ other[c].clip = draws[c].clip
    /\ \A c \in DOMAIN other \ DOMAIN draws :
         other[c].type # "layer" /\ other[c].clip \in 0 .. Len(other)

\* One layer replaced by another one of the same bounds.
LEMMA ReplacedIs ==
  ASSUME layers \in Seq(Layers), NEW id \in DOMAIN layers, NEW z \in Layers, z.bounds = layers[id].bounds
  PROVE  LET new == [layers EXCEPT ![id] = z]
         IN  /\ new \in Seq(Layers) /\ DOMAIN new = DOMAIN layers /\ Len(new) = Len(layers)
             /\ new[id] = z /\ \A m \in DOMAIN layers : m # id => new[m] = layers[m]
             /\ Boxes(new) = Boxes(layers)
             /\ \A m \in DOMAIN layers : new[m].bounds = layers[m].bounds
<1>. DEFINE new == [layers EXCEPT ![id] = z]
<1>1. new \in Seq(Layers) /\ DOMAIN new = DOMAIN layers /\ Len(new) = Len(layers)
  OBVIOUS
<1>2. new[id] = z /\ \A m \in DOMAIN layers : m # id => new[m] = layers[m]
  OBVIOUS
<1>. HIDE DEF new
<1>3. \A m \in DOMAIN layers : new[m].bounds = layers[m].bounds
  BY <1>2
<1>4. Boxes(new) = Boxes(layers)
  BY <1>1, <1>3 DEF Boxes
<1>. QED
  BY <1>1, <1>2, <1>3, <1>4 DEF new

\* Draws still have clips that exist.
LEMMA ClipNamesStay ==
  ASSUME NEW table \in Seq(Draws), NEW other \in Seq(Draws), ClipNames(table), DOMAIN table \subseteq DOMAIN other,
         \A c \in DOMAIN table : other[c].clip = table[c].clip,
         \A c \in DOMAIN other \ DOMAIN table : other[c].clip \in 0 .. Len(other)
  PROVE  ClipNames(other)
<1>1. Len(table) <= Len(other)
  <2>1. Len(table) \in Nat /\ Len(other) \in Nat /\ DOMAIN table = 1 .. Len(table) /\ DOMAIN other = 1 .. Len(other)
    OBVIOUS
  <2>2. PICK a \in Nat, b \in Nat : a = Len(table) /\ b = Len(other)
    BY <2>1
  <2>3. 1 .. a \subseteq 1 .. b
    BY <2>1, <2>2
  <2>4. a <= b
    BY <2>3
  <2>. QED
    BY <2>2, <2>4
<1>2. ASSUME NEW c \in DOMAIN other PROVE other[c].clip \in 0 .. Len(other)
  BY <1>1, <1>2 DEF ClipNames
<1>. QED
  BY <1>2 DEF ClipNames

\* Such a step keeps what the frame shows.
LEMMA QuietStep ==
  ASSUME StateInv, NEW n, NEW id, NEW J, NEW K, NEW base, AtTop(n, id, J, K, base),
         NEW z, NEW other, Quiet(id, z, other)
  PROVE  LET new == [layers EXCEPT ![id] = z]
         IN  /\ FrameInv(new, other, msaa) /\ OpenInv(layerStack, new, other) /\ ClipNames(other)
             /\ \A R : Pictures(layers, draws, R) => Pictures(new, other, R)
<1>. DEFINE new == [layers EXCEPT ![id] = z]
<1>1. /\ layers \in Seq(Layers) /\ draws \in Seq(Draws) /\ layerStack \in Seq(Nat) /\ layerStack # <<>>
      /\ \A s \in DOMAIN layerStack : layerStack[s] \in DOMAIN layers
      /\ FrameInv(layers, draws, msaa) /\ OpenInv(layerStack, layers, draws) /\ ClipNames(draws)
      /\ id \in DOMAIN layers /\ id = layerStack[Len(layerStack)]
  BY DEF StateInv, StateTypes, AtTop, IsBase
<1>2. z \in Layers /\ z.bounds = layers[id].bounds /\ other \in Seq(Draws)
  BY DEF Quiet
<1>3. /\ new \in Seq(Layers) /\ DOMAIN new = DOMAIN layers
      /\ new[id] = z /\ \A m \in DOMAIN layers : m # id => new[m] = layers[m]
      /\ Boxes(new) = Boxes(layers)
  BY Zenon, <1>1, <1>2, ReplacedIs
<1>. HIDE DEF new
<1>4. Changes(layers, draws, new, other, id, msaa)
  BY <1>1, <1>2, <1>3 DEF Changes, Quiet
<1>5. FrameInv(new, other, msaa)
  BY <1>1, <1>4, FrameStep
<1>6. OpenInv(layerStack, new, other)
  BY <1>1, <1>4, OpenStays
<1>7. ClipNames(other)
  BY <1>1, <1>2, ClipNamesStay DEF Quiet
<1>8. ShowAlike(new[id], other, Boxes(new), layers[id], draws, Boxes(layers))
  BY <1>3 DEF Quiet
<1>9. \A R : Pictures(layers, draws, R) => Pictures(new, other, R)
  BY <1>1, <1>3, <1>4, <1>8, PicturesStay
<1>. QED
  BY <1>5, <1>6, <1>7, <1>9 DEF new

\* What holds of the current layer.
LEMMA CurrentIs ==
  ASSUME StateInv, NEW n, NEW id, NEW J, NEW K, NEW base, AtTop(n, id, J, K, base),
         NEW y, y = layers[id]
  PROVE  /\ y \in Layers /\ LayerInv(y, draws, id, Boxes(layers), msaa) /\ y.clips # <<>>
         /\ draws \in Seq(Draws) /\ layers \in Seq(Layers) /\ id \in DOMAIN layers
<1>1. y \in Layers /\ LayerInv(y, draws, id, Boxes(layers), msaa) /\ id \in DOMAIN layers
  BY DEF AtTop
<1>2. y.clips # <<>>
  BY <1>1 DEF LayerInv, NamesAreRight
<1>3. draws \in Seq(Draws) /\ layers \in Seq(Layers)
  BY DEF StateInv, StateTypes
<1>. QED
  BY <1>1, <1>2, <1>3

\* What saves, clips by rectangle and restores make of the current layer.
LEMMA PushIsQuiet ==
  ASSUME StateInv, NEW n, NEW id, NEW J, NEW K, NEW base, AtTop(n, id, J, K, base)
  PROVE  Quiet(id, PushClipStack(layers[id]), draws)
<1>1. PICK y : y = layers[id]
  OBVIOUS
<1>2. y \in Layers /\ LayerInv(y, draws, id, Boxes(layers), msaa) /\ y.clips # <<>> /\ draws \in Seq(Draws)
  BY <1>1, CurrentIs
<1>3. PushClipStack(y) \in Layers /\ Uses(PushClipStack(y)) = Uses(y) /\ PushClipStack(y).bounds = y.bounds
  BY <1>2, PushIs DEF Uses
<1>4. LayerInv(PushClipStack(y), draws, id, Boxes(layers), msaa)
      /\ ShowAlike(PushClipStack(y), draws, Boxes(layers), y, draws, Boxes(layers))
  BY <1>2, PushKeeps
<1>. QED
  BY <1>1, <1>2, <1>3, <1>4 DEF Quiet

\* A clip by a rectangle is quiet.
LEMMA RectIsQuiet ==
  ASSUME StateInv, NEW n, NEW id, NEW J, NEW K, NEW base, AtTop(n, id, J, K, base), NEW rect
  PROVE  Quiet(id, AddRectClip(layers[id], rect), draws)
<1>1. PICK y : y = layers[id]
  OBVIOUS
<1>2. y \in Layers /\ LayerInv(y, draws, id, Boxes(layers), msaa) /\ y.clips # <<>> /\ draws \in Seq(Draws)
  BY <1>1, CurrentIs
<1>. DEFINE z == AddRectClip(y, rect)
<1>3. z \in Layers /\ z.history = y.history /\ z.passes = y.passes /\ z.bounds = y.bounds
  BY <1>2, RectIs
<1>4. LayerInv(z, draws, id, Boxes(layers), msaa) /\ ShowAlike(z, draws, Boxes(layers), y, draws, Boxes(layers))
  BY <1>2, RectKeeps
<1>. HIDE DEF z
<1>5. Uses(z) = Uses(y)
  BY <1>3 DEF Uses
<1>6. Quiet(id, z, draws)
  BY <1>1, <1>2, <1>3, <1>4, <1>5 DEF Quiet
<1>. QED
  BY <1>1, <1>6 DEF z

\* So is a level that is clipped at once, as that of a rejected layer.
LEMMA EmptyPushIsQuiet ==
  ASSUME StateInv, NEW n, NEW id, NEW J, NEW K, NEW base, AtTop(n, id, J, K, base), NEW rect
  PROVE  Quiet(id, AddRectClip(PushClipStack(layers[id]), rect), draws)
<1>1. PICK y : y = layers[id]
  OBVIOUS
<1>2. y \in Layers /\ LayerInv(y, draws, id, Boxes(layers), msaa) /\ y.clips # <<>> /\ draws \in Seq(Draws)
  BY <1>1, CurrentIs
<1>. DEFINE x == PushClipStack(y)  z == AddRectClip(x, rect)
<1>3. x \in Layers /\ x.history = y.history /\ x.passes = y.passes /\ x.bounds = y.bounds
  BY <1>2, PushIs
<1>4. LayerInv(x, draws, id, Boxes(layers), msaa) /\ ShowAlike(x, draws, Boxes(layers), y, draws, Boxes(layers))
  BY <1>2, PushKeeps
<1>. HIDE DEF x
<1>5. x.clips # <<>>
  BY <1>4 DEF LayerInv, NamesAreRight
<1>6. z \in Layers /\ z.history = x.history /\ z.passes = x.passes /\ z.bounds = x.bounds
  BY <1>3, <1>5, RectIs
<1>7. LayerInv(z, draws, id, Boxes(layers), msaa) /\ ShowAlike(z, draws, Boxes(layers), x, draws, Boxes(layers))
  BY <1>3, <1>4, RectKeeps
<1>. HIDE DEF z
<1>8. Uses(z) = Uses(y)
  BY <1>3, <1>6 DEF Uses
<1>9. ShowAlike(z, draws, Boxes(layers), y, draws, Boxes(layers))
  BY <1>4, <1>7 DEF ShowAlike
<1>10. Quiet(id, z, draws)
  BY <1>1, <1>2, <1>3, <1>6, <1>7, <1>8, <1>9 DEF Quiet
<1>. QED
  BY <1>1, <1>10 DEF z, x

\* So is a popped level, although its clips get depths.
LEMMA PopIsQuiet ==
  ASSUME StateInv, NEW n, NEW id, NEW J, NEW K, NEW base, AtTop(n, id, J, K, base), J > 1
  PROVE  /\ Quiet(id, PopClipStack(layers[id]), PoppedDepths(draws, layers[id]))
         /\ DOMAIN PoppedDepths(draws, layers[id]) = DOMAIN draws
         /\ \A c \in DOMAIN draws : PoppedDepths(draws, layers[id])[c].writes = draws[c].writes
<1>1. PICK y : y = layers[id]
  OBVIOUS
<1>2. /\ y \in Layers /\ LayerInv(y, draws, id, Boxes(layers), msaa) /\ draws \in Seq(Draws)
      /\ Len(y.clips) > 1 /\ id \in DOMAIN layers /\ StateTypes /\ FrameInv(layers, draws, msaa)
  BY <1>1 DEF AtTop, StateInv, StateTypes
<1>. DEFINE z == PopClipStack(y)  other == PoppedDepths(draws, y)
<1>3. z \in Layers /\ z.history = y.history /\ z.passes = y.passes /\ z.bounds = y.bounds
  BY <1>2, PopIs
<1>4. /\ other \in Seq(Draws) /\ DOMAIN other = DOMAIN draws
      /\ \A d \in DOMAIN draws : Alike(other[d], draws[d])
      /\ \A d \in DOMAIN draws : d \notin Stack(y) => other[d] = draws[d]
      /\ LayerInv(z, other, id, Boxes(layers), msaa)
      /\ ShowAlike(z, other, Boxes(layers), y, draws, Boxes(layers))
  BY Zenon, <1>2, PopKeeps
<1>5. \A c \in Stack(y) : c \in Uses(y)
  BY <1>1, <1>2, StackedClips
<1>. HIDE DEF z, other
<1>6. Uses(z) = Uses(y)
  BY <1>3 DEF Uses
<1>7. Quiet(id, z, other)
  <2>1. \A c \in DOMAIN draws :
         /\ c \notin Uses(y) => other[c] = draws[c]
         /\ other[c].type = draws[c].type /\ other[c].child = draws[c].child
         /\ other[c].clip = draws[c].clip
    BY <1>4, <1>5 DEF Alike
  <2>. QED
    BY <1>1, <1>3, <1>4, <1>6, <2>1 DEF Quiet
<1>8. \A c \in DOMAIN draws : other[c].writes = draws[c].writes
  BY <1>4 DEF Alike
<1>. QED
  BY <1>1, <1>4, <1>7, <1>8 DEF z, other

IsClipDraw(d, path, difference, x) ==
    /\ d \in Draws /\ d.type = "clip" /\ d.scissor = CurrentClipBounds(x) /\ d.clip = 0
    /\ d.writes = IF difference THEN path ELSE x.bounds \ path

\* What ClipDraw makes.
LEMMA ClipDrawIs ==
  ASSUME NEW path \in SUBSET Int, NEW difference \in BOOLEAN, NEW x \in Layers, x.clips # <<>>
  PROVE  IsClipDraw(ClipDraw(path, difference, x), path, difference, x)
<1>1. CurrentClipBounds(x) \in SUBSET Int
  <2>1. Len(x.clips) \in DOMAIN x.clips
    BY LayerTypes, EmptySeq
  <2>. QED
    BY <2>1, LayerTypes DEF CurrentClipBounds, Last
<1>2. x.bounds \in SUBSET Int
  BY LayerTypes
<1>3. Everywhere \in SUBSET Int
  BY DEF Everywhere
<1>4. PICK c, w, e : c = CurrentClipBounds(x) /\ w = (IF difference THEN path ELSE x.bounds \ path) /\ e = Everywhere
  OBVIOUS
<1>5. c \in SUBSET Int /\ w \in SUBSET Int /\ e \in SUBSET Int
  BY <1>1, <1>2, <1>3, <1>4
<1>6. ClipDraw(path, difference, x) =
        [type |-> "clip", dst |-> FALSE, items |-> <<>>, child |-> 0,
         writes |-> w, bounds |-> e, scissor |-> c, clip |-> 0, depth |-> 0]
  <2>1. PICK new : new = NewDraw
    OBVIOUS
  <2>2. new = [type |-> "path", dst |-> FALSE, items |-> <<>>, child |-> 0, writes |-> {},
               bounds |-> e, scissor |-> {}, clip |-> 0, depth |-> 0]
    BY <2>1, <1>4 DEF NewDraw
  <2>3. ClipDraw(path, difference, x) = [new EXCEPT !.type = "clip", !.scissor = c, !.writes = w]
    BY <2>1, <1>4 DEF ClipDraw
  <2>. QED
    BY <2>2, <2>3
<1>7. <<>> \in Seq([id : Nat, pixels : SUBSET Int])
  OBVIOUS
<1>8. ClipDraw(path, difference, x) \in Draws
  BY <1>5, <1>6, <1>7 DEF Draws
<1>. QED
  BY <1>4, <1>6, <1>8 DEF IsClipDraw

\* A clip by a path is quiet.
LEMMA ClipIsQuiet ==
  ASSUME StateInv, NEW n, NEW id, NEW J, NEW K, NEW base, AtTop(n, id, J, K, base),
         NEW x, Quiet(id, x, draws), NEW path \in SUBSET Int, NEW difference \in BOOLEAN
  PROVE  Quiet(id, AddClip(x, Len(draws) + 1), Append(draws, ClipDraw(path, difference, x)))
<1>1. PICK y : y = layers[id]
  OBVIOUS
<1>2. PICK new \in Nat : new = Len(draws) + 1
  BY <1>1, CurrentIs
<1>3. PICK d : d = ClipDraw(path, difference, x)
  OBVIOUS
<1>. DEFINE z == AddClip(x, new)  other == Append(draws, d)
<1>4. /\ x \in Layers /\ x.bounds = y.bounds
      /\ LayerInv(x, draws, id, Boxes(layers), msaa)
      /\ ShowAlike(x, draws, Boxes(layers), y, draws, Boxes(layers))
      /\ Uses(x) \subseteq Uses(y)
  BY <1>1 DEF Quiet
<1>5. x.clips # <<>> /\ draws \in Seq(Draws) /\ ClipNames(draws)
  BY <1>4 DEF LayerInv, NamesAreRight, StateInv, StateTypes
<1>6. d \in Draws /\ d.type = "clip" /\ d.scissor = CurrentClipBounds(x) /\ d.clip = 0
  <2>0. x \in Layers /\ x.clips # <<>>
    BY <1>4, <1>5
  <2>1. IsClipDraw(d, path, difference, x)
    BY <2>0, <1>3, ClipDrawIs
  <2>. QED
    BY <2>1 DEF IsClipDraw
<1>7. z \in Layers /\ z.history = Append(x.history, new) /\ z.passes = x.passes /\ z.bounds = x.bounds
  BY Zenon, <1>2, <1>4, <1>5, AddClipIs
<1>8. LayerInv(z, other, id, Boxes(layers), msaa) /\ ShowAlike(z, other, Boxes(layers), x, draws, Boxes(layers))
  <2>1. LET a == AddClip(x, Len(draws) + 1)
            b == Append(draws, d)
        IN  LayerInv(a, b, id, Boxes(layers), msaa) /\ ShowAlike(a, b, Boxes(layers), x, draws, Boxes(layers))
    BY Zenon, <1>4, <1>5, <1>6, AddClipKeeps
  <2>. QED
    BY Zenon, <2>1, <1>2
<1>9. /\ other \in Seq(Draws) /\ DOMAIN other = DOMAIN draws \cup {new} /\ new \notin DOMAIN draws
      /\ other[new] = d /\ \A c \in DOMAIN draws : other[c] = draws[c]
  BY <1>2, <1>5, <1>6
<1>. HIDE DEF z, other
<1>10. ToSet(z.history) = ToSet(x.history) \cup {new}
  BY <1>2, <1>4, <1>7, ToSetAppend, LayerTypes
<1>11. Uses(z) \subseteq Uses(x) \cup {new}
  BY <1>7, <1>10 DEF Uses
<1>12. ShowAlike(z, other, Boxes(layers), y, draws, Boxes(layers))
  BY <1>4, <1>8 DEF ShowAlike
<1>13. 0 \in 0 .. Len(other)
  BY <1>9
<1>14. Quiet(id, z, other)
  BY <1>1, <1>4, <1>6, <1>7, <1>8, <1>9, <1>11, <1>12, <1>13 DEF Quiet
<1>. QED
  BY <1>2, <1>3, <1>14 DEF z, other

\* The pixels of the surface are finitely many of those there are.
LEMMA SurfaceIsInside == Surface \subseteq Everywhere /\ Surface \in SUBSET Int /\ IsFiniteSet(Surface)
<1>1. Width \in Nat /\ Width > 0 /\ MaxOps \in Nat
  BY CanvasAssumption
<1>2. PICK a, b : a = Width * (MaxOps + 1) /\ b = Width * (MaxOps + 2)
  OBVIOUS
<1>3. a \in Nat /\ b \in Nat /\ b >= Width
  <2>1. \A w, m \in Nat : w * (m + 1) \in Nat /\ w * (m + 2) \in Nat /\ w * (m + 2) = w * m + 2 * w /\ w * m \in Nat
    BY SMT
  <2>2. b = Width * MaxOps + 2 * Width /\ Width * MaxOps \in Nat /\ a \in Nat /\ b \in Nat
    BY <1>1, <1>2, <2>1
  <2>3. PICK c \in Nat : c = Width * MaxOps
    BY <2>2
  <2>4. b = c + 2 * Width
    BY <2>2, <2>3
  <2>. QED
    BY <2>2, <2>4, <1>1
<1>4. 1 .. Width \subseteq -a .. b
  BY <1>1, <1>3
<1>5. Everywhere = -a .. b
  BY <1>2 DEF Everywhere
<1>6. IsFiniteSet(1 .. Width)
  BY <1>1, FS_Interval
<1>. QED
  BY <1>1, <1>4, <1>5, <1>6 DEF Surface

\* A layer of J levels whose last one is clipped.
RectClips(z, y, rect, J) ==
    /\ z \in Layers /\ z.origin = y.origin /\ z.bounds = y.bounds
    /\ z.clips # <<>> /\ Len(z.clips) = J /\ DOMAIN z.clips = 1 .. J
    /\ \A i \in 1 .. J : i < J => z.clips[i] = y.clips[i]
    /\ z.clips[J].draws = y.clips[J].draws /\ z.clips[J].bounds = y.clips[J].bounds \cap rect
    /\ StackTo(z, J) = StackTo(y, J)

\* That is what AddRectClip does.
LEMMA RectIsClipped ==
  ASSUME NEW y \in Layers, y.clips # <<>>, NEW rect, NEW J, J = Len(y.clips)
  PROVE  RectClips(AddRectClip(y, rect), y, rect, J)
<1>. DEFINE z == AddRectClip(y, rect)
<1>1. LET n == Len(y.clips)
      IN  /\ z \in Layers
          /\ z.origin = y.origin /\ z.bounds = y.bounds /\ z.depth = y.depth
          /\ z.history = y.history /\ z.passes = y.passes /\ z.pending = y.pending
          /\ n \in Nat /\ n > 0 /\ n \in 1 .. n /\ Len(z.clips) = n
          /\ \A i \in 1 .. n : z.clips[i].draws = y.clips[i].draws
          /\ \A i \in 1 .. n : i < n => z.clips[i].bounds = y.clips[i].bounds
          /\ z.clips[n].bounds = y.clips[n].bounds \cap rect
  BY RectIs
<1>. HIDE DEF z
<1>2. /\ z \in Layers /\ z.origin = y.origin /\ z.bounds = y.bounds
      /\ J \in Nat /\ J > 0 /\ J \in 1 .. J /\ Len(z.clips) = J
      /\ \A i \in 1 .. J : z.clips[i].draws = y.clips[i].draws
      /\ \A i \in 1 .. J : i < J => z.clips[i].bounds = y.clips[i].bounds
      /\ z.clips[J].bounds = y.clips[J].bounds \cap rect
  BY <1>1
<1>3. DOMAIN z.clips = 1 .. J /\ z.clips \in Seq(Levels) /\ y.clips \in Seq(Levels) /\ z.clips # <<>>
  BY <1>2, LayerTypes
<1>4. ASSUME NEW i \in 1 .. J, i < J PROVE z.clips[i] = y.clips[i]
  <2>1. PICK a, b : a = z.clips[i] /\ b = y.clips[i]
    OBVIOUS
  <2>2. a \in Levels /\ b \in Levels
    BY <2>1, <1>2, <1>3, ElementOfSeq
  <2>3. a.draws = b.draws /\ a.bounds = b.bounds
    BY <2>1, <1>2, <1>4
  <2>4. a = b
    BY <2>2, <2>3 DEF Levels
  <2>. QED
    BY <2>1, <2>4
<1>5. StackTo(z, J) = StackTo(y, J)
  BY <1>2, StackToSame
<1>6. RectClips(z, y, rect, J)
  BY <1>2, <1>3, <1>4, <1>5 DEF RectClips
<1>. QED
  BY <1>6 DEF z

\* What a save keeps is the top.
LEMMA ViewIsTop ==
  ASSUME StateInv, NEW n, NEW id, NEW J, NEW K, NEW base, AtTop(n, id, J, K, base)
  PROVE  View \in Views /\ ViewIs(View, n, J, K)
<1>1. PICK y : y = layers[id]
  OBVIOUS
<1>2. /\ y \in Layers /\ LayerInv(y, draws, id, Boxes(layers), msaa) /\ y.clips # <<>>
      /\ draws \in Seq(Draws) /\ layers \in Seq(Layers) /\ id \in DOMAIN layers
  BY <1>1, CurrentIs
<1>3. /\ Current = id /\ CurrentLayer = y /\ layerStack # <<>> /\ layerStack[n] = id
      /\ J = Len(y.clips) /\ CurrentClipBounds(y) = y.clips[J].bounds /\ Asked = saved[K]
      /\ Last(layerStack) = id /\ id \in Nat /\ J \in DOMAIN y.clips
  BY <1>1 DEF AtTop, CurrentLayer, IsBase, Current
<1>4. TotalMatrix \in Int /\ saved[K].matrix = TotalMatrix
  BY <1>3, TopAgrees
<1>5. Recording
  BY <1>1, <1>2, <1>3 DEF Recording
<1>6. View = [matrix |-> TotalMatrix, bounds |-> CurrentClipBounds(y), clip |-> LastClipDraw(y), layer |-> id]
  BY <1>3, <1>5 DEF View
<1>7. IsLast(LastClipDraw(y), Stack(y)) /\ LastClipDraw(y) \in Nat
  BY <1>2, LastClipIs DEF LayerInv
<1>8. y.clips[J].bounds \in SUBSET Int
  BY <1>2, <1>3, LayerTypes
<1>9. Stack(y) = StackTo(y, J)
  BY <1>3 DEF Stack
<1>. QED
  BY <1>1, <1>3, <1>4, <1>6, <1>7, <1>8, <1>9 DEF Views, ViewIs

\* A call makes z of the current layer and keeps its first j levels and k saves.
TopBecomes(n, id, z, j, k) ==
    /\ z \in Layers /\ layers' = [layers EXCEPT ![id] = z] /\ z.origin = layers[id].origin
    /\ layerStack' = layerStack
    /\ \A r \in 1 .. n - 1 : matrices'[r] = matrices[r]
    /\ matrices'[n].world = matrices[n].world
    /\ \A i \in 1 .. j : /\ z.clips[i] = layers[id].clips[i]
                         /\ matrices'[n].elements[i] = matrices[n].elements[i]
    /\ \A i \in 1 .. k : saved'[i] = saved[i] /\ globalClips'[i] = globalClips[i]
    /\ \A c \in DOMAIN draws : draws[c].type = "clip" => draws'[c].writes = draws[c].writes

\* Such a call keeps all below.
LEMMA TopStays ==
  ASSUME StateInv, NEW n, NEW id, NEW J, NEW K, NEW base, AtTop(n, id, J, K, base),
         NEW j \in 0 .. J, NEW z, NEW k, TopBecomes(n, id, z, j, k)
  PROVE  SameUpTo(n, j, k) /\ MayKeep(n, j)
<1>1. /\ n \in Nat \ {0} /\ n = Len(layerStack) /\ DOMAIN layerStack = 1 .. n /\ layerStack[n] = id
      /\ id \in DOMAIN layers /\ J = Len(layers[id].clips) /\ J \in Nat \ {0}
  BY DEF AtTop
<1>2. layers \in Seq(Layers) /\ OpenInv(layerStack, layers, draws)
      /\ \A r \in DOMAIN layerStack : layerStack[r] \in Nat /\ layerStack[r] \in DOMAIN layers
  <2>1. layers \in Seq(Layers)
    BY DEF StateInv, StateTypes
  <2>2. \A r \in DOMAIN layerStack : layerStack[r] \in DOMAIN layers
    BY DEF StateInv, StateTypes
  <2>. QED
    BY <2>1, <2>2 DEF StateInv
<1>3. ASSUME NEW r \in 1 .. n - 1 PROVE layers'[layerStack[r]] = layers[layerStack[r]]
  <2>1. layerStack[r] < layerStack[n] /\ layerStack[r] \in Nat /\ layerStack[r] \in DOMAIN layers
    <3>1. r \in DOMAIN layerStack /\ n \in DOMAIN layerStack /\ r < n
      BY <1>1
    <3>. QED
      BY <3>1, <1>2 DEF OpenInv
  <2>2. layerStack[r] # id
    BY <2>1, <1>1
  <2>. QED
    BY <2>1, <2>2, <1>2 DEF TopBecomes
<1>4. layers'[id] = z
  BY <1>1, <1>2 DEF TopBecomes
<1>5. SameUpTo(n, j, k)
  BY <1>1, <1>3, <1>4 DEF SameUpTo, TopBecomes
<1>6. MayKeep(n, j)
  BY <1>1 DEF MayKeep
<1>. QED
  BY <1>5, <1>6

-----------------------------------------------------------------------------
(* Save and a rejected layer                                               *)

\* Save: one more level in the layer, with the clip "asked" and its bounds.
Pushes(id, z, J, asked, clip) ==
    /\ z \in Layers /\ layers' = [layers EXCEPT ![id] = z] /\ z.origin = layers[id].origin
    /\ DOMAIN z.clips = 1 .. J + 1 /\ Len(z.clips) = J + 1
    /\ \A i \in 1 .. J : z.clips[i] = layers[id].clips[i]
    /\ z.clips[J + 1].draws = <<>> /\ z.clips[J + 1].bounds \subseteq CurrentClipBounds(layers[id])
    /\ layerStack' = layerStack /\ draws' = draws
    /\ saveCount' = saveCount + 1
    /\ matrices' = [matrices EXCEPT ![Len(matrices)].elements = Append(@, Last(@))]
    /\ globalClips' = Append(globalClips, clip)
    /\ saved' = Append(saved, [matrix |-> Asked.matrix, clip |-> asked, view |-> View])
    /\ asked \subseteq clip \cap Surface
    /\ clip \subseteq Surface /\ clip \subseteq z.clips[J + 1].bounds
    /\ \A p \in Surface : p \in asked <=> p \in z.clips[J + 1].bounds /\ p \in Asked.clip

\* A sequence of n + 1 elements that starts like s, and one with another element.
OneLonger(S, t, s, x, n) ==
    /\ t \in Seq(S) /\ Len(t) = n + 1 /\ t[n + 1] = x
    /\ \A i \in 1 .. n : t[i] = s[i]
OneOther(S, t, s, x, m, n) ==
    /\ t \in Seq(S) /\ Len(t) = n /\ t[m] = x
    /\ \A i \in 1 .. n : i # m => t[i] = s[i]

\* Append makes such a sequence.
LEMMA SeqAppended ==
  ASSUME NEW S, NEW s \in Seq(S), NEW x \in S, NEW n, n = Len(s)
  PROVE  OneLonger(S, Append(s, x), s, x, n)
  BY DEF OneLonger

\* EXCEPT makes such a sequence.
LEMMA SeqReplaced ==
  ASSUME NEW S, NEW s \in Seq(S), NEW x \in S, NEW n, n = Len(s), NEW m \in 1 .. n
  PROVE  OneOther(S, [s EXCEPT ![m] = x], s, x, m, n)
  BY DEF OneOther

\* The matrices with one more element for the top, a copy of the last one.
LEMMA MatricesPushed ==
  ASSUME matrices \in Seq(LayerStates), NEW n \in DOMAIN matrices, n = Len(matrices),
         NEW J \in Nat \ {0}, J = Len(matrices[n].elements),
         matrices' = [matrices EXCEPT ![Len(matrices)].elements = Append(@, Last(@))]
  PROVE  /\ matrices' \in Seq(LayerStates) /\ Len(matrices') = n
         /\ \A r \in DOMAIN matrices : r # n => matrices'[r] = matrices[r]
         /\ matrices'[n].world = matrices[n].world /\ Len(matrices'[n].elements) = J + 1
         /\ \A i \in 1 .. J : matrices'[n].elements[i] = matrices[n].elements[i]
         /\ matrices'[n].elements[J + 1] = matrices[n].elements[J]
<1>1. PICK m : m = matrices[n]
  OBVIOUS
<1>2. m \in LayerStates
  <2>1. n \in 1 .. Len(matrices)
    OBVIOUS
  <2>. QED
    BY Zenon, <2>1, <1>1, ElementOfSeq
<1>3. m.elements \in Seq(Int) /\ m.world \in Int /\ Last(m.elements) = m.elements[J]
  BY <1>1, <1>2 DEF Last, LayerStates
<1>4. PICK e : e = Append(m.elements, m.elements[J])
  OBVIOUS
<1>5. m.elements[J] \in Int
  BY <1>1, <1>3
<1>6. e \in Seq(Int) /\ Len(e) = J + 1 /\ e[J + 1] = m.elements[J] /\ \A i \in 1 .. J : e[i] = m.elements[i]
  BY <1>1, <1>3, <1>4, <1>5
<1>7. PICK x : x = [m EXCEPT !.elements = e]
  OBVIOUS
<1>8. x \in LayerStates /\ x.world = m.world /\ x.elements = e
  BY <1>2, <1>6, <1>7 DEF LayerStates
<1>9. matrices' = [matrices EXCEPT ![n] = x]
  BY <1>1, <1>3, <1>4, <1>7
<1>10. /\ matrices' \in Seq(LayerStates) /\ Len(matrices') = n /\ matrices'[n] = x
       /\ \A r \in DOMAIN matrices : r # n => matrices'[r] = matrices[r]
  <2>1. n \in 1 .. n /\ DOMAIN matrices = 1 .. n
    OBVIOUS
  <2>. QED
    <3>1. OneOther(LayerStates, [matrices EXCEPT ![n] = x], matrices, x, n, n)
      BY <2>1, <1>8, SeqReplaced
    <3>. QED
      BY <2>1, <3>1, <1>9 DEF OneOther
<1>. QED
  BY <1>1, <1>6, <1>8, <1>10

\* Then the saves are right with one save more.
LEMMA PushLevel ==
  ASSUME StateInv, NEW n, NEW id, NEW J, NEW K, NEW base, AtTop(n, id, J, K, base),
         NEW z, NEW asked, NEW clip, Pushes(id, z, J, asked, clip)
  PROVE  /\ SavesInv'
         /\ matrices' \in Seq(LayerStates)
         /\ saved' \in Seq(Saveds)
         /\ globalClips' \in Seq(SUBSET Surface)
<1>1. PICK y : y = layers[id]
  OBVIOUS
<1>2. /\ n \in Nat \ {0} /\ n = Len(layerStack) /\ DOMAIN layerStack = 1 .. n /\ layerStack[n] = id
      /\ J \in Nat \ {0} /\ J = Len(y.clips) /\ DOMAIN y.clips = 1 .. J
      /\ CurrentClipBounds(y) = y.clips[J].bounds /\ id \in DOMAIN layers
      /\ K \in Nat \ {0} /\ K = saveCount /\ K = Len(saved) /\ K = Len(globalClips)
      /\ Asked = saved[K] /\ Last(globalClips) = globalClips[K]
      /\ n = Len(matrices) /\ J = Len(matrices[n].elements) /\ matrices[n].world = y.origin
      /\ IsBase(base) /\ base[n] \in Nat /\ K = base[n] + J /\ LevelOK(n, J, K)
  BY <1>1 DEF AtTop
<1>3. /\ StateTypes /\ FrameInv(layers, draws, msaa)
      /\ matrices \in Seq(LayerStates)
      /\ saved \in Seq(Saveds)
      /\ globalClips \in Seq(SUBSET Surface) /\ layers \in Seq(Layers) /\ layerStack # <<>>
  BY <1>2 DEF StateInv, StateTypes, IsBase
<1>4. n \in DOMAIN matrices
  BY <1>2, <1>3
<1>5. /\ matrices' \in Seq(LayerStates) /\ Len(matrices') = n
      /\ \A r \in DOMAIN matrices : r # n => matrices'[r] = matrices[r]
      /\ matrices'[n].world = matrices[n].world /\ Len(matrices'[n].elements) = J + 1
      /\ \A i \in 1 .. J : matrices'[n].elements[i] = matrices[n].elements[i]
      /\ matrices'[n].elements[J + 1] = matrices[n].elements[J]
  <2>1. matrices' = [matrices EXCEPT ![Len(matrices)].elements = Append(@, Last(@))]
    BY DEF Pushes
  <2>. QED
    BY Zenon, <2>1, <1>2, <1>3, <1>4, MatricesPushed
<1>6. PICK new : new = [matrix |-> Asked.matrix, clip |-> asked, view |-> View]
  OBVIOUS
<1>7. /\ Asked.matrix \in Int /\ Asked.matrix = TotalMatrix
      /\ matrices[n].world + matrices[n].elements[J] = TotalMatrix
      /\ \A p \in Surface : p \in Asked.clip <=> InsideAll(y, draws, p) /\ Under(n, p)
  BY <1>1, TopAgrees
<1>8. View \in Views /\ ViewIs(View, n, J, K)
  BY ViewIsTop
<1>9. /\ z \in Layers /\ layers' = [layers EXCEPT ![id] = z] /\ z.origin = y.origin
      /\ DOMAIN z.clips = 1 .. J + 1 /\ Len(z.clips) = J + 1
      /\ \A i \in 1 .. J : z.clips[i] = y.clips[i]
      /\ z.clips[J + 1].draws = <<>> /\ z.clips[J + 1].bounds \subseteq CurrentClipBounds(y)
      /\ layerStack' = layerStack /\ draws' = draws
      /\ saveCount' = K + 1 /\ globalClips' = Append(globalClips, clip) /\ saved' = Append(saved, new)
      /\ asked \subseteq clip \cap Surface
      /\ clip \subseteq Surface /\ clip \subseteq z.clips[J + 1].bounds
      /\ \A p \in Surface : p \in asked <=> p \in z.clips[J + 1].bounds /\ p \in Asked.clip
  BY <1>1, <1>2, <1>6 DEF Pushes
<1>10. new \in Saveds
  BY <1>6, <1>7, <1>8, <1>9, SurfaceIsInside DEF Saveds
<1>11. /\ saved' \in Seq(Saveds)
       /\ globalClips' \in Seq(SUBSET Surface)
       /\ Len(saved') = K + 1 /\ Len(globalClips') = K + 1
       /\ saved'[K + 1] = new /\ globalClips'[K + 1] = clip
       /\ \A i \in 1 .. K : saved'[i] = saved[i] /\ globalClips'[i] = globalClips[i]
  <2>1. /\ saved' \in Seq(Saveds) /\ Len(saved') = K + 1
        /\ saved'[K + 1] = new /\ \A i \in 1 .. K : saved'[i] = saved[i]
    <3>1. K = Len(saved) /\ saved \in Seq(Saveds)
      BY <1>2, <1>3
    <3>2. OneLonger(Saveds, Append(saved, new), saved, new, K)
      BY <3>1, <1>10, SeqAppended
    <3>. QED
      BY <3>2, <1>9 DEF OneLonger
  <2>2. clip \in SUBSET Surface
    BY <1>9
  <2>3. /\ globalClips' \in Seq(SUBSET Surface) /\ Len(globalClips') = K + 1
        /\ globalClips'[K + 1] = clip /\ \A i \in 1 .. K : globalClips'[i] = globalClips[i]
    <3>1. K = Len(globalClips) /\ globalClips \in Seq(SUBSET Surface)
      BY <1>2, <1>3
    <3>2. OneLonger(SUBSET Surface, Append(globalClips, clip), globalClips, clip, K)
      BY <2>2, <3>1, SeqAppended
    <3>. QED
      BY <3>2, <1>9 DEF OneLonger
  <2>. QED
    BY <2>1, <2>3
<1>12. SameUpTo(n, J, K) /\ MayKeep(n, J)
  <2>1. \A r \in 1 .. n - 1 : matrices'[r] = matrices[r]
    <3>1. DOMAIN matrices = 1 .. n
      BY <1>2, <1>3
    <3>2. \A r \in 1 .. n - 1 : r \in 1 .. n /\ r # n
      BY <1>2
    <3>. QED
      BY <3>1, <3>2, <1>5
  <2>2. J \in 0 .. J
    BY <1>2
  <2>3. \A i \in 1 .. J : z.clips[i] = layers[id].clips[i] /\ matrices'[n].elements[i] = matrices[n].elements[i]
    BY <1>1, <1>5, <1>9
  <2>4. z.origin = layers[id].origin /\ \A c \in DOMAIN draws : draws[c].type = "clip" => draws'[c].writes = draws[c].writes
    BY <1>1, <1>9
  <2>. QED
    <3>1. TopBecomes(n, id, z, J, K)
      BY <2>1, <2>3, <2>4, <1>5, <1>9, <1>11 DEF TopBecomes
    <3>. QED
      BY <2>2, <3>1, TopStays
<1>13. PICK M \in Nat : M = J + 1
  BY <1>2
<1>14. layers'[id] = z
  BY <1>2, <1>3, <1>9
<1>15. UpTo(n, J, n, J) /\ n \in 1 .. n /\ K \in 1 .. K
  BY <1>2 DEF UpTo
<1>16. ClipIs(n, M, K + 1)'
  <2>1. StackTo(z, M) = StackTo(y, J)
    <3>1. StackTo(z, J) = StackTo(y, J)
      BY <1>2, <1>9, StackToSame
    <3>2. StackTo(z, J + 1) = StackTo(z, J) \cup ToSet(z.clips[J + 1].draws)
      BY <1>2, StackToNext
    <3>3. ToSet(z.clips[J + 1].draws) = {}
      BY <1>9 DEF ToSet
    <3>. QED
      BY <3>1, <3>2, <3>3, <1>13
  <2>2. \A p : Inside(z, draws', M, p) <=> p \in z.clips[J + 1].bounds /\ InsideAll(y, draws, p)
    BY <2>1, <1>2, <1>9, <1>13 DEF Inside, InsideAll
  <2>3. \A p : Under(n, p)' <=> Under(n, p)
    BY <1>3, <1>12, <1>15, LevelsStay
  <2>4. \A p \in Surface : p \in asked <=> Inside(z, draws', M, p) /\ Under(n, p)'
    BY <2>2, <2>3, <1>7, <1>9
  <2>5. layers'[layerStack'[n]] = z
    BY <1>2, <1>9, <1>14
  <2>6. saved'[K + 1].matrix = matrices'[n].world + matrices'[n].elements[M]
    BY <1>5, <1>6, <1>7, <1>11, <1>13
  <2>7. saved'[K + 1].clip = asked
    BY <1>6, <1>11
  <2>. QED
    BY <2>4, <2>5, <2>6, <2>7, <1>9, <1>11, <1>13 DEF ClipIs
<1>17. Undoes(n, M, K + 1)'
  <2>1. PICK v : v = View
    OBVIOUS
  <2>2. ViewIs(v, n, J, K)'
    BY <2>1, <1>3, <1>8, <1>12, <1>15, ViewStays
  <2>3. saved'[K + 1].view = v
    BY <2>1, <1>6, <1>11
  <2>4. M - 1 = J /\ (K + 1) - 1 = K /\ M # 1
    BY <1>2, <1>13
  <2>. QED
    BY <2>2, <2>3, <2>4 DEF Undoes
<1>18. Becomes(base, n, J, M)
  <2>1. \A j \in J + 1 .. M : LevelOK(n, j, base[n] + j)'
    <3>1. PICK b \in Nat : b = base[n]
      BY <1>2
    <3>2. b + M = K + 1
      <4>1. K = b + J /\ J \in Nat
        BY <3>1, <1>2
      <4>. QED
        BY <4>1, <1>13
    <3>3. LevelOK(n, M, b + M)'
      BY <3>2, <1>16, <1>17 DEF LevelOK
    <3>4. \A j \in J + 1 .. M : j = M
      BY <1>2, <1>13
    <3>. QED
      BY <3>1, <3>3, <3>4
  <2>2. layers'[layerStack'[n]] = z /\ DOMAIN layerStack' = 1 .. n /\ Len(layerStack') = n
    BY <1>2, <1>9, <1>14
  <2>3. /\ M \in Nat \ {0} /\ J <= M
        /\ SameUpTo(n, J, base[n] + J) /\ saveCount' = base[n] + M
        /\ Len(saved') = saveCount' /\ Len(globalClips') = saveCount'
    <3>1. PICK b \in Nat : b = base[n]
      BY <1>2
    <3>2. K = b + J /\ J \in Nat /\ saveCount' = K + 1 /\ Len(saved') = K + 1 /\ Len(globalClips') = K + 1
      BY <3>1, <1>2, <1>9, <1>11
    <3>3. b + M = K + 1 /\ M \in Nat \ {0} /\ J <= M
      BY <3>2, <1>13
    <3>4. SameUpTo(n, J, base[n] + J)
      BY <3>1, <3>2, <1>12
    <3>. QED
      BY <3>1, <3>2, <3>3, <3>4
  <2>4. DOMAIN z.clips = 1 .. M /\ Len(z.clips) = M
        /\ matrices'[n].world = z.origin /\ Len(matrices'[n].elements) = M /\ Len(matrices') = n
    BY <1>2, <1>5, <1>9, <1>13
  <2>. QED
    BY <2>1, <2>2, <2>3, <2>4, <1>12 DEF Becomes
<1>19. SavesInv'
  BY <1>2, <1>3, <1>18, SavesBecome
<1>. QED
  BY <1>5, <1>11, <1>19

\* D has where the draws that were asked for really are: a draw in place is in
\* its clip, and a displaced one anywhere.
IsReach(D) ==
    /\ D \in Seq(SUBSET Int) /\ Len(D) = Len(log)
    /\ \A i \in 1 .. Len(D) : ~ log[i].displaced => D[i] = log[i].pixels \cap log[i].clip

\* The draws that are on a pixel.
Reached(D, p) == Chosen([i \in DOMAIN D |-> i], {i \in DOMAIN D : p \in D[i]})

\* What is recorded shows what was asked for.
ShownIsAsked ==
    \E R, D : /\ Pictures(layers, draws, R) /\ IsReach(D)
              /\ layers # <<>> => \A p \in Surface : R[1][p] = Reached(D, p)

CallTypes ==
    /\ msaa' \in BOOLEAN /\ scene' \in Scenes /\ ops' \in 0 .. scene'.ops /\ frames' \in 0 .. scene'.frames

\* A call is made while a frame is recorded, and keeps the types.
LEMMA CallIs ==
  ASSUME StateInv, Call
  PROVE  CallTypes /\ Recording /\ layerStack # <<>> /\ msaa' = msaa
<1>1. msaa \in BOOLEAN /\ scene \in Scenes /\ ops \in 0 .. scene.ops /\ frames \in 0 .. scene.frames
  BY DEF StateInv, StateTypes
<1>2. scene.ops \in Nat
  BY <1>1, CanvasAssumption
<1>3. ops < scene.ops /\ ops' = ops + 1 /\ msaa' = msaa /\ scene' = scene /\ frames' = frames
  BY DEF Call
<1>. QED
  BY <1>1, <1>2, <1>3 DEF CallTypes, Call, Recording

\* A call that shows nothing more changes the current layer and the draws.
QuietCall(id, z, other) ==
    /\ Quiet(id, z, other)
    /\ layers' = [layers EXCEPT ![id] = z] /\ draws' = other
    /\ layerStack' = layerStack /\ msaa' = msaa /\ log' = log

FrameKept ==
    /\ FrameInv(layers, draws, msaa)' /\ OpenInv(layerStack, layers, draws)' /\ ClipNames(draws)'
    /\ layers' \in Seq(Layers) /\ draws' \in Seq(Draws)
    /\ layerStack' \in Seq(Nat) /\ \A s \in DOMAIN layerStack' : layerStack'[s] \in DOMAIN layers'
    /\ ShownIsAsked'

\* What is shown and what was asked for stay the same.
LEMMA QuietKeeps ==
  ASSUME StateInv, ShownIsAsked, NEW n, NEW id, NEW J, NEW K, NEW base, AtTop(n, id, J, K, base),
         NEW z, NEW other, QuietCall(id, z, other)
  PROVE  FrameKept
<1>. DEFINE new == [layers EXCEPT ![id] = z]
<1>1. /\ layers \in Seq(Layers) /\ layerStack \in Seq(Nat) /\ \A s \in DOMAIN layerStack : layerStack[s] \in DOMAIN layers
      /\ id \in DOMAIN layers
  BY DEF StateInv, StateTypes, AtTop
<1>2. /\ z \in Layers /\ z.bounds = layers[id].bounds /\ other \in Seq(Draws) /\ Quiet(id, z, other)
      /\ layers' = new /\ draws' = other /\ layerStack' = layerStack /\ msaa' = msaa /\ log' = log
  BY DEF QuietCall, Quiet
<1>3. new \in Seq(Layers) /\ DOMAIN new = DOMAIN layers
  BY <1>1, <1>2
<1>4. /\ FrameInv(new, other, msaa) /\ OpenInv(layerStack, new, other) /\ ClipNames(other)
      /\ \A R : Pictures(layers, draws, R) => Pictures(new, other, R)
  BY Zenon, <1>2, QuietStep
<1>. HIDE DEF new
<1>5. FrameInv(layers, draws, msaa)' /\ OpenInv(layerStack, layers, draws)' /\ ClipNames(draws)'
  BY <1>2, <1>4
<1>6. PICK R, D : /\ Pictures(layers, draws, R) /\ IsReach(D)
                  /\ \A p \in Surface : R[1][p] = Reached(D, p)
  <2>1. layers # <<>>
    BY <1>1
  <2>. QED
    BY <2>1 DEF ShownIsAsked
<1>7. Pictures(new, other, R) /\ IsReach(D)'
  <2>1. IsReach(D)'
    BY <1>2, <1>6 DEF IsReach
  <2>. QED
    BY <2>1, <1>4, <1>6
<1>8. ShownIsAsked'
  BY <1>2, <1>6, <1>7 DEF ShownIsAsked
<1>. QED
  BY <1>1, <1>2, <1>3, <1>5, <1>8 DEF FrameKept

\* The parts of the invariant after a call.
LEMMA KeptIs ==
  ASSUME FrameKept, CallTypes, SavesInv',
         matrices' \in Seq(LayerStates), saved' \in Seq(Saveds), globalClips' \in Seq(SUBSET Surface),
         saveCount' \in Nat \ {0}, log' \in Seq(Logs)
  PROVE  StateInv' /\ ShownIsAsked'
<1>1. StateTypes'
  BY DEF StateTypes, FrameKept, CallTypes
<1>. QED
  BY <1>1 DEF StateInv, FrameKept

\* Save keeps the invariant.
LEMMA SaveKeeps ==
  ASSUME StateInv, ShownIsAsked, Save
  PROVE  StateInv' /\ ShownIsAsked'
<1>1. Call /\ CallTypes /\ layerStack # <<>> /\ msaa' = msaa
  BY CallIs DEF Save
<1>2. PICK n, id, J, K, base : AtTop(n, id, J, K, base)
  BY <1>1, TopIs
<1>3. PICK y : y = layers[id]
  OBVIOUS
<1>4. PICK z : z = PushClipStack(y)
  OBVIOUS
<1>5. /\ y \in Layers /\ y.clips # <<>> /\ draws \in Seq(Draws) /\ layers \in Seq(Layers) /\ id \in DOMAIN layers
  BY <1>2, <1>3, CurrentIs
<1>6. Current = id /\ J = Len(y.clips) /\ saveCount \in Nat /\ J \in Nat \ {0}
      /\ CurrentClipBounds(y) = y.clips[J].bounds
  BY <1>2, <1>3 DEF AtTop
<1>7. /\ z \in Layers /\ z.origin = y.origin /\ Len(z.clips) = J + 1
      /\ \A i \in 1 .. J : z.clips[i] = y.clips[i]
      /\ z.clips[J + 1].draws = <<>> /\ z.clips[J + 1].bounds = y.clips[J].bounds
  BY Zenon, <1>4, <1>5, <1>6, PushIs
<1>8. DOMAIN z.clips = 1 .. J + 1
  BY <1>7, LayerTypes
<1>9. /\ layers' = [layers EXCEPT ![id] = z] /\ layerStack' = layerStack /\ draws' = draws /\ log' = log
      /\ saveCount' = saveCount + 1
      /\ matrices' = [matrices EXCEPT ![Len(matrices)].elements = Append(@, Last(@))]
      /\ globalClips' = Append(globalClips, Last(globalClips))
      /\ saved' = Append(saved, [matrix |-> Asked.matrix, clip |-> Asked.clip \cap Everywhere, view |-> View])
  BY <1>3, <1>4, <1>6 DEF Save, SetLayer, CurrentLayer, AskedSave
<1>10. PICK asked, clip : asked = Asked.clip \cap Everywhere /\ clip = Last(globalClips)
  OBVIOUS
<1>11. asked = Asked.clip /\ asked \subseteq clip \cap Surface /\ clip \subseteq CurrentClipBounds(y) /\ clip \subseteq Surface
  <2>1. Asked.clip \subseteq Last(globalClips) \cap Surface /\ Last(globalClips) \subseteq CurrentClipBounds(y)
    BY <1>2, <1>3, TopAgrees
  <2>2. clip \in SUBSET Surface
    <3>1. globalClips \in Seq(SUBSET Surface) /\ Last(globalClips) = globalClips[K] /\ K = Len(globalClips) /\ K \in Nat \ {0}
      BY <1>2 DEF AtTop, StateInv, StateTypes
    <3>. QED
      BY <3>1, <1>10
  <2>. QED
    BY <1>10, <2>1, <2>2, SurfaceIsInside
<1>12. \A p \in Surface : p \in asked <=> p \in z.clips[J + 1].bounds /\ p \in Asked.clip
  BY <1>6, <1>7, <1>11
<1>13. Pushes(id, z, J, asked, clip)
  BY <1>3, <1>6, <1>7, <1>8, <1>9, <1>10, <1>11, <1>12 DEF Pushes
<1>14. /\ SavesInv' /\ matrices' \in Seq(LayerStates) /\ saved' \in Seq(Saveds)
       /\ globalClips' \in Seq(SUBSET Surface)
  BY <1>2, <1>13, PushLevel
<1>15. QuietCall(id, z, draws)
  BY <1>1, <1>2, <1>3, <1>4, <1>9, PushIsQuiet DEF QuietCall
<1>16. PICK other : other = draws
  OBVIOUS
<1>17. FrameKept
  BY <1>2, <1>15, <1>16, QuietKeeps
<1>18. saveCount' \in Nat \ {0} /\ log' \in Seq(Logs)
  BY <1>6, <1>9, SMTT(40) DEF StateInv, StateTypes
<1>. QED
  BY <1>1, <1>14, <1>17, <1>18, KeptIs

\* SaveLayer of a layer outside of the clip keeps the invariant: its level lets
\* nothing through.
LEMMA SaveRejectedLayerKeeps ==
  ASSUME StateInv, ShownIsAsked, NEW bounds, SaveRejectedLayer(bounds)
  PROVE  StateInv' /\ ShownIsAsked'
<1>1. Call /\ CallTypes /\ layerStack # <<>> /\ msaa' = msaa
  BY CallIs DEF SaveRejectedLayer
<1>2. PICK n, id, J, K, base : AtTop(n, id, J, K, base)
  BY <1>1, TopIs
<1>3. PICK y : y = layers[id]
  OBVIOUS
<1>4. PICK x : x = PushClipStack(y)
  OBVIOUS
<1>5. PICK z : z = AddRectClip(x, {})
  OBVIOUS
<1>6. /\ y \in Layers /\ y.clips # <<>> /\ draws \in Seq(Draws) /\ layers \in Seq(Layers) /\ id \in DOMAIN layers
  BY <1>2, <1>3, CurrentIs
<1>7. Current = id /\ J = Len(y.clips) /\ saveCount \in Nat /\ J \in Nat \ {0}
      /\ CurrentClipBounds(y) = y.clips[J].bounds
  BY <1>2, <1>3 DEF AtTop
<1>8. PICK M \in Nat : M = J + 1
  BY <1>7
<1>9. /\ x \in Layers /\ x.origin = y.origin /\ Len(x.clips) = M
      /\ \A i \in 1 .. J : x.clips[i] = y.clips[i]
      /\ x.clips[M].draws = <<>> /\ x.clips[M].bounds = y.clips[J].bounds
  BY Zenon, <1>4, <1>6, <1>7, <1>8, PushIs
<1>10. x.clips # <<>>
  BY <1>9, <1>7, <1>8
<1>11. RectClips(z, x, {}, M)
  BY <1>5, <1>9, <1>10, RectIsClipped
<1>12. /\ z \in Layers /\ z.origin = x.origin /\ Len(z.clips) = J + 1 /\ DOMAIN z.clips = 1 .. J + 1
       /\ z.clips[M].draws = x.clips[M].draws /\ z.clips[M].bounds = x.clips[M].bounds \cap {}
  BY <1>8, <1>11 DEF RectClips
<1>13. \A i \in 1 .. J : z.clips[i] = y.clips[i]
  <2>1. \A i \in 1 .. J : i \in 1 .. M /\ i < M
    BY <1>7, <1>8
  <2>. QED
    BY <2>1, <1>9, <1>11 DEF RectClips
<1>14. /\ layers' = [layers EXCEPT ![id] = z] /\ layerStack' = layerStack /\ draws' = draws /\ log' = log
       /\ saveCount' = saveCount + 1 /\ QuickReject(bounds)
       /\ matrices' = [matrices EXCEPT ![Len(matrices)].elements = Append(@, Last(@))]
       /\ globalClips' = Append(globalClips, {})
       /\ saved' = Append(saved, [matrix |-> Asked.matrix, clip |-> Asked.clip \cap Moved(bounds, Asked.matrix),
                                  view |-> View])
  BY <1>3, <1>4, <1>5, <1>7 DEF SaveRejectedLayer, SetLayer, CurrentLayer, AskedSave
<1>15. PICK asked : asked = Asked.clip \cap Moved(bounds, Asked.matrix)
  OBVIOUS
<1>16. asked = {}
  <2>1. Asked.clip \subseteq Last(globalClips) /\ Asked.matrix = TotalMatrix
    BY <1>2, TopAgrees
  <2>. QED
    BY <2>1, <1>14, <1>15 DEF QuickReject
<1>17. PICK clip : clip = {}
  OBVIOUS
<1>18. z.clips[J + 1].draws = <<>> /\ z.clips[J + 1].bounds = {}
  BY <1>8, <1>9, <1>12
<1>19. Pushes(id, z, J, asked, clip)
  BY <1>3, <1>8, <1>9, <1>12, <1>13, <1>14, <1>15, <1>16, <1>17, <1>18 DEF Pushes
<1>20. /\ SavesInv' /\ matrices' \in Seq(LayerStates) /\ saved' \in Seq(Saveds)
       /\ globalClips' \in Seq(SUBSET Surface)
  BY <1>2, <1>19, PushLevel
<1>21. PICK other : other = draws
  OBVIOUS
<1>22. QuietCall(id, z, other)
  <2>1. Quiet(id, AddRectClip(PushClipStack(layers[id]), {}), draws)
    BY Zenon, <1>2, EmptyPushIsQuiet
  <2>. QED
    BY <2>1, <1>1, <1>3, <1>4, <1>5, <1>14, <1>21 DEF QuietCall
<1>23. FrameKept
  BY <1>2, <1>22, QuietKeeps
<1>24. saveCount' \in Nat \ {0} /\ log' \in Seq(Logs)
  <2>1. log \in Seq(Logs)
    BY DEF StateInv, StateTypes
  <2>2. saveCount + 1 \in Nat \ {0}
    BY <1>7
  <2>. QED
    BY <2>1, <2>2, <1>14
<1>. QED
  BY <1>1, <1>20, <1>23, <1>24, KeptIs

-----------------------------------------------------------------------------
(* Translate and the clips                                                 *)

MatrixBecomes(n, J, element) ==
    /\ matrices' \in Seq(LayerStates) /\ Len(matrices') = n
    /\ \A r \in 1 .. n : r # n => matrices'[r] = matrices[r]
    /\ matrices'[n].world = matrices[n].world /\ Len(matrices'[n].elements) = J
    /\ \A i \in 1 .. J : i # J => matrices'[n].elements[i] = matrices[n].elements[i]
    /\ matrices'[n].elements[J] = element

\* A call that changes the matrix or the clip of the top.
Alters(id, n, J, K, z, element, new, clip) ==
    /\ z \in Layers /\ layers' = [layers EXCEPT ![id] = z] /\ z.origin = layers[id].origin
    /\ DOMAIN z.clips = 1 .. J /\ Len(z.clips) = J
    /\ \A i \in 1 .. J - 1 : z.clips[i] = layers[id].clips[i]
    /\ layerStack' = layerStack /\ saveCount' = saveCount
    /\ \A c \in DOMAIN draws : draws[c].type = "clip" => draws'[c].writes = draws[c].writes
    /\ MatrixBecomes(n, J, element)
    /\ OneOther(SUBSET Surface, globalClips', globalClips, clip, K, K)
    /\ OneOther(Saveds, saved', saved, new, K, K)
    /\ new.matrix = matrices[n].world + element /\ new.view = saved[K].view
    /\ new.clip \subseteq clip \cap Surface
    /\ clip \subseteq z.clips[J].bounds
    /\ \A p \in Surface : p \in new.clip <=> Inside(z, draws', J, p) /\ Under(n, p)

\* EXCEPT makes such matrices.
LEMMA MatrixAltered ==
  ASSUME matrices \in Seq(LayerStates), NEW n \in DOMAIN matrices, n = Len(matrices),
         NEW J \in Nat \ {0}, J = Len(matrices[n].elements), NEW element \in Int,
         matrices' = [matrices EXCEPT ![n].elements[J] = element]
  PROVE  MatrixBecomes(n, J, element)
<1>1. PICK m : m = matrices[n]
  OBVIOUS
<1>2. n \in 1 .. n /\ DOMAIN matrices = 1 .. n
  OBVIOUS
<1>3. m \in LayerStates
  BY <1>1, <1>2, ElementOfSeq
<1>4. m.elements \in Seq(Int) /\ m.world \in Int
  BY <1>3 DEF LayerStates
<1>5. PICK e : e = [m.elements EXCEPT ![J] = element]
  OBVIOUS
<1>6. OneOther(Int, e, m.elements, element, J, J)
  <2>1. J \in 1 .. J /\ J = Len(m.elements)
    BY <1>1
  <2>. QED
    BY <2>1, <1>4, <1>5, SeqReplaced
<1>7. PICK x : x = [m EXCEPT !.elements = e]
  OBVIOUS
<1>8. x \in LayerStates /\ x.world = m.world /\ x.elements = e
  BY <1>3, <1>6, <1>7 DEF LayerStates, OneOther
<1>9. matrices' = [matrices EXCEPT ![n] = x]
  BY <1>1, <1>5, <1>7
<1>10. OneOther(LayerStates, matrices', matrices, x, n, n)
  <2>1. OneOther(LayerStates, [matrices EXCEPT ![n] = x], matrices, x, n, n)
    BY <1>2, <1>8, SeqReplaced
  <2>. QED
    BY <2>1, <1>9
<1>. QED
  BY <1>1, <1>6, <1>8, <1>10 DEF OneOther, MatrixBecomes

\* Then the saves are right with another last one.
LEMMA TopAltered ==
  ASSUME StateInv, NEW n, NEW id, NEW J, NEW K, NEW base, AtTop(n, id, J, K, base),
         NEW z, NEW element, NEW new, NEW clip, Alters(id, n, J, K, z, element, new, clip)
  PROVE  /\ SavesInv' /\ matrices' \in Seq(LayerStates) /\ saved' \in Seq(Saveds)
         /\ globalClips' \in Seq(SUBSET Surface)
<1>1. PICK y : y = layers[id]
  OBVIOUS
<1>2. /\ n \in Nat \ {0} /\ n = Len(layerStack) /\ DOMAIN layerStack = 1 .. n /\ layerStack[n] = id
      /\ J \in Nat \ {0} /\ J = Len(y.clips) /\ DOMAIN y.clips = 1 .. J /\ id \in DOMAIN layers
      /\ K \in Nat \ {0} /\ K = saveCount /\ K = Len(saved) /\ K = Len(globalClips)
      /\ n = Len(matrices) /\ J = Len(matrices[n].elements) /\ matrices[n].world = y.origin
      /\ IsBase(base) /\ base[n] \in Nat /\ K = base[n] + J /\ LevelOK(n, J, K)
      /\ n > 1 \/ J > 1 => K > 1
  BY <1>1 DEF AtTop
<1>3. /\ StateTypes /\ FrameInv(layers, draws, msaa)
      /\ matrices \in Seq(LayerStates) /\ saved \in Seq(Saveds) /\ globalClips \in Seq(SUBSET Surface)
      /\ layers \in Seq(Layers)
  BY DEF StateInv, StateTypes
<1>4. /\ z \in Layers /\ layers' = [layers EXCEPT ![id] = z] /\ z.origin = y.origin
      /\ DOMAIN z.clips = 1 .. J /\ Len(z.clips) = J
      /\ \A i \in 1 .. J - 1 : z.clips[i] = y.clips[i]
      /\ layerStack' = layerStack /\ saveCount' = K
      /\ \A c \in DOMAIN draws : draws[c].type = "clip" => draws'[c].writes = draws[c].writes
      /\ new.matrix = matrices[n].world + element /\ new.view = saved[K].view
      /\ new.clip \subseteq clip \cap Surface
      /\ clip \subseteq z.clips[J].bounds
      /\ \A p \in Surface : p \in new.clip <=> Inside(z, draws', J, p) /\ Under(n, p)
  BY <1>1, <1>2 DEF Alters
<1>6. /\ matrices' \in Seq(LayerStates) /\ Len(matrices') = n
      /\ \A r \in 1 .. n : r # n => matrices'[r] = matrices[r]
      /\ matrices'[n].world = matrices[n].world /\ Len(matrices'[n].elements) = J
      /\ \A i \in 1 .. J : i # J => matrices'[n].elements[i] = matrices[n].elements[i]
      /\ matrices'[n].elements[J] = element
  BY DEF Alters, MatrixBecomes
<1>9. K \in 1 .. K
  BY <1>2
<1>10. OneOther(Saveds, saved', saved, new, K, K)
  BY DEF Alters
<1>11. OneOther(SUBSET Surface, globalClips', globalClips, clip, K, K)
  BY DEF Alters
<1>12. PICK L \in Nat, k \in Nat : L = J - 1 /\ k = K - 1
  BY <1>2
<1>13. L \in 0 .. J
  BY <1>2, <1>12
<1>14. SameUpTo(n, L, k) /\ MayKeep(n, L)
  <2>1. \A r \in 1 .. n - 1 : matrices'[r] = matrices[r]
    <3>1. \A r \in 1 .. n - 1 : r \in 1 .. n /\ r # n
      BY <1>2
    <3>. QED
      BY <3>1, <1>6
  <2>2. \A i \in 1 .. L : z.clips[i] = y.clips[i] /\ matrices'[n].elements[i] = matrices[n].elements[i]
    <3>1. \A i \in 1 .. L : i \in 1 .. J /\ i # J /\ i \in 1 .. J - 1
      BY <1>2, <1>12
    <3>. QED
      BY <3>1, <1>4, <1>6
  <2>3. \A i \in 1 .. k : saved'[i] = saved[i] /\ globalClips'[i] = globalClips[i]
    <3>1. \A i \in 1 .. k : i \in 1 .. K /\ i # K
      BY <1>2, <1>12
    <3>. QED
      BY <3>1, <1>10, <1>11 DEF OneOther
  <2>4. TopBecomes(n, id, z, L, k)
    BY <2>1, <2>2, <2>3, <1>1, <1>4, <1>6 DEF TopBecomes
  <2>. QED
    BY <2>4, <1>13, TopStays
<1>15. layers'[layerStack'[n]] = z
  BY <1>2, <1>3, <1>4
<1>16. ClipIs(n, J, K)'
  <2>1. \A p : Under(n, p)' <=> Under(n, p)
    <3>1. n \in 1 .. n
      BY <1>2
    <3>. QED
      BY <3>1, <1>3, <1>14, LevelsStay
  <2>2. saved'[K] = new /\ globalClips'[K] = clip
    BY <1>10, <1>11 DEF OneOther
  <2>3. saved'[K].matrix = matrices'[n].world + matrices'[n].elements[J] /\ saved'[K].clip = new.clip
    BY <2>2, <1>4, <1>6
  <2>. QED
    BY <2>1, <2>2, <2>3, <1>4, <1>15 DEF ClipIs
<1>17. Undoes(n, J, K)'
  <2>1. LastBefore(n, J, n, L)
    <3>1. J > 1 => UpTo(n, J - 1, n, L)
      BY <1>2, <1>12 DEF UpTo
    <3>. QED
      BY <3>1, <1>2 DEF LastBefore
  <2>2. J > 1 \/ n > 1 => K - 1 \in 1 .. k
    BY <1>2, <1>12
  <2>3. saved'[K].view = saved[K].view
    BY <1>4, <1>10 DEF OneOther
  <2>4. Undoes(n, J, K)
    BY <1>2 DEF LevelOK
  <2>. QED
    BY <2>1, <2>2, <2>3, <2>4, <1>3, <1>14, UndoesStays
<1>18. Becomes(base, n, L, J)
  <2>0. PICK b \in Nat : b = base[n]
    BY <1>2
  <2>1. K = b + J /\ k = b + L /\ \A j \in L + 1 .. J : j = J
    <3>1. K = b + J
      BY <2>0, <1>2
    <3>. QED
      <4>1. K \in Nat /\ J \in Nat
        BY <1>2
      <4>. QED
        BY <3>1, <4>1, <1>12
  <2>2. \A j \in L + 1 .. J : LevelOK(n, j, base[n] + j)'
    <3>1. LevelOK(n, J, b + J)'
      BY <2>1, <1>16, <1>17 DEF LevelOK
    <3>. QED
      BY <2>0, <2>1, <3>1
  <2>3. SameUpTo(n, L, base[n] + L) /\ saveCount' = base[n] + J
    BY <2>0, <2>1, <1>4, <1>14
  <2>4. Len(saved') = saveCount' /\ Len(globalClips') = saveCount'
    BY <1>4, <1>10, <1>11 DEF OneOther
  <2>5. DOMAIN layerStack' = 1 .. n /\ Len(layerStack') = n /\ Len(matrices') = n
    BY <1>2, <1>4, <1>6
  <2>6. J \in Nat \ {0} /\ L <= J /\ matrices'[n].world = z.origin /\ Len(matrices'[n].elements) = J
    BY <1>2, <1>4, <1>6, <1>12
  <2>. QED
    BY <2>2, <2>3, <2>4, <2>5, <2>6, <1>4, <1>14, <1>15 DEF Becomes
<1>19. SavesInv'
  BY <1>2, <1>3, <1>18, SavesBecome
<1>. QED
  BY <1>6, <1>10, <1>11, <1>19 DEF OneOther

\* The facts about the top that such a call starts from.
LEMMA TopSaved ==
  ASSUME StateInv, NEW n, NEW id, NEW J, NEW K, NEW base, AtTop(n, id, J, K, base)
  PROVE  /\ saved \in Seq(Saveds) /\ globalClips \in Seq(SUBSET Surface) /\ K = Len(saved) /\ K = Len(globalClips)
         /\ K \in 1 .. K /\ saved[K] \in Saveds /\ globalClips[K] \in SUBSET Surface
         /\ Asked = saved[K] /\ Last(globalClips) = globalClips[K]
         /\ matrices \in Seq(LayerStates) /\ n \in DOMAIN matrices /\ n = Len(matrices)
         /\ J \in Nat \ {0} /\ J = Len(matrices[n].elements) /\ Last(matrices) = matrices[n]
         /\ J \in 1 .. J
<1>1. /\ K \in Nat \ {0} /\ K = Len(saved) /\ K = Len(globalClips)
      /\ Asked = saved[K] /\ Last(globalClips) = globalClips[K]
      /\ n \in Nat \ {0} /\ n = Len(matrices) /\ J \in Nat \ {0} /\ J = Len(matrices[n].elements)
      /\ Last(matrices) = matrices[n]
  BY DEF AtTop
<1>2. saved \in Seq(Saveds) /\ globalClips \in Seq(SUBSET Surface) /\ matrices \in Seq(LayerStates)
  BY DEF StateInv, StateTypes
<1>3. K \in 1 .. Len(saved) /\ K \in 1 .. Len(globalClips) /\ n \in DOMAIN matrices /\ K \in 1 .. K /\ J \in 1 .. J
  BY <1>1, <1>2
<1>4. saved[K] \in Saveds
  BY <1>2, <1>3, ElementOfSeq
<1>5. globalClips[K] \in SUBSET Surface
  BY <1>2, <1>3, ElementOfSeq
<1>. QED
  BY <1>1, <1>2, <1>3, <1>4, <1>5

\* To change nothing is quiet.
LEMMA NothingIsQuiet ==
  ASSUME StateInv, NEW n, NEW id, NEW J, NEW K, NEW base, AtTop(n, id, J, K, base)
  PROVE  Quiet(id, layers[id], draws) /\ layers = [layers EXCEPT ![id] = layers[id]]
<1>1. PICK y : y = layers[id]
  OBVIOUS
<1>2. /\ y \in Layers /\ LayerInv(y, draws, id, Boxes(layers), msaa) /\ y.clips # <<>>
      /\ draws \in Seq(Draws) /\ layers \in Seq(Layers) /\ id \in DOMAIN layers
  BY <1>1, CurrentIs
<1>3. Quiet(id, y, draws)
  BY <1>1, <1>2 DEF Quiet, ShowAlike
<1>. QED
  BY <1>1, <1>2, <1>3

\* Translate keeps the invariant.
LEMMA TranslateKeeps ==
  ASSUME StateInv, ShownIsAsked, NEW by \in Int, Translate(by)
  PROVE  StateInv' /\ ShownIsAsked'
<1>1. Call /\ CallTypes /\ layerStack # <<>> /\ msaa' = msaa
  BY CallIs DEF Translate
<1>2. PICK n, id, J, K, base : AtTop(n, id, J, K, base)
  BY <1>1, TopIs
<1>3. PICK y : y = layers[id]
  OBVIOUS
<1>4. /\ J = Len(y.clips) /\ DOMAIN y.clips = 1 .. J /\ CurrentClipBounds(y) = y.clips[J].bounds /\ saveCount \in Nat
      /\ saveCount = K /\ J \in Nat
  BY <1>2, <1>3 DEF AtTop
<1>5. /\ saved \in Seq(Saveds) /\ globalClips \in Seq(SUBSET Surface) /\ K = Len(saved) /\ K = Len(globalClips)
      /\ K \in 1 .. K /\ saved[K] \in Saveds /\ globalClips[K] \in SUBSET Surface
      /\ Asked = saved[K] /\ Last(globalClips) = globalClips[K]
      /\ matrices \in Seq(LayerStates) /\ n \in DOMAIN matrices /\ n = Len(matrices)
      /\ J \in Nat \ {0} /\ J = Len(matrices[n].elements) /\ Last(matrices) = matrices[n]
      /\ J \in 1 .. J
  BY <1>2, TopSaved
<1>6. /\ TotalMatrix \in Int /\ Asked.matrix = TotalMatrix
      /\ matrices[n].elements \in Seq(Int) /\ matrices[n].world \in Int
      /\ matrices[n].world + matrices[n].elements[J] = TotalMatrix
      /\ Asked.clip \subseteq Last(globalClips) \cap Surface
      /\ Last(globalClips) \subseteq CurrentClipBounds(y)
      /\ \A p \in Surface : p \in Asked.clip <=> InsideAll(y, draws, p) /\ Under(n, p)
  BY <1>2, <1>3, TopAgrees
<1>7. PICK old, element : old = matrices[n].elements[J] /\ element = old + by
  OBVIOUS
<1>8. old \in Int /\ element \in Int
  BY <1>5, <1>6, <1>7
<1>9. matrices' = [matrices EXCEPT ![n].elements[J] = element]
  BY <1>5, <1>7 DEF Translate
<1>10. MatrixBecomes(n, J, element)
  BY <1>5, <1>8, <1>9, MatrixAltered
<1>11. PICK new : new = [saved[K] EXCEPT !.matrix = @ + by]
  OBVIOUS
<1>12. new \in Saveds /\ new.matrix = matrices[n].world + element /\ new.view = saved[K].view /\ new.clip = saved[K].clip
  <2>1. PICK s, w, m : s = saved[K] /\ w = matrices[n].world /\ m = TotalMatrix
    OBVIOUS
  <2>2. s \in Saveds /\ w \in Int /\ m \in Int /\ s.matrix = m /\ w + old = m /\ new = [s EXCEPT !.matrix = @ + by]
    BY <2>1, <1>5, <1>6, <1>7, <1>11
  <2>3. new \in Saveds /\ new.matrix = m + by /\ new.view = s.view /\ new.clip = s.clip
    BY <2>2 DEF Saveds
  <2>4. m + by = w + element
    BY <2>2, <1>7, <1>8
  <2>. QED
    BY <2>1, <2>3, <2>4
<1>13. OneOther(Saveds, saved', saved, new, K, K)
  <2>1. saved' = [saved EXCEPT ![K] = new]
    BY <1>5, <1>11 DEF Translate
  <2>. QED
    BY <2>1, <1>5, <1>12, SeqReplaced
<1>14. PICK clip : clip = globalClips[K]
  OBVIOUS
<1>15. /\ layers' = [layers EXCEPT ![id] = y] /\ Quiet(id, y, draws) /\ layerStack' = layerStack /\ draws' = draws
       /\ globalClips' = globalClips /\ saveCount' = saveCount /\ log' = log
  BY <1>2, <1>3, NothingIsQuiet DEF Translate, layerVars
<1>16. OneOther(SUBSET Surface, globalClips', globalClips, clip, K, K)
  BY <1>5, <1>14, <1>15 DEF OneOther
<1>17. Alters(id, n, J, K, y, element, new, clip)
  <2>1. y \in Layers
    BY <1>15 DEF Quiet
  <2>2. \A p \in Surface : p \in new.clip <=> Inside(y, draws', J, p) /\ Under(n, p)
    BY <1>4, <1>5, <1>6, <1>12, <1>15 DEF InsideAll
  <2>3. new.clip \subseteq clip \cap Surface /\ clip \subseteq y.clips[J].bounds
    BY <1>4, <1>5, <1>6, <1>12, <1>14
  <2>. QED
    BY <2>1, <2>2, <2>3, <1>3, <1>4, <1>10, <1>12, <1>13, <1>15, <1>16 DEF Alters
<1>18. /\ SavesInv' /\ matrices' \in Seq(LayerStates) /\ saved' \in Seq(Saveds)
       /\ globalClips' \in Seq(SUBSET Surface)
  BY <1>2, <1>17, TopAltered
<1>19. PICK other : other = draws
  OBVIOUS
<1>20. QuietCall(id, y, other)
  BY <1>1, <1>15, <1>19 DEF QuietCall
<1>21. FrameKept
  BY <1>2, <1>20, QuietKeeps
<1>22. saveCount' \in Nat \ {0} /\ log' \in Seq(Logs)
  BY <1>15 DEF StateInv, StateTypes
<1>. QED
  BY <1>1, <1>18, <1>21, <1>22, KeptIs

\* ClipRect keeps the invariant.
LEMMA ClipRectKeeps ==
  ASSUME StateInv, ShownIsAsked, NEW rect \in SUBSET Int, ClipRect(rect)
  PROVE  StateInv' /\ ShownIsAsked'
<1>1. Call /\ CallTypes /\ layerStack # <<>> /\ msaa' = msaa
  BY CallIs DEF ClipRect
<1>2. PICK n, id, J, K, base : AtTop(n, id, J, K, base)
  BY <1>1, TopIs
<1>3. PICK y : y = layers[id]
  OBVIOUS
<1>4. /\ J = Len(y.clips) /\ DOMAIN y.clips = 1 .. J /\ CurrentClipBounds(y) = y.clips[J].bounds
      /\ saveCount \in Nat /\ saveCount = K /\ J \in Nat /\ Current = id
  BY <1>2, <1>3 DEF AtTop
<1>5. /\ saved \in Seq(Saveds) /\ globalClips \in Seq(SUBSET Surface) /\ K = Len(saved) /\ K = Len(globalClips)
      /\ K \in 1 .. K /\ saved[K] \in Saveds /\ globalClips[K] \in SUBSET Surface
      /\ Asked = saved[K] /\ Last(globalClips) = globalClips[K]
      /\ matrices \in Seq(LayerStates) /\ n \in DOMAIN matrices /\ n = Len(matrices)
      /\ J \in Nat \ {0} /\ J = Len(matrices[n].elements) /\ Last(matrices) = matrices[n]
      /\ J \in 1 .. J
  BY <1>2, TopSaved
<1>6. /\ TotalMatrix \in Int /\ Asked.matrix = TotalMatrix
      /\ matrices[n].elements \in Seq(Int) /\ matrices[n].world \in Int
      /\ matrices[n].world + matrices[n].elements[J] = TotalMatrix
      /\ InLayer(rect) = Moved(rect, TotalMatrix)
      /\ Asked.clip \subseteq Last(globalClips) \cap Surface
      /\ Last(globalClips) \subseteq CurrentClipBounds(y)
      /\ \A p \in Surface : p \in Asked.clip <=> InsideAll(y, draws, p) /\ Under(n, p)
  BY <1>2, <1>3, TopAgrees
<1>7. PICK there, element, clip :
         there = Moved(rect, TotalMatrix) /\ element = matrices[n].elements[J] /\ clip = globalClips[K] \cap there
  OBVIOUS
<1>8. PICK z : z = AddRectClip(y, there)
  OBVIOUS
<1>9. PICK new : new = [saved[K] EXCEPT !.clip = @ \cap there]
  OBVIOUS
<1>10. /\ layers' = [layers EXCEPT ![id] = z] /\ layerStack' = layerStack /\ draws' = draws
       /\ matrices' = matrices /\ saveCount' = saveCount /\ log' = log
       /\ globalClips' = [globalClips EXCEPT ![K] = clip] /\ saved' = [saved EXCEPT ![K] = new]
  BY <1>3, <1>4, <1>5, <1>6, <1>7, <1>8, <1>9 DEF ClipRect, SetLayer, CurrentLayer
<1>11. y \in Layers /\ y.clips # <<>>
  BY <1>2, <1>3, CurrentIs
<1>12. RectClips(z, y, there, J)
  BY <1>4, <1>8, <1>11, RectIsClipped
<1>13. /\ z \in Layers /\ z.origin = y.origin /\ Len(z.clips) = J /\ DOMAIN z.clips = 1 .. J
       /\ z.clips[J].bounds = y.clips[J].bounds \cap there /\ StackTo(z, J) = StackTo(y, J)
  BY <1>12 DEF RectClips
<1>14. ASSUME NEW i \in 1 .. J - 1 PROVE z.clips[i] = y.clips[i]
  <2>1. i \in 1 .. J /\ i < J
    BY <1>5
  <2>. QED
    BY <2>1, <1>12 DEF RectClips
<1>15. MatrixBecomes(n, J, element) /\ element \in Int
  BY <1>5, <1>6, <1>7, <1>10 DEF MatrixBecomes
<1>16. new \in Saveds /\ new.matrix = saved[K].matrix /\ new.view = saved[K].view /\ new.clip = saved[K].clip \cap there
  BY <1>5, <1>9 DEF Saveds
<1>17. OneOther(Saveds, saved', saved, new, K, K)
  BY <1>5, <1>10, <1>16, SeqReplaced
<1>18. OneOther(SUBSET Surface, globalClips', globalClips, clip, K, K)
  <2>1. clip \in SUBSET Surface
    BY <1>5, <1>7
  <2>. QED
    BY <2>1, <1>5, <1>10, SeqReplaced
<1>20. Alters(id, n, J, K, z, element, new, clip)
  <2>1. \A p : Inside(z, draws', J, p) <=> Inside(y, draws, J, p) /\ p \in there
    BY <1>10, <1>13 DEF Inside
  <2>2. \A p \in Surface : p \in new.clip <=> Inside(z, draws', J, p) /\ Under(n, p)
    BY <2>1, <1>4, <1>5, <1>6, <1>16 DEF InsideAll
  <2>3. new.clip \subseteq clip \cap Surface /\ clip \subseteq z.clips[J].bounds
    BY <1>4, <1>5, <1>6, <1>7, <1>13, <1>16
  <2>4. new.matrix = matrices[n].world + element
    BY <1>5, <1>6, <1>7, <1>16
  <2>. QED
    BY <2>2, <2>3, <2>4, <1>3, <1>10, <1>13, <1>14, <1>15, <1>16, <1>17, <1>18 DEF Alters
<1>21. /\ SavesInv' /\ matrices' \in Seq(LayerStates) /\ saved' \in Seq(Saveds)
       /\ globalClips' \in Seq(SUBSET Surface)
  BY <1>2, <1>20, TopAltered
<1>22. PICK other : other = draws
  OBVIOUS
<1>23. QuietCall(id, z, other)
  <2>1. Quiet(id, z, draws)
    BY <1>2, <1>3, <1>8, RectIsQuiet
  <2>. QED
    BY <2>1, <1>1, <1>10, <1>22 DEF QuietCall
<1>24. FrameKept
  BY <1>2, <1>23, QuietKeeps
<1>25. saveCount' \in Nat \ {0} /\ log' \in Seq(Logs)
  BY <1>10 DEF StateInv, StateTypes
<1>. QED
  BY <1>1, <1>21, <1>24, <1>25, KeptIs

\* Moving is one to one.
LEMMA MovedIs ==
  ASSUME NEW S \in SUBSET Int, NEW t \in Int
  PROVE  /\ Moved(S, t) \in SUBSET Int
         /\ \A p \in Int : p \in Moved(S, t) <=> p - t \in S
         /\ IsFiniteSet(S) => IsFiniteSet(Moved(S, t)) /\ Cardinality(Moved(S, t)) = Cardinality(S)
<1>1. Moved(S, t) \in SUBSET Int
  BY DEF Moved
<1>2. ASSUME NEW p \in Int PROVE p \in Moved(S, t) <=> p - t \in S
  <2>1. ASSUME p - t \in S PROVE p \in Moved(S, t)
    <3>1. p = (p - t) + t
      OBVIOUS
    <3>. QED
      BY <2>1, <3>1 DEF Moved
  <2>2. ASSUME NEW q \in S, p = q + t PROVE p - t \in S
    BY <2>2
  <2>. QED
    BY <2>1, <2>2 DEF Moved
<1>3. ASSUME IsFiniteSet(S) PROVE IsFiniteSet(Moved(S, t)) /\ Cardinality(Moved(S, t)) = Cardinality(S)
  <2>. DEFINE f == [p \in S |-> p + t]
  <2>1. f \in Bijection(S, Moved(S, t))
    <3>1. f \in [S -> Moved(S, t)]
      BY DEF Moved
    <3>2. \A a, b \in S : f[a] = f[b] => a = b
      OBVIOUS
    <3>3. \A p \in Moved(S, t) : \E a \in S : f[a] = p
      BY DEF Moved
    <3>. HIDE DEF f
    <3>. QED
      BY <3>1, <3>2, <3>3 DEF Bijection, Injection, Surjection, IsInjective
  <2>2. ExistsBijection(S, Moved(S, t))
    BY <2>1 DEF ExistsBijection
  <2>. QED
    BY <2>2, <1>3, FS_Bijection
<1>. QED
  BY <1>1, <1>2, <1>3

\* The bounds of moved pixels are around the moved bounds.
LEMMA MovedBounds ==
  ASSUME NEW S \in SUBSET Int, IsFiniteSet(S), NEW t \in Int
  PROVE  Moved(Bounds(S), t) \subseteq Bounds(Moved(S, t))
<1>1. CASE S = {}
  BY <1>1 DEF Moved, Bounds
<1>2. CASE S # {}
  <2>1. PICK M : M = Moved(S, t)
    OBVIOUS
  <2>2. M \in SUBSET Int /\ IsFiniteSet(M) /\ M # {} /\ \A p \in S : p + t \in M
    <3>1. M \in SUBSET Int /\ IsFiniteSet(M)
      BY <2>1, MovedIs
    <3>2. \A p \in S : p + t \in M
      BY <2>1 DEF Moved
    <3>. QED
      BY <3>1, <3>2, <1>2
  <2>3. /\ Min(S) \in S /\ \A p \in S : Min(S) <= p
        /\ Max(S) \in S /\ \A p \in S : p <= Max(S)
    BY <1>2, FiniteEnds DEF Min, Max
  <2>4. /\ Min(M) \in M /\ \A p \in M : Min(M) <= p
        /\ Max(M) \in M /\ \A p \in M : p <= Max(M)
    BY <2>2, FiniteEnds DEF Min, Max
  <2>5. Min(M) <= Min(S) + t /\ Max(S) + t <= Max(M)
    BY <2>2, <2>3, <2>4
  <2>6. PICK a \in Int, b \in Int, c \in Int, d \in Int :
           a = Min(S) /\ b = Max(S) /\ c = Min(M) /\ d = Max(M)
    BY <2>2, <2>3, <2>4
  <2>7. \A p \in a .. b : p + t \in c .. d
    BY <2>5, <2>6
  <2>8. Bounds(S) = a .. b /\ Bounds(M) = c .. d
    BY <1>2, <2>2, <2>6 DEF Bounds
  <2>. QED
    BY <2>1, <2>7, <2>8 DEF Moved
<1>. QED
  BY <1>1, <1>2

\* Moved pixels stay inside of what they are inside of.
LEMMA MovedInside ==
  ASSUME NEW S, NEW T, S \subseteq T, NEW t
  PROVE  Moved(S, t) \subseteq Moved(T, t)
  BY DEF Moved

\* A layer of J levels with one more clip.
ClipJoins(z, x, new, J) ==
    /\ z \in Layers /\ z.origin = x.origin /\ Len(z.clips) = J /\ DOMAIN z.clips = 1 .. J
    /\ \A i \in 1 .. J : i < J => z.clips[i] = x.clips[i]
    /\ z.clips[J].bounds = x.clips[J].bounds
    /\ StackTo(z, J) = StackTo(x, J) \cup {new}

\* AddClip makes such a layer.
LEMMA ClipHasJoined ==
  ASSUME NEW x \in Layers, x.clips # <<>>, NEW new \in Nat, NEW J, J = Len(x.clips)
  PROVE  ClipJoins(AddClip(x, new), x, new, J)
<1>. DEFINE z == AddClip(x, new)
<1>1. LET n == Len(x.clips)
      IN  /\ z \in Layers
          /\ z.origin = x.origin /\ z.bounds = x.bounds /\ z.depth = x.depth
          /\ z.history = Append(x.history, new) /\ z.passes = x.passes
          /\ z.pending = Append(x.pending, new)
          /\ n \in Nat /\ n > 0 /\ n \in 1 .. n /\ Len(z.clips) = n
          /\ \A i \in 1 .. n : z.clips[i].bounds = x.clips[i].bounds
          /\ \A i \in 1 .. n : i < n => z.clips[i].draws = x.clips[i].draws
          /\ z.clips[n].draws = Append(x.clips[n].draws, new)
  BY AddClipIs
<1>. HIDE DEF z
<1>2. /\ z \in Layers /\ z.origin = x.origin
      /\ J \in Nat /\ J > 0 /\ J \in 1 .. J /\ Len(z.clips) = J
      /\ \A i \in 1 .. J : z.clips[i].bounds = x.clips[i].bounds
      /\ \A i \in 1 .. J : i < J => z.clips[i].draws = x.clips[i].draws
      /\ z.clips[J].draws = Append(x.clips[J].draws, new)
  BY <1>1
<1>3. DOMAIN z.clips = 1 .. J /\ z.clips \in Seq(Levels) /\ x.clips \in Seq(Levels)
  BY <1>2, LayerTypes
<1>4. ASSUME NEW i \in 1 .. J, i < J PROVE z.clips[i] = x.clips[i]
  <2>1. PICK a, b : a = z.clips[i] /\ b = x.clips[i]
    OBVIOUS
  <2>2. a \in Levels /\ b \in Levels
    BY <2>1, <1>2, <1>3, ElementOfSeq
  <2>3. a.draws = b.draws /\ a.bounds = b.bounds
    BY <2>1, <1>2, <1>4
  <2>4. a = b
    BY <2>2, <2>3 DEF Levels
  <2>. QED
    BY <2>1, <2>4
<1>5. StackTo(z, J) = StackTo(x, J) \cup {new}
  <2>1. PICK L \in Nat : L = J - 1
    BY <1>2
  <2>2. J = L + 1
    BY <1>2, <2>1
  <2>3. StackTo(z, L) = StackTo(x, L)
    BY <1>2, <2>1, StackToSame
  <2>4. /\ StackTo(z, J) = StackTo(z, L) \cup ToSet(z.clips[J].draws)
        /\ StackTo(x, J) = StackTo(x, L) \cup ToSet(x.clips[J].draws)
    BY <2>2, StackToNext
  <2>5. ToSet(z.clips[J].draws) = ToSet(x.clips[J].draws) \cup {new}
    <3>1. x.clips[J].draws \in Seq(Nat)
      BY <1>2, LayerTypes
    <3>2. PICK old : old = x.clips[J].draws
      OBVIOUS
    <3>3. old \in Seq(Nat)
      BY <3>1, <3>2
    <3>4. ToSet(Append(old, new)) = ToSet(old) \cup {new}
      BY <3>3, ToSetAppend
    <3>5. z.clips[J].draws = Append(old, new)
      BY <3>2, <1>2
    <3>. QED
      BY <3>2, <3>4, <3>5
  <2>. QED
    BY <2>3, <2>4, <2>5
<1>6. ClipJoins(z, x, new, J)
  BY <1>2, <1>3, <1>4, <1>5 DEF ClipJoins
<1>. QED
  BY <1>6 DEF z

\* The layer a clip is added to: x is y, but for a clip to the bounds of the path.
IsFirstClipped(x, y, rect, difference, J) ==
    /\ x \in Layers /\ x.clips # <<>> /\ Len(x.clips) = J
    /\ x.origin = y.origin /\ x.bounds = y.bounds /\ StackTo(x, J) = StackTo(y, J)
    /\ \A i \in 1 .. J : i < J => x.clips[i] = y.clips[i]
    /\ x.clips[J].bounds = IF difference THEN y.clips[J].bounds ELSE y.clips[J].bounds \cap rect

\* That layer shows the same and its levels are clipped as said.
LEMMA ClippedFirst ==
  ASSUME StateInv, NEW n, NEW id, NEW J, NEW K, NEW base, AtTop(n, id, J, K, base),
         NEW rect, NEW difference \in BOOLEAN, NEW y, y = layers[id],
         NEW x, x = IF difference THEN y ELSE AddRectClip(y, rect)
  PROVE  Quiet(id, x, draws) /\ IsFirstClipped(x, y, rect, difference, J)
<1>1. /\ y \in Layers /\ y.clips # <<>> /\ J = Len(y.clips)
  <2>1. y \in Layers /\ y.clips # <<>>
    BY CurrentIs
  <2>2. J = Len(y.clips)
    BY DEF AtTop
  <2>. QED
    BY <2>1, <2>2
<1>2. CASE difference
  <2>1. x = y
    BY <1>2
  <2>2. Quiet(id, y, draws)
    BY NothingIsQuiet
  <2>. QED
    BY <1>1, <1>2, <2>1, <2>2 DEF IsFirstClipped
<1>3. CASE ~ difference
  <2>1. x = AddRectClip(y, rect)
    BY <1>3
  <2>2. Quiet(id, x, draws)
    BY <2>1, RectIsQuiet
  <2>3. RectClips(x, y, rect, J)
    BY <1>1, <2>1, RectIsClipped
  <2>. QED
    BY <1>3, <2>2, <2>3 DEF RectClips, IsFirstClipped
<1>. QED
  BY <1>2, <1>3

\* A clip lets through what was let through inside, or outside, of its path.
JoinsClip(z, x, y, J, new, table, other, path, rect, difference) ==
    /\ IsFirstClipped(x, y, rect, difference, J) /\ ClipJoins(z, x, new, J)
    /\ y.clips[J].bounds \subseteq y.bounds /\ path \subseteq rect
    /\ \A c \in StackTo(y, J) : other[c].writes = table[c].writes
    /\ IsClipDraw(other[new], path, difference, x)

CutsOut(z, other, y, table, J, path, difference) ==
    \A p : Inside(z, other, J, p) <=> Inside(y, table, J, p) /\ IF difference THEN p \notin path ELSE p \in path

\* The clip by a path, its bounds included, cuts out just what is asked.
LEMMA InsideClipped ==
  ASSUME NEW y, NEW x, NEW z, NEW J, NEW new, NEW table, NEW other, NEW path, NEW rect, NEW difference \in BOOLEAN,
         JoinsClip(z, x, y, J, new, table, other, path, rect, difference)
  PROVE  CutsOut(z, other, y, table, J, path, difference)
<1>1. PICK S, b, c, w, u : /\ S = StackTo(y, J) /\ b = y.clips[J].bounds /\ c = x.clips[J].bounds
                           /\ w = other[new].writes /\ u = y.bounds
  OBVIOUS
<1>2. /\ StackTo(z, J) = S \cup {new} /\ z.clips[J].bounds = c /\ b \subseteq u
      /\ w = (IF difference THEN path ELSE u \ path)
      /\ c = (IF difference THEN b ELSE b \cap rect) /\ path \subseteq rect
  BY <1>1 DEF JoinsClip, IsFirstClipped, ClipJoins, IsClipDraw
<1>3. ASSUME NEW p
      PROVE  Inside(z, other, J, p) <=> p \in c /\ p \notin w /\ \A e \in S : p \notin table[e].writes
  <2>1. Inside(z, other, J, p) <=> p \in c /\ \A e \in S \cup {new} : p \notin other[e].writes
    BY <1>2 DEF Inside
  <2>2. \A e \in S : other[e].writes = table[e].writes
    BY <1>1 DEF JoinsClip
  <2>3. (\A e \in S \cup {new} : p \notin other[e].writes) <=> p \notin w /\ \A e \in S : p \notin table[e].writes
    BY <1>1, <2>2
  <2>. QED
    BY <2>1, <2>3
<1>4. ASSUME NEW p
      PROVE  Inside(y, table, J, p) <=> p \in b /\ \A e \in S : p \notin table[e].writes
  BY <1>1 DEF Inside
<1>5. ASSUME NEW p
      PROVE  p \in c /\ p \notin w <=> p \in b /\ IF difference THEN p \notin path ELSE p \in path
  <2>1. CASE difference
    BY <1>2, <2>1
  <2>2. CASE ~ difference
    BY <1>2, <2>2
  <2>. QED
    BY <2>1, <2>2
<1>. QED
  BY <1>3, <1>4, <1>5 DEF CutsOut

\* ClipPath keeps the invariant.
LEMMA ClipPathKeeps ==
  ASSUME StateInv, ShownIsAsked, NEW shape \in SUBSET Int, IsFiniteSet(shape), NEW difference \in BOOLEAN,
         ClipPath(shape, difference)
  PROVE  StateInv' /\ ShownIsAsked'
<1>1. Call /\ CallTypes /\ layerStack # <<>> /\ msaa' = msaa
  BY CallIs DEF ClipPath
<1>2. PICK n, id, J, K, base : AtTop(n, id, J, K, base)
  BY <1>1, TopIs
<1>3. PICK y : y = layers[id]
  OBVIOUS
<1>4. /\ J = Len(y.clips) /\ DOMAIN y.clips = 1 .. J /\ CurrentClipBounds(y) = y.clips[J].bounds
      /\ saveCount \in Nat /\ saveCount = K /\ J \in Nat /\ Current = id
  BY <1>2, <1>3 DEF AtTop
<1>5. /\ saved \in Seq(Saveds) /\ globalClips \in Seq(SUBSET Surface) /\ K = Len(saved) /\ K = Len(globalClips)
      /\ K \in 1 .. K /\ saved[K] \in Saveds /\ globalClips[K] \in SUBSET Surface
      /\ Asked = saved[K] /\ Last(globalClips) = globalClips[K]
      /\ matrices \in Seq(LayerStates) /\ n \in DOMAIN matrices /\ n = Len(matrices)
      /\ J \in Nat \ {0} /\ J = Len(matrices[n].elements) /\ Last(matrices) = matrices[n]
      /\ J \in 1 .. J
  BY <1>2, TopSaved
<1>6. /\ TotalMatrix \in Int /\ Asked.matrix = TotalMatrix
      /\ matrices[n].elements \in Seq(Int) /\ matrices[n].world \in Int
      /\ matrices[n].world + matrices[n].elements[J] = TotalMatrix
      /\ InLayer(shape) = Moved(shape, TotalMatrix)
      /\ Asked.clip \subseteq Last(globalClips) \cap Surface
      /\ Last(globalClips) \subseteq CurrentClipBounds(y)
      /\ CurrentClipBounds(y) \subseteq y.bounds
      /\ \A p \in Surface : p \in Asked.clip <=> InsideAll(y, draws, p) /\ Under(n, p)
  BY <1>2, <1>3, TopAgrees
<1>7. PICK path, rect, around, element, clip :
         /\ path = Moved(shape, TotalMatrix) /\ rect = Bounds(path) /\ around = Moved(Bounds(shape), TotalMatrix)
         /\ element = matrices[n].elements[J]
         /\ clip = IF difference THEN globalClips[K] ELSE globalClips[K] \cap around
  OBVIOUS
<1>8. path \in SUBSET Int /\ path \subseteq around /\ around \subseteq rect
  <2>1. PICK t : t = TotalMatrix
    OBVIOUS
  <2>2. t \in Int /\ path = Moved(shape, t) /\ around = Moved(Bounds(shape), t)
    BY <2>1, <1>6, <1>7
  <2>3. path \in SUBSET Int
    BY <2>2, MovedIs
  <2>4. path \subseteq around
    BY <2>2, BoundsAre, MovedInside
  <2>5. around \subseteq rect
    BY <2>2, <1>7, MovedBounds
  <2>. QED
    BY <2>3, <2>4, <2>5
<1>9. PICK x : x = IF difference THEN y ELSE AddRectClip(y, rect)
  OBVIOUS
<1>10. Quiet(id, x, draws) /\ IsFirstClipped(x, y, rect, difference, J)
  BY <1>2, <1>3, <1>9, ClippedFirst
<1>101. /\ x \in Layers /\ x.clips # <<>> /\ Len(x.clips) = J
        /\ x.origin = y.origin /\ x.bounds = y.bounds /\ StackTo(x, J) = StackTo(y, J)
        /\ \A i \in 1 .. J : i < J => x.clips[i] = y.clips[i]
        /\ x.clips[J].bounds = IF difference THEN y.clips[J].bounds ELSE y.clips[J].bounds \cap rect
  BY <1>10 DEF IsFirstClipped
<1>11. PICK more, d, other, z :
          /\ more = Len(draws) + 1 /\ d = ClipDraw(path, difference, x) /\ other = Append(draws, d)
          /\ z = AddClip(x, more)
  OBVIOUS
<1>12. PICK new : new = [saved[K] EXCEPT !.clip = IF difference THEN @ \ path ELSE @ \cap path]
  OBVIOUS
<1>13. /\ layers' = [layers EXCEPT ![id] = z] /\ draws' = other /\ layerStack' = layerStack
       /\ matrices' = matrices /\ saveCount' = saveCount /\ log' = log
  BY <1>3, <1>4, <1>6, <1>7, <1>9, <1>11 DEF ClipPath, SetLayer, CurrentLayer
<1>14. saved' = [saved EXCEPT ![K] = new]
  BY <1>5, <1>6, <1>7, <1>12 DEF ClipPath
<1>15. globalClips' = [globalClips EXCEPT ![K] = clip]
  <2>1. CASE difference
    BY <2>1, <1>5, <1>7 DEF ClipPath
  <2>2. CASE ~ difference
    BY <2>2, <1>5, <1>7 DEF ClipPath
  <2>. QED
    BY <2>1, <2>2
<1>16. draws \in Seq(Draws) /\ more \in Nat /\ more \notin DOMAIN draws
  BY <1>11 DEF StateInv, StateTypes
<1>17. ClipJoins(z, x, more, J)
  BY <1>10, <1>101, <1>11, <1>16, ClipHasJoined
<1>18. IsClipDraw(d, path, difference, x)
  BY <1>8, <1>10, <1>101, <1>11, ClipDrawIs
<1>19. other[more] = d /\ \A c \in DOMAIN draws : other[c] = draws[c]
  BY <1>11, <1>16
<1>20. \A c \in StackTo(y, J) : c \in DOMAIN draws
  <2>1. \A c \in Stack(layers[id]) : c \in DOMAIN draws
    BY <1>2, StackedClips DEF StateInv, AtTop
  <2>. QED
    BY <2>1, <1>3, <1>4 DEF Stack
<1>21. CutsOut(z, other, y, draws, J, path, difference)
  <2>1. y.clips[J].bounds \subseteq y.bounds /\ path \subseteq rect
    BY <1>4, <1>6, <1>8
  <2>2. IsClipDraw(other[more], path, difference, x)
    BY <1>18, <1>19
  <2>3. \A c \in StackTo(y, J) : other[c].writes = draws[c].writes
    BY <1>19, <1>20
  <2>. QED
    <3>1. JoinsClip(z, x, y, J, more, draws, other, path, rect, difference)
      BY <2>1, <2>2, <2>3, <1>10, <1>17 DEF JoinsClip
    <3>. QED
      BY <3>1, InsideClipped
<1>22. new \in Saveds /\ new.matrix = saved[K].matrix /\ new.view = saved[K].view
       /\ new.clip = IF difference THEN saved[K].clip \ path ELSE saved[K].clip \cap path
  BY <1>5, <1>12 DEF Saveds
<1>23. OneOther(Saveds, saved', saved, new, K, K)
  BY <1>5, <1>14, <1>22, SeqReplaced
<1>24. OneOther(SUBSET Surface, globalClips', globalClips, clip, K, K)
  <2>1. clip \in SUBSET Surface
    BY <1>5, <1>7
  <2>. QED
    BY <2>1, <1>5, <1>15, SeqReplaced
<1>25. MatrixBecomes(n, J, element) /\ element \in Int
  BY <1>5, <1>6, <1>7, <1>13 DEF MatrixBecomes
<1>26. /\ z \in Layers /\ z.origin = y.origin /\ Len(z.clips) = J /\ DOMAIN z.clips = 1 .. J
       /\ z.clips[J].bounds = x.clips[J].bounds
  BY <1>10, <1>101, <1>17 DEF ClipJoins
<1>27. ASSUME NEW i \in 1 .. J - 1 PROVE z.clips[i] = y.clips[i]
  <2>1. i \in 1 .. J /\ i < J
    BY <1>5
  <2>. QED
    BY <2>1, <1>10, <1>101, <1>17 DEF ClipJoins
<1>28. Alters(id, n, J, K, z, element, new, clip)
  <2>1. \A p \in Surface : p \in new.clip <=> Inside(z, draws', J, p) /\ Under(n, p)
    <3>1. ASSUME NEW p \in Surface
          PROVE  p \in new.clip <=> p \in saved[K].clip /\ IF difference THEN p \notin path ELSE p \in path
      BY <1>22
    <3>2. ASSUME NEW p \in Surface PROVE p \in saved[K].clip <=> Inside(y, draws, J, p) /\ Under(n, p)
      BY <1>4, <1>5, <1>6 DEF InsideAll
    <3>. QED
      BY <3>1, <3>2, <1>13, <1>21 DEF CutsOut
  <2>2. new.clip \subseteq clip \cap Surface
    BY <1>5, <1>6, <1>7, <1>8, <1>22
  <2>3. clip \subseteq z.clips[J].bounds
    BY <1>4, <1>5, <1>6, <1>7, <1>8, <1>10, <1>101, <1>26
  <2>4. new.matrix = matrices[n].world + element
    BY <1>5, <1>6, <1>7, <1>22
  <2>5. \A c \in DOMAIN draws : draws[c].type = "clip" => draws'[c].writes = draws[c].writes
    BY <1>13, <1>19
  <2>. QED
    BY <2>1, <2>2, <2>3, <2>4, <2>5, <1>3, <1>13, <1>22, <1>23, <1>24, <1>25, <1>26, <1>27 DEF Alters
<1>29. /\ SavesInv' /\ matrices' \in Seq(LayerStates) /\ saved' \in Seq(Saveds)
       /\ globalClips' \in Seq(SUBSET Surface)
  BY <1>2, <1>28, TopAltered
<1>30. QuietCall(id, z, other)
  <2>1. Quiet(id, AddClip(x, Len(draws) + 1), Append(draws, ClipDraw(path, difference, x)))
    BY <1>2, <1>8, <1>10, <1>101, ClipIsQuiet
  <2>2. Quiet(id, z, other)
    BY <2>1, <1>11
  <2>. QED
    BY <2>2, <1>1, <1>13 DEF QuietCall
<1>31. FrameKept
  BY <1>2, <1>30, QuietKeeps
<1>32. saveCount' \in Nat \ {0} /\ log' \in Seq(Logs)
  BY <1>13 DEF StateInv, StateTypes
<1>. QED
  BY <1>1, <1>29, <1>31, <1>32, KeptIs

-----------------------------------------------------------------------------
(* Restore                                                                 *)

\* A sequence of m elements that are the first ones of s.
OneShorter(S, t, s, m) ==
    /\ t \in Seq(S) /\ Len(t) = m /\ DOMAIN t = 1 .. m
    /\ \A i \in 1 .. m : t[i] = s[i]

\* Front makes such a sequence.
LEMMA SeqShortened ==
  ASSUME NEW S, NEW s \in Seq(S), NEW n \in Nat, NEW m \in Nat, n = m + 1, n = Len(s)
  PROVE  OneShorter(S, Front(s), s, m)
<1>1. Front(s) = SubSeq(s, 1, m)
  BY DEF Front
<1>2. SubSeq(s, 1, m) \in Seq(S) /\ Len(SubSeq(s, 1, m)) = m /\ \A i \in 1 .. m : SubSeq(s, 1, m)[i] = s[i]
  OBVIOUS
<1>. QED
  BY <1>1, <1>2 DEF OneShorter

\* The last element, by its place.
LEMMA LastOneIs ==
  ASSUME NEW s, NEW n, n = Len(s)
  PROVE  Last(s) = s[n]
  BY DEF Last

\* After a call, level j of the layer at place t of the stack is the top again.
Returns(t, j, z) ==
    /\ layerStack' # <<>> /\ Last(layerStack') = layerStack[t]
    /\ layers'[layerStack[t]] = z /\ z \in Layers /\ z.clips # <<>> /\ Len(z.clips) = j
    /\ ClipsAreNested(z, draws')
    /\ z.clips[j].bounds = layers[layerStack[t]].clips[j].bounds
    /\ StackTo(z, j) = StackTo(layers[layerStack[t]], j)
    /\ Last(matrices').world = matrices[t].world
    /\ Last(Last(matrices').elements) = matrices[t].elements[j]

\* A set has one last member.
LEMMA LastIsUnique ==
  ASSUME NEW S \in SUBSET Nat, NEW a \in Nat, NEW b \in Nat, IsLast(a, S), IsLast(b, S)
  PROVE  a = b
<1>1. CASE S = {}
  BY <1>1 DEF IsLast
<1>2. CASE S # {}
  <2>1. a \in S /\ b \in S /\ a <= b /\ b <= a
    BY <1>2 DEF IsLast
  <2>. QED
    BY <2>1
<1>. QED
  BY <1>1, <1>2

\* The save of that level is what a view of the top then finds.
LEMMA ViewReturns ==
  ASSUME NEW t, NEW j, NEW z, Returns(t, j, z), NEW k, NEW v \in Views, ViewIs(v, t, j, k), ClipIs(t, j, k)
  PROVE  View' = v
<1>1. PICK id, y, T, clip : id = layerStack[t] /\ y = layers[id] /\ T = TotalMatrix' /\ clip = LastClipDraw(z)
  OBVIOUS
<1>2. /\ layerStack' # <<>> /\ Last(layerStack') = id /\ layers'[id] = z /\ z \in Layers /\ z.clips # <<>>
      /\ Len(z.clips) = j /\ ClipsAreNested(z, draws') /\ z.clips[j].bounds = y.clips[j].bounds
      /\ StackTo(z, j) = StackTo(y, j)
  BY <1>1 DEF Returns
<1>3. /\ v.matrix = saved[k].matrix /\ v.layer = id /\ v.bounds = y.clips[j].bounds
      /\ IsLast(v.clip, StackTo(y, j))
  BY <1>1 DEF ViewIs
<1>4. T = v.matrix
  <2>1. T = matrices[t].world + matrices[t].elements[j]
    BY <1>1 DEF TotalMatrix, CurrentMatrix, Returns
  <2>2. saved[k].matrix = matrices[t].world + matrices[t].elements[j]
    BY DEF ClipIs
  <2>. QED
    BY <2>1, <2>2, <1>3
<1>5. CurrentClipBounds(z) = v.bounds
  BY <1>2, <1>3 DEF CurrentClipBounds, Last
<1>6. clip = v.clip
  <2>1. Stack(z) = StackTo(y, j)
    BY <1>2 DEF Stack
  <2>2. PICK other : other = draws'
    OBVIOUS
  <2>3. ClipsAreNested(z, other)
    BY <1>2, <2>2
  <2>4. IsLast(clip, Stack(z)) /\ clip \in Nat
    BY <1>1, <1>2, <2>3, LastClipIs
  <2>5. StackTo(y, j) \in SUBSET Nat
    <3>1. \A i \in 1 .. j : z.clips[i].draws \in Seq(Nat)
      BY <1>2, LayerTypes
    <3>2. \A i \in 1 .. j : ToSet(z.clips[i].draws) \subseteq Nat
      BY <3>1 DEF ToSet
    <3>3. StackTo(z, j) \subseteq Nat
      BY <3>2 DEF StackTo
    <3>. QED
      BY <3>3, <1>2
  <2>6. v.clip \in Nat
    BY DEF Views
  <2>. QED
    BY <2>1, <2>4, <2>5, <2>6, <1>3, LastIsUnique
<1>7. View' = [matrix |-> T, bounds |-> CurrentClipBounds(z), clip |-> clip, layer |-> id]
  <2>1. CurrentLayer' = z /\ Current' = id /\ Recording'
    BY <1>2 DEF CurrentLayer, Current, Recording
  <2>. QED
    BY <2>1, <1>1 DEF View
<1>. QED
  BY <1>3, <1>4, <1>5, <1>6, <1>7 DEF Views

\* The matrices after a Restore that pops a level.
LEMMA MatrixPopped ==
  ASSUME matrices \in Seq(LayerStates), NEW n \in DOMAIN matrices, n = Len(matrices),
         NEW J \in Nat, J = Len(matrices[n].elements), NEW j \in Nat \ {0}, J = j + 1,
         matrices' = RestoredMatrices
  PROVE  /\ MatrixBecomes(n, j, matrices[n].elements[j])
         /\ \A i \in 1 .. j : matrices'[n].elements[i] = matrices[n].elements[i]
         /\ Last(matrices').world = matrices[n].world
         /\ Last(Last(matrices').elements) = matrices[n].elements[j]
<1>1. PICK m, e, new, ms : /\ m = matrices[n] /\ e = Front(m.elements) /\ new = [m EXCEPT !.elements = e]
                           /\ ms = matrices
  OBVIOUS
<1>2. m \in LayerStates
  <2>1. n \in 1 .. Len(matrices)
    OBVIOUS
  <2>. QED
    BY Zenon, <2>1, <1>1, ElementOfSeq
<1>3. m.elements \in Seq(Int) /\ m.world \in Int /\ J = Len(m.elements)
  BY <1>1, <1>2 DEF LayerStates
<1>4. OneShorter(Int, e, m.elements, j)
  BY <1>1, <1>3, SeqShortened
<1>5. e \in Seq(Int) /\ Len(e) = j /\ \A i \in 1 .. j : e[i] = m.elements[i]
  BY <1>4 DEF OneShorter
<1>6. new \in LayerStates /\ new.elements = e /\ new.world = m.world
  BY <1>1, <1>2, <1>5 DEF LayerStates
<1>7. matrices' = [ms EXCEPT ![n] = new]
  <2>1. Last(matrices) = m /\ Len(Last(matrices).elements) > 1
    BY <1>1, <1>3 DEF Last
  <2>2. matrices' = [matrices EXCEPT ![Len(matrices)].elements = Front(@)]
    BY <2>1 DEF RestoredMatrices
  <2>. QED
    BY <2>2, <1>1
<1>8. OneOther(LayerStates, [ms EXCEPT ![n] = new], ms, new, n, n)
  <2>1. n \in 1 .. n /\ ms \in Seq(LayerStates) /\ n = Len(ms)
    BY <1>1
  <2>. QED
    BY <2>1, <1>6, SeqReplaced
<1>9. /\ matrices' \in Seq(LayerStates) /\ Len(matrices') = n /\ matrices'[n] = new
      /\ \A r \in 1 .. n : r # n => matrices'[r] = matrices[r]
  BY <1>1, <1>7, <1>8 DEF OneOther
<1>10. Last(matrices') = new /\ Last(e) = e[j]
  BY <1>5, <1>9 DEF Last
<1>. QED
  BY <1>1, <1>5, <1>6, <1>9, <1>10 DEF MatrixBecomes

\* Restore of a level of the current layer keeps the invariant and undoes the Save.
LEMMA RestorePops ==
  ASSUME StateInv, ShownIsAsked, Restore, NEW n, NEW id, NEW J, NEW K, NEW base, AtTop(n, id, J, K, base),
         J > 1
  PROVE  StateInv' /\ ShownIsAsked' /\ View' = saved[K].view
<1>1. Call /\ CallTypes /\ layerStack # <<>> /\ msaa' = msaa
  BY CallIs DEF Restore
<1>2. PICK y : y = layers[id]
  OBVIOUS
<1>3. /\ J = Len(y.clips) /\ DOMAIN y.clips = 1 .. J
      /\ saveCount \in Nat /\ saveCount = K /\ J \in Nat /\ Current = id
      /\ n \in Nat \ {0} /\ n = Len(layerStack) /\ layerStack[n] = id /\ DOMAIN layerStack = 1 .. n
      /\ matrices[n].world = y.origin /\ id \in DOMAIN layers
      /\ IsBase(base) /\ base[n] \in Nat /\ K = base[n] + J
      /\ LevelOK(n, J, K) /\ LevelOK(n, J - 1, K - 1)
  BY <1>2 DEF AtTop
<1>4. /\ saved \in Seq(Saveds) /\ globalClips \in Seq(SUBSET Surface) /\ K = Len(saved) /\ K = Len(globalClips)
      /\ K \in 1 .. K /\ saved[K] \in Saveds
      /\ matrices \in Seq(LayerStates) /\ n \in DOMAIN matrices /\ n = Len(matrices)
      /\ J \in Nat \ {0} /\ J = Len(matrices[n].elements)
  BY TopSaved
<1>105. PICK j, k : j = J - 1 /\ k = K - 1
  OBVIOUS
<1>5. j \in Nat \ {0} /\ k \in Nat /\ J = j + 1 /\ K = k + 1 /\ j = J - 1 /\ k = K - 1
  <2>1. J \in Nat /\ J > 1
    BY <1>3
  <2>2. K \in Nat /\ K >= 1
    <3>1. K \in Nat
      BY <1>3
    <3>2. K \in 1 .. K
      BY <1>4
    <3>. QED
      BY <3>1, <3>2
  <2>. QED
    BY <2>1, <2>2, <1>105
<1>6. PICK z, other, b : z = PopClipStack(y) /\ other = PoppedDepths(draws, y) /\ b = base[n]
  OBVIOUS
<1>7. /\ layers' = [layers EXCEPT ![id] = z] /\ draws' = other /\ layerStack' = layerStack /\ log' = log
      /\ matrices' = RestoredMatrices /\ saveCount' = saveCount - 1
      /\ saved' = Front(saved) /\ globalClips' = Front(globalClips)
  <2>1. CurrentLayer = y /\ Len(CurrentLayer.clips) # 1
    <3>1. CurrentLayer = y
      BY <1>2, <1>3 DEF CurrentLayer
    <3>2. J # 1
      BY <1>105, <1>5
    <3>. QED
      BY <3>1, <3>2, <1>3
  <2>2. OnRestore
    BY DEF Restore
  <2>3. SetLayer(PopClipStack(CurrentLayer)) /\ draws' = PoppedDepths(draws, CurrentLayer) /\ layerStack' = layerStack
    BY <2>1, <2>2 DEF OnRestore
  <2>4. layers' = [layers EXCEPT ![id] = z] /\ draws' = other
    BY <2>1, <2>3, <1>3, <1>6 DEF SetLayer
  <2>. QED
    BY <2>3, <2>4 DEF Restore
<1>8. /\ Quiet(id, z, other) /\ DOMAIN other = DOMAIN draws
      /\ \A c \in DOMAIN draws : other[c].writes = draws[c].writes
  BY <1>2, <1>6, PopIsQuiet
<1>9. /\ y \in Layers /\ z \in Layers /\ z.origin = y.origin /\ Len(z.clips) = j /\ DOMAIN z.clips = 1 .. j
      /\ \A i \in 1 .. j : z.clips[i] = y.clips[i]
  <2>1. y \in Layers
    BY <1>2, CurrentIs
  <2>2. /\ z \in Layers /\ z.origin = y.origin /\ Len(z.clips) = J - 1
        /\ \A i \in 1 .. J - 1 : z.clips[i] = y.clips[i]
    BY <2>1, <1>3, <1>6, PopIs
  <2>3. z.clips \in Seq(Levels)
    BY <2>2, LayerTypes
  <2>. QED
    BY <2>1, <2>2, <2>3, <1>5
<1>10. /\ MatrixBecomes(n, j, matrices[n].elements[j])
       /\ \A i \in 1 .. j : matrices'[n].elements[i] = matrices[n].elements[i]
       /\ Last(matrices').world = matrices[n].world
       /\ Last(Last(matrices').elements) = matrices[n].elements[j]
  BY <1>4, <1>5, <1>7, MatrixPopped, ZenonT(50)
<1>11. /\ matrices' \in Seq(LayerStates) /\ Len(matrices') = n /\ Len(matrices'[n].elements) = j
       /\ \A r \in 1 .. n - 1 : matrices'[r] = matrices[r]
       /\ matrices'[n].world = matrices[n].world
  BY <1>10, <1>3 DEF MatrixBecomes
<1>12. OneShorter(Saveds, saved', saved, k) /\ OneShorter(SUBSET Surface, globalClips', globalClips, k)
  <2>1. PICK s, g : s = saved /\ g = globalClips
    OBVIOUS
  <2>2. s \in Seq(Saveds) /\ g \in Seq(SUBSET Surface) /\ K = Len(s) /\ K = Len(g) /\ K \in Nat
    BY <2>1, <1>4, <1>3
  <2>3. OneShorter(Saveds, Front(s), s, k)
    BY <2>2, <1>5, SeqShortened
  <2>4. OneShorter(SUBSET Surface, Front(g), g, k)
    BY <2>2, <1>5, SeqShortened
  <2>. QED
    BY <2>1, <2>3, <2>4, <1>7
<1>13. /\ saved' \in Seq(Saveds) /\ globalClips' \in Seq(SUBSET Surface) /\ Len(saved') = k /\ Len(globalClips') = k
       /\ \A i \in 1 .. k : saved'[i] = saved[i] /\ globalClips'[i] = globalClips[i]
  BY <1>12 DEF OneShorter
<1>14. TopBecomes(n, id, z, j, k)
  BY <1>2, <1>7, <1>8, <1>9, <1>10, <1>11, <1>13 DEF TopBecomes
<1>15. SameUpTo(n, j, k) /\ MayKeep(n, j)
  <2>1. j \in 0 .. J
    BY <1>5
  <2>. QED
    BY <2>1, <1>14, TopStays
<1>16. SavesInv'
  <2>1. Becomes(base, n, j, j)
    <3>1. k = b + j
      <4>1. K = b + J /\ b \in Nat
        BY <1>3, <1>6
      <4>. QED
        BY <4>1, <1>5
    <3>2. SameUpTo(n, j, base[n] + j)
      BY <3>1, <1>6, <1>15
    <3>3. layers'[layerStack'[n]] = z
      <4>1. layers \in Seq(Layers)
        BY DEF StateInv, StateTypes
      <4>. QED
        BY <4>1, <1>3, <1>7
    <3>4. saveCount' = base[n] + j /\ Len(saved') = saveCount' /\ Len(globalClips') = saveCount'
      BY <3>1, <1>3, <1>5, <1>6, <1>7, <1>13
    <3>5. \A i \in j + 1 .. j : LevelOK(n, i, base[n] + i)'
      BY <1>5
    <3>6. matrices'[n].world = z.origin
      BY <1>3, <1>9, <1>11
    <3>7. DOMAIN layerStack' = 1 .. n /\ Len(layerStack') = n /\ layerStack'[n] = id
      BY <1>3, <1>7
    <3>8. j \in Nat \ {0} /\ j <= j
      BY <1>5
    <3>. QED
      BY <3>2, <3>3, <3>4, <3>5, <3>6, <3>7, <3>8, <1>9, <1>11, <1>15 DEF Becomes
  <2>2. StateTypes /\ FrameInv(layers, draws, msaa)
    BY DEF StateInv
  <2>. QED
    BY <2>1, <2>2, <1>3, SavesBecome
<1>17. FrameKept
  <2>1. QuietCall(id, z, other)
    BY <1>1, <1>7, <1>8 DEF QuietCall
  <2>. QED
    BY <2>1, QuietKeeps
<1>18. saveCount' \in Nat \ {0} /\ log' \in Seq(Logs)
  <2>1. saveCount' \in Nat \ {0}
    BY <1>3, <1>7 DEF Restore
  <2>2. log' \in Seq(Logs)
    BY <1>7 DEF StateInv, StateTypes
  <2>. QED
    BY <2>1, <2>2
<1>19. StateInv' /\ ShownIsAsked'
  BY <1>1, <1>11, <1>13, <1>16, <1>17, <1>18, KeptIs
<1>20. View' = saved[K].view
  <2>1. Returns(n, j, z)
    <3>1. layerStack' # <<>> /\ Last(layerStack') = layerStack[n]
      BY <1>1, <1>3, <1>7 DEF Last
    <3>2. layers'[layerStack[n]] = z
      <4>1. layers \in Seq(Layers)
        BY DEF StateInv, StateTypes
      <4>. QED
        BY <4>1, <1>3, <1>7
    <3>3. ClipsAreNested(z, draws')
      BY <1>7, <1>8 DEF Quiet, LayerInv
    <3>4. StackTo(z, j) = StackTo(y, j)
      BY <1>5, <1>9, StackToSame
    <3>5. z.clips # <<>> /\ z.clips[j].bounds = y.clips[j].bounds
      BY <1>5, <1>9
    <3>. QED
      BY <3>1, <3>2, <3>3, <3>4, <3>5, <1>2, <1>3, <1>9, <1>10 DEF Returns
  <2>2. PICK v : v = saved[K].view
    OBVIOUS
  <2>3. v \in Views /\ ViewIs(v, n, j, k) /\ ClipIs(n, j, k)
    BY <2>2, <1>3, <1>4, <1>5 DEF LevelOK, Undoes, Saveds
  <2>. QED
    BY <2>1, <2>2, <2>3, ViewReturns
<1>. QED
  BY <1>19, <1>20

\* A stack that loses its last layer.
LEMMA OpenShortens ==
  ASSUME NEW stack \in Seq(Nat), NEW ls, NEW table, OpenInv(stack, ls, table),
         NEW n \in Nat, NEW t \in Nat \ {0}, n = t + 1, n = Len(stack)
  PROVE  OpenInv(Front(stack), ls, table)
<1>1. PICK short : short = Front(stack)
  OBVIOUS
<1>2. OneShorter(Nat, short, stack, t)
  BY <1>1, SeqShortened
<1>3. /\ Len(short) = t /\ DOMAIN short = 1 .. t /\ \A i \in 1 .. t : short[i] = stack[i]
      /\ short # <<>> /\ short[1] = stack[1] /\ stack # <<>> /\ DOMAIN stack = 1 .. n
  BY <1>2 DEF OneShorter
<1>4. \A r, s \in DOMAIN short : r < s => short[r] < short[s]
  <2>1. \A r \in DOMAIN short : r \in DOMAIN stack
    BY <1>3
  <2>. QED
    BY <2>1, <1>3 DEF OpenInv
<1>5. ASSUME NEW s \in DOMAIN short, s < Len(short) PROVE EndsWith(ls[short[s]], table, short[s + 1])
  <2>1. s \in DOMAIN stack /\ s < Len(stack) /\ s \in 1 .. t /\ s + 1 \in 1 .. t
    BY <1>3, <1>5
  <2>2. short[s] = stack[s] /\ short[s + 1] = stack[s + 1]
    BY <2>1, <1>3
  <2>. QED
    BY <2>1, <2>2 DEF OpenInv
<1>6. OpenInv(short, ls, table)
  BY <1>3, <1>4, <1>5 DEF OpenInv
<1>. QED
  BY <1>1, <1>6

\* Restore of a layer keeps the invariant and undoes the SaveLayer: the layer below
\* is current again.
LEMMA RestoreLeaves ==
  ASSUME StateInv, ShownIsAsked, Restore, NEW n, NEW id, NEW J, NEW K, NEW base, AtTop(n, id, J, K, base),
         ~ (J > 1)
  PROVE  StateInv' /\ ShownIsAsked' /\ View' = saved[K].view
<1>1. Call /\ CallTypes /\ layerStack # <<>> /\ msaa' = msaa
  BY CallIs DEF Restore
<1>100. J = 1
  <2>1. J \in Nat \ {0}
    BY DEF AtTop
  <2>. QED
    BY <2>1
<1>2. /\ id \in DOMAIN layers /\ J = Len(layers[id].clips)
      /\ saveCount \in Nat /\ saveCount = K /\ Current = id
      /\ n \in Nat \ {0} /\ n = Len(layerStack) /\ layerStack[n] = id /\ DOMAIN layerStack = 1 .. n
      /\ IsBase(base) /\ base[n] \in Nat /\ K = base[n] + J
      /\ LevelOK(n, J, K)
  BY DEF AtTop
<1>3. /\ saved \in Seq(Saveds) /\ globalClips \in Seq(SUBSET Surface) /\ K = Len(saved) /\ K = Len(globalClips)
      /\ K \in 1 .. K /\ saved[K] \in Saveds
      /\ matrices \in Seq(LayerStates) /\ n = Len(matrices) /\ 1 = Len(matrices[n].elements)
      /\ Last(matrices) = matrices[n]
  <2>1. /\ saved \in Seq(Saveds) /\ globalClips \in Seq(SUBSET Surface) /\ K = Len(saved) /\ K = Len(globalClips)
        /\ K \in 1 .. K /\ saved[K] \in Saveds
        /\ matrices \in Seq(LayerStates) /\ n = Len(matrices) /\ J = Len(matrices[n].elements)
        /\ Last(matrices) = matrices[n]
    BY TopSaved
  <2>. QED
    BY <2>1, <1>100
<1>4. PICK t, k, b : t = n - 1 /\ k = K - 1 /\ b = base[t]
  OBVIOUS
<1>5. K > 1 /\ K \in Nat
  BY <1>2 DEF Restore
<1>6. base[n] = k /\ k \in Nat /\ K = k + 1 /\ k > 0
  <2>1. PICK c : c = base[n]
    OBVIOUS
  <2>2. c \in Nat /\ K = c + 1
    BY <2>1, <1>2, <1>100
  <2>. QED
    BY <2>1, <2>2, <1>4, <1>5
<1>7. n # 1
  <2>1. base[1] = 0
    BY <1>2 DEF IsBase, Saves
  <2>. QED
    BY <2>1, <1>6
<1>8. t \in Nat \ {0} /\ n = t + 1 /\ t \in DOMAIN layerStack /\ n > 1
  BY <1>2, <1>4, <1>7
<1>9. PICK below, z, j : below = layerStack[t] /\ z = layers[below] /\ j = Len(z.clips)
  OBVIOUS
<1>10. StateTypes /\ FrameInv(layers, draws, msaa) /\ OpenInv(layerStack, layers, draws) /\ ClipNames(draws)
  BY DEF StateInv
<1>11. below \in DOMAIN layers /\ z \in Layers /\ LayerInv(z, draws, below, Boxes(layers), msaa)
  <2>1. below \in DOMAIN layers
    BY <1>8, <1>9, <1>10 DEF StateTypes
  <2>. QED
    BY <2>1, <1>9, <1>10, StackedClips
<1>12. j \in Nat \ {0} /\ DOMAIN z.clips = 1 .. j /\ z.clips # <<>> /\ j \in 1 .. j
  <2>1. z.clips \in Seq(Levels) /\ z.clips # <<>>
    BY <1>11, LayerTypes DEF LayerInv, NamesAreRight
  <2>. QED
    BY <2>1, <1>9
<1>13. /\ base[t + 1] = base[t] + j /\ matrices[t].world = z.origin /\ Len(matrices[t].elements) = j
       /\ \A i \in 1 .. j : LevelOK(t, i, base[t] + i)
  BY <1>2, <1>8, <1>9, <1>12 DEF IsBase, Saves
<1>14. b \in Nat /\ k = b + j
  <2>1. base \in [1 .. Len(layerStack) + 1 -> 0 .. saveCount]
    BY <1>2 DEF IsBase
  <2>2. t \in 1 .. Len(layerStack) + 1
    BY <1>2, <1>8
  <2>. QED
    <3>1. base[t] \in Nat
      BY <2>1, <2>2, <1>2
    <3>2. base[t + 1] = k
      BY <1>6, <1>8
    <3>. QED
      BY <3>1, <3>2, <1>4, <1>13
<1>15. LevelOK(t, j, k)
  BY <1>4, <1>12, <1>13, <1>14
<1>16. /\ layers' = layers /\ draws' = draws /\ layerStack' = Front(layerStack) /\ log' = log
       /\ matrices' = Front(matrices) /\ saveCount' = k
       /\ saved' = Front(saved) /\ globalClips' = Front(globalClips)
  <2>1. Len(layerStack) > 1 /\ Len(CurrentLayer.clips) = 1
    BY <1>2, <1>100, <1>8 DEF CurrentLayer
  <2>2. OnRestore /\ saveCount' = saveCount - 1
    BY DEF Restore
  <2>3. matrices' = Front(matrices)
    <3>1. ~ (Len(Last(matrices).elements) > 1)
      <4>1. PICK e : e = Last(matrices).elements
        OBVIOUS
      <4>2. Len(e) = 1
        BY <4>1, <1>3
      <4>. QED
        BY <4>1, <4>2
    <3>2. matrices' = RestoredMatrices
      BY DEF Restore
    <3>. QED
      BY <3>1, <3>2 DEF RestoredMatrices
  <2>. QED
    BY <2>1, <2>2, <2>3, <1>2, <1>4 DEF OnRestore, Restore
<1>17. /\ OneShorter(Saveds, saved', saved, k) /\ OneShorter(SUBSET Surface, globalClips', globalClips, k)
       /\ OneShorter(LayerStates, matrices', matrices, t) /\ OneShorter(Nat, layerStack', layerStack, t)
  <2>1. PICK s, g, m, l : s = saved /\ g = globalClips /\ m = matrices /\ l = layerStack
    OBVIOUS
  <2>2. /\ s \in Seq(Saveds) /\ g \in Seq(SUBSET Surface) /\ K = Len(s) /\ K = Len(g)
        /\ m \in Seq(LayerStates) /\ l \in Seq(Nat) /\ n = Len(m) /\ n = Len(l)
    BY <2>1, <1>2, <1>3, <1>10 DEF StateTypes
  <2>3. OneShorter(Saveds, Front(s), s, k)
    BY <2>2, <1>5, <1>6, SeqShortened
  <2>4. OneShorter(SUBSET Surface, Front(g), g, k)
    BY <2>2, <1>5, <1>6, SeqShortened
  <2>5. OneShorter(LayerStates, Front(m), m, t)
    BY <2>2, <1>2, <1>8, SeqShortened
  <2>6. OneShorter(Nat, Front(l), l, t)
    BY <2>2, <1>2, <1>8, SeqShortened
  <2>. QED
    BY <2>1, <2>3, <2>4, <2>5, <2>6, <1>16
<1>18. /\ saved' \in Seq(Saveds) /\ globalClips' \in Seq(SUBSET Surface) /\ Len(saved') = k /\ Len(globalClips') = k
       /\ \A i \in 1 .. k : saved'[i] = saved[i] /\ globalClips'[i] = globalClips[i]
       /\ matrices' \in Seq(LayerStates) /\ Len(matrices') = t /\ \A r \in 1 .. t : matrices'[r] = matrices[r]
       /\ layerStack' \in Seq(Nat) /\ Len(layerStack') = t /\ \A r \in 1 .. t : layerStack'[r] = layerStack[r]
       /\ DOMAIN layerStack' = 1 .. t
  BY <1>17 DEF OneShorter
<1>19. t \in 1 .. t /\ \A r \in 1 .. t - 1 : r \in 1 .. t
  BY <1>8
<1>20. MayKeep(t, j)
  <2>1. t \in 1 .. Len(layerStack) + 1
    BY <1>2, <1>8
  <2>2. j <= Len(layers[layerStack[t]].clips)
    BY <1>9, <1>12
  <2>. QED
    BY <2>1, <2>2, <1>8, <1>12 DEF MayKeep
<1>21. SameUpTo(t, j, k)
  BY <1>16, <1>18, <1>19 DEF SameUpTo
<1>22. SavesInv'
  <2>1. Becomes(base, t, j, j)
    <3>1. SameUpTo(t, j, base[t] + j)
      BY <1>4, <1>14, <1>21
    <3>2. layers'[layerStack'[t]] = z /\ matrices'[t] = matrices[t]
      BY <1>9, <1>16, <1>18, <1>19
    <3>3. saveCount' = base[t] + j /\ Len(saved') = saveCount' /\ Len(globalClips') = saveCount'
      BY <1>4, <1>14, <1>16, <1>18
    <3>4. \A i \in j + 1 .. j : LevelOK(t, i, base[t] + i)'
      BY <1>12
    <3>5. j \in Nat \ {0} /\ j <= j
      BY <1>12
    <3>. QED
      BY <3>1, <3>2, <3>3, <3>4, <3>5, <1>9, <1>12, <1>13, <1>18, <1>20 DEF Becomes
  <2>. QED
    BY <2>1, <1>2, <1>10, SavesBecome
<1>23. FrameKept
  <2>1. OpenInv(layerStack', layers, draws)
    <3>1. PICK l : l = layerStack
      OBVIOUS
    <3>2. l \in Seq(Nat) /\ OpenInv(l, layers, draws) /\ n = Len(l)
      BY <3>1, <1>2, <1>10 DEF StateTypes
    <3>3. OpenInv(Front(l), layers, draws)
      BY <3>2, <1>2, <1>8, OpenShortens
    <3>. QED
      BY <3>1, <3>3, <1>16
  <2>2. FrameInv(layers, draws, msaa)' /\ OpenInv(layerStack, layers, draws)' /\ ClipNames(draws)'
    BY <2>1, <1>1, <1>10, <1>16
  <2>3. layers' \in Seq(Layers) /\ draws' \in Seq(Draws)
    BY <1>10, <1>16 DEF StateTypes
  <2>4. \A s \in DOMAIN layerStack' : layerStack'[s] \in DOMAIN layers'
    <3>1. \A s \in 1 .. t : s \in DOMAIN layerStack
      BY <1>2, <1>8
    <3>. QED
      BY <3>1, <1>10, <1>16, <1>18 DEF StateTypes
  <2>5. ShownIsAsked'
    BY <1>16 DEF ShownIsAsked, IsReach
  <2>. QED
    BY <2>2, <2>3, <2>4, <2>5, <1>18 DEF FrameKept
<1>24. saveCount' \in Nat \ {0} /\ log' \in Seq(Logs)
  BY <1>6, <1>10, <1>16 DEF StateTypes
<1>25. StateInv' /\ ShownIsAsked'
  BY <1>1, <1>18, <1>22, <1>23, <1>24, KeptIs
<1>26. View' = saved[K].view
  <2>1. Returns(t, j, z)
    <3>1. layerStack' # <<>> /\ Last(layerStack') = layerStack[t]
      BY <1>8, <1>18, <1>19, LastOneIs
    <3>2. Last(matrices') = matrices[t] /\ Last(matrices[t].elements) = matrices[t].elements[j]
      BY <1>13, <1>18, <1>19, LastOneIs
    <3>3. ClipsAreNested(z, draws')
      BY <1>11, <1>16 DEF LayerInv
    <3>. QED
      BY <3>1, <3>2, <3>3, <1>9, <1>11, <1>12, <1>16 DEF Returns
  <2>2. PICK v : v = saved[K].view
    OBVIOUS
  <2>3. ViewIs(saved[K].view, n - 1, Len(layers[layerStack[n - 1]].clips), K - 1)
    BY <1>2, <1>100, <1>8 DEF LevelOK, Undoes
  <2>4. v \in Views /\ ViewIs(v, t, j, k) /\ ClipIs(t, j, k)
    BY <2>2, <2>3, <1>3, <1>4, <1>9, <1>15 DEF LevelOK, Saveds
  <2>. QED
    BY <2>1, <2>2, <2>4, ViewReturns
<1>. QED
  BY <1>25, <1>26

\* Restore keeps the invariant and brings back the view its save kept.
LEMMA RestoreKeeps ==
  ASSUME StateInv, ShownIsAsked, Restore
  PROVE  StateInv' /\ ShownIsAsked' /\ View' = Last(saved).view
<1>1. layerStack # <<>>
  BY CallIs DEF Restore
<1>2. PICK n, id, J, K, base : AtTop(n, id, J, K, base)
  BY <1>1, TopIs
<1>3. J \in Nat \ {0} /\ Last(saved) = saved[K]
  BY <1>2 DEF AtTop, Asked
<1>4. CASE J = 1
  BY <1>2, <1>3, <1>4, RestoreLeaves
<1>5. CASE J > 1
  BY <1>2, <1>3, <1>5, RestorePops
<1>. QED
  BY <1>3, <1>4, <1>5

-----------------------------------------------------------------------------
(* What a draw adds to the layers of the stack                             *)

\* Two sets of textures that agree on the child of a draw, and on no child but
\* that of the last draw of a layer.
SameChild(y, table, box, Q, R, p, k, i) ==
    LET d == table[y.passes[k].ops[i]]
    IN  d.type = "layer" /\ p \in box[d.child] => Q[d.child][p] = R[d.child][p]
SameChildren(y, table, box, Q, R, p) ==
    \A k \in DOMAIN y.passes : \A i \in DOMAIN y.passes[k].ops : SameChild(y, table, box, Q, R, p, k, i)
LastChildGrows(y, table, box, Q, R, p, child, more) ==
    /\ \A k \in DOMAIN y.passes : \A i \in DOMAIN y.passes[k].ops :
          k # Len(y.passes) \/ i # Len(y.passes[k].ops) => SameChild(y, table, box, Q, R, p, k, i)
    /\ p \in box[child] => Q[child][p] = R[child][p] \o more

\* A draw adds the same when the textures of its child are the same.
LEMMA AddedByTextures ==
  ASSUME NEW y, NEW table, NEW box, NEW R, NEW Q, NEW p, NEW k, NEW i, SameChild(y, table, box, Q, R, p, k, i)
  PROVE  Added(y, table, box, Q, k, i, p) = Added(y, table, box, R, k, i, p)
<1>. DEFINE d == table[y.passes[k].ops[i]]
<1>1. p \in AreaOf(box, d) => Ink(d, p, Q) = Ink(d, p, R)
  BY DEF SameChild, AreaOf, Ink
<1>. HIDE DEF d
<1>. QED
  BY <1>1 DEF Added, d

\* A layer shows the same when the textures of its children are the same.
LEMMA ShowsSameChildren ==
  ASSUME NEW y, NEW table, NEW box, NEW R, NEW Q, NEW p, SameChildren(y, table, box, Q, R, p)
  PROVE  LayerShows(y, table, box, Q, p) = LayerShows(y, table, box, R, p)
<1>1. ASSUME NEW k \in DOMAIN y.passes, NEW i \in DOMAIN y.passes[k].ops
      PROVE  Added(y, table, box, Q, k, i, p) = Added(y, table, box, R, k, i, p)
  BY AddedByTextures DEF SameChildren
<1>. QED
  BY <1>1, ShowsSame

\* A layer that ends with a child shows what the child shows more, where its
\* clips let it through.
LEMMA ChildGrows ==
  ASSUME NEW y \in Layers, NEW table \in Seq(Draws), NEW l, NEW box, NEW loads, LayerInv(y, table, l, box, loads),
         NEW R, Colours(box, R), NEW child, EndsWith(y, table, child), NEW Q, NEW p, NEW more \in Seq(Nat),
         LastChildGrows(y, table, box, Q, R, p, child, more)
  PROVE  LayerShows(y, table, box, Q, p)
           = LayerShows(y, table, box, R, p) \o (IF InsideAll(y, table, p) /\ p \in box[child] THEN more ELSE <<>>)
<1>. DEFINE K == Len(y.passes)
            N == Len(y.passes[K].ops)
            got == IF InsideAll(y, table, p) /\ p \in box[child] THEN more ELSE <<>>
            a == table[y.passes[K].ops[N]]
<1>0. NamesAreRight(y, table, l, box) /\ ClipsAreNested(y, table) /\ ClipsAreDrawn(y, table)
  BY DEF LayerInv
<1>1. K \in Nat /\ DOMAIN y.passes = 1 .. K /\ K \in DOMAIN y.passes /\ K > 0 /\ K \in 1 .. K
  <2>1. y.passes # <<>>
    BY <1>0 DEF NamesAreRight
  <2>. QED
    BY <2>1, LayerTypes, EmptySeq
<1>2. Last(y.passes) = y.passes[K]
  BY <1>1, LastOneIs
<1>3. y.passes[K].ops \in Seq(Nat) /\ y.passes[K].ops # <<>>
  BY <1>1, <1>2, LayerTypes DEF EndsWith
<1>4. N \in Nat /\ N > 0 /\ DOMAIN y.passes[K].ops = 1 .. N /\ N \in DOMAIN y.passes[K].ops /\ N \in 1 .. N
  BY <1>3
<1>5. Last(y.passes[K].ops) = y.passes[K].ops[N]
  BY <1>4, LastOneIs
<1>6. a.type = "layer" /\ a.child = child /\ IsLast(a.clip, Stack(y)) /\ a.scissor = CurrentClipBounds(y)
  BY <1>2, <1>5 DEF EndsWith
<1>7. Reaches(y, table, K, N, p) <=> InsideAll(y, table, p)
  <2>1. a.type # "clip"
    BY <1>6
  <2>. QED
    BY <2>1, <1>0, <1>4, <1>6, ReachesInside
<1>8. got \in Seq(Nat)
  OBVIOUS
<1>. HIDE DEF K, N
<1>9. Added(y, table, box, Q, K, N, p) = Added(y, table, box, R, K, N, p) \o got
  <2>1. AreaOf(box, a) = box[child] /\ Ink(a, p, Q) = Q[child][p] /\ Ink(a, p, R) = R[child][p]
    BY <1>6 DEF AreaOf, Ink
  <2>2. CASE InsideAll(y, table, p) /\ p \in box[child]
    <3>1. Added(y, table, box, Q, K, N, p) = Q[child][p] /\ Added(y, table, box, R, K, N, p) = R[child][p]
      BY <2>1, <2>2, <1>6, <1>7 DEF Added
    <3>2. Q[child][p] = R[child][p] \o more
      BY <2>2 DEF LastChildGrows
    <3>. QED
      BY <2>2, <3>1, <3>2
  <2>3. CASE ~ (InsideAll(y, table, p) /\ p \in box[child])
    <3>1. Added(y, table, box, Q, K, N, p) = <<>> /\ Added(y, table, box, R, K, N, p) = <<>>
      BY <2>1, <2>3, <1>6, <1>7 DEF Added
    <3>2. got = <<>>
      BY <2>3
    <3>. QED
      BY <3>1, <3>2
  <2>. QED
    BY <2>2, <2>3
<1>. HIDE DEF got, a
<1>10. PassShows(y, table, box, Q, K, p) = PassShows(y, table, box, R, K, p) \o got
  <2>. DEFINE f == [i \in DOMAIN y.passes[K].ops |-> Added(y, table, box, R, K, i, p)]
              g == [i \in DOMAIN y.passes[K].ops |-> Added(y, table, box, Q, K, i, p)]
  <2>1. \A i \in 1 .. N : f[i] \in Seq(Nat)
    BY <1>0, <1>1, <1>4, ShowsAreColours
  <2>2. ASSUME NEW i \in 1 .. N, i # N PROVE g[i] = f[i]
    <3>1. SameChild(y, table, box, Q, R, p, K, i)
      BY <2>2, <1>1, <1>4 DEF LastChildGrows, N
    <3>. QED
      BY <3>1, <1>4, AddedByTextures
  <2>3. g[N] = f[N] \o got
    BY <1>4, <1>9
  <2>. HIDE DEF f, g
  <2>4. \A i \in N + 1 .. N : f[i] = <<>>
    BY <1>4
  <2>5. MoreAt(Nat, f, g, N, N, got)
    BY <2>1, <2>2, <2>3, <2>4, <1>4, <1>8 DEF MoreAt
  <2>6. Joined(g, N) = Joined(f, N) \o got
    BY <2>5, JoinedGrows
  <2>. QED
    BY <2>6 DEF PassShows, f, g, N
<1>11. ASSUME NEW k \in 1 .. K, k # K PROVE PassShows(y, table, box, Q, k, p) = PassShows(y, table, box, R, k, p)
  <2>1. ASSUME NEW i \in DOMAIN y.passes[k].ops
        PROVE  Added(y, table, box, Q, k, i, p) = Added(y, table, box, R, k, i, p)
    <3>1. SameChild(y, table, box, Q, R, p, k, i)
      BY <1>1, <1>11 DEF LastChildGrows, K
    <3>. QED
      BY <3>1, AddedByTextures
  <2>2. [i \in DOMAIN y.passes[k].ops |-> Added(y, table, box, Q, k, i, p)]
         = [i \in DOMAIN y.passes[k].ops |-> Added(y, table, box, R, k, i, p)]
    BY <2>1
  <2>. QED
    BY <2>2 DEF PassShows
<1>12. LayerShows(y, table, box, Q, p) = LayerShows(y, table, box, R, p) \o got
  <2>. DEFINE f == [k \in DOMAIN y.passes |-> PassShows(y, table, box, R, k, p)]
              g == [k \in DOMAIN y.passes |-> PassShows(y, table, box, Q, k, p)]
  <2>1. \A i \in 1 .. K : f[i] \in Seq(Nat)
    BY <1>0, <1>1, ShowsAreColours
  <2>2. g[K] = f[K] \o got /\ \A i \in 1 .. K : i # K => g[i] = f[i]
    BY <1>1, <1>10, <1>11
  <2>. HIDE DEF f, g
  <2>3. \A i \in K + 1 .. K : f[i] = <<>>
    BY <1>1
  <2>4. MoreAt(Nat, f, g, K, K, got)
    BY <2>1, <2>2, <2>3, <1>1, <1>8 DEF MoreAt
  <2>5. Joined(g, K) = Joined(f, K) \o got
    BY <2>4, JoinedGrows
  <2>. QED
    BY <2>5 DEF LayerShows, f, g, K
<1>. QED
  BY <1>12 DEF got

IsFrame(stack, ls, table, loads) ==
    /\ ls \in Seq(Layers) /\ table \in Seq(Draws)
    /\ stack \in Seq(Nat) /\ stack # <<>> /\ \A s \in DOMAIN stack : stack[s] \in DOMAIN ls
    /\ FrameInv(ls, table, loads) /\ OpenInv(stack, ls, table)

\* What holds of a layer of such a frame.
LEMMA FrameLayer ==
  ASSUME NEW stack, NEW ls, NEW table, NEW loads, IsFrame(stack, ls, table, loads), NEW l \in DOMAIN ls
  PROVE  ls[l] \in Layers /\ LayerInv(ls[l], table, l, Boxes(ls), loads) /\ l \in Nat
  BY DEF IsFrame, FrameInv

\* The place of the last draw of a layer that ends with a child.
LEMMA EndIs ==
  ASSUME NEW y \in Layers, NEW table, NEW l, NEW box, NamesAreRight(y, table, l, box), NEW child,
         EndsWith(y, table, child)
  PROVE  LET K == Len(y.passes)
             N == Len(y.passes[K].ops)
         IN  /\ K \in DOMAIN y.passes /\ N \in DOMAIN y.passes[K].ops
             /\ y.passes[K].ops[N] \in DOMAIN table
             /\ table[y.passes[K].ops[N]].type = "layer" /\ table[y.passes[K].ops[N]].child = child
<1>. DEFINE K == Len(y.passes)
            N == Len(y.passes[K].ops)
<1>1. K \in Nat /\ DOMAIN y.passes = 1 .. K /\ K \in DOMAIN y.passes /\ K > 0 /\ K \in 1 .. K
  <2>1. y.passes # <<>>
    BY DEF NamesAreRight
  <2>. QED
    BY <2>1, LayerTypes, EmptySeq
<1>2. Last(y.passes) = y.passes[K]
  BY <1>1, LastOneIs
<1>3. y.passes[K].ops \in Seq(Nat) /\ y.passes[K].ops # <<>>
  BY <1>1, <1>2, LayerTypes DEF EndsWith
<1>4. N \in Nat /\ N > 0 /\ N \in DOMAIN y.passes[K].ops
  BY <1>3
<1>5. Last(y.passes[K].ops) = y.passes[K].ops[N]
  BY <1>4, LastOneIs
<1>6. table[y.passes[K].ops[N]].type = "layer" /\ table[y.passes[K].ops[N]].child = child
  BY <1>2, <1>5 DEF EndsWith
<1>7. y.passes[K].ops[N] \in DOMAIN table
  BY <1>1, <1>4 DEF NamesAreRight
<1>. QED
  BY <1>1, <1>4, <1>6, <1>7

\* The draw of a layer of the stack is the last one of the layer below.
LEMMA ChildrenOfStack ==
  ASSUME NEW stack, NEW ls, NEW table, NEW loads, IsFrame(stack, ls, table, loads),
         NEW l \in DOMAIN ls, NEW k \in DOMAIN ls[l].passes, NEW i \in DOMAIN ls[l].passes[k].ops,
         NEW c \in DOMAIN stack, table[ls[l].passes[k].ops[i]].type = "layer",
         table[ls[l].passes[k].ops[i]].child = stack[c]
  PROVE  /\ c - 1 \in DOMAIN stack /\ stack[c - 1] = l
         /\ k = Len(ls[l].passes) /\ i = Len(ls[l].passes[k].ops)
<1>. DEFINE y == ls[l]
            o == ls[l].passes[k].ops[i]
<1>1. y \in Layers /\ LayerInv(y, table, l, Boxes(ls), loads) /\ l \in Nat
  BY FrameLayer
<1>2. DOMAIN stack = 1 .. Len(stack) /\ Len(stack) \in Nat /\ stack[1] = 1
  BY DEF IsFrame, OpenInv
<1>3. o \in DOMAIN table /\ table[o].child > l /\ o \in Uses(y)
  <2>1. o \in DOMAIN table /\ table[o].child > l
    BY <1>1 DEF LayerInv, NamesAreRight
  <2>2. o \in Uses(y)
    BY <1>1, UsesAreThere
  <2>. QED
    BY <2>1, <2>2
<1>4. o \in Nat \ {0}
  BY <1>3 DEF IsFrame
<1>5. c # 1 /\ c - 1 \in DOMAIN stack /\ c - 1 < Len(stack) /\ (c - 1) + 1 = c
  <2>1. l >= 1
    BY DEF IsFrame
  <2>2. c # 1
    BY <2>1, <1>1, <1>2, <1>3
  <2>. QED
    BY <2>2, <1>2
<1>6. PICK s, m : s = c - 1 /\ m = stack[s]
  OBVIOUS
<1>7. m \in DOMAIN ls /\ EndsWith(ls[m], table, stack[c])
  BY <1>5, <1>6 DEF IsFrame, OpenInv
<1>8. ls[m] \in Layers /\ LayerInv(ls[m], table, m, Boxes(ls), loads)
  BY <1>7, FrameLayer
<1>9. PICK K, N, e : K = Len(ls[m].passes) /\ N = Len(ls[m].passes[K].ops) /\ e = ls[m].passes[K].ops[N]
  OBVIOUS
<1>10. /\ K \in DOMAIN ls[m].passes /\ N \in DOMAIN ls[m].passes[K].ops
       /\ e \in DOMAIN table /\ table[e].type = "layer" /\ table[e].child = stack[c]
  <2>1. NamesAreRight(ls[m], table, m, Boxes(ls))
    BY <1>8 DEF LayerInv
  <2>. QED
    BY <2>1, <1>7, <1>8, <1>9, EndIs
<1>11. e = o
  BY <1>3, <1>10 DEF IsFrame, FrameInv
<1>12. e \in Uses(ls[m])
  BY <1>8, <1>9, <1>10, UsesAreThere
<1>13. m = l
  BY <1>3, <1>4, <1>7, <1>11, <1>12 DEF IsFrame, FrameInv
<1>14. k = K /\ i = N
  <2>1. PlacesAreRight(y, table) /\ table[o].type # "clip"
    BY <1>1 DEF LayerInv
  <2>2. K \in DOMAIN y.passes /\ N \in DOMAIN y.passes[K].ops /\ y.passes[K].ops[N] = o
    BY <1>9, <1>10, <1>11, <1>13
  <2>. HIDE DEF y
  <2>3. k \in DOMAIN y.passes /\ i \in DOMAIN y.passes[k].ops /\ y.passes[k].ops[i] = o
    BY DEF y
  <2>. HIDE DEF o
  <2>. QED
    BY <2>1, <2>2, <2>3 DEF PlacesAreRight
<1>. QED
  BY <1>5, <1>6, <1>9, <1>13, <1>14

\* Do the clips of the layers of the stack, from place s on, let a pixel through?
Seen(stack, ls, table, s, p) == \A t \in s .. Len(stack) : InsideAll(ls[stack[t]], table, p)

\* What the layers show more when the last one of the stack shows "ink" more.
Gets(stack, ls, table, pixels, l, p) ==
    p \in pixels /\ \E s \in DOMAIN stack : stack[s] = l /\ Seen(stack, ls, table, s, p)
Regrown(stack, ls, table, R, pixels, ink) ==
    [l \in DOMAIN ls |-> [p \in ls[l].bounds |->
        R[l][p] \o IF Gets(stack, ls, table, pixels, l, p) THEN ink ELSE <<>>]]

LastShowsMore(stack, ls, table, R, pixels, ink) ==
    /\ Colours(Boxes(ls), R) /\ ink \in Seq(Nat)
    /\ \A l \in DOMAIN ls : \A p \in ls[l].bounds :
          LayerShows(ls[l], table, Boxes(ls), R, p)
            = R[l][p] \o IF l = stack[Len(stack)] /\ InsideAll(ls[l], table, p) /\ p \in pixels
                         THEN ink ELSE <<>>

\* A layer is on the stack once.
LEMMA StackIsSorted ==
  ASSUME NEW stack, NEW ls, NEW table, NEW loads, IsFrame(stack, ls, table, loads),
         NEW s \in DOMAIN stack, NEW t \in DOMAIN stack, stack[s] = stack[t]
  PROVE  s = t
<1>1. DOMAIN stack = 1 .. Len(stack) /\ Len(stack) \in Nat /\ stack[s] \in Nat
  BY DEF IsFrame
<1>2. s < t => stack[s] < stack[t]
  BY DEF IsFrame, OpenInv
<1>3. t < s => stack[t] < stack[s]
  BY DEF IsFrame, OpenInv
<1>. QED
  BY <1>1, <1>2, <1>3

\* A layer of the stack gets what the next one gets, inside of its clips.
LEMMA GetsBelow ==
  ASSUME NEW stack, NEW ls, NEW table, NEW loads, IsFrame(stack, ls, table, loads), NEW pixels, NEW p,
         NEW s \in DOMAIN stack
  PROVE  /\ Gets(stack, ls, table, pixels, stack[s], p) <=> p \in pixels /\ Seen(stack, ls, table, s, p)
         /\ s < Len(stack) =>
              (Seen(stack, ls, table, s, p) <=> /\ InsideAll(ls[stack[s]], table, p)
                                               /\ Seen(stack, ls, table, s + 1, p))
         /\ s = Len(stack) => (Seen(stack, ls, table, s, p) <=> InsideAll(ls[stack[s]], table, p))
<1>1. Gets(stack, ls, table, pixels, stack[s], p) <=> p \in pixels /\ Seen(stack, ls, table, s, p)
  BY StackIsSorted DEF Gets
<1>2. DOMAIN stack = 1 .. Len(stack) /\ Len(stack) \in Nat
  BY DEF IsFrame
<1>3. ASSUME s < Len(stack)
      PROVE  Seen(stack, ls, table, s, p) <=> /\ InsideAll(ls[stack[s]], table, p)
                                             /\ Seen(stack, ls, table, s + 1, p)
  <2>1. s .. Len(stack) = {s} \cup (s + 1 .. Len(stack))
    BY <1>2, <1>3
  <2>. QED
    BY <2>1 DEF Seen
<1>4. ASSUME s = Len(stack) PROVE Seen(stack, ls, table, s, p) <=> InsideAll(ls[stack[s]], table, p)
  <2>1. s .. Len(stack) = {s}
    BY <1>2, <1>4
  <2>. QED
    BY <2>1 DEF Seen
<1>. QED
  BY <1>1, <1>3, <1>4

\* The clips of a layer let nothing through outside of it.
LEMMA InsideItsBox ==
  ASSUME NEW y \in Layers, NEW table, NEW l, NEW box, NEW loads, LayerInv(y, table, l, box, loads),
         NEW p, InsideAll(y, table, p)
  PROVE  p \in y.bounds
<1>1. y.clips # <<>> /\ y.clips \in Seq(Levels)
  BY LayerTypes DEF LayerInv, NamesAreRight
<1>2. Len(y.clips) \in DOMAIN y.clips
  BY <1>1
<1>. QED
  BY <1>2 DEF LayerInv, ClipsAreNested, InsideAll, Inside

\* The textures of such a frame.
LEMMA StackGrows ==
  ASSUME NEW stack, NEW ls, NEW table, NEW loads, IsFrame(stack, ls, table, loads), NEW R, NEW pixels, NEW ink,
         LastShowsMore(stack, ls, table, R, pixels, ink)
  PROVE  Pictures(ls, table, Regrown(stack, ls, table, R, pixels, ink))
<1>. DEFINE Q == Regrown(stack, ls, table, R, pixels, ink)
            box == Boxes(ls)
            n == Len(stack)
<1>1. DOMAIN stack = 1 .. n /\ n \in Nat /\ n \in DOMAIN stack /\ ink \in Seq(Nat) /\ Colours(box, R)
  BY DEF IsFrame, LastShowsMore
<1>2. DOMAIN box = DOMAIN ls /\ \A l \in DOMAIN ls : box[l] = ls[l].bounds
  BY DEF Boxes
<1>3. ASSUME NEW l \in DOMAIN ls, NEW p \in ls[l].bounds
      PROVE  /\ Q[l][p] = R[l][p] \o IF Gets(stack, ls, table, pixels, l, p) THEN ink ELSE <<>>
             /\ R[l][p] \in Seq(Nat)
             /\ Q[l][p] \in Seq(Nat)
  <2>1. Q[l][p] = R[l][p] \o IF Gets(stack, ls, table, pixels, l, p) THEN ink ELSE <<>>
    BY DEF Regrown
  <2>2. R[l][p] \in Seq(Nat)
    BY <1>1, <1>2 DEF Colours
  <2>. HIDE DEF Q
  <2>3. Q[l][p] \in Seq(Nat)
    BY <2>1, <2>2, <1>1
  <2>. QED
    BY <2>1, <2>2, <2>3
<1>4. ASSUME NEW l \in DOMAIN ls, NEW p \in ls[l].bounds, ~ Gets(stack, ls, table, pixels, l, p)
      PROVE  Q[l][p] = R[l][p]
  <2>1. PICK r, q : r = R[l][p] /\ q = Q[l][p]
    OBVIOUS
  <2>2. r \in Seq(Nat) /\ q = r \o <<>>
    BY <2>1, <1>3, <1>4
  <2>. QED
    BY <2>1, <2>2
<1>. HIDE DEF Q, n, box
<1>5. ASSUME NEW l \in DOMAIN ls, NEW p \in ls[l].bounds
      PROVE  Q[l][p] = LayerShows(ls[l], table, box, Q, p)
  <2>1. PICK y : y = ls[l]
    OBVIOUS
  <2>2. y \in Layers /\ LayerInv(y, table, l, box, loads)
    BY <2>1, FrameLayer DEF box
  <2>3. ASSUME NEW k \in DOMAIN y.passes, NEW i \in DOMAIN y.passes[k].ops,
               \A c \in DOMAIN stack : c - 1 \in DOMAIN stack /\ stack[c - 1] = l =>
                                         k # Len(y.passes) \/ i # Len(y.passes[k].ops)
        PROVE  SameChild(y, table, box, Q, R, p, k, i)
    <3>1. PICK d : d = table[y.passes[k].ops[i]]
      OBVIOUS
    <3>2. d.type = "layer" => d.child \in DOMAIN ls
      BY <3>1, <2>2, <1>2 DEF LayerInv, NamesAreRight
    <3>3. d.type = "layer" => \A c \in DOMAIN stack : d.child # stack[c]
      BY <2>1, <2>3, <3>1, ChildrenOfStack
    <3>4. d.type = "layer" => ~ Gets(stack, ls, table, pixels, d.child, p)
      BY <3>3 DEF Gets
    <3>5. d.type = "layer" /\ p \in box[d.child] => Q[d.child][p] = R[d.child][p]
      BY <3>2, <3>4, <1>2, <1>4
    <3>. QED
      BY <3>1, <3>5 DEF SameChild
  <2>4. LayerShows(y, table, box, R, p)
          = R[l][p] \o IF l = stack[n] /\ InsideAll(y, table, p) /\ p \in pixels THEN ink ELSE <<>>
    BY <2>1 DEF LastShowsMore, box, n
  <2>5. CASE \E s \in DOMAIN stack : stack[s] = l /\ s < n
    <3>1. PICK s \in DOMAIN stack : stack[s] = l /\ s < n
      BY <2>5
    <3>2. PICK c : c = s + 1
      OBVIOUS
    <3>3. c \in DOMAIN stack /\ c - 1 = s
      BY <3>1, <3>2, <1>1
    <3>4. PICK m : m = stack[c]
      OBVIOUS
    <3>5. m \in DOMAIN ls /\ EndsWith(y, table, m)
      <4>1. EndsWith(ls[stack[s]], table, stack[s + 1])
        BY <3>1 DEF IsFrame, OpenInv, n
      <4>2. m \in DOMAIN ls
        BY <3>3, <3>4 DEF IsFrame
      <4>. QED
        BY <4>1, <4>2, <2>1, <3>1, <3>2, <3>4
    <3>6. PICK more : more = IF Gets(stack, ls, table, pixels, m, p) THEN ink ELSE <<>>
      OBVIOUS
    <3>7. more \in Seq(Nat)
      BY <3>6, <1>1
    <3>8. LastChildGrows(y, table, box, Q, R, p, m, more)
      <4>1. ASSUME NEW k \in DOMAIN y.passes, NEW i \in DOMAIN y.passes[k].ops,
                   k # Len(y.passes) \/ i # Len(y.passes[k].ops)
            PROVE  SameChild(y, table, box, Q, R, p, k, i)
        BY <4>1, <2>3
      <4>2. p \in box[m] => Q[m][p] = R[m][p] \o more
        BY <3>5, <3>6, <1>2, <1>3
      <4>. QED
        BY <4>1, <4>2 DEF LastChildGrows
    <3>9. PICK got : got = IF InsideAll(y, table, p) /\ p \in box[m] THEN more ELSE <<>>
      OBVIOUS
    <3>10. LayerShows(y, table, box, Q, p) = LayerShows(y, table, box, R, p) \o got
      <4>1. LayerShows(y, table, box, Q, p)
              = LayerShows(y, table, box, R, p) \o (IF InsideAll(y, table, p) /\ p \in box[m] THEN more ELSE <<>>)
        <5>1. table \in Seq(Draws) /\ Colours(box, R) /\ EndsWith(y, table, m)
          BY <3>5, <1>1 DEF IsFrame
        <5>. QED
          BY <5>1, <3>7, <3>8, <2>2, ChildGrows
      <4>. QED
        BY <4>1, <3>9
    <3>11. got = IF Gets(stack, ls, table, pixels, l, p) THEN ink ELSE <<>>
      <4>1. Gets(stack, ls, table, pixels, m, p) <=> p \in pixels /\ Seen(stack, ls, table, c, p)
        BY <3>3, <3>4, GetsBelow
      <4>2. Gets(stack, ls, table, pixels, l, p) <=> p \in pixels /\ Seen(stack, ls, table, s, p)
        BY <3>1, GetsBelow
      <4>3. Seen(stack, ls, table, s, p) <=> InsideAll(y, table, p) /\ Seen(stack, ls, table, c, p)
        BY <2>1, <3>1, <3>2, GetsBelow DEF n
      <4>4. Seen(stack, ls, table, c, p) => p \in box[m]
        <5>1. Seen(stack, ls, table, c, p) => InsideAll(ls[m], table, p)
          BY <3>3, <3>4, <1>1 DEF Seen, n
        <5>2. ls[m] \in Layers /\ LayerInv(ls[m], table, m, box, loads)
          BY <3>5, FrameLayer DEF box
        <5>. QED
          BY <5>1, <5>2, <3>5, <1>2, InsideItsBox
      <4>. QED
        BY <4>1, <4>2, <4>3, <4>4, <3>6, <3>9
    <3>12. LayerShows(y, table, box, R, p) = R[l][p]
      <4>1. l # stack[n]
        BY <3>1, <1>1, StackIsSorted
      <4>2. R[l][p] \in Seq(Nat)
        BY <1>3
      <4>. QED
        BY <4>1, <4>2, <2>4
    <3>. QED
      BY <3>10, <3>11, <3>12, <1>3, <2>1
  <2>6. CASE ~ \E s \in DOMAIN stack : stack[s] = l /\ s < n
    <3>1. SameChildren(y, table, box, Q, R, p)
      <4>1. ASSUME NEW c \in DOMAIN stack PROVE ~ (c - 1 \in DOMAIN stack /\ stack[c - 1] = l)
        BY <2>6, <1>1
      <4>. QED
        BY <4>1, <2>3 DEF SameChildren
    <3>2. LayerShows(y, table, box, Q, p) = LayerShows(y, table, box, R, p)
      BY <3>1, ShowsSameChildren
    <3>3. Gets(stack, ls, table, pixels, l, p) <=> l = stack[n] /\ InsideAll(y, table, p) /\ p \in pixels
      <4>1. CASE l = stack[n]
        <5>1. Gets(stack, ls, table, pixels, stack[n], p) <=> p \in pixels /\ InsideAll(ls[stack[n]], table, p)
          BY <1>1, GetsBelow DEF n
        <5>. QED
          BY <5>1, <4>1, <2>1
      <4>2. CASE l # stack[n]
        <5>1. ~ \E s \in DOMAIN stack : stack[s] = l
          BY <4>2, <2>6, <1>1
        <5>. QED
          BY <5>1, <4>2 DEF Gets
      <4>. QED
        BY <4>1, <4>2
    <3>. QED
      BY <3>2, <3>3, <2>1, <2>4, <1>3
  <2>. QED
    BY <2>5, <2>6
<1>6. Pictures(ls, table, Q)
  BY <1>3, <1>5 DEF Pictures, box
<1>. QED
  BY <1>6 DEF Q

\* A draw is asked for that shows the given pixels, or is displaced.
AsksFor(clip, shown) ==
    \E pixels \in SUBSET Int, displaced \in BOOLEAN :
        /\ log' = Append(log, [pixels |-> pixels, clip |-> clip, displaced |-> displaced])
        /\ ~ displaced => shown = pixels \cap clip

\* One more draw has been asked for; the reach has its shown pixels.
ReachHasGrown(D, shown, m) ==
    /\ log' \in Seq(Logs) /\ m \in Nat /\ IsReach(Append(D, shown))'
    /\ \A p : /\ Reached(D, p) \in Seq(Nat)
             /\ Reached(Append(D, shown), p) = Reached(D, p) \o IF p \in shown THEN <<m>> ELSE <<>>

\* One more draw is on the pixels it shows.
LEMMA ReachGrows ==
  ASSUME log \in Seq(Logs), NEW D, IsReach(D), NEW clip \in SUBSET Int,
         NEW shown \in SUBSET Int, AsksFor(clip, shown), NEW m, m = Len(log) + 1
  PROVE  ReachHasGrown(D, shown, m)
<1>0. PICK pixels \in SUBSET Int, displaced \in BOOLEAN :
        /\ log' = Append(log, [pixels |-> pixels, clip |-> clip, displaced |-> displaced])
        /\ ~ displaced => shown = pixels \cap clip
  BY DEF AsksFor
<1>1. PICK one, old : /\ one = [pixels |-> pixels, clip |-> clip, displaced |-> displaced]
                      /\ old = log
  OBVIOUS
<1>2. /\ one \in Logs /\ one.pixels = pixels /\ one.clip = clip
      /\ ~ one.displaced => shown = pixels \cap clip
  BY <1>0, <1>1 DEF Logs
<1>3. OneLonger(Logs, Append(old, one), old, one, Len(old))
  BY <1>1, <1>2, SeqAppended
<1>4. log' = Append(old, one)
  BY <1>0, <1>1
<1>5. /\ log' \in Seq(Logs) /\ Len(log') = m /\ log'[m] = one
      /\ \A i \in 1 .. Len(log) : log'[i] = log[i]
      /\ m \in Nat /\ Len(log) \in Nat
  BY <1>1, <1>3, <1>4 DEF OneLonger
<1>6. PICK E : E = Append(D, shown)
  OBVIOUS
<1>7. /\ D \in Seq(SUBSET Int) /\ Len(D) = Len(log)
      /\ \A i \in 1 .. Len(D) : ~ log[i].displaced => D[i] = log[i].pixels \cap log[i].clip
  BY DEF IsReach
<1>8. OneLonger(SUBSET Int, Append(D, shown), D, shown, Len(D))
  BY <1>7, SeqAppended
<1>9. /\ E \in Seq(SUBSET Int) /\ Len(E) = m /\ E[m] = shown
      /\ \A i \in 1 .. Len(log) : E[i] = D[i]
      /\ DOMAIN E = 1 .. m /\ DOMAIN D = 1 .. Len(log)
  BY <1>5, <1>6, <1>7, <1>8 DEF OneLonger
<1>10. IsReach(E)'
  <2>1. ASSUME NEW i \in 1 .. m, ~ log'[i].displaced
        PROVE  E[i] = log'[i].pixels \cap log'[i].clip
    <3>1. CASE i = m
      BY <3>1, <2>1, <1>2, <1>5, <1>9
    <3>2. CASE i # m
      <4>1. i \in 1 .. Len(log)
        BY <3>2, <1>5
      <4>. QED
        BY <4>1, <2>1, <1>5, <1>7, <1>9
    <3>. QED
      BY <3>1, <3>2
  <2>. QED
    BY <2>1, <1>5, <1>9 DEF IsReach
<1>11. ASSUME NEW p
       PROVE  /\ Reached(D, p) \in Seq(Nat)
              /\ Reached(E, p) = Reached(D, p) \o IF p \in shown THEN <<m>> ELSE <<>>
  <2>1. PICK s, t, places, others, more :
          /\ s = [i \in DOMAIN D |-> i] /\ t = [i \in DOMAIN E |-> i]
          /\ places = {i \in DOMAIN D : p \in D[i]}
          /\ others = {i \in DOMAIN E : p \in E[i]}
          /\ more = IF m \in others THEN <<m>> ELSE <<>>
    OBVIOUS
  <2>2. s \in Seq(Nat) /\ Len(s) = Len(log) /\ t = Append(s, m) /\ m = Len(s) + 1
    BY <1>5, <1>9, <1>1, <2>1
  <2>3. \A i \in 1 .. Len(s) : i \in others <=> i \in places
    BY <1>5, <1>9, <2>1, <2>2
  <2>4. OneChosen(Nat, s, t, m, m, places, others, more)
    BY <1>5, <2>1, <2>2, <2>3 DEF OneChosen
  <2>5. Chosen(t, others) = Chosen(s, places) \o more
    BY <2>4, ChosenNext
  <2>6. Reached(D, p) = Chosen(s, places) /\ Reached(E, p) = Chosen(t, others)
    BY <2>1 DEF Reached
  <2>7. m \in others <=> p \in shown
    BY <1>5, <1>9, <2>1
  <2>8. Chosen(s, places) \in Seq(Nat)
    BY <2>2, ChosenIs
  <2>. QED
    BY <2>1, <2>5, <2>6, <2>7, <2>8
<1>. QED
  BY <1>5, <1>6, <1>10, <1>11 DEF ReachHasGrown

\* A call that changes no level keeps the saves.
LevelsAreKept(n, id, z, J, K) ==
    /\ TopBecomes(n, id, z, J, K) /\ Len(z.clips) = J /\ DOMAIN z.clips = 1 .. J
    /\ matrices' = matrices /\ saveCount' = saveCount /\ globalClips' = globalClips /\ saved' = saved

\* Then the saves are right.
LEMMA SavesAreKept ==
  ASSUME StateInv, NEW n, NEW id, NEW J, NEW K, NEW base, AtTop(n, id, J, K, base),
         NEW z, LevelsAreKept(n, id, z, J, K)
  PROVE  SavesInv'
<1>1. /\ J \in Nat \ {0} /\ n \in Nat /\ n = Len(layerStack) /\ DOMAIN layerStack = 1 .. n /\ layerStack[n] = id
      /\ n = Len(matrices) /\ J = Len(matrices[n].elements) /\ matrices[n].world = layers[id].origin
      /\ IsBase(base) /\ K = base[n] + J /\ K = saveCount /\ K = Len(saved) /\ K = Len(globalClips)
      /\ id \in DOMAIN layers
  BY DEF AtTop
<1>2. StateTypes /\ FrameInv(layers, draws, msaa) /\ layers \in Seq(Layers)
  BY DEF StateInv, StateTypes
<1>3. SameUpTo(n, J, K) /\ MayKeep(n, J)
  <2>1. J \in 0 .. J
    BY <1>1
  <2>. QED
    BY <2>1, TopStays DEF LevelsAreKept
<1>4. layers'[id] = z /\ z.origin = layers[id].origin /\ layerStack' = layerStack
  BY <1>1, <1>2 DEF LevelsAreKept, TopBecomes
<1>5. SameUpTo(n, J, base[n] + J)
  BY <1>1, <1>3
<1>6. \A i \in J + 1 .. J : LevelOK(n, i, base[n] + i)'
  BY <1>1
<1>7. J \in Nat \ {0} /\ J <= J
  BY <1>1
<1>8. /\ DOMAIN layerStack' = 1 .. n /\ Len(layerStack') = n /\ layerStack'[n] = id /\ Len(matrices') = n
      /\ saveCount' = base[n] + J /\ Len(saved') = saveCount' /\ Len(globalClips') = saveCount'
      /\ Len(matrices'[n].elements) = J /\ matrices'[n].world = z.origin
  BY <1>1, <1>4 DEF LevelsAreKept
<1>9. Becomes(base, n, J, J)
  BY <1>3, <1>4, <1>5, <1>6, <1>7, <1>8 DEF Becomes, LevelsAreKept
<1>. QED
  BY <1>1, <1>2, <1>9, SavesBecome

\* A draw that is no layer joins the current layer.
AddsDraw(id, z, other, d, R) ==
    /\ Adds(layers[id], draws, z, other, id, Boxes(layers), msaa, d, R)
    /\ d.type # "layer" /\ IsLast(d.clip, Stack(layers[id])) /\ d.clip \in Nat

IsDrawnFrame(id, z, other) ==
    LET new == [layers EXCEPT ![id] = z]
    IN  /\ IsFrame(layerStack, new, other, msaa) /\ ClipNames(other)
        /\ Changes(layers, draws, new, other, id, msaa)
        /\ DOMAIN new = DOMAIN layers /\ Boxes(new) = Boxes(layers)
        /\ new[id] = z /\ \A m \in DOMAIN layers : m # id => new[m] = layers[m]
        /\ \A m \in DOMAIN layers : new[m].bounds = layers[m].bounds

\* The frame with the draw keeps its invariant.
LEMMA FrameIsDrawn ==
  ASSUME StateInv, NEW n, NEW id, NEW J, NEW K, NEW base, AtTop(n, id, J, K, base),
         NEW z, NEW other, NEW d, NEW R, AddsDraw(id, z, other, d, R)
  PROVE  IsDrawnFrame(id, z, other)
<1>. DEFINE new == [layers EXCEPT ![id] = z]
<1>1. /\ layers \in Seq(Layers) /\ draws \in Seq(Draws) /\ layerStack \in Seq(Nat) /\ layerStack # <<>>
      /\ \A s \in DOMAIN layerStack : layerStack[s] \in DOMAIN layers
      /\ FrameInv(layers, draws, msaa) /\ OpenInv(layerStack, layers, draws) /\ ClipNames(draws)
      /\ id \in DOMAIN layers /\ id = layerStack[Len(layerStack)]
  BY DEF StateInv, StateTypes, AtTop, IsBase
<1>2. PICK y : y = layers[id]
  OBVIOUS
<1>3. Adds(y, draws, z, other, id, Boxes(layers), msaa, d, R) /\ d.type # "layer"
      /\ IsLast(d.clip, Stack(y)) /\ d.clip \in Nat
  BY <1>2 DEF AddsDraw
<1>4. /\ z \in Layers /\ other \in Seq(Draws) /\ DOMAIN draws \subseteq DOMAIN other
      /\ LayerInv(z, other, id, Boxes(layers), msaa) /\ z.bounds = y.bounds
      /\ Uses(z) \subseteq Uses(y) \cup (DOMAIN other \ DOMAIN draws)
      /\ \A c \in DOMAIN draws :
            /\ c \notin Uses(y) => other[c] = draws[c]
            /\ other[c].type = draws[c].type /\ other[c].child = draws[c].child /\ other[c].clip = draws[c].clip
      /\ \A c \in DOMAIN other \ DOMAIN draws :
            other[c].clip \in {0, d.clip} /\ other[c].type # "layer"
  BY <1>3 DEF Adds
<1>5. /\ new \in Seq(Layers) /\ DOMAIN new = DOMAIN layers
      /\ new[id] = z /\ \A m \in DOMAIN layers : m # id => new[m] = layers[m]
      /\ Boxes(new) = Boxes(layers)
      /\ \A m \in DOMAIN layers : new[m].bounds = layers[m].bounds
  BY Zenon, <1>1, <1>2, <1>4, ReplacedIs
<1>. HIDE DEF new
<1>6. Changes(layers, draws, new, other, id, msaa)
  BY <1>1, <1>2, <1>4, <1>5 DEF Changes
<1>7. FrameInv(new, other, msaa)
  BY <1>1, <1>6, FrameStep
<1>8. OpenInv(layerStack, new, other)
  BY <1>1, <1>6, OpenStays
<1>9. ClipNames(other)
  <2>1. d.clip = 0 \/ d.clip \in DOMAIN other
    <3>1. \A c \in Stack(y) : c \in DOMAIN draws
      BY <1>1, <1>2, StackedClips DEF StateInv
    <3>. QED
      BY <3>1, <1>3, <1>4 DEF IsLast
  <2>2. d.clip \in 0 .. Len(other)
    BY <2>1, <1>3, <1>4
  <2>3. 0 \in 0 .. Len(other)
    BY <1>4
  <2>4. \A c \in DOMAIN other \ DOMAIN draws : other[c].clip \in 0 .. Len(other)
    BY <2>2, <2>3, <1>4
  <2>. QED
    BY <2>4, <1>1, <1>4, ClipNamesStay
<1>10. IsFrame(layerStack, new, other, msaa)
  BY <1>1, <1>4, <1>5, <1>7, <1>8 DEF IsFrame
<1>. QED
  BY <1>5, <1>6, <1>9, <1>10 DEF IsDrawnFrame, new

\* What the draw shows: a name on the pixels of its only item.
Inks(d, R, pixels, num) ==
    /\ num \in Nat /\ \A box : AreaOf(box, d) = pixels
    /\ \A p : Ink(d, p, R) = IF p \in pixels THEN <<num>> ELSE <<>>

\* The layers of the stack show the name of the draw more, on the pixels asked for.
LEMMA DrawnShows ==
  ASSUME StateInv, NEW n, NEW id, NEW J, NEW K, NEW base, AtTop(n, id, J, K, base),
         NEW z, NEW other, NEW d, NEW R, AddsDraw(id, z, other, d, R), Pictures(layers, draws, R),
         NEW pixels, NEW num, Inks(d, R, pixels, num), NEW new, new = [layers EXCEPT ![id] = z]
  PROVE  /\ LastShowsMore(layerStack, new, other, R, pixels, <<num>>)
         /\ \A p \in Surface : Gets(layerStack, new, other, pixels, 1, p) <=> p \in pixels /\ p \in Asked.clip
<1>1. /\ IsFrame(layerStack, new, other, msaa) /\ FrameInv(layers, draws, msaa)
      /\ Changes(layers, draws, new, other, id, msaa)
      /\ DOMAIN new = DOMAIN layers /\ Boxes(new) = Boxes(layers)
      /\ new[id] = z /\ \A m \in DOMAIN layers : m # id => new[m] = layers[m]
      /\ \A m \in DOMAIN layers : new[m].bounds = layers[m].bounds
  <2>1. IsDrawnFrame(id, z, other)
    BY FrameIsDrawn
  <2>. QED
    BY <2>1 DEF IsDrawnFrame, StateInv
<1>2. PICK y, box : y = layers[id] /\ box = Boxes(layers)
  OBVIOUS
<1>3. /\ DOMAIN layerStack = 1 .. n /\ n = Len(layerStack) /\ layerStack[n] = id /\ n \in Nat \ {0}
      /\ id \in DOMAIN layers /\ layerStack[1] = 1
  BY DEF AtTop, StateInv, OpenInv
<1>4. Adds(y, draws, z, other, id, box, msaa, d, R)
  BY <1>2 DEF AddsDraw
<1>5. Colours(box, R)
  BY <1>2 DEF Pictures, Colours, Boxes
<1>6. \A c \in DOMAIN draws : draws[c].type = "clip" => other[c].writes = draws[c].writes
  BY <1>4 DEF Adds
<1>7. ASSUME NEW m \in DOMAIN layers PROVE SameClips(new[m], other, layers[m], draws)
  <2>1. new[m].clips = layers[m].clips
    BY <1>1, <1>2, <1>4 DEF Adds
  <2>2. \A c \in Stack(layers[m]) : c \in DOMAIN draws /\ draws[c].type = "clip"
    BY StackedClips DEF StateInv
  <2>. QED
    BY <2>1, <2>2, <1>6 DEF SameClips
<1>8. \A m \in DOMAIN layers : \A p : InsideAll(new[m], other, p) <=> InsideAll(layers[m], draws, p)
  BY <1>7, InsideSame
<1>9. ASSUME NEW l \in DOMAIN new, NEW p \in new[l].bounds
      PROVE  LayerShows(new[l], other, Boxes(new), R, p)
               = R[l][p] \o IF l = layerStack[Len(layerStack)] /\ InsideAll(new[l], other, p) /\ p \in pixels
                            THEN <<num>> ELSE <<>>
  <2>1. R[l][p] \in Seq(Nat) /\ R[l][p] = LayerShows(layers[l], draws, box, R, p)
    BY <1>1, <1>2 DEF Pictures
  <2>2. CASE l = id
    <3>1. LayerShows(z, other, box, R, p) = LayerShows(y, draws, box, R, p) \o Inked(y, draws, box, d, R, p)
      BY <1>4 DEF Adds
    <3>2. Inked(y, draws, box, d, R, p) = IF InsideAll(z, other, p) /\ p \in pixels THEN <<num>> ELSE <<>>
      <4>1. AreaOf(box, d) = pixels /\ Ink(d, p, R) = IF p \in pixels THEN <<num>> ELSE <<>>
        BY DEF Inks
      <4>2. InsideAll(z, other, p) <=> InsideAll(y, draws, p)
        BY <1>1, <1>2, <1>3, <1>8
      <4>. QED
        BY <4>1, <4>2 DEF Inked
    <3>. QED
      BY <3>1, <3>2, <2>1, <2>2, <1>1, <1>2, <1>3
  <2>3. CASE l # id
    <3>1. ShowAlike(new[l], other, Boxes(new), layers[l], draws, Boxes(layers))
      BY <2>3, <1>1, FrameStep
    <3>2. LayerShows(new[l], other, Boxes(new), R, p) = LayerShows(layers[l], draws, box, R, p)
      BY <3>1, <1>2 DEF ShowAlike
    <3>3. PICK r : r = R[l][p]
      OBVIOUS
    <3>4. r = r \o <<>>
      BY <3>3, <2>1
    <3>. QED
      BY <3>2, <3>3, <3>4, <2>1, <2>3, <1>3
  <2>. QED
    BY <2>2, <2>3
<1>10. LastShowsMore(layerStack, new, other, R, pixels, <<num>>)
  <2>1. <<num>> \in Seq(Nat)
    BY DEF Inks
  <2>2. Colours(Boxes(new), R)
    BY <1>1, <1>2, <1>5
  <2>. QED
    BY <2>1, <2>2, <1>9 DEF LastShowsMore
<1>11. ASSUME NEW p \in Surface
       PROVE  Gets(layerStack, new, other, pixels, 1, p) <=> p \in pixels /\ p \in Asked.clip
  <2>1. Gets(layerStack, new, other, pixels, 1, p) <=> p \in pixels /\ Seen(layerStack, new, other, 1, p)
    <3>1. 1 \in DOMAIN layerStack
      BY <1>3
    <3>. QED
      BY <3>1, <1>1, <1>3, GetsBelow
  <2>2. \A t \in 1 .. n : InsideAll(new[layerStack[t]], other, p) <=> InsideAll(layers[layerStack[t]], draws, p)
    <3>1. \A t \in 1 .. n : layerStack[t] \in DOMAIN layers
      BY <1>3 DEF StateInv, StateTypes
    <3>. QED
      BY <3>1, <1>8
  <2>3. Seen(layerStack, new, other, 1, p) <=> \A t \in 1 .. n : InsideAll(layers[layerStack[t]], draws, p)
    BY <2>2, <1>3 DEF Seen
  <2>4. (\A t \in 1 .. n : InsideAll(layers[layerStack[t]], draws, p)) <=> InsideAll(y, draws, p) /\ Under(n, p)
    <3>1. 1 .. n = {n} \cup (1 .. n - 1)
      BY <1>3
    <3>. QED
      BY <3>1, <1>2, <1>3 DEF Under
  <2>5. p \in Asked.clip <=> InsideAll(y, draws, p) /\ Under(n, p)
    BY <1>2, TopAgrees
  <2>. QED
    BY <2>1, <2>3, <2>4, <2>5
<1>. QED
  BY <1>10, <1>11

-----------------------------------------------------------------------------
(* Draws                                                                   *)

\* The type of a new draw.
LEMMA NewDrawIs ==
  /\ NewDraw \in Draws /\ NewDraw.type = "path" /\ NewDraw.items = <<>>
  BY DEF NewDraw, Draws, Everywhere

\* The draw of a shape or a path.
IsShapeDraw(draw, type, dst, num, pixels) ==
    /\ draw \in Draws /\ draw.type = type /\ draw.dst = dst
    /\ draw.items = <<[id |-> num, pixels |-> pixels]>>

\* The parts of the draw of a shape.
LEMMA ShapeDrawIs ==
  ASSUME NEW type \in {"shape", "path"}, NEW dst \in BOOLEAN, NEW num \in Nat, NEW pixels \in SUBSET Int
  PROVE  IsShapeDraw([NewDraw EXCEPT !.type = type, !.dst = dst, !.items = <<[id |-> num, pixels |-> pixels]>>],
                     type, dst, num, pixels)
<1>1. PICK items : items = <<[id |-> num, pixels |-> pixels]>>
  OBVIOUS
<1>2. items \in Seq([id : Nat, pixels : SUBSET Int])
  BY <1>1
<1>3. PICK d, e : d = NewDraw /\ e = [d EXCEPT !.type = type, !.dst = dst, !.items = items]
  OBVIOUS
<1>4. e \in Draws /\ e.type = type /\ e.dst = dst /\ e.items = items
  BY <1>2, <1>3, NewDrawIs DEF Draws
<1>. QED
  BY <1>1, <1>3, <1>4 DEF IsShapeDraw

\* AddDraw takes it.
LEMMA ShapeCanDraw ==
  ASSUME NEW draw, NEW type \in {"shape", "path"}, NEW dst, NEW num \in Nat, NEW pixels \in SUBSET Int,
         IsShapeDraw(draw, type, dst, num, pixels), NEW bounds \in SUBSET Int, pixels \subseteq bounds,
         NEW y, NEW id, NEW box
  PROVE  CanDraw(y, id, box, draw, bounds)
<1>1. PICK item : item = [id |-> num, pixels |-> pixels]
  OBVIOUS
<1>2. item \in [id : Nat, pixels : SUBSET Int] /\ draw.items = <<item>> /\ item.pixels = pixels
  BY <1>1 DEF IsShapeDraw
<1>3. draw \in Draws /\ draw.type \in {"shape", "path"} /\ draw.type # "layer"
  BY DEF IsShapeDraw
<1>4. AreaOf(box, draw) = pixels
  BY <1>2, <1>3, ItemInk
<1>. QED
  BY <1>2, <1>3, <1>4 DEF CanDraw

\* It shows one name on its pixels.
LEMMA ShapeInks ==
  ASSUME NEW draw, NEW type \in {"shape", "path"}, NEW dst, NEW num \in Nat, NEW pixels \in SUBSET Int,
         IsShapeDraw(draw, type, dst, num, pixels), NEW y, NEW bounds, NEW d, Prepared(d, y, draw, bounds), NEW R
  PROVE  Inks(d, R, pixels, num) /\ d.type # "layer"
<1>1. PICK item : item = [id |-> num, pixels |-> pixels]
  OBVIOUS
<1>2. item \in [id : Nat, pixels : SUBSET Int] /\ item.pixels = pixels /\ item.id = num
  BY <1>1
<1>3. d.items = <<item>> /\ d.type = type /\ d.type # "layer"
  BY <1>1 DEF IsShapeDraw, Prepared
<1>4. ASSUME NEW p, NEW box
      PROVE  AreaOf(box, d) = pixels /\ Ink(d, p, R) = IF p \in pixels THEN <<num>> ELSE <<>>
  BY <1>2, <1>3, ItemInk
<1>. QED
  BY <1>3, <1>4 DEF Inks

\* A draw outside of the clip shows nothing and is not asked for.
LEMMA RejectedDraw ==
  ASSUME StateInv, NEW n, NEW id, NEW J, NEW K, NEW base, AtTop(n, id, J, K, base),
         NEW pixels, NEW bounds, pixels \subseteq bounds, QuickReject(bounds)
  PROVE  \A p : ~ (p \in Moved(pixels, TotalMatrix) /\ p \in Asked.clip)
<1>1. Asked.clip \subseteq Last(globalClips)
  BY TopAgrees
<1>2. Moved(pixels, TotalMatrix) \subseteq Moved(bounds, TotalMatrix)
  BY MovedInside
<1>. QED
  BY <1>1, <1>2 DEF QuickReject

\* A call that draws z and "other" for what it asks.
DrawnCall(n, id, z, other, J, K) ==
    /\ LevelsAreKept(n, id, z, J, K)
    /\ layers' = [layers EXCEPT ![id] = z] /\ draws' = other /\ layerStack' = layerStack /\ msaa' = msaa
    /\ IsDrawnFrame(id, z, other) /\ CallTypes
    /\ log' \in Seq(Logs)
    /\ \E Q, E : /\ Pictures([layers EXCEPT ![id] = z], other, Q) /\ IsReach(E)'
                 /\ \A p \in Surface : Q[1][p] = Reached(E, p)

\* A call that draws what it asks for keeps the invariant.
LEMMA DrawnCallKeeps ==
  ASSUME StateInv, NEW n, NEW id, NEW J, NEW K, NEW base, AtTop(n, id, J, K, base),
         NEW z, NEW other, DrawnCall(n, id, z, other, J, K)
  PROVE  StateInv' /\ ShownIsAsked'
<1>1. PICK new : new = [layers EXCEPT ![id] = z]
  OBVIOUS
<1>2. /\ layers' = new /\ draws' = other /\ layerStack' = layerStack /\ msaa' = msaa
      /\ IsFrame(layerStack, new, other, msaa) /\ ClipNames(other)
  BY <1>1 DEF DrawnCall, IsDrawnFrame
<1>3. SavesInv'
  BY SavesAreKept DEF DrawnCall
<1>4. ShownIsAsked'
  BY <1>1, <1>2 DEF ShownIsAsked, DrawnCall
<1>5. FrameKept
  BY <1>2, <1>4 DEF FrameKept, IsFrame
<1>6. /\ matrices' \in Seq(LayerStates) /\ saved' \in Seq(Saveds) /\ globalClips' \in Seq(SUBSET Surface)
      /\ saveCount' \in Nat \ {0}
  BY DEF DrawnCall, LevelsAreKept, StateInv, StateTypes
<1>. QED
  BY <1>3, <1>5, <1>6, KeptIs DEF DrawnCall, Logs

\* The call changes nothing but the current layer and the draws.
DrawsOnly(id, z) ==
    /\ z \in Layers /\ z.clips = layers[id].clips /\ z.origin = layers[id].origin
    /\ layers' = [layers EXCEPT ![id] = z] /\ layerStack' = layerStack
    /\ UNCHANGED <<canvasVars, saved>>
    /\ \A c \in DOMAIN draws : draws[c].type = "clip" => draws'[c].writes = draws[c].writes

\* Such a call keeps the levels.
LEMMA DrawsOnlyKeeps ==
  ASSUME StateInv, NEW n, NEW id, NEW J, NEW K, NEW base, AtTop(n, id, J, K, base),
         NEW z, DrawsOnly(id, z)
  PROVE  LevelsAreKept(n, id, z, J, K)
<1>1. /\ matrices' = matrices /\ saveCount' = saveCount /\ globalClips' = globalClips /\ saved' = saved
      /\ z \in Layers /\ z.clips = layers[id].clips /\ z.origin = layers[id].origin
      /\ layers' = [layers EXCEPT ![id] = z] /\ layerStack' = layerStack
  BY DEF DrawsOnly, canvasVars
<1>2. J = Len(layers[id].clips) /\ DOMAIN layers[id].clips = 1 .. J
  BY DEF AtTop
<1>3. TopBecomes(n, id, z, J, K)
  BY <1>1 DEF TopBecomes, DrawsOnly
<1>. QED
  BY <1>1, <1>2, <1>3 DEF LevelsAreKept

\* Drawing a shape or a path keeps the invariant.
LEMMA DrawKeeps ==
  ASSUME StateInv, ShownIsAsked, Call, UNCHANGED <<canvasVars, layerStack, saved>>,
         NEW kind, kind.type \in {"shape", "path"}, kind.dst \in BOOLEAN,
         NEW pixels \in SUBSET Int, NEW bounds \in SUBSET Int, pixels \subseteq bounds,
         DrawShape(kind, pixels, bounds),
         AsksFor(Asked.clip, InLayer(pixels) \cap Asked.clip)
  PROVE  StateInv' /\ ShownIsAsked'
<1>1. CallTypes /\ layerStack # <<>> /\ msaa' = msaa
  BY CallIs
<1>2. PICK n, id, J, K, base : AtTop(n, id, J, K, base)
  BY <1>1, TopIs
<1>3. PICK y, T, there, around, num, clip, shown :
        /\ y = layers[id] /\ T = TotalMatrix /\ there = Moved(pixels, T) /\ around = Moved(bounds, T)
        /\ num = Len(log) + 1 /\ clip = Asked.clip /\ shown = there \cap clip
  OBVIOUS
<1>4. /\ T \in Int /\ InLayer(pixels) = there /\ InLayer(bounds) = around /\ clip \subseteq Surface
  BY <1>2, <1>3, TopAgrees
<1>5. there \in SUBSET Int /\ around \in SUBSET Int /\ there \subseteq around
  BY <1>3, <1>4, MovedIs, MovedInside
<1>6. AsksFor(clip, shown)
  BY <1>3, <1>4
<1>7. clip \in SUBSET Int /\ shown \in SUBSET Int
  BY <1>3, <1>4, <1>5, SurfaceIsInside
<1>8. PICK R, D : /\ Pictures(layers, draws, R) /\ IsReach(D)
                  /\ \A p \in Surface : R[1][p] = Reached(D, p)
  <2>1. layers # <<>>
    BY <1>2 DEF AtTop, StateInv, StateTypes
  <2>. QED
    BY <2>1 DEF ShownIsAsked
<1>9. PICK E : /\ log' \in Seq(Logs) /\ num \in Nat /\ IsReach(E)'
               /\ \A p : /\ Reached(D, p) \in Seq(Nat)
                        /\ Reached(E, p) = Reached(D, p) \o IF p \in shown THEN <<num>> ELSE <<>>
  <2>1. log \in Seq(Logs) /\ IsReach(D) /\ num = Len(log) + 1
    BY <1>3, <1>8 DEF StateInv, StateTypes
  <2>2. ReachHasGrown(D, shown, num)
    BY <2>1, <1>6, <1>7, ReachGrows
  <2>. QED
    BY <2>2 DEF ReachHasGrown
<1>10. y \in Layers /\ LayerInv(y, draws, id, Boxes(layers), msaa) /\ draws \in Seq(Draws)
       /\ layers \in Seq(Layers) /\ id \in DOMAIN layers /\ Current = id
  BY <1>2, <1>3, CurrentIs DEF AtTop
<1>11. CASE QuickReject(bounds)
  <2>1. layers' = layers /\ draws' = draws
    BY <1>11 DEF DrawShape
  <2>2. PICK other : other = draws
    OBVIOUS
  <2>3. layers = [layers EXCEPT ![id] = y] /\ Quiet(id, y, other)
    BY <1>2, <1>3, <2>2, NothingIsQuiet
  <2>4. DrawsOnly(id, y)
    BY <2>1, <2>3, <1>3, <1>10 DEF DrawsOnly
  <2>5. LevelsAreKept(n, id, y, J, K)
    BY <2>4, <1>2, DrawsOnlyKeeps
  <2>6. IsDrawnFrame(id, y, other)
    <3>1. /\ FrameInv(layers, draws, msaa) /\ OpenInv(layerStack, layers, draws) /\ ClipNames(draws)
          /\ layerStack \in Seq(Nat) /\ \A s \in DOMAIN layerStack : layerStack[s] \in DOMAIN layers
      BY DEF StateInv, StateTypes
    <3>2. IsFrame(layerStack, layers, draws, msaa)
      BY <3>1, <1>1, <1>10 DEF IsFrame
    <3>3. Changes(layers, draws, layers, draws, id, msaa)
      BY <3>1, <1>3, <1>10 DEF Changes
    <3>. QED
      BY <2>2, <2>3, <3>1, <3>2, <3>3, <1>3 DEF IsDrawnFrame
  <2>7. \A p \in Surface : R[1][p] = Reached(E, p)
    <3>1. ASSUME NEW p \in Surface PROVE R[1][p] = Reached(E, p)
      <4>1. p \notin shown
        BY <1>2, <1>3, <1>11, RejectedDraw
      <4>2. PICK e : e = Reached(D, p)
        OBVIOUS
      <4>3. e \in Seq(Nat) /\ e \o <<>> = e
        BY <4>2, <1>9
      <4>. QED
        BY <4>1, <4>2, <4>3, <1>8, <1>9
    <3>. QED
      BY <3>1
  <2>8. Pictures([layers EXCEPT ![id] = y], other, R)
    BY <2>2, <2>3, <1>8
  <2>9. layers' = [layers EXCEPT ![id] = y] /\ draws' = other /\ layerStack' = layerStack
    BY <2>1, <2>2, <2>3
  <2>10. DrawnCall(n, id, y, other, J, K)
    BY <2>5, <2>6, <2>7, <2>8, <2>9, <1>1, <1>9 DEF DrawnCall
  <2>. QED
    BY <2>10, <1>2, DrawnCallKeeps
<1>12. CASE ~ QuickReject(bounds)
  <2>1. PICK draw : draw = [NewDraw EXCEPT !.type = kind.type, !.dst = kind.dst,
                                           !.items = <<[id |-> num, pixels |-> there]>>]
    OBVIOUS
  <2>2. IsShapeDraw(draw, kind.type, kind.dst, num, there)
    BY <2>1, <1>5, <1>9, ShapeDrawIs
  <2>3. PICK r, z, other : r = AddDraw(id, draw, around) /\ z = r.layer /\ other = r.draws
    OBVIOUS
  <2>4. layers' = [layers EXCEPT ![id] = z] /\ draws' = other
    BY <2>1, <2>3, <1>3, <1>4, <1>10, <1>12 DEF DrawShape, Recorded, SetLayer
  <2>5. CanDraw(y, id, Boxes(layers), draw, around)
    BY <2>2, <1>5, <1>9, ShapeCanDraw
  <2>6. Colours(Boxes(layers), R)
    BY <1>8 DEF Pictures, Colours, Boxes
  <2>7. PICK d : Prepared(d, y, draw, around) /\ Adds(y, draws, z, other, id, Boxes(layers), msaa, d, R)
    <3>1. PICK box : box = Boxes(layers)
      OBVIOUS
    <3>2. msaa \in BOOLEAN
      BY DEF StateInv, StateTypes
    <3>3. \E d : Prepared(d, layers[id], draw, around) /\ Adds(layers[id], draws, r.layer, r.draws, id, box, msaa, d, R)
      BY <3>1, <3>2, <2>3, <2>5, <2>6, <1>3, <1>10, AddDrawAdds
    <3>. QED
      BY <3>1, <3>3, <2>3, <1>3
  <2>8. Inks(d, R, there, num) /\ d.type # "layer"
    BY <2>2, <2>7, <1>5, <1>9, ShapeInks
  <2>9. AddsDraw(id, z, other, d, R)
    <3>1. IsLast(d.clip, Stack(y)) /\ d.clip \in Nat
      BY <2>7 DEF Prepared, Draws
    <3>. QED
      BY <3>1, <2>7, <2>8, <1>3 DEF AddsDraw
  <2>10. PICK new : new = [layers EXCEPT ![id] = z]
    OBVIOUS
  <2>11. IsDrawnFrame(id, z, other)
    BY <1>2, <2>9, FrameIsDrawn
  <2>12. /\ LastShowsMore(layerStack, new, other, R, there, <<num>>)
         /\ \A p \in Surface : Gets(layerStack, new, other, there, 1, p) <=> p \in there /\ p \in clip
    BY <1>2, <1>3, <1>8, <2>8, <2>9, <2>10, DrawnShows
  <2>13. PICK Q : Q = Regrown(layerStack, new, other, R, there, <<num>>)
    OBVIOUS
  <2>14. Pictures(new, other, Q)
    <3>1. IsFrame(layerStack, new, other, msaa)
      BY <2>10, <2>11 DEF IsDrawnFrame
    <3>. QED
      BY <3>1, <2>12, <2>13, StackGrows
  <2>15. ASSUME NEW p \in Surface PROVE Q[1][p] = Reached(E, p)
    <3>1. 1 \in DOMAIN new /\ new[1].bounds = Surface
      <4>1. layerStack[1] = 1 /\ layers[1].bounds = Surface /\ 1 \in DOMAIN layerStack
        BY <1>1 DEF StateInv, OpenInv, StateTypes
      <4>2. 1 \in DOMAIN layers
        BY <4>1 DEF StateInv, StateTypes
      <4>. QED
        BY <4>1, <4>2, <2>10, <2>11 DEF IsDrawnFrame
    <3>2. Q[1][p] = R[1][p] \o IF Gets(layerStack, new, other, there, 1, p) THEN <<num>> ELSE <<>>
      BY <3>1, <2>13 DEF Regrown
    <3>. QED
      BY <3>2, <2>12, <1>3, <1>8, <1>9
  <2>16. DrawsOnly(id, z)
    <3>1. /\ z \in Layers /\ z.clips = y.clips /\ z.origin = y.origin
          /\ \A c \in DOMAIN draws : draws[c].type = "clip" => other[c].writes = draws[c].writes
      BY <2>7 DEF Adds
    <3>. QED
      BY <3>1, <2>4, <1>3 DEF DrawsOnly
  <2>17. LevelsAreKept(n, id, z, J, K)
    BY <2>16, <1>2, DrawsOnlyKeeps
  <2>18. \E W : Pictures([layers EXCEPT ![id] = z], other, W) /\ \A p \in Surface : W[1][p] = Reached(E, p)
    BY <2>10, <2>14, <2>15
  <2>19. DrawnCall(n, id, z, other, J, K)
    BY <2>4, <2>11, <2>17, <2>18, <1>1, <1>9 DEF DrawnCall
  <2>. QED
    BY <2>19, <1>2, DrawnCallKeeps
<1>. QED
  BY <1>11, <1>12

\* What the canvas asks for is where the layer draws it.
LEMMA AskedIsInLayer ==
  ASSUME StateInv, layerStack # <<>>
  PROVE  \A pixels : Moved(pixels, Asked.matrix) = InLayer(pixels)
<1>1. PICK n, id, J, K, base : AtTop(n, id, J, K, base)
  BY TopIs
<1>2. Asked.matrix = TotalMatrix /\ \A pixels : InLayer(pixels) = Moved(pixels, TotalMatrix)
  BY <1>1, TopAgrees
<1>. QED
  BY <1>2

\* The draws of shapes and paths keep the invariant.
LEMMA DrawStepKeeps ==
  ASSUME StateInv, ShownIsAsked, NEW kind \in DrawKinds, NEW shape \in DrawShapes, Draw(kind, shape)
  PROVE  StateInv' /\ ShownIsAsked'
<1>1. kind.type \in {"shape", "path"} /\ kind.dst \in BOOLEAN /\ shape \in SUBSET Int /\ IsFiniteSet(shape)
  BY CanvasAssumption
<1>2. shape \subseteq Bounds(shape) /\ Bounds(shape) \in SUBSET Int
  BY <1>1, BoundsAre
<1>3. /\ Call /\ UNCHANGED <<canvasVars, layerStack, saved>>
      /\ DrawShape(kind, shape, Bounds(shape)) /\ AskedDraw(Moved(shape, Asked.matrix), FALSE)
  BY DEF Draw
<1>4. Moved(shape, Asked.matrix) = InLayer(shape) /\ Asked.matrix \in Int
  <2>1. layerStack # <<>>
    BY <1>3, CallIs
  <2>2. PICK n, id, J, K, base : AtTop(n, id, J, K, base)
    BY <2>1, TopIs
  <2>. QED
    BY <2>1, <2>2, AskedIsInLayer, TopAgrees
<1>5. PICK asked : asked = Moved(shape, Asked.matrix)
  OBVIOUS
<1>6. asked \in SUBSET Int /\ asked = InLayer(shape) /\ AskedDraw(asked, FALSE)
  BY <1>1, <1>3, <1>4, <1>5, MovedIs
<1>7. AsksFor(Asked.clip, InLayer(shape) \cap Asked.clip)
  BY <1>6 DEF AsksFor, AskedDraw
<1>. QED
  BY <1>1, <1>2, <1>3, <1>7, DrawKeeps

\* DrawPaint keeps the invariant: it fills the clip, or is displaced.
LEMMA DrawPaintKeeps ==
  ASSUME StateInv, ShownIsAsked, DrawPaint
  PROVE  StateInv' /\ ShownIsAsked'
<1>1. PICK rect, kind, displaced, asked :
        /\ rect = Moved(CurrentLayer.bounds, - CurrentLayer.origin)
        /\ kind = [type |-> "path", dst |-> FALSE]
        /\ displaced = (CurrentMatrix # 0) /\ asked = Asked.clip
  OBVIOUS
<1>2. /\ Call /\ UNCHANGED <<canvasVars, layerStack, saved>>
      /\ DrawShape(kind, rect, rect) /\ AskedDraw(asked, displaced)
  BY <1>1 DEF DrawPaint
<1>3. PICK n, id, J, K, base : AtTop(n, id, J, K, base)
  BY <1>2, CallIs, TopIs
<1>4. PICK y, o : y = layers[id] /\ o = y.origin
  OBVIOUS
<1>5. y \in Layers /\ CurrentLayer = y
  BY <1>3, <1>4 DEF AtTop, CurrentLayer
<1>6. o \in Int /\ y.bounds \in SUBSET Int /\ rect = Moved(y.bounds, - o)
  BY <1>1, <1>4, <1>5, LayerTypes
<1>7. /\ TotalMatrix = o + CurrentMatrix /\ TotalMatrix \in Int
      /\ asked \subseteq y.bounds
      /\ InLayer(rect) = Moved(rect, TotalMatrix)
  BY <1>1, <1>3, <1>4, <1>5, TopAgrees
<1>8. PICK t : t = - o
  OBVIOUS
<1>9. t \in Int /\ rect = Moved(y.bounds, t)
  BY <1>6, <1>8
<1>10. rect \in SUBSET Int /\ \A q \in Int : q \in rect <=> q - t \in y.bounds
  BY <1>6, <1>9, MovedIs
<1>11. ASSUME CurrentMatrix = 0 PROVE InLayer(rect) \cap asked = asked
  <2>1. TotalMatrix = o
    BY <1>6, <1>7, <1>11
  <2>2. \A q \in Int : q \in Moved(rect, o) <=> q - o \in rect
    BY <1>6, <1>10, MovedIs
  <2>3. ASSUME NEW q \in asked PROVE q \in Moved(rect, o)
    <3>1. q \in Int /\ q \in y.bounds
      BY <2>3, <1>6, <1>7
    <3>2. q - o \in Int /\ (q - o) - t = q
      BY <3>1, <1>6, <1>8
    <3>3. q - o \in rect
      BY <3>1, <3>2, <1>10
    <3>. QED
      BY <3>1, <3>3, <2>2
  <2>. QED
    BY <2>1, <2>3, <1>7
<1>12. kind.type \in {"shape", "path"} /\ kind.dst \in BOOLEAN /\ asked \in SUBSET Int
  BY <1>1, <1>6, <1>7
<1>13. AsksFor(Asked.clip, InLayer(rect) \cap Asked.clip)
  <2>1. displaced \in BOOLEAN
    BY <1>1
  <2>2. ~ displaced => CurrentMatrix = 0
    BY <1>1
  <2>3. ~ displaced => InLayer(rect) \cap asked = asked \cap asked
    BY <2>2, <1>11
  <2>4. AsksFor(asked, InLayer(rect) \cap asked)
    BY <2>1, <2>3, <1>1, <1>2, <1>12 DEF AsksFor, AskedDraw
  <2>. QED
    BY <2>4, <1>1
<1>. QED
  BY <1>2, <1>10, <1>12, <1>13, DrawKeeps

-----------------------------------------------------------------------------
(* SaveLayer                                                               *)

\* No layer is larger than a texture.
LayersFit == \A s \in Scenes : \A bounds \in s.layers : Cardinality(bounds) <= MaxTextureSize

LayerFits(id, gen, pixels) ==
    /\ pixels \in SUBSET Int /\ gen \in SUBSET Int /\ IsFiniteSet(gen) /\ gen \subseteq pixels
    /\ pixels \cap CurrentClipBounds(layers[id]) \subseteq gen
    /\ pixels \cap CurrentClipBounds(layers[id]) \cap layers[id].bounds # {}

\* The layer that is made has room for all that the clip lets through.
LEMMA GenFits ==
  ASSUME StateInv, NEW n, NEW id, NEW J, NEW K, NEW base, AtTop(n, id, J, K, base), LayersFit,
         NEW bounds \in scene.layers, NEW filtered \in BOOLEAN, ~ QuickReject(bounds)
  PROVE  /\ LayerFits(id, GenLayer(bounds, filtered), Moved(bounds, TotalMatrix))
         /\ CanGenLayer(bounds, filtered)
<1>1. PICK T : T = TotalMatrix
  OBVIOUS
<1>2. PICK M : M = Moved(bounds, T)
  OBVIOUS
<1>3. PICK top : top = CurrentClipBounds(layers[id])
  OBVIOUS
<1>4. PICK gen : gen = IF filtered THEN M ELSE M \cap top
  OBVIOUS
<1>5. T \in Int /\ InLayer(bounds) = M /\ CurrentLayer = layers[id]
  BY <1>1, <1>2, TopAgrees DEF CurrentLayer, AtTop
<1>6. GenLayer(bounds, filtered) = gen
  BY <1>3, <1>4, <1>5 DEF GenLayer
<1>7. bounds \in SUBSET Int /\ IsFiniteSet(bounds) /\ Cardinality(bounds) <= MaxTextureSize
  <2>1. scene \in Scenes
    BY DEF StateInv, StateTypes
  <2>. QED
    BY <2>1, CanvasAssumption DEF LayersFit
<1>8. M \in SUBSET Int /\ IsFiniteSet(M) /\ Cardinality(M) = Cardinality(bounds)
  BY <1>2, <1>5, <1>7, MovedIs
<1>9. gen \subseteq M /\ M \cap top \subseteq gen
  BY <1>4
<1>10. IsFiniteSet(gen) /\ Cardinality(gen) \in Nat /\ Cardinality(M) \in Nat
       /\ Cardinality(gen) <= Cardinality(M)
  BY <1>8, <1>9, FS_Subset, FS_CardinalityType
<1>11. PICK p : p \in M /\ p \in Last(globalClips)
  BY <1>1, <1>2 DEF QuickReject
<1>12. p \in top /\ p \in layers[id].bounds
  BY <1>11, <1>3, TopAgrees
<1>13. p \in gen /\ Cardinality(gen) # 0
  BY <1>9, <1>10, <1>11, <1>12, FS_EmptySet
<1>14. Cardinality(gen) \in 1 .. MaxTextureSize
  BY <1>10, <1>13, <1>7, <1>8, CanvasAssumption
<1>15. LayerFits(id, gen, M)
  BY <1>3, <1>8, <1>9, <1>10, <1>11, <1>12 DEF LayerFits
<1>. QED
  BY <1>1, <1>2, <1>6, <1>14, <1>15 DEF CanGenLayer

\* The parts of the draw of a layer.
LEMMA LayerDrawIs ==
  ASSUME NEW dst \in BOOLEAN, NEW m \in Nat
  PROVE  LET draw == [NewDraw EXCEPT !.type = "layer", !.dst = dst, !.child = m]
         IN  draw \in Draws /\ draw.type = "layer" /\ draw.child = m
<1>1. NewDraw \in Draws
  BY NewDrawIs
<1>. QED
  BY <1>1 DEF Draws

\* The boxes and the textures when a layer joins those that are there.
BoxesWith(m, gen) == [l \in 1 .. m |-> IF l = m THEN gen ELSE layers[l].bounds]
TexturesWith(m, gen, R) == [l \in 1 .. m |-> IF l = m THEN [p \in gen |-> <<>>] ELSE R[l]]

\* The current layer gets the draw of the new one.
LayerJoins(id, z, other, m, gen, box, d, Q) ==
    /\ Adds(layers[id], draws, z, other, id, box, msaa, d, Q)
    /\ Ends(z, other, d)
    /\ d.type = "layer" /\ d.child = m /\ d.scissor = CurrentClipBounds(layers[id])
    /\ IsLast(d.clip, Stack(layers[id])) /\ d.clip \in Nat

OldLayersStay(id, m, box, Q, R) ==
    /\ Colours(box, Q)
    /\ ShowAlike(layers[id], draws, box, layers[id], draws, Boxes(layers))
    /\ \A p : LayerShows(layers[id], draws, box, Q, p) = LayerShows(layers[id], draws, Boxes(layers), R, p)

\* The layers that are there keep their invariants and what they show.
LEMMA BoxesGrow ==
  ASSUME StateInv, NEW n, NEW id, NEW J, NEW K, NEW base, AtTop(n, id, J, K, base),
         NEW gen \in SUBSET Int, NEW m, m = Len(layers) + 1, NEW R, Pictures(layers, draws, R),
         NEW box, box = BoxesWith(m, gen), NEW Q, Q = TexturesWith(m, gen, R)
  PROVE  OldLayersStay(id, m, box, Q, R) /\ LayerInv(layers[id], draws, id, box, msaa)
<1>1. PICK y : y = layers[id]
  OBVIOUS
<1>2. y \in Layers /\ LayerInv(y, draws, id, Boxes(layers), msaa) /\ draws \in Seq(Draws)
      /\ layers \in Seq(Layers)
  BY <1>1, CurrentIs
<1>3. DOMAIN layers = 1 .. Len(layers) /\ Len(layers) \in Nat
  BY <1>2
<1>4. \A l \in DOMAIN layers : l \in 1 .. m /\ l # m
  BY <1>3
<1>5. DOMAIN box = 1 .. m /\ box[m] = gen /\ m \in 1 .. m
  BY <1>3 DEF BoxesWith
<1>6. \A l \in DOMAIN Boxes(layers) : l \in DOMAIN box /\ box[l] = Boxes(layers)[l]
  BY <1>4 DEF BoxesWith, Boxes
<1>7. LayerInv(y, draws, id, box, msaa) /\ ShowAlike(y, draws, box, y, draws, Boxes(layers))
  BY <1>2, <1>6, LayerStays
<1>8. \A l \in DOMAIN layers : Q[l] = R[l]
  BY <1>4 DEF TexturesWith
<1>9. Colours(box, Q)
  <2>1. ASSUME NEW l \in DOMAIN box, NEW p \in box[l] PROVE Q[l][p] \in Seq(Nat)
    <3>1. CASE l = m
      BY <3>1, <2>1, <1>5 DEF TexturesWith
    <3>2. CASE l # m
      <4>1. l \in DOMAIN layers
        BY <3>2, <1>3, <1>5
      <4>2. p \in layers[l].bounds
        BY <3>2, <1>5, <2>1 DEF BoxesWith
      <4>. QED
        BY <4>1, <4>2, <1>8 DEF Pictures
    <3>. QED
      BY <3>1, <3>2
  <2>. QED
    BY <2>1 DEF Colours
<1>10. ASSUME NEW p
       PROVE LayerShows(y, draws, box, Q, p) = LayerShows(y, draws, Boxes(layers), R, p)
  <2>1. SameChildren(y, draws, Boxes(layers), Q, R, p)
    <3>1. ASSUME NEW k \in DOMAIN y.passes, NEW i \in DOMAIN y.passes[k].ops
          PROVE SameChild(y, draws, Boxes(layers), Q, R, p, k, i)
      <4>1. draws[y.passes[k].ops[i]].type = "layer" => draws[y.passes[k].ops[i]].child \in DOMAIN Boxes(layers)
        BY <1>2 DEF LayerInv, NamesAreRight
      <4>2. DOMAIN Boxes(layers) = DOMAIN layers
        BY DEF Boxes
      <4>. QED
        BY <4>1, <4>2, <1>8 DEF SameChild
    <3>. QED
      BY <3>1 DEF SameChildren
  <2>2. LayerShows(y, draws, Boxes(layers), Q, p) = LayerShows(y, draws, Boxes(layers), R, p)
    BY <2>1, ShowsSameChildren
  <2>3. LayerShows(y, draws, box, Q, p) = LayerShows(y, draws, Boxes(layers), Q, p)
    BY <1>7 DEF ShowAlike
  <2>. QED
    BY <2>2, <2>3
<1>. QED
  BY <1>1, <1>7, <1>9, <1>10 DEF OldLayersStay

\* AddDraw adds it, as the last draw of the layer.
LEMMA LayerIsDrawn ==
  ASSUME StateInv, NEW n, NEW id, NEW J, NEW K, NEW base, AtTop(n, id, J, K, base),
         NEW gen, NEW pixels, LayerFits(id, gen, pixels), NEW dst \in BOOLEAN,
         NEW m, m = Len(layers) + 1, NEW R, Pictures(layers, draws, R),
         NEW box, box = BoxesWith(m, gen), NEW Q, Q = TexturesWith(m, gen, R),
         NEW draw, draw = [NewDraw EXCEPT !.type = "layer", !.dst = dst, !.child = m],
         NEW bounds, bounds = pixels \cap CurrentClipBounds(layers[id]),
         NEW r, r = AddDraw(id, draw, bounds)
  PROVE  \E d : LayerJoins(id, r.layer, r.draws, m, gen, box, d, Q)
<1>1. id \in DOMAIN layers /\ layers[id] \in Layers /\ draws \in Seq(Draws) /\ msaa \in BOOLEAN
      /\ layers \in Seq(Layers)
  BY DEF AtTop, StateInv, StateTypes
<1>2. gen \in SUBSET Int /\ bounds \in SUBSET Int /\ bounds \subseteq gen
      /\ bounds \cap layers[id].bounds # {} /\ gen \cap CurrentClipBounds(layers[id]) \subseteq bounds
  BY DEF LayerFits
<1>3. OldLayersStay(id, m, box, Q, R) /\ LayerInv(layers[id], draws, id, box, msaa)
  BY <1>2, BoxesGrow
<1>4. Colours(box, Q)
  BY <1>3 DEF OldLayersStay
<1>5. m \in Nat /\ m \in DOMAIN box /\ box[m] = gen /\ m > id
  <2>1. Len(layers) \in Nat /\ id \in 1 .. Len(layers)
    BY <1>1
  <2>. QED
    BY <2>1 DEF BoxesWith
<1>6. draw \in Draws /\ draw.type = "layer" /\ draw.child = m
  BY <1>5, LayerDrawIs
<1>7. AreaOf(box, draw) = gen
  BY <1>5, <1>6 DEF AreaOf
<1>8. CanDraw(layers[id], id, box, draw, bounds)
  BY <1>2, <1>5, <1>6, <1>7 DEF CanDraw
<1>9. \E d : /\ Prepared(d, layers[id], draw, bounds)
             /\ Adds(layers[id], draws, r.layer, r.draws, id, box, msaa, d, Q)
             /\ draw.type = "layer" /\ bounds \cap layers[id].bounds # {} => Ends(r.layer, r.draws, d)
  BY <1>1, <1>3, <1>4, <1>8, AddDrawAdds
<1>10. PICK d : /\ Prepared(d, layers[id], draw, bounds)
                /\ Adds(layers[id], draws, r.layer, r.draws, id, box, msaa, d, Q)
                /\ Ends(r.layer, r.draws, d)
  BY <1>2, <1>6, <1>9
<1>11. d.type = "layer" /\ d.child = m /\ d.scissor = CurrentClipBounds(layers[id])
       /\ IsLast(d.clip, Stack(layers[id])) /\ d \in Draws
  BY <1>6, <1>10 DEF Prepared
<1>12. d.clip \in Nat
  BY <1>11 DEF Draws
<1>. QED
  BY <1>10, <1>11, <1>12 DEF LayerJoins

\* The frame with the new layer on top of its stack.
IsOpened(id, z, other, m, new, child) ==
    /\ new \in Seq(Layers) /\ other \in Seq(Draws) /\ Len(new) = m /\ m \in DOMAIN new
    /\ new[id] = z /\ new[m] = child
    /\ \A l \in DOMAIN layers : l # m /\ l \in DOMAIN new /\ (l # id => new[l] = layers[l])
    /\ z.clips = layers[id].clips /\ z.origin = layers[id].origin /\ z.bounds = layers[id].bounds
    /\ \A c \in DOMAIN draws : draws[c].type = "clip" => other[c] = draws[c]

\* The layers with the current one replaced and a new one.
LEMMA LayersOpened ==
  ASSUME layers \in Seq(Layers), NEW id \in DOMAIN layers, NEW z \in Layers, NEW child \in Layers,
         NEW m, m = Len(layers) + 1, NEW new, new = Append([layers EXCEPT ![id] = z], child)
  PROVE  /\ new \in Seq(Layers) /\ Len(new) = m /\ m \in DOMAIN new /\ DOMAIN new = 1 .. m
         /\ new[id] = z /\ new[m] = child
         /\ \A l \in DOMAIN layers : l # m /\ l \in DOMAIN new /\ (l # id => new[l] = layers[l])
         /\ DOMAIN new \ DOMAIN layers = {m}
  OBVIOUS

IsNewFrame(new, id, z, T, gen) == new = Append([layers EXCEPT ![id] = z], NewLayer(T, gen))

\* That is a step that FrameStep and OpenStays are about.
LEMMA OpenedChanges ==
  ASSUME StateInv, NEW n, NEW id, NEW J, NEW K, NEW base, AtTop(n, id, J, K, base),
         NEW gen \in SUBSET Int, IsFiniteSet(gen), NEW T \in Int, NEW m, m = Len(layers) + 1,
         NEW box, box = BoxesWith(m, gen), NEW Q, NEW z, NEW other, NEW d,
         LayerJoins(id, z, other, m, gen, box, d, Q),
         NEW new, IsNewFrame(new, id, z, T, gen)
  PROVE  /\ IsOpened(id, z, other, m, new, NewLayer(T, gen))
         /\ Changes(layers, draws, new, other, id, msaa)
         /\ Boxes(new) = box /\ ClipNames(other)
<1>1. /\ layers \in Seq(Layers) /\ draws \in Seq(Draws) /\ ClipNames(draws)
      /\ id \in DOMAIN layers /\ FrameInv(layers, draws, msaa)
  BY DEF StateInv, StateTypes, AtTop
<1>2. PICK y, child : y = layers[id] /\ child = NewLayer(T, gen)
  OBVIOUS
<1>3. Adds(y, draws, z, other, id, box, msaa, d, Q) /\ d.type = "layer" /\ d.child = m
      /\ IsLast(d.clip, Stack(y)) /\ d.clip \in Nat
  BY <1>2 DEF LayerJoins
<1>4. /\ z \in Layers /\ other \in Seq(Draws) /\ DOMAIN draws \subseteq DOMAIN other
      /\ LayerInv(z, other, id, box, msaa)
      /\ z.origin = y.origin /\ z.bounds = y.bounds /\ z.clips = y.clips
      /\ Uses(z) \subseteq Uses(y) \cup (DOMAIN other \ DOMAIN draws)
      /\ \A c \in DOMAIN draws :
            /\ c \notin Uses(y) => other[c] = draws[c]
            /\ other[c].type = draws[c].type /\ other[c].child = draws[c].child /\ other[c].clip = draws[c].clip
            /\ draws[c].type = "clip" => other[c] = draws[c]
      /\ \A c \in DOMAIN other \ DOMAIN draws :
            /\ other[c].clip \in {0, d.clip}
            /\ other[c].type # "load" => other[c].type = d.type /\ other[c].child = d.child /\ c = Len(other)
  BY <1>3 DEF Adds
<1>5. /\ child \in Layers /\ child.bounds = gen /\ LayerInv(child, other, m, box, msaa) /\ Uses(child) = {0}
  BY <1>2, NewLayerIs
<1>6. /\ new \in Seq(Layers) /\ Len(new) = m /\ m \in DOMAIN new /\ DOMAIN new = 1 .. m
      /\ new[id] = z /\ new[m] = child
      /\ \A l \in DOMAIN layers : l # m /\ l \in DOMAIN new /\ (l # id => new[l] = layers[l])
      /\ DOMAIN new \ DOMAIN layers = {m}
  <2>1. new = Append([layers EXCEPT ![id] = z], child)
    BY <1>2 DEF IsNewFrame
  <2>. QED
    BY <2>1, <1>1, <1>2, <1>4, <1>5, LayersOpened
<1>7. Boxes(new) = box
  <2>1. ASSUME NEW l \in 1 .. m PROVE new[l].bounds = IF l = m THEN gen ELSE layers[l].bounds
    <3>1. CASE l = m
      BY <3>1, <1>5, <1>6
    <3>2. CASE l # m
      <4>1. l \in DOMAIN layers
        BY <3>2, <1>6
      <4>2. CASE l = id
        BY <4>2, <3>2, <1>2, <1>4, <1>6
      <4>3. CASE l # id
        BY <4>1, <4>3, <3>2, <1>6
      <4>. QED
        BY <4>2, <4>3
    <3>. QED
      BY <3>1, <3>2
  <2>. QED
    BY <2>1, <1>6, Zenon DEF Boxes, BoxesWith
<1>8. Changes(layers, draws, new, other, id, msaa)
  <2>1. \A l \in DOMAIN layers : l # id => new[l] = layers[l]
    BY <1>6
  <2>2. new[id].bounds = layers[id].bounds /\ LayerInv(new[id], other, id, Boxes(new), msaa)
        /\ Uses(new[id]) \subseteq Uses(layers[id]) \cup (DOMAIN other \ DOMAIN draws)
    BY <1>2, <1>4, <1>6, <1>7
  <2>3. \A l \in DOMAIN new \ DOMAIN layers :
          LayerInv(new[l], other, l, Boxes(new), msaa) /\ Uses(new[l]) \subseteq {0}
    BY <1>5, <1>6, <1>7
  <2>4. ASSUME NEW c \in DOMAIN other \ DOMAIN draws, other[c].type = "layer"
        PROVE  other[c].child \in DOMAIN new \ DOMAIN layers /\ c = Len(other)
    BY <2>4, <1>3, <1>4, <1>6
  <2>5. DOMAIN layers \subseteq DOMAIN new
    BY <1>6
  <2>6. \A c \in DOMAIN other \ DOMAIN draws : other[c].type = "layer" =>
           /\ other[c].child \in DOMAIN new \ DOMAIN layers
           /\ \A e \in DOMAIN other \ DOMAIN draws : other[e].type = "layer" => e = c
    BY <2>4
  <2>7. \A c \in DOMAIN draws : /\ c \notin Uses(layers[id]) => other[c] = draws[c]
                               /\ other[c].type = draws[c].type /\ other[c].child = draws[c].child
    BY <1>2, <1>4
  <2>8. layers \in Seq(Layers) /\ new \in Seq(Layers) /\ draws \in Seq(Draws) /\ other \in Seq(Draws)
        /\ id \in DOMAIN layers /\ DOMAIN draws \subseteq DOMAIN other
    BY <1>1, <1>4, <1>6
  <2>. QED
    BY <2>1, <2>2, <2>3, <2>5, <2>6, <2>7, <2>8, Zenon DEF Changes
<1>9. ClipNames(other)
  <2>1. d.clip = 0 \/ d.clip \in DOMAIN other
    <3>1. \A c \in Stack(y) : c \in DOMAIN draws
      BY <1>1, <1>2, StackedClips DEF StateInv
    <3>. QED
      BY <3>1, <1>3, <1>4 DEF IsLast
  <2>2. d.clip \in 0 .. Len(other)
    BY <2>1, <1>3, <1>4
  <2>3. 0 \in 0 .. Len(other)
    BY <1>4
  <2>4. \A c \in DOMAIN other \ DOMAIN draws : other[c].clip \in 0 .. Len(other)
    BY <2>2, <2>3, <1>4
  <2>. QED
    BY <2>4, <1>1, <1>4, ClipNamesStay
<1>10. IsOpened(id, z, other, m, new, child)
  BY <1>2, <1>4, <1>6 DEF IsOpened
<1>. QED
  BY <1>2, <1>7, <1>8, <1>9, <1>10

\* Every layer shows what it showed, and the new one nothing.
LEMMA OpenedShows ==
  ASSUME StateInv, NEW n, NEW id, NEW J, NEW K, NEW base, AtTop(n, id, J, K, base),
         NEW gen \in SUBSET Int, IsFiniteSet(gen), NEW T \in Int, NEW m, m = Len(layers) + 1,
         NEW box, box = BoxesWith(m, gen), NEW R, Pictures(layers, draws, R),
         NEW Q, Q = TexturesWith(m, gen, R), NEW z, NEW other, NEW d,
         LayerJoins(id, z, other, m, gen, box, d, Q), OldLayersStay(id, m, box, Q, R),
         NEW child, child = NewLayer(T, gen), NEW new, IsOpened(id, z, other, m, new, child),
         Changes(layers, draws, new, other, id, msaa), Boxes(new) = box
  PROVE  Pictures(new, other, Q)
<1>2. /\ layers \in Seq(Layers) /\ draws \in Seq(Draws) /\ id \in DOMAIN layers /\ FrameInv(layers, draws, msaa)
  BY DEF StateInv, StateTypes, AtTop
<1>3. DOMAIN layers = 1 .. Len(layers) /\ Len(layers) \in Nat
  BY <1>2
<1>4. DOMAIN new = 1 .. m /\ new[id] = z /\ z.bounds = layers[id].bounds /\ new[m] = child
      /\ \A l \in DOMAIN layers : l # m /\ l \in DOMAIN new /\ (l # id => new[l] = layers[l])
  BY DEF IsOpened
<1>5. FrameInv(new, other, msaa)
      /\ \A l \in DOMAIN layers : l # id => ShowAlike(new[l], other, Boxes(new), layers[l], draws, Boxes(layers))
  BY <1>2, FrameStep
<1>6. ASSUME NEW l \in DOMAIN layers, NEW p
      PROVE LayerShows(layers[l], draws, Boxes(layers), Q, p) = LayerShows(layers[l], draws, Boxes(layers), R, p)
  <2>1. PICK y : y = layers[l]
    OBVIOUS
  <2>2. NamesAreRight(y, draws, l, Boxes(layers))
    BY <1>2, <2>1 DEF FrameInv, LayerInv
  <2>3. ASSUME NEW k \in DOMAIN y.passes, NEW i \in DOMAIN y.passes[k].ops
        PROVE SameChild(y, draws, Boxes(layers), Q, R, p, k, i)
    <3>1. draws[y.passes[k].ops[i]].type = "layer" => draws[y.passes[k].ops[i]].child \in DOMAIN layers
      BY <2>2 DEF NamesAreRight, Boxes
    <3>2. \A c \in DOMAIN layers : c \in 1 .. m /\ c # m
      BY <1>3
    <3>3. \A c \in DOMAIN layers : Q[c] = R[c]
      BY <3>2 DEF TexturesWith
    <3>. QED
      BY <3>1, <3>3 DEF SameChild
  <2>4. SameChildren(y, draws, Boxes(layers), Q, R, p)
    BY <2>3 DEF SameChildren
  <2>. QED
    BY <2>1, <2>4, ShowsSameChildren
<1>7. ASSUME NEW l \in DOMAIN new, NEW p \in new[l].bounds
      PROVE Q[l][p] \in Seq(Nat) /\ Q[l][p] = LayerShows(new[l], other, Boxes(new), Q, p)
  <2>1. CASE l = m
    <3>1. new[l].bounds = gen /\ LayerShows(new[l], other, Boxes(new), Q, p) = <<>>
      <4>1. /\ child.bounds = gen /\ LayerInv(child, other, m, box, msaa)
            /\ \A S, q : LayerShows(child, other, box, S, q) = <<>>
        BY NewLayerIs
      <4>. QED
        BY <4>1, <2>1, <1>4
    <3>2. Q[l][p] = <<>>
      BY <2>1, <1>4, <1>7, <3>1 DEF TexturesWith
    <3>3. <<>> \in Seq(Nat)
      OBVIOUS
    <3>. QED
      BY <3>1, <3>2, <3>3
  <2>2. CASE l # m
    <3>1. l \in DOMAIN layers /\ Q[l] = R[l]
      BY <2>2, <1>3, <1>4 DEF TexturesWith
    <3>2. p \in layers[l].bounds
      BY <3>1, <1>4, <1>7
    <3>3. R[l][p] \in Seq(Nat) /\ R[l][p] = LayerShows(layers[l], draws, Boxes(layers), R, p)
      BY <3>1, <3>2 DEF Pictures
    <3>4. CASE l # id
      <4>1. LayerShows(new[l], other, Boxes(new), Q, p) = LayerShows(layers[l], draws, Boxes(layers), Q, p)
        BY <3>1, <3>4, <1>5 DEF ShowAlike
      <4>. QED
        BY <4>1, <3>1, <3>3, <1>6
    <3>5. CASE l = id
      <4>1. PICK y : y = layers[id]
        OBVIOUS
      <4>2. Adds(y, draws, z, other, id, box, msaa, d, Q) /\ d.type = "layer" /\ d.child = m
        BY <4>1 DEF LayerJoins
      <4>3. LayerShows(z, other, box, Q, p) = LayerShows(y, draws, box, Q, p) \o Inked(y, draws, box, d, Q, p)
        BY <4>2 DEF Adds
      <4>4. LayerShows(y, draws, box, Q, p) = R[l][p]
        BY <4>1, <3>3, <3>5 DEF OldLayersStay
      <4>5. Inked(y, draws, box, d, Q, p) = <<>>
        <5>1. AreaOf(box, d) = gen /\ Ink(d, p, Q) = Q[m][p]
          BY <4>2, <1>3 DEF AreaOf, Ink, BoxesWith
        <5>2. p \in gen => Q[m][p] = <<>>
          BY <1>3 DEF TexturesWith
        <5>. QED
          BY <5>1, <5>2 DEF Inked
      <4>6. PICK x : x = R[l][p]
        OBVIOUS
      <4>7. x \in Seq(Nat) /\ LayerShows(z, other, box, Q, p) = x \o <<>>
        BY <4>3, <4>4, <4>5, <4>6, <3>3
      <4>8. LayerShows(z, other, box, Q, p) = x
        BY <4>7
      <4>. QED
        BY <4>6, <4>7, <4>8, <3>1, <3>5, <1>4
    <3>. QED
      BY <3>4, <3>5
  <2>. QED
    BY <2>1, <2>2
<1>. QED
  BY <1>7 DEF Pictures

\* The stack with the new layer.
LEMMA StackLonger ==
  ASSUME NEW stack \in Seq(Nat), NEW m \in Nat, NEW n, n = Len(stack), NEW longer, longer = Append(stack, m)
  PROVE  /\ longer \in Seq(Nat) /\ Len(longer) = n + 1 /\ longer[n + 1] = m /\ DOMAIN longer = 1 .. n + 1
         /\ \A s \in 1 .. n : longer[s] = stack[s]
<1>1. OneLonger(Nat, longer, stack, m, n)
  BY SeqAppended
<1>. QED
  BY <1>1 DEF OneLonger

\* The stack is right: the layer below ends with the draw of the new one.
LEMMA OpenedStack ==
  ASSUME StateInv, NEW n, NEW id, NEW J, NEW K, NEW base, AtTop(n, id, J, K, base),
         NEW gen, NEW m, m = Len(layers) + 1, NEW box, NEW Q, NEW z, NEW other, NEW d,
         LayerJoins(id, z, other, m, gen, box, d, Q),
         NEW child, NEW new, IsOpened(id, z, other, m, new, child),
         Changes(layers, draws, new, other, id, msaa),
         NEW longer, longer = Append(layerStack, m)
  PROVE  OpenInv(longer, new, other) /\ longer \in Seq(Nat) /\ \A s \in DOMAIN longer : longer[s] \in DOMAIN new
<1>1. /\ layers \in Seq(Layers) /\ draws \in Seq(Draws) /\ layerStack \in Seq(Nat) /\ layerStack # <<>>
      /\ \A s \in DOMAIN layerStack : layerStack[s] \in DOMAIN layers
      /\ FrameInv(layers, draws, msaa) /\ OpenInv(layerStack, layers, draws)
  BY DEF StateInv, StateTypes, AtTop, IsBase
<1>2. n \in Nat \ {0} /\ n = Len(layerStack) /\ DOMAIN layerStack = 1 .. n /\ layerStack[n] = id
      /\ id \in DOMAIN layers /\ layers[id] \in Layers
  BY DEF AtTop
<1>3. OpenInv(layerStack, new, other)
  BY <1>1, <1>2, OpenStays
<1>4. DOMAIN layers = 1 .. Len(layers) /\ Len(layers) \in Nat /\ m \in Nat
  BY <1>1
<1>5. /\ longer \in Seq(Nat) /\ Len(longer) = n + 1 /\ longer[n + 1] = m /\ DOMAIN longer = 1 .. n + 1
      /\ \A s \in 1 .. n : longer[s] = layerStack[s]
  BY <1>1, <1>2, <1>4, StackLonger
<1>6. /\ m \in DOMAIN new /\ new[id] = z /\ z.clips = layers[id].clips
      /\ \A l \in DOMAIN layers : l \in DOMAIN new
      /\ \A c \in DOMAIN draws : draws[c].type = "clip" => other[c] = draws[c]
  BY DEF IsOpened
<1>7. \A s \in DOMAIN longer : s = n + 1 \/ s \in 1 .. n
  BY <1>2, <1>5
<1>8. \A s \in DOMAIN longer : longer[s] \in DOMAIN new
  BY <1>1, <1>2, <1>5, <1>6, <1>7
<1>9. ASSUME NEW s \in DOMAIN longer, NEW t \in DOMAIN longer, s < t PROVE longer[s] < longer[t]
  <2>1. s \in 1 .. n
    BY <1>2, <1>5, <1>9
  <2>2. CASE t = n + 1
    <3>1. layerStack[s] \in 1 .. Len(layers)
      BY <2>1, <1>1, <1>2, <1>4
    <3>2. PICK x : x = layerStack[s]
      OBVIOUS
    <3>3. x < m
      BY <3>1, <3>2, <1>4
    <3>. QED
      BY <3>2, <3>3, <2>1, <2>2, <1>5
  <2>3. CASE t # n + 1
    <3>1. t \in 1 .. n
      BY <2>3, <1>7
    <3>. QED
      BY <3>1, <2>1, <1>1, <1>2, <1>5, <1>9 DEF OpenInv
  <2>. QED
    BY <2>2, <2>3
<1>10. longer[1] = 1 /\ new[1].bounds = Surface
  <2>1. 1 \in 1 .. n
    BY <1>2
  <2>. QED
    BY <2>1, <1>1, <1>3, <1>5 DEF OpenInv
<1>11. EndsWith(z, other, m)
  <2>1. PICK y : y = layers[id]
    OBVIOUS
  <2>2. Adds(y, draws, z, other, id, box, msaa, d, Q) /\ Ends(z, other, d)
        /\ d.type = "layer" /\ d.child = m /\ d.scissor = CurrentClipBounds(y) /\ IsLast(d.clip, Stack(y))
    BY <2>1 DEF LayerJoins
  <2>3. z.pending = <<>> /\ z.clips = y.clips
    BY <2>2 DEF Adds
  <2>4. CurrentClipBounds(z) = CurrentClipBounds(y) /\ Stack(z) = Stack(y)
    BY <2>3 DEF CurrentClipBounds, Stack, StackTo
  <2>5. PICK calls : calls = Last(z.passes).ops
    OBVIOUS
  <2>6. calls # <<>> /\ Alike(other[Last(calls)], d)
    BY <2>2, <2>5 DEF Ends
  <2>. QED
    BY <2>2, <2>3, <2>4, <2>5, <2>6 DEF EndsWith, Alike
<1>12. ASSUME NEW s \in DOMAIN longer, s < Len(longer) PROVE EndsWith(new[longer[s]], other, longer[s + 1])
  <2>1. s \in 1 .. n /\ s + 1 \in DOMAIN longer
    BY <1>2, <1>5, <1>12
  <2>2. CASE s = n
    BY <2>1, <2>2, <1>2, <1>5, <1>6, <1>11
  <2>3. CASE s # n
    <3>1. s + 1 \in 1 .. n /\ s < Len(layerStack)
      BY <2>1, <2>3, <1>2
    <3>2. EndsWith(new[layerStack[s]], other, layerStack[s + 1])
      BY <3>1, <2>1, <1>2, <1>3 DEF OpenInv
    <3>. QED
      BY <3>1, <3>2, <2>1, <1>5
  <2>. QED
    BY <2>2, <2>3
<1>. QED
  BY <1>5, <1>8, <1>9, <1>10, <1>12 DEF OpenInv

\* A level of its own in a layer of its own.
OpensLevel(n, id, K, z, child, m, asked, clip, T) ==
    /\ layers' \in Seq(Layers) /\ layers'[id] = z /\ layers'[m] = child
    /\ z.clips = layers[id].clips /\ z.origin = layers[id].origin
    /\ \A l \in DOMAIN layers : l # id => layers'[l] = layers[l]
    /\ child.origin = T /\ child.clips \in Seq(Levels) /\ Len(child.clips) = 1 /\ StackTo(child, 1) = {}
    /\ child.clips[1].bounds \in SUBSET Int
    /\ layerStack' = Append(layerStack, m) /\ m \in Nat
    /\ \A c \in DOMAIN draws : draws[c].type = "clip" => draws'[c] = draws[c]
    /\ saveCount' = saveCount + 1
    /\ matrices' = Append(matrices, [world |-> T, elements |-> <<0>>])
    /\ globalClips' = Append(globalClips, clip)
    /\ saved' = Append(saved, [matrix |-> Asked.matrix, clip |-> asked, view |-> View])
    /\ asked \subseteq clip \cap Surface /\ clip \subseteq Surface /\ clip \subseteq child.clips[1].bounds
    /\ \A p \in Surface : p \in asked <=> p \in child.clips[1].bounds /\ p \in Asked.clip

\* Then the saves are right with the save of the new layer.
LEMMA LevelOpens ==
  ASSUME StateInv, NEW n, NEW id, NEW J, NEW K, NEW base, AtTop(n, id, J, K, base),
         NEW z, NEW child, NEW m, NEW asked, NEW clip, NEW T, T = TotalMatrix,
         OpensLevel(n, id, K, z, child, m, asked, clip, T)
  PROVE  SavesInv' /\ matrices' \in Seq(LayerStates) /\ saved' \in Seq(Saveds)
         /\ globalClips' \in Seq(SUBSET Surface)
<1>1. PICK y : y = layers[id]
  OBVIOUS
<1>2. /\ n \in Nat \ {0} /\ n = Len(layerStack) /\ DOMAIN layerStack = 1 .. n /\ layerStack[n] = id
      /\ J \in Nat \ {0} /\ J = Len(y.clips) /\ DOMAIN y.clips = 1 .. J
      /\ id \in DOMAIN layers
      /\ K \in Nat \ {0} /\ K = saveCount /\ K = Len(saved) /\ K = Len(globalClips)
      /\ n = Len(matrices) /\ IsBase(base) /\ K = base[n + 1]
  BY <1>1 DEF AtTop
<1>3. /\ StateTypes /\ FrameInv(layers, draws, msaa)
      /\ matrices \in Seq(LayerStates) /\ saved \in Seq(Saveds) /\ layerStack \in Seq(Nat)
      /\ globalClips \in Seq(SUBSET Surface) /\ layers \in Seq(Layers) /\ layerStack # <<>>
      /\ \A s \in DOMAIN layerStack : layerStack[s] \in DOMAIN layers
  BY <1>2 DEF StateInv, StateTypes, IsBase
<1>4. PICK new, state : /\ new = [matrix |-> Asked.matrix, clip |-> asked, view |-> View]
                        /\ state = [world |-> T, elements |-> <<0>>]
  OBVIOUS
<1>5. T \in Int /\ Asked.matrix = T
      /\ \A p \in Surface : p \in Asked.clip <=> InsideAll(y, draws, p) /\ Under(n, p)
  BY <1>1, TopAgrees
<1>6. View \in Views /\ ViewIs(View, n, J, K)
  BY ViewIsTop
<1>7. /\ layers'[id] = z /\ layers'[m] = child /\ z.clips = y.clips /\ z.origin = y.origin
      /\ \A l \in DOMAIN layers : l # id => layers'[l] = layers[l]
      /\ child.origin = T /\ child.clips \in Seq(Levels) /\ Len(child.clips) = 1 /\ StackTo(child, 1) = {}
      /\ layerStack' = Append(layerStack, m) /\ m \in Nat
      /\ \A c \in DOMAIN draws : draws[c].type = "clip" => draws'[c] = draws[c]
      /\ saveCount' = K + 1
      /\ matrices' = Append(matrices, state) /\ globalClips' = Append(globalClips, clip)
      /\ saved' = Append(saved, new)
      /\ asked \subseteq clip \cap Surface /\ clip \subseteq Surface /\ clip \subseteq child.clips[1].bounds
      /\ \A p \in Surface : p \in asked <=> p \in child.clips[1].bounds /\ p \in Asked.clip
  BY <1>1, <1>2, <1>4 DEF OpensLevel
<1>8. new \in Saveds /\ state \in LayerStates
  <2>1. new \in Saveds
    BY <1>4, <1>5, <1>6, <1>7, SurfaceIsInside DEF Saveds
  <2>2. state \in LayerStates
    BY <1>4, <1>5 DEF LayerStates
  <2>. QED
    BY <2>1, <2>2
<1>9. OneLonger(Saveds, saved', saved, new, K)
  BY <1>2, <1>3, <1>7, <1>8, SeqAppended
<1>10. OneLonger(SUBSET Surface, globalClips', globalClips, clip, K)
  <2>1. clip \in SUBSET Surface
    BY <1>7
  <2>. QED
    BY <2>1, <1>2, <1>3, <1>7, SeqAppended
<1>11. OneLonger(LayerStates, matrices', matrices, state, n)
  BY <1>2, <1>3, <1>7, <1>8, SeqAppended
<1>12. OneLonger(Nat, layerStack', layerStack, m, n)
  BY <1>2, <1>3, <1>7, SeqAppended
<1>13. PICK t \in Nat : t = n + 1
  BY <1>2
<1>14. /\ Len(saved') = K + 1 /\ Len(globalClips') = K + 1 /\ Len(matrices') = t /\ Len(layerStack') = t
       /\ saved'[K + 1] = new /\ globalClips'[K + 1] = clip /\ matrices'[t] = state /\ layerStack'[t] = m
       /\ \A i \in 1 .. K : saved'[i] = saved[i] /\ globalClips'[i] = globalClips[i]
       /\ \A r \in 1 .. n : matrices'[r] = matrices[r] /\ layerStack'[r] = layerStack[r]
       /\ layerStack' \in Seq(Nat)
  BY <1>9, <1>10, <1>11, <1>12, <1>13 DEF OneLonger
<1>15. DOMAIN layerStack' = 1 .. t
  BY <1>14
<1>16. MayKeep(t, 0)
  BY <1>2, <1>13 DEF MayKeep
<1>17. SameUpTo(t, 0, K)
  <2>1. \A r \in 1 .. t - 1 : r \in 1 .. n
    BY <1>2, <1>13
  <2>2. ASSUME NEW l \in DOMAIN layers PROVE layers'[l].clips = layers[l].clips /\ layers'[l].origin = layers[l].origin
    BY <1>1, <1>7
  <2>3. \A r \in 1 .. t - 1 :
         /\ layerStack'[r] = layerStack[r] /\ matrices'[r] = matrices[r]
         /\ layers'[layerStack[r]].clips = layers[layerStack[r]].clips
         /\ layers'[layerStack[r]].origin = layers[layerStack[r]].origin
    BY <2>1, <2>2, <1>2, <1>3, <1>14
  <2>4. \A c \in DOMAIN draws : draws[c].type = "clip" => draws'[c].writes = draws[c].writes
    BY <1>7
  <2>. QED
    BY <2>3, <2>4, <1>14 DEF SameUpTo
<1>18. UpTo(n, J, t, 0) /\ t \in 1 .. t /\ K \in 1 .. K /\ n \in 1 .. t
  <2>1. n \in 1 .. t - 1 /\ J \in 1 .. Len(layers[layerStack[n]].clips) /\ t \in 1 .. t /\ K \in 1 .. K
    BY <1>1, <1>2, <1>13
  <2>. QED
    BY <2>1, <1>13, <1>2 DEF UpTo
<1>19. /\ layerStack'[n] = id /\ layers'[id].clips = y.clips
       /\ \A p : Inside(z, draws', J, p) <=> Inside(y, draws, J, p)
       /\ \A p : Under(t, p)' <=> Under(t, p)
  <2>1. /\ \A s, j : UpTo(s, j, t, 0) =>
               /\ s \in DOMAIN layerStack /\ layerStack'[s] = layerStack[s]
               /\ layers'[layerStack[s]].clips[j] = layers[layerStack[s]].clips[j]
               /\ StackTo(layers'[layerStack[s]], j) = StackTo(layers[layerStack[s]], j)
               /\ \A p : Inside(layers'[layerStack[s]], draws', j, p)
                           <=> Inside(layers[layerStack[s]], draws, j, p)
        /\ \A s \in 1 .. t : \A p : Under(s, p)' <=> Under(s, p)
    BY <1>3, <1>16, <1>17, LevelsStay
  <2>2. \A p : Inside(layers'[layerStack[n]], draws', J, p) <=> Inside(layers[layerStack[n]], draws, J, p)
    BY <2>1, <1>18
  <2>. QED
    BY <2>1, <2>2, <1>1, <1>2, <1>7, <1>14, <1>18
<1>20. \A p : Under(t, p) <=> Under(n, p) /\ InsideAll(y, draws, p)
  <2>1. \A r : r \in 1 .. t - 1 <=> r \in 1 .. n - 1 \/ r = n
    BY <1>2, <1>13
  <2>2. layers[layerStack[n]] = y
    BY <1>1, <1>2
  <2>. QED
    BY <2>1, <2>2 DEF Under
<1>21. layers'[layerStack'[t]] = child /\ DOMAIN child.clips = 1 .. 1
  BY <1>7, <1>14
<1>22. ClipIs(t, 1, K + 1)'
  <2>1. \A p : Inside(child, draws', 1, p) <=> p \in child.clips[1].bounds
    BY <1>7 DEF Inside
  <2>2. \A p \in Surface : p \in asked <=> Inside(child, draws', 1, p) /\ Under(t, p)'
    BY <2>1, <1>5, <1>7, <1>19, <1>20
  <2>3. saved'[K + 1].matrix = T /\ saved'[K + 1].clip = asked
    BY <1>4, <1>5, <1>14
  <2>4. matrices'[t].world + matrices'[t].elements[1] = T
    <3>1. matrices'[t].world = T /\ matrices'[t].elements[1] = 0
      BY <1>4, <1>14
    <3>. QED
      BY <3>1, <1>5
  <2>. QED
    BY <2>2, <2>3, <2>4, <1>7, <1>14, <1>21 DEF ClipIs
<1>23. Undoes(t, 1, K + 1)'
  <2>1. PICK v : v = View
    OBVIOUS
  <2>2. ViewIs(v, n, J, K)'
    BY <2>1, <1>3, <1>6, <1>16, <1>17, <1>18, ViewStays
  <2>3. saved'[K + 1].view = v
    BY <2>1, <1>4, <1>14
  <2>4. (K + 1) - 1 = K /\ t - 1 = n
    BY <1>2, <1>13
  <2>5. Len(layers'[layerStack'[n]].clips) = J
    BY <1>2, <1>19
  <2>. QED
    BY <2>2, <2>3, <2>4, <2>5 DEF Undoes
<1>24. Becomes(base, t, 0, 1)
  <2>1. PICK b : b = base[t]
    OBVIOUS
  <2>2. b = K
    BY <2>1, <1>2, <1>13
  <2>3. b + 0 = K /\ b + 1 = K + 1
    BY <2>2, <1>2
  <2>4. \A j \in 0 + 1 .. 1 : LevelOK(t, j, base[t] + j)'
    <3>1. LevelOK(t, 1, b + 1)'
      BY <2>3, <1>22, <1>23 DEF LevelOK
    <3>2. \A j \in 0 + 1 .. 1 : j = 1
      OBVIOUS
    <3>. QED
      BY <3>1, <3>2, <2>1
  <2>5. SameUpTo(t, 0, base[t] + 0)
    BY <2>1, <2>3, <1>17
  <2>6. matrices'[t].world = child.origin /\ Len(matrices'[t].elements) = 1
    BY <1>4, <1>7, <1>14
  <2>7. saveCount' = base[t] + 1 /\ Len(saved') = saveCount' /\ Len(globalClips') = saveCount'
    BY <2>1, <2>3, <1>7, <1>14
  <2>8. DOMAIN child.clips = 1 .. 1 /\ Len(child.clips) = 1 /\ 1 \in Nat \ {0} /\ 0 <= 1
    BY <1>7, <1>21
  <2>. QED
    BY <2>4, <2>5, <2>6, <2>7, <2>8, <1>14, <1>15, <1>16, <1>21 DEF Becomes
<1>25. SavesInv'
  BY <1>2, <1>3, <1>24, SavesBecome
<1>26. matrices' \in Seq(LayerStates) /\ saved' \in Seq(Saveds) /\ globalClips' \in Seq(SUBSET Surface)
  BY <1>9, <1>10, <1>11 DEF OneLonger
<1>. QED
  BY <1>25, <1>26

\* What a SaveLayer does to the frame.
OpensFrame(id, z, other, m, gen, T) ==
    /\ layers' = Append([layers EXCEPT ![id] = z], NewLayer(T, gen))
    /\ draws' = other /\ layerStack' = Append(layerStack, m) /\ msaa' = msaa /\ log' = log

\* The frame and what it shows are kept by a new layer.
LEMMA FrameOpens ==
  ASSUME StateInv, ShownIsAsked, NEW n, NEW id, NEW J, NEW K, NEW base, AtTop(n, id, J, K, base),
         NEW gen, NEW pixels, LayerFits(id, gen, pixels), NEW dst \in BOOLEAN, NEW T \in Int,
         NEW m, m = Len(layers) + 1,
         NEW draw, draw = [NewDraw EXCEPT !.type = "layer", !.dst = dst, !.child = m],
         NEW bounds, bounds = pixels \cap CurrentClipBounds(layers[id]),
         NEW r, r = AddDraw(id, draw, bounds),
         OpensFrame(id, r.layer, r.draws, m, gen, T)
  PROVE  FrameKept /\ IsOpened(id, r.layer, draws', m, layers', NewLayer(T, gen))
<1>1. PICK R, D : /\ Pictures(layers, draws, R) /\ IsReach(D)
                  /\ layers # <<>> => \A p \in Surface : R[1][p] = Reached(D, p)
  BY DEF ShownIsAsked
<1>2. PICK box, Q : box = BoxesWith(m, gen) /\ Q = TexturesWith(m, gen, R)
  OBVIOUS
<1>3. PICK d : LayerJoins(id, r.layer, r.draws, m, gen, box, d, Q)
  BY <1>1, <1>2, LayerIsDrawn
<1>4. PICK z, other, child : z = r.layer /\ other = r.draws /\ child = NewLayer(T, gen)
  OBVIOUS
<1>5. PICK new : new = Append([layers EXCEPT ![id] = z], child)
  OBVIOUS
<1>6. gen \in SUBSET Int /\ IsFiniteSet(gen)
  BY DEF LayerFits
<1>7. LayerJoins(id, z, other, m, gen, box, d, Q)
  BY <1>3, <1>4
<1>8. IsNewFrame(new, id, z, T, gen)
  BY <1>4, <1>5 DEF IsNewFrame
<1>9. /\ IsOpened(id, z, other, m, new, NewLayer(T, gen)) /\ Changes(layers, draws, new, other, id, msaa)
      /\ Boxes(new) = box /\ ClipNames(other)
  BY <1>2, <1>6, <1>7, <1>8, OpenedChanges
<1>10. OldLayersStay(id, m, box, Q, R)
  BY <1>1, <1>2, <1>6, BoxesGrow
<1>11. IsOpened(id, z, other, m, new, child)
  BY <1>4, <1>9
<1>12. Pictures(new, other, Q)
  BY <1>1, <1>2, <1>4, <1>6, <1>7, <1>9, <1>10, <1>11, OpenedShows
<1>13. PICK longer : longer = Append(layerStack, m)
  OBVIOUS
<1>14. OpenInv(longer, new, other) /\ longer \in Seq(Nat) /\ \A s \in DOMAIN longer : longer[s] \in DOMAIN new
  BY <1>7, <1>9, <1>11, <1>13, OpenedStack
<1>15. FrameInv(new, other, msaa)
  BY <1>9, FrameStep DEF StateInv
<1>16. layers' = new /\ draws' = other /\ layerStack' = longer /\ msaa' = msaa /\ log' = log
  BY <1>4, <1>5, <1>13 DEF OpensFrame
<1>17. \A p \in Surface : Q[1][p] = Reached(D, p)
  <2>1. 1 \in DOMAIN layers /\ layers \in Seq(Layers)
    <3>1. layerStack # <<>> /\ 1 \in DOMAIN layerStack
      BY DEF AtTop
    <3>. QED
      BY <3>1 DEF StateInv, StateTypes, OpenInv
  <2>2. 1 \in 1 .. m /\ 1 # m /\ layers # <<>>
    BY <2>1
  <2>3. Q[1] = R[1]
    BY <2>2, <1>2 DEF TexturesWith
  <2>. QED
    BY <2>2, <2>3, <1>1
<1>18. ShownIsAsked'
  <2>1. IsReach(D)'
    BY <1>1, <1>16 DEF IsReach
  <2>2. Pictures(layers', draws', Q)
    BY <1>12, <1>16
  <2>. QED
    BY <2>1, <2>2, <1>17 DEF ShownIsAsked
<1>19. new \in Seq(Layers) /\ other \in Seq(Draws)
  BY <1>11 DEF IsOpened
<1>. QED
  BY <1>4, <1>9, <1>11, <1>14, <1>15, <1>16, <1>18, <1>19 DEF FrameKept

\* SaveLayer keeps the invariant.
LEMMA SaveLayerKeeps ==
  ASSUME StateInv, ShownIsAsked, LayersFit, NEW bounds \in scene.layers, NEW filtered \in BOOLEAN,
         NEW dst \in BOOLEAN, SaveLayer(bounds, filtered, dst)
  PROVE  StateInv' /\ ShownIsAsked'
<1>1. Call /\ CallTypes /\ layerStack # <<>> /\ msaa' = msaa
  BY CallIs DEF SaveLayer
<1>2. PICK n, id, J, K, base : AtTop(n, id, J, K, base)
  BY <1>1, TopIs
<1>3. PICK T : T = TotalMatrix
  OBVIOUS
<1>4. PICK pixels, gen : pixels = Moved(bounds, T) /\ gen = GenLayer(bounds, filtered)
  OBVIOUS
<1>5. LayerFits(id, gen, pixels) /\ CanGenLayer(bounds, filtered)
  <2>1. ~ QuickReject(bounds)
    BY DEF SaveLayer
  <2>. QED
    BY <2>1, <1>2, <1>3, <1>4, GenFits
<1>6. /\ T \in Int /\ Asked.matrix = T /\ CurrentLayer.origin + CurrentMatrix = T
      /\ InLayer(bounds) = pixels
      /\ Asked.clip \subseteq Last(globalClips) \cap Surface
      /\ Last(globalClips) \subseteq CurrentClipBounds(layers[id])
  BY <1>2, <1>3, <1>4, TopAgrees
<1>7. Current = id /\ CurrentLayer = layers[id]
  BY <1>2 DEF AtTop, CurrentLayer
<1>8. PICK m : m = Len(layers) + 1
  OBVIOUS
<1>9. PICK draw, box : /\ draw = [NewDraw EXCEPT !.type = "layer", !.dst = dst, !.child = m]
                       /\ box = pixels \cap CurrentClipBounds(layers[id])
  OBVIOUS
<1>10. PICK r : r = AddDraw(id, draw, box)
  OBVIOUS
<1>11. OnSaveLayer(bounds, filtered, dst)
  BY DEF SaveLayer
<1>12. /\ layers' = Append([layers EXCEPT ![id] = r.layer], NewLayer(T, gen))
       /\ draws' = r.draws /\ layerStack' = Append(layerStack, m)
  BY <1>4, <1>5, <1>6, <1>7, <1>8, <1>9, <1>10, <1>11 DEF OnSaveLayer
<1>13. OpensFrame(id, r.layer, r.draws, m, gen, T)
  BY <1>1, <1>12 DEF OpensFrame, SaveLayer
<1>14. FrameKept /\ IsOpened(id, r.layer, draws', m, layers', NewLayer(T, gen))
  BY <1>2, <1>5, <1>6, <1>8, <1>9, <1>10, <1>13, FrameOpens
<1>15. PICK z, child, asked, clip : /\ z = r.layer /\ child = NewLayer(T, gen)
                                    /\ asked = Asked.clip \cap pixels
                                    /\ clip = Last(globalClips) \cap pixels
  OBVIOUS
<1>16. /\ saveCount' = saveCount + 1
       /\ globalClips' = Append(globalClips, clip)
       /\ matrices' = Append(matrices, [world |-> T, elements |-> <<0>>])
       /\ saved' = Append(saved, [matrix |-> Asked.matrix, clip |-> asked, view |-> View])
       /\ log' = log
  BY <1>3, <1>4, <1>6, <1>15 DEF SaveLayer, AskedSave
<1>17. /\ pixels \in SUBSET Int /\ gen \in SUBSET Int /\ IsFiniteSet(gen) /\ gen \subseteq pixels
       /\ pixels \cap CurrentClipBounds(layers[id]) \subseteq gen
  BY <1>5 DEF LayerFits
<1>18. /\ child \in Layers /\ child.origin = T /\ Len(child.clips) = 1 /\ child.clips[1].bounds = gen
       /\ StackTo(child, 1) = {}
  BY <1>6, <1>15, <1>17, NewLayerIs
<1>19. /\ asked \subseteq clip \cap Surface /\ clip \subseteq gen /\ clip \subseteq Surface
       /\ \A p \in Surface : p \in asked <=> p \in gen /\ p \in Asked.clip
  <2>1. Last(globalClips) \in SUBSET Surface
    BY <1>2, TopSaved
  <2>. QED
    BY <2>1, <1>6, <1>15, <1>17
<1>20. /\ layers' \in Seq(Layers) /\ layers'[id] = z /\ layers'[m] = child
       /\ z.clips = layers[id].clips /\ z.origin = layers[id].origin
       /\ \A l \in DOMAIN layers : l # id => layers'[l] = layers[l]
       /\ \A c \in DOMAIN draws : draws[c].type = "clip" => draws'[c] = draws[c]
  BY <1>14, <1>15 DEF IsOpened
<1>21. m \in Nat /\ child.clips \in Seq(Levels)
  <2>1. layers \in Seq(Layers)
    BY DEF StateInv, StateTypes
  <2>. QED
    BY <2>1, <1>8, <1>18, LayerTypes
<1>22. OpensLevel(n, id, K, z, child, m, asked, clip, T)
  BY <1>12, <1>16, <1>17, <1>18, <1>19, <1>20, <1>21 DEF OpensLevel
<1>23. SavesInv' /\ matrices' \in Seq(LayerStates) /\ saved' \in Seq(Saveds) /\ globalClips' \in Seq(SUBSET Surface)
  BY <1>2, <1>3, <1>22, LevelOpens
<1>24. saveCount' \in Nat \ {0} /\ log' \in Seq(Logs)
  BY <1>16 DEF StateInv, StateTypes
<1>. QED
  BY <1>1, <1>14, <1>23, <1>24, KeptIs

-----------------------------------------------------------------------------
(* The frames, and all steps                                               *)

\* A frame without draws reaches nothing.
LEMMA NothingIsReached ==
  ASSUME NEW D, D = <<>>
  PROVE  /\ log = <<>> => IsReach(D)
         /\ log' = <<>> => IsReach(D)'
         /\ \A p : Reached(D, p) = <<>>
<1>1. D \in Seq(SUBSET Int) /\ Len(D) = 0 /\ DOMAIN D = {}
  OBVIOUS
<1>2. (log = <<>> => IsReach(D)) /\ (log' = <<>> => IsReach(D)')
  BY <1>1 DEF IsReach
<1>3. ASSUME NEW p PROVE Reached(D, p) = <<>>
  <2>1. PICK places, none : places = {i \in DOMAIN D : p \in D[i]} /\ none = <<>>
    OBVIOUS
  <2>2. [i \in DOMAIN D |-> i] = none
    BY <1>1, <2>1
  <2>3. Reached(D, p) = Chosen(none, places)
    BY <2>1, <2>2 DEF Reached
  <2>4. none \in Seq(Nat) /\ DOMAIN none = {}
    BY <2>1
  <2>5. Chosen(none, places) \in Seq(Nat) /\ ToSet(Chosen(none, places)) = {none[i] : i \in DOMAIN none \cap places}
    BY <2>4, ChosenIs
  <2>. QED
    BY <2>3, <2>4, <2>5, NoMembers
<1>. QED
  BY <1>2, <1>3

\* Before a frame and between frames.
Idle ==
    /\ layerStack = <<>> /\ layers = <<>> /\ draws = <<>> /\ log = <<>>
    /\ saveCount = 1 /\ globalClips = <<Surface>> /\ matrices = InitialMatrices
    /\ saved \in Seq(Saveds) /\ Len(saved) = 1 /\ saved[1].matrix = 0 /\ saved[1].clip = Surface
    /\ msaa \in BOOLEAN /\ scene \in Scenes /\ ops \in 0 .. scene.ops /\ frames \in 0 .. scene.frames

\* The matrices a canvas starts with.
LEMMA InitialMatricesAre == InitialMatrices \in Seq(LayerStates)
  BY DEF InitialMatrices, LayerStates

\* A frame without layers is right.
LEMMA EmptyFrame ==
  ASSUME NEW loads
  PROVE  FrameInv(<<>>, <<>>, loads) /\ ClipNames(<<>>) /\ OpenInv(<<>>, <<>>, <<>>) /\ \A R : Pictures(<<>>, <<>>, R)
<1>1. DOMAIN <<>> = {}
  OBVIOUS
<1>. QED
  BY <1>1 DEF FrameInv, ClipNames, OpenInv, Pictures

\* Between frames the invariant holds.
LEMMA IdleIs ==
  ASSUME Idle
  PROVE  StateInv /\ ShownIsAsked
<1>1. FrameInv(layers, draws, msaa) /\ ClipNames(draws) /\ OpenInv(layerStack, layers, draws)
      /\ \A R : Pictures(layers, draws, R)
  BY EmptyFrame DEF Idle
<1>2. SavesInv
  BY DEF Idle, SavesInv
<1>3. StateTypes
  <2>1. Surface \in SUBSET Surface
    OBVIOUS
  <2>2. globalClips \in Seq(SUBSET Surface) /\ matrices \in Seq(LayerStates)
    BY <2>1, InitialMatricesAre DEF Idle
  <2>. QED
    BY <2>2 DEF Idle, StateTypes
<1>4. layers = <<>> /\ log = <<>>
  BY DEF Idle
<1>5. IsReach(<<>>)
  BY <1>4, NothingIsReached
<1>. QED
  BY <1>1, <1>2, <1>3, <1>4, <1>5 DEF StateInv, ShownIsAsked

\* The same for the next state.
LEMMA IdleNext ==
  ASSUME Idle'
  PROVE  StateInv' /\ ShownIsAsked'
<1>1. FrameInv(layers', draws', msaa') /\ ClipNames(draws') /\ OpenInv(layerStack', layers', draws')
      /\ \A R : Pictures(layers', draws', R)
  BY EmptyFrame DEF Idle
<1>2. SavesInv'
  BY DEF Idle, SavesInv
<1>3. StateTypes'
  <2>1. Surface \in SUBSET Surface
    OBVIOUS
  <2>2. globalClips' \in Seq(SUBSET Surface) /\ matrices' \in Seq(LayerStates)
    BY <2>1, InitialMatricesAre DEF Idle
  <2>. QED
    BY <2>2 DEF Idle, StateTypes
<1>4. layers' = <<>> /\ log' = <<>>
  BY DEF Idle
<1>5. IsReach(<<>>)'
  BY <1>4, NothingIsReached
<1>. QED
  BY <1>1, <1>2, <1>3, <1>4, <1>5 DEF StateInv, ShownIsAsked

\* It holds at the start.
LEMMA InitKeeps ==
  ASSUME Init
  PROVE  StateInv /\ ShownIsAsked
<1>1. Idle
  <2>1. PICK s : s = [matrix |-> 0, clip |-> Surface,
                      view |-> [matrix |-> 0, bounds |-> Surface, clip |-> 0, layer |-> 1]]
    OBVIOUS
  <2>2. s \in Saveds /\ s.matrix = 0 /\ s.clip = Surface
    BY <2>1, SurfaceIsInside DEF Saveds, Views
  <2>3. saved = <<s>>
    BY <2>1 DEF Init
  <2>4. 0 \in 0 .. scene.ops /\ 0 \in 0 .. scene.frames
    BY CanvasAssumption DEF Init
  <2>. QED
    BY <2>2, <2>3, <2>4 DEF Idle, Init
<1>. QED
  BY <1>1, IdleIs

\* Flush keeps the invariant when the frame has no open saves.
LEMMA FlushStepKeeps ==
  ASSUME StateInv, BalancedFrames, Flush
  PROVE  StateInv' /\ ShownIsAsked'
<1>1. layerStack # <<>> /\ saveCount = 1 /\ matrices = InitialMatrices /\ Asked.clip = Surface
  BY DEF Flush, Recording
<1>2. PICK n, id, J, K, base : AtTop(n, id, J, K, base)
  BY <1>1, TopIs
<1>3. K = 1 /\ Len(saved) = 1 /\ Asked = saved[1] /\ Last(globalClips) = globalClips[1] /\ Len(globalClips) = 1
  BY <1>1, <1>2 DEF AtTop
<1>4. TotalMatrix = 0
  <2>1. PICK e : e = <<0>>
    OBVIOUS
  <2>2. PICK r : r = [world |-> 0, elements |-> e]
    OBVIOUS
  <2>3. matrices = <<r>>
    BY <2>1, <2>2, <1>1 DEF InitialMatrices
  <2>4. Last(matrices) = r /\ Last(e) = 0
    BY <2>1, <2>3 DEF Last
  <2>. QED
    BY <2>2, <2>4 DEF TotalMatrix, CurrentMatrix
<1>5. saved[1].matrix = 0 /\ saved[1].clip = Surface /\ Surface \subseteq globalClips[1]
  BY <1>1, <1>2, <1>3, <1>4, TopAgrees
<1>6. globalClips = <<Surface>>
  <2>1. globalClips \in Seq(SUBSET Surface)
    BY DEF StateInv, StateTypes
  <2>2. globalClips[1] = Surface
    <3>1. 1 \in DOMAIN globalClips
      BY <2>1, <1>3
    <3>2. globalClips[1] \in SUBSET Surface
      BY <2>1, <3>1
    <3>. QED
      BY <3>2, <1>5
  <2>. QED
    BY <2>1, <2>2, <1>3
<1>7. Idle'
  BY <1>1, <1>3, <1>5, <1>6 DEF Idle, Flush, canvasVars, StateInv, StateTypes
<1>. QED
  BY <1>7, IdleNext

\* A frame with one empty layer is right and shows nothing.
LEMMA FirstFrame ==
  ASSUME NEW loads, NEW z, z = NewLayer(0, Surface), NEW stack, stack = << 1 >>
  PROVE  /\ z \in Layers /\ z.origin = 0 /\ z.bounds = Surface /\ Len(z.clips) = 1 /\ DOMAIN z.clips = 1 .. 1
         /\ z.clips[1].bounds = Surface /\ StackTo(z, 1) = {}
         /\ FrameInv(<<z>>, <<>>, loads) /\ ClipNames(<<>>) /\ OpenInv(stack, <<z>>, <<>>)
         /\ Pictures(<<z>>, <<>>, << [p \in Surface |-> <<>>] >>)
<1>1. Surface \in SUBSET Int /\ IsFiniteSet(Surface) /\ 0 \in Int
  BY SurfaceIsInside
<1>2. PICK ls, table, R : ls = <<z>> /\ table = <<>> /\ R = << [p \in Surface |-> <<>>] >>
  OBVIOUS
<1>3. DOMAIN ls = {1} /\ ls[1] = z /\ DOMAIN table = {}
  BY <1>2
<1>4. /\ z \in Layers /\ z.origin = 0 /\ z.bounds = Surface /\ Len(z.clips) = 1 /\ z.clips[1].bounds = Surface
      /\ LayerInv(z, table, 1, Boxes(ls), loads) /\ StackTo(z, 1) = {}
      /\ \A Q, p : LayerShows(z, table, Boxes(ls), Q, p) = <<>>
  BY <1>1, NewLayerIs
<1>5. DOMAIN z.clips = 1 .. 1
  BY <1>4, LayerTypes
<1>6. FrameInv(ls, table, loads)
  BY <1>3, <1>4 DEF FrameInv
<1>7. OpenInv(stack, ls, table)
  <2>1. DOMAIN stack = {1} /\ stack[1] = 1 /\ Len(stack) = 1 /\ ~ (1 < 1)
    OBVIOUS
  <2>. QED
    BY <2>1, <1>3, <1>4 DEF OpenInv
<1>8. Pictures(ls, table, R)
  <2>1. <<>> \in Seq(Nat) /\ \A p \in Surface : R[1][p] = <<>>
    BY <1>2
  <2>. QED
    BY <2>1, <1>3, <1>4 DEF Pictures
<1>9. ClipNames(table)
  BY <1>3 DEF ClipNames
<1>. QED
  BY <1>2, <1>4, <1>5, <1>6, <1>7, <1>8, <1>9

\* LockCanvas keeps the invariant.
LEMMA LockCanvasKeeps ==
  ASSUME StateInv, ShownIsAsked, LockCanvas
  PROVE  StateInv' /\ ShownIsAsked'
<1>1. /\ layerStack = <<>> /\ frames < scene.frames /\ frames' = frames + 1
      /\ layers' = <<NewLayer(0, Surface)>> /\ layerStack' = <<1>>
      /\ saveCount' = saveCount /\ globalClips' = globalClips /\ matrices' = matrices
      /\ saved' = saved /\ log' = log /\ draws' = draws /\ msaa' = msaa /\ scene' = scene /\ ops' = ops
  BY DEF LockCanvas, canvasVars, askedVars
<1>2. /\ saveCount = 1 /\ matrices = InitialMatrices
      /\ saved[1].matrix = 0 /\ saved[1].clip = Surface /\ globalClips = <<Surface>>
      /\ draws = <<>> /\ log = <<>> /\ Len(saved) = 1
  BY <1>1 DEF StateInv, SavesInv
<1>3. PICK z : z = NewLayer(0, Surface)
  OBVIOUS
<1>4. PICK stack : stack = <<1>>
  OBVIOUS
<1>5. layers' = <<z>> /\ layerStack' = stack /\ draws' = <<>> /\ layers'[1] = z /\ layerStack'[1] = 1
      /\ DOMAIN layerStack' = 1 .. 1 /\ Len(layerStack') = 1 /\ DOMAIN layers' = {1}
  BY <1>1, <1>2, <1>3, <1>4
<1>6. /\ z \in Layers /\ z.origin = 0 /\ z.bounds = Surface /\ Len(z.clips) = 1 /\ DOMAIN z.clips = 1 .. 1
      /\ z.clips[1].bounds = Surface /\ StackTo(z, 1) = {}
      /\ FrameInv(<<z>>, <<>>, msaa') /\ ClipNames(<<>>) /\ OpenInv(stack, <<z>>, <<>>)
      /\ Pictures(<<z>>, <<>>, << [p \in Surface |-> <<>>] >>)
  BY <1>3, <1>4, FirstFrame
<1>7. ShownIsAsked'
  <2>1. PICK R, D : R = << [p \in Surface |-> <<>>] >> /\ D = <<>>
    OBVIOUS
  <2>2. \A p \in Surface : R[1][p] = <<>>
    BY <2>1
  <2>3. IsReach(D)' /\ \A p : Reached(D, p) = <<>>
    BY <1>1, <1>2, <2>1, NothingIsReached
  <2>4. Pictures(layers', draws', R)
    BY <2>1, <1>5, <1>6
  <2>. QED
    BY <2>2, <2>3, <2>4 DEF ShownIsAsked
<1>8. FrameKept
  <2>1. layers' \in Seq(Layers) /\ draws' \in Seq(Draws) /\ layerStack' \in Seq(Nat)
    BY <1>1, <1>5, <1>6
  <2>2. \A s \in DOMAIN layerStack' : layerStack'[s] \in DOMAIN layers'
    BY <1>5
  <2>. QED
    BY <2>1, <2>2, <1>5, <1>6, <1>7 DEF FrameKept
<1>9. LevelOK(1, 1, 1)'
  <2>1. layers'[layerStack'[1]] = z
    BY <1>5
  <2>2. saved'[1].matrix = 0 /\ saved'[1].clip = Surface /\ globalClips'[1] = Surface
    BY <1>1, <1>2
  <2>3. matrices'[1].world = 0 /\ matrices'[1].elements[1] = 0
    BY <1>1, <1>2 DEF InitialMatrices
  <2>4. \A p : Inside(z, draws', 1, p) <=> p \in Surface
    BY <1>6 DEF Inside
  <2>5. \A p : Under(1, p)'
    <3>1. 1 .. 1 - 1 = {}
      OBVIOUS
    <3>. QED
      BY <3>1 DEF Under
  <2>6. saved'[1].matrix = matrices'[1].world + matrices'[1].elements[1]
    BY <2>2, <2>3
  <2>7. ClipIs(1, 1, 1)'
    BY <2>1, <2>2, <2>4, <2>5, <2>6, <1>6 DEF ClipIs
  <2>8. Undoes(1, 1, 1)'
    BY DEF Undoes
  <2>. QED
    BY <2>7, <2>8 DEF LevelOK
<1>10. SavesInv'
  <2>1. PICK base : base = [s \in 1 .. 2 |-> s - 1]
    OBVIOUS
  <2>2. base \in [1 .. 2 -> 0 .. 1] /\ base[1] = 0 /\ base[2] = 1
    BY <2>1
  <2>3. Saves(base)'
    <3>1. base[1] = 0 /\ base[Len(layerStack') + 1] = saveCount'
      BY <2>2, <1>1, <1>2, <1>5
    <3>2. ASSUME NEW s \in 1 .. Len(layerStack') + 1, NEW t \in 1 .. Len(layerStack') + 1, s < t
          PROVE base[s] < base[t]
      <4>1. s = 1 /\ t = 2
        BY <3>2, <1>5
      <4>. QED
        BY <4>1, <2>2
    <3>3. matrices'[1].world = z.origin /\ Len(matrices'[1].elements) = 1
      BY <1>1, <1>2, <1>6 DEF InitialMatrices
    <3>4. ASSUME NEW s \in DOMAIN layerStack'
          PROVE LET y == layers'[layerStack'[s]]
                IN  /\ base[s + 1] = base[s] + Len(y.clips)
                    /\ matrices'[s].world = y.origin
                    /\ Len(matrices'[s].elements) = Len(y.clips)
                    /\ \A j \in DOMAIN y.clips : LevelOK(s, j, base[s] + j)'
      <4>1. s = 1 /\ layers'[layerStack'[s]] = z
        BY <1>5
      <4>2. base[1 + 1] = base[1] + Len(z.clips)
        BY <2>2, <1>6
      <4>3. \A j \in DOMAIN z.clips : j = 1 /\ base[1] + j = 1
        BY <2>2, <1>6
      <4>. QED
        BY <4>1, <4>2, <4>3, <3>3, <1>6, <1>9
    <3>. QED
      BY <3>1, <3>2, <3>4 DEF Saves
  <2>4. Len(matrices') = Len(layerStack') /\ layerStack' # <<>>
    BY <1>1, <1>2, <1>5 DEF InitialMatrices
  <2>5. Len(saved') = saveCount' /\ Len(globalClips') = saveCount'
    BY <1>1, <1>2
  <2>6. base \in [1 .. Len(layerStack') + 1 -> 0 .. saveCount']
    BY <2>2, <1>1, <1>2, <1>5
  <2>. QED
    BY <2>3, <2>4, <2>5, <2>6 DEF SavesInv
<1>11. CallTypes
  <2>1. scene.frames \in Nat
    BY CanvasAssumption DEF StateInv, StateTypes
  <2>2. frames \in 0 .. scene.frames /\ ops \in 0 .. scene.ops /\ scene \in Scenes /\ msaa \in BOOLEAN
    BY DEF StateInv, StateTypes
  <2>. QED
    BY <2>1, <2>2, <1>1 DEF CallTypes
<1>12. /\ matrices' \in Seq(LayerStates) /\ saved' \in Seq(Saveds) /\ globalClips' \in Seq(SUBSET Surface)
       /\ saveCount' \in Nat \ {0} /\ log' \in Seq(Logs)
  BY <1>1 DEF StateInv, StateTypes
<1>. QED
  BY <1>8, <1>10, <1>11, <1>12, KeptIs

RecordedInv == StateInv /\ ShownIsAsked

\* A step that changes nothing keeps the invariant.
LEMMA StutterKeeps ==
  ASSUME RecordedInv, UNCHANGED vars
  PROVE  RecordedInv'
<1>1. /\ saveCount' = saveCount /\ globalClips' = globalClips /\ matrices' = matrices
      /\ layerStack' = layerStack /\ layers' = layers /\ draws' = draws /\ msaa' = msaa
      /\ saved' = saved /\ log' = log /\ scene' = scene /\ ops' = ops /\ frames' = frames
  BY DEF vars, canvasVars, layerVars, askedVars
<1>2. StateTypes' /\ FrameInv(layers', draws', msaa') /\ ClipNames(draws') /\ OpenInv(layerStack', layers', draws')
  BY <1>1 DEF RecordedInv, StateInv, StateTypes
<1>3. ShownIsAsked'
  BY <1>1 DEF RecordedInv, ShownIsAsked, IsReach
<1>4. \A s, p : Under(s, p)' <=> Under(s, p)
  BY <1>1 DEF Under
<1>5. \A s, j, k : LevelOK(s, j, k) => LevelOK(s, j, k)'
  BY <1>1, <1>4 DEF LevelOK, ClipIs, Undoes, ViewIs
<1>6. \A base : Saves(base) => Saves(base)'
  BY <1>1, <1>5 DEF Saves
<1>7. SavesInv'
  BY <1>1, <1>6 DEF SavesInv, RecordedInv, StateInv
<1>. QED
  BY <1>2, <1>3, <1>7 DEF RecordedInv, StateInv

\* Every call keeps the invariant.
LEMMA NextKeeps ==
  ASSUME BalancedFrames, LayersFit, RecordedInv, Next
  PROVE  RecordedInv'
<1>0. StateInv /\ ShownIsAsked /\ scene \in Scenes
  BY DEF RecordedInv, StateInv, StateTypes
<1>1. CASE Save
  BY <1>0, <1>1, SaveKeeps DEF RecordedInv
<1>2. CASE Restore
  BY <1>0, <1>2, RestoreKeeps DEF RecordedInv
<1>3. CASE DrawPaint
  BY <1>0, <1>3, DrawPaintKeeps DEF RecordedInv
<1>4. CASE LockCanvas
  BY <1>0, <1>4, LockCanvasKeeps DEF RecordedInv
<1>5. CASE Flush
  BY <1>0, <1>5, FlushStepKeeps DEF RecordedInv
<1>6. ASSUME NEW by \in scene.moves, Translate(by) PROVE RecordedInv'
  <2>1. by \in Int
    BY <1>0, CanvasAssumption
  <2>. QED
    BY <2>1, <1>0, <1>6, TranslateKeeps DEF RecordedInv
<1>7. ASSUME NEW rect \in scene.rects, ClipRect(rect) PROVE RecordedInv'
  <2>1. rect \in SUBSET Int
    BY <1>0, CanvasAssumption
  <2>. QED
    BY <2>1, <1>0, <1>7, ClipRectKeeps DEF RecordedInv
<1>8. ASSUME NEW shape \in ClipShapes, NEW difference \in BOOLEAN, ClipPath(shape, difference) PROVE RecordedInv'
  <2>1. shape \in SUBSET Int /\ IsFiniteSet(shape)
    BY CanvasAssumption
  <2>. QED
    BY <2>1, <1>0, <1>8, ClipPathKeeps DEF RecordedInv
<1>9. ASSUME NEW kind \in DrawKinds, NEW shape \in DrawShapes, Draw(kind, shape) PROVE RecordedInv'
  BY <1>0, <1>9, DrawStepKeeps DEF RecordedInv
<1>10. ASSUME NEW bounds \in scene.layers, SaveRejectedLayer(bounds) PROVE RecordedInv'
  BY <1>0, <1>10, SaveRejectedLayerKeeps DEF RecordedInv
<1>11. ASSUME NEW bounds \in scene.layers, NEW filtered \in BOOLEAN, NEW dst \in BOOLEAN,
              SaveLayer(bounds, filtered, dst)
       PROVE RecordedInv'
  BY <1>0, <1>11, SaveLayerKeeps DEF RecordedInv
<1>. QED
  BY <1>1, <1>2, <1>3, <1>4, <1>5, <1>6, <1>7, <1>8, <1>9, <1>10, <1>11 DEF Next

\* The recorded draws and passes, taken together, show what the calls asked for,
\* at every step of every frame.
THEOREM RecordingIsRight ==
  ASSUME BalancedFrames, LayersFit
  PROVE  Spec => []RecordedInv
<1>1. Init => RecordedInv
  BY InitKeeps DEF RecordedInv
<1>2. RecordedInv /\ [Next]_vars => RecordedInv'
  BY NextKeeps, StutterKeeps
<1>. QED
  BY <1>1, <1>2, PTL DEF Spec

\* The invariant has the types.
LEMMA InvTypes ==
  ASSUME RecordedInv
  PROVE  TypeOK
<1>1. StateTypes /\ FrameInv(layers, draws, msaa) /\ ClipNames(draws)
  BY DEF RecordedInv, StateInv
<1>2. \A i \in DOMAIN globalClips : globalClips[i] \subseteq Surface
  BY <1>1 DEF StateTypes
<1>3. \A i \in DOMAIN matrices : matrices[i].world \in Int /\ matrices[i].elements \in Seq(Int)
  <2>1. matrices \in Seq(LayerStates)
    BY <1>1 DEF StateTypes
  <2>2. \A i \in DOMAIN matrices : matrices[i] \in LayerStates
    BY <2>1
  <2>. QED
    BY <2>2 DEF LayerStates
<1>4. layerStack \in Seq(DOMAIN layers)
  <2>1. layerStack \in Seq(Nat) /\ \A s \in DOMAIN layerStack : layerStack[s] \in DOMAIN layers
    BY <1>1 DEF StateTypes
  <2>2. layerStack \in [1 .. Len(layerStack) -> DOMAIN layers] /\ Len(layerStack) \in Nat
    BY <2>1
  <2>. QED
    BY <2>2
<1>5. ASSUME NEW l \in DOMAIN layers
      PROVE  /\ layers[l].depth \in Nat
             /\ \A i \in DOMAIN layers[l].clips : layers[l].clips[i].bounds \subseteq layers[l].bounds
             /\ ToSet(layers[l].history) \subseteq DOMAIN draws
  <2>1. PICK y : y = layers[l]
    OBVIOUS
  <2>2. y \in Layers /\ LayerInv(y, draws, l, Boxes(layers), msaa)
    BY <1>1, <2>1 DEF StateTypes, FrameInv
  <2>3. y.depth \in Nat
    BY <2>2, LayerTypes
  <2>4. \A i \in DOMAIN y.clips : y.clips[i].bounds \subseteq y.bounds
    BY <2>2 DEF LayerInv, ClipsAreNested
  <2>5. ToSet(y.history) \subseteq DOMAIN draws
    BY <2>2 DEF LayerInv, NamesAreRight, ToSet
  <2>. QED
    BY <2>1, <2>3, <2>4, <2>5
<1>6. ASSUME NEW d \in DOMAIN draws
      PROVE  draws[d].type \in {"shape", "path", "clip", "layer", "load"} /\ draws[d].clip \in 0 .. Len(draws)
  <2>1. draws \in Seq(Draws)
    BY <1>1 DEF StateTypes
  <2>2. draws[d].type \in {"shape", "path", "clip", "layer", "load"}
    BY <2>1, DrawTypes
  <2>. QED
    BY <2>2, <1>1 DEF ClipNames
<1>. QED
  BY <1>1, <1>2, <1>3, <1>4, <1>5, <1>6 DEF TypeOK, StateTypes

\* The canvas, its layers and its draws have their types (HWCanvas, HWLayer).
THEOREM CanvasTypeCorrect ==
  ASSUME BalancedFrames, LayersFit
  PROVE  Spec => []TypeOK
<1>1. RecordedInv => TypeOK
  BY InvTypes
<1>. QED
  BY <1>1, RecordingIsRight, PTL

\* The saves are counted.
LEMMA SavedCounts ==
  ASSUME StateInv, StateInv'
  PROVE  Len(saved) = saveCount /\ Len(saved') = saveCount' /\ saveCount \in Nat
  BY DEF StateInv, SavesInv, StateTypes

\* HWCanvas::Restore brings back the matrix, the clip and the layer of its Save,
\* whatever was drawn, clipped and popped in between.
THEOREM RestoresUndo ==
  ASSUME BalancedFrames, LayersFit
  PROVE  Spec => RestoreUndoesSave
<1>1. ASSUME RecordedInv, RecordedInv', [Next]_vars
      PROVE  Len(saved') < Len(saved) => View' = Last(saved).view
  <2>1. StateInv /\ StateInv' /\ ShownIsAsked
    BY <1>1 DEF RecordedInv
  <2>2. CASE Restore
    BY <2>1, <2>2, RestoreKeeps
  <2>3. CASE ~ Restore
    <3>1. saveCount' \in {saveCount, saveCount + 1}
      <4>1. CASE UNCHANGED vars
        BY <4>1 DEF vars, canvasVars
      <4>2. CASE Next
        BY <4>2, <2>3 DEF Next, Save, DrawPaint, LockCanvas, Flush, Translate, ClipRect, ClipPath, Draw,
                          SaveRejectedLayer, SaveLayer, canvasVars
      <4>. QED
        BY <1>1, <4>1, <4>2
    <3>2. Len(saved) = saveCount /\ Len(saved') = saveCount' /\ saveCount \in Nat
      BY <2>1, SavedCounts
    <3>. QED
      BY <3>1, <3>2
  <2>. QED
    BY <2>2, <2>3
<1>2. RecordedInv /\ RecordedInv' /\ [Next]_vars => [Len(saved') < Len(saved) => View' = Last(saved).view]_vars
  BY <1>1
<1>. QED
  BY <1>2, RecordingIsRight, PTL DEF Spec, RestoreUndoesSave

-----------------------------------------------------------------------------
(* The attachments of a pass, draw by draw                                 *)

\* The attachments of a pass on the pixels of a layer.
Targets(B) == [color : [B -> Seq(Nat)], depth : [B -> Nat], resolved : [B -> Seq(Nat)],
               copy : [B -> Seq(Nat)]]

CanRun(d) == d \in Draws /\ (d.type = "layer" => d.child \in DOMAIN layers)

\* The pixels a draw covers are those of its area.
LEMMA CoveredIs ==
  ASSUME NEW d, CanRun(d)
  PROVE  Covered(d) = AreaOf(Boxes(layers), d)
<1>1. CASE d.type = "layer"
  BY <1>1 DEF Covered, AreaOf, Boxes, CanRun
<1>2. CASE d.type # "layer"
  BY <1>2 DEF Covered, AreaOf
<1>. QED
  BY <1>1, <1>2

IsClipRun(u, t, d, B) ==
    /\ u.color = t.color
    /\ \A p \in B : u.depth[p] = IF Hides(d, p) /\ d.depth > t.depth[p] THEN d.depth ELSE t.depth[p]
IsLoadRun(u, t, d, B) ==
    /\ u.depth = t.depth
    /\ \A p \in B : u.color[p] = IF p \in d.scissor /\ d.depth > t.depth[p] THEN t.resolved[p] ELSE t.color[p]
IsDrawRun(u, t, d, B, R) ==
    /\ u.depth = t.depth
    /\ \A p \in B : u.color[p] =
          IF p \in d.scissor /\ d.depth > t.depth[p] /\ p \in AreaOf(Boxes(layers), d)
          THEN (IF d.dst THEN t.copy[p] ELSE t.color[p]) \o Ink(d, p, R)
          ELSE t.color[p]
SameRest(u, t, B) == u \in Targets(B) /\ u.resolved = t.resolved /\ u.copy = t.copy

\* One draw of a pass changes the attachments like that.
LEMMA DrawOneIs ==
  ASSUME NEW B, NEW t \in Targets(B), NEW d, CanRun(d), NEW R, Colours(Boxes(layers), R)
  PROVE  LET u == DrawOne(t, d, R)
         IN  /\ SameRest(u, t, B)
             /\ d.type = "clip" => IsClipRun(u, t, d, B)
             /\ d.type = "load" => IsLoadRun(u, t, d, B)
             /\ d.type \notin {"clip", "load"} => IsDrawRun(u, t, d, B, R)
<1>. DEFINE live == {p \in d.scissor : d.depth > t.depth[p]}
            base == IF d.dst THEN t.copy ELSE t.color
            u == DrawOne(t, d, R)
<1>1. /\ t = [color |-> t.color, depth |-> t.depth, resolved |-> t.resolved, copy |-> t.copy]
      /\ t.color \in [B -> Seq(Nat)] /\ t.depth \in [B -> Nat]
      /\ t.resolved \in [B -> Seq(Nat)] /\ t.copy \in [B -> Seq(Nat)]
  BY DEF Targets
<1>2. d \in Draws /\ d.depth \in Nat /\ d.type \in {"shape", "path", "clip", "layer", "load"} /\ d.dst \in BOOLEAN
  BY DEF CanRun, Draws
<1>3. Covered(d) = AreaOf(Boxes(layers), d)
  BY CoveredIs
<1>4. \A p \in AreaOf(Boxes(layers), d) : Ink(d, p, R) \in Seq(Nat)
  <2>1. d.type = "layer" => d.child \in DOMAIN Boxes(layers)
    BY DEF CanRun, Boxes
  <2>. QED
    BY <2>1, <1>2, InkIs
<1>5. CASE d.type = "clip"
  <2>1. PICK depth : depth = [p \in B |-> IF p \in live \cap d.writes THEN d.depth ELSE t.depth[p]]
    OBVIOUS
  <2>2. u = [t EXCEPT !.depth = depth]
    BY <2>1, <1>1, <1>5 DEF DrawOne
  <2>3. depth \in [B -> Nat]
    BY <2>1, <1>1, <1>2
  <2>4. u = [color |-> t.color, depth |-> depth, resolved |-> t.resolved, copy |-> t.copy]
    BY <2>2, <1>1
  <2>5. SameRest(u, t, B) /\ u.color = t.color /\ u.depth = depth
    BY <2>3, <2>4, <1>1 DEF SameRest, Targets
  <2>6. \A p \in B : depth[p] = IF Hides(d, p) /\ d.depth > t.depth[p] THEN d.depth ELSE t.depth[p]
    BY <2>1, <1>5 DEF Hides
  <2>. QED
    BY <2>5, <2>6, <1>5 DEF IsClipRun
<1>6. CASE d.type = "load"
  <2>1. PICK color : color = [p \in B |-> IF p \in live THEN t.resolved[p] ELSE t.color[p]]
    OBVIOUS
  <2>2. u = [t EXCEPT !.color = color]
    BY <2>1, <1>1, <1>6 DEF DrawOne
  <2>3. color \in [B -> Seq(Nat)]
    BY <2>1, <1>1
  <2>4. u = [color |-> color, depth |-> t.depth, resolved |-> t.resolved, copy |-> t.copy]
    BY <2>2, <1>1
  <2>5. SameRest(u, t, B) /\ u.depth = t.depth /\ u.color = color
    BY <2>3, <2>4, <1>1 DEF SameRest, Targets
  <2>6. \A p \in B : color[p] = IF p \in d.scissor /\ d.depth > t.depth[p] THEN t.resolved[p] ELSE t.color[p]
    BY <2>1
  <2>. QED
    BY <2>5, <2>6, <1>6 DEF IsLoadRun
<1>7. CASE d.type \notin {"clip", "load"}
  <2>1. PICK color : color = [p \in B |-> IF p \in live \cap Covered(d) THEN base[p] \o Ink(d, p, R)
                                          ELSE t.color[p]]
    OBVIOUS
  <2>2. u = [t EXCEPT !.color = color]
    BY <2>1, <1>1, <1>7 DEF DrawOne
  <2>3. color \in [B -> Seq(Nat)]
    <3>1. ASSUME NEW p \in B, p \in Covered(d) PROVE base[p] \o Ink(d, p, R) \in Seq(Nat)
      <4>1. base[p] \in Seq(Nat) /\ Ink(d, p, R) \in Seq(Nat)
        BY <3>1, <1>1, <1>3, <1>4
      <4>. QED
        BY <4>1
    <3>. QED
      BY <2>1, <3>1, <1>1
  <2>4. u = [color |-> color, depth |-> t.depth, resolved |-> t.resolved, copy |-> t.copy]
    BY <2>2, <1>1
  <2>5. SameRest(u, t, B) /\ u.depth = t.depth /\ u.color = color
    BY <2>3, <2>4, <1>1 DEF SameRest, Targets
  <2>6. \A p \in B : color[p] =
          IF p \in d.scissor /\ d.depth > t.depth[p] /\ p \in AreaOf(Boxes(layers), d)
          THEN (IF d.dst THEN t.copy[p] ELSE t.color[p]) \o Ink(d, p, R)
          ELSE t.color[p]
    BY <2>1, <1>3
  <2>. QED
    BY <2>5, <2>6, <1>7 DEF IsDrawRun
<1>. QED
  BY <1>5, <1>6, <1>7

\* The attachments after each of the calls.
RunsTo(g, start, calls, table, R) ==
    g[0] = start /\ \A i \in 1 .. Len(calls) : g[i] = DrawOne(g[i - 1], table[calls[i]], R)

AllRun(calls, table) == calls \in Seq(Nat) /\ \A i \in 1 .. Len(calls) : CanRun(table[calls[i]])

\* Drawn is the last of the attachments after each of the calls.
LEMMA DrawnRuns ==
  ASSUME NEW B, NEW start \in Targets(B), NEW calls, NEW table, AllRun(calls, table),
         NEW R, Colours(Boxes(layers), R)
  PROVE  \E g \in [0 .. Len(calls) -> Targets(B)] :
            RunsTo(g, start, calls, table, R) /\ Drawn(start, calls, table, R) = g[Len(calls)]
<1>0. PICK n : n = Len(calls)
  OBVIOUS
<1>. DEFINE S == Targets(B)
            step == [q \in (1 .. n) \X S |-> DrawOne(q[2], table[calls[q[1]]], R)]
            Defines(g) == g = [i \in 0 .. n |-> IF i = 0 THEN start ELSE DrawOne(g[i - 1], table[calls[i]], R)]
            target == CHOOSE g : Defines(g)
<1>1. n \in Nat
  BY <1>0 DEF AllRun
<1>2. \A i \in 1 .. n, t \in S : DrawOne(t, table[calls[i]], R) \in S /\ step[<<i, t>>] = DrawOne(t, table[calls[i]], R)
  <2>1. ASSUME NEW i \in 1 .. n, NEW t \in S PROVE DrawOne(t, table[calls[i]], R) \in S
    <3>1. PICK d : d = table[calls[i]]
      OBVIOUS
    <3>2. CanRun(d)
      BY <3>1, <1>0 DEF AllRun
    <3>3. SameRest(DrawOne(t, d, R), t, B)
      BY <3>2, DrawOneIs
    <3>. QED
      BY <3>1, <3>3 DEF SameRest
  <2>. QED
    BY <2>1
<1>3. \A i \in 0 .. n : i # 0 => i \in 1 .. n /\ i - 1 \in 0 .. n
  BY <1>1
<1>. HIDE DEF step, S
<1>4. \A i \in 0 .. n, t \in S : i # 0 => step[<<i, t>>] \in S
  BY <1>2, <1>3
<1>5. start \in S
  BY DEF S
<1>6. PICK g \in [0 .. n -> S] : Recurs(g, 0, n, start, step)
  <2>1. 0 \in Int /\ n \in Int
    BY <1>1
  <2>. QED
    BY <2>1, <1>4, <1>5, RecursionDefines, Zenon
<1>7. Defines(g) /\ RunsTo(g, start, calls, table, R)
  <2>1. ASSUME NEW i \in 0 .. n, i # 0 PROVE g[i] = DrawOne(g[i - 1], table[calls[i]], R)
    BY <2>1, <1>2, <1>3, <1>6 DEF Recurs
  <2>2. g[0] = start
    <3>1. 0 \in 0 .. n
      BY <1>1
    <3>. QED
      BY <3>1, <1>6 DEF Recurs
  <2>3. Defines(g)
    BY <2>1, <2>2
  <2>4. \A i \in 1 .. n : i \in 0 .. n /\ i # 0
    BY <1>1
  <2>. QED
    BY <2>1, <2>2, <2>3, <2>4, <1>0 DEF RunsTo
<1>8. Defines(target)
  BY <1>7
<1>9. Drawn(start, calls, table, R) = target[n]
  BY <1>0 DEF Drawn
<1>. HIDE DEF target
<1>10. target[n] = g[n]
  <2>1. target[0] = g[0]
    <3>1. 0 \in 0 .. n
      BY <1>1
    <3>. QED
      BY <3>1, <1>7, <1>8
  <2>2. ASSUME NEW i \in 1 .. n, target[i - 1] = g[i - 1] PROVE target[i] = g[i]
    <3>1. i \in 0 .. n /\ i # 0
      BY <1>1
    <3>. QED
      BY <3>1, <2>2, <1>7, <1>8
  <2>3. \A i \in 0 .. n : target[i] = g[i]
    BY <2>1, <2>2, <1>1, StepsAgree, ZenonT(50)
  <2>. QED
    BY <2>3, <1>1
<1>. QED
  BY <1>0, <1>6, <1>7, <1>9, <1>10 DEF S

\* What is above the depth of a pixel: what no clip of a set hides.
DepthIs(t, E, table, p) ==
    \A x \in Nat \ {0} : x > t.depth[p] <=> \A c \in E : Hides(table[c], p) => table[c].depth < x

\* One more clip, one more that may hide the pixel.
LEMMA DepthNext ==
  ASSUME NEW B, NEW t \in Targets(B), NEW table, NEW c, CanRun(table[c]), NEW R, Colours(Boxes(layers), R),
         NEW p \in B, NEW E, DepthIs(t, E, table, p), NEW F, F = E \cup {c},
         NEW u, u = DrawOne(t, table[c], R)
  PROVE  DepthIs(u, F, table, p)
<1>1. PICK d : d = table[c]
  OBVIOUS
<1>2. d.depth \in Nat /\ t.depth[p] \in Nat
  BY <1>1 DEF CanRun, Draws, Targets
<1>3. CASE d.type = "clip"
  <2>1. u.depth[p] = IF Hides(d, p) /\ d.depth > t.depth[p] THEN d.depth ELSE t.depth[p]
    BY <1>1, <1>3, DrawOneIs DEF IsClipRun
  <2>2. ASSUME NEW x \in Nat \ {0}
        PROVE  x > u.depth[p] <=> \A e \in F : Hides(table[e], p) => table[e].depth < x
    <3>1. x > u.depth[p] <=> x > t.depth[p] /\ (Hides(d, p) => d.depth < x)
      BY <2>1, <1>2
    <3>2. x > t.depth[p] <=> \A e \in E : Hides(table[e], p) => table[e].depth < x
      BY DEF DepthIs
    <3>. QED
      BY <3>1, <3>2, <1>1
  <2>. QED
    BY <2>2 DEF DepthIs
<1>4. CASE d.type # "clip"
  <2>1. u.depth = t.depth
    BY <1>1, <1>4, DrawOneIs DEF IsLoadRun, IsDrawRun
  <2>2. ~ Hides(d, p)
    BY <1>4 DEF Hides
  <2>. QED
    BY <2>1, <2>2, <1>1 DEF DepthIs
<1>. QED
  BY <1>3, <1>4

KeepsRest(u, start, calls, i, table, B) ==
    /\ u.resolved = start.resolved /\ u.copy = start.copy
    /\ (\A j \in 1 .. Len(calls) : table[calls[j]].type = "clip") => u.color = start.color
    /\ \A p \in B : \A E : DepthIs(start, E, table, p) => DepthIs(u, E \cup {calls[j] : j \in 1 .. i}, table, p)

\* What draws of clips, and other draws, leave as it is.
LEMMA RunsKeep ==
  ASSUME NEW B, NEW start \in Targets(B), NEW calls, NEW table, AllRun(calls, table),
         NEW R, Colours(Boxes(layers), R), NEW g \in [0 .. Len(calls) -> Targets(B)],
         RunsTo(g, start, calls, table, R)
  PROVE  \A i \in 0 .. Len(calls) : KeepsRest(g[i], start, calls, i, table, B)
<1>0. PICK n : n = Len(calls)
  OBVIOUS
<1>. DEFINE I == {i \in Nat : i <= n => KeepsRest(g[i], start, calls, i, table, B)}
<1>1. n \in Nat
  BY <1>0 DEF AllRun
<1>2. 0 \in I
  <2>1. g[0] = start
    BY DEF RunsTo
  <2>2. \A E : E \cup {calls[j] : j \in 1 .. 0} = E
    OBVIOUS
  <2>3. KeepsRest(g[0], start, calls, 0, table, B)
    BY <2>1, <2>2 DEF KeepsRest
  <2>. QED
    BY <2>3
<1>3. ASSUME NEW i \in Nat, i \in I PROVE i + 1 \in I
  <2>. SUFFICES ASSUME i + 1 <= n PROVE KeepsRest(g[i + 1], start, calls, i + 1, table, B)
    OBVIOUS
  <2>1. PICK k : k = i + 1
    OBVIOUS
  <2>2. k \in 1 .. n /\ k - 1 = i /\ i \in 0 .. n /\ KeepsRest(g[i], start, calls, i, table, B)
    BY <2>1, <1>1, <1>3
  <2>3. PICK t, u, c : t = g[i] /\ u = g[k] /\ c = calls[k]
    OBVIOUS
  <2>4. t \in Targets(B) /\ CanRun(table[c]) /\ u = DrawOne(t, table[c], R)
    BY <2>2, <2>3, <1>0 DEF RunsTo, AllRun
  <2>5. /\ SameRest(u, t, B)
        /\ table[c].type = "clip" => IsClipRun(u, t, table[c], B)
    BY <2>4, DrawOneIs
  <2>6. /\ t.resolved = start.resolved /\ t.copy = start.copy
        /\ (\A j \in 1 .. n : table[calls[j]].type = "clip") => t.color = start.color
        /\ \A p \in B : \A E : DepthIs(start, E, table, p) => DepthIs(t, E \cup {calls[j] : j \in 1 .. i}, table, p)
    BY <2>2, <2>3, <1>0 DEF KeepsRest
  <2>7. u.resolved = start.resolved /\ u.copy = start.copy
    BY <2>5, <2>6 DEF SameRest
  <2>8. ASSUME \A j \in 1 .. n : table[calls[j]].type = "clip" PROVE u.color = start.color
    BY <2>8, <2>2, <2>3, <2>5, <2>6 DEF IsClipRun
  <2>9. ASSUME NEW p \in B, NEW E, DepthIs(start, E, table, p)
        PROVE  DepthIs(u, E \cup {calls[j] : j \in 1 .. k}, table, p)
    <3>1. PICK G, F : G = E \cup {calls[j] : j \in 1 .. i} /\ F = E \cup {calls[j] : j \in 1 .. k}
      OBVIOUS
    <3>2. F = G \cup {c}
      <4>1. \A j : j \in 1 .. k <=> j \in 1 .. i \/ j = k
        BY <2>1, <1>3
      <4>. QED
        BY <4>1, <3>1, <2>3
    <3>3. DepthIs(t, G, table, p)
      BY <3>1, <2>6, <2>9
    <3>4. DepthIs(u, F, table, p)
      BY <3>2, <3>3, <2>4, DepthNext
    <3>. QED
      BY <3>1, <3>4
  <2>. QED
    BY <2>1, <2>3, <2>7, <2>8, <2>9, <1>0 DEF KeepsRest
<1>4. \A i \in Nat : i \in I
  <2>. HIDE DEF I
  <2>. QED BY <1>2, <1>3, SetInduction
<1>. QED
  BY <1>0, <1>1, <1>4

RunsFor(g, start, calls, n, table, R) ==
    g[0] = start /\ \A i \in 1 .. n : g[i] = DrawOne(g[i - 1], table[calls[i]], R)

RunAlike(g, h, n) == \A i \in 0 .. n : g[i] = h[i]

\* The same calls leave the same.
LEMMA RunsSame ==
  ASSUME NEW start, NEW calls, NEW table, NEW R, NEW n \in Nat,
         NEW g, RunsFor(g, start, calls, n, table, R), NEW h, RunsFor(h, start, calls, n, table, R)
  PROVE  RunAlike(g, h, n)
<1>1. \A i \in 1 .. n : g[i - 1] = h[i - 1] => g[i] = h[i]
  BY DEF RunsFor
<1>2. g[0] = h[0]
  BY DEF RunsFor
<1>. QED
  BY <1>1, <1>2, StepsAgree DEF RunAlike

\* Calls in two parts, one after the other.
LEMMA DrawnConcat ==
  ASSUME NEW B, NEW start \in Targets(B), NEW a, NEW b, NEW table, AllRun(a, table), AllRun(b, table),
         NEW R, Colours(Boxes(layers), R)
  PROVE  /\ AllRun(a \o b, table)
         /\ Drawn(start, a \o b, table, R) = Drawn(Drawn(start, a, table, R), b, table, R)
         /\ Drawn(start, a, table, R) \in Targets(B)
<1>1. PICK ab, n, m : ab = a \o b /\ n = Len(a) /\ m = Len(b)
  OBVIOUS
<1>2. /\ a \in Seq(Nat) /\ b \in Seq(Nat) /\ n \in Nat /\ m \in Nat /\ ab \in Seq(Nat) /\ Len(ab) = n + m
      /\ \A i \in 1 .. n : ab[i] = a[i]
      /\ \A i \in 1 .. m : ab[n + i] = b[i]
  BY <1>1 DEF AllRun
<1>3. AllRun(ab, table)
  <2>1. ASSUME NEW i \in 1 .. Len(ab) PROVE CanRun(table[ab[i]])
    <3>1. CASE i \in 1 .. n
      BY <3>1, <1>1, <1>2 DEF AllRun
    <3>2. CASE i \notin 1 .. n
      <4>1. PICK j : j = i - n
        OBVIOUS
      <4>2. j \in 1 .. m /\ i = n + j
        BY <4>1, <3>2, <1>2
      <4>. QED
        BY <4>2, <1>1, <1>2 DEF AllRun
    <3>. QED
      BY <3>1, <3>2
  <2>. QED
    BY <2>1, <1>2 DEF AllRun
<1>4. PICK g \in [0 .. Len(ab) -> Targets(B)] :
         RunsTo(g, start, ab, table, R) /\ Drawn(start, ab, table, R) = g[Len(ab)]
  BY <1>3, DrawnRuns
<1>5. PICK f \in [0 .. Len(a) -> Targets(B)] :
         RunsTo(f, start, a, table, R) /\ Drawn(start, a, table, R) = f[Len(a)]
  BY DrawnRuns
<1>6. PICK mid : mid = f[n]
  OBVIOUS
<1>7. mid \in Targets(B) /\ Drawn(start, a, table, R) = mid
  BY <1>1, <1>2, <1>5, <1>6
<1>8. PICK h \in [0 .. Len(b) -> Targets(B)] :
         RunsTo(h, mid, b, table, R) /\ Drawn(mid, b, table, R) = h[Len(b)]
  BY <1>7, DrawnRuns
<1>9. \A i \in 0 .. n : g[i] = f[i]
  <2>1. ASSUME NEW i \in 1 .. n PROVE g[i] = DrawOne(g[i - 1], table[a[i]], R)
    <3>1. i \in 1 .. Len(ab)
      BY <1>2
    <3>. QED
      BY <3>1, <1>2, <1>4 DEF RunsTo
  <2>2. g[0] = start /\ f[0] = start /\ \A i \in 1 .. n : f[i] = DrawOne(f[i - 1], table[a[i]], R)
    BY <1>1, <1>4, <1>5 DEF RunsTo
  <2>3. RunsFor(g, start, a, n, table, R) /\ RunsFor(f, start, a, n, table, R)
    BY <2>1, <2>2 DEF RunsFor
  <2>4. RunAlike(g, f, n)
    BY <2>3, <1>2, RunsSame
  <2>. QED
    BY <2>4 DEF RunAlike
<1>10. PICK k : k = [i \in 0 .. m |-> g[n + i]]
  OBVIOUS
<1>11. \A i \in 0 .. m : k[i] = h[i]
  <2>1. k[0] = mid
    <3>1. 0 \in 0 .. m /\ n + 0 = n /\ n \in 0 .. n
      BY <1>2
    <3>. QED
      BY <3>1, <1>6, <1>9, <1>10
  <2>2. ASSUME NEW i \in 1 .. m PROVE k[i] = DrawOne(k[i - 1], table[b[i]], R)
    <3>1. i \in 0 .. m /\ i - 1 \in 0 .. m
      BY <1>2
    <3>2. k[i] = g[n + i] /\ k[i - 1] = g[n + (i - 1)]
      BY <3>1, <1>10
    <3>3. PICK e : e = n + i
      OBVIOUS
    <3>4. e \in 1 .. Len(ab) /\ e - 1 = n + (i - 1) /\ ab[e] = b[i]
      BY <3>3, <1>2
    <3>5. g[e] = DrawOne(g[e - 1], table[ab[e]], R)
      BY <3>4, <1>4 DEF RunsTo
    <3>. QED
      BY <3>2, <3>3, <3>4, <3>5
  <2>3. h[0] = mid /\ \A i \in 1 .. m : h[i] = DrawOne(h[i - 1], table[b[i]], R)
    BY <1>1, <1>8 DEF RunsTo
  <2>4. RunsFor(k, mid, b, m, table, R) /\ RunsFor(h, mid, b, m, table, R)
    BY <2>1, <2>2, <2>3 DEF RunsFor
  <2>5. RunAlike(k, h, m)
    BY <2>4, <1>2, RunsSame
  <2>. QED
    BY <2>5 DEF RunAlike
<1>12. Drawn(start, ab, table, R) = Drawn(mid, b, table, R)
  <2>1. m \in 0 .. m
    BY <1>2
  <2>. QED
    BY <2>1, <1>1, <1>2, <1>4, <1>8, <1>10, <1>11
<1>. QED
  BY <1>1, <1>3, <1>7, <1>12

-----------------------------------------------------------------------------
(* The depths of the clips                                                 *)

\* The draws FlushClipDepth gives depths are the clips of the stack.
LEMMA ClipDrawsAre ==
  ASSUME NEW y \in Layers
  PROVE  ClipDraws(y) \in Seq(Nat) /\ ToSet(ClipDraws(y)) = Stack(y)
<1>1. PICK n : n = Len(y.clips)
  OBVIOUS
<1>2. y.clips \in Seq(Levels) /\ n \in Nat /\ DOMAIN y.clips = 1 .. n
      /\ \A i \in 1 .. n : y.clips[i].draws \in Seq(Nat)
  BY <1>1, LayerTypes
<1>3. PICK ss : ss = [i \in DOMAIN y.clips |-> y.clips[i].draws]
  OBVIOUS
<1>4. ss \in Seq(Seq(Nat)) /\ Len(ss) = n /\ \A i \in 1 .. n : ss[i] \in Seq(Nat) /\ ss[i] = y.clips[i].draws
  <2>1. ss \in [1 .. n -> Seq(Nat)]
    BY <1>2, <1>3
  <2>2. ss \in Seq(Seq(Nat)) /\ Len(ss) = n
    BY <2>1, <1>2
  <2>. QED
    BY <2>2, <1>2, <1>3
<1>5. ClipDraws(y) = Joined(ss, n)
  BY <1>3, <1>4, FlattenIsJoined DEF ClipDraws
<1>6. Joined(ss, n) \in Seq(Nat)
  BY <1>2, <1>4, JoinedIs
<1>7. ToSet(Joined(ss, n)) = UNION {ToSet(ss[i]) : i \in 1 .. n}
  BY <1>2, <1>4, JoinedMembers
<1>8. UNION {ToSet(ss[i]) : i \in 1 .. n} = Stack(y)
  BY <1>1, <1>4 DEF Stack, StackTo
<1>. QED
  BY <1>5, <1>6, <1>7, <1>8

FlushedTo(g) ==
    /\ g[0] = draws
    /\ \A l \in 1 .. Len(layers) : g[l] = WithDepths(g[l - 1], layers[l].depth, ClipDraws(layers[l]))

\* FlushClipDepth goes through the layers.
LEMMA FlushedRuns ==
  ASSUME layers \in Seq(Layers), draws \in Seq(Draws)
  PROVE  \E g \in [0 .. Len(layers) -> Seq(Draws)] : FlushedTo(g) /\ FlushClipDepth = g[Len(layers)]
<1>0. PICK n : n = Len(layers)
  OBVIOUS
<1>. DEFINE S == Seq(Draws)
            After(table, l) == WithDepths(table, layers[l].depth, ClipDraws(layers[l]))
            step == [q \in (1 .. n) \X S |-> After(q[2], q[1])]
            Defines(g) == g = [l \in 0 .. n |-> IF l = 0 THEN draws ELSE After(g[l - 1], l)]
            table == CHOOSE g : Defines(g)
<1>1. n \in Nat
  BY <1>0
<1>2. \A l \in 1 .. n, t \in S : After(t, l) \in S /\ step[<<l, t>>] = After(t, l)
  <2>1. ASSUME NEW l \in 1 .. n, NEW t \in S PROVE After(t, l) \in S
    <3>1. PICK y : y = layers[l]
      OBVIOUS
    <3>2. y \in Layers
      BY <3>1, <1>0
    <3>3. y.depth \in Nat /\ ClipDraws(y) \in Seq(Nat)
      BY <3>2, LayerTypes, ClipDrawsAre
    <3>4. WithDepths(t, y.depth, ClipDraws(y)) \in Seq(Draws)
      BY <3>3, WithDepthsIs
    <3>. QED
      BY <3>1, <3>4
  <2>. QED
    BY <2>1
<1>3. \A l \in 0 .. n : l # 0 => l \in 1 .. n /\ l - 1 \in 0 .. n
  BY <1>1
<1>. HIDE DEF step, S
<1>4. \A l \in 0 .. n, t \in S : l # 0 => step[<<l, t>>] \in S
  BY <1>2, <1>3
<1>5. draws \in S
  BY DEF S
<1>6. PICK g \in [0 .. n -> S] : Recurs(g, 0, n, draws, step)
  <2>1. 0 \in Int /\ n \in Int
    BY <1>1
  <2>. QED
    BY <2>1, <1>4, <1>5, RecursionDefines, Zenon
<1>7. Defines(g) /\ FlushedTo(g)
  <2>1. ASSUME NEW l \in 0 .. n, l # 0 PROVE g[l] = After(g[l - 1], l)
    BY <2>1, <1>2, <1>3, <1>6 DEF Recurs
  <2>2. g[0] = draws
    <3>1. 0 \in 0 .. n
      BY <1>1
    <3>. QED
      BY <3>1, <1>6 DEF Recurs
  <2>3. Defines(g)
    BY <2>1, <2>2
  <2>4. \A l \in 1 .. n : l \in 0 .. n /\ l # 0
    BY <1>1
  <2>. QED
    BY <2>1, <2>2, <2>3, <2>4, <1>0 DEF FlushedTo
<1>8. Defines(table)
  BY <1>7
<1>9. FlushClipDepth = table[n]
  BY <1>0 DEF FlushClipDepth
<1>. HIDE DEF table
<1>10. table[n] = g[n]
  <2>1. table[0] = g[0]
    <3>1. 0 \in 0 .. n
      BY <1>1
    <3>. QED
      BY <3>1, <1>7, <1>8
  <2>2. ASSUME NEW l \in 1 .. n, table[l - 1] = g[l - 1] PROVE table[l] = g[l]
    <3>1. l \in 0 .. n /\ l # 0
      BY <1>1
    <3>. QED
      BY <3>1, <2>2, <1>7, <1>8
  <2>3. \A l \in 0 .. n : table[l] = g[l]
    BY <2>1, <2>2, <1>1, StepsAgree, ZenonT(50)
  <2>. QED
    BY <2>3, <1>1
<1>. QED
  BY <1>0, <1>6, <1>7, <1>9, <1>10 DEF S

\* The depths when the clips of the layers 1 to l are flushed.
FlushedBy(t, l) ==
    /\ t \in Seq(Draws) /\ DOMAIN t = DOMAIN draws
    /\ \A d \in DOMAIN draws : Alike(t[d], draws[d])
    /\ \A d \in DOMAIN draws : (\A m \in 1 .. l : d \notin Stack(layers[m])) => t[d] = draws[d]
    /\ \A m \in 1 .. l : \A d \in Stack(layers[m]) : t[d].depth > layers[m].depth

ApartStacks == /\ \A l \in DOMAIN layers : Stack(layers[l]) \subseteq DOMAIN draws
               /\ \A l, m \in DOMAIN layers : l # m => Stack(layers[l]) \cap Stack(layers[m]) = {}

\* One more layer has its clips flushed.
LEMMA FlushedNext ==
  ASSUME layers \in Seq(Layers), draws \in Seq(Draws), ApartStacks, NEW l \in Nat, NEW m, m = l + 1, m \in DOMAIN layers,
         NEW t, FlushedBy(t, l), NEW u, u = WithDepths(t, layers[m].depth, ClipDraws(layers[m]))
  PROVE  FlushedBy(u, m)
<1>1. PICK y : y = layers[m]
  OBVIOUS
<1>2. y \in Layers /\ y.depth \in Nat
  BY <1>1, LayerTypes
<1>3. ClipDraws(y) \in Seq(Nat) /\ ToSet(ClipDraws(y)) = Stack(y)
  BY <1>2, ClipDrawsAre
<1>4. t \in Seq(Draws) /\ DOMAIN t = DOMAIN draws
  BY DEF FlushedBy
<1>5. /\ u \in Seq(Draws) /\ DOMAIN u = DOMAIN t
      /\ \A d \in DOMAIN t : Alike(u[d], t[d])
      /\ \A d \in DOMAIN t : d \notin Stack(y) => u[d] = t[d]
      /\ \A d \in DOMAIN t : d \in Stack(y) => u[d].depth > y.depth
  BY <1>1, <1>2, <1>3, <1>4, WithDepthsIs
<1>6. \A d \in DOMAIN draws : Alike(u[d], draws[d])
  BY <1>4, <1>5 DEF FlushedBy, Alike
<1>7. ASSUME NEW d \in DOMAIN draws, \A k \in 1 .. m : d \notin Stack(layers[k]) PROVE u[d] = draws[d]
  <2>1. \A k \in 1 .. l : k \in 1 .. m
    OBVIOUS
  <2>2. m \in 1 .. m
    OBVIOUS
  <2>3. t[d] = draws[d]
    BY <2>1, <1>7 DEF FlushedBy
  <2>. QED
    BY <2>2, <2>3, <1>1, <1>4, <1>5, <1>7
<1>8. ASSUME NEW k \in 1 .. m, NEW d \in Stack(layers[k]) PROVE u[d].depth > layers[k].depth
  <2>1. k \in DOMAIN layers /\ d \in DOMAIN draws
    <3>1. k \in DOMAIN layers
      OBVIOUS
    <3>. QED
      BY <3>1 DEF ApartStacks
  <2>2. CASE k = m
    BY <2>1, <2>2, <1>1, <1>4, <1>5
  <2>3. CASE k # m
    <3>1. d \notin Stack(y) /\ k \in 1 .. l
      BY <2>1, <2>3, <1>1 DEF ApartStacks
    <3>2. t[d].depth > layers[k].depth
      BY <3>1 DEF FlushedBy
    <3>. QED
      BY <3>1, <3>2, <2>1, <1>4, <1>5
  <2>. QED
    BY <2>2, <2>3
<1>. QED
  BY <1>4, <1>5, <1>6, <1>7, <1>8 DEF FlushedBy

\* When a frame is rendered, a clip is as deep as a draw if it blocks it.
IsFlushed(T) ==
    /\ T \in Seq(Draws) /\ DOMAIN T = DOMAIN draws
    /\ \A d \in DOMAIN draws : /\ Alike(T[d], draws[d])
                               /\ draws[d].type # "clip" => T[d] = draws[d]
    /\ \A l \in DOMAIN layers : \A c \in ToSet(layers[l].history), x \in Nat :
          x <= layers[l].depth => (Blocks(layers[l], draws, c, x) <=> T[c].depth >= x)

\* After FlushClipDepth each clip is above the draws it is to hide, and no other.
LEMMA FlushedIs ==
  ASSUME layers \in Seq(Layers), draws \in Seq(Draws), FrameInv(layers, draws, msaa)
  PROVE  IsFlushed(FlushClipDepth)
<1>0. PICK n : n = Len(layers)
  OBVIOUS
<1>1. n \in Nat /\ DOMAIN layers = 1 .. n
  BY <1>0
<1>2. PICK g \in [0 .. n -> Seq(Draws)] : FlushedTo(g) /\ FlushClipDepth = g[n]
  BY <1>0, FlushedRuns
<1>3. ASSUME NEW l \in DOMAIN layers
      PROVE  /\ layers[l] \in Layers
             /\ \A c \in ToSet(layers[l].history) : c \in DOMAIN draws /\ draws[c].type = "clip" /\ c \in Uses(layers[l])
             /\ Stack(layers[l]) \subseteq ToSet(layers[l].history)
             /\ \A c \in ToSet(layers[l].history) : c # 0
  <2>1. PICK y : y = layers[l]
    OBVIOUS
  <2>2. y \in Layers /\ NamesAreRight(y, draws, l, Boxes(layers))
    BY <2>1 DEF FrameInv, LayerInv
  <2>3. \A c \in ToSet(y.history) : c \in DOMAIN draws /\ draws[c].type = "clip" /\ c \in Uses(y)
    BY <2>2 DEF NamesAreRight, ToSet, Uses
  <2>4. 0 \notin DOMAIN draws
    OBVIOUS
  <2>. QED
    BY <2>1, <2>2, <2>3, <2>4 DEF NamesAreRight
<1>4. \A l, m \in DOMAIN layers : l # m => ToSet(layers[l].history) \cap ToSet(layers[m].history) = {}
  <2>1. ASSUME NEW l \in DOMAIN layers, NEW m \in DOMAIN layers, l # m, NEW c,
               c \in ToSet(layers[l].history), c \in ToSet(layers[m].history)
        PROVE  FALSE
    <3>1. c \in Uses(layers[l]) \cap Uses(layers[m]) /\ c # 0
      BY <2>1, <1>3
    <3>. QED
      BY <3>1, <2>1 DEF FrameInv
  <2>. QED
    BY <2>1
<1>5. ApartStacks
  BY <1>3, <1>4 DEF ApartStacks
<1>. DEFINE I == {l \in Nat : l <= n => FlushedBy(g[l], l)}
<1>6. 0 \in I
  <2>1. g[0] = draws
    BY <1>2 DEF FlushedTo
  <2>2. FlushedBy(draws, 0)
    BY DEF FlushedBy, Alike
  <2>. QED
    BY <2>1, <2>2
<1>7. ASSUME NEW l \in Nat, l \in I PROVE l + 1 \in I
  <2>. SUFFICES ASSUME l + 1 <= n PROVE FlushedBy(g[l + 1], l + 1)
    OBVIOUS
  <2>1. PICK m : m = l + 1
    OBVIOUS
  <2>2. m \in 1 .. n /\ m - 1 = l /\ FlushedBy(g[l], l)
    BY <2>1, <1>1, <1>7
  <2>3. g[m] = WithDepths(g[l], layers[m].depth, ClipDraws(layers[m]))
    BY <2>2, <1>0, <1>2 DEF FlushedTo
  <2>4. FlushedBy(g[m], m)
    BY <2>1, <2>2, <2>3, <1>1, <1>5, FlushedNext
  <2>. QED
    BY <2>1, <2>4
<1>8. FlushedBy(g[n], n)
  <2>1. \A l \in Nat : l \in I
    <3>. HIDE DEF I
    <3>. QED BY <1>6, <1>7, SetInduction
  <2>. QED
    BY <2>1, <1>1
<1>9. PICK T : T = FlushClipDepth
  OBVIOUS
<1>10. /\ T \in Seq(Draws) /\ DOMAIN T = DOMAIN draws
       /\ \A d \in DOMAIN draws : Alike(T[d], draws[d])
       /\ \A d \in DOMAIN draws : (\A m \in 1 .. n : d \notin Stack(layers[m])) => T[d] = draws[d]
       /\ \A m \in 1 .. n : \A d \in Stack(layers[m]) : T[d].depth > layers[m].depth
  BY <1>2, <1>8, <1>9 DEF FlushedBy
<1>11. \A d \in DOMAIN draws : draws[d].type # "clip" => T[d] = draws[d]
  BY <1>1, <1>3, <1>10
<1>12. ASSUME NEW l \in DOMAIN layers, NEW c \in ToSet(layers[l].history), NEW x \in Nat, x <= layers[l].depth
       PROVE  Blocks(layers[l], draws, c, x) <=> T[c].depth >= x
  <2>1. c \in DOMAIN draws /\ layers[l].depth \in Nat /\ l \in 1 .. n
    BY <1>1, <1>3, LayerTypes
  <2>2. T[c].depth \in Nat
    BY <2>1, <1>10, DrawTypes
  <2>3. CASE c \in Stack(layers[l])
    <3>1. T[c].depth > layers[l].depth
      BY <2>1, <2>3, <1>10
    <3>2. T[c].depth >= x
      BY <3>1, <2>1, <2>2, <1>12
    <3>. QED
      BY <3>2, <2>3 DEF Blocks
  <2>4. CASE c \notin Stack(layers[l])
    <3>1. \A m \in 1 .. n : c \notin Stack(layers[m])
      BY <2>4, <2>1, <1>1, <1>3, <1>4
    <3>2. T[c] = draws[c]
      BY <3>1, <2>1, <1>10
    <3>. QED
      BY <3>2, <2>4 DEF Blocks
  <2>. QED
    BY <2>3, <2>4
<1>13. IsFlushed(T)
  BY <1>10, <1>11, <1>12 DEF IsFlushed
<1>. QED
  BY <1>9, <1>13

-----------------------------------------------------------------------------
(* A layer is rendered: what a pass starts from and adds                   *)

\* A layer of a frame whose clips have their depths, with the textures R.
Renders(y, l, T, R) ==
    /\ layers \in Seq(Layers) /\ draws \in Seq(Draws) /\ msaa \in BOOLEAN
    /\ FrameInv(layers, draws, msaa) /\ IsFlushed(T) /\ Colours(Boxes(layers), R)
    /\ l \in DOMAIN layers /\ y = layers[l]

\* What that says.
LEMMA RendersIs ==
  ASSUME NEW y, NEW l, NEW T, NEW R, Renders(y, l, T, R)
  PROVE  /\ y \in Layers /\ LayerInv(y, draws, l, Boxes(layers), msaa) /\ draws \in Seq(Draws)
         /\ Colours(Boxes(layers), R) /\ msaa \in BOOLEAN
         /\ \A c \in DOMAIN draws : /\ Alike(T[c], draws[c]) /\ CanRun(T[c])
                                    /\ draws[c].type # "clip" => T[c] = draws[c]
         /\ \A c \in ToSet(y.history), x \in Nat :
               x <= y.depth => (Blocks(y, draws, c, x) <=> T[c].depth >= x)
<1>1. y \in Layers /\ LayerInv(y, draws, l, Boxes(layers), msaa) /\ draws \in Seq(Draws)
      /\ Colours(Boxes(layers), R) /\ msaa \in BOOLEAN
  BY DEF Renders, FrameInv
<1>2. T \in Seq(Draws) /\ DOMAIN T = DOMAIN draws
  BY DEF Renders, IsFlushed
<1>3. ASSUME NEW c \in DOMAIN draws
      PROVE  Alike(T[c], draws[c]) /\ CanRun(T[c]) /\ (draws[c].type # "clip" => T[c] = draws[c])
  <2>1. Alike(T[c], draws[c]) /\ (draws[c].type # "clip" => T[c] = draws[c])
    BY DEF Renders, IsFlushed
  <2>2. T[c] \in Draws
    BY <1>2
  <2>3. draws[c].type = "layer" => draws[c].child \in DOMAIN layers
    BY DEF Renders, FrameInv
  <2>. QED
    BY <2>1, <2>2, <2>3 DEF CanRun, Alike
<1>4. \A c \in ToSet(y.history), x \in Nat :
         x <= y.depth => (Blocks(y, draws, c, x) <=> T[c].depth >= x)
  BY DEF Renders, IsFlushed
<1>. QED
  BY <1>1, <1>3, <1>4

\* The clips that a pass replays.
Replays(y, k, T) == {y.history[j] : j \in {i \in 1 .. y.passes[k].replayed :
                       y.passes[k].firstDepth = 0 \/ T[y.history[i]].depth >= y.passes[k].firstDepth}}

OfClips(calls, T) == \A j \in 1 .. Len(calls) : T[calls[j]].type = "clip"

\* They are clips, and those the pass names that are deep enough.
LEMMA ReplaysAre ==
  ASSUME NEW y, NEW l, NEW T, NEW R, Renders(y, l, T, R), NEW k \in DOMAIN y.passes
  PROVE  LET calls == ClipReplayDraws(y, y.passes[k], T)
         IN  /\ AllRun(calls, T) /\ OfClips(calls, T)
             /\ {calls[j] : j \in 1 .. Len(calls)} = Replays(y, k, T)
<1>1. /\ y \in Layers /\ NamesAreRight(y, draws, l, Boxes(layers))
      /\ \A c \in DOMAIN draws : Alike(T[c], draws[c]) /\ CanRun(T[c])
  BY RendersIs DEF LayerInv
<1>2. PICK pass : pass = y.passes[k]
  OBVIOUS
<1>3. pass.replayed \in Nat /\ pass.firstDepth \in Nat /\ y.history \in Seq(Nat)
      /\ pass.replayed <= Len(y.history)
  BY <1>1, <1>2, LayerTypes DEF NamesAreRight
<1>4. PICK places : places = {i \in 1 .. pass.replayed :
                                pass.firstDepth = 0 \/ T[y.history[i]].depth >= pass.firstDepth}
  OBVIOUS
<1>5. PICK calls : calls = Chosen(y.history, places)
  OBVIOUS
<1>6. ClipReplayDraws(y, pass, T) = calls
  BY <1>4, <1>5 DEF ClipReplayDraws
<1>7. calls \in Seq(Nat) /\ ToSet(calls) = {y.history[i] : i \in DOMAIN y.history \cap places}
  BY <1>3, <1>5, ChosenIs
<1>8. DOMAIN y.history \cap places = places
  BY <1>3, <1>4
<1>9. {calls[j] : j \in 1 .. Len(calls)} = Replays(y, k, T)
  <2>1. {calls[j] : j \in 1 .. Len(calls)} = ToSet(calls)
    BY <1>7 DEF ToSet
  <2>. QED
    BY <2>1, <1>2, <1>4, <1>7, <1>8 DEF Replays
<1>10. ASSUME NEW j \in 1 .. Len(calls) PROVE CanRun(T[calls[j]]) /\ T[calls[j]].type = "clip"
  <2>1. calls[j] \in ToSet(calls)
    BY <1>7 DEF ToSet
  <2>2. PICK i \in DOMAIN y.history : calls[j] = y.history[i]
    BY <2>1, <1>7
  <2>3. y.history[i] \in DOMAIN draws /\ draws[y.history[i]].type = "clip"
    BY <1>1 DEF NamesAreRight
  <2>. QED
    BY <2>2, <2>3, <1>1 DEF Alike
<1>. QED
  BY <1>2, <1>6, <1>7, <1>9, <1>10 DEF AllRun, OfClips

\* The draws of a pass can be run.
LEMMA OpsRun ==
  ASSUME NEW y, NEW l, NEW T, NEW R, Renders(y, l, T, R), NEW k \in DOMAIN y.passes
  PROVE  AllRun(y.passes[k].ops, T)
<1>1. /\ y \in Layers /\ NamesAreRight(y, draws, l, Boxes(layers))
      /\ \A c \in DOMAIN draws : CanRun(T[c])
  BY RendersIs DEF LayerInv
<1>2. y.passes[k].ops \in Seq(Nat) /\ \A i \in DOMAIN y.passes[k].ops : y.passes[k].ops[i] \in DOMAIN draws
  BY <1>1, LayerTypes DEF NamesAreRight
<1>. QED
  BY <1>1, <1>2 DEF AllRun

LoadOf(y, k) == IF y.passes[k].load # 0 THEN <<y.passes[k].load>> ELSE <<>>

\* The draw that loads the colours of the pass before, when there is one.
LEMMA LoadRuns ==
  ASSUME NEW y, NEW l, NEW T, NEW R, Renders(y, l, T, R), NEW k \in DOMAIN y.passes
  PROVE  /\ AllRun(LoadOf(y, k), T)
         /\ IF k > 1 /\ msaa
            THEN LET load == y.passes[k].load
                 IN  /\ LoadOf(y, k) = <<load>> /\ CanRun(T[load]) /\ T[load].type = "load"
                     /\ T[load].scissor = y.bounds /\ T[load].depth > 0
            ELSE LoadOf(y, k) = <<>>
<1>1. /\ y \in Layers /\ LoadsAreRight(y, draws, msaa) /\ draws \in Seq(Draws) /\ msaa \in BOOLEAN
      /\ \A c \in DOMAIN draws : CanRun(T[c]) /\ (draws[c].type # "clip" => T[c] = draws[c])
  BY RendersIs DEF LayerInv
<1>2. PICK load : load = y.passes[k].load
  OBVIOUS
<1>3. load \in Nat /\ k \in Nat \ {0}
  BY <1>1, <1>2, LayerTypes
<1>4. CASE k > 1 /\ msaa
  <2>1. load \in DOMAIN draws /\ draws[load].type = "load" /\ draws[load].scissor = y.bounds
        /\ draws[load].depth > 0
    BY <1>1, <1>2, <1>4 DEF LoadsAreRight
  <2>2. load # 0
    BY <2>1, <1>1
  <2>3. LoadOf(y, k) = <<load>>
    BY <2>2, <1>2 DEF LoadOf
  <2>4. T[load] = draws[load] /\ CanRun(T[load])
    BY <2>1, <1>1
  <2>5. AllRun(<<load>>, T)
    BY <2>4, <1>3 DEF AllRun
  <2>. QED
    BY <1>2, <1>4, <2>1, <2>3, <2>4, <2>5
<1>5. CASE ~ (k > 1 /\ msaa)
  <2>1. load = 0
    BY <1>1, <1>2, <1>3, <1>5 DEF LoadsAreRight
  <2>2. LoadOf(y, k) = <<>>
    BY <2>1, <1>2 DEF LoadOf
  <2>3. AllRun(<<>>, T)
    BY DEF AllRun
  <2>. QED
    BY <2>2, <2>3, <1>5
<1>. QED
  BY <1>4, <1>5

\* What a layer shows after k passes, for the next one.
Resolves(r, y, k) ==
    /\ r \in [color : [y.bounds -> Seq(Nat)], copy : [y.bounds -> Seq(Nat)]]
    /\ k = 0 => r.color = Clear(y, <<>>)
    /\ k > 0 => \A p \in y.bounds \cap y.passes[k].copy : r.copy[p] = r.color[p]

\* The attachments of pass k + 1 before the first draw that is its own.
StartsAt(t, r, y, k, T) ==
    /\ t \in Targets(y.bounds) /\ t.copy = r.copy
    /\ \A p \in y.bounds : t.color[p] = r.color[p] /\ DepthIs(t, Replays(y, k, T), T, p)

\* The attachments as they are when a pass begins.
LEMMA PassBegins ==
  ASSUME NEW y, NEW l, NEW T, NEW R, Renders(y, l, T, R), NEW k \in DOMAIN y.passes,
         NEW r, NEW m, m = k - 1, Resolves(r, y, m), NEW start, start = PassStart(y, r, k)
  PROVE  /\ start \in Targets(y.bounds) /\ start.copy = r.copy /\ start.resolved = r.color
         /\ \A p \in y.bounds : DepthIs(start, {}, T, p) /\ start.depth[p] = 0
         /\ ~ (k > 1 /\ msaa) => start.color = r.color
<1>0. PICK B : B = y.bounds
  OBVIOUS
<1>1. y \in Layers /\ msaa \in BOOLEAN /\ k \in Nat \ {0}
  BY RendersIs, LayerTypes
<1>2. r.color \in [B -> Seq(Nat)] /\ r.copy \in [B -> Seq(Nat)]
  BY <1>0 DEF Resolves
<1>3. Clear(y, <<>>) \in [B -> Seq(Nat)] /\ Clear(y, 0) \in [B -> Nat] /\ \A p \in B : Clear(y, 0)[p] = 0
  BY <1>0 DEF Clear
<1>4. PICK color : color = IF k = 1 \/ msaa THEN Clear(y, <<>>) ELSE r.color
  OBVIOUS
<1>5. color \in [B -> Seq(Nat)]
  BY <1>2, <1>3, <1>4
<1>6. start = [color |-> color, depth |-> Clear(y, 0), resolved |-> r.color, copy |-> r.copy]
  BY <1>4 DEF PassStart
<1>7. start \in Targets(B) /\ start.copy = r.copy /\ start.resolved = r.color
      /\ start.depth = Clear(y, 0) /\ start.color = color
  BY <1>2, <1>3, <1>5, <1>6 DEF Targets
<1>8. \A p \in B : DepthIs(start, {}, T, p) /\ start.depth[p] = 0
  BY <1>3, <1>7 DEF DepthIs
<1>9. ASSUME ~ (k > 1 /\ msaa) PROVE color = r.color
  <2>1. CASE k = 1
    BY <2>1, <1>4 DEF Resolves
  <2>2. CASE k # 1
    BY <2>2, <1>1, <1>4, <1>9
  <2>. QED
    BY <2>1, <2>2
<1>. QED
  BY <1>0, <1>7, <1>8, <1>9

\* The colours of the pass before are there when they are loaded or kept.
LEMMA LoadDone ==
  ASSUME NEW y, NEW l, NEW T, NEW R, Renders(y, l, T, R), NEW k \in DOMAIN y.passes,
         NEW r, NEW m, m = k - 1, Resolves(r, y, m)
  PROVE  \E t \in Targets(y.bounds) :
            /\ t = Drawn(PassStart(y, r, k), LoadOf(y, k), T, R)
            /\ t.copy = r.copy /\ \A p \in y.bounds : t.color[p] = r.color[p] /\ DepthIs(t, {}, T, p)
<1>0. PICK B, start, calls : B = y.bounds /\ start = PassStart(y, r, k) /\ calls = LoadOf(y, k)
  OBVIOUS
<1>1. /\ start \in Targets(B) /\ start.copy = r.copy /\ start.resolved = r.color
      /\ \A p \in B : DepthIs(start, {}, T, p) /\ start.depth[p] = 0
      /\ ~ (k > 1 /\ msaa) => start.color = r.color
  BY <1>0, PassBegins
<1>2. AllRun(calls, T) /\ Colours(Boxes(layers), R)
  BY <1>0, LoadRuns DEF Renders
<1>3. PICK g \in [0 .. Len(calls) -> Targets(B)] :
         RunsTo(g, start, calls, T, R) /\ Drawn(start, calls, T, R) = g[Len(calls)]
  BY <1>1, <1>2, DrawnRuns
<1>4. g[0] = start
  BY <1>3 DEF RunsTo
<1>5. CASE k > 1 /\ msaa
  <2>1. PICK load : load = y.passes[k].load
    OBVIOUS
  <2>2. calls = <<load>> /\ CanRun(T[load]) /\ T[load].type = "load" /\ T[load].scissor = B /\ T[load].depth > 0
    BY <2>1, <1>0, <1>5, LoadRuns
  <2>3. Len(calls) = 1 /\ calls[1] = load /\ 1 \in 1 .. Len(calls) /\ 1 \in 0 .. Len(calls) /\ 1 - 1 = 0
    BY <2>2
  <2>4. g[1] = DrawOne(start, T[load], R)
    BY <2>3, <1>3, <1>4 DEF RunsTo
  <2>5. PICK t : t = g[1]
    OBVIOUS
  <2>6. SameRest(t, start, B) /\ IsLoadRun(t, start, T[load], B)
    BY <2>2, <2>4, <2>5, <1>1, <1>2, DrawOneIs
  <2>7. t \in Targets(B) /\ t.copy = r.copy /\ t.depth = start.depth
    BY <2>6, <1>1 DEF SameRest, IsLoadRun
  <2>8. \A p \in B : t.color[p] = r.color[p]
    BY <2>2, <2>6, <1>1 DEF IsLoadRun
  <2>9. \A p \in B : DepthIs(t, {}, T, p)
    BY <2>7, <1>1 DEF DepthIs
  <2>10. t = Drawn(start, calls, T, R)
    BY <2>3, <2>5, <1>3
  <2>. QED
    BY <2>7, <2>8, <2>9, <2>10, <1>0
<1>6. CASE ~ (k > 1 /\ msaa)
  <2>1. calls = <<>>
    BY <1>0, <1>6, LoadRuns
  <2>2. Len(calls) = 0
    BY <2>1
  <2>3. start = Drawn(start, calls, T, R)
    BY <2>2, <1>3, <1>4
  <2>. QED
    BY <2>3, <1>0, <1>1, <1>6
<1>. QED
  BY <1>5, <1>6

\* The load and the replayed clips hide nothing else before the first draw of the pass.
LEMMA HeadDone ==
  ASSUME NEW y, NEW l, NEW T, NEW R, Renders(y, l, T, R), NEW k \in DOMAIN y.passes,
         NEW r, NEW m, m = k - 1, Resolves(r, y, m)
  PROVE  \E t : /\ StartsAt(t, r, y, k, T)
                /\ Drawn(PassStart(y, r, k), PassDraws(y, y.passes[k], T), T, R)
                     = Drawn(t, y.passes[k].ops, T, R)
<1>0. PICK B, start, a, b, c : /\ B = y.bounds /\ start = PassStart(y, r, k) /\ a = LoadOf(y, k)
                               /\ b = ClipReplayDraws(y, y.passes[k], T) /\ c = y.passes[k].ops
  OBVIOUS
<1>1. start \in Targets(B)
  BY <1>0, PassBegins
<1>2. AllRun(a, T) /\ AllRun(b, T) /\ AllRun(c, T) /\ Colours(Boxes(layers), R)
  BY <1>0, LoadRuns, ReplaysAre, OpsRun DEF Renders
<1>3. PICK s \in Targets(B) :
         /\ s = Drawn(start, a, T, R)
         /\ s.copy = r.copy /\ \A p \in B : s.color[p] = r.color[p] /\ DepthIs(s, {}, T, p)
  BY <1>0, LoadDone
<1>4. AllRun(a \o b, T) /\ Drawn(start, a \o b, T, R) = Drawn(s, b, T, R)
  BY <1>1, <1>2, <1>3, DrawnConcat
<1>5. Drawn(start, (a \o b) \o c, T, R) = Drawn(Drawn(start, a \o b, T, R), c, T, R)
  BY <1>1, <1>2, <1>4, DrawnConcat
<1>6. PassDraws(y, y.passes[k], T) = (a \o b) \o c
  BY <1>0 DEF PassDraws, LoadOf
<1>7. PICK g \in [0 .. Len(b) -> Targets(B)] :
         RunsTo(g, s, b, T, R) /\ Drawn(s, b, T, R) = g[Len(b)]
  BY <1>2, DrawnRuns
<1>8. PICK n, t : n = Len(b) /\ t = g[n]
  OBVIOUS
<1>9. n \in 0 .. n /\ t \in Targets(B)
  <2>1. n \in Nat
    BY <1>2, <1>8 DEF AllRun
  <2>. QED
    BY <2>1, <1>7, <1>8
<1>10. KeepsRest(t, s, b, n, T, B)
  <2>1. \A i \in 0 .. n : KeepsRest(g[i], s, b, i, T, B)
    BY <1>2, <1>7, <1>8, RunsKeep
  <2>. QED
    BY <2>1, <1>8, <1>9
<1>11. OfClips(b, T) /\ {b[j] : j \in 1 .. n} = Replays(y, k, T)
  BY <1>0, <1>8, ReplaysAre
<1>12. t.copy = r.copy /\ t.color = s.color
  BY <1>3, <1>10, <1>11 DEF KeepsRest, OfClips
<1>13. \A p \in B : DepthIs(t, Replays(y, k, T), T, p)
  <2>1. ASSUME NEW p \in B PROVE DepthIs(t, Replays(y, k, T), T, p)
    <3>1. DepthIs(s, {}, T, p)
      BY <1>3
    <3>2. DepthIs(t, {} \cup {b[j] : j \in 1 .. n}, T, p)
      BY <3>1, <1>10 DEF KeepsRest
    <3>3. {} \cup {b[j] : j \in 1 .. n} = Replays(y, k, T)
      BY <1>11
    <3>. QED
      BY <3>2, <3>3
  <2>. QED
    BY <2>1
<1>14. StartsAt(t, r, y, k, T)
  BY <1>0, <1>3, <1>9, <1>12, <1>13 DEF StartsAt
<1>15. Drawn(start, PassDraws(y, y.passes[k], T), T, R) = Drawn(t, c, T, R)
  BY <1>4, <1>5, <1>6, <1>7, <1>8
<1>. QED
  BY <1>0, <1>14, <1>15

\* The clips that hide pixels ahead of a draw when the pass is run.
Ahead(y, k, T, i) == Replays(y, k, T) \cup {y.passes[k].ops[j] : j \in 1 .. i - 1}

IsDrawAt(o, d, y, k, i) ==
    /\ k \in DOMAIN y.passes /\ i \in DOMAIN y.passes[k].ops
    /\ o = y.passes[k].ops[i] /\ d = draws[o] /\ d.type # "clip"

\* The depth test passes where the clips ahead of the draw let it through.
LEMMA ReachesWhenDeep ==
  ASSUME NEW y, NEW l, NEW T, NEW R, Renders(y, l, T, R), NEW k, NEW i, NEW o, NEW d, IsDrawAt(o, d, y, k, i),
         NEW p, NEW t, DepthIs(t, Ahead(y, k, T, i), T, p)
  PROVE  p \in d.scissor /\ d.depth > t.depth[p] <=> Reaches(y, draws, k, i, p)
<1>1. /\ y \in Layers /\ draws \in Seq(Draws)
      /\ NamesAreRight(y, draws, l, Boxes(layers)) /\ DepthsAreRight(y, draws)
      /\ \A c \in DOMAIN draws : Alike(T[c], draws[c]) /\ CanRun(T[c])
      /\ \A c \in ToSet(y.history), x \in Nat :
            x <= y.depth => (Blocks(y, draws, c, x) <=> T[c].depth >= x)
  BY RendersIs DEF LayerInv
<1>2. k \in DOMAIN y.passes /\ i \in DOMAIN y.passes[k].ops /\ o = y.passes[k].ops[i] /\ d = draws[o]
      /\ d.type # "clip"
  BY DEF IsDrawAt
<1>3. PICK x, first : x = d.depth /\ first = y.passes[k].firstDepth
  OBVIOUS
<1>4. x \in 1 .. y.depth /\ first \in 1 .. x /\ y.depth \in Nat
  BY <1>1, <1>2, <1>3, LayerTypes DEF DepthsAreRight
<1>5. x \in Nat \ {0} /\ x \in Nat /\ x <= y.depth
  BY <1>4
<1>6. x > t.depth[p] <=> \A c \in Ahead(y, k, T, i) : Hides(T[c], p) => T[c].depth < x
  BY <1>5 DEF DepthIs
<1>7. /\ Before(y, k, i) \subseteq DOMAIN draws
      /\ \A c \in Before(y, k, i) : draws[c].type = "clip" => c \in ToSet(y.history)
  <2>1. i \in 1 .. Len(y.passes[k].ops) + 1
    <3>1. y.passes[k].ops \in Seq(Nat)
      BY <1>1, <1>2, LayerTypes
    <3>. QED
      BY <3>1, <1>2
  <2>. QED
    BY <2>1, <1>1, <1>2, BeforeIs
<1>8. ASSUME NEW c \in Before(y, k, i), Hides(draws[c], p)
      PROVE  Blocks(y, draws, c, x) <=> ~ (T[c].depth < x)
  <2>1. c \in ToSet(y.history) /\ c \in DOMAIN draws
    BY <1>7, <1>8 DEF Hides
  <2>2. Blocks(y, draws, c, x) <=> T[c].depth >= x
    BY <2>1, <1>1, <1>5
  <2>3. T[c].depth \in Nat
    BY <2>1, <1>1 DEF CanRun, Draws
  <2>. QED
    BY <2>2, <2>3, <1>5
<1>9. \A c \in Before(y, k, i) : Hides(T[c], p) <=> Hides(draws[c], p)
  BY <1>1, <1>7 DEF Hides, Alike
<1>10. Reaches(y, draws, k, i, p)
         <=> p \in d.scissor /\ \A c \in Before(y, k, i) : Hides(T[c], p) => T[c].depth < x
  BY <1>2, <1>3, <1>8, <1>9 DEF Reaches
<1>11. Ahead(y, k, T, i) \subseteq Before(y, k, i)
  BY DEF Ahead, Before, Replays
<1>12. ASSUME NEW c \in Before(y, k, i), c \notin Ahead(y, k, T, i) PROVE T[c].depth < x
  <2>1. PICK j \in 1 .. y.passes[k].replayed : c = y.history[j]
    BY <1>12 DEF Before, Ahead
  <2>2. first # 0 /\ ~ (T[c].depth >= first)
    BY <2>1, <1>3, <1>12 DEF Ahead, Replays
  <2>3. T[c].depth \in Nat
    BY <1>1, <1>7 DEF CanRun, Draws
  <2>. QED
    BY <2>2, <2>3, <1>4
<1>. QED
  BY <1>3, <1>6, <1>10, <1>11, <1>12

\* One of the draws of a pass: from t to u.
StepAt(u, t, y, l, T, R, r, k, i, o) ==
    /\ Renders(y, l, T, R) /\ k \in DOMAIN y.passes /\ i \in DOMAIN y.passes[k].ops
    /\ o = y.passes[k].ops[i]
    /\ Resolves(r, y, k - 1)
    /\ t \in Targets(y.bounds) /\ t.copy = r.copy
    /\ \A p \in y.bounds : DepthIs(t, Ahead(y, k, T, i), T, p)
    /\ i = 1 => \A p \in y.bounds : t.color[p] = r.color[p]
    /\ u = DrawOne(t, T[o], R)

\* A draw of a pass adds to a pixel what the layer is to show of it.
LEMMA OpAdds ==
  ASSUME NEW u, NEW t, NEW y, NEW l, NEW T, NEW R, NEW r, NEW k, NEW i, NEW o,
         StepAt(u, t, y, l, T, R, r, k, i, o), NEW p \in y.bounds
  PROVE  u.color[p] = t.color[p] \o Added(y, draws, Boxes(layers), R, k, i, p)
<1>1. /\ Renders(y, l, T, R) /\ k \in DOMAIN y.passes /\ i \in DOMAIN y.passes[k].ops
      /\ o = y.passes[k].ops[i] /\ t \in Targets(y.bounds) /\ u = DrawOne(t, T[o], R)
      /\ t.copy = r.copy /\ DepthIs(t, Ahead(y, k, T, i), T, p)
  BY DEF StepAt
<1>2. /\ NamesAreRight(y, draws, l, Boxes(layers)) /\ DrawsAreBounded(y, draws, Boxes(layers))
      /\ Colours(Boxes(layers), R) /\ y \in Layers /\ draws \in Seq(Draws)
      /\ \A c \in DOMAIN draws : /\ Alike(T[c], draws[c]) /\ CanRun(T[c])
                                 /\ draws[c].type # "clip" => T[c] = draws[c]
  BY <1>1, RendersIs DEF LayerInv
<1>3. o \in DOMAIN draws /\ draws[o].type # "load"
  BY <1>1, <1>2 DEF NamesAreRight
<1>4. CanRun(T[o]) /\ Alike(T[o], draws[o]) /\ (draws[o].type # "clip" => T[o] = draws[o])
  BY <1>2, <1>3
<1>5. t.color[p] \in Seq(Nat)
  BY <1>1 DEF Targets
<1>6. CASE draws[o].type = "clip"
  <2>1. T[o].type = "clip"
    BY <1>4, <1>6 DEF Alike
  <2>2. u.color = t.color
    BY <2>1, <1>1, <1>2, <1>4, DrawOneIs, SMTT(40) DEF IsClipRun
  <2>3. Added(y, draws, Boxes(layers), R, k, i, p) = <<>>
    BY <1>1, <1>6 DEF Added
  <2>. QED
    BY <2>2, <2>3, <1>5
<1>7. CASE draws[o].type # "clip"
  <2>1. PICK d : d = draws[o]
    OBVIOUS
  <2>2. T[o] = d /\ CanRun(d) /\ d.type \notin {"clip", "load"} /\ IsDrawAt(o, d, y, k, i)
    BY <2>1, <1>1, <1>3, <1>4, <1>7 DEF IsDrawAt
  <2>3. IsDrawRun(u, t, d, y.bounds, R)
    BY <2>2, <1>1, <1>2, DrawOneIs
  <2>4. p \in d.scissor /\ d.depth > t.depth[p] <=> Reaches(y, draws, k, i, p)
    BY <2>2, <1>1, ReachesWhenDeep
  <2>5. u.color[p] = IF Reaches(y, draws, k, i, p) /\ p \in AreaOf(Boxes(layers), d)
                     THEN (IF d.dst THEN t.copy[p] ELSE t.color[p]) \o Ink(d, p, R)
                     ELSE t.color[p]
    BY <2>3, <2>4 DEF IsDrawRun
  <2>6. Added(y, draws, Boxes(layers), R, k, i, p)
          = IF Reaches(y, draws, k, i, p) /\ p \in AreaOf(Boxes(layers), d) THEN Ink(d, p, R) ELSE <<>>
    BY <2>1, <1>1, <1>7 DEF Added
  <2>7. ASSUME d.dst, Reaches(y, draws, k, i, p), p \in AreaOf(Boxes(layers), d)
        PROVE  t.copy[p] = t.color[p]
    <3>1. p \in d.scissor
      BY <2>1, <2>7, <1>1 DEF Reaches
    <3>2. k > 1 /\ i = 1 /\ d.bounds = y.passes[k - 1].copy /\ AreaOf(Boxes(layers), d) \cap d.scissor \subseteq d.bounds
      BY <2>1, <2>7, <1>1, <1>2, <1>7 DEF DrawsAreBounded
    <3>3. p \in y.passes[k - 1].copy
      BY <3>1, <3>2, <2>7
    <3>4. k - 1 > 0
      <4>1. k \in Nat
        BY <1>1, <1>2, LayerTypes
      <4>. QED
        BY <4>1, <3>2
    <3>5. r.copy[p] = r.color[p]
      BY <3>3, <3>4 DEF StepAt, Resolves
    <3>6. t.color[p] = r.color[p]
      BY <3>2 DEF StepAt
    <3>. QED
      BY <3>5, <3>6, <1>1
  <2>8. CASE Reaches(y, draws, k, i, p) /\ p \in AreaOf(Boxes(layers), d)
    <3>1. (IF d.dst THEN t.copy[p] ELSE t.color[p]) = t.color[p]
      BY <2>7, <2>8
    <3>. QED
      BY <3>1, <2>5, <2>6, <2>8
  <2>9. CASE ~ (Reaches(y, draws, k, i, p) /\ p \in AreaOf(Boxes(layers), d))
    <3>1. u.color[p] = t.color[p] /\ Added(y, draws, Boxes(layers), R, k, i, p) = <<>>
      BY <2>5, <2>6, <2>9
    <3>. QED
      BY <3>1, <1>5
  <2>. QED
    BY <2>8, <2>9
<1>. QED
  BY <1>6, <1>7

\* What a pass adds to a pixel, draw by draw.
AddedBy(y, R, k, p) == [i \in DOMAIN y.passes[k].ops |-> Added(y, draws, Boxes(layers), R, k, i, p)]

ShowsAfter(t, r, y, R, k, i) ==
    \A p \in y.bounds : t.color[p] = r.color[p] \o Joined(AddedBy(y, R, k, p), i)

\* All draws of a pass do.
LEMMA OpsAdd ==
  ASSUME NEW y, NEW l, NEW T, NEW R, Renders(y, l, T, R), NEW k \in DOMAIN y.passes,
         NEW r, NEW m, m = k - 1, Resolves(r, y, m), NEW t, StartsAt(t, r, y, k, T)
  PROVE  LET end == Drawn(t, y.passes[k].ops, T, R)
         IN  /\ end \in Targets(y.bounds)
             /\ \A p \in y.bounds :
                   end.color[p] = r.color[p] \o PassShows(y, draws, Boxes(layers), R, k, p)
<1>0. PICK B, calls, n : B = y.bounds /\ calls = y.passes[k].ops /\ n = Len(calls)
  OBVIOUS
<1>1. /\ t \in Targets(B) /\ t.copy = r.copy
      /\ \A p \in B : t.color[p] = r.color[p] /\ DepthIs(t, Replays(y, k, T), T, p)
  BY <1>0 DEF StartsAt
<1>2. y \in Layers /\ Colours(Boxes(layers), R) /\ AllRun(calls, T) /\ n \in Nat /\ DOMAIN calls = 1 .. n
  <2>1. calls \in Seq(Nat)
    BY <1>0, RendersIs, LayerTypes
  <2>. QED
    BY <2>1, <1>0, RendersIs, OpsRun
<1>3. PICK g \in [0 .. n -> Targets(B)] : RunsTo(g, t, calls, T, R) /\ Drawn(t, calls, T, R) = g[n]
  BY <1>0, <1>1, <1>2, DrawnRuns
<1>4. \A i \in 0 .. n : KeepsRest(g[i], t, calls, i, T, B)
  BY <1>0, <1>1, <1>2, <1>3, RunsKeep
<1>5. \A p, i : i \in 1 .. n => AddedBy(y, R, k, p)[i] = Added(y, draws, Boxes(layers), R, k, i, p)
  BY <1>0, <1>2 DEF AddedBy
<1>6. \A p, i : i \in 1 .. n => AddedBy(y, R, k, p)[i] \in Seq(Nat)
  <2>1. NamesAreRight(y, draws, l, Boxes(layers)) /\ draws \in Seq(Draws)
    BY RendersIs DEF LayerInv
  <2>2. \A p : \A i \in DOMAIN y.passes[k].ops : Added(y, draws, Boxes(layers), R, k, i, p) \in Seq(Nat)
    BY <2>1, <1>2, ShowsAreColours
  <2>. QED
    BY <2>2, <1>0, <1>2, <1>5
<1>7. \A p \in B : r.color[p] \in Seq(Nat)
  BY <1>0 DEF Resolves
<1>. DEFINE I == {i \in Nat : i <= n => ShowsAfter(g[i], r, y, R, k, i)}
<1>8. 0 \in I
  <2>1. g[0] = t
    BY <1>3 DEF RunsTo
  <2>2. ASSUME NEW p \in B PROVE t.color[p] = r.color[p] \o Joined(AddedBy(y, R, k, p), 0)
    <3>1. PICK f : f = AddedBy(y, R, k, p)
      OBVIOUS
    <3>2. Joined(f, 0) = <<>>
      <4>1. \A i \in 1 .. 0 : f[i] \in Seq(Nat)
        OBVIOUS
      <4>. QED
        BY <4>1, JoinedIs
    <3>. QED
      BY <3>1, <3>2, <1>1, <1>7, SMTT(40)
  <2>3. ShowsAfter(t, r, y, R, k, 0)
    BY <2>2, <1>0 DEF ShowsAfter
  <2>. QED
    BY <2>1, <2>3
<1>9. ASSUME NEW i \in Nat, i \in I PROVE i + 1 \in I
  <2>. SUFFICES ASSUME i + 1 <= n PROVE ShowsAfter(g[i + 1], r, y, R, k, i + 1)
    OBVIOUS
  <2>1. PICK j, o, u, v : j = i + 1 /\ o = calls[j] /\ u = g[j] /\ v = g[i]
    OBVIOUS
  <2>2. j \in 1 .. n /\ j - 1 = i /\ i \in 0 .. n /\ j \in Nat
    BY <2>1, <1>2
  <2>3. u = DrawOne(v, T[o], R)
    BY <2>1, <2>2, <1>0, <1>3 DEF RunsTo
  <2>4. v \in Targets(B) /\ v.copy = r.copy
    BY <2>1, <2>2, <1>1, <1>3, <1>4 DEF KeepsRest
  <2>5. ASSUME NEW q \in B PROVE DepthIs(v, Ahead(y, k, T, j), T, q)
    <3>1. DepthIs(v, Replays(y, k, T) \cup {calls[a] : a \in 1 .. i}, T, q)
      BY <2>1, <2>2, <2>5, <1>1, <1>4 DEF KeepsRest
    <3>2. Ahead(y, k, T, j) = Replays(y, k, T) \cup {calls[a] : a \in 1 .. i}
      BY <2>2, <1>0 DEF Ahead
    <3>. QED
      BY <3>1, <3>2
  <2>6. ASSUME j = 1, NEW q \in B PROVE v.color[q] = r.color[q]
    <3>1. v = t
      BY <2>1, <2>2, <2>6, <1>3 DEF RunsTo
    <3>. QED
      BY <3>1, <1>1
  <2>7. StepAt(u, v, y, l, T, R, r, k, j, o)
    BY <2>1, <2>2, <2>3, <2>4, <2>5, <2>6, <1>0, <1>2 DEF StepAt
  <2>8. ShowsAfter(v, r, y, R, k, i)
    <3>1. i <= n
      BY <2>2, <1>2
    <3>. QED
      BY <3>1, <2>1, <1>9
  <2>9. ASSUME NEW p \in B PROVE u.color[p] = r.color[p] \o Joined(AddedBy(y, R, k, p), j)
    <3>1. PICK f, c, added : f = AddedBy(y, R, k, p) /\ c = r.color[p] /\ added = Joined(f, i)
      OBVIOUS
    <3>2. u.color[p] = v.color[p] \o Added(y, draws, Boxes(layers), R, k, j, p)
      BY <2>7, <1>0, OpAdds
    <3>3. f[j] = Added(y, draws, Boxes(layers), R, k, j, p)
      BY <3>1, <2>2, <1>5
    <3>4. \A a \in 1 .. n : f[a] \in Seq(Nat)
      BY <3>1, <1>6
    <3>5. \A a \in 1 .. j : a \in 1 .. n
      BY <2>2, <1>2
    <3>6. \A a \in 1 .. j : f[a] \in Seq(Nat)
      BY <3>4, <3>5
    <3>7. \A a \in 1 .. i : f[a] \in Seq(Nat)
      BY <3>6, <2>1
    <3>8. added \in Seq(Nat)
      BY <3>1, <3>7, JoinedIs
    <3>9. Joined(f, j) = added \o f[j]
      BY <3>1, <3>6, <2>1, <2>2, JoinedIs
    <3>10. v.color[p] = c \o added
      BY <3>1, <2>8, <1>0 DEF ShowsAfter
    <3>11. c \in Seq(Nat) /\ f[j] \in Seq(Nat)
      BY <3>1, <3>4, <2>2, <1>7
    <3>12. (c \o added) \o f[j] = c \o (added \o f[j])
      <4>1. PICK S, e : S = Nat /\ e = f[j]
        OBVIOUS
      <4>2. c \in Seq(S) /\ added \in Seq(S) /\ e \in Seq(S)
        BY <4>1, <3>8, <3>11
      <4>3. (c \o added) \o e = c \o (added \o e)
        BY <4>2, ConcatThree, SMTT(40)
      <4>. QED
        BY <4>1, <4>3
    <3>. QED
      BY <3>1, <3>2, <3>3, <3>9, <3>10, <3>12
  <2>10. ShowsAfter(u, r, y, R, k, j)
    BY <2>9, <1>0 DEF ShowsAfter
  <2>. QED
    BY <2>1, <2>10
<1>10. \A i \in Nat : i \in I
  <2>. HIDE DEF I
  <2>. QED BY <1>8, <1>9, SetInduction
<1>11. PICK end : end = g[n]
  OBVIOUS
<1>12. end \in Targets(B)
  BY <1>2, <1>3, <1>11
<1>13. \A p \in B : end.color[p] = r.color[p] \o PassShows(y, draws, Boxes(layers), R, k, p)
  <2>0. ShowsAfter(end, r, y, R, k, n)
    BY <1>2, <1>10, <1>11
  <2>1. \A p \in B : end.color[p] = r.color[p] \o Joined(AddedBy(y, R, k, p), n)
    BY <2>0, <1>0 DEF ShowsAfter
  <2>2. \A p : PassShows(y, draws, Boxes(layers), R, k, p) = Joined(AddedBy(y, R, k, p), n)
    BY <1>0 DEF PassShows, AddedBy
  <2>. QED
    BY <2>1, <2>2
<1>. QED
  BY <1>0, <1>3, <1>11, <1>12, <1>13

\* A pass of HWLayer::Draw shows what its draws add.
LEMMA PassAdds ==
  ASSUME NEW y, NEW l, NEW T, NEW R, Renders(y, l, T, R), NEW k \in DOMAIN y.passes,
         NEW r, NEW m, m = k - 1, Resolves(r, y, m)
  PROVE  LET u == RunPass(y, T, R, r, k)
         IN  /\ Resolves(u, y, k)
             /\ \A p \in y.bounds :
                   u.color[p] = r.color[p] \o PassShows(y, draws, Boxes(layers), R, k, p)
<1>1. PICK t : /\ StartsAt(t, r, y, k, T)
               /\ Drawn(PassStart(y, r, k), PassDraws(y, y.passes[k], T), T, R)
                    = Drawn(t, y.passes[k].ops, T, R)
  BY HeadDone
<1>2. PICK end, B : end = Drawn(t, y.passes[k].ops, T, R) /\ B = y.bounds
  OBVIOUS
<1>3. /\ end \in Targets(B)
      /\ \A p \in B : end.color[p] = r.color[p] \o PassShows(y, draws, Boxes(layers), R, k, p)
  BY <1>1, <1>2, OpsAdd
<1>4. PICK copy : copy = [p \in B |-> IF p \in y.passes[k].copy THEN end.color[p] ELSE <<0>>]
  OBVIOUS
<1>5. end.color \in [B -> Seq(Nat)]
  BY <1>3 DEF Targets
<1>6. copy \in [B -> Seq(Nat)]
  <2>1. <<0>> \in Seq(Nat)
    OBVIOUS
  <2>. QED
    BY <2>1, <1>4, <1>5
<1>7. PICK u : u = RunPass(y, T, R, r, k)
  OBVIOUS
<1>8. u = [color |-> end.color, copy |-> copy]
  BY <1>1, <1>2, <1>4, <1>7 DEF RunPass
<1>9. \A p \in B \cap y.passes[k].copy : u.copy[p] = u.color[p]
  BY <1>4, <1>8
<1>10. k # 0
  <2>1. y \in Layers
    BY RendersIs
  <2>. QED
    BY <2>1, LayerTypes
<1>11. Resolves(u, y, k)
  BY <1>2, <1>5, <1>6, <1>8, <1>9, <1>10 DEF Resolves
<1>. QED
  BY <1>2, <1>3, <1>7, <1>8, <1>11

-----------------------------------------------------------------------------
(* The passes of a layer                                                   *)

\* What each pass of a layer adds to a pixel.
PassesOf(y, R, p) == [k \in DOMAIN y.passes |-> PassShows(y, draws, Boxes(layers), R, k, p)]
ShowsPasses(r, y, R, k) ==
    Resolves(r, y, k) /\ \A p \in y.bounds : r.color[p] = Joined(PassesOf(y, R, p), k)

\* Together the passes make what the layer shows.
LEMMA PassesAre ==
  ASSUME NEW y, NEW l, NEW T, NEW R, Renders(y, l, T, R), NEW p
  PROVE  /\ \A k \in 1 .. Len(y.passes) : /\ PassesOf(y, R, p)[k] \in Seq(Nat)
                                          /\ PassesOf(y, R, p)[k] = PassShows(y, draws, Boxes(layers), R, k, p)
         /\ Joined(PassesOf(y, R, p), Len(y.passes)) = LayerShows(y, draws, Boxes(layers), R, p)
<1>1. y \in Layers /\ draws \in Seq(Draws) /\ NamesAreRight(y, draws, l, Boxes(layers)) /\ Colours(Boxes(layers), R)
  BY RendersIs DEF LayerInv
<1>2. \A k \in DOMAIN y.passes : PassShows(y, draws, Boxes(layers), R, k, p) \in Seq(Nat)
  BY <1>1, ShowsAreColours
<1>3. DOMAIN y.passes = 1 .. Len(y.passes)
  BY <1>1, LayerTypes
<1>. QED
  BY <1>2, <1>3 DEF PassesOf, LayerShows

\* One more pass shows one more.
LEMMA NextPass ==
  ASSUME NEW y, NEW l, NEW T, NEW R, Renders(y, l, T, R), NEW k \in DOMAIN y.passes, NEW m, m = k - 1,
         NEW r, ShowsPasses(r, y, R, m), NEW u, u = RunPass(y, T, R, r, k)
  PROVE  ShowsPasses(u, y, R, k)
<1>1. Resolves(r, y, m)
  BY DEF ShowsPasses
<1>2. /\ Resolves(u, y, k)
      /\ \A p \in y.bounds : u.color[p] = r.color[p] \o PassShows(y, draws, Boxes(layers), R, k, p)
  BY <1>1, PassAdds
<1>3. k \in 1 .. Len(y.passes) /\ k \in Nat /\ m \in Nat /\ k = m + 1 /\ k \in 1 .. k
      /\ \A a \in 1 .. k : a \in 1 .. Len(y.passes)
  <2>1. y.passes \in Seq(Passes)
    BY RendersIs, LayerTypes
  <2>. QED
    BY <2>1
<1>4. ASSUME NEW p \in y.bounds PROVE u.color[p] = Joined(PassesOf(y, R, p), k)
  <2>1. PICK f : f = PassesOf(y, R, p)
    OBVIOUS
  <2>2. \A a \in 1 .. k : f[a] \in Seq(Nat)
    BY <2>1, <1>3, PassesAre
  <2>3. Joined(f, k) = Joined(f, m) \o f[k]
    BY <2>2, <1>3, JoinedIs
  <2>4. f[k] = PassShows(y, draws, Boxes(layers), R, k, p)
    BY <2>1, <1>3, PassesAre
  <2>5. r.color[p] = Joined(f, m)
    BY <2>1 DEF ShowsPasses
  <2>. QED
    BY <2>1, <2>3, <2>4, <2>5, <1>2
<1>. QED
  BY <1>2, <1>4 DEF ShowsPasses

\* A rendered layer shows what its passes add.
LEMMA LayerRenders ==
  ASSUME NEW y, NEW l, NEW T, NEW R, Renders(y, l, T, R)
  PROVE  LET picture == RenderLayer(l, T, R)
         IN  /\ picture \in [y.bounds -> Seq(Nat)]
             /\ \A p \in y.bounds : picture[p] = LayerShows(y, draws, Boxes(layers), R, p)
<1>0. PICK n, r0 : n = Len(y.passes) /\ r0 = [color |-> Clear(y, <<>>), copy |-> Clear(y, <<0>>)]
  OBVIOUS
<1>. DEFINE S == [color : [y.bounds -> Seq(Nat)], copy : [y.bounds -> Seq(Nat)]]
            step == [q \in (1 .. n) \X S |-> IF Resolves(q[2], y, q[1] - 1) THEN RunPass(y, T, R, q[2], q[1])
                                             ELSE r0]
            Defines(g) == g = [k \in 0 .. n |-> IF k = 0 THEN r0 ELSE RunPass(y, T, R, g[k - 1], k)]
            resolved == CHOOSE g : Defines(g)
<1>1. n \in Nat /\ DOMAIN y.passes = 1 .. n /\ y = layers[l]
  <2>1. y.passes \in Seq(Passes)
    BY RendersIs, LayerTypes
  <2>. QED
    BY <2>1, <1>0 DEF Renders
<1>2. r0 \in S /\ ShowsPasses(r0, y, R, 0)
  <2>1. Clear(y, <<>>) \in [y.bounds -> Seq(Nat)] /\ Clear(y, <<0>>) \in [y.bounds -> Seq(Nat)]
        /\ \A p \in y.bounds : Clear(y, <<>>)[p] = <<>>
    <3>1. <<>> \in Seq(Nat) /\ <<0>> \in Seq(Nat)
      OBVIOUS
    <3>. QED
      BY <3>1 DEF Clear
  <2>2. r0 \in S /\ r0.color = Clear(y, <<>>)
    BY <2>1, <1>0
  <2>3. \A f : Joined(f, 0) = <<>>
    <3>1. ASSUME NEW f PROVE Joined(f, 0) = <<>>
      <4>1. \A i \in 1 .. 0 : f[i] \in Seq(Nat)
        OBVIOUS
      <4>. QED
        BY <4>1, JoinedIs
    <3>. QED
      BY <3>1
  <2>4. Resolves(r0, y, 0)
    BY <2>2 DEF Resolves
  <2>. QED
    BY <2>1, <2>2, <2>3, <2>4 DEF ShowsPasses
<1>3. \A k \in 0 .. n : k # 0 => k \in 1 .. n /\ k - 1 \in 0 .. n
  BY <1>1
<1>4. \A k \in 1 .. n, r \in S :
         Resolves(r, y, k - 1) => RunPass(y, T, R, r, k) \in S /\ step[<<k, r>>] = RunPass(y, T, R, r, k)
  <2>1. ASSUME NEW k \in 1 .. n, NEW r \in S, Resolves(r, y, k - 1) PROVE RunPass(y, T, R, r, k) \in S
    <3>1. PICK u, m : u = RunPass(y, T, R, r, k) /\ m = k - 1
      OBVIOUS
    <3>2. Resolves(u, y, k)
      BY <3>1, <2>1, <1>1, PassAdds
    <3>. QED
      BY <3>1, <3>2 DEF Resolves
  <2>. QED
    BY <2>1
<1>5. \A k \in 0 .. n, r \in S : k # 0 => step[<<k, r>>] \in S
  BY <1>2, <1>3, <1>4
<1>. HIDE DEF step, S
<1>6. PICK g \in [0 .. n -> S] : Recurs(g, 0, n, r0, step)
  <2>1. 0 \in Int /\ n \in Int
    BY <1>1
  <2>. QED
    BY <2>1, <1>2, <1>5, RecursionDefines, Zenon
<1>7. g[0] = r0 /\ \A k \in 1 .. n : g[k] = step[<<k, g[k - 1]>>]
  <2>1. \A k \in 1 .. n : k \in 0 .. n /\ k # 0
    BY <1>1
  <2>2. 0 \in 0 .. n
    BY <1>1
  <2>. QED
    BY <2>1, <2>2, <1>6 DEF Recurs
<1>. DEFINE I == {k \in Nat : k <= n => ShowsPasses(g[k], y, R, k)}
<1>8. 0 \in I
  BY <1>2, <1>7
<1>9. ASSUME NEW m \in Nat, m \in I PROVE m + 1 \in I
  <2>. SUFFICES ASSUME m + 1 <= n PROVE ShowsPasses(g[m + 1], y, R, m + 1)
    OBVIOUS
  <2>1. PICK k, r : k = m + 1 /\ r = g[m]
    OBVIOUS
  <2>2. k \in 1 .. n /\ m = k - 1 /\ m \in 0 .. n
    BY <2>1, <1>1
  <2>3. ShowsPasses(r, y, R, m) /\ r \in S
    BY <2>1, <2>2, <1>6, <1>9
  <2>4. g[k] = RunPass(y, T, R, r, k)
    BY <2>1, <2>2, <2>3, <1>4, <1>7 DEF ShowsPasses
  <2>5. ShowsPasses(g[k], y, R, k)
    BY <2>2, <2>3, <2>4, <1>1, NextPass
  <2>. QED
    BY <2>1, <2>5
<1>10. \A k \in 0 .. n : ShowsPasses(g[k], y, R, k)
  <2>1. \A k \in Nat : k \in I
    <3>. HIDE DEF I
    <3>. QED BY <1>8, <1>9, SetInduction
  <2>. QED
    BY <2>1, <1>1
<1>11. Defines(g)
  <2>1. ASSUME NEW k \in 0 .. n, k # 0 PROVE g[k] = RunPass(y, T, R, g[k - 1], k)
    <3>1. PICK m, r : m = k - 1 /\ r = g[m]
      OBVIOUS
    <3>2. k \in 1 .. n /\ m \in 0 .. n
      BY <3>1, <2>1, <1>3
    <3>3. r \in S /\ Resolves(r, y, k - 1)
      BY <3>1, <3>2, <1>6, <1>10 DEF ShowsPasses
    <3>. QED
      BY <3>1, <3>2, <3>3, <1>4, <1>7
  <2>. QED
    BY <2>1, <1>7
<1>12. Defines(resolved)
  BY <1>11
<1>13. RenderLayer(l, T, R) = resolved[n].color
  BY <1>0, <1>1 DEF RenderLayer
<1>. HIDE DEF resolved
<1>14. resolved[n] = g[n]
  <2>0. PICK f : f = resolved
    OBVIOUS
  <2>1. f[0] = g[0]
    <3>1. 0 \in 0 .. n
      BY <1>1
    <3>. QED
      BY <3>1, <2>0, <1>11, <1>12
  <2>2. ASSUME NEW k \in 1 .. n, f[k - 1] = g[k - 1] PROVE f[k] = g[k]
    <3>1. k \in 0 .. n /\ k # 0
      BY <1>1
    <3>. QED
      BY <3>1, <2>0, <2>2, <1>11, <1>12
  <2>3. \A i \in 0 .. n : f[i] = g[i]
    <3>1. \A i \in 1 .. n : f[i - 1] = g[i - 1] => f[i] = g[i]
      BY <2>2
    <3>2. n \in Nat
      BY <1>1
    <3>3. PICK h : h = g
      OBVIOUS
    <3>4. h[0] = f[0] /\ \A i \in 1 .. n : f[i - 1] = h[i - 1] => f[i] = h[i]
      BY <2>1, <3>1, <3>3
    <3>5. \A i \in 0 .. n : f[i] = h[i]
      BY <3>2, <3>4, StepsAgree, SMTT(40)
    <3>. QED
      BY <3>3, <3>5
  <2>. QED
    BY <2>0, <2>3, <1>1
<1>15. PICK u : u = g[n]
  OBVIOUS
<1>16. ShowsPasses(u, y, R, n) /\ u \in S
  BY <1>1, <1>6, <1>10, <1>15
<1>17. u.color \in [y.bounds -> Seq(Nat)]
  BY <1>16 DEF S
<1>18. \A p \in y.bounds : u.color[p] = LayerShows(y, draws, Boxes(layers), R, p)
  BY <1>0, <1>16, PassesAre DEF ShowsPasses
<1>. QED
  BY <1>13, <1>14, <1>15, <1>17, <1>18

-----------------------------------------------------------------------------
(* The layers of a frame                                                   *)

\* Textures of the layers, those of the layers above m being right.
Albums == {D \in [DOMAIN layers -> UNION {[layers[l].bounds -> Seq(Nat)] : l \in DOMAIN layers}] :
             \A l \in DOMAIN layers : D[l] \in [layers[l].bounds -> Seq(Nat)]}
RightAbove(D, R, m) ==
    \A l \in DOMAIN layers : l > m => \A p \in layers[l].bounds : D[l][p] = R[l][p]

\* A frame to be rendered, R has what its layers show.
Frame(T, R) ==
    /\ layers \in Seq(Layers) /\ draws \in Seq(Draws) /\ msaa \in BOOLEAN
    /\ FrameInv(layers, draws, msaa) /\ IsFlushed(T) /\ Pictures(layers, draws, R)

\* Such textures do for a layer to be rendered, and get its picture.
LEMMA AlbumRenders ==
  ASSUME NEW T, NEW R, Frame(T, R), NEW D \in Albums, NEW l \in DOMAIN layers, NEW y, y = layers[l]
  PROVE  /\ Renders(y, l, T, D)
         /\ [D EXCEPT ![l] = RenderLayer(l, T, D)] \in Albums
<1>1. \A m \in DOMAIN layers : D[m] \in [layers[m].bounds -> Seq(Nat)]
  BY DEF Albums
<1>2. Colours(Boxes(layers), D)
  BY <1>1 DEF Colours, Boxes
<1>3. Renders(y, l, T, D)
  BY <1>2 DEF Renders, Frame
<1>4. PICK picture, E : picture = RenderLayer(l, T, D) /\ E = [D EXCEPT ![l] = picture]
  OBVIOUS
<1>5. picture \in [layers[l].bounds -> Seq(Nat)]
  BY <1>3, <1>4, LayerRenders
<1>6. \A m \in DOMAIN layers : E[m] = IF m = l THEN picture ELSE D[m]
  BY <1>4 DEF Albums
<1>7. \A m \in DOMAIN layers : E[m] \in [layers[m].bounds -> Seq(Nat)]
  BY <1>1, <1>5, <1>6
<1>8. PICK A : A = UNION {[layers[m].bounds -> Seq(Nat)] : m \in DOMAIN layers}
  OBVIOUS
<1>9. picture \in A /\ D \in [DOMAIN layers -> A]
  BY <1>5, <1>8 DEF Albums
<1>10. E \in [DOMAIN layers -> A]
  BY <1>4, <1>9
<1>11. E \in Albums
  BY <1>7, <1>8, <1>10 DEF Albums
<1>. QED
  BY <1>3, <1>4, <1>11

\* HWRootLayer::Draw goes down from the last layer: one more layer is right.
LEMMA AlbumNext ==
  ASSUME NEW T, NEW R, Frame(T, R), NEW D \in Albums, NEW l \in DOMAIN layers, RightAbove(D, R, l),
         NEW E, E = [D EXCEPT ![l] = RenderLayer(l, T, D)], NEW m, m = l - 1
  PROVE  RightAbove(E, R, m)
<1>1. PICK y : y = layers[l]
  OBVIOUS
<1>2. Renders(y, l, T, D)
  BY <1>1, AlbumRenders
<1>3. NamesAreRight(y, draws, l, Boxes(layers)) /\ draws \in Seq(Draws)
  BY <1>2, RendersIs DEF LayerInv
<1>4. \A k \in DOMAIN layers : E[k] = IF k = l THEN RenderLayer(l, T, D) ELSE D[k]
  BY DEF Albums
<1>5. ASSUME NEW p \in y.bounds PROVE E[l][p] = R[l][p]
  <2>1. E[l][p] = LayerShows(y, draws, Boxes(layers), D, p)
    BY <1>2, <1>4, <1>5, LayerRenders
  <2>2. ASSUME NEW k \in DOMAIN y.passes, NEW i \in DOMAIN y.passes[k].ops
        PROVE  SameChild(y, draws, Boxes(layers), D, R, p, k, i)
    <3>1. PICK d : d = draws[y.passes[k].ops[i]]
      OBVIOUS
    <3>2. d.type = "layer" => d.child \in DOMAIN layers /\ d.child > l
      BY <3>1, <1>3 DEF NamesAreRight, Boxes
    <3>3. d.type = "layer" /\ p \in Boxes(layers)[d.child] => D[d.child][p] = R[d.child][p]
      BY <3>2 DEF RightAbove, Boxes
    <3>. QED
      BY <3>1, <3>3 DEF SameChild
  <2>3. LayerShows(y, draws, Boxes(layers), D, p) = LayerShows(y, draws, Boxes(layers), R, p)
    BY <2>2, ShowsSameChildren DEF SameChildren
  <2>4. R[l][p] = LayerShows(y, draws, Boxes(layers), R, p)
    BY <1>1, <1>5 DEF Frame, Pictures
  <2>. QED
    BY <2>1, <2>3, <2>4
<1>6. ASSUME NEW k \in DOMAIN layers, k > m, NEW p \in layers[k].bounds PROVE E[k][p] = R[k][p]
  <2>1. CASE k = l
    BY <2>1, <1>1, <1>5, <1>6
  <2>2. CASE k # l
    <3>1. k > l
      <4>1. k \in Nat /\ l \in Nat
        BY DEF Frame
      <4>. QED
        BY <4>1, <2>2, <1>6
    <3>2. E[k] = D[k]
      BY <2>2, <1>4
    <3>. QED
      BY <3>1, <3>2 DEF RightAbove
  <2>. QED
    BY <2>1, <2>2
<1>. QED
  BY <1>6 DEF RightAbove

\* The rendered layers show what they have to show.
LEMMA FrameRenders ==
  ASSUME NEW R, layers \in Seq(Layers), draws \in Seq(Draws), msaa \in BOOLEAN,
         FrameInv(layers, draws, msaa), Pictures(layers, draws, R)
  PROVE  RightAbove(Textures, R, 0)
<1>0. PICK n, T, r0 : n = Len(layers) /\ T = FlushClipDepth /\ r0 = [l \in DOMAIN layers |-> Clear(layers[l], <<>>)]
  OBVIOUS
<1>. DEFINE At(i) == n + 1 - i
            After(D, i) == [D EXCEPT ![At(i)] = RenderLayer(At(i), T, D)]
            step == [q \in (1 .. n) \X Albums |-> After(q[2], q[1])]
            Defines(g) == g = [i \in 0 .. n |-> IF i = 0 THEN r0 ELSE After(g[i - 1], i)]
            done == CHOOSE g : Defines(g)
<1>1. n \in Nat /\ DOMAIN layers = 1 .. n
  BY <1>0
<1>2. Frame(T, R)
  BY <1>0, FlushedIs DEF Frame
<1>3. r0 \in Albums
  <2>1. \A l \in DOMAIN layers : r0[l] \in [layers[l].bounds -> Seq(Nat)]
    <3>1. <<>> \in Seq(Nat)
      OBVIOUS
    <3>. QED
      BY <3>1, <1>0 DEF Clear
  <2>. QED
    BY <2>1, <1>0 DEF Albums
<1>4. \A i \in 1 .. n, D \in Albums : After(D, i) \in Albums /\ step[<<i, D>>] = After(D, i)
  <2>1. ASSUME NEW i \in 1 .. n, NEW D \in Albums PROVE After(D, i) \in Albums
    <3>1. PICK l : l = At(i)
      OBVIOUS
    <3>2. l \in DOMAIN layers
      BY <3>1, <1>1
    <3>3. [D EXCEPT ![l] = RenderLayer(l, T, D)] \in Albums
      BY <3>2, <1>2, AlbumRenders
    <3>. QED
      BY <3>1, <3>3
  <2>. QED
    BY <2>1
<1>5. \A i \in 0 .. n : i # 0 => i \in 1 .. n /\ i - 1 \in 0 .. n
  BY <1>1
<1>. HIDE DEF step
<1>6. \A i \in 0 .. n, D \in Albums : i # 0 => step[<<i, D>>] \in Albums
  BY <1>4, <1>5
<1>7. PICK g \in [0 .. n -> Albums] : Recurs(g, 0, n, r0, step)
  <2>1. 0 \in Int /\ n \in Int
    BY <1>1
  <2>. QED
    BY <2>1, <1>3, <1>6, RecursionDefines, Zenon
<1>8. g[0] = r0 /\ \A i \in 1 .. n : g[i] = After(g[i - 1], i)
  <2>1. \A i \in 1 .. n : i \in 0 .. n /\ i # 0 /\ i - 1 \in 0 .. n
    BY <1>1
  <2>2. 0 \in 0 .. n
    BY <1>1
  <2>3. ASSUME NEW i \in 1 .. n PROVE g[i] = After(g[i - 1], i)
    BY <2>1, <1>4, <1>7 DEF Recurs
  <2>. QED
    BY <2>2, <2>3, <1>7 DEF Recurs
<1>. HIDE DEF After
<1>9. Defines(g)
  BY <1>5, <1>8
<1>10. Defines(done)
  BY <1>9
<1>11. Textures = done[n]
  BY <1>0 DEF Textures, After, At
<1>. HIDE DEF done
<1>12. done[n] = g[n]
  <2>0. PICK f : f = done
    OBVIOUS
  <2>1. f[0] = g[0]
    <3>1. 0 \in 0 .. n
      BY <1>1
    <3>. QED
      BY <3>1, <2>0, <1>9, <1>10
  <2>2. ASSUME NEW i \in 1 .. n, f[i - 1] = g[i - 1] PROVE f[i] = g[i]
    <3>1. i \in 0 .. n /\ i # 0
      BY <1>1
    <3>. QED
      BY <3>1, <2>0, <2>2, <1>9, <1>10
  <2>3. \A i \in 0 .. n : f[i] = g[i]
    <3>1. \A i \in 1 .. n : f[i - 1] = g[i - 1] => f[i] = g[i]
      BY <2>2
    <3>2. n \in Nat
      BY <1>1
    <3>3. PICK h : h = g
      OBVIOUS
    <3>4. h[0] = f[0] /\ \A i \in 1 .. n : f[i - 1] = h[i - 1] => f[i] = h[i]
      BY <2>1, <3>1, <3>3
    <3>5. \A i \in 0 .. n : f[i] = h[i]
      BY <3>2, <3>4, StepsAgree, ZenonT(50)
    <3>. QED
      BY <3>3, <3>5
  <2>. QED
    BY <2>0, <2>3, <1>1
<1>. DEFINE I == {i \in Nat : i <= n => RightAbove(g[i], R, n - i)}
<1>13. 0 \in I
  <2>1. RightAbove(r0, R, n)
    BY <1>1 DEF RightAbove
  <2>2. n - 0 = n
    BY <1>1
  <2>. QED
    BY <2>1, <2>2, <1>8
<1>14. ASSUME NEW i \in Nat, i \in I PROVE i + 1 \in I
  <2>. SUFFICES ASSUME i + 1 <= n PROVE RightAbove(g[i + 1], R, n - (i + 1))
    OBVIOUS
  <2>1. PICK j, l, m, D : j = i + 1 /\ l = n - i /\ m = n - (i + 1) /\ D = g[i]
    OBVIOUS
  <2>2. j \in 1 .. n /\ j - 1 = i /\ i \in 0 .. n /\ l \in DOMAIN layers /\ l = At(j) /\ m = l - 1 /\ i <= n
    BY <2>1, <1>1
  <2>3. D \in Albums /\ RightAbove(D, R, l)
    BY <2>1, <2>2, <1>7, <1>14
  <2>4. g[j] = [D EXCEPT ![l] = RenderLayer(l, T, D)]
    BY <2>1, <2>2, <1>8 DEF After
  <2>5. RightAbove(g[j], R, m)
    BY <2>2, <2>3, <2>4, <1>2, AlbumNext
  <2>. QED
    BY <2>1, <2>5
<1>15. RightAbove(g[n], R, 0)
  <2>1. \A i \in Nat : i \in I
    <3>. HIDE DEF I
    <3>. QED BY <1>13, <1>14, SetInduction
  <2>2. n - n = 0
    BY <1>1
  <2>3. RightAbove(g[n], R, n - n)
    BY <2>1, <1>1
  <2>. QED
    BY <2>2, <2>3
<1>. QED
  BY <1>11, <1>12, <1>15

\* The places of s with values in N, and those of what was chosen.
ChoiceOf(places, N, s) == {i \in places : s[i] \in N}
KeptOf(N, c) == {k \in DOMAIN c : c[k] \in N}

\* Choosing those in N among the chosen is choosing once.
ChoosesTwice(s, places, wanted, N) ==
    Chosen(Chosen(s, places), KeptOf(N, Chosen(s, places))) = Chosen(s, wanted)

\* With one more element.
LEMMA ChosenTwiceNext ==
  ASSUME NEW S, NEW s, NEW t, NEW m, NEW x, NEW places, NEW wanted, NEW more, NEW N,
         OneChosen(S, s, t, m, x, places, places, more),
         m \in wanted <=> m \in places /\ x \in N,
         ChoosesTwice(s, places, wanted, N)
  PROVE  ChoosesTwice(t, places, wanted, N)
<1>0. PICK c, d : c = Chosen(s, places) /\ d = Chosen(t, places)
  OBVIOUS
<1>1. /\ s \in Seq(S) /\ x \in S /\ t = Append(s, x) /\ m = Len(s) + 1
      /\ more = IF m \in places THEN <<x>> ELSE <<>>
  BY DEF OneChosen
<1>2. PICK w : w = IF m \in wanted THEN <<x>> ELSE <<>>
  OBVIOUS
<1>3. OneChosen(S, s, t, m, x, wanted, wanted, w)
  BY <1>1, <1>2 DEF OneChosen
<1>4. Chosen(t, wanted) = Chosen(s, wanted) \o w
  BY <1>3, ChosenNext
<1>5. d = c \o more
  <2>1. OneChosen(S, s, t, m, x, places, places, more)
    OBVIOUS
  <2>2. Chosen(t, places) = Chosen(s, places) \o more
    BY <2>1, ChosenNext
  <2>. QED
    BY <2>2, <1>0
<1>6. c \in Seq(S) /\ Chosen(s, wanted) \in Seq(S)
  BY <1>0, <1>1, ChosenIs
<1>7. Chosen(c, KeptOf(N, c)) = Chosen(s, wanted)
  BY <1>0 DEF ChoosesTwice
<1>. SUFFICES Chosen(d, KeptOf(N, d)) = Chosen(t, wanted)
  BY <1>0 DEF ChoosesTwice
<1>8. CASE m \notin places
  <2>1. more = <<>> /\ w = <<>>
    BY <1>1, <1>2, <1>8
  <2>2. d = c
    BY <2>1, <1>5, <1>6
  <2>3. Chosen(t, wanted) = Chosen(s, wanted)
    BY <2>1, <1>4, <1>6
  <2>. QED
    BY <2>2, <2>3, <1>7
<1>9. CASE m \in places
  <2>1. PICK k : k = Len(c) + 1
    OBVIOUS
  <2>2. d = Append(c, x)
    BY <1>1, <1>5, <1>6, <1>9
  <2>3. /\ DOMAIN c = 1 .. Len(c) /\ DOMAIN d = 1 .. k /\ d[k] = x /\ k \in Nat /\ Len(c) \in Nat
        /\ \A i \in 1 .. Len(c) : d[i] = c[i]
    BY <2>1, <2>2, <1>1, <1>6, AppendProperties
  <2>4. \A i \in 1 .. Len(c) : i \in KeptOf(N, d) <=> i \in KeptOf(N, c)
    BY <2>1, <2>3 DEF KeptOf
  <2>5. k \in KeptOf(N, d) <=> m \in wanted
    BY <2>1, <2>3, <1>9 DEF KeptOf
  <2>6. OneChosen(S, c, d, k, x, KeptOf(N, c), KeptOf(N, d), w)
    BY <2>1, <2>2, <2>4, <2>5, <1>1, <1>2, <1>6 DEF OneChosen
  <2>7. PICK kept, keptNext : kept = KeptOf(N, c) /\ keptNext = KeptOf(N, d)
    OBVIOUS
  <2>8. OneChosen(S, c, d, k, x, kept, keptNext, w)
    BY <2>6, <2>7
  <2>9. Chosen(d, keptNext) = Chosen(c, kept) \o w
    BY <2>8, ChosenNext
  <2>. QED
    BY <2>7, <2>9, <1>4, <1>7
<1>. QED
  BY <1>8, <1>9

\* Nothing is chosen from nothing.
LEMMA NothingChosen ==
  ASSUME NEW none, none = <<>>, NEW places
  PROVE  Chosen(none, places) = <<>>
<1>1. none \in Seq(Nat) /\ DOMAIN none = {}
  OBVIOUS
<1>2. PICK s \in Seq(Nat) : s = none /\ DOMAIN s = {}
  BY <1>1
<1>3. /\ Chosen(s, places) \in Seq(Nat)
      /\ ToSet(Chosen(s, places)) = {s[i] : i \in DOMAIN s \cap places}
  BY ChosenIs, Zenon
<1>4. ToSet(Chosen(s, places)) = {}
  BY <1>2, <1>3
<1>5. Chosen(s, places) = <<>>
  BY <1>3, <1>4, NoMembers, Zenon
<1>. QED
  BY <1>2, <1>5

\* Choosing again among what was chosen.
LEMMA ChosenTwice ==
  ASSUME NEW S, NEW s \in Seq(S), NEW places, NEW N, NEW c, c = Chosen(s, places)
  PROVE  Chosen(c, KeptOf(N, c)) = Chosen(s, ChoiceOf(places, N, s))
<1>. DEFINE First(n) == SubSeq(s, 1, n)
            wanted == ChoiceOf(places, N, s)
            Twice(n) == Chosen(Chosen(First(n), places), KeptOf(N, Chosen(First(n), places)))
                          = Chosen(First(n), wanted)
            I == {n \in Nat : n <= Len(s) => Twice(n)}
<1>1. 0 \in I
  <2>1. PICK none : none = First(0)
    OBVIOUS
  <2>2. none = <<>>
    BY <2>1
  <2>3. Chosen(none, places) = none /\ Chosen(none, wanted) = none /\ Chosen(none, KeptOf(N, none)) = none
    BY Zenon, <2>2, NothingChosen
  <2>4. Twice(0)
    BY Zenon, <2>1, <2>3
  <2>. QED
    BY <2>4
<1>2. ASSUME NEW n \in Nat, n \in I PROVE n + 1 \in I
  <2>1. PICK m \in Nat : m = n + 1
    OBVIOUS
  <2>. SUFFICES ASSUME m <= Len(s) PROVE Twice(m)
    BY <2>1
  <2>2. Twice(n)
    BY <2>1, <1>2
  <2>3. PICK a, b, x, more : /\ a = First(n) /\ b = First(m) /\ x = s[m]
                             /\ more = IF m \in places THEN <<x>> ELSE <<>>
    OBVIOUS
  <2>4. a \in Seq(S) /\ x \in S /\ b = Append(a, x) /\ m = Len(a) + 1
    BY <2>1, <2>3
  <2>5. OneChosen(S, a, b, m, x, places, places, more)
    BY <2>3, <2>4 DEF OneChosen
  <2>6. m \in wanted <=> m \in places /\ x \in N
    BY <2>3 DEF ChoiceOf
  <2>7. ChoosesTwice(a, places, wanted, N)
    BY Zenon, <2>2, <2>3 DEF ChoosesTwice
  <2>. HIDE DEF wanted
  <2>8. ChoosesTwice(b, places, wanted, N)
    BY <2>5, <2>6, <2>7, ChosenTwiceNext
  <2>. QED
    BY Zenon, <2>3, <2>8 DEF ChoosesTwice
<1>3. \A n \in Nat : n \in I
  <2>. HIDE DEF I
  <2>. QED BY <1>1, <1>2, SetInduction
<1>4. Len(s) \in Nat /\ First(Len(s)) = s
  OBVIOUS
<1>5. Twice(Len(s))
  <2>. HIDE DEF Twice
  <2>. QED
    BY <1>3, <1>4
<1>. QED
  BY Zenon, <1>4, <1>5

\* Of what is on a pixel, the draws in place are those that were asked for.
LEMMA InPlaceIsAsked ==
  ASSUME NEW D, IsReach(D), NEW p
  PROVE  InPlace(Reached(D, p)) = InPlace(Expected(p))
<1>1. PICK s, N, there, wanted :
        /\ s = [i \in DOMAIN D |-> i] /\ N = {i \in DOMAIN D : ~ log[i].displaced}
        /\ there = {i \in DOMAIN D : p \in D[i]}
        /\ wanted = {i \in DOMAIN log : p \in log[i].pixels \cap log[i].clip}
  OBVIOUS
<1>2. s \in Seq(Nat) /\ DOMAIN s = DOMAIN D /\ DOMAIN log = DOMAIN D /\ \A i \in DOMAIN s : s[i] = i
  BY <1>1 DEF IsReach
<1>3. Reached(D, p) = Chosen(s, there) /\ Expected(p) = Chosen(s, wanted)
  BY <1>1, <1>2 DEF Reached, Expected
<1>4. ASSUME NEW places, NEW c, c = Chosen(s, places)
      PROVE  InPlace(c) = Chosen(s, ChoiceOf(places, N, s))
  <2>1. c \in Seq(Nat) /\ ToSet(c) = {s[i] : i \in DOMAIN s \cap places}
    BY <1>2, <1>4, ChosenIs
  <2>2. \A k \in DOMAIN c : c[k] \in DOMAIN D
    <3>1. ASSUME NEW k \in DOMAIN c PROVE c[k] \in DOMAIN D
      <4>1. c[k] \in ToSet(c)
        BY <3>1 DEF ToSet
      <4>2. PICK i \in DOMAIN s : c[k] = s[i]
        BY <4>1, <2>1
      <4>. QED
        BY <4>2, <1>2
    <3>. QED
      BY <3>1
  <2>3. {k \in DOMAIN c : ~ log[c[k]].displaced} = KeptOf(N, c)
    BY <2>2, <1>1 DEF KeptOf
  <2>4. Chosen(c, KeptOf(N, c)) = Chosen(s, ChoiceOf(places, N, s))
    BY <1>2, <1>4, ChosenTwice
  <2>. QED
    BY <2>3, <2>4 DEF InPlace
<1>5. ChoiceOf(there, N, s) = ChoiceOf(wanted, N, s)
  BY <1>1, <1>2 DEF IsReach, ChoiceOf
<1>. QED
  BY <1>3, <1>4, <1>5

\* The invariant of the recording says that the rendered frame is the one asked for.
LEMMA InvIsRight ==
  ASSUME RecordedInv
  PROVE  FrameIsRight
<1>. SUFFICES ASSUME Recording, NEW p \in Surface PROVE InPlace(Textures[1][p]) = InPlace(Expected(p))
  BY DEF FrameIsRight
<1>1. layerStack # <<>> /\ StateTypes /\ FrameInv(layers, draws, msaa) /\ OpenInv(layerStack, layers, draws)
  BY DEF RecordedInv, StateInv, Recording
<1>2. layers \in Seq(Layers) /\ draws \in Seq(Draws) /\ msaa \in BOOLEAN /\ layerStack \in Seq(Nat)
      /\ \A s \in DOMAIN layerStack : layerStack[s] \in DOMAIN layers
  BY <1>1 DEF StateTypes
<1>3. 1 \in DOMAIN layers /\ layers[1].bounds = Surface
  <2>1. 1 \in DOMAIN layerStack
    BY <1>1, <1>2
  <2>2. layerStack[1] = 1 /\ layers[1].bounds = Surface
    BY <1>1 DEF OpenInv
  <2>. QED
    BY <2>1, <2>2, <1>2
<1>4. layers # <<>>
  BY <1>3
<1>5. PICK R, D : /\ Pictures(layers, draws, R) /\ IsReach(D)
                  /\ \A q \in Surface : R[1][q] = Reached(D, q)
  BY <1>4 DEF RecordedInv, ShownIsAsked
<1>6. RightAbove(Textures, R, 0)
  BY <1>1, <1>2, <1>5, FrameRenders
<1>7. Textures[1][p] = R[1][p]
  BY <1>3, <1>6 DEF RightAbove
<1>8. InPlace(Reached(D, p)) = InPlace(Expected(p))
  BY <1>5, InPlaceIsAsked
<1>. QED
  BY <1>5, <1>7, <1>8

\* The frame on the surface is the frame that was asked for, but for where a
\* DrawPaint under a matrix of its layer is.
THEOREM FramesAreRight ==
  ASSUME BalancedFrames, LayersFit
  PROVE  Spec => []FrameIsRight
<1>1. Spec => []RecordedInv
  BY RecordingIsRight
<1>2. RecordedInv => FrameIsRight
  BY InvIsRight
<1>. QED
  BY <1>1, <1>2, PTL
=============================================================================

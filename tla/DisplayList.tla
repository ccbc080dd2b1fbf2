---------------------------- MODULE DisplayList ----------------------------
(***************************************************************************)
(* The recorder (src/src/recorder).  A RecordingCanvas turns the calls of  *)
(* the application into operations, pairs every Save with the Restore that *)
(* closes it, and accumulates for every draw the rectangle of the device   *)
(* it covers.  A finished DisplayList replays all of its operations, or    *)
(* only those whose rectangles meet a cull rectangle, with the state they  *)
(* need.                                                                   *)
(*                                                                         *)
(* A picture is a row of pixels (PictureRow) and matrices translate.  What *)
(* the canvas that replays a list shows is the set of pairs <<draw, pixel>>*)
(* it paints: replays keep the order of the draws, so that two replays     *)
(* with the same pairs are the same picture.  The offset of an operation   *)
(* is its place in the list.                                               *)
(***************************************************************************)
EXTENDS PictureRow, Sequences, SequencesExt

CONSTANTS Shapes,          \* the regions that are drawn and clipped to
          Recorded,        \* the bounds of a recording
          DrawTypes,       \* the kinds of draws: "shape", "glyphs", "paint"
          LayerPaints,     \* the paints of layers: "plain" leaves what is drawn
                           \* in the layer where it is, "filter" spreads it,
                           \* "blend" changes all of the layer's region
          Deltas,          \* the translations
          MaxOps,          \* bound: the operations of a recording
          MaxRecordings    \* bound: the recordings of one recorder

ASSUME DisplayListAssumption ==
    /\ Width \in Nat \ {0}
    /\ Shapes \subseteq SUBSET (0 .. Width - 1)
    /\ {} \notin Shapes
    /\ Recorded \subseteq SUBSET (0 .. Width - 1)
    /\ DrawTypes \subseteq {"shape", "glyphs", "paint"}
    /\ LayerPaints \subseteq {"plain", "filter", "blend"}
    /\ Deltas \subseteq Int
    /\ MaxOps \in Nat
    /\ MaxRecordings \in Nat

VARIABLES
    stack,       \* CanvasState and global_clip_bounds_stack_ of the canvas
    recording,   \* dp_builder_ is there
    cullRect,    \* DisplayListBuilder::cull_rect_
    ops,         \* DisplayListBuilder::storage_
    saveOps,     \* DisplayListBuilder::save_op_stack_
    spatialOps,  \* DisplayListBuilder::spatial_ops_
    bounds,      \* DisplayListBuilder::bounds_
    finished,    \* the DisplayLists handed out: none, or the last one
    recordings   \* how many recordings were begun

vars == <<stack, recording, cullRect, ops, saveOps, spatialOps, bounds,
          finished, recordings>>

builder == <<cullRect, ops, saveOps, spatialOps, bounds>>

(***************************************************************************)
(* Regions and matrices                                                    *)
(***************************************************************************)

(* kMaxCullRect *)
Everywhere == (-2) * Width .. 3 * Width

(* Matrix::MapRect *)
Moved(region, by) == {p + by : p \in region}

Top(s) == s[Len(s)]

(***************************************************************************)
(* Canvas calls.  An operation carries the region it draws, clips to or    *)
(* gives a layer, the translation, the paint of a layer, and for a save    *)
(* the place of its restore.                                               *)
(***************************************************************************)

Op(type, region, by) ==
    [type |-> type, region |-> region, by |-> by, paint |-> "plain", restore |-> 0]

SaveTypes == {"save", "saveLayer"}

StateTypes == {"translate", "resetMatrix", "clip", "clipOut"}

(* CalculateGlobalClipBounds: the recorder tracks rectangles and ignores   *)
(* ClipOp::kDifference.                                                    *)
TrackedClip(clip, type, device) ==
    IF type = "clipOut" THEN clip ELSE clip \cap Hull(device)

(* What a canvas that draws clips to: the region itself.                   *)
ExactClip(clip, type, device) ==
    IF type = "clipOut" THEN clip \ device ELSE clip \cap device

(* The state of a canvas after a call.  Matrices are kept as the matrix to *)
(* the device (matrix) and the one of the innermost saved layer (world).   *)
(* `exact` tells a canvas that draws from the recorder, which only tracks   *)
(* bounds.                                                                 *)
Called(s, op, exact) ==
    LET top == Top(s)
        device == Moved(op.region, top.matrix)
        clipped(type) == IF exact THEN ExactClip(top.clip, type, device)
                         ELSE TrackedClip(top.clip, type, device)
        Change(entry) == [s EXCEPT ![Len(s)] = entry]
    IN  CASE op.type = "save" -> Append(s, top)
          [] op.type = "saveLayer" ->
               Append(s, [matrix |-> top.matrix, world |-> top.matrix,
                          clip |-> clipped("clip")])
          [] op.type = "restore" -> IF Len(s) > 1 THEN Front(s) ELSE s
          [] op.type = "translate" -> Change([top EXCEPT !.matrix = @ + op.by])
          [] op.type = "resetMatrix" -> Change([top EXCEPT !.matrix = top.world])
          [] op.type \in {"clip", "clipOut"} ->
               Change([top EXCEPT !.clip = clipped(op.type)])
          [] OTHER -> s

FreshStack == <<[matrix |-> 0, world |-> 0, clip |-> Everywhere]>>

(***************************************************************************)
(* Recording                                                               *)
(***************************************************************************)

Init ==
    /\ stack = FreshStack
    /\ recording = FALSE
    /\ cullRect = {}
    /\ ops = <<>>
    /\ saveOps = <<>>
    /\ spatialOps = {}
    /\ bounds = {}
    /\ finished = {}
    /\ recordings = 0

(* PictureRecorder::BeginRecording makes a builder and binds the canvas,   *)
(* which goes on with the state of the last recording.                     *)
BeginRecording(rect) ==
    /\ recordings < MaxRecordings
    /\ recordings' = recordings + 1
    /\ recording' = TRUE
    /\ cullRect' = rect
    /\ ops' = <<>>
    /\ saveOps' = <<>>
    /\ spatialOps' = {}
    /\ bounds' = {}
    /\ stack' = Called(stack, Op("clip", rect, 0), FALSE)
    /\ UNCHANGED finished

(* A call of the application that adds n operations: Canvas follows its    *)
(* own state.                                                              *)
Call(newStack, n) ==
    /\ recording
    /\ Len(ops) + n <= MaxOps
    /\ stack' = newStack
    /\ UNCHANGED <<recording, cullRect, finished, recordings>>

(* RecordingCanvas::Push                                                   *)
Push(op) == Call(Called(stack, op, FALSE), 1) /\ ops' = Append(ops, op)

Unpainted == UNCHANGED <<spatialOps, bounds>>

Save ==
    /\ Push(Op("save", {}, 0))
    /\ saveOps' = Append(saveOps, Len(ops) + 1)
    /\ Unpainted

QuickReject(region) ==
    Moved(region, Top(stack).matrix) \cap Top(stack).clip = {}

LayerOp(rect, paint) == [Op("saveLayer", rect, 0) EXCEPT !.paint = paint]

(* The paint is recorded with the layer; no bounds are accumulated for it. *)
SaveLayer(rect, paint) ==
    /\ ~QuickReject(rect)
    /\ Push(LayerOp(rect, paint))
    /\ saveOps' = Append(saveOps, Len(ops) + 1)
    /\ Unpainted

(* A layer outside of the clip is a Save and a clip to nothing.            *)
RejectedSaveLayer(rect) ==
    LET save == Op("save", {}, 0)
        clip == Op("clip", {}, 0)
    IN  /\ QuickReject(rect)
        /\ Call(Called(Called(stack, save, FALSE), clip, FALSE), 2)
        /\ ops' = Append(Append(ops, save), clip)
        /\ saveOps' = Append(saveOps, Len(ops) + 1)
        /\ Unpainted

(* OnRestore, SetSaveRestoreOffset: Canvas::Restore does nothing without a *)
(* save, and a restore of a save of an earlier recording closes none of    *)
(* this one.                                                               *)
Closed(list, save, at) == [list EXCEPT ![save].restore = at]

(* Seeded fault: a restore closes the oldest save.                         *)
RestoreOfTheOldest ==
    LET pushed == Append(ops, Op("restore", {}, 0))
    IN  /\ Len(stack) > 1
        /\ Call(Called(stack, Op("restore", {}, 0), FALSE), 1)
        /\ IF saveOps = <<>>
           THEN ops' = pushed /\ UNCHANGED saveOps
           ELSE /\ ops' = Closed(pushed, Head(saveOps), Len(pushed))
                /\ saveOps' = Tail(saveOps)
        /\ Unpainted

Restore ==
    LET pushed == Append(ops, Op("restore", {}, 0))
    IN  /\ Len(stack) > 1
        /\ Call(Called(stack, Op("restore", {}, 0), FALSE), 1)
        /\ IF saveOps = <<>>
           THEN ops' = pushed /\ UNCHANGED saveOps
           ELSE /\ ops' = Closed(pushed, Top(saveOps), Len(pushed))
                /\ saveOps' = Front(saveOps)
        /\ Unpainted

StateCall(op) ==
    /\ Push(op)
    /\ UNCHANGED saveOps
    /\ Unpainted

Translate(by) ==
    /\ Top(stack).matrix + by \in -Width .. Width
    /\ StateCall(Op("translate", {}, by))

ResetMatrix == StateCall(Op("resetMatrix", {}, 0))

ClipTo(region) == StateCall(Op("clip", region, 0))

ClipOut(region) == StateCall(Op("clipOut", region, 0))

(* The bounds a draw passes to AccumulateOpBounds: those of what it draws, *)
(* or for glyphs and DrawPaint the clip bounds of the canvas.              *)
RawBounds(type, region) ==
    IF type = "shape" THEN Hull(region) ELSE Top(stack).clip

(* Seeded fault: the bounds of the list are those of its last draw.        *)
AccumulateLastBounds(raw) ==
    LET mapped == Moved(raw, Top(stack).matrix) \cap Top(stack).clip
    IN  IF mapped = {}
        THEN Unpainted
        ELSE /\ spatialOps' = spatialOps \cup {[at |-> Len(ops) + 1, rect |-> mapped]}
             /\ bounds' = mapped

AccumulateOpBounds(raw) ==
    LET mapped == Moved(raw, Top(stack).matrix) \cap Top(stack).clip
    IN  IF mapped = {}
        THEN Unpainted
        ELSE /\ spatialOps' = spatialOps \cup {[at |-> Len(ops) + 1, rect |-> mapped]}
             /\ bounds' = Hull(bounds \cup mapped)

(* DrawPaint is given no region. *)
Drawable(type) == IF type = "paint" THEN {{}} ELSE Shapes

Draw(type, region) ==
    /\ Push(Op(type, region, 0))
    /\ AccumulateOpBounds(RawBounds(type, region))
    /\ UNCHANGED saveOps

(* PictureRecorder::FinishRecording: what is still saved is closed at the  *)
(* end of the list.                                                        *)
ClosedAtTheEnd ==
    [i \in DOMAIN ops |-> IF i \in ToSet(saveOps) THEN [ops[i] EXCEPT !.restore = Len(ops) + 1]
                          ELSE ops[i]]

FinishRecording ==
    /\ recording
    /\ finished' = {[ops |-> ClosedAtTheEnd, spatialOps |-> spatialOps, bounds |-> bounds,
                     cullRect |-> cullRect]}
    /\ recording' = FALSE
    /\ cullRect' = {}
    /\ ops' = <<>>
    /\ saveOps' = <<>>
    /\ spatialOps' = {}
    /\ bounds' = {}
    /\ UNCHANGED <<stack, recordings>>

Next ==
    \/ \E rect \in Recorded : BeginRecording(rect)
    \/ Save
    \/ \E region \in Shapes, paint \in LayerPaints : SaveLayer(Hull(region), paint)
    \/ \E region \in Shapes : RejectedSaveLayer(Hull(region))
    \/ Restore
    \/ \E by \in Deltas : Translate(by)
    \/ ResetMatrix
    \/ \E region \in Shapes : ClipTo(region)
    \/ \E region \in Shapes : ClipOut(region)
    \/ \E type \in DrawTypes : \E region \in Drawable(type) : Draw(type, region)
    \/ FinishRecording

Spec == Init /\ [][Next]_vars

(***************************************************************************)
(* Replaying.  Search returns the draws whose rectangles meet the cull     *)
(* rectangle (DisplayListRTree).                                           *)
(***************************************************************************)

Search(list, rect) ==
    {item.at : item \in {s \in list.spatialOps : s.rect \cap rect /= {}}}

Never(list) == Len(list.ops) + 2

(* The replay so far: its open scopes, where the innermost of them ends,   *)
(* and the places of the operations it called.                             *)
ReplayIf(needed, r, i) == IF needed THEN [r EXCEPT !.calls = Append(@, i)] ELSE r

OpenScope(r, i, restore, needed) ==
    ReplayIf(needed,
             [saves |-> Append(r.saves, [outer |-> r.scopeEnd, restore |-> restore,
                                         needed |-> needed]),
              scopeEnd |-> restore, calls |-> r.calls], i)

(* Seeded fault: the end of the outer scope is forgotten.                  *)
CloseScopeOnly(r) == [r EXCEPT !.saves = Front(@)]

CloseScope(r) ==
    [saves |-> Front(r.saves), scopeEnd |-> Top(r.saves).outer, calls |-> r.calls]

(* Seeded fault: every restore is replayed.                                *)
AlwaysRestore(r, i) ==
    IF r.saves /= <<>> /\ Top(r.saves).restore = i
    THEN ReplayIf(TRUE, CloseScope(r), i)
    ELSE r

AtRestore(r, i) ==
    IF r.saves /= <<>> /\ Top(r.saves).restore = i
    THEN ReplayIf(Top(r.saves).needed, CloseScope(r), i)
    ELSE r

NextTarget(list, targets, i) == Min({t \in targets : t >= i} \cup {Never(list)})

(* Inside the scope of a save, state is replayed for as long as a draw is  *)
(* left in that scope; the save is replayed if one is, and then so is its  *)
(* restore.                                                                *)
ReplayStep(list, targets, r, i) ==
    LET op == list.ops[i]
        next == NextTarget(list, targets, i)
    IN  CASE op.type \in SaveTypes -> OpenScope(r, i, op.restore, next < op.restore)
          [] op.type = "restore" -> AtRestore(r, i)
          [] op.type \in StateTypes -> ReplayIf(next < r.scopeEnd, r, i)
          [] OTHER -> ReplayIf(i = next, r, i)

(* Draw(canvas, cull_rect): the places of the operations it calls.         *)
Replay(list, targets) ==
    LET r[i \in 0 .. Len(list.ops)] ==
            IF i = 0 THEN [saves |-> <<>>, scopeEnd |-> Never(list), calls |-> <<>>]
            ELSE ReplayStep(list, targets, r[i - 1], i)
    IN  r[Len(list.ops)].calls

CulledReplay(list, rect) ==
    LET targets == Search(list, rect)
    IN  IF targets = {} THEN <<>> ELSE Replay(list, targets)

(* Draw(canvas)                                                            *)
FullReplay(list) == [i \in DOMAIN list.ops |-> i]

(* What is drawn after another call, each draw into its layer: a draw      *)
(* paints its region, DrawPaint the clip.                                  *)
Paint(list, r, i) ==
    LET op == list.ops[i]
        top == Top(r.stack)
        filled == IF op.type = "paint" THEN top.clip
                  ELSE Moved(op.region, top.matrix) \cap top.clip
    IN  IF op.type \in {"shape", "glyphs", "paint"}
        THEN [r EXCEPT !.pixels = @ \cup ({i} \X filled),
                       !.moved = @ \cup (IF top.matrix = 0 THEN {} ELSE {i})]
        ELSE [r EXCEPT !.stack = Called(@, op, TRUE)]

(* What is drawn after the given calls.                                    *)
Shown(list, calls) ==
    LET r[k \in 0 .. Len(calls)] ==
            IF k = 0 THEN [stack |-> FreshStack, pixels |-> {}, moved |-> {}]
            ELSE Paint(list, r[k - 1], calls[k])
    IN  r[Len(calls)]

(* The clip of the canvas when the calls before an operation were made.    *)
ClipBefore(list, calls, i) ==
    LET before == {k \in DOMAIN calls : calls[k] < i}
    IN  Top(Shown(list, SubSeq(calls, 1, Cardinality(before))).stack).clip

(* The layers with a filter that an operation is in.                       *)
Filters(list, i) ==
    {s \in 1 .. i - 1 : list.ops[s].paint = "filter" /\ list.ops[s].restore > i}

(* What the canvas shows once the layers are drawn with their paints.  A   *)
(* blend mode such as kSrc or kDstIn changes all of the layer's region,    *)
(* also where nothing is drawn in it; a filter shows what is drawn below   *)
(* it anywhere in the clip outside of the layer.                           *)
Composed(list, calls) ==
    LET blends == {s \in ToSet(calls) : list.ops[s].paint = "blend"}
        drawn == Shown(list, calls).pixels
                   \cup UNION {{s} \X ClipBefore(list, calls, s + 1) : s \in blends}
        spread == {i \in {pair[1] : pair \in drawn} : Filters(list, i) /= {}}
    IN  {pair \in drawn : pair[1] \notin spread}
          \cup UNION {{i} \X ClipBefore(list, calls, Min(Filters(list, i))) : i \in spread}

(***************************************************************************)
(* Properties                                                              *)
(***************************************************************************)

OpType == [type : SaveTypes \cup StateTypes \cup DrawTypes \cup {"restore"},
           region : SUBSET Picture, by : Deltas \cup {0},
           paint : LayerPaints \cup {"plain"}, restore : 0 .. MaxOps + 1]

(* The canvas, the builder and the list handed out have the types the code *)
(* gives them: places are those of operations, clips are rectangles.       *)
TypeOK ==
    /\ \A i \in DOMAIN stack :
         /\ stack[i].matrix \in -Width .. Width /\ stack[i].world \in -Width .. Width
         /\ stack[i].clip = Hull(stack[i].clip) /\ stack[i].clip \subseteq Everywhere
    /\ stack /= <<>>
    /\ recording \in BOOLEAN
    /\ Len(ops) <= MaxOps
    /\ \A i \in DOMAIN ops : ops[i] \in OpType
    /\ \A i \in DOMAIN saveOps : ops[saveOps[i]].type \in SaveTypes
    /\ \A s \in spatialOps : ops[s.at].type \in DrawTypes /\ s.rect /= {}
    /\ bounds = Hull(bounds)
    /\ recordings \in 0 .. MaxRecordings

(* What the recorded rectangles are wrong about: the glyphs and DrawPaints *)
(* recorded under a matrix, whose clip bounds AccumulateOpBounds maps by   *)
(* the matrix again; whatever is in a layer with a filter, and a layer     *)
(* with a blend mode, since OnSaveLayer accumulates no bounds for the      *)
(* paint of a layer.                                                       *)
Misplaced(list) ==
    LET moved == Shown(list, FullReplay(list)).moved
    IN  {i \in moved : list.ops[i].type /= "shape"}
          \cup {i \in DOMAIN list.ops : Filters(list, i) /= {} \/ list.ops[i].paint = "blend"}

(* A pixel of the recorded content that a rectangle holds shows the given  *)
(* operations, whether the list is replayed as a whole or culled to it.    *)
SameInside(list, operations) ==
    LET whole == Composed(list, FullReplay(list))
    IN  \A rect \in Rects :
          LET inside == operations \X (rect \cap list.cullRect)
          IN  Composed(list, CulledReplay(list, rect)) \cap inside = whole \cap inside

(* DisplayList::Draw with a cull rectangle skips the draws, the saves and  *)
(* the state outside of it, over a tracked clip that is only a bound: what *)
(* it shows inside of the rectangle is what the whole list shows, for all  *)
(* operations but the misplaced ones: glyphs and DrawPaints recorded under *)
(* a matrix, the contents of layers with a filter, and what the blend mode *)
(* of a layer does to the region of the layer.                             *)
CulledReplayShowsTheRect ==
    \A list \in finished : SameInside(list, DOMAIN list.ops \ Misplaced(list))

(* The same of every operation.                                            *)
EveryDrawIsInItsRect ==
    \A list \in finished : SameInside(list, DOMAIN list.ops)

(* DisplayList::GetBounds covers what the list shows of its content, for   *)
(* all operations but the misplaced ones: glyphs and DrawPaints recorded   *)
(* under a matrix, the contents of layers with a filter, and what the      *)
(* blend mode of a layer does to the region of the layer.                  *)
DrawingIsInBounds ==
    \A list \in finished :
        LET shown == (DOMAIN list.ops \ Misplaced(list)) \X list.cullRect
        IN  \A pair \in Composed(list, FullReplay(list)) \cap shown :
              pair[2] \in list.bounds

(* A culled replay leaves the saves of the canvas it draws to alone: it    *)
(* restores what it saved, and nothing else.                               *)
CulledReplayIsBalanced ==
    \A list \in finished : \A rect \in Rects :
        LET calls == ToSet(CulledReplay(list, rect))
        IN  \A i, j \in DOMAIN list.ops :
              (list.ops[i].type \in SaveTypes /\ list.ops[i].restore = j)
              => (i \in calls <=> j \in calls)
=============================================================================

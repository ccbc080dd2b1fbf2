------------------------- MODULE DisplayListRegion -------------------------
(***************************************************************************)
(* DisplayListRegion (src/src/recorder/display_list_region.cc): an area of *)
(* the device, kept as lines of spans.  It is built from rectangles by a   *)
(* sweep from top to bottom, two of them are united and intersected by     *)
(* walking their lines in step, and it is asked for disjoint rectangles    *)
(* that cover it and for what it meets.                                    *)
(*                                                                         *)
(* The machine of this module builds regions and combines them; cells is   *)
(* the area as a set of pixels, which the code does not have, and the      *)
(* properties compare the two.                                             *)
(***************************************************************************)
EXTENDS Integers, FiniteSets, Sequences, SequencesExt, FiniteSetsExt

CONSTANTS Inputs,                 \* the rectangles a caller passes, in half pixels
          BinarySearchThreshold   \* kBinarySearchThreshold (10 in the code)

ASSUME RegionAssumption ==
    /\ Inputs \subseteq [left : Nat, top : Nat, right : Nat, bottom : Nat]
    /\ BinarySearchThreshold \in Nat

VARIABLES area, cells

areaVars == <<area, cells>>

(***************************************************************************)
(* Rectangles                                                              *)
(***************************************************************************)

Least(a, b) == IF a < b THEN a ELSE b
Greatest(a, b) == IF a > b THEN a ELSE b

MakeRect(l, t, r, b) == [left |-> l, top |-> t, right |-> r, bottom |-> b]

IsEmptyRect(r) == ~(r.left < r.right /\ r.top < r.bottom)

NoRect == MakeRect(0, 0, 0, 0)

Join(a, b) ==
    IF IsEmptyRect(b) THEN a
    ELSE IF IsEmptyRect(a) THEN b
    ELSE MakeRect(Least(a.left, b.left), Least(a.top, b.top),
                  Greatest(a.right, b.right), Greatest(a.bottom, b.bottom))

Meet(a, b) == MakeRect(Greatest(a.left, b.left), Greatest(a.top, b.top),
                       Least(a.right, b.right), Least(a.bottom, b.bottom))

RectsIntersect(a, b) == ~IsEmptyRect(Meet(a, b))

ContainsRect(a, b) == /\ a.left <= b.left /\ b.right <= a.right
                      /\ a.top <= b.top /\ b.bottom <= a.bottom

(* From half pixels to the pixels around them (MakeSorted, RoundOut).      *)
NormalizeRect(r) ==
    LET n == MakeRect(Least(r.left, r.right) \div 2, Least(r.top, r.bottom) \div 2,
                      (Greatest(r.left, r.right) + 1) \div 2,
                      (Greatest(r.top, r.bottom) + 1) \div 2)
    IN  IF IsEmptyRect(n) THEN NoRect ELSE n

(***************************************************************************)
(* Lines of spans                                                          *)
(***************************************************************************)

EmptyRegion == [lines |-> <<>>, bounds |-> NoRect]

IsEmpty(a) == a.lines = <<>>

IsComplex(a) == \/ Len(a.lines) > 1
                \/ Len(a.lines) = 1 /\ Len(a.lines[1].spans) > 1

(* A line right below one with the same spans makes it taller.             *)
AppendLine(lines, top, bottom, spans) ==
    IF lines /= <<>> /\ Last(lines).bottom = top /\ Last(lines).spans = spans
    THEN [lines EXCEPT ![Len(lines)].bottom = bottom]
    ELSE Append(lines, [top |-> top, bottom |-> bottom, spans |-> spans])

(* Seeded fault: spans that touch are kept apart.                          *)
AccumulateApart(spans, span) ==
    IF spans = <<>> \/ span.left >= Last(spans).right
    THEN Append(spans, span)
    ELSE [spans EXCEPT ![Len(spans)].right = Greatest(@, span.right)]

(* OrderedSpanAccumulator: the next span from the left joins the last one  *)
(* if it reaches it.                                                       *)
Accumulate(spans, span) ==
    IF spans = <<>> \/ span.left > Last(spans).right
    THEN Append(spans, span)
    ELSE [spans EXCEPT ![Len(spans)].right = Greatest(@, span.right)]

(* The code keeps the rectangles it sweeps over in the order of their left *)
(* sides; which of two with the same one comes first makes no difference.  *)
Leftmost(rects) == CHOOSE r \in rects : \A other \in rects : r.left <= other.left

TakeLeftmost(w) ==
    LET r == Leftmost(w.rects)
    IN  [spans |-> Accumulate(w.spans, [left |-> r.left, right |-> r.right]),
         rects |-> w.rects \ {r}]

SpansOf(rects) ==
    LET walk[k \in 0 .. Cardinality(rects)] ==
            IF k = 0 THEN [spans |-> <<>>, rects |-> rects] ELSE TakeLeftmost(walk[k - 1])
    IN  walk[Cardinality(rects)].spans

LineBottom(now, rest) == Min({r.bottom : r \in now} \cup {r.top : r \in rest})

(* SetRects: the sweep goes on from y with the rectangles that are active  *)
(* and those still to come, and the line it makes ends where the first of  *)
(* them ends or the next one starts.                                       *)
SweepRound(w) ==
    LET kept == {r \in w.active : r.bottom > w.y}
        top == IF kept = {} THEN Min({r.top : r \in w.coming}) ELSE w.y
        now == kept \cup {r \in w.coming : r.top <= top}
        rest == w.coming \ now
        bottom == LineBottom(now, rest)
    IN  IF kept = {} /\ w.coming = {} THEN w
        ELSE [lines |-> AppendLine(w.lines, top, bottom, SpansOf(now)),
              active |-> now, coming |-> rest, y |-> bottom]

(* Each round takes the sweep further down, to the last bottom at most.    *)
Sweep(rects, bottom) ==
    LET walk[k \in 0 .. bottom] ==
            IF k = 0 THEN [lines |-> <<>>, active |-> {}, coming |-> rects, y |-> -1]
            ELSE SweepRound(walk[k - 1])
    IN  walk[bottom].lines

(* The rectangle around some that are not empty.                           *)
Around(rects) ==
    IF rects = {} THEN NoRect
    ELSE MakeRect(Min({r.left : r \in rects}), Min({r.top : r \in rects}),
                  Max({r.right : r \in rects}), Max({r.bottom : r \in rects}))

SetRects(rects) ==
    LET normalized == {NormalizeRect(r) : r \in rects} \ {NoRect}
    IN  [lines |-> Sweep(normalized, Around(normalized).bottom), bounds |-> Around(normalized)]

(***************************************************************************)
(* Union and intersection walk the spans, or lines, of both regions; i and *)
(* j are the next ones.  Of lines, what is above y is done.                *)
(***************************************************************************)

UnionSpan(s, t, w) ==
    IF w.j > Len(t) \/ (w.i <= Len(s) /\ s[w.i].left < t[w.j].left)
    THEN [w EXCEPT !.spans = Accumulate(@, s[w.i]), !.i = @ + 1]
    ELSE [w EXCEPT !.spans = Accumulate(@, t[w.j]), !.j = @ + 1]

UnionLineSpans(s, t) ==
    LET walk[k \in 0 .. Len(s) + Len(t)] ==
            IF k = 0 THEN [spans |-> <<>>, i |-> 1, j |-> 1] ELSE UnionSpan(s, t, walk[k - 1])
    IN  walk[Len(s) + Len(t)].spans

(* The line after one that ends at y.                                      *)
After(lines, i, y) == IF lines[i].bottom = y THEN i + 1 ELSE i

UnionRound(as, bs, w) ==
    LET a == as[w.i]
        b == bs[w.j]
        aTop == Greatest(w.y, a.top)
        bTop == Greatest(w.y, b.top)
        bottom == Least(a.bottom, b.bottom)
    IN  IF w.i > Len(as) /\ w.j > Len(bs) THEN w
        ELSE IF w.j > Len(bs) \/ (w.i <= Len(as) /\ a.bottom <= bTop)
        THEN [w EXCEPT !.lines = AppendLine(@, aTop, a.bottom, a.spans), !.i = @ + 1]
        ELSE IF w.i > Len(as) \/ b.bottom <= aTop
        THEN [w EXCEPT !.lines = AppendLine(@, bTop, b.bottom, b.spans), !.j = @ + 1]
        ELSE IF aTop < bTop
        THEN [w EXCEPT !.lines = AppendLine(@, aTop, bTop, a.spans), !.y = bTop]
        ELSE IF bTop < aTop
        THEN [w EXCEPT !.lines = AppendLine(@, bTop, aTop, b.spans), !.y = aTop]
        ELSE [lines |-> AppendLine(w.lines, aTop, bottom, UnionLineSpans(a.spans, b.spans)),
              i |-> After(as, w.i, bottom), j |-> After(bs, w.j, bottom), y |-> bottom]

(* Each round is done with a line or takes y further down.                 *)
UnionLines(as, bs, bottom) ==
    LET rounds == Len(as) + Len(bs) + bottom + 1
        walk[k \in 0 .. rounds] ==
            IF k = 0 THEN [lines |-> <<>>, i |-> 1, j |-> 1, y |-> -1]
            ELSE UnionRound(as, bs, walk[k - 1])
    IN  walk[rounds].lines

(* Seeded fault: bounds that hold the other region are enough.             *)
UnionByBounds(a, b) ==
    IF IsEmpty(a) THEN b
    ELSE IF IsEmpty(b) THEN a
    ELSE IF ContainsRect(a.bounds, b.bounds) THEN a
    ELSE IF ContainsRect(b.bounds, a.bounds) THEN b
    ELSE [lines |-> UnionLines(a.lines, b.lines, Join(a.bounds, b.bounds).bottom),
          bounds |-> Join(a.bounds, b.bounds)]

MakeUnion(a, b) ==
    IF IsEmpty(a) THEN b
    ELSE IF IsEmpty(b) THEN a
    ELSE IF ~IsComplex(a) /\ ContainsRect(a.bounds, b.bounds) THEN a
    ELSE IF ~IsComplex(b) /\ ContainsRect(b.bounds, a.bounds) THEN b
    ELSE [lines |-> UnionLines(a.lines, b.lines, Join(a.bounds, b.bounds).bottom),
          bounds |-> Join(a.bounds, b.bounds)]

MeetSpan(s, t, w) ==
    LET right == Least(s[w.i].right, t[w.j].right)
    IN  IF w.i > Len(s) \/ w.j > Len(t) THEN w
        ELSE IF s[w.i].right <= t[w.j].left THEN [w EXCEPT !.i = @ + 1]
        ELSE IF t[w.j].right <= s[w.i].left THEN [w EXCEPT !.j = @ + 1]
        ELSE [spans |-> Append(w.spans, [left |-> Greatest(s[w.i].left, t[w.j].left),
                                         right |-> right]),
              i |-> IF s[w.i].right = right THEN w.i + 1 ELSE w.i,
              j |-> IF t[w.j].right = right THEN w.j + 1 ELSE w.j]

IntersectLineSpans(s, t) ==
    LET walk[k \in 0 .. Len(s) + Len(t)] ==
            IF k = 0 THEN [spans |-> <<>>, i |-> 1, j |-> 1] ELSE MeetSpan(s, t, walk[k - 1])
    IN  walk[Len(s) + Len(t)].spans

(* The first line that ends below y, from a line on.                       *)
FirstBelow(lines, from, y) ==
    Min({i \in from .. Len(lines) : lines[i].bottom > y} \cup {Len(lines) + 1})

EndsAbove(lines, y) ==
    /\ Len(lines) > BinarySearchThreshold
    /\ lines[BinarySearchThreshold + 1].bottom <= y

Skipped(lines, y) == FirstBelow(lines, BinarySearchThreshold + 2, y)

(* GetIntersectionIterators: of two regions with lines, skip many at once. *)
FirstLines(as, bs) ==
    IF EndsAbove(as, Head(bs).top) THEN [i |-> Skipped(as, Head(bs).top), j |-> 1]
    ELSE IF EndsAbove(bs, Head(as).top) THEN [i |-> 1, j |-> Skipped(bs, Head(as).top)]
    ELSE [i |-> 1, j |-> 1]

MeetRound(as, bs, w) ==
    LET a == as[w.i]
        b == bs[w.j]
        top == Greatest(w.y, Greatest(a.top, b.top))
        bottom == Least(a.bottom, b.bottom)
        spans == IntersectLineSpans(a.spans, b.spans)
        found == IF spans = <<>> THEN w.found
                 ELSE [lines |-> AppendLine(w.found.lines, top, bottom, spans),
                       bounds |-> Join(w.found.bounds, MakeRect(Head(spans).left, top,
                                                                Last(spans).right, bottom))]
    IN  IF w.i > Len(as) \/ w.j > Len(bs) THEN w
        ELSE IF a.bottom <= Greatest(w.y, b.top) THEN [w EXCEPT !.i = @ + 1]
        ELSE IF b.bottom <= Greatest(w.y, a.top) THEN [w EXCEPT !.j = @ + 1]
        ELSE [found |-> found, i |-> After(as, w.i, bottom), j |-> After(bs, w.j, bottom),
              y |-> bottom]

IntersectLines(as, bs) ==
    LET first == FirstLines(as, bs)
        walk[k \in 0 .. Len(as) + Len(bs)] ==
            IF k = 0 THEN [found |-> EmptyRegion, i |-> first.i, j |-> first.j, y |-> -1]
            ELSE MeetRound(as, bs, walk[k - 1])
    IN  walk[Len(as) + Len(bs)].found

(* Regions of one rectangle are intersected as rectangles; Simple is       *)
(* DisplayListRegion(rect), whose bounds are pixels already.               *)
Simple(r) ==
    [lines |-> <<[top |-> r.top, bottom |-> r.bottom,
                  spans |-> <<[left |-> r.left, right |-> r.right]>>]>>, bounds |-> r]

MakeIntersection(a, b) ==
    IF ~RectsIntersect(a.bounds, b.bounds) THEN EmptyRegion
    ELSE IF ~IsComplex(a) /\ ~IsComplex(b) THEN Simple(Meet(a.bounds, b.bounds))
    ELSE IF ~IsComplex(a) /\ ContainsRect(a.bounds, b.bounds) THEN b
    ELSE IF ~IsComplex(b) /\ ContainsRect(b.bounds, a.bounds) THEN a
    ELSE IntersectLines(a.lines, b.lines)

(***************************************************************************)
(* Queries                                                                 *)
(***************************************************************************)

SameSides(rect, span) == rect.left = span.left /\ rect.right = span.right

(* Seeded fault: the search for a rectangle to join never stops.           *)
FoundAnywhere(r, line, span) ==
    Max({0} \cup {i \in 1 .. r.previous : SameSides(r.rects[i], span)})

(* GetRects, debanding: the last rectangle of the lines above (the first   *)
(* previous ones) with the same sides, or 0 if a rectangle that does not   *)
(* reach the line comes first.                                             *)
Found(r, line, span) ==
    LET last == Max({0} \cup {i \in 1 .. r.previous :
                                r.rects[i].bottom < line.top \/ SameSides(r.rects[i], span)})
    IN  IF last > 0 /\ r.rects[last].bottom < line.top THEN 0 ELSE last

(* It is taken out, and the rectangle of the span starts at its top.       *)
Debanded(r, line, span) ==
    LET found == Found(r, line, span)
        Rect(top) == MakeRect(span.left, top, span.right, line.bottom)
    IN  IF found > 0
        THEN [rects |-> Append(RemoveAt(r.rects, found), Rect(r.rects[found].top)),
              previous |-> r.previous - 1]
        ELSE [rects |-> Append(r.rects, Rect(line.top)), previous |-> r.previous]

Banded(r, line, span) ==
    [rects |-> Append(r.rects, MakeRect(span.left, line.top, span.right, line.bottom)),
     previous |-> r.previous]

OfLine(r, line, deband) ==
    LET OfSpan(q, span) == IF deband THEN Debanded(q, line, span) ELSE Banded(q, line, span)
        across[k \in 0 .. Len(line.spans)] ==
            IF k = 0 THEN r ELSE OfSpan(across[k - 1], line.spans[k])
        all == across[Len(line.spans)]
    IN  [all EXCEPT !.previous = Len(all.rects)]

GetRects(a, deband) ==
    LET down[k \in 0 .. Len(a.lines)] ==
            IF k = 0 THEN [rects |-> <<>>, previous |-> 0]
            ELSE OfLine(down[k - 1], a.lines[k], deband)
    IN  IF ~IsEmpty(a) /\ ~IsComplex(a) THEN <<a.bounds>> ELSE down[Len(a.lines)].rects

(* Seeded fault: a span that only touches counts.                          *)
SpanTouches(s, query) == s.left < query.right /\ s.right >= query.left

SpanMeets(s, query) == s.left < query.right /\ s.right > query.left

(* Intersects(rect)                                                        *)
IntersectsRect(a, r) ==
    LET query == NormalizeRect(r)
        from == FirstBelow(a.lines, IF EndsAbove(a.lines, query.top)
                                    THEN BinarySearchThreshold + 2 ELSE 1, query.top)
    IN  /\ ~IsEmpty(a)
        /\ ~IsEmptyRect(query)
        /\ RectsIntersect(a.bounds, query)
        /\ IsComplex(a) =>
             \E i \in from .. Len(a.lines) :
               /\ \A j \in from .. i : a.lines[j].top < query.bottom
               /\ \E s \in ToSet(a.lines[i].spans) : SpanMeets(s, query)

(* A walk that looks for a pair that meets stays at the first one.         *)
SeekSpan(s, t, w) ==
    IF w.i > Len(s) \/ w.j > Len(t) THEN w
    ELSE IF s[w.i].right <= t[w.j].left THEN [w EXCEPT !.i = @ + 1]
    ELSE IF t[w.j].right <= s[w.i].left THEN [w EXCEPT !.j = @ + 1]
    ELSE w

SpansIntersect(s, t) ==
    LET walk[k \in 0 .. Len(s) + Len(t)] ==
            IF k = 0 THEN [i |-> 1, j |-> 1] ELSE SeekSpan(s, t, walk[k - 1])
        end == walk[Len(s) + Len(t)]
    IN  end.i <= Len(s) /\ end.j <= Len(t)

SeekLine(as, bs, w) ==
    LET a == as[w.i]
        b == bs[w.j]
    IN  IF w.i > Len(as) \/ w.j > Len(bs) THEN w
        ELSE IF a.bottom <= b.top THEN [w EXCEPT !.i = @ + 1]
        ELSE IF b.bottom <= a.top THEN [w EXCEPT !.j = @ + 1]
        ELSE IF SpansIntersect(a.spans, b.spans) THEN w
        ELSE IF a.bottom < b.bottom THEN [w EXCEPT !.i = @ + 1]
        ELSE [w EXCEPT !.j = @ + 1]

LinesIntersect(as, bs) ==
    LET walk[k \in 0 .. Len(as) + Len(bs)] ==
            IF k = 0 THEN FirstLines(as, bs) ELSE SeekLine(as, bs, walk[k - 1])
        end == walk[Len(as) + Len(bs)]
    IN  end.i <= Len(as) /\ end.j <= Len(bs)

(* Pixels are passed on as they are, in half pixels.                       *)
Halves(r) == MakeRect(2 * r.left, 2 * r.top, 2 * r.right, 2 * r.bottom)

(* Intersects(region)                                                      *)
IntersectsRegion(a, b) ==
    /\ ~IsEmpty(a) /\ ~IsEmpty(b)
    /\ RectsIntersect(a.bounds, b.bounds)
    /\ IF ~IsComplex(a) /\ ~IsComplex(b) THEN TRUE
       ELSE IF ~IsComplex(a) THEN IntersectsRect(b, Halves(a.bounds))
       ELSE IF ~IsComplex(b) THEN IntersectsRect(a, Halves(b.bounds))
       ELSE LinesIntersect(a.lines, b.lines)

(***************************************************************************)
(* The machine: a caller builds a region from up to three rectangles and   *)
(* combines it with others of up to two.                                   *)
(***************************************************************************)

CellsOf(r) == (r.left .. r.right - 1) \X (r.top .. r.bottom - 1)

CellsOfAll(rects) == UNION {CellsOf(NormalizeRect(r)) : r \in rects}

(* What SetRects makes of some rectangles, with the area asked for.        *)
BuiltFrom(families) ==
    {[region |-> SetRects(rects), cells |-> CellsOfAll(rects)] : rects \in families}

Built == BuiltFrom({{}} \cup {{a, b} : a, b \in Inputs})

AreaInit ==
    \E built \in BuiltFrom({{}} \cup {{a, b, c} : a, b, c \in Inputs}) :
        area = built.region /\ cells = built.cells

UnionWith(other) ==
    /\ area' = MakeUnion(area, other.region)
    /\ cells' = cells \cup other.cells

IntersectionWith(other) ==
    /\ area' = MakeIntersection(area, other.region)
    /\ cells' = cells \cap other.cells

AreaNext == \E other \in Built : UnionWith(other) \/ IntersectionWith(other)

AreaSpec == AreaInit /\ [][AreaNext]_areaVars

(***************************************************************************)
(* Properties                                                              *)
(***************************************************************************)

(* Regions are canonical, as the walks over them assume: lines go down and *)
(* do not overlap, spans go right and do not even touch, none is empty,    *)
(* and lines that touch differ.                                            *)
LinesAreCanonical ==
    /\ \A i \in DOMAIN area.lines :
         LET line == area.lines[i]
         IN  /\ line.top < line.bottom
             /\ line.spans /= <<>>
             /\ \A j \in DOMAIN line.spans :
                  /\ line.spans[j].left < line.spans[j].right
                  /\ j > 1 => line.spans[j - 1].right < line.spans[j].left
             /\ i > 1 => LET above == area.lines[i - 1]
                         IN  /\ above.bottom <= line.top
                             /\ above.bottom = line.top => above.spans /= line.spans

CellsOfRegion ==
    UNION {UNION {CellsOf(MakeRect(s.left, line.top, s.right, line.bottom)) :
                    s \in ToSet(line.spans)} : line \in ToSet(area.lines)}

(* GetRects, debanded or not: rectangles that share no pixel and cover the *)
(* region.  DisplayList::SearchNonOverlappingDrawnRects returns them.      *)
RectsPartitionTheRegion ==
    \A deband \in BOOLEAN :
        LET rects == GetRects(area, deband)
        IN  /\ UNION {CellsOf(r) : r \in ToSet(rects)} = cells
            /\ \A i, j \in DOMAIN rects :
                 i /= j => CellsOf(rects[i]) \cap CellsOf(rects[j]) = {}

(* The sweep of SetRects, and the walks of MakeUnion and MakeIntersection, *)
(* make exactly the area that was asked for, in canonical lines, and its   *)
(* exact bounds, and GetRects gives it back.                               *)
RegionIsTheArea ==
    /\ LinesAreCanonical
    /\ CellsOfRegion = cells
    /\ RectsPartitionTheRegion
    /\ cells \subseteq CellsOf(area.bounds)
    /\ \A r \in {NormalizeRect(i) : i \in Inputs} :
         cells \subseteq CellsOf(r) => IsEmptyRect(area.bounds) \/ ContainsRect(r, area.bounds)

(* Intersects, of a rectangle and of a region, skips lines and stops early *)
(* and still finds every pixel in common and no other.                     *)
QueriesAreExact ==
    /\ \A r \in Inputs :
         IntersectsRect(area, r) <=> cells \cap CellsOf(NormalizeRect(r)) /= {}
    /\ \A other \in Built :
         IntersectsRegion(area, other.region) <=> cells \cap other.cells /= {}
=============================================================================

---------------------------- MODULE SkylineProofs ----------------------------
(***************************************************************************)
(* Proofs about Skyline, for bitmaps and glyphs of every size.  That no    *)
(* two regions share a pixel does not follow from itself: a new region is  *)
(* only compared with the skyline, so the invariant also says that the     *)
(* skyline runs below every region there is.                               *)
(***************************************************************************)
EXTENDS Skyline, TLAPS

IInv == /\ TypeOK
        /\ RegionsAreDisjoint
        /\ RegionsAreInside
        /\ RegionsAreBelowSkyline

(***************************************************************************)
(* The column a region covers has its skyline below the region once the    *)
(* region is placed, and no column's skyline ever rises: placing keeps     *)
(* every region below the skyline.                                         *)
(***************************************************************************)
LEMMA SkylineOnlySinks ==
    ASSUME TypeOK, NEW r \in Region, Place(r)
    PROVE  /\ skyline' \in [Columns -> Rows]
           /\ \A c \in Columns : skyline[c] <= skyline'[c]
           /\ \A c \in ColumnsOf(r) : c \in Columns /\ skyline'[c] = r.y + r.h
<1> DEFINE below(c) == IF c \in ColumnsOf(r) THEN r.y + r.h ELSE skyline[c]
<1>1. r.y \in Int /\ r.h \in Nat
  BY DEF Region
<1>2. skyline' = [c \in Columns |-> below(c)]
  BY DEF Place
<1>3. \A c \in Columns : below(c) \in Rows
  BY <1>1, BitmapAssumption DEF TypeOK, Rows, Place, Fits, Region
<1>4. \A c \in Columns : skyline[c] <= below(c)
  <2> TAKE c \in Columns
  <2>1. CASE c \in ColumnsOf(r)
    BY <1>1, <2>1 DEF Place, Fits, TypeOK, Rows
  <2>2. CASE c \notin ColumnsOf(r)
    BY <2>2 DEF TypeOK, Rows
  <2> QED
    BY <2>1, <2>2
<1>5. \A c \in ColumnsOf(r) : c \in Columns
  BY DEF Place, Fits
<1> HIDE DEF below
<1>6. \A c \in Columns : skyline'[c] = below(c)
  BY <1>2
<1>7. \A c \in ColumnsOf(r) : below(c) = r.y + r.h
  BY DEF below
<1> QED
  BY <1>2, <1>3, <1>4, <1>5, <1>6, <1>7

(***************************************************************************)
(* A region placed on the skyline shares no pixel with an older one: in a  *)
(* common column it starts where the skyline is, below the older region.   *)
(***************************************************************************)
LEMMA PlacedIsDisjoint ==
    ASSUME TypeOK, RegionsAreBelowSkyline, NEW r \in Region, Fits(r), NEW s \in regions
    PROVE  Disjoint(r, s) /\ Disjoint(s, r)
<1>1. CASE ColumnsOf(r) \cap ColumnsOf(s) = {}
  BY <1>1 DEF Disjoint
<1>2. CASE ColumnsOf(r) \cap ColumnsOf(s) # {}
  <2>1. PICK c : c \in ColumnsOf(r) /\ c \in ColumnsOf(s)
    BY <1>2
  <2>2. skyline[c] <= r.y
    BY <2>1 DEF Fits
  <2>3. c \in Columns /\ s.y + s.h <= skyline[c]
    BY <2>1 DEF RegionsAreBelowSkyline
  <2>4. /\ r.y \in Nat /\ r.h \in Nat
        /\ s.y \in Nat /\ s.h \in Nat
        /\ skyline[c] \in Int
    BY <2>3 DEF TypeOK, Region, Rows
  <2>5. s.y + s.h <= r.y
    BY <2>2, <2>3, <2>4
  <2>6. RowsOf(r) \cap RowsOf(s) = {}
    BY <2>4, <2>5 DEF RowsOf
  <2> QED
    BY <2>6 DEF Disjoint
<1> QED
  BY <1>1, <1>2

(***************************************************************************)
(* Placing a region keeps every part of the invariant.                     *)
(***************************************************************************)
LEMMA PlaceStep ==
    ASSUME IInv, NEW r \in Region, Place(r)
    PROVE  IInv'
<1> USE DEF IInv
<1>1. /\ skyline' \in [Columns -> Rows]
      /\ \A c \in Columns : skyline[c] <= skyline'[c]
      /\ \A c \in ColumnsOf(r) : c \in Columns /\ skyline'[c] = r.y + r.h
  BY SkylineOnlySinks
<1>2. regions' = regions \cup {r} /\ Fits(r)
  BY DEF Place
<1>3. TypeOK'
  BY <1>1, <1>2 DEF TypeOK
<1>4. \A s \in regions : Disjoint(r, s) /\ Disjoint(s, r)
  BY <1>2, PlacedIsDisjoint
<1>5. RegionsAreDisjoint'
  BY <1>2, <1>4 DEF RegionsAreDisjoint
<1>6. ColumnsOf(r) \subseteq Columns /\ RowsOf(r) \subseteq 1 .. Height - 2
  BY <1>2, BitmapAssumption DEF Fits, RowsOf, Region
<1>7. RegionsAreInside'
  BY <1>2, <1>6 DEF RegionsAreInside
<1>8. RegionsAreBelowSkyline'
  <2> SUFFICES ASSUME NEW s \in regions', NEW c \in ColumnsOf(s)
               PROVE  c \in Columns /\ s.y + s.h <= skyline'[c]
    BY DEF RegionsAreBelowSkyline
  <2>1. CASE s = r
    BY <1>1, <2>1 DEF Region
  <2>2. CASE s \in regions
    <3>1. c \in Columns /\ s.y + s.h <= skyline[c]
      BY <2>2 DEF RegionsAreBelowSkyline
    <3>2. skyline[c] <= skyline'[c]
      BY <1>1, <3>1
    <3>3. s.y + s.h \in Int /\ skyline[c] \in Int /\ skyline'[c] \in Int
      BY <1>1, <2>2, <3>1 DEF TypeOK, Region, Rows
    <3> QED
      BY <3>1, <3>2, <3>3
  <2> QED
    BY <1>2, <2>1, <2>2
<1> QED
  BY <1>3, <1>5, <1>7, <1>8

(***************************************************************************)
(* The invariant holds of every packing.                                   *)
(***************************************************************************)
THEOREM SkylineInvariant == Spec => []IInv
<1>1. Init => IInv
  <2> SUFFICES ASSUME Init PROVE IInv
    OBVIOUS
  <2> QED
    BY BitmapAssumption DEF Init, IInv, TypeOK, Rows, RegionsAreDisjoint,
                             RegionsAreInside, RegionsAreBelowSkyline
<1>2. IInv /\ [Next]_vars => IInv'
  <2> SUFFICES ASSUME IInv, [Next]_vars PROVE IInv'
    OBVIOUS
  <2>1. CASE Next
    <3>1. PICK r \in regions' : r \in Region /\ Place(r)
      BY <2>1 DEF Next
    <3> QED
      BY <3>1, PlaceStep
  <2>2. CASE UNCHANGED vars
    BY <2>2 DEF vars, IInv, TypeOK, RegionsAreDisjoint, RegionsAreInside,
                RegionsAreBelowSkyline
  <2> QED
    BY <2>1, <2>2
<1> QED
  BY <1>1, <1>2, PTL DEF Spec

(***************************************************************************)
(* No two glyphs share a pixel, whatever their sizes and order: what one   *)
(* glyph's image writes into the bitmap, no other overwrites.              *)
(***************************************************************************)
THEOREM RegionsNeverOverlap == Spec => []RegionsAreDisjoint
<1>1. IInv => RegionsAreDisjoint
  BY DEF IInv
<1> QED
  BY <1>1, SkylineInvariant, PTL

(***************************************************************************)
(* No glyph reaches the border of the bitmap, where filtering would mix in *)
(* the neighbouring bitmap of the texture.                                 *)
(***************************************************************************)
THEOREM RegionsStayInside == Spec => []RegionsAreInside
<1>1. IInv => RegionsAreInside
  BY DEF IInv
<1> QED
  BY <1>1, SkylineInvariant, PTL
=============================================================================

---------------------------- MODULE WgxLowering ----------------------------
(***************************************************************************)
(* The lowering of a function body to blocks (module/wgx/lower), what the  *)
(* verifier asks of them (module/wgx/ir/verifier.cpp), the control flow    *)
(* the SPIR-V writer makes of them (module/wgx/spirv), and how the result  *)
(* runs.                                                                   *)
(*                                                                         *)
(* The Lowerer is a record L:                                              *)
(*   order   the ids of the blocks, in the order of Function::blocks       *)
(*   ins     the instructions of each block                                *)
(*   loopMerge, loopContinue   the targets of the loop headers             *)
(*   next    next_block_id                                                 *)
(*   cur     current_block_id_                                             *)
(*   loops   loop_stack_                                                   *)
(*   vars    the declarations var_map_ has                                 *)
(*   moved   pushing a block moves the others (std::vector may)            *)
(*   ok      no method has returned false yet                              *)
(***************************************************************************)
EXTENDS WgxSyntax, TLC

Branch(to)          == [k |-> "branch", id |-> 0, to |-> {to}, yes |-> to, no |-> to, merge |-> 0, is |-> {}]
(* Taken to "yes" when the value of evaluation id is one of is.            *)
CondBranch(id, is, yes, no, merge) ==
  [k |-> "cond", id |-> id, to |-> {yes, no}, yes |-> yes, no |-> no, merge |-> merge, is |-> is]
Ins(k, id)          == [k |-> k, id |-> id, to |-> {}, yes |-> 0, no |-> 0, merge |-> 0, is |-> {}]
Truthy == {1, 2}

IsTerminator(i) == i.k \in {"return", "unreachable", "discard", "branch", "cond"}

Terminated(L, b) == L.ins[b] # <<>> /\ IsTerminator(Last(L.ins[b]))
HasBlock(L, b)   == b \in DOMAIN L.ins

(* Once a method has failed none does anything more.                       *)
Fail(L)        == [L EXCEPT !.ok = FALSE]
Emit(L, b, i)  == IF L.ok THEN [L EXCEPT !.ins[b] = Append(@, i)] ELSE L

CreateBlockWithId(L, b) ==
  IF HasBlock(L, b) \/ ~L.ok THEN Fail(L)
  ELSE [L EXCEPT !.order = Append(@, b), !.ins = (b :> <<>>) @@ @]
CreateBlocks(L, bs) == FoldLeft(LAMBDA M, b : CreateBlockWithId(M, b), L, bs)
Allocate(L, n)   == [L EXCEPT !.next = @ + n]
SwitchToBlock(L, b) == IF HasBlock(L, b) /\ L.ok THEN [L EXCEPT !.cur = b] ELSE Fail(L)
(* Seeded fault: also where the body has ended already.                    *)
FallToAlways(L, b) == Emit(L, L.cur, Branch(b))
(* What several methods do when a body is lowered: fall on to a block.     *)
FallTo(L, b)     == IF ~L.ok \/ Terminated(L, L.cur) THEN L ELSE Emit(L, L.cur, Branch(b))

(* Seeded fault: the block before the header is marked.                    *)
LoopHeaderBefore(L, from, header, entry, continue, merge) ==
  LET M == Emit(Emit(L, from, Branch(header)), header, Branch(entry))
  IN [M EXCEPT !.loopMerge = (from :> merge) @@ @, !.loopContinue = (from :> continue) @@ @]
(* A loop header only branches on, its loop is pushed while its body and   *)
(* its continue block are lowered.                                         *)
LoopHeader(L, from, header, entry, continue, merge) ==
  LET M == Emit(Emit(L, from, Branch(header)), header, Branch(entry))
  IN [M EXCEPT !.loopMerge = (header :> merge) @@ @, !.loopContinue = (header :> continue) @@ @]
PushLoop(L, header, continue, merge) ==
  [L EXCEPT !.loops = Append(@, [header |-> header, continue |-> continue, merge |-> merge])]
PopLoop(L) == [L EXCEPT !.loops = Front(@)]
Loop(L) == Last(L.loops)

----------------------------------------------------------------------------
LowerVarDecl(L, s, b) ==
  IF s.id \in L.vars THEN Fail(L)
  ELSE [Emit(L, b, Ins("do", s.id)) EXCEPT !.vars = @ \cup {s.id}]

(* No method lowers the phony left-hand side of "_ = e;".                  *)
LowerAssignStatement(L, s, b) ==
  IF s.op = "phony" THEN Fail(L) ELSE Emit(L, b, Ins("do", s.id))

LowerBreakStatement(L, b) ==
  IF L.loops = <<>> THEN Fail(L) ELSE Emit(L, b, Branch(Loop(L).merge))

LowerContinueStatement(L, b) ==
  IF L.loops = <<>> THEN Fail(L) ELSE Emit(L, b, Branch(Loop(L).continue))

(* Seeded fault: the loop goes on where it should end.                     *)
ContinueIfStatement(L, s, b) ==
  IF L.loops = <<>> THEN Fail(L)
  ELSE Emit(Emit(L, b, Ins("eval", s.id)), b,
            CondBranch(s.id, Truthy, Loop(L).header, Loop(L).merge, 0))

LowerBreakIfStatement(L, s, b) ==
  IF L.loops = <<>> THEN Fail(L)
  ELSE Emit(Emit(L, b, Ins("eval", s.id)), b,
            CondBranch(s.id, Truthy, Loop(L).merge, Loop(L).header, 0))

RECURSIVE LowerStatement(_, _, _), LowerStatements(_, _), LowerDispatches(_, _, _)

(* Statements after a terminator are dropped.                              *)
LowerStatements(L, body) ==
  FoldLeft(LAMBDA M, s : IF ~M.ok \/ Terminated(M, M.cur) THEN M ELSE LowerStatement(M, s, M.cur),
           L, body)

LowerBlockStatement(L, body, b) == LowerStatements(SwitchToBlock(L, b), body)

(* The merge block's id is allocated with the then block's and its block   *)
(* is made last; where both branches have ended it is unreachable.         *)
LowerIfStatement(L, s, b) ==
  LET then == L.next
      merge == L.next + 1
      else == IF s.else = <<>> THEN merge ELSE L.next + 2
      A == CreateBlocks(Allocate(Emit(L, b, Ins("eval", s.id)), IF s.else = <<>> THEN 2 ELSE 3),
                        IF s.else = <<>> THEN <<then>> ELSE <<then, else>>)
      B == Emit(A, b, CondBranch(s.id, Truthy, then, else, merge))
      T == LowerBlockStatement(B, s.body, then)
      C == FallTo(T, merge)
      E == LowerStatements(SwitchToBlock(C, else), s.else)
      dead == s.else # <<>> /\ Terminated(T, T.cur) /\ Terminated(E, E.cur)
      D == CreateBlockWithId(IF s.else = <<>> THEN C ELSE FallTo(E, merge), merge)
  IN SwitchToBlock(IF dead THEN Emit(D, merge, Ins("unreachable", 0)) ELSE D, merge)

(* One test block a selector, each the false branch of the one before; the *)
(* arm of a selector is lowered again for each of its selectors.  The      *)
(* dispatches are made last to first, after the default arm.               *)
Dispatches(arms) ==
  FoldLeft(LAMBDA ds, a :
             ds \o FoldLeft(LAMBDA es, v : IF v = Default THEN es ELSE Append(es, [v |-> v, body |-> a.body]),
                            <<>>, a.selectors),
           <<>>, arms)

DefaultBodies(arms) ==
  LET hit == SelectSeq(arms, LAMBDA a : \E i \in DOMAIN a.selectors : a.selectors[i] = Default)
  IN IF hit = <<>> THEN <<>> ELSE <<Last(hit).body>>

(* w holds the ids of the switch: test, body, merge, each a sequence, the  *)
(* id of the evaluation, and where the false branch of the dispatch i goes *)
(* and leaves.                                                             *)
LowerDispatches(L, w, i) ==
  IF ~L.ok \/ i = 0 THEN L
  ELSE
    LET test == w.test[i]
        A == Emit(L, test, CondBranch(w.id, {w.ds[i].v}, w.body[i], w.entry, w.merge[i]))
        B == LowerBlockStatement(A, w.ds[i].body, w.body[i])
        C == FallTo(B, w.merge[i])
        D == IF w.exit = w.merge[1] THEN C ELSE FallTo(SwitchToBlock(C, w.exit), w.merge[i])
    IN LowerDispatches(D, [w EXCEPT !.entry = test, !.exit = w.merge[i]], i - 1)

(* The branch of a switch without selectors is written through the old     *)
(* pointer to its block, and lost if pushing blocks has moved them since.  *)
LowerSwitchStatement(L, s, b) ==
  LET ds == Dispatches(s.arms)
      n == Len(ds)
      defaults == DefaultBodies(s.arms)
      merge == L.next
      Id(i, k) == merge + 3 * (i - 1) + k - 2
      test == [i \in 1..n |-> IF i = 1 THEN b ELSE Id(i, 1)]
      body == [i \in 1..n |-> IF i = 1 THEN merge + 1 ELSE Id(i, 2)]
      merges == [i \in 1..n |-> IF i = 1 THEN merge ELSE Id(i, 3)]
      after == merge + (IF n = 0 THEN 1 ELSE 3 * n - 1)
      default == IF defaults = <<>> THEN merge ELSE after
      A == CreateBlocks(Allocate(Emit(L, b, Ins("eval", s.id)),
                                 (after - merge) + Len(defaults)),
                        (IF n = 0 THEN <<>> ELSE Tail(test)) \o body
                          \o (IF defaults = <<>> THEN <<>> ELSE <<default>>)
                          \o (IF n = 0 THEN <<>> ELSE Tail(merges)))
      B == IF defaults = <<>> THEN A ELSE LowerBlockStatement(A, defaults[1], default)
      C == CreateBlockWithId(
             LowerDispatches(B, [ds |-> ds, id |-> s.id, test |-> test, body |-> body,
                                 merge |-> IF n = 0 THEN <<merge>> ELSE merges,
                                 entry |-> default, exit |-> default], n), merge)
      D == IF n > 0 \/ L.moved THEN C ELSE Emit(C, b, Branch(default))
      E == IF n = 0 /\ defaults # <<>> THEN FallTo(SwitchToBlock(D, default), merge) ELSE D
  IN SwitchToBlock(E, merge)

(* The continue and the merge block are made after the body's blocks.      *)
LowerLoopStatement(L, s, b) ==
  LET header == L.next
      body == L.next + 1
      continue == L.next + 2
      merge == L.next + 3
      A == LoopHeader(CreateBlocks(Allocate(L, 4), <<header, body>>), b, header, body, continue, merge)
      B == LowerBlockStatement(PushLoop(A, header, continue, merge), s.body, body)
      C == LowerBlockStatement(CreateBlockWithId(FallTo(B, continue), continue), s.continuing, continue)
  IN SwitchToBlock(CreateBlockWithId(PopLoop(FallTo(C, header)), merge), merge)

(* for and while: a condition block after the header, and a step.          *)
LowerConditionalLoop(L, cond, step, body, b) ==
  LET header == L.next
      condition == L.next + 1
      inner == L.next + 2
      continue == L.next + 3
      merge == L.next + 4
      A == LoopHeader(CreateBlocks(Allocate(L, 5), <<header, condition, inner>>),
                      b, header, condition, continue, merge)
      B == IF cond = 0 THEN Emit(A, condition, Branch(inner))
           ELSE Emit(Emit(A, condition, Ins("eval", cond)), condition,
                     CondBranch(cond, Truthy, inner, merge, 0))
      C == LowerBlockStatement(PushLoop(B, header, continue, merge), body, inner)
      D == LowerBlockStatement(CreateBlockWithId(FallTo(C, continue), continue), step, continue)
  IN SwitchToBlock(CreateBlockWithId(PopLoop(FallTo(D, header)), merge), merge)

LowerForLoopStatement(L, s, b) ==
  LowerConditionalLoop(LowerStatements(L, s.init), s.cond, s.step, s.body, b)

LowerWhileLoopStatement(L, s, b) == LowerConditionalLoop(L, s.id, <<>>, s.body, b)

LowerStatement(L, s, b) ==
  CASE s.op = "return"   -> Emit(L, b, Ins("return", s.id))
    [] s.op = "discard"  -> Emit(L, b, Ins("discard", 0))
    [] s.op = "block"    -> LowerBlockStatement(L, s.body, b)
    [] s.op = "var"      -> LowerVarDecl(L, s, b)
    [] s.op \in {"assign", "phony"} -> LowerAssignStatement(L, s, b)
    [] s.op \in {"call", "incr"} -> Emit(L, b, Ins("do", s.id))
    [] s.op = "if"       -> LowerIfStatement(L, s, b)
    [] s.op = "switch"   -> LowerSwitchStatement(L, s, b)
    [] s.op = "loop"     -> LowerLoopStatement(L, s, b)
    [] s.op = "for"      -> LowerForLoopStatement(L, s, b)
    [] s.op = "while"    -> LowerWhileLoopStatement(L, s, b)
    [] s.op = "break"    -> LowerBreakStatement(L, b)
    [] s.op = "breakif"  -> LowerBreakIfStatement(L, s, b)
    [] s.op = "continue" -> LowerContinueStatement(L, b)
    [] OTHER             -> Fail(L)

(* A function without a value returns at its end; one with a value must    *)
(* have ended.                                                             *)
InsertImplicitReturn(L, void) ==
  IF ~L.ok \/ Terminated(L, L.cur) THEN L
  ELSE IF void THEN Emit(L, L.cur, Ins("return", 0)) ELSE Fail(L)

LowerFunction(body, void, moved) ==
  LET entry == [order |-> <<1>>, ins |-> (1 :> <<>>), loopMerge |-> <<>>, loopContinue |-> <<>>,
                next |-> 2, cur |-> 1, loops |-> <<>>, vars |-> {}, ok |-> TRUE, moved |-> moved]
  IN InsertImplicitReturn(LowerStatements(entry, body), void)

(* Only builds without SKITY_RELEASE ask this of a function.               *)
Verify(L) ==
  \A b \in DOMAIN L.ins :
    /\ Terminated(L, b)
    /\ \A i \in 1..(Len(L.ins[b]) - 1) : ~IsTerminator(L.ins[b][i])
    /\ \A i \in DOMAIN L.ins[b] : (L.ins[b][i].to \cup ({L.ins[b][i].merge} \ {0})) \subseteq DOMAIN L.ins
    /\ b \in DOMAIN L.loopMerge => {L.loopMerge[b], L.loopContinue[b]} \subseteq DOMAIN L.ins

----------------------------------------------------------------------------
(* Running blocks: from a place [b, i] to the next visible event, when the *)
(* expression evaluated last gave v.  A block that does not end is lost.   *)
RECURSIVE SettleBlocks(_, _, _, _)
SettleBlocks(L, at, v, fuel) ==
  LET i == L.ins[at.b][at.i]
      See(kind, id) == [kind |-> kind, id |-> id, at |-> [at EXCEPT !.i = @ + 1]]
      Go(b) == SettleBlocks(L, [b |-> b, i |-> 1], v, fuel - 1)
  IN IF at.i > Len(L.ins[at.b]) THEN See("lost", 0)
     ELSE IF fuel = 0 THEN See("spin", 0)
     ELSE IF i.k \notin {"branch", "cond"} THEN See(i.k, i.id)
     ELSE IF i.k = "branch" \/ v \in i.is THEN Go(i.yes) ELSE Go(i.no)

----------------------------------------------------------------------------
(* What SPIR-V asks of the control flow written for the blocks: a loop     *)
(* header declares its merge and continue blocks (OpLoopMerge), and so     *)
(* does a conditional branch its merge block (OpSelectionMerge).           *)

Targets(L, b) == Last(L.ins[b]).to
MergeOf(L, b) ==
  IF b \in DOMAIN L.loopMerge THEN L.loopMerge[b] ELSE Last(L.ins[b]).merge
Declared(L, b) ==
  ({MergeOf(L, b)} \ {0}) \cup (IF b \in DOMAIN L.loopMerge THEN {L.loopContinue[b]} ELSE {})
Edges(L)           == [b \in DOMAIN L.ins |-> Targets(L, b)]
StructuralEdges(L) == [b \in DOMAIN L.ins |-> Targets(L, b) \cup Declared(L, b)]

(* The blocks some path from the entry reaches without passing avoid.      *)
Reach(L, edges, avoid) ==
  FoldLeft(LAMBDA seen, b : seen \cup (UNION {edges[s] : s \in seen} \ avoid),
           {1} \ avoid, L.order)
(* For each reachable block, the blocks it dominates.                      *)
Dominance(L, edges) ==
  LET live == Reach(L, edges, {}) IN [b \in live |-> live \ Reach(L, edges, {b})]

(* A block comes after the blocks that dominate it.                        *)
BlocksInOrder(L) ==
  LET dom == Dominance(L, Edges(L))
      Place(b) == SelectInSeq(L.order, LAMBDA x : x = b)
  IN \A a \in DOMAIN dom : \A b \in dom[a] : Place(a) <= Place(b)

Structured(L) ==
  LET dom == Dominance(L, StructuralEdges(L))
      headers == {b \in DOMAIN dom : MergeOf(L, b) # 0}
      loops == headers \cap DOMAIN L.loopMerge
      inside == [h \in headers |-> dom[h] \ dom[MergeOf(L, h)]]
      Around(b) == {l \in loops : b \in inside[l]}
      Innermost(b) == {l \in Around(b) : \A m \in Around(b) : l \in inside[m]}
      LoopExits(b) == UNION {{l} \cup Declared(L, l) : l \in Innermost(b)}
      back == {e \in (DOMAIN dom) \X loops : e[2] \in Targets(L, e[1]) /\ e[1] \in dom[e[2]]}
  IN (* a merge block belongs to one header, which dominates it            *)
     /\ \A g, h \in headers : g # h => MergeOf(L, g) # MergeOf(L, h)
     /\ \A h \in headers : MergeOf(L, h) \in dom[h]
     (* a loop header holds its merge declaration and a branch             *)
     /\ \A h \in loops : Len(L.ins[h]) = 1
     (* only loops go back, each from one place under its continue block   *)
     /\ \A a \in DOMAIN dom : \A b \in Targets(L, a) : a \in dom[b] => b \in loops
     /\ \A e \in back : e[1] \in dom[L.loopContinue[e[2]]]
     /\ \A h \in loops : Cardinality({e \in back : e[2] = h}) = 1
     (* a construct is left by its merge block or as the loop around it    *)
     (* allows                                                             *)
     /\ \A h \in headers : \A b \in inside[h] :
          (Targets(L, b) \ inside[h]) \subseteq {MergeOf(L, h)} \cup LoopExits(b)
     (* a conditional branch without a merge block is such an exit         *)
     /\ \A b \in (DOMAIN dom) \ headers : Cardinality(Targets(L, b) \ LoopExits(b)) <= 1
=============================================================================

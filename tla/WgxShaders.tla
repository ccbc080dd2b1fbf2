----------------------------- MODULE WgxShaders ----------------------------
(***************************************************************************)
(* A function through the shader compiler: its text is parsed              *)
(* (WgxParser), the tree is lowered for SPIR-V (WgxLowering) and printed   *)
(* for GLSL, and then the source, the blocks and the GLSL text run side by *)
(* side under the same inputs.                                             *)
(*                                                                         *)
(* The printed text is C: a continuing block is just the end of the loop's *)
(* body and a switch runs on from the arm it enters to the end.  It is     *)
(* given here as the WGSL body that does the same.                         *)
(***************************************************************************)
EXTENDS WgxParser, WgxLowering

CONSTANTS
  Sizes,          \* of the functions compiled
  Programs(_)     \* those of a size: [body, void], void: it returns no value

VARIABLES
  source,         \* the function
  phase,          \* "source", "parsed", "lowered", "running" or "over"
  ast,            \* what the parser made of it
  ir,             \* the lowered function
  accepted,       \* lowering succeeded and the verifier agreed
  text,           \* the meaning of the GLSL text
  src, blk, txt   \* the next event of the source, the blocks and the text, with
                  \* what is left to do after it

vars == <<source, phase, ast, ir, accepted, text, src, blk, txt>>

----------------------------------------------------------------------------
(* The GLSL printer (module/wgx/glsl/glsl_ast_printer.cpp).                *)

RECURSIVE Printed(_)

(* Seeded fault: break-if printed as a plain break. *)
PrintBreakIfAlways(s) == BlockOf(<<Plain("break", 0)>>)
(* if (c) break;                                                           *)
PrintBreakIf(s) == IfOf(s.id, <<Plain("break", 0)>>, <<>>)

(* while (true) { {body} {continuing} }                                    *)
PrintLoop(s) == LoopOf(<<BlockOf(Printed(s.body)), BlockOf(Printed(s.continuing))>>, <<>>)

(* The arms as written, with nothing between them: each runs into the next *)
PrintSwitch(s) ==
  SwitchOf(s.id, [i \in DOMAIN s.arms |->
                    ArmOf(s.arms[i].selectors,
                          FoldLeft(LAMBDA b, a : b \o Printed(a.body), <<>>,
                                   SubSeq(s.arms, i, Len(s.arms))))])

(* _ prints as nothing, and no GLSL compiler reads the "= e;" that is left *)
PrintAssign(s) == IF s.op = "phony" THEN Plain("= e", s.id) ELSE s
ReadsAsGlsl(body) == \A s \in Within(body) : s.op # "= e"

PrintStatement(s) ==
  CASE s.op = "block"   -> BlockOf(Printed(s.body))
    [] s.op = "if"      -> IfOf(s.id, Printed(s.body), Printed(s.else))
    [] s.op = "loop"    -> PrintLoop(s)
    [] s.op = "while"   -> WhileOf(s.id, Printed(s.body))
    [] s.op = "for"     -> ForOf(Printed(s.init), s.cond, Printed(s.step), Printed(s.body))
    [] s.op = "switch"  -> PrintSwitch(s)
    [] s.op = "breakif" -> PrintBreakIf(s)
    [] s.op \in {"assign", "phony"} -> PrintAssign(s)
    [] OTHER            -> s

Printed(body) == [i \in DOMAIN body |-> PrintStatement(body[i])]

----------------------------------------------------------------------------
Fuel == 16
(* Running code that does not do what the source does is not followed on.  *)
Apart == Event("apart", 0, <<>>)
Same(e) == e.kind = src.kind /\ e.id = src.id

Init ==
  /\ \E size \in Sizes : source \in Programs(size)
  /\ phase = "source"
  /\ ast = <<>> /\ text = <<>> /\ ir = <<>> /\ accepted = FALSE
  /\ src = Apart /\ blk = Apart /\ txt = Apart

ParseSource ==
  /\ phase = "source"
  /\ LET r == FunctionDeclaration(Braced(source.body)) IN
       /\ ast' = r.val
       /\ phase' = IF Ok(r) THEN "parsed" ELSE "over"
  /\ UNCHANGED <<source, ir, accepted, text, src, blk, txt>>

(* Whether pushing blocks moves Function::blocks is the allocator's choice *)
WriteSpirvAndGlsl(moved) ==
  /\ phase = "parsed"
  /\ ir' = LowerFunction(ast, source.void, moved)
  /\ accepted' = (ir'.ok /\ Verify(ir'))
  /\ text' = Printed(ast)
  /\ phase' = "lowered"
  /\ UNCHANGED <<source, ast, src, blk, txt>>

Start ==
  /\ phase = "lowered"
  /\ src' = Settle(source.body, Fuel)
  /\ txt' = IF ReadsAsGlsl(text) THEN Settle(text, Fuel) ELSE Apart
  /\ blk' = IF accepted THEN SettleBlocks(ir, [b |-> 1, i |-> 1], 0, Fuel) ELSE Apart
  /\ phase' = "running"
  /\ UNCHANGED <<source, ast, ir, accepted, text>>

(* The same statement done, or the same value v for the same expression.   *)
Run(v) ==
  /\ phase = "running"
  /\ src.kind \in {"do", "eval"}
  /\ v \in (IF src.kind = "eval" THEN ValuesAt(src.k) ELSE {0})
  /\ LET On(e) == Settle(IF e.kind = "eval" THEN Choose(e.k, v) ELSE e.k, Fuel) IN
       /\ src' = On(src)
       /\ txt' = IF Same(txt) THEN On(txt) ELSE Apart
       /\ blk' = IF accepted /\ Same(blk) THEN SettleBlocks(ir, blk.at, v, Fuel) ELSE Apart
  /\ UNCHANGED <<source, phase, ast, ir, accepted, text>>

Next == \/ ParseSource
        \/ (\E moved \in BOOLEAN : WriteSpirvAndGlsl(moved))
        \/ Start
        \/ \E v \in 0..2 : Run(v)

Spec == Init /\ [][Next]_vars

----------------------------------------------------------------------------
(* Where the compiler is known to differ from WGSL.                        *)

Switches(body) == {s \in Within(body) : s.op = "switch"}
BodiesOfArms(s) == {s.arms[i].body : i \in DOMAIN s.arms}
Direct(body, op) == \E i \in DOMAIN body : body[i].op = op
Nested == {"if", "loop", "for", "while", "switch"}
HasFlow(body) == \E s \in Within(body) : s.op \in Nested

(* The statements of a body that are not inside a loop (or a switch) of it *)
RECURSIVE Outer(_, _)
Outer(body, closed) ==
  UNION {{body[i]} \cup
           (IF body[i].op \in closed THEN {} ELSE UNION {Outer(b, closed) : b \in SubBodies(body[i])})
         : i \in DOMAIN body}
LoopOps == {"loop", "for", "while"}

(* A break that belongs to a switch: the lowering takes it for the loop's. *)
BreaksASwitch(body) ==
  \E s \in Switches(body) : \E b \in BodiesOfArms(s) :
    \E t \in Outer(b, LoopOps \cup {"switch"}) : t.op = "break"

(* A default arm is closed in the block it starts in, not where it ends.   *)
DefaultStaysOpen(body) ==
  \E s \in Switches(body) : \E i \in DOMAIN DefaultBodies(s.arms) :
    HasFlow(DefaultBodies(s.arms)[i]) /\ ~Ends(DefaultBodies(s.arms)[i], JumpOps)

(* The arm of two selectors is lowered twice, and declares its names twice *)
DeclaresTwice(body) ==
  \E s \in Switches(body) : \E i \in DOMAIN s.arms :
    Len(s.arms[i].selectors) > 1 /\ \E t \in Within(s.arms[i].body) : t.op = "var"

(* A switch that is only a default arm is entered through an old pointer.  *)
OnlyDefault(body) == \E s \in Switches(body) : Dispatches(s.arms) = <<>>

(* The merge block of a later selector is put before blocks it can only be *)
(* reached through.                                                        *)
MergesEarly(body) ==
  \E s \in Switches(body) : \E i \in 2..Len(Dispatches(s.arms)) :
    LET b == Dispatches(s.arms)[i].body
    IN HasFlow(b) \/ (i < Len(Dispatches(s.arms)) /\ Ends(b, JumpOps))

(* Only the last arm of a switch may run to its end: in C the others fall  *)
(* through.                                                                *)
FallsThrough(body) ==
  \E s \in Switches(body) : \E i \in 1..(Len(s.arms) - 1) : ~Ends(s.arms[i].body, JumpOps)

(* "_ = e;" is parsed, but neither backend knows what to make of the _.    *)
AssignsToPhony(body) == \E s \in Within(body) : s.op = "phony"

(* In C a continue skips what should be the continuing block.              *)
SkipsContinuing(body) ==
  \E s \in Within(body) : s.op = "loop" /\ s.continuing # <<>>
    /\ \E t \in Outer(s.body, LoopOps) : t.op = "continue"

----------------------------------------------------------------------------
(* Properties                                                              *)

Compiled == phase \in {"lowered", "running"}

(* Parser::FunctionDeclaration finds in the text of a body the body that   *)
(* was written: no statement is lost, none ends up in another's branch,    *)
(* arm, header or continuing block, and else-if chains keep their order.   *)
ParseInvertsWriting == phase # "source" => ast = source.body

(* The functions lowered are structured control flow as SPIR-V wants it,   *)
(* and in the order it wants, with the merge and continue blocks that the  *)
(* Lowerer declares and ModuleBuilder::WriteFunctionSection writes.        *)
SpirvIsStructured ==
  phase = "lowered" /\ accepted /\ ~BreaksASwitch(ast) =>
    Structured(ir) /\ (~MergesEarly(ast) => BlocksInOrder(ir))

(* Lowerer::Run accepts every valid function whose types are written out,  *)
(* and what it makes passes its verifier, except where a switch is one of  *)
(* the kinds above or a statement assigns to _.  Run under the same        *)
(* inputs, the blocks of an accepted function do the statements, evaluate  *)
(* the expressions and end where the WGSL source does, unless a break      *)
(* belongs to a switch.                                                    *)
SpirvRunsAsWritten ==
  Compiled /\ ~BreaksASwitch(ast) =>
    /\ \/ DefaultStaysOpen(ast) \/ DeclaresTwice(ast) \/ OnlyDefault(ast)
       \/ AssignsToPhony(ast)
       \/ accepted
    /\ phase = "running" /\ accepted => Same(blk)

(* And so does the GLSL text AstPrinter writes, unless an arm falls        *)
(* through, a continuing block is skipped or a statement assigns to _.     *)
GlslRunsAsWritten ==
  phase = "running" /\ ~FallsThrough(ast) /\ ~SkipsContinuing(ast) /\ ~AssignsToPhony(ast)
    => Same(txt)

(* "Shader behavior matches GLSL/MSL outputs": module/wgx/docs/            *)
(* ROADMAP_IR_SPIRV.md, of the SPIR-V the same function is compiled to.    *)
BackendsAgree == phase = "running" /\ accepted => (Same(blk) <=> Same(txt))
=============================================================================

----------------------------- MODULE WgxCompiler ----------------------------
(***************************************************************************)
(* Functions (WgxShaders) and expressions (WgxExpressions) through the     *)
(* shader compiler.  In the first an expression is one token, in the       *)
(* second there are no statements, and a behaviour is of one of them.      *)
(*                                                                         *)
(* What an expression computes is given as a tree in which every use of a  *)
(* variable says how many calls had been made when it was read, and every  *)
(* call which one it was: any function may change any variable.            *)
(***************************************************************************)
EXTENDS WgxShaders, WgxExpressions

CONSTANTS
  ExpressionSizes, \* of the expressions compiled
  Expressions(_)   \* those of a size

VARIABLES
  written,        \* the expression, or Null when a function is compiled
  blanks,         \* whether its text has blanks around binary operators
  stage,          \* "written", "parsed" or "compiled"
  read,           \* what the parser made of its text: the result
  spirv,          \* what the SPIR-V computes
  glsl            \* what the GLSL computes

expressionVars == <<written, blanks, stage, read, spirv, glsl>>

----------------------------------------------------------------------------
(* The result of an expression, ref: it is a place in memory (an           *)
(* ir::ExprResult that is an address), and the calls made by then.         *)
At(val, ref, calls) == [val |-> val, ref |-> ref, calls |-> calls]

(* EnsureValue: a place is read when its value is needed.                  *)
EnsureValue(r, calls) ==
  At(IF r.ref THEN Node("load", calls, <<r.val>>) ELSE r.val, FALSE, calls)

Negated(x) == Apply("-", <<Leaf("int", 0), x>>)
Inverted(x) == Apply("==", <<x, Leaf("false", 0)>>)
Literal(e) == IF e.op = "-int" THEN Negated(Leaf("int", e.id)) ELSE e
Called(e, args) == At(Node(e.op, e.id, Append(args.val, Leaf("nth", args.calls))), FALSE, args.calls + 1)
(* A conversion is known by its type.                                      *)
Constructed(e, args) == At(Apply("construct", <<e.args[1]>> \o args.val), FALSE, args.calls)

----------------------------------------------------------------------------
(* WGSL: operands from left to right, each read before the next one is     *)
(* evaluated; the right of && and || only when it decides.                 *)
RECURSIVE Meaning(_, _)

Read(e, calls) == LET r == Meaning(e, calls) IN EnsureValue(r, r.calls)
ReadAll(args, calls) ==
  FoldLeft(LAMBDA done, e : LET r == Read(e, done.calls) IN At(Append(done.val, r.val), FALSE, r.calls),
           At(<<>>, FALSE, calls), args)

Meaning(e, calls) ==
  LET fst == Meaning(e.args[1], calls)
      operand == Read(e.args[1], calls)
      right == Read(e.args[2], operand.calls)
  IN CASE e.op = "ident" -> At(e, TRUE, calls)
       [] e.op \in {"int", "-int"} -> At(Literal(e), FALSE, calls)
       [] e.op = "()"  -> fst
       [] e.op = "."   -> At(Node(".", e.id, <<fst.val>>), fst.ref, fst.calls)
       [] e.op = "[]"  -> LET index == Read(e.args[2], fst.calls)
                          IN At(Apply("[]", <<fst.val, index.val>>), fst.ref, index.calls)
       [] e.op = "neg" -> At(Negated(operand.val), FALSE, operand.calls)
       [] e.op = "not" -> At(Inverted(operand.val), FALSE, operand.calls)
       [] e.op = "call" -> Called(e, ReadAll(e.args, calls))
       [] e.op = "construct" -> Constructed(e, ReadAll(Tail(e.args), calls))
       [] e.op \in LogicalOps -> At(Node(e.op, right.calls - operand.calls, <<operand.val, right.val>>),
                                    FALSE, right.calls)
       [] OTHER -> At(Apply(e.op, <<operand.val, right.val>>), FALSE, right.calls)

----------------------------------------------------------------------------
(* SPIR-V: Lowerer::LowerExpression (lower/lower_expr.cpp).                *)
RECURSIVE LowerExpression(_, _)

(* Seeded fault: the arguments are read after all of them are lowered. *)
ArgumentsReadLast(args, calls) ==
  LET all == FoldLeft(LAMBDA done, e : LET r == LowerExpression(e, done.calls)
                                       IN At(Append(done.val, r), FALSE, r.calls),
                      At(<<>>, FALSE, calls), args)
  IN [all EXCEPT !.val = [i \in DOMAIN @ |-> EnsureValue(@[i], all.calls).val]]
Arguments(args, calls) ==
  FoldLeft(LAMBDA done, e : LET r == LowerExpression(e, done.calls)
                            IN At(Append(done.val, EnsureValue(r, r.calls).val), FALSE, r.calls),
           At(<<>>, FALSE, calls), args)

LowerUnaryExpression(e, calls) ==
  LET r == LowerExpression(e.args[1], calls)
      x == EnsureValue(r, r.calls).val
  IN At(IF e.op = "not" THEN Inverted(x) ELSE Negated(x), FALSE, r.calls)

(* Both operands are lowered before either is read.                        *)
LowerBinaryExpression(e, calls) ==
  LET lhs == LowerExpression(e.args[1], calls)
      rhs == LowerExpression(e.args[2], lhs.calls)
  IN At(Apply(e.op, <<EnsureValue(lhs, rhs.calls).val, EnsureValue(rhs, rhs.calls).val>>),
        FALSE, rhs.calls)

LowerIndexAccessorExpression(e, calls) ==
  LET base == LowerExpression(e.args[1], calls)
      index == LowerExpression(e.args[2], base.calls)
  IN At(Apply("[]", <<base.val, EnsureValue(index, index.calls).val>>), base.ref, index.calls)

LowerMemberAccessorExpression(e, calls) ==
  LET base == LowerExpression(e.args[1], calls)
  IN At(Node(".", e.id, <<base.val>>), base.ref, base.calls)

LowerExpression(e, calls) ==
  CASE e.op \in {"int", "-int"} -> At(Literal(e), FALSE, calls)
    [] e.op = "ident"     -> At(e, TRUE, calls)
    [] e.op = "()"        -> LowerExpression(e.args[1], calls)
    [] e.op \in UnaryOps  -> LowerUnaryExpression(e, calls)
    [] e.op \in BinaryOps -> LowerBinaryExpression(e, calls)
    [] e.op = "[]"        -> LowerIndexAccessorExpression(e, calls)
    [] e.op = "."         -> LowerMemberAccessorExpression(e, calls)
    [] e.op = "call"      -> Called(e, Arguments(e.args, calls))
    [] e.op = "construct" -> Constructed(e, Arguments(Tail(e.args), calls))

----------------------------------------------------------------------------
(* GLSL: AstPrinter::Visit (glsl/glsl_ast_printer.cpp).  A sign with the   *)
(* id 1 has no blank after it.                                             *)
RECURSIVE PrintExpression(_)

PrintArguments(args) ==
  FoldLeft(LAMBDA ts, e : ts \o (IF ts = <<>> THEN <<>> ELSE Kws(<<",">>)) \o PrintExpression(e),
           <<>>, args)

PrintUnary(e) == <<IF e.op = "neg" THEN Sign(TRUE) ELSE Kw("!")>> \o PrintExpression(e.args[1])

PrintBinary(e) == PrintExpression(e.args[1]) \o Kws(<<e.op>>) \o PrintExpression(e.args[2])

PrintExpression(e) ==
  CASE e.op = "ident" -> <<Name(e.id)>>
    [] e.op = "int"   -> <<Number(e.id)>>
    [] e.op = "-int"  -> <<Sign(TRUE), Number(e.id)>>
    [] e.op = "call"  -> <<Name(e.id), Kw("(")>> \o PrintArguments(e.args) \o Kws(<<")">>)
    [] e.op = "construct" ->
         <<[t |-> "type", id |-> e.args[1]], Kw("(")>> \o PrintArguments(Tail(e.args)) \o Kws(<<")">>)
    [] e.op = "()"    -> Kws(<<"(">>) \o PrintExpression(e.args[1]) \o Kws(<<")">>)
    [] e.op = "[]"    -> PrintExpression(e.args[1]) \o Kws(<<"[">>) \o PrintExpression(e.args[2])
                           \o Kws(<<"]">>)
    [] e.op = "."     -> PrintExpression(e.args[1]) \o <<Kw("."), Name(e.id)>>
    [] e.op \in UnaryOps -> PrintUnary(e)
    [] OTHER          -> PrintBinary(e)

(* The text as a C compiler reads it, by the precedence of its operators;  *)
(* two signs with nothing between them are one operator.                   *)
CLevels == <<{"||"}, {"&&"}, {"|"}, {"^"}, {"&"}, {"==", "!="}, {"<", ">", "<=", ">="},
             ShiftOps, AdditiveOps, MultiplyOps>>

RECURSIVE CUnary(_, _), CSuffixes(_, _), CChain(_, _, _), CList(_, _, _)

COperators(ts, at, level) ==
  IF level > Len(CLevels) THEN CUnary(ts, at)
  ELSE LET RECURSIVE First(_)
           First(l) == IF l > Len(CLevels) THEN CUnary(ts, at) ELSE CChain(ts, First(l + 1), l)
       IN First(level)

CChain(ts, lhs, level) ==
  LET rhs == COperators(ts, lhs.at + 1, level + 1)
  IN IF ~Ok(lhs) \/ Peek(ts, lhs.at).t \notin CLevels[level] THEN lhs
     ELSE CChain(ts, Binary(Peek(ts, lhs.at).t, lhs, rhs), level)

CExpression(ts, at) == COperators(ts, at, 1)

(* The arguments from the position at to the closing parenthesis.          *)
CList(ts, at, got) ==
  LET e == CExpression(ts, at)
  IN IF Is(ts, at, ")") THEN Success(at + 1, got)
     ELSE IF ~Ok(e) THEN e
     ELSE IF Is(ts, e.at, ",") THEN CList(ts, e.at + 1, Append(got, e.val))
     ELSE IF Is(ts, e.at, ")") THEN Success(e.at + 1, Append(got, e.val))
     ELSE Error(at)

CSuffixes(ts, lhs) ==
  LET index == CExpression(ts, lhs.at + 1)
  IN IF ~Ok(lhs) THEN lhs
     ELSE IF Is(ts, lhs.at, "[")
     THEN IF ~Ok(index) THEN index
          ELSE CSuffixes(ts, Success(index.at + 1, Apply("[]", <<lhs.val, index.val>>)))
     ELSE IF Is(ts, lhs.at, ".")
     THEN CSuffixes(ts, Success(lhs.at + 2, Node(".", Peek(ts, lhs.at + 1).id, <<lhs.val>>)))
     ELSE lhs

CPrimary(ts, at) ==
  LET token == Peek(ts, at)
      list == CList(ts, at + 2, <<>>)
      inside == CExpression(ts, at + 1)
  IN IF token.t = "int" THEN Success(at + 1, Leaf("int", token.id))
     ELSE IF token.t = "(" THEN IF Ok(inside) THEN [inside EXCEPT !.at = @ + 1] ELSE inside
     ELSE IF token.t \notin {"ident", "type"} THEN Error(at)
     ELSE IF ~Is(ts, at + 1, "(") THEN Success(at + 1, Leaf("ident", token.id))
     ELSE IF ~Ok(list) THEN list
     ELSE Success(list.at, IF token.t = "type" THEN Apply("construct", <<token.id>> \o list.val)
                           ELSE Node("call", token.id, list.val))

CUnary(ts, at) ==
  LET operand == CUnary(ts, at + 1)
      op == IF Is(ts, at, "-") THEN "neg" ELSE "not"
  IN IF Peek(ts, at).t \notin {"-", "!"} THEN CSuffixes(ts, CPrimary(ts, at))
     ELSE IF Peek(ts, at) = Sign(TRUE) /\ Is(ts, at + 1, "-") THEN Error(at)
     ELSE IF Ok(operand) THEN Success(operand.at, Apply(op, <<operand.val>>)) ELSE operand

CRead(ts) == LET e == CExpression(ts, 1) IN IF Ok(e) /\ e.at = Len(ts) THEN e ELSE Error(1)

----------------------------------------------------------------------------
NoFunction ==
  /\ source = [body |-> <<>>, void |-> TRUE] /\ phase = "over"
  /\ ast = <<>> /\ text = <<>> /\ ir = <<>> /\ accepted = FALSE
  /\ src = Apart /\ blk = Apart /\ txt = Apart

CompilerInit ==
  /\ \/ Init /\ written = Null /\ stage = "none" /\ blanks = TRUE
     \/ /\ NoFunction
        /\ \E size \in ExpressionSizes : written \in Expressions(size)
        /\ stage = "written" /\ blanks \in BOOLEAN
  /\ read = Error(0) /\ spirv = Null /\ glsl = Null

ParseExpression ==
  /\ stage = "written"
  /\ read' = Initializer(Scan(Written(written, blanks)))
  /\ stage' = "parsed"
  /\ UNCHANGED <<vars, written, blanks, spirv, glsl>>

CompileExpression ==
  /\ stage = "parsed" /\ Ok(read)
  /\ spirv' = LET r == LowerExpression(read.val, 0) IN EnsureValue(r, r.calls).val
  /\ glsl' = LET r == CRead(Append(PrintExpression(read.val), Kw("eof")))
             IN IF Ok(r) THEN Read(r.val, 0).val ELSE Null
  /\ stage' = "compiled"
  /\ UNCHANGED <<vars, written, blanks, read>>

CompilerNext == \/ Next /\ UNCHANGED expressionVars
                \/ ParseExpression
                \/ CompileExpression

CompilerSpec == CompilerInit /\ [][CompilerNext]_<<vars, expressionVars>>

----------------------------------------------------------------------------
(* Where the compiler is known to differ from WGSL.                        *)

RECURSIVE Nodes(_)
Nodes(e) == {e} \cup UNION {Nodes(e.args[i]) : i \in DOMAIN e.args}
Calls(e) == \E n \in Nodes(e) : n.op = "call"

(* The scanner takes the sign for a part of the number.                    *)
SignBeforeNumber(e) ==
  \E n \in Nodes(e) : n.op = "-" /\ Spelled(n.args[2], FALSE)[1].t = "int"

(* How many parentheses are open at a token.                               *)
DepthAt(ts, i) ==
  LET Of(kinds) == Cardinality({j \in 1..(i - 1) : ts[j].t \in kinds})
  IN Of({"(", "["}) - Of({")", "]"})

(* A comparison stays open when the parentheses it is in are closed, and a *)
(* later > in others is taken for the end of template arguments.           *)
LessIsClosedOver(ts) ==
  LET Greater(i) == ts[i].t \in {">", ">>", ">="} IN
  \E i, j, k \in DOMAIN ts :
    /\ i < j /\ j < k
    /\ ts[i].t = "<" /\ ts[j].t \in {")", "]"} /\ Greater(k)
    /\ DepthAt(ts, i) > 0 /\ DepthAt(ts, j) = DepthAt(ts, i) /\ DepthAt(ts, k) = DepthAt(ts, i)
    /\ \A m \in i..j : Greater(m) => DepthAt(ts, m) # DepthAt(ts, i)

(* A variable on the left is read after the calls on the right.            *)
ReadsLate(e) ==
  \E n \in Nodes(e) :
    n.op \in BinaryOps /\ Meaning(n.args[1], 0).ref /\ Calls(n.args[2])

(* The right of && and || is evaluated always.                             *)
AlwaysCalls(e) == \E n \in Nodes(e) : n.op \in LogicalOps /\ Calls(n.args[2])

(* Two signs are printed next to each other.                               *)
SignsTouch(e) ==
  \E n \in Nodes(e) : n.op = "neg" /\ PrintExpression(n.args[1])[1].t = "-"

----------------------------------------------------------------------------
(* Properties                                                              *)

(* The scanner and Parser::Expression find in the text of an expression    *)
(* the expression that was written: its operands keep to their operators,  *)
(* and the < and > of template arguments are told from comparisons and     *)
(* shifts, those split from a >> included.                                 *)
ExpressionsAreReadRight ==
  stage \in {"parsed", "compiled"} =>
    \/ Ok(read) /\ read.val = written
    \/ ~blanks /\ SignBeforeNumber(written)
    \/ LessIsClosedOver(Scanned(Written(written, blanks)))

(* What the instructions and the GLSL text of an expression compute is     *)
(* what WGSL says: each variable is read between the same two calls, the   *)
(* calls are made in order, and every operator has its own operands.       *)
ExpressionsMeanTheSame ==
  stage = "compiled" /\ read.val = written =>
    /\ ReadsLate(written) \/ AlwaysCalls(written) \/ spirv = Read(written, 0).val
    /\ SignsTouch(written) \/ glsl = Read(written, 0).val
============================================================================

--------------------------- MODULE WgxExpressions ---------------------------
(***************************************************************************)
(* An expression through the shader compiler: its text is scanned, with    *)
(* the < and > of template arguments told from comparisons (module/wgx/    *)
(* wgsl/scanner.cpp), parsed (wgsl/parser.cpp), lowered for SPIR-V         *)
(* (lower/lower_expr.cpp) and printed for GLSL (glsl/glsl_ast_printer.cpp).*)
(*                                                                         *)
(* A node is a record [op, id, args].  Names and numbers have an id, so    *)
(* that no two of an expression are alike.  Every name is a variable that  *)
(* any function may change, or a function, or a type.  The types of        *)
(* values, the spelling of numbers and built-in functions are left out,    *)
(* and of the unary operators those the SPIR-V lowering rejects are only   *)
(* parsed.                                                                 *)
(***************************************************************************)
EXTENDS WgxParser

Node(op, id, args)  == [op |-> op, id |-> id, args |-> args]
Leaf(op, id)        == Node(op, id, <<>>)
Apply(op, args)     == Node(op, 0, args)

UnaryOps      == {"neg", "not"}
BitwiseOps    == {"&", "|", "^"}
ShiftOps      == {"<<", ">>"}
RelationalOps == {"<", ">", "<=", ">=", "==", "!="}
LogicalOps    == {"&&", "||"}
AdditiveOps   == {"+", "-"}
MultiplyOps   == {"*", "/", "%"}
BinaryOps == BitwiseOps \cup ShiftOps \cup RelationalOps \cup LogicalOps
               \cup AdditiveOps \cup MultiplyOps

----------------------------------------------------------------------------
(* The text of an expression, as what is written between blanks: a sign    *)
(* with the id 1 has none after it.                                        *)

Sign(glued)  == [t |-> "-", id |-> IF glued THEN 1 ELSE 0]
Number(id)   == [t |-> "int", id |-> id]

RECURSIVE Spelled(_, _)

SpelledList(args, blanks) ==
  FoldLeft(LAMBDA ts, e : ts \o (IF ts = <<>> THEN <<>> ELSE Kws(<<",">>)) \o Spelled(e, blanks),
           <<>>, args)

(* Two signs next to each other are written apart.                         *)
Signed(ts, glued) == <<Sign(glued /\ Head(ts).t # "-")>> \o ts

Spelled(e, blanks) ==
  LET Of(i) == Spelled(e.args[i], blanks) IN
  CASE e.op = "ident"     -> <<Name(e.id)>>
    [] e.op = "int"       -> <<Number(e.id)>>
    [] e.op = "-int"      -> <<Sign(TRUE), Number(e.id)>>
    [] e.op = "()"        -> Kws(<<"(">>) \o Of(1) \o Kws(<<")">>)
    [] e.op = "call"      -> <<Name(e.id), Kw("(")>> \o SpelledList(e.args, blanks) \o Kws(<<")">>)
    [] e.op = "template"  -> <<Name(e.id), Kw("<")>> \o SpelledList(e.args, blanks) \o Kws(<<">">>)
    [] e.op = "construct" -> Of(1) \o Kws(<<"(">>) \o SpelledList(Tail(e.args), blanks) \o Kws(<<")">>)
    [] e.op = "[]"        -> Of(1) \o Kws(<<"[">>) \o Of(2) \o Kws(<<"]">>)
    [] e.op = "."         -> Of(1) \o <<Kw("."), Name(e.id)>>
    [] e.op = "neg"       -> Signed(Of(1), TRUE)
    [] e.op = "not"       -> Kws(<<"!">>) \o Of(1)
    [] e.op = "-"         -> Of(1) \o Signed(Of(2), ~blanks)
    [] OTHER              -> Of(1) \o Kws(<<e.op>>) \o Of(2)

(* An expression in the place of an initializer at the end of a module.    *)
Written(e, blanks) == Kws(<<"=">>) \o Spelled(e, blanks) \o Kws(<<";", "eof">>)

----------------------------------------------------------------------------
(* Scanner.                                                                *)

(* A sign right before a digit is part of the number.                      *)
Scanned(text) ==
  FoldLeft(LAMBDA ts, c :
             LET last == IF ts = <<>> THEN Kw("eof") ELSE Last(ts)
             IN IF c.t = ">" /\ last.t = ">" THEN Append(Front(ts), Kw(">>"))
                ELSE IF c.t = "int" /\ last.t = "-" /\ last.id = 1
                     THEN Append(Front(ts), [c EXCEPT !.t = "-int"])
                ELSE Append(IF last.t = "-" THEN Append(Front(ts), Kw("-")) ELSE ts, c),
           <<>>, text)

(* What is still open after a parenthesis closed at this depth: all that   *)
(* is not at this depth goes from the end of the stack.                    *)
LeftAfterClosing(stack, depth) ==
  SubSeq(stack, 1, SelectLastInSeq(stack, LAMBDA s : s.depth = depth))

(* Seeded fault: a comparison stays open after && and ||. *)
LeftAfterLogicalAll(stack, depth) == stack
(* What && and || leave open.                                              *)
LeftAfterLogical(stack, depth) ==
  SubSeq(stack, 1, SelectLastInSeq(stack, LAMBDA s : s.depth # depth))

(* What WGSL leaves open after either.                                     *)
WgslLeaves(stack, depth) == SelectSeq(stack, LAMBDA s : s.depth < depth)

(* maybe_split: the > that closes the arguments and the rest.              *)
MaybeSplit(ts, i) ==
  LET rest == IF ts[i].t = ">>" THEN Kws(<<">">>) ELSE IF ts[i].t = ">=" THEN Kws(<<"=">>) ELSE <<>>
  IN SubSeq(ts, 1, i - 1) \o Kws(<<">">>) \o rest \o SubSeq(ts, i + 1, Len(ts))

(* classify_template_arguments, from the token i on.  Only as many tokens  *)
(* are looked at as there were before any was split.                       *)
RECURSIVE Classified(_, _, _, _, _, _)
Classified(ts, i, depth, stack, count, wgsl) ==
  LET On(next, d, s) == Classified(ts, next, d, s, count, wgsl)
      closed == IF wgsl THEN WgslLeaves(stack, depth) ELSE LeftAfterClosing(stack, depth)
      decided == IF wgsl THEN WgslLeaves(stack, depth) ELSE LeftAfterLogical(stack, depth)
      split == MaybeSplit(ts, i)
  IN IF i >= count THEN ts
     ELSE IF ts[i].t \in {"ident", "var"}
          THEN IF ts[i + 1].t = "<"
               THEN On(i + 2, depth, Append(stack, [at |-> i + 1, depth |-> depth]))
               ELSE On(i + 1, depth, stack)
     ELSE IF ts[i].t \in {">", ">>", ">="} /\ stack # <<>> /\ Last(stack).depth = depth
          THEN Classified([split EXCEPT ![Last(stack).at] = Kw("t<"), ![i] = Kw("t>")],
                          i + 1, depth, Front(stack), count, wgsl)
     ELSE IF ts[i].t \in {"(", "["} THEN On(i + 1, depth + 1, stack)
     ELSE IF ts[i].t \in {")", "]"} THEN On(i + 1, IF depth > 0 THEN depth - 1 ELSE 0, closed)
     ELSE IF ts[i].t \in {";", "{", "=", ":"} THEN On(i + 1, 0, <<>>)
     ELSE IF ts[i].t \in LogicalOps THEN On(i + 1, depth, decided)
     ELSE On(i + 1, depth, stack)

ClassifyTemplateArguments(ts, wgsl) == Classified(ts, 1, 0, <<>>, Len(ts), wgsl)

Scan(text) == ClassifyTemplateArguments(Scanned(text), FALSE)

----------------------------------------------------------------------------
(* Parser: as in WgxParser, from a position in the tokens, or from the     *)
(* result lhs of what has been read so far, to a result.                   *)

RECURSIVE Expression(_, _), ExpressionList(_, _, _), UnaryExpression(_, _),
          ComponentOrSwizzle(_, _), MultiplyExpPostUnaryExpr(_, _),
          AdditiveExpPostUnaryExpr(_, _), BitwiseChain(_, _, _), LogicalChain(_, _, _)

Binary(op, lhs, rhs) == IF Ok(rhs) THEN Success(rhs.at, Apply(op, <<lhs.val, rhs.val>>)) ELSE Error(rhs.at)

(* Any number of expressions, the last of which may have a comma after it. *)
ExpressionList(ts, at, got) ==
  LET After(e) == IF e.st = "error" THEN e
                  ELSE IF ~Ok(e) THEN Success(at, got)
                  ELSE IF Is(ts, e.at, ",") THEN ExpressionList(ts, e.at + 1, Append(got, e.val))
                  ELSE Success(e.at, Append(got, e.val))
  IN After(Expression(ts, at))

(* A list between two tokens, the first of which is at the position at.    *)
Enclosed(ts, at, close) ==
  LET After(list) == IF Ok(list) /\ Is(ts, list.at, close) THEN Success(list.at + 1, list.val)
                     ELSE Error(at)
  IN After(ExpressionList(ts, at + 1, <<>>))

TemplateArgs(ts, at) ==
  LET After(list) == IF Ok(list) /\ list.val = <<>> THEN Error(at) ELSE list
  IN After(Enclosed(ts, at, "t>"))

(* What follows a name, with or without template arguments: a call or not. *)
CallOrNot(ts, name) ==
  LET args == Enclosed(ts, name.at, ")")
      Called(n, params) == IF n.op = "template" THEN Apply("construct", <<n>> \o params)
                           ELSE Node("call", n.id, params)
  IN IF ~Ok(name) \/ ~Is(ts, name.at, "(") THEN name
     ELSE IF Ok(args) THEN Success(args.at, Called(name.val, args.val)) ELSE args

NameOrCall(ts, at) ==
  LET id == Peek(ts, at).id
      Template(targs) == IF Ok(targs) THEN Success(targs.at, Node("template", id, targs.val)) ELSE targs
  IN CallOrNot(ts, IF Is(ts, at + 1, "t<") THEN Template(TemplateArgs(ts, at + 1))
                   ELSE Success(at + 1, Leaf("ident", id)))

PrimaryExpression(ts, at) ==
  LET After(list) == IF Ok(list) THEN Success(list.at, Apply("()", list.val)) ELSE list
  IN IF Peek(ts, at).t \in {"int", "-int"} THEN Success(at + 1, Leaf(Peek(ts, at).t, Peek(ts, at).id))
     ELSE IF Is(ts, at, "ident") THEN NameOrCall(ts, at)
     ELSE IF Is(ts, at, "(") THEN After(Enclosed(ts, at, ")"))
     ELSE NotMatch(at)

(* From here on what follows what has failed is not looked at.             *)
ComponentOrSwizzle(ts, prefix) ==
  LET at == prefix.at
      After(index) == IF ~Ok(index) THEN index
                      ELSE IF ~Is(ts, index.at, "]") THEN Error(at)
                      ELSE ComponentOrSwizzle(ts, Success(index.at + 1, Apply("[]", <<prefix.val, index.val>>)))
  IN IF ~Ok(prefix) THEN prefix
     ELSE IF Is(ts, at, "[") THEN After(Expression(ts, at + 1))
     ELSE IF Is(ts, at, ".")
     THEN IF ~Is(ts, at + 1, "ident") THEN Error(at)
          ELSE ComponentOrSwizzle(ts, Success(at + 2, Node(".", Peek(ts, at + 1).id, <<prefix.val>>)))
     ELSE IF Is(ts, at, "eof") THEN NotMatch(at)
     ELSE prefix

SingularExpression(ts, at) == ComponentOrSwizzle(ts, PrimaryExpression(ts, at))

UnaryOpOf ==
  ("-" :> "neg") @@ ("!" :> "not") @@ ("~" :> "complement") @@ ("*" :> "indirection") @@ ("&" :> "address")

UnaryExpression(ts, at) ==
  LET op == Peek(ts, at).t
      After(r) == IF Ok(r) THEN Success(r.at, Apply(UnaryOpOf[op], <<r.val>>)) ELSE Error(at)
  IN IF op \in {"++", "--"} THEN Error(at)
     ELSE IF op \in DOMAIN UnaryOpOf THEN After(UnaryExpression(ts, at + 1))
     ELSE SingularExpression(ts, at)

MultiplyExpPostUnaryExpr(ts, lhs) ==
  LET op == Peek(ts, lhs.at).t
  IN IF ~Ok(lhs) \/ op \notin MultiplyOps \cup {"eof"} THEN lhs
     ELSE IF op = "eof" THEN Error(lhs.at)
     ELSE MultiplyExpPostUnaryExpr(ts, Binary(op, lhs, UnaryExpression(ts, lhs.at + 1)))

(* Seeded fault: what follows is taken for the right operand. *)
AdditiveToTheRight(ts, lhs) ==
  LET op == Peek(ts, lhs.at).t
  IN IF ~Ok(lhs) \/ op \notin AdditiveOps THEN lhs
     ELSE Binary(op, lhs, AdditiveExpPostUnaryExpr(ts, MultiplyExpPostUnaryExpr(ts, UnaryExpression(ts, lhs.at + 1))))
AdditiveExpPostUnaryExpr(ts, lhs) ==
  LET op == Peek(ts, lhs.at).t
  IN IF ~Ok(lhs) \/ op \notin AdditiveOps \cup {"eof"} THEN lhs
     ELSE IF op = "eof" THEN Error(lhs.at)
     ELSE AdditiveExpPostUnaryExpr(ts,
            Binary(op, lhs, MultiplyExpPostUnaryExpr(ts, UnaryExpression(ts, lhs.at + 1))))

MathExpPostUnaryExpr(ts, lhs) == AdditiveExpPostUnaryExpr(ts, MultiplyExpPostUnaryExpr(ts, lhs))

(* A shift takes the place of the sums and products.                       *)
ShiftExpPostUnaryExpr(ts, lhs) ==
  LET op == Peek(ts, lhs.at).t
  IN IF ~Ok(lhs) THEN lhs
     ELSE IF op \in ShiftOps THEN Binary(op, lhs, UnaryExpression(ts, lhs.at + 1))
     ELSE MathExpPostUnaryExpr(ts, lhs)

ShiftExpression(ts, at) == ShiftExpPostUnaryExpr(ts, UnaryExpression(ts, at))

RelationExpPostUnaryExpr(ts, start) ==
  LET After(lhs) == IF ~Ok(lhs) THEN Error(start.at)
                    ELSE IF Peek(ts, lhs.at).t \in RelationalOps
                    THEN Binary(Peek(ts, lhs.at).t, lhs, ShiftExpression(ts, lhs.at + 1))
                    ELSE lhs
  IN IF Ok(start) THEN After(ShiftExpPostUnaryExpr(ts, start)) ELSE start

RelationalExpression(ts, at) == RelationExpPostUnaryExpr(ts, UnaryExpression(ts, at))

(* Chains of one operator only; their operands are unary expressions, ...  *)
BitwiseChain(ts, lhs, op) ==
  IF Ok(lhs) /\ Is(ts, lhs.at, op)
  THEN BitwiseChain(ts, Binary(op, lhs, UnaryExpression(ts, lhs.at + 1)), op) ELSE lhs

(* ... or comparisons.                                                     *)
LogicalChain(ts, lhs, op) ==
  IF Ok(lhs) /\ Is(ts, lhs.at, op)
  THEN LogicalChain(ts, Binary(op, lhs, RelationalExpression(ts, lhs.at + 1)), op) ELSE lhs

Expression(ts, at) ==
  LET AfterRelation(lhs) == IF Ok(lhs) /\ Peek(ts, lhs.at).t \in LogicalOps
                            THEN LogicalChain(ts, lhs, Peek(ts, lhs.at).t) ELSE lhs
      AfterUnary(lhs) == IF Ok(lhs) /\ Peek(ts, lhs.at).t \in BitwiseOps
                         THEN BitwiseChain(ts, lhs, Peek(ts, lhs.at).t)
                         ELSE AfterRelation(RelationExpPostUnaryExpr(ts, lhs))
  IN AfterUnary(UnaryExpression(ts, at))

(* An initializer has to end where the declaration does.                   *)
Initializer(ts) ==
  LET After(e) == IF Ok(e) /\ Is(ts, e.at, ";") THEN e ELSE Error(2) IN After(Expression(ts, 2))
=============================================================================

----------------------------- MODULE WgxParser -----------------------------
(***************************************************************************)
(* The recursive-descent parser of function bodies, module/wgx/wgsl/       *)
(* parser.cpp: one operator per method, from a position in the tokens to a *)
(* result [st, at, val] with the state the method returns, the position it *)
(* leaves and the node it made.  As in the code a method that does not     *)
(* match has consumed nothing, an error ends everything, and a success may *)
(* carry no node.  An expression is one token here; attributes and types   *)
(* are left out.                                                           *)
(***************************************************************************)
EXTENDS WgxSyntax

Peek(ts, at)  == IF at <= Len(ts) THEN ts[at] ELSE Kw("eof")
Is(ts, at, t) == Peek(ts, at).t = t
Starts(ts, at, words) == \A i \in DOMAIN words : Is(ts, at + i - 1, words[i])

Result(st, at, val) == [st |-> st, at |-> at, val |-> val]
Success(at, val)    == Result("success", at, val)
NotMatch(at)        == Result("no match", at, Null)
Error(at)           == Result("error", at, Null)
Ok(r)               == r.st = "success"

ExpressionToken(ts, at) ==
  IF Peek(ts, at).t \in {"expr", "ident"} THEN Success(at + 1, Peek(ts, at).id) ELSE NotMatch(at)

(* x = e;  _ = e;  x++;                                                    *)
VariableUpdateStatement(ts, at) ==
  LET phony == Is(ts, at, "_")
      lhs == IF phony THEN Success(at + 1, 0) ELSE ExpressionToken(ts, at)
      rhs == ExpressionToken(ts, lhs.at + 1)
  IN IF Starts(ts, at, <<"ident", ":">>) THEN Error(at)
     ELSE IF ~Ok(lhs) THEN lhs
     ELSE IF ~phony /\ Is(ts, lhs.at, "++") THEN Success(lhs.at + 1, Plain("incr", lhs.val))
     ELSE IF ~Is(ts, lhs.at, "=") \/ ~Ok(rhs) THEN Error(lhs.at)
     ELSE Success(rhs.at, Plain(IF phony THEN "phony" ELSE "assign", rhs.val))

(* const and let need an initializer, var does not.                        *)
VariableStatement(ts, at) ==
  LET typed == IF Is(ts, at + 1, "ident") THEN at + 2 ELSE at + 1
      init == ExpressionToken(ts, typed + 1)
      node == Plain("var", Peek(ts, at + 1).id)
  IN IF Peek(ts, at).t \notin {"const", "let", "var"} THEN NotMatch(at)
     ELSE IF Is(ts, typed, "=")
          THEN IF Ok(init) THEN Success(init.at, node) ELSE Error(typed)
     ELSE IF Is(ts, at, "var") /\ typed = at + 2 THEN Success(typed, node) ELSE Error(typed)

FuncCallStatement(ts, at) ==
  LET arg == ExpressionToken(ts, at + 2)
      close == IF Ok(arg) THEN arg.at ELSE at + 2
  IN IF ~Starts(ts, at, <<"ident", "(">>) THEN NotMatch(at)
     ELSE IF Is(ts, close, ")") THEN Success(close + 1, Plain("call", Peek(ts, at).id))
     ELSE Error(close)

ReturnStatement(ts, at) ==
  LET value == ExpressionToken(ts, at + 1) IN
  IF ~Is(ts, at, "return") THEN NotMatch(at)
  ELSE IF Ok(value) THEN Success(value.at, Plain("return", value.val))
  ELSE Success(at + 1, Plain("return", 0))

KeywordStatement(ts, at) ==
  IF Peek(ts, at).t \in {"break", "continue", "discard"}
  THEN Success(at + 1, Plain(Peek(ts, at).t, 0)) ELSE NotMatch(at)

(* The first of the results, in this order, that is not "no match".        *)
FirstMatch(results, at) ==
  FoldLeft(LAMBDA r, next : IF r.st = "no match" THEN next ELSE r, NotMatch(at), results)

NonBlockStatement(ts, at) ==
  LET r == FirstMatch(<<ReturnStatement(ts, at), FuncCallStatement(ts, at),
                        VariableStatement(ts, at), KeywordStatement(ts, at),
                        VariableUpdateStatement(ts, at)>>, at)
  IN IF ~Ok(r) THEN r
     ELSE IF Is(ts, r.at, ";") THEN Success(r.at + 1, r.val) ELSE Error(r.at)

BreakIfStatement(ts, at) ==
  LET cond == ExpressionToken(ts, at + 2) IN
  IF ~Starts(ts, at, <<"break", "if">>) THEN NotMatch(at)
  ELSE IF Ok(cond) /\ Is(ts, cond.at, ";") THEN Success(cond.at + 1, Plain("breakif", cond.val))
  ELSE Error(at)

----------------------------------------------------------------------------
RECURSIVE Statement(_, _), StatementsFrom(_, _, _), CompoundStatement(_, _),
          IfChain(_, _, _), CaseSelectors(_, _, _), SwitchArms(_, _, _),
          ContinuingBody(_, _, _)

(* The statements up to the first token that starts none.                  *)
StatementsFrom(ts, at, got) ==
  LET After(r) == IF Ok(r) THEN StatementsFrom(ts, r.at, Append(got, r.val))
                  ELSE IF r.st = "error" THEN r
                  ELSE Success(r.at, got)
  IN IF Is(ts, at, "eof") THEN Success(at, got) ELSE After(Statement(ts, at))

(* A body needs a statement; without its closing brace it is a success     *)
(* that carries no node.                                                   *)
CompoundStatement(ts, at) ==
  LET After(r) == IF ~Ok(r) \/ r.val = <<>> THEN Error(r.at)
                  ELSE IF ~Is(ts, r.at, "}") THEN Success(r.at, Null)
                  ELSE Success(r.at + 1, BlockOf(r.val))
  IN IF Is(ts, at, "{") THEN After(StatementsFrom(ts, at + 1, <<>>)) ELSE NotMatch(at)

BodyOf(r) == IF r.val = Null THEN <<Null>> ELSE r.val.body

ParseIf(ts, at) ==
  LET cond == ExpressionToken(ts, at + 1)
      After(body) == IF ~Ok(cond) \/ ~Ok(body) THEN Error(at)
                     ELSE Success(body.at, [cond |-> cond.val, body |-> BodyOf(body)])
  IN IF Is(ts, at, "if") THEN After(CompoundStatement(ts, cond.at)) ELSE NotMatch(at)

(* Seeded fault: the chain is built from the outside in.                   *)
BuildChainForwards(infos, last) ==
  FoldLeft(LAMBDA tail, info : <<IfOf(info.cond, info.body, tail)>>, last, infos)[1]

(* The chain is built from the inside out, the first if last.              *)
BuildChain(infos, last) ==
  FoldRight(LAMBDA info, tail : <<IfOf(info.cond, info.body, tail)>>, infos, last)[1]

IfChain(ts, at, c) ==
  LET AfterElse(else) == IF Ok(else) THEN IfChain(ts, else.at, [c EXCEPT !.last = <<else.val>>])
                         ELSE Error(at)
      AfterIf(next) == IF Ok(next) THEN IfChain(ts, next.at, [c EXCEPT !.infos = Append(@, next.val)])
                       ELSE IF next.st = "error" THEN next
                       ELSE AfterElse(CompoundStatement(ts, at + 1))
  IN IF Is(ts, at, "else") THEN AfterIf(ParseIf(ts, at + 1))
     ELSE Success(at, BuildChain(c.infos, c.last))

IfStatement(ts, at) ==
  LET After(r) == IF Ok(r) THEN IfChain(ts, r.at, [infos |-> <<r.val>>, last |-> <<>>]) ELSE r
  IN After(ParseIf(ts, at))

CaseSelectors(ts, at, got) ==
  LET value == IF Is(ts, at, "default") THEN Success(at + 1, Default) ELSE ExpressionToken(ts, at)
      all == Append(got, value.val)
  IN IF ~Ok(value) THEN Error(at)
     ELSE IF Is(ts, value.at, ",") THEN CaseSelectors(ts, value.at + 1, all)
     ELSE Success(value.at, all)

SwitchBody(ts, at) ==
  LET sel == IF Is(ts, at, "case") THEN CaseSelectors(ts, at + 1, <<>>)
             ELSE Success(at + 1, <<Default>>)
      After(body) == IF ~Ok(sel) \/ ~Ok(body) THEN Error(at)
                     ELSE Success(body.at, ArmOf(sel.val, BodyOf(body)))
  IN IF Peek(ts, at).t \notin {"case", "default"} THEN NotMatch(at)
     ELSE After(CompoundStatement(ts, IF Is(ts, sel.at, ":") THEN sel.at + 1 ELSE sel.at))

SwitchArms(ts, at, got) ==
  LET After(r) == IF Ok(r) THEN SwitchArms(ts, r.at, Append(got, r.val))
                  ELSE IF r.st = "error" THEN r ELSE Success(at, got)
  IN After(SwitchBody(ts, at))

SwitchStatement(ts, at) ==
  LET cond == ExpressionToken(ts, at + 1)
      After(arms) == IF Ok(arms) /\ Is(ts, arms.at, "}")
                     THEN Success(arms.at + 1, SwitchOf(cond.val, arms.val)) ELSE Error(at)
  IN IF ~Is(ts, at, "switch") THEN NotMatch(at)
     ELSE IF Ok(cond) /\ Is(ts, cond.at, "{") THEN After(SwitchArms(ts, cond.at + 1, <<>>))
     ELSE Error(at)

(* Inside continuing a "break if" is tried before any other statement.     *)
ContinuingBody(ts, at, got) ==
  LET After(r) == IF Ok(r) THEN ContinuingBody(ts, r.at, Append(got, r.val)) ELSE Error(at)
  IN IF Is(ts, at, "}") THEN Success(at + 1, got)
     ELSE After(FirstMatch(<<BreakIfStatement(ts, at), Statement(ts, at)>>, at))

ContinuingStatement(ts, at) ==
  IF ~Is(ts, at, "continuing") THEN Success(at, <<>>)
  ELSE IF Is(ts, at + 1, "{") THEN ContinuingBody(ts, at + 2, <<>>)
  ELSE Error(at)

LoopStatement(ts, at) ==
  LET After(body, cont) == IF Ok(cont) /\ Is(ts, cont.at, "}")
                           THEN Success(cont.at + 1, LoopOf(body.val, cont.val)) ELSE Error(at)
      AfterBody(body) == IF Ok(body) THEN After(body, ContinuingStatement(ts, body.at)) ELSE Error(at)
  IN IF ~Is(ts, at, "loop") THEN NotMatch(at)
     ELSE IF Is(ts, at + 1, "{") THEN AfterBody(StatementsFrom(ts, at + 2, <<>>))
     ELSE Error(at)

ForHeaderInitializer(ts, at) ==
  FirstMatch(<<FuncCallStatement(ts, at), VariableStatement(ts, at),
               VariableUpdateStatement(ts, at)>>, at)

ForHeaderContinuing(ts, at) ==
  FirstMatch(<<FuncCallStatement(ts, at), VariableUpdateStatement(ts, at)>>, at)

(* Each part of the header may be missing, no semicolon may.               *)
ParseForHeader(ts, at) ==
  LET init == ForHeaderInitializer(ts, at)
      cond == ExpressionToken(ts, init.at + 1)
      step == ForHeaderContinuing(ts, cond.at + 1)
      Opt(r) == IF Ok(r) THEN <<r.val>> ELSE <<>>
  IN IF init.st = "error" \/ ~Is(ts, init.at, ";") \/ cond.st = "error"
          \/ ~Is(ts, cond.at, ";") \/ step.st = "error"
     THEN Error(at)
     ELSE Success(step.at, [init |-> Opt(init), cond |-> IF Ok(cond) THEN cond.val ELSE 0,
                            step |-> Opt(step)])

ForStatement(ts, at) ==
  LET header == ParseForHeader(ts, at + 2)
      After(h, body) == IF Ok(body) THEN Success(body.at, ForOf(h.init, h.cond, h.step, BodyOf(body)))
                        ELSE Error(at)
  IN IF ~Is(ts, at, "for") THEN NotMatch(at)
     ELSE IF Is(ts, at + 1, "(") /\ Ok(header) /\ Is(ts, header.at, ")")
          THEN After(header.val, CompoundStatement(ts, header.at + 1))
     ELSE Error(at)

WhileStatement(ts, at) ==
  LET cond == ExpressionToken(ts, at + 1)
      After(body) == IF Ok(body) THEN Success(body.at, WhileOf(cond.val, BodyOf(body))) ELSE Error(at)
  IN IF ~Is(ts, at, "while") THEN NotMatch(at)
     ELSE IF Ok(cond) THEN After(CompoundStatement(ts, cond.at))
     ELSE Error(at)

Statement(ts, at) ==
  IF Is(ts, at, ";") THEN Statement(ts, at + 1)
  ELSE FirstMatch(<<NonBlockStatement(ts, at), IfStatement(ts, at), SwitchStatement(ts, at),
                    LoopStatement(ts, at), ForStatement(ts, at), WhileStatement(ts, at),
                    CompoundStatement(ts, at)>>, at)

(* The body of a function: its statements, or none when it has no node.    *)
FunctionDeclaration(ts) ==
  LET After(r) == IF Ok(r) THEN Success(r.at, IF r.val = Null THEN <<>> ELSE r.val.body) ELSE r
  IN After(CompoundStatement(ts, 1))
=============================================================================

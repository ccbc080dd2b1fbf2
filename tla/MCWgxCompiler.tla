--------------------------- MODULE MCWgxCompiler ---------------------------
EXTENDS MCWgxShaders, WgxCompiler

V == Leaf("ident", 0)

(* The expressions of WGSL's grammar by the rule they come from, given the *)
(* smaller ones, smaller[k] for size k.                                    *)
OfSize(n, smaller) ==
  LET Get(rule, k) == IF k \in DOMAIN smaller THEN smaller[k][rule] ELSE {}
      Pairs(op, l, r) == UNION {{Apply(op, <<a, b>>) : a \in Get(l, k), b \in Get(r, n - 1 - k)}
                                 : k \in 1..(n - 2)}
      Lists(k) == (IF k = 0 THEN {<<>>} ELSE {})
                    \cup {<<e>> : e \in Get("expr", k)}
                    \cup UNION {{<<d, e>> : d \in Get("expr", j), e \in Get("expr", k - j)} : j \in 1..(k - 1)}
      named == {V : x \in {1} \cap {n}}
                 \cup {Node("call", 0, l) : l \in Lists(n - 1)}
                 \cup {Apply("construct", <<Node("template", 0, <<V>>), e>>) : e \in Get("expr", n - 2)}
                 \cup {Apply("()", <<e>>) : e \in Get("expr", n - 1)}
                 \cup Pairs("[]", "named", "expr")
                 \cup {Node(".", 0, <<e>>) : e \in Get("named", n - 1)}
      unary == named \cup (IF n = 1 THEN {Leaf("int", 0), Leaf("-int", 0)} ELSE {})
                 \cup {Apply("neg", <<e>>) : e \in {u \in Get("unary", n - 1) : u.op # "int"}}
                 \cup {Apply("not", <<e>>) : e \in Get("unary", n - 1)}
      product == unary \cup Pairs("*", "product", "unary")
      sum == product \cup Pairs("-", "sum", "product")
      shift == sum \cup Pairs(">>", "unary", "unary")
      relation == shift \cup UNION {Pairs(op, "shift", "shift") : op \in {"<", ">", ">="}}
      Chain(op, rule) == Pairs(op, rule, rule) \cup Pairs(op, op, rule)
      all == [op \in {"&&", "||"} |-> Chain(op, "relation")]
  IN [named |-> named, unary |-> unary, product |-> product, sum |-> sum, shift |-> shift,
      relation |-> relation] @@ ("&" :> Chain("&", "unary")) @@ all
       @@ ("expr" :> relation \cup Chain("&", "unary") \cup all["&&"] \cup all["||"])

UpTo(size) == FoldLeft(LAMBDA t, n : Append(t, OfSize(n, t)), <<>>, [n \in 1..size |-> n])

(* The names and numbers of an expression told apart.                      *)
RECURSIVE Numbered(_, _)
Numbered(e, path) ==
  [e EXCEPT !.id = IF e.op \in {"ident", "int", "-int", "call", "template", "."} THEN path ELSE 0,
            !.args = [i \in DOMAIN @ |-> Numbered(@[i], 4 * path + i)]]

(* What WGSL itself takes for template arguments are those of the tree.    *)
IsWgsl(e) ==
  LET ts == ClassifyTemplateArguments(Scanned(Written(e, TRUE)), TRUE)
  IN (\E n \in Nodes(e) : n.op = "<") =>
       Cardinality({i \in DOMAIN ts : ts[i].t = "t<"})
         = Cardinality({n \in Nodes(e) : n.op = "template"})

B(op, l, r) == Apply(op, <<l, r>>)
Paren(e) == Apply("()", <<e>>)
Call(e) == Node("call", 0, <<e>>)
Type(args) == Node("template", 0, args)
Of(t, e) == Apply("construct", <<t, e>>)

(* Larger expressions, for template arguments and long chains.             *)
LargeExpressions ==
  {B("&&", B("<", V, V), B(">", V, V)),
   B("||", Paren(B("<", V, V)), B(">", V, V)),
   B("||", Paren(B("<", V, V)), Paren(B(">", V, V))),
   B("||", Paren(B(">", V, V)), Paren(B("<", V, V))),
   B("&&", B("<", Paren(B("<", V, V)), V), Paren(B(">=", V, Of(Type(<<V>>), V)))),
   Of(Type(<<Type(<<V>>)>>), V),
   Of(Type(<<Type(<<V>>), V>>), B("<", V, V)),
   B(">>", Of(Type(<<Type(<<V>>)>>), V), Of(Type(<<Type(<<V>>)>>), V)),
   B("<", V, Of(Type(<<V>>), B("-", V, V))),
   B("[]", Of(Type(<<Type(<<V>>), V>>), V), B("<", V, V)),
   B("-", B("-", B("*", V, Call(V)), B("*", V, V)), B("*", V, Leaf("int", 0))),
   Call(B("-", Call(V), B("*", Call(V), Node(".", 0, <<B("[]", V, Call(V))>>)))),
   B("&&", B("&&", B(">", V, V), Apply("not", <<V>>)), B("<", V, B("-", V, V)))}

(* All expressions of up to size nodes; the larger ones have size 0.       *)
MCExpressions(size) ==
  LET sized == UpTo(size)
      all == IF size = 0 THEN LargeExpressions ELSE UNION {sized[n].expr : n \in 1..size}
  IN {e \in {Numbered(x, 1) : x \in all} : IsWgsl(e)}
============================================================================

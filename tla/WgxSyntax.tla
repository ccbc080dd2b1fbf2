----------------------------- MODULE WgxSyntax -----------------------------
(***************************************************************************)
(* The statements of a WGSL function as module/wgx/wgsl/ast/statement.h    *)
(* keeps them, the tokens a function body is written with, what the body   *)
(* means, and every valid body up to a size.                               *)
(*                                                                         *)
(* A statement is a record [op, id, ...].  The id stands for the           *)
(* expressions and names in it: no two statements of a body share one, so  *)
(* that what a compiled body does can be told from what it should do.      *)
(* Types, attributes and the inside of expressions are left out.           *)
(***************************************************************************)
EXTENDS Naturals, Sequences, FiniteSets, SequencesExt

Null == [op |-> "null", id |-> 0]

Plain(op, id)              == [op |-> op, id |-> id]
BlockOf(body)              == [op |-> "block", id |-> 0, body |-> body]
IfOf(id, body, else)       == [op |-> "if", id |-> id, body |-> body, else |-> else]
LoopOf(body, continuing)   == [op |-> "loop", id |-> 0, body |-> body, continuing |-> continuing]
WhileOf(id, body)          == [op |-> "while", id |-> id, body |-> body]
ForOf(init, cond, step, body) ==
  [op |-> "for", id |-> 0, init |-> init, cond |-> cond, step |-> step, body |-> body]
SwitchOf(id, arms)         == [op |-> "switch", id |-> id, arms |-> arms]
ArmOf(selectors, body)     == [selectors |-> selectors, body |-> body]

(* The selector of the default arm; the others are the numbers 1, 2, ...   *)
Default == 0

SimpleOps == {"assign", "phony", "call", "var", "incr"}
JumpOps   == {"return", "discard", "break", "continue"}

----------------------------------------------------------------------------
(* The tokens of a body.  Only names and expressions carry an id.          *)

Kw(word)  == [t |-> word, id |-> 0]
Kws(words) == [i \in 1..Len(words) |-> Kw(words[i])]
Name(id)  == [t |-> "ident", id |-> id]
Expr(id)  == [t |-> "expr", id |-> id]

WriteSimple(s) ==
  CASE s.op = "assign" -> <<Name(s.id), Kw("="), Expr(s.id)>>
    [] s.op = "phony"  -> <<Kw("_"), Kw("="), Expr(s.id)>>
    [] s.op = "incr"   -> <<Name(s.id), Kw("++")>>
    [] s.op = "var"    -> <<Kw("var"), Name(s.id), Kw("="), Expr(s.id)>>
    [] s.op = "call"   -> <<Name(s.id), Kw("("), Expr(s.id), Kw(")")>>

RECURSIVE Write(_), WriteAll(_), WriteArms(_)

Braced(body) == Kws(<<"{">>) \o WriteAll(body) \o Kws(<<"}">>)

WriteSelectors(selectors) ==
  IF selectors = <<Default>> THEN Kws(<<"default">>)
  ELSE FoldLeft(LAMBDA ts, i :
                  ts \o (IF i = 1 THEN <<>> ELSE Kws(<<",">>))
                     \o (IF selectors[i] = Default THEN Kws(<<"default">>)
                         ELSE <<Expr(selectors[i])>>),
                Kws(<<"case">>), [i \in 1..Len(selectors) |-> i])

WriteArms(arms) ==
  IF arms = <<>> THEN <<>>
  ELSE WriteSelectors(arms[1].selectors) \o Braced(arms[1].body) \o WriteArms(Tail(arms))

Write(s) ==
  CASE s.op \in SimpleOps -> WriteSimple(s) \o Kws(<<";">>)
    [] s.op = "return" ->
         Kws(<<"return">>) \o (IF s.id = 0 THEN <<>> ELSE <<Expr(s.id)>>) \o Kws(<<";">>)
    [] s.op \in JumpOps \ {"return"} -> Kws(<<s.op, ";">>)
    [] s.op = "breakif" -> Kws(<<"break", "if">>) \o <<Expr(s.id)>> \o Kws(<<";">>)
    [] s.op = "block" -> Braced(s.body)
    [] s.op = "if" ->
         Kws(<<"if">>) \o <<Expr(s.id)>> \o Braced(s.body)
           \o (IF s.else = <<>> THEN <<>> ELSE Kws(<<"else">>) \o Write(s.else[1]))
    [] s.op = "while" -> Kws(<<"while">>) \o <<Expr(s.id)>> \o Braced(s.body)
    [] s.op = "for" ->
         Kws(<<"for", "(">>) \o (IF s.init = <<>> THEN <<>> ELSE WriteSimple(s.init[1]))
           \o Kws(<<";">>) \o (IF s.cond = 0 THEN <<>> ELSE <<Expr(s.cond)>>)
           \o Kws(<<";">>) \o (IF s.step = <<>> THEN <<>> ELSE WriteSimple(s.step[1]))
           \o Kws(<<")">>) \o Braced(s.body)
    [] s.op = "loop" ->
         Kws(<<"loop", "{">>) \o WriteAll(s.body)
           \o (IF s.continuing = <<>> THEN <<>>
               ELSE Kws(<<"continuing">>) \o Braced(s.continuing))
           \o Kws(<<"}">>)
    [] s.op = "switch" ->
         Kws(<<"switch">>) \o <<Expr(s.id)>> \o Kws(<<"{">>) \o WriteArms(s.arms) \o Kws(<<"}">>)

WriteAll(body) == FoldLeft(LAMBDA ts, s : ts \o Write(s), <<>>, body)

----------------------------------------------------------------------------
(* What a body means.  A continuation is the sequence of statements still  *)
(* to do, with markers for the constructs a jump leaves or repeats.        *)
(* Settle runs it to the next thing the outside can see: a simple          *)
(* statement done, a condition or a selector evaluated, the end of the     *)
(* function, or (out of fuel) a loop that does nothing for ever.           *)

Marker(op, s) == [op |-> op, id |-> 0, of |-> s]
IsLoopMarker(s) == s.op \in {"body-end", "loop-back"}
IsMarker(s)     == IsLoopMarker(s) \/ s.op = "switch-end"

(* The continuation from its first marker on that is a loop's (or any).    *)
From(k, loopOnly) ==
  LET at == SelectInSeq(k, LAMBDA s : IF loopOnly THEN IsLoopMarker(s) ELSE IsMarker(s))
  IN SubSeq(k, at, Len(k))

LoopBody(s) == s.body \o <<Marker("body-end", s)>>

Event(kind, id, k) == [kind |-> kind, id |-> id, k |-> k]

RECURSIVE Settle(_, _)
Settle(k, fuel) ==
  IF k = <<>> THEN Event("return", 0, k)
  ELSE IF fuel = 0 THEN Event("spin", 0, <<>>)
  ELSE
    LET s == Head(k)
        rest == Tail(k)
        On(next) == Settle(next, fuel - 1)
    IN CASE s.op \in SimpleOps  -> Event("do", s.id, rest)
         [] s.op = "return"     -> Event("return", s.id, <<>>)
         [] s.op = "discard"    -> Event("discard", 0, <<>>)
         [] s.op \in {"if", "switch", "while", "breakif"} -> Event("eval", s.id, k)
         [] s.op = "block"      -> On(s.body \o rest)
         [] s.op = "break"      -> On(Tail(From(rest, FALSE)))
         [] s.op = "continue"   -> On(From(rest, TRUE))
         [] s.op = "switch-end" -> On(rest)
         [] s.op = "loop"       -> On(LoopBody(s) \o rest)
         [] s.op = "for" /\ s.init # <<>> -> On(s.init \o <<[s EXCEPT !.init = <<>>]>> \o rest)
         [] s.op = "for" /\ s.init = <<>> /\ s.cond # 0 -> Event("eval", s.cond, k)
         [] s.op = "for" /\ s.init = <<>> /\ s.cond = 0 -> On(LoopBody(s) \o rest)
         [] s.op = "body-end"   ->
              On((IF s.of.op = "loop" THEN s.of.continuing
                  ELSE IF s.of.op = "for" THEN s.of.step ELSE <<>>)
                 \o <<Marker("loop-back", s.of)>> \o rest)
         [] s.op = "loop-back"  ->
              On(<<IF s.of.op = "for" THEN [s.of EXCEPT !.init = <<>>] ELSE s.of>> \o rest)

(* The arm a selector value enters.                                        *)
ArmOfValue(s, v) ==
  LET Names(a, x) == \E i \in DOMAIN a.selectors : a.selectors[i] = x
      hit == {i \in DOMAIN s.arms : Names(s.arms[i], v)}
  IN IF hit # {} THEN CHOOSE i \in hit : TRUE
     ELSE CHOOSE i \in DOMAIN s.arms : Names(s.arms[i], Default)

(* After an evaluation: the continuation under the value v (a condition is *)
(* true when v is not 0).                                                  *)
Choose(k, v) ==
  LET s == Head(k)
      rest == Tail(k)
  IN CASE s.op = "if" -> (IF v # 0 THEN s.body ELSE s.else) \o rest
       [] s.op \in {"while", "for"} -> IF v # 0 THEN LoopBody(s) \o rest ELSE rest
       [] s.op = "breakif" -> IF v # 0 THEN Tail(From(rest, TRUE)) ELSE rest
       [] s.op = "switch" -> s.arms[ArmOfValue(s, v)].body \o <<Marker("switch-end", s)>> \o rest

(* The values worth telling apart for the expression evaluated next.       *)
ValuesAt(k) == IF Head(k).op = "switch" THEN 0..2 ELSE 0..1

----------------------------------------------------------------------------
(* Facts about a body.                                                     *)

(* The statement lists directly inside a statement.                        *)
SubBodies(s) ==
  CASE s.op = "block" -> {s.body}
    [] s.op = "if" -> {s.body, s.else}
    [] s.op = "loop" -> {s.body, s.continuing}
    [] s.op = "while" -> {s.body}
    [] s.op = "for" -> {s.init, s.step, s.body}
    [] s.op = "switch" -> {s.arms[i].body : i \in DOMAIN s.arms}
    [] OTHER -> {}

(* All statements of a body, at any depth.                                 *)
RECURSIVE Within(_)
Within(body) ==
  UNION {{body[i]} \cup UNION {Within(b) : b \in SubBodies(body[i])} : i \in DOMAIN body}

(* No path runs off the end of the body: each meets one of the jumps.      *)
RECURSIVE Ends(_, _)
Ends(body, jumps) ==
  \E i \in DOMAIN body :
    LET s == body[i] IN
      \/ s.op \in jumps
      \/ s.op = "block" /\ Ends(s.body, jumps)
      \/ s.op = "if" /\ s.else # <<>> /\ Ends(s.body, jumps) /\ Ends(s.else, jumps)

----------------------------------------------------------------------------
(* Every valid body of exactly n statements, numbered from i on in the     *)
(* order they are written.  c says which jumps WGSL allows at this place:  *)
(* [brk, cnt, ret].  Which simple statement stands at a place, and which   *)
(* parts a for header has, follows from its number.  None is "_ = e;".     *)

SimpleKinds == <<"var", "assign", "call", "incr">>
SimpleAt(i) == Plain(SimpleKinds[(i % Len(SimpleKinds)) + 1], i)

Jumps(i, c) ==
  UNION {IF c.ret = "none" THEN {}
           ELSE {Plain("return", IF c.ret = "value" THEN i ELSE 0), Plain("discard", 0)},
         IF c.brk THEN {Plain("break", 0)} ELSE {},
         IF c.cnt THEN {Plain("continue", 0)} ELSE {}}

InLoop(c)       == [c EXCEPT !.brk = TRUE, !.cnt = TRUE]
InSwitch(c)     == [c EXCEPT !.brk = TRUE]
InContinuing(c) == [brk |-> FALSE, cnt |-> FALSE, ret |-> "none"]

Selectors == {<<1>>, <<1, 2>>}
ForHeaders(i) ==
  {[init |-> <<>>, cond |-> 0, step |-> <<>>],
   [init |-> <<Plain("var", 20 + i)>>, cond |-> 30 + i, step |-> <<Plain("incr", 40 + i)>>]}

RECURSIVE Bodies(_, _, _), Statements(_, _, _)
Bodies(n, i, c) ==
  IF n = 0 THEN {<<>>}
  ELSE UNION {{<<s>> \o b : s \in Statements(m, i, c), b \in Bodies(n - m, i + m, c)} : m \in 1..n}

Statements(n, i, c) ==
  IF n = 1 THEN {SimpleAt(i)} \cup Jumps(i, c)
  ELSE
    LET inner(cc) == Bodies(n - 1, i + 1, cc)
        Splits(lo) == {ab \in (lo..(n - 1)) \X (0..(n - 1)) : ab[1] + ab[2] = n - 1}
        Elses(m, j) == {<<e>> : e \in {BlockOf(b) : b \in Bodies(m, j, c)}}
                         \cup {<<e>> : e \in {x \in (IF m > 1 THEN Statements(m, j, c) ELSE {}) :
                                             x.op = "if"}}
        Continuings(m, j) == Bodies(m, j, InContinuing(c))
                               \cup (IF m = 0 THEN {}
                                     ELSE {Append(b, Plain("breakif", j + m - 1)) :
                                             b \in Bodies(m - 1, j, InContinuing(c))})
        Arms(m, j, sel) == {ArmOf(sel, b) : b \in Bodies(m, j, InSwitch(c))}
    IN {BlockOf(b) : b \in inner(c)}
       \cup {IfOf(i, b, <<>>) : b \in inner(c)}
       \cup UNION {{IfOf(i, b, e) : b \in Bodies(p[1], i + 1, c), e \in Elses(p[2], i + 1 + p[1])}
                    : p \in {q \in Splits(1) : q[2] > 0}}
       \cup UNION {{LoopOf(b, t) : b \in Bodies(p[1], i + 1, InLoop(c)),
                                   t \in Continuings(p[2], i + 1 + p[1])} : p \in Splits(0)}
       \cup {WhileOf(i, b) : b \in inner(InLoop(c))}
       \cup {ForOf(h.init, h.cond, h.step, b) : h \in ForHeaders(i), b \in inner(InLoop(c))}
       \cup {SwitchOf(i, <<a>>) : a \in Arms(n - 1, i + 1, <<Default>>)}
       \cup UNION {{SwitchOf(i, <<a, d>>) :
                       a \in UNION {Arms(p[1], i + 1, sel) : sel \in Selectors},
                       d \in Arms(p[2], i + 1 + p[1], <<Default>>)}
                    \cup {SwitchOf(i, <<d, a>>) :
                            d \in Arms(p[1], i + 1, <<Default>>),
                            a \in Arms(p[2], i + 1 + p[1], <<1>>)}
                    : p \in {q \in Splits(1) : q[2] > 0}}

(* The bodies of up to size statements of a function that returns nothing  *)
(* ("void") or a value ("value"; then no path may run off its end).        *)
Functions(size, ret) ==
  {b \in UNION {Bodies(n, 1, [brk |-> FALSE, cnt |-> FALSE, ret |-> ret]) : n \in 1..size} :
     ret = "value" => Ends(b, {"return", "discard"})}
=============================================================================

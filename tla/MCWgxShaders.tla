---------------------------- MODULE MCWgxShaders ---------------------------
EXTENDS WgxShaders

FunctionsOf(size) ==
  {[body |-> b, void |-> TRUE] : b \in Functions(size, "void")}
    \cup {[body |-> b, void |-> FALSE] : b \in Functions(size, "value")}

A(i) == Plain("assign", i)
Break == Plain("break", 0)
Continue == Plain("continue", 0)
Return == Plain("return", 0)
When(i, s) == IfOf(i, <<s>>, <<>>)

(* Larger functions, one for each way the statements lean on each other    *)
(* that four statements are too few for.                                   *)
LargeBodies ==
  {(* an else-if chain with an else *)
   <<IfOf(1, <<A(2)>>, <<IfOf(3, <<A(4)>>, <<IfOf(5, <<A(6)>>, <<BlockOf(<<A(7)>>)>>)>>)>>), A(8)>>,
   (* a loop that breaks, continues and breaks in its continuing block *)
   <<LoopOf(<<When(1, Break), When(2, Continue), A(3)>>, <<A(4), Plain("breakif", 5)>>), A(6)>>,
   (* jumps of an inner loop, and of the outer one after it *)
   <<LoopOf(<<WhileOf(1, <<When(2, Continue), When(3, Break), A(4)>>), When(5, Continue), Break>>, <<A(6)>>)>>,
   (* a for loop left in three ways, in a loop *)
   <<WhileOf(1, <<ForOf(<<Plain("var", 2)>>, 3, <<Plain("incr", 4)>>,
                        <<When(5, Return), When(6, Continue), When(7, Break)>>)>>)>>,
   (* a switch of several arms in a loop, that continues it *)
   <<WhileOf(1, <<SwitchOf(2, <<ArmOf(<<1>>, <<A(3), Continue>>), ArmOf(<<2>>, <<A(4), Return>>),
                               ArmOf(<<Default>>, <<A(5)>>)>>), A(6)>>)>>,
   (* a switch in an arm, and after it *)
   <<SwitchOf(1, <<ArmOf(<<1>>, <<SwitchOf(2, <<ArmOf(<<1, 2>>, <<A(3)>>), ArmOf(<<Default>>, <<A(4)>>)>>)>>),
                   ArmOf(<<2>>, <<A(5)>>), ArmOf(<<Default>>, <<A(6)>>)>>),
     SwitchOf(7, <<ArmOf(<<Default, 1>>, <<A(8)>>), ArmOf(<<2>>, <<A(9)>>)>>)>>,
   (* "_ = e;" where it is reached, and where the lowering drops it *)
   <<A(1), LoopOf(<<When(2, Break)>>, <<Plain("phony", 3)>>)>>,
   <<IfOf(1, <<A(2), Return, Plain("phony", 3)>>, <<>>), A(4)>>}

(* All functions of up to size statements; the larger ones have size 0.    *)
MCPrograms(size) ==
  IF size = 0 THEN {[body |-> b, void |-> TRUE] : b \in LargeBodies} ELSE FunctionsOf(size)
============================================================================

---------------------------- MODULE MCEdits ---------------------------------
(* Edits of a program, as the commands a compiler sends for them, and programs that
   are folded. *)
EXTENDS Integers, TLC

F(id) == <<"PushFromMap", id>>
N(n) == <<"PushNewInteger", n>>

MCEditScripts ==
    {<<F(0), N(1), N(0), N(0), N(1), <<"PushNewArray", 4>>, <<"ChangeSchemas", 1>>>>,
     <<F(1), N(0), F(3), N(1), N(0), <<"PushNewArray", 4>>, <<"ChangeSchemas", 1>>>>,
     <<F(0), <<"PushNewArray", 0>>, <<"ChangeSchemas", -1>>>>,
     <<F(1), N(1), N(0), <<"PushNewArray", 2>>, <<"ChangeSchemas", 0>>>>,
     <<F(1), <<"PushBuiltinClass">>, <<"ChangeSuperClass">>>>,
     <<F(0), N(0), F(2), <<"PushNewArray", 2>>, <<"ChangeMethodTable">>>>,
     <<F(2), <<"PushNull">>, <<"ChangeMethodLiteral", 1>>>>,
     <<N(1), F(0), <<"PushNewInstance">>, <<"PopToMap", 3>>, F(2), F(3),
       <<"ChangeMethodLiteral", 1>>>>,
     <<F(0), <<"PushNewFunction", 1>>, <<"PushNewInitializer">>, <<"PushNewArray", 1>>,
       <<"ChangeStatics">>>>,
     <<<<"PushNewClass", 1>>, <<"PopToMap", 1>>, <<"RemoveFromMap", 3>>, <<"NewMap", 1>>,
       <<"DeleteMap", 1>>, <<"NewMap", 1>>>>}

-----------------------------------------------------------------------------
(* Seven classes in three hierarchies: all below O, two levels, four levels.  The
   selectors 1/0, 1/1 and 2/0 have methods in the classes of a shape each, D has an
   operator, and nobody has 3/0 and 3/1.  The rows get one to four ranges. *)
FoldSelector(id, arity) == [id |-> id, arity |-> arity]
FoldClasses == {"A", "B", "C", "D", "E", "F", "O"}
Hierarchies ==
    {[c \in FoldClasses \ {"O"} |-> "O"],
     ("A" :> "O") @@ ("B" :> "A") @@ ("C" :> "O") @@ ("D" :> "C") @@ ("E" :> "C") @@
     ("F" :> "O"),
     ("A" :> "F") @@ ("B" :> "A") @@ ("C" :> "B") @@ ("D" :> "O") @@ ("E" :> "F") @@
     ("F" :> "O")}
Shapes ==
    {{"C"}, {"A", "C", "E"}, {"A", "B", "D", "F"}, {"A", "D"}, {"A", "B", "E", "F"},
     {"B", "F"}, {"O", "C"}, {}}
FoldProgram(super, s1, s2, s3) ==
    LET Holders == (FoldSelector(1, 0) :> s1) @@ (FoldSelector(1, 1) :> s2) @@
                   (FoldSelector(2, 0) :> s3) @@ (FoldSelector(4, 1) :> {"D"}) @@
                   (FoldSelector(9, 0) :> {"O"})
        Call(op, id, arity) == [op |-> op, selector |-> FoldSelector(id, arity)]
    IN [heap |-> <<"F", "E", "D", "O", "C", "B", "A">>, super |-> super,
        methods |-> [c \in FoldClasses |-> {s \in DOMAIN Holders : c \in Holders[s]}],
        calls |-> <<Call("InvokeMethodUnfold", 1, 0), Call("InvokeTestUnfold", 1, 1),
                    Call("InvokeMethodUnfold", 2, 0), Call("InvokeAddUnfold", 4, 1),
                    Call("InvokeTestUnfold", 3, 0), Call("InvokeMethodUnfold", 3, 1)>>]
FoldPrograms == {FoldProgram(h, s1, s2, s3) : h \in Hierarchies, s1, s2, s3 \in Shapes}
FoldEdits == {FoldProgram(h, {"B", "F"}, {"C"}, {"A", "D"}) : h \in Hierarchies}
=============================================================================

---------------------------- MODULE MCRoutines ----------------------------
EXTENDS Routines
(* Routine bodies. *)
Ins == Simple("insert", "a")
Ins2 == Simple("insert", "b")
InsV == Simple("insert", "v")     \* inserts what was fetched
Leave(l) == Jump("leave", l, "")
Iterate(l) == Jump("iterate", l, "")
If(body) == Choice("if", <<"c">>, <<body>>)
IfElse(b1, b2) == Choice("if", <<"c", "ELSE">>, <<b1, b2>>)

\* bodies of a loop l: plain, with jumps, with branches
InLoop(l) ==
    {<<Ins>>, <<Ins, Leave(l)>>, <<If(<<Leave(l)>>), Ins>>, <<If(<<Iterate(l)>>), Ins>>,
     <<IfElse(<<Ins, Leave(l)>>, <<Ins2>>)>>, <<Ins, IfElse(<<Iterate(l)>>, <<Leave(l)>>), Ins2>>,
     <<Choice("case", <<"c", "c">>, <<<<Ins>>, <<Leave(l)>>>>), Ins2>>,
     <<Choice("if", <<"c", "c", "ELSE">>, <<<<Ins>>, <<Iterate(l)>>, <<Leave(l)>>>>), Ins2>>,
     <<Choice("case", <<"c", "ELSE">>, <<<<Iterate(l)>>, <<Simple("return", "")>>>>)>>}
MyLoops(l, bodies) ==
    {Loop(k, l, "c", b) : k \in {"while", "repeat"}, b \in bodies} \cup {Loop("loop", l, "", b) : b \in bodies}
Nested(Loops(_, _)) ==
    Loops("l1", {<<s, Ins2>> : s \in Loops("l2", InLoop("l1") \cup InLoop("l2"))}
                \cup {<<If(<<s>>), If(<<Leave("l1")>>)>> : s \in Loops("l2", InLoop("l2"))})
    \cup {Block("l1", <<>>, <<>>, <<<<s, Ins>>>>) : s \in Loops("l2", InLoop("l2") \cup {<<Ins, If(<<Leave("l1")>>)>>})}

\* the cursor idiom around a body of the loop l1
CursorDecls ==
    <<Decl("var", "done", "", <<>>), Decl("var", "v", "", <<>>), Decl("cursor", "cur", "", <<>>),
      Decl("handler", "CONTINUE", "NOT FOUND", <<Simple("set", "done")>>)>>
Done == Choice("if", <<"done">>, <<<<Leave("l1")>>>>)
Idiom(body) ==
    Block("", CursorDecls, <<>>,
          <<<<Simple("open", "cur"), Loop("loop", "l1", "", <<Simple("fetch", "cur"), Done>> \o body), Simple("close", "cur"), Ins2>>>>)
\* FETCH without a loop around it
StraightFetch ==
    {<<Simple("open", "cur"), Simple("fetch", "cur"), InsV, Simple("fetch", "cur"), If(<<InsV>>), Simple("close", "cur")>>,
     <<InsV, Simple("open", "cur"), If(<<Simple("fetch", "cur")>>), InsV, Simple("close", "cur"), Ins>>}
MyBodies ==
    {<<s, Ins2>> : s \in MyLoops("l1", InLoop("l1")) \cup MyLoops("", {<<Ins>>}) \cup Nested(MyLoops)}
    \cup {<<Choice("case", <<"c", "c">>, <<<<Ins>>, <<Simple("call", "p")>>>>), Ins2>>,
           <<Simple("raise", "mine"), Ins>>, <<If(<<Simple("raise", "mine")>>), Ins>>}
MySources ==
    {Block("", <<>>, <<>>, <<b>>) : b \in MyBodies}
    \cup {Block("", <<Decl("var", "v", "", <<>>), Decl("cursor", "cur", "", <<>>)>>, <<>>, <<b>>) : b \in StraightFetch}
    \cup {Idiom(b) : b \in InLoop("l1") \cup {<<InsV>>, <<If(<<InsV>>)>>} \cup {<<s>> : s \in MyLoops("l2", InLoop("l2") \cup InLoop("l1"))}}
    \cup {Block("", <<Decl("handler", "EXIT", "SQLEXCEPTION", <<Ins>>)>>, <<>>, <<<<Simple("raise", "mine")>>>>)}

OraLoops(l, bodies) ==
    {Loop("while", l, "c", b) : b \in bodies} \cup {Loop(k, l, "", b) : k \in {"loop", "forquery", "forrange"}, b \in bodies}
ExitWhen(l, x) == Jump("leave", l, x)
OraIn(l) == InLoop(l) \cup {<<Ins, ExitWhen("", "c"), Ins2>>, <<Jump("iterate", "", "c"), Ins, ExitWhen(l, "c")>>}
Fetching(body) ==
    Block("", <<Decl("cursor", "cur", "", <<>>), Decl("var", "v", "", <<>>)>>, <<>>,
          <<<<Simple("open", "cur"), Loop("loop", "", "", <<Simple("fetch", "cur")>> \o body), Simple("close", "cur")>>>>)
Raise(x) == Simple("raise", x)
HandlerBodies ==
    {<<Ins2>>, <<Ins, Ins2>>, <<Raise("")>>, <<Ins2, Raise("")>>, <<If(<<Raise("")>>), Ins2>>, <<If(<<Ins>>)>>,
     <<Loop("loop", "", "", <<Ins, ExitWhen("", "c")>>)>>, <<Loop("forrange", "", "", <<If(<<Ins>>)>>), Ins2>>,
     <<Choice("case", <<"c", "ELSE">>, <<<<Ins>>, <<Ins2>>>>)>>,
     <<Block("", <<>>, <<>>, <<<<Ins>>>>), Ins2>>, <<Simple("null", "")>>, <<Raise("mine")>>}
Handled(names, bodies, body) == Block("", <<Decl("exception", "mine", "", <<>>)>>, names, <<body>> \o bodies)
Risky == {<<Ins, Raise("mine"), Ins2>>, <<If(<<Raise("mine")>>), Ins2>>, <<Raise("NO_DATA_FOUND")>>, <<Ins>>}
OraHandled ==
    {Handled(<<"OTHERS">>, <<h>>, b) : h \in HandlerBodies, b \in Risky}
    \cup {Handled(<<n, "OTHERS">>, <<g, h>>, b) :
             n \in {"mine", "NO_DATA_FOUND"}, g \in HandlerBodies, h \in {<<Ins>>, <<Raise("")>>}, b \in Risky}
    \cup {Handled(<<n>>, <<g>>, b) : n \in {"mine", "NO_DATA_FOUND"}, g \in HandlerBodies, b \in Risky}
OraSources ==
    {Block("", <<>>, <<>>, <<<<s, Ins2>>>>) :
        s \in OraLoops("l1", OraIn("l1")) \cup OraLoops("", {<<Ins>>}) \cup Nested(OraLoops)}
    \cup {Fetching(<<ExitWhen("", "cur%NOTFOUND")>> \o b) : b \in {<<Ins>>, <<If(<<Ins>>)>>, <<InsV, ExitWhen("", "c")>>, <<If(<<InsV>>), Simple("fetch", "cur"), InsV>>}}
    \cup {Fetching(<<b, ExitWhen("", "cur%NOTFOUND")>>) : b \in {Ins, InsV}}
    \cup {Block("", <<>>, <<>>, <<<<Fetching(<<ExitWhen("", "cur%NOTFOUND"), InsV>>), Ins>>>>)}
    \cup OraHandled
    \cup {Block("", <<>>, <<>>, <<<<h, Ins2>>>>) : h \in OraHandled}
    \cup {Block("", <<>>, <<>>, <<<<Simple("goto", "l1"), Ins>>>>), Block("", <<>>, <<>>, <<<<Simple("call", "p"), Simple("null", "")>>>>)}

MCRoutineSources == [mysql |-> MySources, oracle |-> OraSources]
MCTapes == UNION {[1..n -> BOOLEAN] : n \in 0..4}

RtSpec == RtInit /\ [][RtNext]_rtVars
============================================================================

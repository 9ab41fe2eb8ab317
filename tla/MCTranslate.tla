---------------------------- MODULE MCTranslate ----------------------------
(***************************************************************************)
(* The parts of the translator, from the parsers on.  Each is a pass of    *)
(* its own over the source schema and they share no state here, so focus   *)
(* follows one at a time.                                                  *)
(***************************************************************************)
EXTENDS Triggers, TableDDL, Expr, MCRoutines, MCColumnTypes, MCDump

VARIABLE focus

\* am, m, B and Z
MCTrgNames == {<<97, 109>>, <<109>>, <<66>>, <<90>>}

MCTdTables == <<"t1", "t2">>

MCFKs == {NoFK} \cup
    {[from |-> f, to |-> t, noValidate |-> n, disabled |-> d] :
        f \in {"id", "ref"}, t \in {"t1", "t2", "elsewhere"}, n \in BOOLEAN, d \in BOOLEAN}

MCTdShapes ==
    {[type |-> [id |-> ty, ref |-> "integer"], auto |-> a, parts |-> p, late |-> FALSE,
      indexes |-> <<<<"x">>>>, fk |-> fk] :
         ty \in {"integer", "numeric"}, a \in BOOLEAN, p \in BOOLEAN,
         fk \in {f \in MCFKs : ~(f.noValidate /\ f.disabled)}}
    \cup
    {[type |-> [id |-> "integer", ref |-> "integer"], auto |-> FALSE, parts |-> FALSE, late |-> TRUE,
      indexes |-> ix, fk |-> fk] :
         ix \in {<<<<"x">>>>, <<<<"t2", "x">>>>, <<<<"x">>, <<"t2", "x">>>>, <<<<"t2", "x">>, <<"x">>>>},
         fk \in {NoFK} \cup {[NoFK EXCEPT !.from = "ref", !.to = t] : t \in {"t1", "t2"}}}

MCTdLoads == {[max |-> 0, counter |-> 1], [max |-> 3, counter |-> 6]}

\* Expressions: an operator over leaves, over such operators, and one more
\* around a few of those.
A == Leaf("a")
Over(bins, x, y) == {Node(op, <<l, r>>) : op \in bins, l \in x, r \in y}
MyBins == {"OR", "AND", "||", "=", "<=>", "IS NOT", "LIKE", "NOT LIKE", "+", "-", "*", "DIV"}
MyAround(x) ==
    {Node(op, <<e>>) : op \in {"NOT", "u-", "f(", "JSON_UNQUOTE(", "count(DISTINCT"}, e \in x}
    \cup {Node(op, <<e, Node("INTERVAL", <<i>>)>>) :
             op \in {"DATE_ADD(", "DATE_SUB("}, e \in x, i \in x \cup {Leaf("1")}}
    \cup {Node(op, <<e, g>>) : op \in {"IN", "NOT IN", "CASE"}, e \in x, g \in {A}}
    \cup {Node(op, <<e, g, h>>) : op \in {"BETWEEN", "NOT BETWEEN"}, e \in x, g \in x, h \in {A}}
    \cup {Node(op, <<g, h, e>>) : op \in {"BETWEEN"}, e \in x, g \in {A}, h \in {A}}
My1 == {A} \cup Over(MyBins, {A}, {A}) \cup MyAround({A})
My2 == Over(MyBins, My1, My1) \cup MyAround(My1)
MyCore == {Node(op, <<x>>) : op \in {"NOT", "u-", "JSON_UNQUOTE("}, x \in Over({"AND", "=", "-"}, {A}, {A})}
          \cup Over({"AND", "=", "-"}, {A}, Over({"OR", "=", "-", "DIV"}, {A}, {A}))
MySQLSources == My2 \cup Over(MyBins, MyCore, My1) \cup Over(MyBins, My1, MyCore)

OraVal1 == {A} \cup Over({"+", "-", "*", "/", "||"}, {A}, {A}) \cup {Node(op, <<A>>) : op \in {"u-", "f(", "count(DISTINCT"}}
OraVal2 == Over({"+", "-", "*", "/", "||"}, OraVal1, OraVal1) \cup {Node(op, <<x>>) : op \in {"u-", "f("}, x \in OraVal1}
OraCond1 == Over({"=", "<", "LIKE", "NOT LIKE"}, OraVal1, OraVal1) \cup
            {Node(op, <<x, y, A>>) : op \in {"BETWEEN", "NOT BETWEEN"}, x \in OraVal1, y \in OraVal1} \cup
            {Node(op, <<x, A>>) : op \in {"IN", "NOT IN", "IS NOT"}, x \in OraVal1}
OraCond0 == {c \in OraCond1 : \A i \in 1..Len(c.args) : c.args[i] \in {A, Node("+", <<A, A>>)}}
OraCond2 == Over({"AND", "OR"}, OraCond0, OraCond0) \cup {Node("NOT", <<c>>) : c \in OraCond0}
            \cup {Node("CASE", <<c, x>>) : c \in OraCond0, x \in OraVal1}
OraCore == {Node("NOT", <<c>>) : c \in Over({"=", "AND"}, {A}, {A})} \cup Over({"AND", "OR"}, {A}, Over({"AND", "OR"}, {A}, {A}))
OraCond3 == Over({"AND", "OR"}, OraCore, OraCore)
MCExprSources == [mysql |-> MySQLSources, oracle |-> OraVal2 \cup OraCond1 \cup OraCond2 \cup OraCond3]

\* A part that is not in focus rests in a fixed initial state.
AShape == CHOOSE s \in MCTdShapes : s.fk = NoFK
ARoutine == CHOOSE s \in MySources : TRUE
AType == CHOOSE s \in MCTypeSources["mysql"] : TRUE
TrgIdle == trgKind = "oracle" /\ trgDump = <<>> /\ TrgStart
TdIdle ==
    /\ tdShape = [t \in SourceTables |-> AShape]
    /\ tdLoad = [t \in SourceTables |-> [max |-> 0, counter |-> 1]]
    /\ TdStart
ExIdle == exKind = "mysql" /\ exSrc = A /\ ExStart
RtIdle == rtKind = "mysql" /\ rtSrc = ARoutine /\ RtStart
TyIdle == tyKind = "mysql" /\ tySrc = AType /\ TyStart
DpIdle == dpKind = "mysql" /\ dpDump = <<>> /\ DpStart

Init ==
    \/ focus = "triggers" /\ TrgInit /\ TdIdle /\ ExIdle /\ RtIdle /\ TyIdle /\ DpIdle
    \/ focus = "tables" /\ TdInit /\ TrgIdle /\ ExIdle /\ RtIdle /\ TyIdle /\ DpIdle
    \/ focus = "expressions" /\ ExInit /\ TrgIdle /\ TdIdle /\ RtIdle /\ TyIdle /\ DpIdle
    \/ focus = "routines" /\ RtInit /\ TrgIdle /\ TdIdle /\ ExIdle /\ TyIdle /\ DpIdle
    \/ focus = "types" /\ TyInit /\ TrgIdle /\ TdIdle /\ ExIdle /\ RtIdle /\ DpIdle
    \/ focus = "dumps" /\ DpInit /\ TrgIdle /\ TdIdle /\ ExIdle /\ RtIdle /\ TyIdle

Next ==
    \/ focus = "triggers" /\ TrgNext /\ UNCHANGED <<focus, tdVars, exVars, rtVars, tyVars, dpVars>>
    \/ focus = "tables" /\ TdNext /\ UNCHANGED <<focus, trgVars, exVars, rtVars, tyVars, dpVars>>
    \/ focus = "expressions" /\ ExNext /\ UNCHANGED <<focus, trgVars, tdVars, rtVars, tyVars, dpVars>>
    \/ focus = "routines" /\ RtNext /\ UNCHANGED <<focus, trgVars, tdVars, exVars, tyVars, dpVars>>
    \/ focus = "types" /\ TyNext /\ UNCHANGED <<focus, trgVars, tdVars, exVars, rtVars, dpVars>>
    \/ focus = "dumps" /\ DpNext /\ UNCHANGED <<focus, trgVars, tdVars, exVars, rtVars, tyVars>>

vars == <<focus, trgVars, tdVars, exVars, rtVars, tyVars, dpVars>>

Spec == Init /\ [][Next]_vars
============================================================================

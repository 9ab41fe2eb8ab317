------------------------------- MODULE Syntax -------------------------------
(***************************************************************************)
(* Productions: how the functions of the parsers of internal/dialects are  *)
(* written down.  A production is a sequence of items, one for every test  *)
(* a function makes of the current token and every value it keeps; module  *)
(* Parsing runs them in their order.                                       *)
(***************************************************************************)
EXTENDS Sequences

NoValue == <<>>
Yes == <<"yes">>
No == <<"no">>

\* if p.isKw(w) { p.advance() }, and expectKw(w)
May(ws) == [op |-> "may", ws |-> ws]
Must(w) == [op |-> "must", w |-> w]
MustAll(ws) == [i \in DOMAIN ws |-> Must(ws[i])]
Err == [op |-> "err"]
Nil == [op |-> "nil"]
Put(field, x) == [op |-> "put", field |-> field, x |-> x]
Flag(field) == Put(field, Yes)
\* the node is of this kind, and of what was read before it has these fields
Node(kind, fields) == [op |-> "node", kind |-> kind, fields |-> fields]
Kind(kind) == Put("is", <<kind>>)
Drop(field) == [op |-> "drop", field |-> field]
Move(from, to) == [op |-> "move", from |-> from, to |-> to]
\* a value goes into a field, if there is one; the field "" is none
In(op, field, arg) == [op |-> op, field |-> field, arg |-> arg, to |-> "set", sep |-> <<>>]
Val(how, field) == In("val", field, how)
Word(ws, field) == In("word", field, ws)
Text(stops, field) == In("text", field, stops)
Flat(stops, field) == In("flat", field, stops)
Within(stops, field) == In("within", field, stops)
\* ... or what g keeps of the tokens it reads, one behind the other
Keeps(field, g) == In("keeps", field, g)
Keep(ws) == [op |-> "keep", ws |-> ws]
\* the value of g goes behind what was kept before; is lost; or all before it is
Value(g) == [op |-> "value", g |-> g]
Unkept(g) == [op |-> "unkept", g |-> g]
Restart == [op |-> "restart"]
\* all the tokens of g are kept, and the fields it sets are not
Consumed(g) == [op |-> "consumed", g |-> g]
\* ... or becomes one more of a list, or goes behind what the field has
Add(item) == [item EXCEPT !.to = "add"]
Extend(item, sep) == [item EXCEPT !.to = "extend", !.sep = sep]
\* what a field has becomes one of the list of another
Group(from, to) == [op |-> "group", from |-> from, to |-> to]
\* if the last value is missing: g, and nil
Need(g) == [op |-> "need", g |-> g]
\* a node of its own, one of a list of nodes or the only one
Sub(field, kind, g) == [op |-> "sub", field |-> field, kind |-> kind, g |-> g]
One(field, kind, g) == [op |-> "one", field |-> field, kind |-> kind, g |-> g]
\* the node goes into a field of a new one, which takes its place
Wrap(field, kind) == [op |-> "wrap", field |-> field, kind |-> kind]
\* the node in a field takes the place of the one that has it
Become(field) == [op |-> "become", field |-> field]
\* nil, if nothing is in the field
Has(field) == [op |-> "has", field |-> field]
\* a list of one node of this kind gives its fields to the node that has it
Hoist(field, kind) == [op |-> "hoist", field |-> field, kind |-> kind]
\* a production by its name
Call(rule) == [op |-> "call", rule |-> rule]
Expr(field) == Keeps(field, <<Call("expr")>>)
\* the variables of a SELECT ... INTO, which the parser keeps outside the node
Into == [op |-> "into"]
\* a parser of its own reads the last value: a query, or one expression
AsQuery(field) == [op |-> "query", field |-> field]
AsExpr(field) == [op |-> "expr", field |-> field]
\* g {, g}, and g {, g} up to a ")" that may come at once
List(g) == [op |-> "list", g |-> g]
Each(g) == [op |-> "each", g |-> g]
\* a switch, once or until no arm fits
Switch(arms) == [op |-> "switch", arms |-> arms]
Loop(arms) == [op |-> "loop", arms |-> arms]
\* an arm tests the current token, and perhaps the one after it, and skips them
Arm(ws, next, skip, g) == [ws |-> ws, next |-> next, skip |-> skip, has |-> "", x |-> NoValue, leave |-> FALSE, g |-> g]
At(ws, g) == Arm(ws, {}, 1, g)
AtPair(ws, next, g) == Arm(ws, next, 2, g)
See(ws, g) == Arm(ws, {}, 0, g)
SeePair(ws, next, g) == Arm(ws, next, 0, g)
Else(g) == Arm({"<any>", "EOF"}, {}, 0, g)
\* ... or what has been read
Having(field, x, arm) == [arm EXCEPT !.has = field, !.x = x]
Leave(arm) == [arm EXCEPT !.leave = TRUE]
\* an arm that keeps its token, and one on its own that does so if it can
On(ws, g) == See(ws, <<Keep(ws)>> \o g)
OnPair(ws, next, g) == SeePair(ws, next, <<Keep(ws), Keep(next)>> \o g)
KeepIf(ws) == Switch(<<On(ws, <<>>)>>)
When(ws, g) == Switch(<<At(ws, g)>>)
Parens(g) == <<Must("(")>> \o g \o <<Must(")")>>
=============================================================================

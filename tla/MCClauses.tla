----------------------------- MODULE MCClauses -----------------------------
(***************************************************************************)
(* How the statements of a dump are written: a statement is made of        *)
(* clauses, and a clause is the words it is written with and the fields it *)
(* stands for.                                                             *)
(***************************************************************************)
EXTENDS Dump, FiniteSetsExt

Cl(ws, fields) == [w |-> ws, f |-> fields]
Noise(ws) == Cl(ws, <<>>)
\* f is a flag, or holds a value
Sets(ws, f) == Cl(ws, f :> <<"yes">>)
Unsets(ws, f) == Cl(ws, f :> <<"no">>)
Says(ws, f, v) == Cl(ws \o v, f :> v)
Between(ws, f, v, end) == Cl(ws \o v \o end, f :> v)

\* Two clauses in a row: lists that both have a part of grow.
Then(c, d) ==
    [w |-> c.w \o d.w,
     f |-> [x \in DOMAIN c.f \cup DOMAIN d.f |->
               CASE x \notin DOMAIN d.f -> c.f[x] [] x \notin DOMAIN c.f -> d.f[x] [] OTHER -> c.f[x] \o d.f[x]]]
All(cs) == FoldLeft(Then, Noise(<<>>), cs)
Commas(cs) == FoldLeft(LAMBDA c, d : Then(Then(c, Noise(<<",">>)), d), Head(cs), Tail(cs))
InParens(c) == All(<<Noise(<<"(">>), c, Noise(<<")">>)>>)

\* A clause as a node: one of a list, or the only one.
NodeOf(kind, c) == ("is" :> <<kind>>) @@ c.f
OneOf(f, kind, c) == Cl(c.w, f :> <<NodeOf(kind, c)>>)
Only(f, kind, c) == Cl(c.w, f :> NodeOf(kind, c))

\* no field twice, and no default for a column that is computed
Fits(c, d) ==
    DOMAIN c.f \cap DOMAIN d.f = {} /\ ~{"generated", "default"} \subseteq DOMAIN c.f \cup DOMAIN d.f
UpToTwo(opts) ==
    {<<>>} \cup {<<c>> : c \in opts} \cup {cd \in opts \X opts : cd[1] # cd[2] /\ Fits(cd[1], cd[2])}
Free(cs, opts) == {Then(All(cs), All(o)) : o \in UpToTwo(opts)}
Maybe(c) == {Noise(<<>>), c}

Ref(ws, f) == Cl(ws \o <<"s", ".", "u">>, f :> <<"s", "u">>)

\* A statement, with its delimiter.
Of(kind, cs, end) == {[w |-> c.w \o end, node |-> NodeOf(kind, c), sound |-> TRUE] : c \in cs}
Ended(kind, cs) == Of(kind, cs, <<";">>)

\* One clause in every place, and in one or in up to two of them another.
Place(usual, others) == [usual |-> usual, others |-> others]
UsualIn(places) == [i \in DOMAIN places |-> places[i].usual]
OneVaried(places) ==
    LET usual == UsualIn(places)
        once == UNION {{[usual EXCEPT ![i] = c] : c \in places[i].others} : i \in DOMAIN places}
    IN  {All(cs) : cs \in {usual} \cup once}
Varied(places) ==
    LET usual == UsualIn(places)
        twice == UNION {{[usual EXCEPT ![i] = c, ![k] = d] : c \in places[i].others, d \in places[k].others} :
                        <<i, k>> \in {x \in (DOMAIN places) \X (DOMAIN places) : x[1] < x[2]}}
    IN  OneVaried(places) \cup {All(cs) : cs \in twice}
=============================================================================

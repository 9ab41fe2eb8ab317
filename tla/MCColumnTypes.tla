--------------------------- MODULE MCColumnTypes ---------------------------
(* Column types with the values at their limits. *)
EXTENDS ColumnTypes

Src(text, values) == [text |-> text, values |-> values]
Args(ns) == IF ns = <<>> THEN <<>> ELSE IF Len(ns) = 1 THEN <<W("("), N(ns[1]), W(")")>>
            ELSE <<W("("), N(ns[1]), W(","), N(ns[2]), W(")")>>
Ty(name, ns) == <<W(name)>> \o Args(ns)
Sized(name, n, unit) == <<W(name), W("("), N(n), W(unit), W(")")>>
Words(ws) == [i \in 1..Len(ws) |-> W(ws[i])]

Zero == Num(FALSE, Edge(2, 0), 0)
One == Num(FALSE, Edge(2, 1), 0)
Signed(b, e) == {Zero, One, Num(FALSE, Edge(b, e), 0), Num(TRUE, Edge(b, e), 0)}
Unsigned(b, e) == {Zero, One, Num(FALSE, Edge(b, e), 0)}
Decimals(p, s) == {Num(n, Edge(10, p - s), s) : n \in BOOLEAN} \cup {Zero}
Strings(n) == {Chars(0, FALSE), Chars(n, FALSE), Chars(n, TRUE)}
Octets(n) == {Bytes(0), Bytes(n)}
Moments(p) == {Moment(0), Moment(p)}

MyInts == {<<"TINYINT", 7>>, <<"SMALLINT", 15>>, <<"MEDIUMINT", 23>>, <<"INT", 31>>, <<"BIGINT", 63>>}
MyTypes ==
    {Src(Ty(t[1], w), Signed(2, t[2])) : t \in MyInts, w \in {<<>>, <<4>>}}
    \cup {Src(Ty(t[1], w) \o Words(u), Unsigned(2, t[2] + 1)) :
             t \in MyInts, w \in {<<>>, <<1>>}, u \in {<<"UNSIGNED">>, <<"UNSIGNED", "ZEROFILL">>}}
    \cup {Src(Ty("TINYINT", <<1>>), Signed(2, 7)), Src(Ty("FLOAT", <<5, 1>>), Decimals(5, 1))}
    \cup {Src(Ty(t, <<10, a>>) \o Words(u), Decimals(10, a)) :
             t \in {"DECIMAL", "NUMERIC"}, a \in {0, 1}, u \in {<<>>, <<"SIGNED">>}}
    \cup {Src(Ty("DECIMAL", <<>>), Decimals(10, 0)), Src(Ty("DECIMAL", <<10>>) \o Words(<<"UNSIGNED", "ZEROFILL">>), {Zero, One})}
    \cup {Src(Ty("FLOAT", <<>>), {Real(24)}), Src(Ty("FLOAT", <<53>>), {Real(53)}), Src(Words(<<"DOUBLE", "PRECISION">>), {Real(53)})}
    \cup {Src(Ty("BIT", <<n>>), {Bits((n + 7) \div 8, b) : b \in BOOLEAN}) : n \in {1, 2, 8, 9, 64}}
    \cup {Src(Ty(t, <<n>>) \o Words(cs), Strings(n)) :
             t \in {"CHAR", "VARCHAR"}, n \in {1, 3},
             cs \in {<<>>, <<"CHARACTER", "SET", "utf8mb4">>, <<"CHARSET", "=", "utf8mb4", "COLLATE", "=", "utf8mb4_bin">>}}
    \cup {Src(Ty(t, <<>>) \o Words(<<"COLLATE", "utf8mb4_bin">>), Strings(3)) : t \in {"TEXT", "LONGTEXT"}}
    \cup {Src(Ty("BLOB", <<>>), Octets(3)), Src(Ty("BINARY", <<3>>), {Bytes(3)}), Src(Ty("VARBINARY", <<3>>), Octets(3))}
    \cup {Src(Words(<<t, "(", "'v'", ",", "'v'", ")">>), {Members(i) : i \in (IF t = "SET" THEN 0 ELSE 1)..2}) : t \in {"ENUM", "SET"}}
    \cup {Src(Ty("JSON", <<>>), {Chars(3, FALSE)}), Src(Ty("DATE", <<>>), {Moment(0)}), Src(Ty("YEAR", <<4>>), {Zero, Num(FALSE, Edge(10, 4), 0)})}
    \cup {Src(Ty(t, a), Moments(IF a = <<>> THEN 0 ELSE a[1])) : t \in {"DATETIME", "TIMESTAMP"}, a \in {<<>>, <<3>>, <<6>>}}
    \cup {Src(Ty("TIME", a), {TimeOfDay(IF a = <<>> THEN 0 ELSE a[1], d) : d \in BOOLEAN}) : a \in {<<>>, <<3>>, <<6>>}}
    \cup {Src(Ty(t, <<>>), {Bytes(3)}) : t \in {"GEOMETRY", "UUID"}} \cup {Src(Ty("VECTOR", <<3>>), {Bytes(3)})}

OraTypes ==
    {Src(Ty("NUMBER", <<p>>), Signed(10, p)) : p \in {1, 4, 5, 9, 10, 18, 19, 38}}
    \cup {Src(Ty("NUMBER", <<p, a>>), Decimals(p, a)) : p \in {10, 19}, a \in {0, 1}}
    \cup {Src(Ty("NUMBER", <<3, -2>>), {Zero, Num(FALSE, Edge(10, 5), 0)})}
    \cup {Src(Ty("NUMBER", <<>>), Decimals(38, 0) \cup {Num(FALSE, Edge(10, 38), 9)}),
          Src(<<W("NUMBER"), W("("), W("*"), W(","), N(0), W(")")>>, Signed(10, 38)), Src(Ty("INTEGER", <<>>), Signed(10, 38))}
    \cup {Src(Ty("FLOAT", <<126>>), {Real(53), Real(99)}), Src(Ty("REAL", <<>>), {Real(53)}), Src(Words(<<"DOUBLE", "PRECISION">>), {Real(53)}),
          Src(Ty("BINARY_FLOAT", <<>>), {Real(24)}), Src(Ty("BINARY_DOUBLE", <<>>), {Real(53)})}
    \cup {Src(Sized(t, 3, u), Strings(3)) : t \in {"VARCHAR2", "CHAR"}, u \in {"CHAR", "BYTE"}}
    \cup {Src(Ty(t, <<3>>), Strings(3)) : t \in {"VARCHAR2", "NVARCHAR2", "CHAR", "NCHAR"}} \cup {Src(Ty("CHAR", <<>>), Strings(1))}
    \cup {Src(Ty(t, <<>>), Strings(3)) : t \in {"CLOB", "NCLOB", "LONG", "JSON", "XMLTYPE", "'XMLTYPE'", "T_ADDRESS"}}
    \cup {Src(Words(<<"LONG", "RAW">>), Octets(3)), Src(Ty("RAW", <<3>>), Octets(3)), Src(Ty("BLOB", <<>>), Octets(3))}
    \cup {Src(Ty("ORDIMAGE", <<>>), Octets(3)), Src(Ty("ANYDATA", <<>>), Octets(3)), Src(Ty("VECTOR", <<3>>), Octets(3))}
    \cup {Src(Ty("DATE", <<>>), {Moment(0)})}
    \cup {Src(Ty("TIMESTAMP", a) \o Words(z), Moments(IF a = <<>> THEN 6 ELSE a[1])) :
             a \in {<<>>, <<0>>, <<3>>, <<9>>}, z \in {<<>>, <<"WITH", "TIME", "ZONE">>, <<"WITH", "LOCAL", "TIME", "ZONE">>}}
    \cup {Src(Ty("INTERVAL", <<>>) \o Ty("YEAR", a) \o Words(<<"TO", "MONTH">>), {Span(0)}) : a \in {<<>>, <<4>>}}
    \cup {Src(Ty("INTERVAL", <<>>) \o Ty("DAY", a) \o Words(<<"TO">>) \o Ty("SECOND", b), {Span(0), Span(IF b = <<>> THEN 6 ELSE b[1])}) :
             a \in {<<>>, <<4>>}, b \in {<<>>, <<9>>}}
    \cup {Src(Ty("BOOLEAN", <<>>), {Bool(b) : b \in BOOLEAN})}

DB2Types ==
    {Src(Ty("SMALLINT", <<>>), Signed(2, 15)), Src(Ty("INTEGER", <<>>), Signed(2, 31)), Src(Ty("BIGINT", <<>>), Signed(2, 63))}
    \cup {Src(Ty("DECIMAL", <<10, a>>), Decimals(10, a)) : a \in {0, 1}} \cup {Src(Ty("DEC", <<>>), Decimals(5, 0)), Src(Ty("DECFLOAT", <<34>>), Decimals(19, 9))}
    \cup {Src(Ty("REAL", <<>>), {Real(24)}), Src(Ty("FLOAT", <<24>>), {Real(24)}), Src(Ty("FLOAT", <<25>>), {Real(53)}), Src(Words(<<"DOUBLE", "PRECISION">>), {Real(53)})}
    \cup {Src(t \o Words(z), Strings(3)) :
             t \in {Ty("CHAR", <<3>>), Sized("VARCHAR", 3, "OCTETS"), Words(<<"CHARACTER">>) \o Ty("VARYING", <<3>>)},
             z \in {<<>>, <<"FOR", "MIXED", "DATA">>}}
    \cup {Src(Ty(t, <<3>>) \o Words(<<"FOR", "BIT", "DATA">>), Octets(3)) : t \in {"CHAR", "VARCHAR"}}
    \cup {Src(Ty(t, <<3>>), Strings(3)) : t \in {"GRAPHIC", "VARGRAPHIC", "DBCLOB", "CLOB"}}
    \cup {Src(Sized("CLOB", 1, "M"), Strings(3)), Src(Words(<<"CHAR", "LARGE">>) \o Ty("OBJECT", <<9>>), Strings(3)), Src(Words(<<"LONG", "VARCHAR">>), Strings(3)),
          Src(Words(<<"LONG", "VARGRAPHIC">>), Strings(3)), Src(Ty("XML", <<>>), Strings(3)), Src(Ty("T_ADDRESS", <<>>), Strings(3))}
    \cup {Src(t, Octets(3)) : t \in {Sized("BLOB", 1, "M"), Ty("BINARY", <<3>>), Ty("VARBINARY", <<3>>), Words(<<"BINARY", "LARGE">>) \o Ty("OBJECT", <<9>>)}}
    \cup {Src(Ty("DATE", <<>>), {Moment(0)}), Src(Ty("TIME", <<>>), {TimeOfDay(0, TRUE)})}
    \cup {Src(Ty("TIMESTAMP", a) \o Words(z), Moments(IF a = <<>> THEN 6 ELSE a[1])) :
             a \in {<<>>, <<0>>, <<6>>, <<12>>}, z \in {<<>>, <<"WITHOUT", "TIME", "ZONE">>, <<"WITH", "TIME", "ZONE">>}}
DB2LUWOnly == {Src(Ty("BOOLEAN", <<>>), {Bool(b) : b \in BOOLEAN})}

MCTypeSources == [mysql |-> MyTypes, oracle |-> OraTypes, db2 |-> DB2Types \cup DB2LUWOnly, db2zos |-> DB2Types]

TySpec == TyInit /\ [][TyNext]_tyVars
=============================================================================
